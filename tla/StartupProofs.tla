--------------------------- MODULE StartupProofs ----------------------------
(***************************************************************************)
(* Proofs about Startup, for every number of pipes and of slaves and every *)
(* size of the queues and of the chip's FIFO.                              *)
(***************************************************************************)
EXTENDS Startup, SequenceTheorems, TLAPS

\* What the assumption says of each constant.
LEMMA Sizes ==
  /\ MAX_SLAVES \in Nat \ {0} /\ FIFO_SIZE \in Nat \ {0} /\ IRQ_QUEUE_SIZE \in Nat \ {0}
  /\ TIMER_QUEUE_SIZE \in Nat \ {0} /\ LAST_PIPE \in Nat \ {0, 1}
BY StartupAssumption

USE Sizes
-----------------------------------------------------------------------------
(***************************************************************************)
(* The pipes of the chip.                                                  *)
(***************************************************************************)
Adding == {"width", "address", "enable"}
Added  == {"clear", "tasks", "offline", "timer", "run"}

\* A pipe has its width and its address before it is enabled, and the loop of
\* io_thread_init has enabled all pipes below its index; hb_init's index is of a slave.
Wired ==
  /\ addr \in [Pipe -> Pipe] /\ width \in [Pipe -> {0, PAYLOAD}] /\ enabled \subseteq Pipe
  /\ {0, 1} \subseteq enabled
  /\ \A p \in enabled : p > 1 => addr[p] = p /\ width[p] = PAYLOAD /\ addr[1] = 1
  /\ mode # "DOWN" \/ nrf_mutex = "send" \/ main \notin {"init", "config", "halt", "panic"} =>
       width[0] = PAYLOAD /\ width[1] = PAYLOAD
  /\ main \in Adding => i \in 2 .. LAST_PIPE /\ addr[1] = 1 /\ 2 .. i - 1 \subseteq enabled
  /\ main \in {"address", "enable"} => width[i] = PAYLOAD
  /\ main = "enable" => addr[i] = i
  /\ main \in {"offline", "timer"} => i \in Monitored
  /\ main \in Added \/ recv # "none" => enabled = Pipe
  /\ recv # "none" => main \in {"offline", "timer", "run", "panic"}

LEMMA WiredAlways == Spec => []Wired
<1> USE DEF Pipe, PAYLOAD, Monitored
<1>1. Init => Wired
  BY DEF Init, Wired, Adding, Added
<1>2. Wired /\ [Next]_vars => Wired'
  <2> SUFFICES ASSUME Wired, [Next]_vars  PROVE Wired'
    OBVIOUS
  <2> USE DEF Wired, Adding, Added
  <2>20. ASSUME UNCHANGED <<main, i, addr, width, enabled, mode>>,
                nrf_mutex' = "send" => nrf_mutex = "send", recv' = "none" <=> recv = "none"
         PROVE  Wired'
    BY <2>20
  <2>1. CASE InitPins
    BY <2>1 DEF InitPins, recvVars
  <2>2. CASE SetWidths
    <3>1. /\ main = "config" /\ main' = "listen"
          /\ width' = [width EXCEPT ![0] = PAYLOAD, ![1] = PAYLOAD]
          /\ UNCHANGED <<i, recv, nrf_mutex, addr, enabled, mode>>
      BY <2>2 DEF SetWidths, recvVars
    <3>2. /\ width' \in [Pipe -> {0, PAYLOAD}] /\ width'[0] = PAYLOAD /\ width'[1] = PAYLOAD
          /\ \A p \in Pipe : p > 1 => width'[p] = width[p]
      <4>1. width \in [Pipe -> {0, PAYLOAD}]
        BY Zenon
      <4> HIDE DEF Wired
      <4>2. 0 \in Pipe /\ 1 \in Pipe /\ \A p \in Pipe : p > 1 => p # 0 /\ p # 1
        OBVIOUS
      <4> HIDE DEF Pipe, PAYLOAD
      <4> QED
        BY <3>1, <4>1, <4>2
    <3> QED
      BY <3>1, <3>2
  <2>3. CASE Nrf24_powerUpRx
    BY <2>3 DEF Nrf24_powerUpRx, recvVars
  <2>4. CASE Nrf24_flushRx \/ AttachHandler \/ CreateIrqQueue \/ NotInstalled
    BY <2>4 DEF Nrf24_flushRx, AttachHandler, CreateIrqQueue, NotInstalled, recvVars, chip
  <2>5. CASE Nrf24_setRADDR
    <3>1. /\ main = "first" /\ main' = "width" /\ i' = 2 /\ addr' = [addr EXCEPT ![1] = 1]
          /\ UNCHANGED <<recv, nrf_mutex, width, enabled, mode>>
      BY <2>5 DEF Nrf24_setRADDR, recvVars
    <3>2. addr' \in [Pipe -> Pipe] /\ addr'[1] = 1 /\ \A p \in Pipe : p > 1 => addr'[p] = addr[p]
      BY <3>1
    <3>3. 2 .. i' - 1 \subseteq enabled' /\ i' \in 2 .. LAST_PIPE
      BY <3>1
    <3> QED
      BY <2>5, <3>1, <3>2, <3>3 DEF Nrf24_setRADDR
  <2>6. CASE SetWidth
    <3>1. /\ main = "width" /\ main' = "address" /\ width' = [width EXCEPT ![i] = PAYLOAD]
          /\ UNCHANGED <<i, recv, nrf_mutex, addr, enabled, mode>>
      BY <2>6 DEF SetWidth, recvVars
    <3>2. i \in Pipe /\ i \in 2 .. LAST_PIPE
      BY <3>1
    <3>3. /\ width' \in [Pipe -> {0, PAYLOAD}] /\ width'[i] = PAYLOAD
          /\ \A p \in Pipe : width[p] = PAYLOAD => width'[p] = PAYLOAD
      BY <3>1, <3>2
    <3> QED
      BY <3>1, <3>2, <3>3
  <2>7. CASE SetAddress
    <3>1. /\ main = "address" /\ main' = "enable" /\ addr' = [addr EXCEPT ![i] = i]
          /\ UNCHANGED <<i, recv, nrf_mutex, width, enabled, mode>>
      BY <2>7 DEF SetAddress, recvVars
    <3>2. i \in Pipe /\ i \in 2 .. LAST_PIPE
      BY <3>1
    <3>3. addr' \in [Pipe -> Pipe] /\ addr'[i] = i /\ \A p \in Pipe : p # i => addr'[p] = addr[p]
      BY <3>1, <3>2
    <3> QED
      BY <3>1, <3>2, <3>3
  <2>8. CASE EnablePipe
    <3>1. /\ main = "enable" /\ enabled' = enabled \cup {i}
          /\ UNCHANGED <<recv, nrf_mutex, width, addr, mode>>
      BY <2>8 DEF EnablePipe, recvVars
    <3>2. i \in 2 .. LAST_PIPE /\ addr[i] = i /\ width[i] = PAYLOAD /\ addr[1] = 1 /\ recv = "none"
      BY <3>1
    <3>3. /\ 2 .. i \subseteq enabled' /\ {0, 1} \subseteq enabled' /\ enabled' \subseteq Pipe
          /\ \A p \in enabled' : p > 1 => addr[p] = p /\ width[p] = PAYLOAD /\ addr[1] = 1
      <4>1. /\ 2 .. i - 1 \subseteq enabled /\ {0, 1} \subseteq enabled /\ enabled \subseteq Pipe
            /\ \A p \in enabled : p > 1 => addr[p] = p /\ width[p] = PAYLOAD /\ addr[1] = 1
        BY <3>1
      <4> HIDE DEF Wired
      <4>2. 2 .. i = (2 .. i - 1) \cup {i} /\ i \in Pipe
        BY <3>2
      <4> QED
        BY <3>1, <3>2, <4>1, <4>2
    <3>4. CASE i < LAST_PIPE
      <4>1. main' = "width" /\ i' = i + 1
        BY <2>8, <3>4 DEF EnablePipe
      <4>2. i' \in 2 .. LAST_PIPE /\ 2 .. i' - 1 \subseteq enabled'
        BY <3>2, <3>3, <3>4, <4>1
      <4> QED
        BY <3>1, <3>2, <3>3, <4>1, <4>2
    <3>5. CASE ~(i < LAST_PIPE)
      <4>1. main' = "clear" /\ i = LAST_PIPE
        BY <2>8, <3>2, <3>5 DEF EnablePipe
      <4>2. enabled' = Pipe
        <5>1. 2 .. LAST_PIPE \subseteq enabled' /\ {0, 1} \subseteq enabled' /\ enabled' \subseteq Pipe
          BY <3>3, <4>1
        <5>2. \A p \in Pipe : p = 0 \/ p = 1 \/ p \in 2 .. LAST_PIPE
          OBVIOUS
        <5> HIDE DEF Wired, Pipe
        <5> QED
          BY <5>1, <5>2
      <4> QED
        BY <3>1, <3>2, <3>3, <4>1, <4>2
    <3> QED
      BY <3>4, <3>5
  <2>9. CASE ClearStatus \/ MarkOffline
    <3>1. /\ \/ main = "clear" /\ main' = "tasks"
             \/ main = "offline" /\ main' = "timer"
          /\ UNCHANGED <<i, addr, width, enabled, mode, nrf_mutex, recv>>
      BY <2>9 DEF ClearStatus, MarkOffline, recvVars, chip
    <3> QED
      BY <3>1
  <2>10. CASE StartTimer
    BY <2>10 DEF StartTimer, recvVars, chip
  <2>11. CASE TakeEvent \/ MissEvent \/ ReadPayload \/ ClearReady
    <3>1. /\ UNCHANGED <<main, i, addr, width, enabled, mode>>
          /\ nrf_mutex' = "send" => nrf_mutex = "send"
          /\ recv # "none" /\ recv' # "none"
      BY <2>11 DEF TakeEvent, MissEvent, ReadPayload, ClearReady, recvVars, chip
    <3> HIDE DEF Wired
    <3> QED
      BY <2>20, <3>1
  <2>12. CASE HandOn
    <3>1. main' \in {main, "panic"}
      BY <2>12 DEF HandOn, hb_register_ping_response
    <3> QED
      BY <2>12, <3>1 DEF HandOn, chip
  <2>13. CASE Transmitted \/ GiveUp
    <3>1. UNCHANGED <<main, i, addr, width, enabled, recv>> /\ nrf_mutex = "send"
      BY <2>13 DEF Transmitted, GiveUp, recvVars
    <3> QED
      BY <3>1
  <2>14. ASSUME NEW slave \in Slave \ {1}, Transmit(slave)  PROVE Wired'
    BY <2>14 DEF Transmit, recvVars, Slave
  <2>15. CASE Timers
    <3>1. UNCHANGED <<main, i, addr, width, enabled, mode, nrf_mutex, recv>>
      BY <2>15 DEF Timers, TimerService, hb_timeout_callback, recvVars, chip
    <3> HIDE DEF Wired
    <3> QED
      BY <2>20, <3>1
  <2>16. ASSUME NEW slave \in Slave, NEW kind \in {"PING", "BUTTON"}, Arrive(slave, kind)
         PROVE  Wired'
    <3>1. main' \in {main, "panic"}
      BY <2>16 DEF Arrive, nrf_gpio_isr_handler
    <3> QED
      BY <2>16, <3>1 DEF Arrive, recvVars
  <2>17. CASE Reset
    BY <2>17 DEF Reset
  <2>18. CASE UNCHANGED vars
    BY <2>18 DEF vars, recvVars, chip
  <2>19. CASE CreateTasks
    <3>1. i' = 1 /\ main' = "offline" /\ enabled' = Pipe /\ main = "tasks"
      BY <2>19 DEF CreateTasks, chip
    <3> QED
      BY <2>19, <3>1 DEF CreateTasks, chip
  <2> QED
    BY <2>1, <2>2, <2>3, <2>4, <2>5, <2>6, <2>7, <2>8, <2>9, <2>10, <2>11, <2>12, <2>13, <2>14,
       <2>15, <2>16, <2>17, <2>18, <2>19 DEF Next, AppMain, ReceiveTask, SendTask
<1> QED
  BY <1>1, <1>2, PTL DEF Spec

\* Pipes are added to a chip that listens, and may be left half added by a reset at any
\* register; still no enabled pipe ever lacks its width or its address while it listens.
THEOREM PipesAreComplete == Spec => []PipesComplete
<1>1. Wired => PipesComplete
  <2> SUFFICES ASSUME Wired  PROVE PipesComplete
    OBVIOUS
  <2>1. ASSUME mode = "RX", NEW p \in enabled
        PROVE  width[p] = PAYLOAD /\ (p > 1 => addr[p] = p /\ addr[1] = 1)
    <3>1. p \in Nat /\ (p = 0 \/ p = 1 \/ p > 1)
      BY DEF Wired, Pipe
    <3> QED
      BY <2>1, <3>1 DEF Wired
  <2> QED
    BY <2>1 DEF Wired, PipesComplete
<1> QED
  BY <1>1, WiredAlways, PTL
-----------------------------------------------------------------------------
(***************************************************************************)
(* The interrupt of a chip that has only been switched on.                 *)
(***************************************************************************)
Early == {"init", "config", "listen", "flush"}
NoQueue == Early \cup {"attach", "queue"}

\* Until setRADDR has run for the first time no pipe has an address of a slave.
Unset ==
  /\ addr \in [Pipe -> Pipe] /\ addr[1] \in {0, 1}
  /\ addr[1] = 0 => /\ enabled = {0, 1} /\ addr[0] = 0
                    /\ main \in NoQueue \cup {"first", "halt", "panic"}
  /\ irq_q \in {NULL} \cup Nat
  /\ irq_q = NULL /\ main # "panic" => main \in NoQueue
  /\ main \in NoQueue /\ ~warm => addr[1] = 0
  /\ main \in Adding => i \in 2 .. LAST_PIPE
  /\ recv # "none" => irq_q # NULL /\ main \notin NoQueue
  /\ InterruptHasQueue

\* A chip in this state takes no packet of a slave.
LEMMA NobodyTakes == ASSUME Unset, addr[1] = 0, NEW slave \in Slave  PROVE Takers(slave) = {}
BY DEF Unset, Takers, Slave, Pipe

\* Sending and the step to the next pipe come after setRADDR; the interrupt panics only where
\* a packet can arrive.
LEMMA UnsetAlways == Spec => []Unset
<1> USE DEF NULL
<1>1. Init => Unset
  BY DEF Init, Unset, InterruptHasQueue, Pipe, NoQueue, Early, Adding
<1>2. Wired /\ Unset /\ [Next]_vars => Unset'
  <2> SUFFICES ASSUME Wired, Unset, [Next]_vars  PROVE Unset'
    OBVIOUS
  <2> USE DEF Unset, InterruptHasQueue, NoQueue, Early, Adding
  <2>1. CASE InitPins \/ SetWidths \/ Nrf24_powerUpRx \/ Nrf24_flushRx
    BY <2>1 DEF InitPins, SetWidths, Nrf24_powerUpRx, Nrf24_flushRx, recvVars, irqVars
  <2>2. CASE AttachHandler \/ CreateIrqQueue \/ NotInstalled
    BY <2>2 DEF AttachHandler, CreateIrqQueue, NotInstalled, recvVars, irqVars, chip
  <2>3. CASE Nrf24_setRADDR
    <3>1. /\ main = "first" /\ main' = "width" /\ i' = 2 /\ addr' = [addr EXCEPT ![1] = 1]
          /\ UNCHANGED <<recv, irq_q, warm>>
      BY <2>3 DEF Nrf24_setRADDR, recvVars, irqVars
    <3>2. addr' \in [Pipe -> Pipe] /\ addr'[1] = 1
      BY <3>1 DEF Pipe
    <3> QED
      BY <3>1, <3>2
  <2>4. CASE SetWidth
    BY <2>4 DEF SetWidth, recvVars, irqVars
  <2>5. CASE SetAddress
    <3>1. /\ main = "address" /\ main' = "enable" /\ addr' = [addr EXCEPT ![i] = i]
          /\ UNCHANGED <<i, recv, irq_q, warm>>
      BY <2>5 DEF SetAddress, recvVars, irqVars
    <3>2. i \in 2 .. LAST_PIPE /\ i \in Pipe
      BY <3>1 DEF Pipe
    <3>3. addr' \in [Pipe -> Pipe] /\ addr'[1] = addr[1]
      BY <3>1, <3>2 DEF Pipe
    <3> QED
      BY <3>1, <3>2, <3>3
  <2>6. CASE EnablePipe
    <3>1. main = "enable" /\ main' \in {"width", "clear"} /\ UNCHANGED <<addr, recv, irq_q, warm>>
      BY <2>6 DEF EnablePipe, recvVars, irqVars
    <3>2. main' = "width" => i' \in 2 .. LAST_PIPE
      BY <2>6 DEF EnablePipe
    <3> QED
      BY <3>1, <3>2
  <2>7. CASE ClearStatus \/ CreateTasks \/ MarkOffline \/ StartTimer
    <3>1. /\ main \in Added /\ main' \in Added /\ UNCHANGED <<addr, enabled, irq_q, warm>>
      BY <2>7 DEF ClearStatus, CreateTasks, MarkOffline, StartTimer, recvVars, irqVars, chip, Added
    <3> QED
      BY <3>1 DEF Added
  <2>8. CASE TakeEvent \/ MissEvent
    <3>1. irq_q > 0 /\ irq_q' = irq_q - 1 /\ recv # "none"
      BY <2>8 DEF TakeEvent, MissEvent
    <3>2. irq_q \in Nat /\ irq_q' \in Nat
      BY <3>1
    <3> QED
      BY <2>8, <3>1, <3>2 DEF TakeEvent, MissEvent, recvVars, chip
  <2>9. CASE ReadPayload \/ ClearReady
    BY <2>9 DEF ReadPayload, ClearReady, irqVars
  <2>10. CASE HandOn
    <3>1. main' \in {main, "panic"} /\ recv # "none"
      BY <2>10 DEF HandOn, hb_register_ping_response
    <3> QED
      BY <2>10, <3>1 DEF HandOn, chip, irqVars
  <2>11. CASE Transmitted \/ GiveUp
    BY <2>11 DEF Transmitted, GiveUp, recvVars, irqVars
  <2>12. ASSUME NEW slave \in Slave \ {1}, Transmit(slave)  PROVE Unset'
    <3>1. main = "run" /\ addr' = [addr EXCEPT ![0] = slave] /\ UNCHANGED <<main, i, recv, irq_q, warm>>
      BY <2>12 DEF Transmit, recvVars, irqVars
    <3>2. addr' \in [Pipe -> Pipe] /\ addr'[1] = addr[1]
      BY <3>1 DEF Pipe, Slave
    <3> QED
      BY <3>1, <3>2
  <2>13. CASE Timers
    BY <2>13 DEF Timers, TimerService, hb_timeout_callback, recvVars, irqVars, chip
  <2>14. ASSUME NEW slave \in Slave, NEW kind \in {"PING", "BUTTON"}, Arrive(slave, kind)
         PROVE  Unset'
    <3>1. addr[1] = 1
      BY <2>14, NobodyTakes DEF Arrive
    <3>2. \/ UNCHANGED <<main, irq_q>>
          \/ main' = "panic" /\ irq_q = NULL /\ irq_q' = irq_q /\ main # "panic"
          \/ irq_q # NULL /\ irq_q' \in {irq_q, irq_q + 1} /\ main' = main
      BY <2>14 DEF Arrive, nrf_gpio_isr_handler, Alive
    <3>3. UNCHANGED <<i, addr, enabled, recv, warm>>
      BY <2>14 DEF Arrive, recvVars
    <3>4. irq_q' \in {NULL} \cup Nat /\ (irq_q # NULL => irq_q' # NULL)
      BY <3>2
    <3> QED
      BY <3>1, <3>2, <3>3, <3>4
  <2>15. CASE Reset
    BY <2>15 DEF Reset
  <2>16. CASE UNCHANGED vars
    BY <2>16 DEF vars, recvVars, irqVars, chip
  <2> QED
    BY <2>1, <2>2, <2>3, <2>4, <2>5, <2>6, <2>7, <2>8, <2>9, <2>10, <2>11, <2>12, <2>13, <2>14,
       <2>15, <2>16 DEF Next, AppMain, ReceiveTask, SendTask
<1> QED
  BY <1>1, <1>2, WiredAlways, PTL DEF Spec

\* The handler is attached before its queue exists, and the receiver already runs; after
\* power-on no packet can raise the interrupt then, for every number of pipes.
THEOREM InterruptFindsQueue == Spec => []InterruptHasQueue
<1>1. Unset => InterruptHasQueue
  BY DEF Unset
<1> QED
  BY <1>1, UnsetAlways, PTL
-----------------------------------------------------------------------------
(***************************************************************************)
(* Whose packet it is, from the air to the heartbeat monitor.              *)
(***************************************************************************)
Own(p)   == p.pipe \in {0, p.from}
Fresh(p) == p.kind = "PING" /\ p.from \in Monitored => p.from \in heard

\* After the flush the FIFO holds packets of this boot only; RX_DR is never set over an empty
\* FIFO when it is read, so that the status that is saved is that of the payload.
Traced ==
  /\ addr \in [Pipe -> Pipe] /\ \A p \in Pipe : p > 0 => addr[p] \in {0, p}
  /\ fifo \in Seq(Packet)
  /\ \A k \in 1 .. Len(fifo) : Own(fifo[k]) /\ (main \notin Early => Fresh(fifo[k]))
  /\ recv \in {"none", "wait", "read", "clear", "hand"}
  /\ isr \/ recv # "none" => main \notin Early
  /\ RX_DR /\ (main = "tasks" \/ recv \in {"wait", "read", "hand"}) => fifo # <<>>
  /\ recv = "read" => fifo # <<>> /\ dev_status = fifo[1].pipe
  /\ recv \in {"clear", "hand"} => raw \in Packet /\ dev_status = raw.pipe /\ Own(raw) /\ Fresh(raw)
  /\ status \in [Monitored -> {"OFFLINE", "ONLINE"}] /\ OnlineHeard

\* A packet at the end of the FIFO changes neither its head nor the packets before it.
LEMMA Arrived ==
  ASSUME NEW q \in Seq(Packet), NEW p \in Packet
  PROVE  /\ Append(q, p) \in Seq(Packet) /\ Append(q, p) # <<>>
         /\ Len(Append(q, p)) = Len(q) + 1
         /\ q # <<>> => Append(q, p)[1] = q[1]
         /\ \A k \in 1 .. Len(q) + 1 : Append(q, p)[k] = IF k = Len(q) + 1 THEN p ELSE q[k]
BY AppendProperties

\* What is left of the FIFO has been in it.
LEMMA TakenOff ==
  ASSUME NEW q \in Seq(Packet), q # <<>>
  PROVE  /\ Head(q) = q[1] /\ q[1] \in Packet /\ 1 \in 1 .. Len(q) /\ Tail(q) \in Seq(Packet)
         /\ \A k \in 1 .. Len(Tail(q)) : k + 1 \in 1 .. Len(q) /\ Tail(q)[k] = q[k + 1]
<1>1. Len(q) \in Nat \ {0}
  BY EmptySeq
<1>2. Tail(q) \in Seq(Packet) /\ Len(Tail(q)) = Len(q) - 1
  BY HeadTailProperties
<1>3. \A k \in 1 .. Len(Tail(q)) : Tail(q)[k] = q[k + 1]
  BY HeadTailProperties
<1> QED
  BY <1>1, <1>2, <1>3

\* app_main sets addresses, empties the FIFO and marks the slaves offline; packets keep their
\* pipe, and a PING is credited through the saved status.
LEMMA TracedAlways == Spec => []Traced
<1>1. Init => Traced
  <2> SUFFICES ASSUME Init  PROVE Traced
    OBVIOUS
  <2>1. fifo \in Seq(Packet) /\ Len(fifo) = 0
    BY EmptySeq DEF Init
  <2> QED
    BY <2>1 DEF Init, Traced, OnlineHeard, Pipe, Early, Silent
<1>2. Wired /\ Traced /\ [Next]_vars => Traced'
  <2> SUFFICES ASSUME Wired, Traced, [Next]_vars  PROVE Traced'
    OBVIOUS
  <2> USE DEF Traced, OnlineHeard, Own, Fresh, Early
  <2>1. CASE InitPins \/ SetWidths \/ Nrf24_powerUpRx
    BY <2>1 DEF InitPins, SetWidths, Nrf24_powerUpRx, recvVars, irqVars, monitor
  <2>2. CASE Nrf24_flushRx
    <3>1. fifo' \in Seq(Packet) /\ Len(fifo') = 0
      BY <2>2, EmptySeq DEF Nrf24_flushRx
    <3>2. recv = "none" /\ ~isr /\ main' = "attach"
      BY <2>2 DEF Nrf24_flushRx
    <3> QED
      BY <2>2, <3>1, <3>2 DEF Nrf24_flushRx, recvVars, irqVars, monitor
  <2>3. CASE AttachHandler \/ CreateIrqQueue \/ NotInstalled
    BY <2>3 DEF AttachHandler, CreateIrqQueue, NotInstalled, recvVars, irqVars, monitor, chip
  <2>4. CASE Nrf24_setRADDR
    <3>1. addr' \in [Pipe -> Pipe] /\ \A p \in Pipe : p > 0 => addr'[p] \in {0, p}
      BY <2>4 DEF Nrf24_setRADDR, Pipe
    <3> QED
      BY <2>4, <3>1 DEF Nrf24_setRADDR, recvVars, irqVars, monitor
  <2>5. CASE SetAddress
    <3>1. i \in Pipe
      BY <2>5 DEF SetAddress, Wired, Adding, Pipe
    <3>2. addr' \in [Pipe -> Pipe] /\ \A p \in Pipe : p > 0 => addr'[p] \in {0, p}
      BY <2>5, <3>1 DEF SetAddress
    <3> QED
      BY <2>5, <3>2 DEF SetAddress, recvVars, irqVars, monitor
  <2>6. CASE SetWidth
    BY <2>6 DEF SetWidth, recvVars, irqVars, monitor
  <2>7. CASE EnablePipe
    BY <2>7 DEF EnablePipe, recvVars, irqVars, monitor
  <2>8. CASE ClearStatus
    BY <2>8 DEF ClearStatus, recvVars, irqVars, monitor
  <2>9. CASE CreateTasks
    BY <2>9 DEF CreateTasks, recvVars, irqVars, monitor, chip
  <2>10. CASE MarkOffline
    <3>1. /\ status' \in [Monitored -> {"OFFLINE", "ONLINE"}]
          /\ \A s \in Monitored : status'[s] = "ONLINE" => status[s] = "ONLINE"
      BY <2>10 DEF MarkOffline
    <3> QED
      BY <2>10, <3>1 DEF MarkOffline, recvVars, irqVars, chip
  <2>11. CASE StartTimer
    BY <2>11 DEF StartTimer, recvVars, irqVars, chip
  <2>12. CASE TakeEvent
    <3>1. RX_DR => fifo # <<>> /\ Head(fifo) = fifo[1]
      BY <2>12, TakenOff DEF TakeEvent
    <3>2. /\ recv' \in {"wait", "read"} /\ recv = "wait"
          /\ recv' = "read" => RX_DR /\ dev_status' = Head(fifo).pipe
      BY <2>12, <3>1 DEF TakeEvent, NextPipe
    <3> QED
      BY <2>12, <3>1, <3>2 DEF TakeEvent, monitor, chip
  <2>13. CASE MissEvent
    BY <2>13 DEF MissEvent, recvVars, monitor, chip
  <2>14. CASE ReadPayload
    <3>1. /\ fifo # <<>> /\ raw' = Head(fifo) /\ fifo' = Tail(fifo)
          /\ recv = "read" /\ recv' = "clear" /\ main \notin Early
          /\ UNCHANGED <<main, isr, dev_status, addr, RX_DR, status, heard>>
      BY <2>14 DEF ReadPayload, irqVars, monitor
    <3>2. /\ Head(fifo) = fifo[1] /\ fifo[1] \in Packet /\ 1 \in 1 .. Len(fifo) /\ fifo' \in Seq(Packet)
          /\ \A k \in 1 .. Len(fifo') : k + 1 \in 1 .. Len(fifo) /\ fifo'[k] = fifo[k + 1]
      BY <3>1, TakenOff
    <3>3. raw' \in Packet /\ dev_status' = raw'.pipe /\ Own(raw)' /\ Fresh(raw)'
      BY <3>1, <3>2
    <3>4. \A k \in 1 .. Len(fifo') : Own(fifo'[k]) /\ Fresh(fifo'[k])
      BY <3>1, <3>2
    <3>5. main' # "tasks"
      BY <3>1 DEF Wired
    <3> QED
      BY <3>1, <3>2, <3>3, <3>4, <3>5
  <2>15. CASE ClearReady
    BY <2>15 DEF ClearReady, irqVars, monitor
  <2>16. CASE HandOn
    <3> DEFINE id == Nrf24_getDataPipe
    <3>1. /\ recv = "hand" /\ recv' = "wait" /\ main \notin Early
          /\ main \in {"offline", "timer", "run", "panic"}
          /\ UNCHANGED <<isr, fifo, addr, RX_DR, heard>>
      BY <2>16 DEF HandOn, irqVars, chip, Wired
    <3>2. main' \in {main, "panic"}
      BY <2>16 DEF HandOn, hb_register_ping_response
    <3>3. id \in Monitored /\ raw.kind = "PING" => id \in heard
      BY <3>1 DEF Nrf24_getDataPipe, Monitored
    <3>4. \/ status' = status
          \/ id \in Monitored /\ raw.kind = "PING" /\ status' = [status EXCEPT ![id] = "ONLINE"]
      BY <2>16 DEF HandOn, hb_register_ping_response, monitor
    <3>5. status' \in [Monitored -> {"OFFLINE", "ONLINE"}] /\ OnlineHeard'
      BY <3>1, <3>3, <3>4
    <3> QED
      BY <3>1, <3>2, <3>5
  <2>17. CASE Transmitted \/ GiveUp
    BY <2>17 DEF Transmitted, GiveUp, recvVars, irqVars, monitor
  <2>18. ASSUME NEW slave \in Slave \ {1}, Transmit(slave)  PROVE Traced'
    <3>1. addr' \in [Pipe -> Pipe] /\ \A p \in Pipe : p > 0 => addr'[p] \in {0, p}
      <4>1. /\ addr \in [Pipe -> Pipe] /\ \A p \in Pipe : p > 0 => addr[p] \in {0, p}
            /\ slave \in Pipe /\ 0 \in Pipe /\ \A p \in Pipe : p > 0 => p # 0
        BY DEF Pipe, Slave
      <4>2. addr' = [addr EXCEPT ![0] = slave]
        BY <2>18 DEF Transmit
      <4> HIDE DEF Traced
      <4> QED
        BY <4>1, <4>2
    <3> QED
      BY <2>18, <3>1 DEF Transmit, recvVars, irqVars, monitor
  <2>19. CASE Timers
    BY <2>19 DEF Timers, TimerService, hb_timeout_callback, recvVars, irqVars, chip
  <2>20. ASSUME NEW slave \in Slave, NEW kind \in {"PING", "BUTTON"}, Arrive(slave, kind)
         PROVE  Traced'
    <3>1. PICK p \in Takers(slave) : fifo' = Append(fifo, [pipe |-> p, from |-> slave, kind |-> kind])
      BY <2>20 DEF Arrive
    <3> DEFINE new == [pipe |-> p, from |-> slave, kind |-> kind]
    <3>2. p \in Pipe /\ addr[p] = slave /\ slave > 0
      BY <3>1 DEF Takers, Wired, Slave
    <3>3. new \in Packet /\ Own(new)
      BY <3>2 DEF Packet, Pipe
    <3>4. /\ UNCHANGED <<isr, recv, raw, dev_status, addr, status>>
          /\ heard \subseteq heard' /\ (kind = "PING" /\ slave \in Monitored => slave \in heard')
          /\ main' = main \/ (main' = "panic" /\ main \notin Early)
      BY <2>20 DEF Arrive, nrf_gpio_isr_handler, recvVars, monitor
    <3>5. /\ fifo' \in Seq(Packet) /\ fifo' # <<>> /\ Len(fifo') = Len(fifo) + 1
          /\ fifo # <<>> => fifo'[1] = fifo[1]
          /\ \A k \in 1 .. Len(fifo) + 1 : fifo'[k] = IF k = Len(fifo) + 1 THEN new ELSE fifo[k]
      BY <3>1, <3>3, Arrived
    <3>6. Len(fifo) \in Nat
      OBVIOUS
    <3>7. ASSUME NEW k \in 1 .. Len(fifo')
          PROVE  Own(fifo'[k]) /\ (main' \notin Early => Fresh(fifo[k])')
      <4>1. CASE k = Len(fifo) + 1
        BY <3>3, <3>4, <3>5, <4>1
      <4>2. CASE k \in 1 .. Len(fifo)
        BY <3>4, <3>5, <3>6, <4>2
      <4> QED
        BY <3>5, <3>6, <4>1, <4>2
    <3> QED
      BY <3>4, <3>5, <3>7
  <2>21. CASE Reset
    BY <2>21 DEF Reset, Silent
  <2>22. CASE UNCHANGED vars
    BY <2>22 DEF vars, recvVars, irqVars, monitor, chip
  <2> QED
    BY <2>1, <2>2, <2>3, <2>4, <2>5, <2>6, <2>7, <2>8, <2>9, <2>10, <2>11, <2>12, <2>13, <2>14,
       <2>15, <2>16, <2>17, <2>18, <2>19, <2>20, <2>21, <2>22
       DEF Next, AppMain, ReceiveTask, SendTask
<1> QED
  BY <1>1, <1>2, WiredAlways, PTL DEF Spec

\* No PING from before a restart, and none of another slave, ever makes a slave ONLINE, for
\* every number of slaves and every size of the FIFO.
THEOREM OnlineMeansHeard == Spec => []OnlineHeard
<1>1. Traced => OnlineHeard
  BY DEF Traced
<1> QED
  BY <1>1, TracedAlways, PTL

\* The saved status names the pipe of the payload, however many packets arrive in between.
THEOREM PacketsAttributed == Spec => []Attributed
<1>1. Traced => Attributed
  BY DEF Traced, Own, Attributed, Nrf24_getDataPipe
<1> QED
  BY <1>1, TracedAlways, PTL
-----------------------------------------------------------------------------
(***************************************************************************)
(* The types.                                                              *)
(***************************************************************************)
Order == [op : {"start", "stop"}, id : Monitored]

\* The command queue takes what it has room for, whatever is sent to it.
LEMMA CommandFits ==
  ASSUME NEW list \in Seq(Order), commands \in Seq(Order), Len(commands) <= TIMER_QUEUE_SIZE,
         Command(list)
  PROVE  commands' \in Seq(Order) /\ Len(commands') <= TIMER_QUEUE_SIZE /\ overrun' \in BOOLEAN
<1> DEFINE room == TIMER_QUEUE_SIZE - Len(commands)
           n    == IF Len(list) < room THEN Len(list) ELSE room
<1>1. Len(commands) \in Nat /\ Len(list) \in Nat /\ room \in Nat
  OBVIOUS
<1>2. n \in Nat /\ n <= Len(list) /\ n <= room
  BY <1>1
<1>3. SubSeq(list, 1, n) \in Seq(Order) /\ Len(SubSeq(list, 1, n)) = n
  <2>1. \A k \in 1 .. n : list[k] \in Order
    BY <1>2
  <2> QED
    BY <1>2, <2>1, SubSeqProperties
<1>4. commands' = commands \o SubSeq(list, 1, n)
  BY DEF Command
<1>5. commands' \in Seq(Order) /\ Len(commands') = Len(commands) + n
  BY <1>3, <1>4, ConcatProperties
<1> QED
  BY <1>1, <1>2, <1>5 DEF Command

AppTypes ==
  /\ main \in {"init", "config", "listen", "flush", "attach", "queue", "first", "width",
               "address", "enable", "clear", "tasks", "offline", "timer", "run", "halt", "panic"}
  /\ i \in 0 .. LargestIndex
  /\ isr \in BOOLEAN /\ irq_q \in {NULL} \cup 0 .. IRQ_QUEUE_SIZE /\ warm \in BOOLEAN

ReceiveTypes ==
  /\ recv \in {"none", "wait", "read", "clear", "hand"}
  /\ raw \in Packet \cup {Nothing} /\ dev_status \in Pipe \cup {EMPTY}
  /\ nrf_mutex \in {"free", "recv", "send"} /\ heard \subseteq Monitored

MonitorTypes ==
  /\ status \in [Monitored -> {"OFFLINE", "ONLINE"}]
  /\ hb_timer \in [Monitored -> {"none", "idle", "armed", "expired"}]
  /\ commands \in Seq(Order) /\ Len(commands) <= TIMER_QUEUE_SIZE /\ overrun \in BOOLEAN

ChipTypes ==
  /\ CE \in BOOLEAN /\ mode \in {"DOWN", "RX", "TX"}
  /\ addr \in [Pipe -> Pipe] /\ width \in [Pipe -> {0, PAYLOAD}] /\ enabled \subseteq Pipe
  /\ fifo \in Seq(Packet) /\ Len(fifo) <= FIFO_SIZE /\ RX_DR \in BOOLEAN

\* app_main's index is of a pipe or of a slave, the event queue stays within its size.
LEMMA AppStep == ASSUME Wired, AppTypes, Next  PROVE AppTypes'
<1> USE DEF AppTypes, NULL
<1>0. 0 .. LAST_PIPE \subseteq 0 .. LargestIndex /\ 0 .. MAX_SLAVES \subseteq 0 .. LargestIndex
      /\ {0, 1, 2} \subseteq 0 .. LargestIndex
  BY DEF LargestIndex
<1>1. CASE InitPins \/ SetWidths \/ Nrf24_powerUpRx \/ Nrf24_flushRx
  BY <1>1 DEF InitPins, SetWidths, Nrf24_powerUpRx, Nrf24_flushRx, irqVars
<1>2. CASE AttachHandler \/ CreateIrqQueue \/ NotInstalled
  <2>1. CASE AttachHandler
    BY <2>1 DEF AttachHandler
  <2>2. CASE CreateIrqQueue
    <3>1. 0 \in 0 .. IRQ_QUEUE_SIZE
      OBVIOUS
    <3> QED
      BY <2>2, <3>1 DEF CreateIrqQueue
  <2>3. CASE NotInstalled
    BY <2>3 DEF NotInstalled, irqVars
  <2> QED
    BY <1>2, <2>1, <2>2, <2>3
<1>3. CASE Nrf24_setRADDR \/ SetWidth \/ SetAddress
  BY <1>0, <1>3 DEF Nrf24_setRADDR, SetWidth, SetAddress, irqVars
<1>4. CASE EnablePipe
  <2>1. main' \in {"width", "clear"} /\ i' \in 0 .. LAST_PIPE /\ UNCHANGED <<isr, irq_q, warm>>
    BY <1>4 DEF EnablePipe, irqVars, Wired, Adding
  <2> QED
    BY <1>0, <2>1
<1>5. CASE ClearStatus \/ CreateTasks \/ MarkOffline
  BY <1>0, <1>5 DEF ClearStatus, CreateTasks, MarkOffline, irqVars
<1>6. CASE StartTimer
  <2>1. main' \in {"offline", "run"} /\ i' \in 0 .. MAX_SLAVES /\ UNCHANGED <<isr, irq_q, warm>>
    BY <1>6 DEF StartTimer, irqVars, Wired, Monitored
  <2> QED
    BY <1>0, <2>1
<1>7. CASE TakeEvent \/ MissEvent
  <2>1. irq_q' \in 0 .. IRQ_QUEUE_SIZE /\ UNCHANGED <<main, i, isr, warm>>
    BY <1>7 DEF TakeEvent, MissEvent
  <2> QED
    BY <2>1
<1>8. CASE ReadPayload \/ ClearReady \/ Transmitted \/ GiveUp
  BY <1>8 DEF ReadPayload, ClearReady, Transmitted, GiveUp, irqVars
<1>9. CASE HandOn
  <2>1. main' \in {main, "panic"} /\ UNCHANGED <<i, isr, irq_q, warm>>
    BY <1>9 DEF HandOn, hb_register_ping_response, irqVars
  <2> QED
    BY <2>1
<1>10. ASSUME NEW slave \in Slave \ {1}, Transmit(slave)  PROVE AppTypes'
  BY <1>10 DEF Transmit, irqVars
<1>11. CASE Timers
  BY <1>11 DEF Timers, TimerService, hb_timeout_callback, irqVars
<1>12. ASSUME NEW slave \in Slave, NEW kind \in {"PING", "BUTTON"}, Arrive(slave, kind)
       PROVE  AppTypes'
  <2>1. main' \in {main, "panic"} /\ UNCHANGED <<i, isr, warm>>
    BY <1>12 DEF Arrive, nrf_gpio_isr_handler
  <2>2. irq_q' \in {NULL} \cup 0 .. IRQ_QUEUE_SIZE
    BY <1>12 DEF Arrive, nrf_gpio_isr_handler
  <2> QED
    BY <2>1, <2>2
<1>13. CASE Reset
  BY <1>0, <1>13 DEF Reset
<1> QED
  BY <1>1, <1>2, <1>3, <1>4, <1>5, <1>6, <1>7, <1>8, <1>9, <1>10, <1>11, <1>12, <1>13
     DEF Next, AppMain, ReceiveTask, SendTask

\* The receive task holds packets of the FIFO and pipe numbers.
LEMMA ReceiveStep == ASSUME Traced, ReceiveTypes, Next  PROVE ReceiveTypes'
<1> USE DEF ReceiveTypes
<1>1. CASE AppMain
  BY <1>1 DEF AppMain, InitPins, SetWidths, Nrf24_powerUpRx, Nrf24_flushRx, AttachHandler,
     CreateIrqQueue, NotInstalled, Nrf24_setRADDR, SetWidth, SetAddress, EnablePipe, ClearStatus,
     CreateTasks, MarkOffline, StartTimer, recvVars
<1>2. CASE TakeEvent
  <2>1. NextPipe \in Pipe \cup {EMPTY}
    BY TakenOff DEF NextPipe, Packet, Traced
  <2> QED
    BY <1>2, <2>1 DEF TakeEvent
<1>3. CASE MissEvent \/ ClearReady
  BY <1>3 DEF MissEvent, ClearReady, recvVars
<1>4. CASE ReadPayload
  <2>1. Head(fifo) \in Packet
    BY <1>4, TakenOff DEF ReadPayload, Traced
  <2> QED
    BY <1>4, <2>1 DEF ReadPayload
<1>5. CASE HandOn
  BY <1>5 DEF HandOn
<1>6. CASE SendTask \/ Timers
  BY <1>6 DEF SendTask, Transmit, Transmitted, GiveUp, Timers, TimerService, hb_timeout_callback, recvVars
<1>7. CASE \E slave \in Slave, kind \in {"PING", "BUTTON"} : Arrive(slave, kind)
  BY <1>7 DEF Arrive, recvVars
<1>8. CASE Reset
  BY <1>8 DEF Reset
<1> QED
  BY <1>1, <1>2, <1>3, <1>4, <1>5, <1>6, <1>7, <1>8 DEF Next, ReceiveTask

\* Only timers of monitored slaves are commanded.
LEMMA MonitorStep == ASSUME Wired, MonitorTypes, Next  PROVE MonitorTypes'
<1> USE DEF MonitorTypes
<1>1. CASE UNCHANGED monitor
  BY <1>1 DEF monitor
<1>2. CASE MarkOffline
  BY <1>2 DEF MarkOffline
<1>3. CASE StartTimer
  <2>1. CASE UNCHANGED <<hb_timer, commands, overrun>>
    BY <1>3, <2>1 DEF StartTimer
  <2>2. CASE hb_timer' = [hb_timer EXCEPT ![i] = "idle"] /\ Command(<<[op |-> "start", id |-> i]>>)
    <3>1. <<[op |-> "start", id |-> i]>> \in Seq(Order)
      BY <1>3 DEF StartTimer, Wired, Order
    <3>2. commands' \in Seq(Order) /\ Len(commands') <= TIMER_QUEUE_SIZE /\ overrun' \in BOOLEAN
      BY <2>2, <3>1, CommandFits
    <3> QED
      BY <1>3, <2>2, <3>2 DEF StartTimer
  <2> QED
    BY <1>3, <2>1, <2>2 DEF StartTimer
<1>4. CASE HandOn
  <2> DEFINE id     == Nrf24_getDataPipe
             orders == <<[op |-> "stop", id |-> id], [op |-> "start", id |-> id]>>
  <2>1. CASE /\ status' = [status EXCEPT ![id] = "ONLINE"]
             /\ UNCHANGED <<hb_timer, commands, overrun>>
    BY <2>1
  <2>2. CASE /\ id \in Monitored /\ status' = [status EXCEPT ![id] = "ONLINE"]
             /\ Command(orders) /\ UNCHANGED hb_timer
    <3>1. orders \in Seq(Order)
      BY <2>2 DEF Order
    <3>2. commands' \in Seq(Order) /\ Len(commands') <= TIMER_QUEUE_SIZE /\ overrun' \in BOOLEAN
      BY <2>2, <3>1, CommandFits
    <3> QED
      BY <2>2, <3>2
  <2> QED
    BY <1>1, <1>4, <2>1, <2>2 DEF HandOn, hb_register_ping_response, monitor
<1>5. CASE TimerService
  <2>1. commands # <<>> /\ commands' = Tail(commands)
    BY <1>5 DEF TimerService
  <2>2. commands' \in Seq(Order) /\ Len(commands') = Len(commands) - 1 /\ Len(commands) \in Nat
    BY <2>1, HeadTailProperties
  <2>3. Len(commands') <= TIMER_QUEUE_SIZE
    BY <2>2
  <2> QED
    BY <1>5, <2>2, <2>3 DEF TimerService
<1>6. ASSUME NEW s \in Monitored, hb_timeout_callback(s)  PROVE MonitorTypes'
  BY <1>6 DEF hb_timeout_callback
<1>7. CASE Reset
  <2>1. commands' \in Seq(Order) /\ Len(commands') = 0
    BY <1>7, EmptySeq DEF Reset
  <2>2. 0 <= TIMER_QUEUE_SIZE
    OBVIOUS
  <2>3. overrun' \in BOOLEAN
    BY <1>7 DEF Reset
  <2>4. /\ status' \in [Monitored -> {"OFFLINE", "ONLINE"}]
        /\ hb_timer' \in [Monitored -> {"none", "idle", "armed", "expired"}]
    BY <1>7 DEF Reset, Silent, Never
  <2> QED
    BY <2>1, <2>2, <2>3, <2>4
<1>8. CASE AppMain /\ ~MarkOffline /\ ~StartTimer
  BY <1>1, <1>8 DEF AppMain, InitPins, SetWidths, Nrf24_powerUpRx, Nrf24_flushRx, AttachHandler,
     CreateIrqQueue, NotInstalled, Nrf24_setRADDR, SetWidth, SetAddress, EnablePipe, ClearStatus,
     CreateTasks
<1>9. CASE TakeEvent \/ MissEvent \/ ReadPayload \/ ClearReady \/ SendTask
  BY <1>1, <1>9 DEF TakeEvent, MissEvent, ReadPayload, ClearReady, SendTask, Transmit, Transmitted, GiveUp
<1>10. CASE \E slave \in Slave, kind \in {"PING", "BUTTON"} : Arrive(slave, kind)
  BY <1>1, <1>10 DEF Arrive
<1> QED
  BY <1>2, <1>3, <1>4, <1>5, <1>6, <1>7, <1>8, <1>9, <1>10 DEF Next, ReceiveTask, Timers

\* Registers hold pipes, and the FIFO no more than it can.
LEMMA ChipStep == ASSUME Wired, Wired', Traced, Traced', ChipTypes, Next  PROVE ChipTypes'
<1> USE DEF ChipTypes
<1>1. /\ addr' \in [Pipe -> Pipe] /\ width' \in [Pipe -> {0, PAYLOAD}] /\ enabled' \subseteq Pipe
      /\ fifo' \in Seq(Packet)
  BY DEF Wired, Traced
<1>2. CASE AppMain
  <2>1. UNCHANGED fifo \/ fifo' = <<>>
    BY <1>2 DEF AppMain, InitPins, SetWidths, Nrf24_powerUpRx, Nrf24_flushRx, AttachHandler,
       CreateIrqQueue, NotInstalled, Nrf24_setRADDR, SetWidth, SetAddress, EnablePipe, ClearStatus,
       CreateTasks, MarkOffline, StartTimer, chip
  <2>2. Len(fifo') <= FIFO_SIZE
    BY <2>1, EmptySeq
  <2>3. CE' \in BOOLEAN /\ mode' \in {"DOWN", "RX", "TX"} /\ RX_DR' \in BOOLEAN
    BY <1>2 DEF AppMain, InitPins, SetWidths, Nrf24_powerUpRx, Nrf24_flushRx, AttachHandler,
       CreateIrqQueue, NotInstalled, Nrf24_setRADDR, SetWidth, SetAddress, EnablePipe, ClearStatus,
       CreateTasks, MarkOffline, StartTimer, chip
  <2> QED
    BY <1>1, <2>2, <2>3
<1>3. CASE TakeEvent \/ MissEvent \/ ClearReady \/ HandOn \/ SendTask \/ Timers \/ Reset
  <2>1. /\ CE' \in BOOLEAN /\ mode' \in {"DOWN", "RX", "TX"} /\ RX_DR' \in BOOLEAN
        /\ UNCHANGED fifo
    BY <1>3 DEF TakeEvent, MissEvent, ClearReady, HandOn, SendTask, Transmit, Transmitted, GiveUp,
       Timers, TimerService, hb_timeout_callback, Reset, chip
  <2> QED
    BY <1>1, <2>1
<1>4. CASE ReadPayload
  <2>1. fifo # <<>> /\ fifo' = Tail(fifo) /\ UNCHANGED <<CE, mode, RX_DR>>
    BY <1>4 DEF ReadPayload, Traced
  <2>2. Len(fifo') = Len(fifo) - 1 /\ Len(fifo) \in Nat
    BY <2>1, HeadTailProperties
  <2>3. Len(fifo') <= FIFO_SIZE
    BY <2>2
  <2> QED
    BY <1>1, <2>1, <2>3
<1>5. ASSUME NEW slave \in Slave, NEW kind \in {"PING", "BUTTON"}, Arrive(slave, kind)
      PROVE  ChipTypes'
  <2>1. PICK p \in Takers(slave) : fifo' = Append(fifo, [pipe |-> p, from |-> slave, kind |-> kind])
    BY <1>5 DEF Arrive
  <2>2. [pipe |-> p, from |-> slave, kind |-> kind] \in Packet
    BY <2>1 DEF Takers, Packet
  <2>3. Len(fifo') = Len(fifo) + 1 /\ Len(fifo) < FIFO_SIZE /\ Len(fifo) \in Nat
    BY <1>5, <2>1, <2>2, Arrived DEF Arrive
  <2>4. Len(fifo') <= FIFO_SIZE
    BY <2>3
  <2> QED
    BY <1>1, <1>5, <2>4 DEF Arrive
<1> QED
  BY <1>2, <1>3, <1>4, <1>5 DEF Next, ReceiveTask

\* Every index is of a pipe or a slave that exists, and no queue exceeds its size.
THEOREM StartupTypes == Spec => []TypeOK
<1> DEFINE Types == AppTypes /\ ReceiveTypes /\ MonitorTypes /\ ChipTypes
<1>1. Init => Types
  <2> SUFFICES ASSUME Init  PROVE Types
    OBVIOUS
  <2>1. commands \in Seq(Order) /\ Len(commands) = 0 /\ fifo \in Seq(Packet) /\ Len(fifo) = 0
    BY EmptySeq DEF Init
  <2>2. AppTypes
    <3>1. 0 \in 0 .. LargestIndex
      BY DEF LargestIndex
    <3> QED
      BY <3>1 DEF Init, AppTypes
  <2>3. ReceiveTypes
    BY DEF Init, ReceiveTypes
  <2>4. MonitorTypes
    <3>1. Len(commands) <= TIMER_QUEUE_SIZE
      BY <2>1
    <3>2. /\ status \in [Monitored -> {"OFFLINE", "ONLINE"}]
          /\ hb_timer \in [Monitored -> {"none", "idle", "armed", "expired"}]
          /\ overrun \in BOOLEAN
      BY DEF Init, Silent, Never
    <3> QED
      BY <2>1, <3>1, <3>2 DEF MonitorTypes
  <2>5. ChipTypes
    <3>1. /\ addr \in [Pipe -> Pipe] /\ width \in [Pipe -> {0, PAYLOAD}] /\ enabled \subseteq Pipe
      BY DEF Init, Pipe
    <3>2. Len(fifo) <= FIFO_SIZE
      BY <2>1
    <3>3. CE \in BOOLEAN /\ mode \in {"DOWN", "RX", "TX"} /\ RX_DR \in BOOLEAN
      BY DEF Init
    <3> QED
      BY <2>1, <3>1, <3>2, <3>3 DEF ChipTypes
  <2> QED
    BY <2>2, <2>3, <2>4, <2>5
<1>2. Wired /\ Wired' /\ Traced /\ Traced' /\ Types /\ [Next]_vars => Types'
  <2>1. CASE Next
    BY <2>1, AppStep, ReceiveStep, MonitorStep, ChipStep
  <2>2. CASE UNCHANGED vars
    BY <2>2 DEF vars, irqVars, recvVars, monitor, chip, AppTypes, ReceiveTypes, MonitorTypes, ChipTypes
  <2> QED
    BY <2>1, <2>2
<1>3. Types => TypeOK
  BY DEF TypeOK, AppTypes, ReceiveTypes, MonitorTypes, ChipTypes, Order
<1> QED
  BY <1>1, <1>2, <1>3, WiredAlways, TracedAlways, PTL DEF Spec
-----------------------------------------------------------------------------
(***************************************************************************)
(* The timers.                                                             *)
(***************************************************************************)
\* The commands for a slave's timer, and what OnlineWatched asks of them.
Mine(list, s) == {k \in DOMAIN list : list[k].id = s}
Watched(list, timer, s) ==
  \/ Mine(list, s) = {} /\ timer \in {"armed", "expired"}
  \/ \E k \in Mine(list, s) : list[k].op = "start" /\ \A l \in Mine(list, s) : l <= k

\* One command more in the queue: it is the last one for its slave, and of no effect on others.
LEMMA WatchedAppend ==
  ASSUME NEW list \in Seq(Order), NEW o \in Order, NEW timer, NEW s,
         IF o.id = s THEN o.op = "start" ELSE Watched(list, timer, s)
  PROVE  Watched(Append(list, o), timer, s)
<1> DEFINE more == Append(list, o)
           n    == Len(list)
<1>1. /\ n \in Nat /\ DOMAIN list = 1 .. n /\ DOMAIN more = 1 .. n + 1
      /\ \A k \in 1 .. n : more[k] = list[k]
      /\ more[n + 1] = o
  BY AppendProperties
<1> HIDE DEF more, n
<1>2. \A k \in 1 .. n + 1 : k <= n + 1 /\ (k # n + 1 => k \in 1 .. n)
  BY <1>1
<1>3. CASE o.id = s
  <2>1. n + 1 \in Mine(more, s) /\ more[n + 1].op = "start"
    BY <1>1, <1>3 DEF Mine
  <2>2. \A l \in Mine(more, s) : l <= n + 1
    BY <1>1, <1>2 DEF Mine
  <2> QED
    BY <2>1, <2>2 DEF Watched, more
<1>4. CASE o.id # s
  <2>1. Mine(more, s) = Mine(list, s)
    BY <1>1, <1>2, <1>4 DEF Mine
  <2>2. \A k \in Mine(list, s) : more[k] = list[k]
    BY <1>1 DEF Mine
  <2>3. Watched(list, timer, s)
    BY <1>4
  <2> QED
    BY <2>1, <2>2, <2>3 DEF Watched, more
<1> QED
  BY <1>3, <1>4

\* The timer service carries out the first command.
LEMMA WatchedServe ==
  ASSUME NEW list \in Seq(Order), list # <<>>, NEW timer, NEW s, Watched(list, timer, s)
  PROVE  Watched(Tail(list),
                 IF Head(list).id = s THEN IF Head(list).op = "start" THEN "armed" ELSE "idle"
                 ELSE timer, s)
<1> DEFINE rest == Tail(list)
           n    == Len(list)
           next == IF Head(list).id = s THEN IF Head(list).op = "start" THEN "armed" ELSE "idle"
                   ELSE timer
<1>1. /\ n \in Nat /\ n # 0 /\ DOMAIN list = 1 .. n /\ DOMAIN rest = 1 .. n - 1
      /\ \A k \in 1 .. n - 1 : rest[k] = list[k + 1]
      /\ Head(list) = list[1]
  BY HeadTailProperties, LenProperties, EmptySeq
<1> HIDE DEF rest, n
<1>2. ASSUME NEW k  PROVE k \in Mine(rest, s) <=> k \in 1 .. n - 1 /\ k + 1 \in Mine(list, s)
  BY <1>1 DEF Mine
<1>3. \A k \in Mine(list, s) : k \in 1 .. n
  BY <1>1 DEF Mine
<1>4. CASE Mine(list, s) = {} /\ timer \in {"armed", "expired"}
  <2>1. Head(list).id # s
    BY <1>1, <1>4 DEF Mine
  <2>2. Mine(rest, s) = {}
    BY <1>2, <1>4
  <2> QED
    BY <1>4, <2>1, <2>2 DEF Watched, rest
<1>5. ASSUME NEW k \in Mine(list, s), list[k].op = "start", \A l \in Mine(list, s) : l <= k
      PROVE  Watched(rest, next, s)
  <2>1. CASE k = 1
    <3>1. Head(list).id = s /\ Head(list).op = "start"
      BY <1>1, <1>5, <2>1 DEF Mine
    <3>2. Mine(rest, s) = {}
      <4>1. ASSUME NEW l \in Mine(rest, s)  PROVE FALSE
        BY <1>1, <1>2, <1>5, <2>1, <4>1
      <4> QED
        BY <4>1
    <3> QED
      BY <3>1, <3>2 DEF Watched
  <2>2. CASE k # 1
    <3>1. k - 1 \in 1 .. n - 1 /\ (k - 1) + 1 = k
      BY <1>1, <1>3, <2>2
    <3>2. k - 1 \in Mine(rest, s) /\ rest[k - 1].op = "start"
      BY <1>1, <1>2, <1>5, <3>1
    <3>3. ASSUME NEW l \in Mine(rest, s)  PROVE l <= k - 1
      <4>1. l \in 1 .. n - 1 /\ l + 1 <= k
        BY <1>2, <1>5
      <4> QED
        BY <1>1, <1>3, <4>1
    <3> QED
      BY <3>2, <3>3 DEF Watched
  <2> QED
    BY <2>1, <2>2
<1> QED
  BY <1>4, <1>5 DEF Watched, rest

\* Commands that the queue has room for are all put into it.
LEMMA CommandAccepted ==
  ASSUME commands \in Seq(Order), NEW list \in Seq(Order), Command(list), ~overrun'
  PROVE  commands' = commands \o list /\ ~overrun
<1>1. ~overrun /\ ~(Len(list) > TIMER_QUEUE_SIZE - Len(commands))
  BY DEF Command
<1>2. Len(list) \in Nat /\ Len(commands) \in Nat
  OBVIOUS
<1>3. \/ Len(list) < TIMER_QUEUE_SIZE - Len(commands)
      \/ Len(list) = TIMER_QUEUE_SIZE - Len(commands)
  BY <1>1, <1>2
<1>4. (IF Len(list) < TIMER_QUEUE_SIZE - Len(commands) THEN Len(list)
       ELSE TIMER_QUEUE_SIZE - Len(commands)) = Len(list)
  BY <1>3
<1>5. SubSeq(list, 1, Len(list)) = list
  BY SubSeqFull
<1> QED
  BY <1>1, <1>4, <1>5 DEF Command

\* What OnlineWatched says, slave by slave.
LEMMA WatchedIs ==
  OnlineWatched <=>
    (Alive /\ ~overrun =>
       \A s \in Monitored : status[s] = "ONLINE" => Watched(commands, hb_timer[s], s))
BY DEF OnlineWatched, Watched, Mine

\* Whatever the timer service has done of it yet, the last order for the timer of an ONLINE
\* slave is to start it, as long as no order was refused: for every size of the queue.
THEOREM OnlineIsWatched == Spec => []OnlineWatched
<1>1. Init => OnlineWatched
  BY DEF Init, OnlineWatched, Silent
<1>2. OnlineWatched /\ MonitorTypes /\ Wired /\ [Next]_vars => OnlineWatched'
  <2> SUFFICES ASSUME OnlineWatched, MonitorTypes, Wired, [Next]_vars,
                      Alive', ~overrun', NEW s \in Monitored, status'[s] = "ONLINE"
               PROVE  Watched(commands', hb_timer'[s], s)
    BY DEF OnlineWatched, Watched, Mine
  <2> DEFINE Before == Alive /\ ~overrun /\ status[s] = "ONLINE" => Watched(commands, hb_timer[s], s)
  <2>1. Before
    BY WatchedIs
  <2>2. CASE UNCHANGED <<main, monitor>>
    BY <2>1, <2>2 DEF monitor, Alive
  <2>3. ASSUME Alive, UNCHANGED monitor  PROVE Watched(commands', hb_timer'[s], s)
    BY <2>1, <2>3 DEF monitor
  <2>4. CASE Reset
    BY <2>4 DEF Reset, Silent
  <2>5. CASE Alive /\ MarkOffline
    <3>1. status[s] = "ONLINE"
      BY <2>5 DEF MarkOffline, MonitorTypes
    <3> QED
      BY <2>1, <2>5, <3>1 DEF MarkOffline
  <2>6. CASE Alive /\ StartTimer
    <3>1. CASE UNCHANGED <<hb_timer, commands, overrun>>
      BY <2>1, <2>6, <3>1 DEF StartTimer
    <3>2. CASE hb_timer' = [hb_timer EXCEPT ![i] = "idle"] /\ Command(<<[op |-> "start", id |-> i]>>)
      <4> DEFINE o == [op |-> "start", id |-> i]
      <4>1. o \in Order /\ <<o>> \in Seq(Order) /\ i \in Monitored
        BY <2>6 DEF StartTimer, Wired, Order
      <4>2. commands' = commands \o <<o>> /\ ~overrun
        BY <3>2, <4>1, CommandAccepted DEF MonitorTypes
      <4>3. commands' = Append(commands, o)
        BY <4>1, <4>2, AppendIsConcat DEF MonitorTypes
      <4>4. o.id = i /\ o.op = "start"
        OBVIOUS
      <4> HIDE DEF o
      <4>5. status[s] = "ONLINE"
        BY <2>6 DEF StartTimer
      <4>6. s # i => hb_timer'[s] = hb_timer[s]
        BY <3>2, <4>1 DEF MonitorTypes
      <4>7. IF o.id = s THEN o.op = "start" ELSE Watched(commands, hb_timer'[s], s)
        BY <2>1, <2>6, <4>2, <4>4, <4>5, <4>6
      <4> QED
        BY <4>1, <4>3, <4>7, WatchedAppend DEF MonitorTypes
    <3> QED
      BY <2>6, <3>1, <3>2 DEF StartTimer
  <2>7. CASE Alive /\ HandOn
    <3> DEFINE id == Nrf24_getDataPipe
               stop  == [op |-> "stop", id |-> id]
               start == [op |-> "start", id |-> id]
    <3>1. CASE UNCHANGED monitor
      BY <2>3, <2>7, <3>1
    <3>2. CASE /\ id \in Monitored /\ status' = [status EXCEPT ![id] = "ONLINE"]
               /\ Command(<<stop, start>>) /\ UNCHANGED hb_timer
      <4>1. stop \in Order /\ start \in Order /\ <<stop, start>> \in Seq(Order)
        BY <3>2 DEF Order
      <4>2. commands' = commands \o <<stop, start>> /\ ~overrun
        BY <3>2, <4>1, CommandAccepted DEF MonitorTypes
      <4>3. start.id = id /\ start.op = "start" /\ stop.id = id
        OBVIOUS
      <4> HIDE DEF stop, start, id
      <4>4. /\ Append(commands, stop) \in Seq(Order)
            /\ commands' = Append(Append(commands, stop), start)
        BY <4>1, <4>2 DEF MonitorTypes
      <4>5. ASSUME id # s
            PROVE  Watched(Append(commands, stop), hb_timer'[s], s)
        <5>1. status[s] = "ONLINE"
          BY <3>2, <4>5 DEF MonitorTypes
        <5>2. Watched(commands, hb_timer'[s], s)
          BY <2>1, <2>7, <3>2, <4>2, <5>1
        <5> QED
          BY <4>1, <4>3, <4>5, <5>2, WatchedAppend DEF MonitorTypes
      <4>6. IF start.id = s THEN start.op = "start"
            ELSE Watched(Append(commands, stop), hb_timer'[s], s)
        BY <4>3, <4>5
      <4> QED
        BY <4>1, <4>4, <4>6, WatchedAppend
    <3>3. CASE main' = "panic"
      BY <3>3 DEF Alive
    <3> QED
      BY <2>7, <3>1, <3>2, <3>3 DEF HandOn, hb_register_ping_response, monitor
  <2>8. CASE Alive /\ TimerService
    <3>1. commands # <<>> /\ commands' = Tail(commands) /\ status' = status /\ overrun' = overrun
      BY <2>8 DEF TimerService
    <3>2. Watched(commands, hb_timer[s], s)
      BY <2>1, <2>8, <3>1
    <3>3. hb_timer'[s] = IF Head(commands).id = s
                         THEN IF Head(commands).op = "start" THEN "armed" ELSE "idle"
                         ELSE hb_timer[s]
      BY <2>8 DEF TimerService, MonitorTypes
    <3> QED
      BY <3>1, <3>2, <3>3, WatchedServe DEF MonitorTypes
  <2>9. ASSUME Alive, NEW t \in Monitored, hb_timeout_callback(t)
        PROVE  Watched(commands', hb_timer'[s], s)
    <3>1. /\ commands' = commands /\ status' = status /\ overrun' = overrun
          /\ hb_timer'[s] = IF s = t THEN "expired" ELSE hb_timer[s]
          /\ s = t => hb_timer[s] = "armed"
      BY <2>9 DEF hb_timeout_callback, MonitorTypes
    <3>2. Watched(commands, hb_timer[s], s)
      BY <2>1, <2>9, <3>1
    <3> QED
      BY <3>1, <3>2 DEF Watched
  <2>10. CASE Alive /\ AppMain /\ ~MarkOffline /\ ~StartTimer
    BY <2>3, <2>10 DEF AppMain, InitPins, SetWidths, Nrf24_powerUpRx, Nrf24_flushRx, AttachHandler,
       CreateIrqQueue, NotInstalled, Nrf24_setRADDR, SetWidth, SetAddress, EnablePipe, ClearStatus,
       CreateTasks
  <2>11. CASE Alive /\ (TakeEvent \/ MissEvent \/ ReadPayload \/ ClearReady \/ SendTask)
    BY <2>3, <2>11 DEF TakeEvent, MissEvent, ReadPayload, ClearReady, SendTask, Transmit,
       Transmitted, GiveUp
  <2>12. CASE \E slave \in Slave, kind \in {"PING", "BUTTON"} : Arrive(slave, kind)
    <3>1. UNCHANGED monitor /\ Alive
      BY <2>12 DEF Arrive, nrf_gpio_isr_handler, Alive
    <3> QED
      BY <2>3, <3>1
  <2>13. CASE UNCHANGED vars
    BY <2>2, <2>13 DEF vars
  <2> QED
    BY <2>4, <2>5, <2>6, <2>7, <2>8, <2>9, <2>10, <2>11, <2>12, <2>13 DEF Next, ReceiveTask, Timers
<1>3. Spec => []MonitorTypes
  <2>1. TypeOK => MonitorTypes
    BY DEF TypeOK, MonitorTypes, Order
  <2> QED
    BY <2>1, StartupTypes, PTL
<1> QED
  BY <1>1, <1>2, <1>3, WiredAlways, PTL DEF Spec
=============================================================================
