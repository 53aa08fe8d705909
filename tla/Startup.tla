------------------------------ MODULE Startup -------------------------------
(***************************************************************************)
(* From reset to the running system: io_thread_init of src/nrf_io.c with   *)
(* the registers it sets through src/mirf.c, hb_init and the heartbeat     *)
(* monitor of src/hb_monitor.c, called in this order by app_main           *)
(* (src/main.c).                                                           *)
(*                                                                         *)
(* The ESP restarts on its own: by a panic, by the button, by a brown-out. *)
(* The radio chip then keeps its registers, its FIFO and its flags, and    *)
(* the slaves keep sending.  The interrupt and the two radio tasks run     *)
(* while app_main is still at work.                                        *)
(*                                                                         *)
(* A slave is the number of the pipe it sends to ("1RECV" to "5RECV"); 0   *)
(* is an address that no slave uses.  NrfIo has the details of a           *)
(* transmission, of MAX_RT and of the queues, which are left out here.     *)
(***************************************************************************)
EXTENDS Integers, Sequences

CONSTANTS LAST_PIPE,        \* the last pipe that io_thread_init adds
          MAX_SLAVES,       \* the slaves that the heartbeat monitor knows
          FIFO_SIZE,        \* payloads the chip's receive FIFO holds
          IRQ_QUEUE_SIZE,   \* capacity of nrf_irq_queue
          TIMER_QUEUE_SIZE  \* capacity of the command queue of the timer service

ASSUME StartupAssumption ==
  /\ {MAX_SLAVES, FIFO_SIZE, IRQ_QUEUE_SIZE, TIMER_QUEUE_SIZE} \subseteq Nat \ {0}
  /\ LAST_PIPE \in Nat \ {0, 1}

Slave     == 1 .. LAST_PIPE
Pipe      == 0 .. LAST_PIPE
Monitored == 1 .. MAX_SLAVES
PAYLOAD   == 32
EMPTY     == 7                  \* the pipe number in STATUS while the FIFO is empty
NULL      == -1                 \* nrf_irq_queue before it is created

VARIABLES main, i,                   \* the step app_main is at, and its loop index
          isr, irq_q,                \* the handler is attached; length of nrf_irq_queue
          recv, raw, dev_status,     \* io_receive_task: where it is, packet, saved pipe
          nrf_mutex,                 \* "free", or the task that holds it
          status, hb_timer,          \* slave_heartbeats[]
          commands,                  \* the command queue of the timer service
          CE, mode, addr, width, enabled, fifo, RX_DR,   \* the chip
          warm, heard, overrun       \* history: the chip had been set up before this boot; the
                                     \* monitored slaves whose PING arrived since; a command
                                     \* was refused

monitor == <<status, hb_timer, commands, overrun>>
irqVars == <<isr, irq_q>>
recvVars == <<recv, raw, dev_status>>
chip    == <<CE, mode, addr, width, enabled, fifo, RX_DR>>
vars    == <<main, i, irqVars, recvVars, nrf_mutex, monitor, chip, warm, heard>>

Packet  == [pipe : Pipe, from : Slave, kind : {"PING", "BUTTON"}]
Nothing == [pipe |-> EMPTY, from |-> 0, kind |-> "BUTTON"]   \* read from an empty FIFO

\* After a failed assertion nothing runs until the reset.
Alive == main # "panic"

Never == [s \in Monitored |-> "none"]
Silent == [s \in Monitored |-> "OFFLINE"]

\* Power-on: pipes 0 and 1 are enabled, at addresses of the factory.
Init ==
  /\ main = "init" /\ i = 0
  /\ isr = FALSE /\ irq_q = NULL
  /\ recv = "none" /\ raw = Nothing /\ dev_status = EMPTY /\ nrf_mutex = "free"
  /\ status = Silent /\ hb_timer = Never /\ commands = <<>> /\ overrun = FALSE
  /\ CE = FALSE /\ mode = "DOWN"
  /\ addr = [p \in Pipe |-> 0] /\ width = [p \in Pipe |-> 0]
  /\ enabled = {0, 1} /\ fifo = <<>> /\ RX_DR = FALSE
  /\ warm = FALSE /\ heard = {}

\* The ESP starts again, the chip does not; the pin of CE floats meanwhile.
Reset ==
  /\ main' = "init" /\ i' = 0
  /\ isr' = FALSE /\ irq_q' = NULL
  /\ recv' = "none" /\ raw' = Nothing /\ dev_status' = EMPTY /\ nrf_mutex' = "free"
  /\ status' = Silent /\ hb_timer' = Never /\ commands' = <<>> /\ overrun' = FALSE
  /\ CE' \in BOOLEAN
  /\ warm' = (addr[1] = 1) /\ heard' = {}
  /\ UNCHANGED <<mode, addr, width, enabled, fifo, RX_DR>>
-----------------------------------------------------------------------------
(***************************************************************************)
(* app_main.                                                               *)
(***************************************************************************)
\* Nrf24_init
InitPins ==
  /\ main = "init"
  /\ CE' = FALSE
  /\ main' = "config"
  /\ UNCHANGED <<i, irqVars, recvVars, nrf_mutex, monitor, mode, addr, width, enabled, fifo, RX_DR,
                 warm, heard>>

\* Nrf24_config up to the receiver
SetWidths ==
  /\ main = "config"
  /\ width' = [width EXCEPT ![0] = PAYLOAD, ![1] = PAYLOAD]
  /\ main' = "listen"
  /\ UNCHANGED <<i, irqVars, recvVars, nrf_mutex, monitor, CE, mode, addr, enabled, fifo, RX_DR,
                 warm, heard>>

\* Mutant: the address is set before the receiver starts, not when the interrupt is ready.
Nrf24_powerUpRxAddressed ==
  /\ main = "listen"
  /\ CE' = TRUE /\ mode' = "RX"
  /\ addr' = [addr EXCEPT ![1] = 1]
  /\ main' = "flush"
  /\ UNCHANGED <<i, irqVars, recvVars, nrf_mutex, monitor, width, enabled, fifo, RX_DR,
                 warm, heard>>

Nrf24_powerUpRx ==
  /\ main = "listen"
  /\ CE' = TRUE /\ mode' = "RX"
  /\ main' = "flush"
  /\ UNCHANGED <<i, irqVars, recvVars, nrf_mutex, monitor, addr, width, enabled, fifo, RX_DR,
                 warm, heard>>

\* Mutant: the FIFO is not flushed.
Nrf24_flushRxNot ==
  /\ main = "flush"
  /\ main' = "attach"
  /\ UNCHANGED <<i, irqVars, recvVars, nrf_mutex, monitor, chip, warm, heard>>

\* RX_DR stays as it is.
Nrf24_flushRx ==
  /\ main = "flush"
  /\ fifo' = <<>>
  /\ main' = "attach"
  /\ UNCHANGED <<i, irqVars, recvVars, nrf_mutex, monitor, CE, mode, addr, width, enabled, RX_DR,
                 warm, heard>>

\* configure_nrf_irq_pin: the handler first, the queue it writes to second
AttachHandler ==
  /\ main = "attach"
  /\ isr' = TRUE
  /\ main' = "queue"
  /\ UNCHANGED <<i, irq_q, recvVars, nrf_mutex, monitor, chip, warm, heard>>

CreateIrqQueue ==
  /\ main = "queue"
  /\ irq_q' = 0
  /\ main' = "first"
  /\ UNCHANGED <<i, isr, recvVars, nrf_mutex, monitor, chip, warm, heard>>

Nrf24_setRADDR ==
  /\ main = "first"
  /\ addr' = [addr EXCEPT ![1] = 1]
  /\ main' = "width" /\ i' = 2
  /\ UNCHANGED <<irqVars, recvVars, nrf_mutex, monitor, CE, mode, width, enabled, fifo, RX_DR,
                 warm, heard>>

\* The address was read back wrong: "nrf24l01 not installed", and app_main goes no further.
NotInstalled ==
  /\ main = "first"
  /\ main' = "halt"
  /\ UNCHANGED <<i, irqVars, recvVars, nrf_mutex, monitor, chip, warm, heard>>

\* Nrf24_addRADDR in three registers, on a chip that is listening
\* Mutant: the pipe is enabled first.
SetWidthEnabled ==
  /\ main = "width"
  /\ width' = [width EXCEPT ![i] = PAYLOAD]
  /\ enabled' = enabled \cup {i}
  /\ main' = "address"
  /\ UNCHANGED <<i, irqVars, recvVars, nrf_mutex, monitor, CE, mode, addr, fifo, RX_DR,
                 warm, heard>>

SetWidth ==
  /\ main = "width"
  /\ width' = [width EXCEPT ![i] = PAYLOAD]
  /\ main' = "address"
  /\ UNCHANGED <<i, irqVars, recvVars, nrf_mutex, monitor, CE, mode, addr, enabled, fifo, RX_DR,
                 warm, heard>>

SetAddress ==
  /\ main = "address"
  /\ addr' = [addr EXCEPT ![i] = i]
  /\ main' = "enable"
  /\ UNCHANGED <<i, irqVars, recvVars, nrf_mutex, monitor, CE, mode, width, enabled, fifo, RX_DR,
                 warm, heard>>

EnablePipe ==
  /\ main = "enable"
  /\ enabled' = enabled \cup {i}
  /\ main' = IF i < LAST_PIPE THEN "width" ELSE "clear"
  /\ i' = IF i < LAST_PIPE THEN i + 1 ELSE 0
  /\ UNCHANGED <<irqVars, recvVars, nrf_mutex, monitor, CE, mode, addr, width, fifo, RX_DR,
                 warm, heard>>

\* Whatever arrived until now stays in the FIFO.
ClearStatus ==
  /\ main = "clear"
  /\ RX_DR' = FALSE
  /\ main' = "tasks"
  /\ UNCHANGED <<i, irqVars, recvVars, nrf_mutex, monitor, CE, mode, addr, width, enabled, fifo,
                 warm, heard>>

CreateTasks ==
  /\ main = "tasks"
  /\ recv' = "wait"
  /\ main' = "offline" /\ i' = 1
  /\ UNCHANGED <<irqVars, raw, dev_status, nrf_mutex, monitor, chip, warm, heard>>

\* hb_init, a slave in two steps
MarkOffline ==
  /\ main = "offline"
  /\ status' = [status EXCEPT ![i] = "OFFLINE"]
  /\ main' = "timer"
  /\ UNCHANGED <<i, irqVars, recvVars, nrf_mutex, hb_timer, commands, overrun, chip,
                 warm, heard>>

\* xTimerStart and xTimerStop with no time to wait: a full queue refuses them.
Command(list) ==
  LET room == TIMER_QUEUE_SIZE - Len(commands)
  IN  /\ commands' = commands \o SubSeq(list, 1, IF Len(list) < room THEN Len(list) ELSE room)
      /\ overrun' = (overrun \/ Len(list) > room)

StartTimer ==
  /\ main = "timer"
  /\ \/ /\ hb_timer' = [hb_timer EXCEPT ![i] = "idle"]
        /\ Command(<<[op |-> "start", id |-> i]>>)
     \/ UNCHANGED <<hb_timer, commands, overrun>>      \* xTimerCreate returned NULL
  /\ main' = IF i < MAX_SLAVES THEN "offline" ELSE "run"
  /\ i' = IF i < MAX_SLAVES THEN i + 1 ELSE 0
  /\ UNCHANGED <<irqVars, recvVars, nrf_mutex, status, chip, warm, heard>>

AppMain ==
  \/ InitPins \/ SetWidths \/ Nrf24_powerUpRx \/ Nrf24_flushRx
  \/ AttachHandler \/ CreateIrqQueue \/ Nrf24_setRADDR \/ NotInstalled
  \/ SetWidth \/ SetAddress \/ EnablePipe \/ ClearStatus \/ CreateTasks
  \/ MarkOffline \/ StartTimer
-----------------------------------------------------------------------------
(***************************************************************************)
(* The radio: the chip, the interrupt, the receive task; of the send task  *)
(* what it does to the chip.                                               *)
(***************************************************************************)
\* The pipes that take a packet to slave's address.  Pipes 2 and up share the upper bytes of
\* pipe 1; if pipe 0 has the address as well, from a transmission, either may take it.
Takers(slave) ==
  {p \in enabled : addr[p] = slave /\ width[p] = PAYLOAD /\ (p > 1 => addr[1] = 1)}

\* nrf_gpio_isr_handler; without its queue xQueueSendFromISR fails an assertion.
nrf_gpio_isr_handler ==
  IF irq_q = NULL THEN main' = "panic" /\ UNCHANGED irq_q
  ELSE irq_q' = (IF irq_q < IRQ_QUEUE_SIZE THEN irq_q + 1 ELSE irq_q) /\ UNCHANGED main

Arrive(slave, kind) ==
  /\ CE /\ mode = "RX" /\ Len(fifo) < FIFO_SIZE
  /\ \E p \in Takers(slave) : fifo' = Append(fifo, [pipe |-> p, from |-> slave, kind |-> kind])
  /\ heard' = IF kind = "PING" /\ slave \in Monitored THEN heard \cup {slave} ELSE heard
  /\ RX_DR' = TRUE
  /\ IF isr /\ ~RX_DR /\ Alive THEN nrf_gpio_isr_handler ELSE UNCHANGED <<main, irq_q>>
  /\ UNCHANGED <<i, isr, recvVars, nrf_mutex, monitor, CE, mode, addr, width, enabled, warm>>

\* The pipe number in STATUS: that of the next payload.
NextPipe == IF fifo = <<>> THEN EMPTY ELSE Head(fifo).pipe

\* Nrf24_dataReady saves the status it saw.
TakeEvent ==
  /\ recv = "wait" /\ irq_q > 0 /\ nrf_mutex = "free"
  /\ irq_q' = irq_q - 1
  /\ IF RX_DR THEN dev_status' = NextPipe /\ recv' = "read" /\ nrf_mutex' = "recv"
              ELSE UNCHANGED <<dev_status, recv, nrf_mutex>>
  /\ UNCHANGED <<main, i, isr, raw, monitor, chip, warm, heard>>

\* The mutex was not free for 10 ms.
MissEvent ==
  /\ recv = "wait" /\ irq_q > 0 /\ nrf_mutex = "send"
  /\ irq_q' = irq_q - 1
  /\ UNCHANGED <<main, i, isr, recvVars, nrf_mutex, monitor, chip, warm, heard>>

ReadPayload ==
  /\ recv = "read"
  /\ raw' = IF fifo = <<>> THEN Nothing ELSE Head(fifo)
  /\ fifo' = IF fifo = <<>> THEN fifo ELSE Tail(fifo)
  /\ recv' = "clear"
  /\ UNCHANGED <<main, i, irqVars, dev_status, nrf_mutex, monitor, CE, mode, addr, width, enabled,
                 RX_DR, warm, heard>>

ClearReady ==
  /\ recv = "clear"
  /\ RX_DR' = FALSE
  /\ recv' = "hand"
  /\ UNCHANGED <<main, i, irqVars, raw, dev_status, nrf_mutex, monitor, CE, mode, addr, width,
                 enabled, fifo, warm, heard>>

\* Mutant: the status is read again, as in the line that mirf.c has commented out.
Nrf24_getDataPipeNow == NextPipe

Nrf24_getDataPipe == dev_status

\* Mutant: the id is not tested.
hb_register_ping_responseAny(id) ==
  /\ status' = [status EXCEPT ![id] = "ONLINE"]
  /\ IF id \in Monitored /\ hb_timer[id] = "none"
     THEN main' = "panic" /\ UNCHANGED <<hb_timer, commands, overrun>>
     ELSE Command(<<[op |-> "stop", id |-> id], [op |-> "start", id |-> id]>>)
          /\ UNCHANGED <<main, hb_timer>>

\* Mutant: the timer is started before it is stopped.
hb_register_ping_responseStopped(id) ==
  IF id \notin Monitored THEN UNCHANGED <<main, monitor>>
  ELSE /\ status' = [status EXCEPT ![id] = "ONLINE"]
       /\ IF hb_timer[id] = "none"
          THEN main' = "panic" /\ UNCHANGED <<hb_timer, commands, overrun>>
          ELSE Command(<<[op |-> "start", id |-> id], [op |-> "stop", id |-> id]>>)
               /\ UNCHANGED <<main, hb_timer>>

\* xTimerStop fails an assertion if it is given no timer.  The status and the two commands
\* are one step: OnlineWatched speaks of what they leave together.
hb_register_ping_response(id) ==
  IF id \notin Monitored THEN UNCHANGED <<main, monitor>>
  ELSE /\ status' = [status EXCEPT ![id] = "ONLINE"]
       /\ IF hb_timer[id] = "none"
          THEN main' = "panic" /\ UNCHANGED <<hb_timer, commands, overrun>>
          ELSE Command(<<[op |-> "stop", id |-> id], [op |-> "start", id |-> id]>>)
               /\ UNCHANGED <<main, hb_timer>>

HandOn ==
  /\ recv = "hand"
  /\ IF raw.kind = "PING" THEN hb_register_ping_response(Nrf24_getDataPipe)
                          ELSE UNCHANGED <<main, monitor>>
  /\ recv' = "wait" /\ nrf_mutex' = "free" /\ raw' = Nothing
  /\ UNCHANGED <<i, irqVars, dev_status, chip, warm, heard>>

ReceiveTask == TakeEvent \/ MissEvent \/ ReadPayload \/ ClearReady \/ HandOn

\* Nrf24_setTADDR and Nrf24_send: pipe 0 gets the slave's address, for its acknowledgement.
\* The game task, which sends, is created after hb_init.
Transmit(slave) ==
  /\ main = "run" /\ nrf_mutex = "free"
  /\ nrf_mutex' = "send"
  /\ addr' = [addr EXCEPT ![0] = slave]
  /\ mode' = "TX"
  /\ UNCHANGED <<main, i, irqVars, recvVars, monitor, CE, width, enabled, fifo, RX_DR,
                 warm, heard>>

\* Nrf24_isSending has seen the end of it.
Transmitted ==
  /\ nrf_mutex = "send"
  /\ nrf_mutex' = "free"
  /\ mode' = "RX"
  /\ UNCHANGED <<main, i, irqVars, recvVars, monitor, CE, addr, width, enabled, fifo, RX_DR,
                 warm, heard>>

\* Given up: every flag is cleared, and the chip is left as it is.
GiveUp ==
  /\ nrf_mutex = "send"
  /\ nrf_mutex' = "free"
  /\ RX_DR' = FALSE
  /\ UNCHANGED <<main, i, irqVars, recvVars, monitor, CE, mode, addr, width, enabled, fifo,
                 warm, heard>>

SendTask == Transmitted \/ GiveUp \/ \E slave \in Slave \ {1} : Transmit(slave)
-----------------------------------------------------------------------------
(***************************************************************************)
(* The timer service.  hb_timeout_callback only logs.                      *)
(***************************************************************************)
TimerService ==
  /\ commands # <<>>
  /\ LET c == Head(commands)
     IN  hb_timer' = [hb_timer EXCEPT ![c.id] = IF c.op = "start" THEN "armed" ELSE "idle"]
  /\ commands' = Tail(commands)
  /\ UNCHANGED <<main, i, irqVars, recvVars, nrf_mutex, status, overrun, chip, warm, heard>>

hb_timeout_callback(s) ==
  /\ hb_timer[s] = "armed"
  /\ hb_timer' = [hb_timer EXCEPT ![s] = "expired"]
  /\ UNCHANGED <<main, i, irqVars, recvVars, nrf_mutex, status, commands, overrun, chip,
                 warm, heard>>

Timers == TimerService \/ \E s \in Monitored : hb_timeout_callback(s)

Next ==
  \/ Alive /\ (AppMain \/ ReceiveTask \/ SendTask \/ Timers)
  \/ \E slave \in Slave, kind \in {"PING", "BUTTON"} : Arrive(slave, kind)
  \/ Reset

Spec == Init /\ [][Next]_vars
-----------------------------------------------------------------------------
LargestIndex == IF LAST_PIPE > MAX_SLAVES THEN LAST_PIPE ELSE MAX_SLAVES

\* Every variable keeps its type; only timers that exist are commanded.
TypeOK ==
  /\ main \in {"init", "config", "listen", "flush", "attach", "queue", "first", "width",
               "address", "enable", "clear", "tasks", "offline", "timer", "run", "halt", "panic"}
  /\ i \in 0 .. LargestIndex
  /\ isr \in BOOLEAN /\ irq_q \in {NULL} \cup 0 .. IRQ_QUEUE_SIZE
  /\ recv \in {"none", "wait", "read", "clear", "hand"}
  /\ raw \in Packet \cup {Nothing} /\ dev_status \in Pipe \cup {EMPTY}
  /\ nrf_mutex \in {"free", "recv", "send"}
  /\ status \in [Monitored -> {"OFFLINE", "ONLINE"}]
  /\ hb_timer \in [Monitored -> {"none", "idle", "armed", "expired"}]
  /\ commands \in Seq([op : {"start", "stop"}, id : Monitored]) /\ Len(commands) <= TIMER_QUEUE_SIZE
  /\ CE \in BOOLEAN /\ mode \in {"DOWN", "RX", "TX"}
  /\ addr \in [Pipe -> Pipe] /\ width \in [Pipe -> {0, PAYLOAD}] /\ enabled \subseteq Pipe
  /\ fifo \in Seq(Packet) /\ Len(fifo) <= FIFO_SIZE /\ RX_DR \in BOOLEAN
  /\ {warm, overrun} \subseteq BOOLEAN /\ heard \subseteq Monitored

\* After power-on the interrupt, which is attached before its queue exists, finds it:
\* nothing can arrive so early.  Only a chip that had been set up before can defeat this.
InterruptHasQueue == main = "panic" /\ irq_q = NULL => warm

\* Pipes are added while the chip listens: none of them ever takes a packet with an address
\* or a width that is not its own yet, and once the tasks run all of them are there.
PipesComplete ==
  /\ CE /\ mode = "RX" =>
       \A p \in enabled : width[p] = PAYLOAD /\ (p > 1 => addr[p] = p /\ addr[1] = 1)
  /\ recv # "none" => enabled = Pipe

\* A slave is ONLINE only after a PING of its own that arrived since the ESP started, whatever
\* the chip had received before and in whatever order packets are read.
OnlineHeard == \A s \in Monitored : status[s] = "ONLINE" => s \in heard

\* A packet is handed on with the number of the slave it came from, although others arrive
\* between the reading of the status and of the payload; or as slave 0, if pipe 0 had the
\* address as well.
Attributed == recv = "hand" => Nrf24_getDataPipe \in {0, raw.from}

\* Unless the timer service fell behind, the timer of a slave that is ONLINE runs, is about to
\* be started, or has expired since the last PING.
OnlineWatched ==
  LET mine(s) == {k \in DOMAIN commands : commands[k].id = s}
  IN  Alive /\ ~overrun =>
        \A s \in Monitored : status[s] = "ONLINE" =>
          \/ mine(s) = {} /\ hb_timer[s] \in {"armed", "expired"}
          \/ \E k \in mine(s) : commands[k].op = "start" /\ \A l \in mine(s) : l <= k
=============================================================================
