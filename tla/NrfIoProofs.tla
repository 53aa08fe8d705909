---------------------------- MODULE NrfIoProofs -----------------------------
(***************************************************************************)
(* Proofs about NrfIo, for every size of the queues and of the chip's      *)
(* FIFO, every number of retries, of callers, messages and packets.        *)
(***************************************************************************)
EXTENDS NrfIo, SequenceTheorems, FiniteSetTheorems, TLAPS

Message == 1 .. Messages

\* What the assumption says of each constant.
LEMMA Sizes ==
  /\ IO_QUEUE_SIZE \in Nat \ {0} /\ IRQ_QUEUE_SIZE \in Nat \ {0} /\ FIFO_SIZE \in Nat \ {0}
  /\ MAX_RETRIES \in Nat /\ Messages \in Nat /\ Packets \in Nat
BY NrfIoAssumption

USE Sizes
-----------------------------------------------------------------------------
(***************************************************************************)
(* The bus.                                                                *)
(***************************************************************************)
Places ==
  /\ nrf_mutex \in {"free", "send", "receive"}
  /\ send \in {"wait", "take", "load", "poll", "fail"}
  /\ recv \in {"wait", "take", "ready", "clear", "sort"}

\* A task that drives the SPI bus holds nrf_mutex, and so never both do: only
\* xSemaphoreTake and xSemaphoreGive of the two tasks change it.
THEOREM BusIsExclusive == Spec => []BusExclusive
<1> DEFINE Inv == Places /\ BusExclusive
<1>1. Init => Inv
  BY DEF Init, Places, BusExclusive
<1>2. Inv /\ [Next]_vars => Inv'
  <2> SUFFICES ASSUME Inv, [Next]_vars  PROVE Inv'
    OBVIOUS
  <2> USE DEF Places, BusExclusive
  <2>1. CASE Calls \/ ReadButton
    BY <2>1 DEF Calls, CallEnqueue, io_enqueue_send, ReadButton, sendVars, recvVars
  <2>2. CASE DequeueSend
    BY <2>2 DEF DequeueSend, recvVars
  <2>3. CASE LockSend
    BY <2>3 DEF LockSend, recvVars
  <2>4. CASE AwaitLast \/ StillSending
    BY <2>4 DEF AwaitLast, StillSending, sendVars, recvVars
  <2>5. CASE Nrf24_send
    BY <2>5 DEF Nrf24_send, recvVars
  <2>6. CASE FinishSending
    BY <2>6 DEF FinishSending, recvVars
  <2>7. CASE GiveUpSending
    BY <2>7 DEF GiveUpSending, recvVars
  <2>8. CASE ClearFailed
    BY <2>8 DEF ClearFailed, recvVars
  <2>9. CASE DequeueIrq
    BY <2>9 DEF DequeueIrq, sendVars
  <2>10. CASE LockReceive
    BY <2>10 DEF LockReceive, sendVars
  <2>11. CASE TimeoutReceive
    BY <2>11 DEF TimeoutReceive, sendVars
  <2>12. CASE NotReady
    BY <2>12 DEF NotReady, sendVars
  <2>13. CASE ReadPayload
    BY <2>13 DEF ReadPayload, sendVars
  <2>14. CASE ClearReady
    BY <2>14 DEF ClearReady, sendVars
  <2>15. CASE TakePing
    BY <2>15 DEF TakePing, sendVars
  <2>16. CASE PushButton
    BY <2>16 DEF PushButton, sendVars
  <2>17. CASE Chip \/ \E kind \in {"PING", "BUTTON"} : Arrive(kind)
    BY <2>17 DEF Chip, Report, Arrive, sendVars, recvVars
  <2>18. CASE UNCHANGED vars
    BY <2>18 DEF vars, sendVars, recvVars
  <2> QED
    BY <2>1, <2>2, <2>3, <2>4, <2>5, <2>6, <2>7, <2>8, <2>9, <2>10, <2>11, <2>12, <2>13, <2>14,
       <2>15, <2>16, <2>17, <2>18 DEF Next, SendTask, ReceiveTask
<1> QED
  BY <1>1, <1>2, PTL DEF Spec
-----------------------------------------------------------------------------
(***************************************************************************)
(* The types, and what they rest on: when the locals of the tasks hold     *)
(* something, and that a packet is there to be read when RX_DR says so.    *)
(***************************************************************************)
LocalsHeld ==
  /\ msg # None <=> send \in {"take", "load"}
  /\ raw # None <=> recv \in {"clear", "sort"}
  /\ enqueued + Cardinality(calling) <= Messages

ReadyMeansPacket == "RX_DR" \in STATUS /\ recv # "clear" => fifo # <<>>

RadioInv == TypeOK /\ LocalsHeld /\ ReadyMeansPacket /\ arrived \in Seq(Packet)

\* A message or a packet in a task's hands is not the empty sequence.
LEMMA SingleNotEmpty == \A x : <<x>> # None /\ <<x>>[1] = x
BY DEF None

\* All is empty when the tasks start.
LEMMA InitRadio == Init => RadioInv
<1> SUFFICES ASSUME Init  PROVE RadioInv
  OBVIOUS
<1>1. \A S : <<>> \in Seq(S) /\ Len(<<>>) = 0
  BY EmptySeq
<1>2. send_q \in Seq(1 .. Messages) /\ recv_q \in Seq(Packet) /\ fifo \in Seq(Packet)
  BY <1>1 DEF Init
<1>3. Len(send_q) <= IO_QUEUE_SIZE /\ Len(recv_q) <= IO_QUEUE_SIZE /\ Len(fifo) <= FIFO_SIZE
  <2>1. Len(send_q) = 0 /\ Len(recv_q) = 0 /\ Len(fifo) = 0
    BY <1>1 DEF Init
  <2> QED
    BY <2>1
<1>4. /\ msg \in {None} \cup {<<m>> : m \in 1 .. Messages}
      /\ air \in {None} \cup {<<m>> : m \in 1 .. Messages}
      /\ raw \in {None} \cup {<<p>> : p \in Packet}
  BY DEF Init
<1>5. irq_q \in 0 .. IRQ_QUEUE_SIZE /\ retry_count \in 0 .. MAX_RETRIES /\ enqueued \in 0 .. Messages
  BY DEF Init
<1>6. /\ nrf_mutex = "free" /\ send = "wait" /\ recv = "wait" /\ calling = {}
      /\ PTX = FALSE /\ mode = "RX" /\ STATUS = {}
  BY DEF Init
<1>7. TypeOK
  BY <1>2, <1>3, <1>4, <1>5, <1>6 DEF TypeOK
<1>8. enqueued + Cardinality(calling) <= Messages
  BY FS_EmptySet DEF Init
<1> QED
  BY <1>1, <1>7, <1>8 DEF Init, RadioInv, LocalsHeld, ReadyMeansPacket

\* A task more in the call, or one less.
LEMMA CallersCounted ==
  ASSUME calling \subseteq Callers, NEW task \in Callers
  PROVE  /\ Cardinality(calling) \in Nat
         /\ task \notin calling => Cardinality(calling \cup {task}) = Cardinality(calling) + 1
         /\ task \in calling => /\ Cardinality(calling \ {task}) = Cardinality(calling) - 1
                               /\ Cardinality(calling) > 0
<1>1. IsFiniteSet(calling)
  BY NrfIoAssumption, FS_Subset
<1>2. Cardinality(calling) \in Nat /\ (task \in calling => Cardinality(calling) # 0)
  BY <1>1, FS_CardinalityType, FS_EmptySet
<1>3. task \notin calling => Cardinality(calling \cup {task}) = Cardinality(calling) + 1
  BY <1>1, FS_AddElement
<1>4. task \in calling => Cardinality(calling \ {task}) = Cardinality(calling) - 1
  BY <1>1, FS_RemoveElement
<1>5. task \in calling => Cardinality(calling) > 0
  BY <1>2
<1> QED
  BY <1>2, <1>3, <1>4, <1>5

\* io_enqueue_send keeps to the room of its queue, and so does the reader.
LEMMA GameRadio ==
  ASSUME RadioInv, Calls \/ ReadButton
  PROVE  RadioInv'
<1> USE DEF RadioInv, LocalsHeld, ReadyMeansPacket, sendVars, recvVars, chipVars, history
<1>1. ASSUME NEW task \in Callers, CallEnqueue(task)  PROVE RadioInv'
  <2>1. Cardinality(calling) \in Nat /\ Cardinality(calling') = Cardinality(calling) + 1
    BY <1>1, CallersCounted DEF CallEnqueue, TypeOK
  <2>2. enqueued' + Cardinality(calling') <= Messages
    BY <1>1, <2>1 DEF CallEnqueue, TypeOK
  <2> QED
    BY <1>1, <2>2 DEF CallEnqueue, TypeOK
<1>2. ASSUME NEW task \in Callers, io_enqueue_send(task)  PROVE RadioInv'
  <2>1. /\ Cardinality(calling) \in Nat /\ Cardinality(calling) > 0
        /\ Cardinality(calling') = Cardinality(calling) - 1
    BY <1>2, CallersCounted DEF io_enqueue_send, TypeOK
  <2>2. enqueued' \in Message /\ enqueued' + Cardinality(calling') <= Messages
    BY <1>2, <2>1 DEF io_enqueue_send, TypeOK, Message
  <2>3. send_q' \in Seq(Message) /\ Len(send_q') <= IO_QUEUE_SIZE
    BY <1>2, <2>2, AppendProperties DEF io_enqueue_send, TypeOK, Message
  <2> QED
    BY <1>2, <2>2, <2>3 DEF io_enqueue_send, TypeOK, Message
<1>3. CASE ReadButton
  <2>1. recv_q' \in Seq(Packet) /\ Len(recv_q') <= IO_QUEUE_SIZE
    BY <1>3, HeadTailProperties DEF ReadButton, TypeOK
  <2> QED
    BY <1>3, <2>1 DEF ReadButton, TypeOK
<1> QED
  BY <1>1, <1>2, <1>3 DEF Calls

\* Each step of io_send_task keeps the types and its locals in step with its place.
LEMMA SendRadio ==
  ASSUME RadioInv, SendTask
  PROVE  RadioInv'
<1> USE DEF RadioInv, LocalsHeld, ReadyMeansPacket, recvVars, history
<1>1. CASE DequeueSend
  <2>1. /\ Head(send_q) \in Message
        /\ send_q' \in Seq(Message) /\ Len(send_q') <= IO_QUEUE_SIZE
    BY <1>1, HeadTailProperties DEF DequeueSend, TypeOK, Message
  <2>2. msg' # None /\ msg' \in {<<m>> : m \in Message}
    BY <1>1, <2>1, SingleNotEmpty DEF DequeueSend
  <2> QED
    BY <1>1, <2>1, <2>2 DEF DequeueSend, TypeOK, Message, chipVars
<1>2. CASE LockSend
  BY <1>2 DEF LockSend, TypeOK, chipVars
<1>3. CASE AwaitLast
  BY <1>3 DEF AwaitLast, TypeOK, sendVars
<1>4. CASE Nrf24_send
  BY <1>4 DEF Nrf24_send, TypeOK, Done
<1>5. CASE StillSending
  BY <1>5 DEF StillSending, TypeOK, chipVars
<1>6. CASE FinishSending
  BY <1>6 DEF FinishSending, TypeOK, Done
<1>7. CASE GiveUpSending
  BY <1>7 DEF GiveUpSending, TypeOK, chipVars
<1>8. CASE ClearFailed
  BY <1>8 DEF ClearFailed, TypeOK
<1> QED
  BY <1>1, <1>2, <1>3, <1>4, <1>5, <1>6, <1>7, <1>8 DEF SendTask

\* Each step of io_receive_task does; it reads a payload only where there is one.
LEMMA ReceiveRadio ==
  ASSUME RadioInv, ReceiveTask
  PROVE  RadioInv'
<1> USE DEF RadioInv, LocalsHeld, ReadyMeansPacket, sendVars, history
<1>1. CASE DequeueIrq
  BY <1>1 DEF DequeueIrq, TypeOK, chipVars
<1>2. CASE LockReceive
  BY <1>2 DEF LockReceive, TypeOK, chipVars
<1>3. CASE TimeoutReceive
  BY <1>3 DEF TimeoutReceive, TypeOK, chipVars
<1>4. CASE NotReady
  BY <1>4 DEF NotReady, TypeOK, chipVars
<1>5. CASE ReadPayload
  <2>1. /\ Head(fifo) \in Packet
        /\ fifo' \in Seq(Packet) /\ Len(fifo') <= FIFO_SIZE
    BY <1>5, HeadTailProperties DEF ReadPayload, TypeOK
  <2> QED
    BY <1>5, <2>1, SingleNotEmpty DEF ReadPayload, TypeOK
<1>6. CASE ClearReady
  BY <1>6 DEF ClearReady, TypeOK
<1>7. CASE TakePing
  BY <1>7 DEF TakePing, TypeOK, chipVars
<1>8. CASE PushButton
  <2>1. raw \in Seq(Packet) /\ Len(raw) = 1
    <3>1. PICK p \in Packet : raw = <<p>>
      BY <1>8 DEF PushButton, TypeOK
    <3> QED
      BY <3>1
  <2>2. recv_q' \in Seq(Packet) /\ Len(recv_q') <= IO_QUEUE_SIZE
    <3>1. recv_q' = recv_q \o raw /\ Len(recv_q) < IO_QUEUE_SIZE /\ recv_q \in Seq(Packet)
      BY <1>8 DEF PushButton, TypeOK
    <3>2. recv_q \o raw \in Seq(Packet) /\ Len(recv_q \o raw) = Len(recv_q) + Len(raw)
      BY <2>1, <3>1, ConcatProperties
    <3>3. Len(recv_q) \in Nat
      BY <3>1
    <3> HIDE DEF RadioInv, LocalsHeld
    <3> QED
      BY <2>1, <3>1, <3>2, <3>3
  <2> QED
    BY <1>8, <2>2 DEF PushButton, TypeOK, chipVars
<1> QED
  BY <1>1, <1>2, <1>3, <1>4, <1>5, <1>6, <1>7, <1>8 DEF ReceiveTask

\* A packet enters the FIFO before RX_DR rises.
LEMMA ChipRadio ==
  ASSUME RadioInv, Chip \/ \E kind \in {"PING", "BUTTON"} : Arrive(kind)
  PROVE  RadioInv'
<1> USE DEF RadioInv, LocalsHeld, ReadyMeansPacket, sendVars, recvVars, history
<1>1. ASSUME NEW flag \in Done, Report(flag)
      PROVE  RadioInv'
  BY <1>1 DEF Report, Raise, nrf_gpio_isr_handler, TypeOK, Done
<1>2. ASSUME NEW kind \in {"PING", "BUTTON"}, Arrive(kind)
      PROVE  RadioInv'
  <2> DEFINE packet == [id |-> Len(arrived) + 1, kind |-> kind]
  <2>1. packet \in Packet
    BY <1>2 DEF Arrive, Packet
  <2>2. /\ fifo' \in Seq(Packet) /\ Len(fifo') <= FIFO_SIZE /\ fifo' # <<>>
        /\ arrived' \in Seq(Packet)
    <3>1. /\ fifo' = Append(fifo, packet) /\ arrived' = Append(arrived, packet)
          /\ Len(fifo) < FIFO_SIZE /\ fifo \in Seq(Packet) /\ arrived \in Seq(Packet)
      BY <1>2 DEF Arrive, TypeOK
    <3> HIDE DEF packet
    <3>2. /\ Append(fifo, packet) \in Seq(Packet) /\ Len(Append(fifo, packet)) = Len(fifo) + 1
          /\ Append(fifo, packet) # <<>> /\ Append(arrived, packet) \in Seq(Packet)
      BY <2>1, <3>1, AppendProperties
    <3>3. Len(fifo) \in Nat
      BY <3>1
    <3> QED
      BY <3>1, <3>2, <3>3
  <2> QED
    <3>1. STATUS' = STATUS \cup {"RX_DR"} /\ irq_q' \in {irq_q, irq_q + 1}
          /\ (irq_q' # irq_q => irq_q < IRQ_QUEUE_SIZE)
      BY <1>2 DEF Arrive, Raise, nrf_gpio_isr_handler
    <3>2. irq_q' \in 0 .. IRQ_QUEUE_SIZE /\ STATUS' \subseteq {"RX_DR"} \cup Done
      BY <3>1 DEF TypeOK
    <3> HIDE DEF packet
    <3> QED
      BY <1>2, <2>2, <3>2 DEF Arrive, TypeOK
<1> QED
  BY <1>1, <1>2 DEF Chip

\* The types with what they rest on hold in every state.
THEOREM RadioInvariant == Spec => []RadioInv
<1>1. RadioInv /\ [Next]_vars => RadioInv'
  <2> SUFFICES ASSUME RadioInv, [Next]_vars  PROVE RadioInv'
    OBVIOUS
  <2>1. CASE UNCHANGED vars
    BY <2>1 DEF vars, sendVars, recvVars, chipVars, history, RadioInv, TypeOK, LocalsHeld,
                ReadyMeansPacket
  <2> QED
    BY <2>1, GameRadio, SendRadio, ReceiveRadio, ChipRadio DEF Next
<1> QED
  BY <1>1, InitRadio, PTL DEF Spec

\* No queue takes more than it was created for, and no task uses a message or a packet
\* that it does not hold.
THEOREM RadioTypes == Spec => []TypeOK
BY RadioInvariant, PTL DEF RadioInv
-----------------------------------------------------------------------------
(***************************************************************************)
(* The order of the messages.                                              *)
(***************************************************************************)
\* One number more, in order.
LEMMA CountOneMore ==
  ASSUME NEW n \in Nat
  PROVE  Append([i \in 1 .. n |-> i], n + 1) = [i \in 1 .. n + 1 |-> i]
<1> DEFINE s == [i \in 1 .. n |-> i]
           t == [i \in 1 .. n + 1 |-> i]
<1>1. s \in Seq(Nat) /\ Len(s) = n /\ t \in Seq(Nat) /\ Len(t) = n + 1
  OBVIOUS
<1>2. Append(s, n + 1) \in Seq(Nat) /\ Len(Append(s, n + 1)) = n + 1
  BY <1>1, AppendProperties
<1>3. ASSUME NEW i \in 1 .. n + 1  PROVE Append(s, n + 1)[i] = t[i]
  BY <1>1, AppendProperties
<1> HIDE DEF s, t
<1>4. Append(s, n + 1) = t
  BY <1>1, <1>2, <1>3, SeqEqual
<1> QED
  BY <1>4 DEF s, t

\* A queue that is not empty is its head and then its tail.
LEMMA HeadThenTail ==
  ASSUME NEW S, NEW q \in Seq(S), q # <<>>
  PROVE  /\ <<Head(q)>> \in Seq(S) /\ Tail(q) \in Seq(S)
         /\ <<Head(q)>> \o Tail(q) = q
<1>1. Head(q) \in S /\ Tail(q) \in Seq(S) /\ Len(Tail(q)) = Len(q) - 1
  BY HeadTailProperties
<1>2. <<Head(q)>> \in Seq(S) /\ Len(<<Head(q)>>) = 1
  BY <1>1
<1>3. <<Head(q)>> \o Tail(q) \in Seq(S) /\ Len(<<Head(q)>> \o Tail(q)) = Len(q)
  BY <1>1, <1>2, ConcatProperties
<1>4. ASSUME NEW i \in 1 .. Len(q)  PROVE (<<Head(q)>> \o Tail(q))[i] = q[i]
  BY <1>1, <1>2
<1> QED
  BY <1>1, <1>2, <1>3, <1>4, SeqEqual

\* Messages in a row are the same row however they are grouped.
LEMMA MessagesAssociate ==
  \A s, t, u \in Seq(Message) : (s \o t) \o u = s \o (t \o u)
BY ConcatAssociative

\* Messages leave in the order of the calls, none lost or repeated, for every size of the
\* queue and however many transmissions are given up.
THEOREM MessagesInOrder == Spec => []SentInOrder
<1> DEFINE Inv == SentInOrder /\ aired \in Seq(Message)
<1>1. Init => Inv
  BY DEF Init, SentInOrder, None
<1>2. Inv /\ RadioInv /\ [Next]_vars => Inv'
  <2> SUFFICES ASSUME Inv, RadioInv, [Next]_vars  PROVE Inv'
    OBVIOUS
  <2>1. /\ aired \in Seq(Message) /\ msg \in Seq(Message) /\ send_q \in Seq(Message)
        /\ aired \o msg \in Seq(Message)
        /\ enqueued \in Nat
    <3>1. msg \in Seq(Message)
      <4>1. CASE msg = <<>>
        BY <4>1
      <4>2. CASE msg # <<>>
        <5>1. PICK m \in Message : msg = <<m>>
          BY <4>2 DEF RadioInv, TypeOK, Message, None
        <5> QED
          BY <5>1
      <4> QED
        BY <4>1, <4>2
    <3> QED
      BY <3>1, ConcatProperties DEF RadioInv, TypeOK, Message
  <2>2. ASSUME NEW task \in Callers, io_enqueue_send(task)  PROVE Inv'
    <3> DEFINE new == enqueued + 1
    <3>1. new \in Message
      <4>1. Cardinality(calling) \in Nat /\ Cardinality(calling) > 0
        BY <2>2, CallersCounted DEF io_enqueue_send, RadioInv, TypeOK
      <4> QED BY <2>2, <4>1 DEF RadioInv, TypeOK, LocalsHeld, Message
    <3> HIDE DEF new
    <3>2. (aired \o msg) \o Append(send_q, new) = Append((aired \o msg) \o send_q, new)
      <4>1. <<new>> \in Seq(Message) /\ (aired \o msg) \o send_q \in Seq(Message)
        BY <2>1, <3>1, ConcatProperties
      <4>2. Append(send_q, new) = send_q \o <<new>>
        BY <2>1, <3>1, AppendIsConcat
      <4>3. (aired \o msg) \o (send_q \o <<new>>) = ((aired \o msg) \o send_q) \o <<new>>
        BY <2>1, <4>1, MessagesAssociate
      <4>4. Append((aired \o msg) \o send_q, new) = ((aired \o msg) \o send_q) \o <<new>>
        BY <3>1, <4>1, AppendIsConcat
      <4> QED
        BY <4>2, <4>3, <4>4
    <3>3. (aired \o msg) \o Append(send_q, new) = [i \in 1 .. enqueued + 1 |-> i]
      BY <2>1, <3>2, CountOneMore DEF SentInOrder, new
    <3>4. aired' = aired /\ msg' = msg /\ send_q' = Append(send_q, new) /\ enqueued' = enqueued + 1
      BY <2>2 DEF io_enqueue_send, sendVars, new
    <3> QED
      BY <3>3, <3>4, <2>1 DEF SentInOrder
  <2>3. CASE DequeueSend
    <3>1. msg = <<>> /\ send_q # <<>>
      BY <2>3 DEF DequeueSend, RadioInv, LocalsHeld, None
    <3>2. aired \o msg = aired
      BY <2>1, <3>1, ConcatEmptySeq
    <3>3. /\ <<Head(send_q)>> \in Seq(Message) /\ Tail(send_q) \in Seq(Message)
          /\ <<Head(send_q)>> \o Tail(send_q) = send_q
      BY <2>1, <3>1, HeadThenTail
    <3>4. (aired \o <<Head(send_q)>>) \o Tail(send_q) = aired \o send_q
      <4> DEFINE first == <<Head(send_q)>>
                 rest  == Tail(send_q)
      <4>1. first \in Seq(Message) /\ rest \in Seq(Message) /\ first \o rest = send_q
        BY <3>3
      <4> HIDE DEF first, rest
      <4>2. \A s \in Seq(Message) : (s \o first) \o rest = s \o (first \o rest)
        BY <4>1, MessagesAssociate, ZenonT(40)
      <4> QED
        BY <2>1, <4>1, <4>2 DEF first, rest
    <3>5. /\ msg' = <<Head(send_q)>> /\ send_q' = Tail(send_q)
          /\ aired' = aired /\ enqueued' = enqueued
      BY <2>3 DEF DequeueSend, history
    <3> QED
      BY <2>1, <3>2, <3>4, <3>5 DEF SentInOrder
  <2>4. CASE Nrf24_send
    <3>1. /\ aired' = aired \o msg /\ msg' = <<>> /\ send_q' = send_q /\ enqueued' = enqueued
      BY <2>4 DEF Nrf24_send, None
    <3>2. aired' \o msg' = aired \o msg
      BY <2>1, <3>1, ConcatEmptySeq
    <3> QED
      BY <2>1, <3>1, <3>2 DEF SentInOrder
  <2>5. CASE UNCHANGED <<aired, msg, send_q, enqueued>>
    BY <2>1, <2>5 DEF SentInOrder
  <2>11. ASSUME NEW task \in Callers, CallEnqueue(task)  PROVE Inv'
    BY <2>5, <2>11 DEF CallEnqueue, sendVars, history
  <2>12. CASE Calls
    BY <2>2, <2>11, <2>12 DEF Calls
  <2>6. CASE ReadButton
    BY <2>5, <2>6 DEF ReadButton, sendVars, history
  <2>7. CASE LockSend \/ AwaitLast \/ StillSending \/ FinishSending \/ GiveUpSending \/ ClearFailed
    BY <2>5, <2>7 DEF LockSend, AwaitLast, StillSending, FinishSending, GiveUpSending, ClearFailed,
                      sendVars, history
  <2>8. CASE ReceiveTask
    BY <2>5, <2>8 DEF ReceiveTask, DequeueIrq, LockReceive, TimeoutReceive, NotReady, ReadPayload,
                      ClearReady, TakePing, PushButton, sendVars, history
  <2>9. CASE Chip \/ \E kind \in {"PING", "BUTTON"} : Arrive(kind)
    BY <2>5, <2>9 DEF Chip, Report, Arrive, sendVars, history
  <2>10. CASE UNCHANGED vars
    BY <2>5, <2>10 DEF vars, sendVars, history
  <2> QED
    BY <2>3, <2>4, <2>6, <2>7, <2>8, <2>9, <2>10, <2>12 DEF Next, SendTask
<1> QED
  BY <1>1, <1>2, RadioInvariant, PTL DEF Spec
-----------------------------------------------------------------------------
(***************************************************************************)
(* The order of the packets.                                               *)
(***************************************************************************)
Taken == read \o recv_q
Held  == Taken \o raw \o fifo

Ordered(s) == \A j, k \in DOMAIN s : j < k => s[j].id < s[k].id
Buttons(s) == {p \in ToSet(s) : IsButton(p)}

\* The inductive invariant: packets are numbered as they arrive, and whatever is held of them,
\* a PING that is not dropped yet included, has arrived and is held in order.
PacketInv ==
  /\ read \in Seq(Packet)
  /\ \A k \in DOMAIN arrived : arrived[k].id = k
  /\ ToSet(Held) \subseteq ToSet(arrived)
  /\ Ordered(Held)
  /\ Buttons(Held) = Buttons(arrived)
  /\ ToSet(Taken) = Buttons(Taken)

\* What a packet in hand, or none, looks like.
LEMMA RawIsSeq ==
  ASSUME RadioInv
  PROVE  /\ raw \in Seq(Packet)
         /\ raw # None => raw[1] \in Packet /\ raw = <<raw[1]>>
<1>1. CASE raw = None
  BY <1>1 DEF None
<1>2. CASE raw # None
  <2>1. PICK p \in Packet : raw = <<p>>
    BY <1>2 DEF RadioInv, TypeOK
  <2> QED
    BY <2>1
<1> QED
  BY <1>1, <1>2

\* Sequences of packets need no parentheses.
LEMMA PacketsAssociate ==
  \A s, t, u \in Seq(Packet) : (s \o t) \o u = s \o (t \o u)
BY ConcatAssociative

\* The elements of a sequence and one more.
LEMMA AppendElements ==
  ASSUME NEW S, NEW s \in Seq(S), NEW x \in S
  PROVE  ToSet(Append(s, x)) = ToSet(s) \cup {x}
<1>1. /\ Append(s, x) \in Seq(S) /\ Len(Append(s, x)) = Len(s) + 1
      /\ \A k \in 1 .. Len(s) : Append(s, x)[k] = s[k]
      /\ Append(s, x)[Len(s) + 1] = x
  BY AppendProperties
<1>2. /\ Len(s) \in Nat /\ DOMAIN s = 1 .. Len(s)
      /\ DOMAIN Append(s, x) = 1 .. Len(s) + 1
  BY <1>1, LenProperties
<1>3. ASSUME NEW y \in ToSet(Append(s, x))  PROVE y \in ToSet(s) \cup {x}
  <2>1. PICK k \in 1 .. Len(s) + 1 : y = Append(s, x)[k]
    BY <1>2, <1>3 DEF ToSet
  <2> QED
    BY <1>1, <1>2, <2>1 DEF ToSet
<1>4. ASSUME NEW y \in ToSet(s) \cup {x}  PROVE y \in ToSet(Append(s, x))
  <2>1. CASE y = x
    <3>1. Len(s) + 1 \in DOMAIN Append(s, x)
      BY <1>2
    <3> QED
      BY <1>1, <2>1, <3>1 DEF ToSet
  <2>2. CASE y \in ToSet(s)
    <3>1. PICK k \in 1 .. Len(s) : y = s[k]
      BY <1>2, <2>2 DEF ToSet
    <3>2. k \in DOMAIN Append(s, x)
      BY <1>2
    <3> QED
      BY <1>1, <3>1, <3>2 DEF ToSet
  <2> QED
    BY <1>4, <2>1, <2>2
<1> QED
  BY <1>3, <1>4

\* A sequence without one of its elements keeps the order, and loses nothing else.
LEMMA DropOne ==
  ASSUME NEW a \in Seq(Packet), NEW x \in Packet, NEW c \in Seq(Packet), Ordered(a \o <<x>> \o c)
  PROVE  /\ Ordered(a \o c)
         /\ ToSet(a \o c) \subseteq ToSet(a \o <<x>> \o c)
         /\ ToSet(a \o <<x>> \o c) \subseteq ToSet(a \o c) \cup {x}
<1> DEFINE s == a \o <<x>> \o c
           t == a \o c
           from(k) == IF k <= Len(a) THEN k ELSE k + 1
<1>1. /\ Len(a) \in Nat /\ Len(c) \in Nat
      /\ <<x>> \in Seq(Packet) /\ Len(<<x>>) = 1
  OBVIOUS
<1>2. /\ a \o <<x>> \in Seq(Packet) /\ Len(a \o <<x>>) = Len(a) + 1
      /\ \A k \in 1 .. Len(a) + 1 : (a \o <<x>>)[k] = IF k <= Len(a) THEN a[k] ELSE x
  BY <1>1
<1>3. /\ DOMAIN s = 1 .. Len(a) + 1 + Len(c)
      /\ \A k \in 1 .. Len(a) + 1 + Len(c) :
           s[k] = IF k <= Len(a) THEN a[k] ELSE IF k = Len(a) + 1 THEN x ELSE c[k - (Len(a) + 1)]
  BY <1>1, <1>2
<1>4. /\ DOMAIN t = 1 .. Len(a) + Len(c)
      /\ \A k \in 1 .. Len(a) + Len(c) : t[k] = IF k <= Len(a) THEN a[k] ELSE c[k - Len(a)]
  BY <1>1
<1> HIDE DEF s, t
<1>5. ASSUME NEW k \in DOMAIN t  PROVE from(k) \in DOMAIN s /\ t[k] = s[from(k)]
  <2>1. k \in 1 .. Len(a) + Len(c)
    BY <1>4
  <2>2. CASE k <= Len(a)
    <3>1. from(k) = k /\ k \in 1 .. Len(a) + 1 + Len(c)
      BY <1>1, <2>1, <2>2
    <3> QED
      BY <1>3, <1>4, <2>1, <2>2, <3>1
  <2>3. CASE ~(k <= Len(a))
    <3>1. /\ from(k) = k + 1 /\ k + 1 \in 1 .. Len(a) + 1 + Len(c)
          /\ ~(k + 1 <= Len(a)) /\ k + 1 # Len(a) + 1 /\ k + 1 - (Len(a) + 1) = k - Len(a)
      BY <1>1, <2>1, <2>3
    <3> QED
      BY <1>3, <1>4, <2>1, <2>3, <3>1
  <2> QED
    BY <2>2, <2>3
<1>6. \A j, k \in DOMAIN t : j < k => from(j) < from(k)
  BY <1>1, <1>4
<1> HIDE DEF from
<1>7. Ordered(t)
  <2>1. Ordered(s)
    BY DEF s
  <2> QED
    BY <1>5, <1>6, <2>1 DEF Ordered
<1>8. ToSet(t) \subseteq ToSet(s)
  BY <1>5 DEF ToSet
<1>9. ASSUME NEW k \in DOMAIN s  PROVE s[k] \in ToSet(t) \cup {x}
  <2>1. CASE k <= Len(a)
    <3>1. k \in DOMAIN t /\ t[k] = s[k]
      BY <1>1, <1>3, <1>4, <2>1
    <3> QED
      BY <3>1 DEF ToSet
  <2>2. CASE k = Len(a) + 1
    BY <1>1, <1>3, <2>2
  <2>3. CASE k > Len(a) + 1
    <3>1. /\ k - 1 \in 1 .. Len(a) + Len(c) /\ ~(k - 1 <= Len(a))
          /\ ~(k <= Len(a)) /\ k # Len(a) + 1 /\ (k - 1) - Len(a) = k - (Len(a) + 1)
      BY <1>1, <1>3, <2>3
    <3>2. k - 1 \in DOMAIN t /\ t[k - 1] = s[k]
      BY <1>3, <1>4, <3>1
    <3> QED
      BY <3>2 DEF ToSet
  <2> QED
    BY <1>1, <1>3, <2>1, <2>2, <2>3
<1>10. ToSet(s) \subseteq ToSet(t) \cup {x}
  BY <1>9 DEF ToSet
<1> QED
  BY <1>7, <1>8, <1>10 DEF s, t

\* Moving a packet from one place to the next one leaves the whole as it is.
LEMMA Moves ==
  ASSUME PacketInv, RadioInv, ReadButton \/ ReadPayload \/ PushButton
  PROVE  PacketInv'
<1>1. /\ read \in Seq(Packet) /\ recv_q \in Seq(Packet) /\ fifo \in Seq(Packet)
      /\ raw \in Seq(Packet)
  BY RawIsSeq DEF PacketInv, RadioInv, TypeOK
<1>2. Taken \in Seq(Packet) /\ Taken \o raw \in Seq(Packet) /\ Held \in Seq(Packet)
  BY <1>1, ConcatProperties DEF Taken, Held
<1>3. CASE ReadButton
  <2>1. /\ recv_q # <<>> /\ read' = Append(read, Head(recv_q)) /\ recv_q' = Tail(recv_q)
        /\ raw' = raw /\ fifo' = fifo /\ arrived' = arrived
    BY <1>3 DEF ReadButton, recvVars, chipVars
  <2>2. /\ Head(recv_q) \in Packet /\ <<Head(recv_q)>> \in Seq(Packet) /\ Tail(recv_q) \in Seq(Packet)
        /\ <<Head(recv_q)>> \o Tail(recv_q) = recv_q
    BY <1>1, <2>1, HeadThenTail, HeadTailProperties
  <2>3. read' = read \o <<Head(recv_q)>> /\ read' \in Seq(Packet)
    BY <1>1, <2>1, <2>2, AppendIsConcat, ConcatProperties
  <2>4. (read \o <<Head(recv_q)>>) \o Tail(recv_q) = read \o recv_q
    BY <1>1, <2>2, ConcatAssociative
  <2>5. Taken' = Taken
    BY <2>1, <2>3, <2>4 DEF Taken
  <2>6. Held' = Held
    BY <2>1, <2>5 DEF Held
  <2> QED
    BY <2>1, <2>3, <2>5, <2>6 DEF PacketInv
<1>4. CASE ReadPayload
  <2>1. /\ "RX_DR" \in STATUS /\ recv = "ready"
        /\ raw' = <<Head(fifo)>> /\ fifo' = Tail(fifo)
        /\ read' = read /\ recv_q' = recv_q /\ arrived' = arrived
    BY <1>4 DEF ReadPayload, history
  <2>2. fifo # <<>> /\ raw = <<>>
    BY <2>1 DEF RadioInv, ReadyMeansPacket, LocalsHeld, None
  <2>3. /\ <<Head(fifo)>> \in Seq(Packet) /\ Tail(fifo) \in Seq(Packet)
        /\ <<Head(fifo)>> \o Tail(fifo) = fifo
    BY <1>1, <2>2, HeadThenTail
  <2>4. Taken' = Taken
    BY <2>1 DEF Taken
  <2>5. (Taken \o <<Head(fifo)>>) \o Tail(fifo) = Taken \o fifo
    <3> DEFINE first == <<Head(fifo)>>
               rest  == Tail(fifo)
    <3>1. first \in Seq(Packet) /\ rest \in Seq(Packet) /\ first \o rest = fifo
      BY <2>3
    <3> HIDE DEF first, rest
    <3>2. \A s \in Seq(Packet) : (s \o first) \o rest = s \o (first \o rest)
      BY <3>1, PacketsAssociate, Zenon
    <3> QED
      BY <1>2, <3>1, <3>2 DEF first, rest
  <2>6. Held = Taken \o fifo
    BY <1>2, <2>2, ConcatEmptySeq DEF Held
  <2>7. Held' = Held
    BY <2>1, <2>4, <2>5, <2>6 DEF Held
  <2> QED
    BY <2>1, <2>4, <2>7 DEF PacketInv
<1>5. CASE PushButton
  <2>1. /\ recv = "sort" /\ IsButton(raw[1])
        /\ recv_q' = recv_q \o raw /\ raw' = <<>> /\ fifo' = fifo
        /\ read' = read /\ arrived' = arrived
    BY <1>5 DEF PushButton, chipVars, history, None
  <2>2. raw[1] \in Packet /\ raw = <<raw[1]>>
    BY <2>1, RawIsSeq DEF RadioInv, LocalsHeld
  <2>3. Taken' = Taken \o raw
    <3>1. (read \o recv_q) \o raw = read \o (recv_q \o raw)
      BY <1>1, PacketsAssociate
    <3> QED
      BY <2>1, <3>1 DEF Taken
  <2>4. Held' = Held
    BY <1>2, <2>1, <2>3, ConcatEmptySeq DEF Held
  <2>5. ToSet(Taken') = Buttons(Taken')
    <3> DEFINE p == raw[1]
    <3>1. Taken \o raw = Append(Taken, p)
      BY <1>2, <2>2, AppendIsConcat
    <3>2. ToSet(Taken \o raw) = ToSet(Taken) \cup {p}
      BY <1>2, <2>2, <3>1, AppendElements
    <3> QED
      BY <2>1, <2>3, <3>2 DEF Buttons, PacketInv
  <2> QED
    BY <2>1, <2>4, <2>5 DEF PacketInv
<1> QED
  BY <1>3, <1>4, <1>5

\* A PING goes to the heartbeat monitor; the others keep their order.
LEMMA PingDropped ==
  ASSUME PacketInv, RadioInv, TakePing
  PROVE  PacketInv'
<1>1. /\ read \in Seq(Packet) /\ recv_q \in Seq(Packet) /\ fifo \in Seq(Packet)
  BY DEF PacketInv, RadioInv, TypeOK
<1>2. Taken \in Seq(Packet)
  BY <1>1, ConcatProperties DEF Taken
<1>3. /\ recv = "sort" /\ ~IsButton(raw[1])
      /\ raw' = <<>> /\ fifo' = fifo /\ read' = read /\ recv_q' = recv_q /\ arrived' = arrived
  BY DEF TakePing, chipVars, history, None
<1>4. raw[1] \in Packet /\ raw = <<raw[1]>>
  BY <1>3, RawIsSeq DEF RadioInv, LocalsHeld
<1> DEFINE p == raw[1]
<1>5. Taken' = Taken
  BY <1>3 DEF Taken
<1>6. Held' = Taken \o fifo
  BY <1>2, <1>3, <1>5, ConcatEmptySeq DEF Held
<1>7. Held = Taken \o <<p>> \o fifo
  BY <1>4 DEF Held
<1>8. /\ Ordered(Taken \o fifo)
      /\ ToSet(Taken \o fifo) \subseteq ToSet(Held)
      /\ ToSet(Held) \subseteq ToSet(Taken \o fifo) \cup {p}
  <2>1. Ordered(Taken \o <<p>> \o fifo)
    BY <1>7 DEF PacketInv
  <2> HIDE DEF p
  <2> QED
    BY <1>1, <1>2, <1>4, <1>7, <2>1, DropOne DEF p
<1>9. Buttons(Held') = Buttons(Held)
  BY <1>3, <1>6, <1>8 DEF Buttons
<1> QED
  BY <1>3, <1>5, <1>6, <1>8, <1>9 DEF PacketInv

\* A packet that arrives has the largest number, and its place is behind the others.
LEMMA PacketArrives ==
  ASSUME PacketInv, RadioInv, NEW kind \in {"PING", "BUTTON"}, Arrive(kind)
  PROVE  PacketInv'
<1> DEFINE packet == [id |-> Len(arrived) + 1, kind |-> kind]
<1>1. /\ read \in Seq(Packet) /\ recv_q \in Seq(Packet) /\ fifo \in Seq(Packet)
      /\ raw \in Seq(Packet) /\ arrived \in Seq(Packet)
  BY RawIsSeq DEF PacketInv, RadioInv, TypeOK
<1>2. Taken \in Seq(Packet) /\ Taken \o raw \in Seq(Packet) /\ Held \in Seq(Packet)
  BY <1>1, ConcatProperties DEF Taken, Held
<1>3. /\ arrived' = Append(arrived, packet) /\ fifo' = Append(fifo, packet)
      /\ Len(arrived) < Packets
      /\ read' = read /\ recv_q' = recv_q /\ raw' = raw
  BY DEF Arrive, recvVars
<1>4. packet \in Packet /\ packet.id = Len(arrived) + 1
  BY <1>1, <1>3 DEF Packet
<1>5. \A p \in ToSet(arrived) : p.id \in 1 .. Len(arrived)
  BY <1>1 DEF PacketInv, ToSet
<1> HIDE DEF packet
<1>6. Taken' = Taken
  BY <1>3 DEF Taken
<1>7. Held' = Append(Held, packet)
  <2>1. Held' = (Taken \o raw) \o Append(fifo, packet)
    BY <1>3, <1>6 DEF Held
  <2>2. Append(fifo, packet) = fifo \o <<packet>> /\ <<packet>> \in Seq(Packet)
    BY <1>1, <1>4, AppendIsConcat
  <2>3. (Taken \o raw) \o (fifo \o <<packet>>) = ((Taken \o raw) \o fifo) \o <<packet>>
    <3> DEFINE front == Taken \o raw
               last  == <<packet>>
    <3>1. front \in Seq(Packet) /\ fifo \in Seq(Packet) /\ last \in Seq(Packet)
      BY <1>1, <1>2, <2>2
    <3> HIDE DEF front, last
    <3>2. front \o (fifo \o last) = (front \o fifo) \o last
      BY <3>1, PacketsAssociate
    <3> QED
      BY <3>2 DEF front, last
  <2>4. Append(Held, packet) = Held \o <<packet>>
    BY <1>2, <1>4, AppendIsConcat
  <2> QED
    BY <2>1, <2>2, <2>3, <2>4 DEF Held
<1>8. /\ ToSet(Held') = ToSet(Held) \cup {packet}
      /\ ToSet(arrived') = ToSet(arrived) \cup {packet}
  BY <1>1, <1>2, <1>3, <1>4, <1>7, AppendElements
<1>9. \A k \in DOMAIN arrived' : arrived'[k].id = k
  <2>1. /\ DOMAIN arrived = 1 .. Len(arrived) /\ DOMAIN arrived' = 1 .. Len(arrived) + 1
        /\ Len(arrived) \in Nat
        /\ \A k \in 1 .. Len(arrived) : arrived'[k] = arrived[k]
        /\ arrived'[Len(arrived) + 1] = packet
    BY <1>1, <1>3, <1>4, AppendProperties
  <2>2. \A k \in 1 .. Len(arrived) : arrived[k].id = k
    BY <2>1 DEF PacketInv
  <2>3. \A n \in Nat : 1 .. n + 1 = 1 .. n \cup {n + 1}
    OBVIOUS
  <2>4. packet.id = Len(arrived) + 1
    BY <1>4
  <2> QED
    BY <2>1, <2>2, <2>3, <2>4
<1>10. Ordered(Held')
  <2> DEFINE n == Len(Held)
  <2>1. /\ DOMAIN Held = 1 .. n /\ n \in Nat
        /\ DOMAIN Held' = 1 .. n + 1
        /\ \A k \in 1 .. n : Held'[k] = Held[k]
        /\ Held'[n + 1] = packet
    BY <1>2, <1>4, <1>7, AppendProperties
  <2>2. \A k \in 1 .. n : Held[k].id \in 1 .. Len(arrived)
    BY <1>5, <2>1 DEF PacketInv, ToSet
  <2>3. \A j, k \in 1 .. n : j < k => Held[j].id < Held[k].id
    BY <2>1 DEF PacketInv, Ordered
  <2>4. Len(arrived) \in Nat
    BY <1>1
  <2> HIDE DEF n
  <2>5. ASSUME NEW j \in 1 .. n + 1, NEW k \in 1 .. n + 1, j < k
        PROVE  Held'[j].id < Held'[k].id
    <3>1. j \in 1 .. n
      BY <2>1, <2>5
    <3>2. CASE k \in 1 .. n
      BY <2>1, <2>3, <2>5, <3>1, <3>2
    <3>3. CASE k = n + 1
      <4>1. Held'[k].id = Len(arrived) + 1 /\ Held'[j].id \in 1 .. Len(arrived)
        BY <1>4, <2>1, <2>2, <3>1, <3>3
      <4> QED
        BY <2>4, <4>1
    <3> QED
      BY <2>1, <3>2, <3>3
  <2> QED
    BY <2>1, <2>5 DEF Ordered
<1>11. ToSet(Held') \subseteq ToSet(arrived')
  BY <1>8 DEF PacketInv
<1>12. Buttons(Held') = Buttons(arrived')
  BY <1>8 DEF PacketInv, Buttons
<1>13. read' \in Seq(Packet) /\ ToSet(Taken') = Buttons(Taken')
  BY <1>3, <1>6 DEF PacketInv
<1> QED
  BY <1>9, <1>10, <1>11, <1>12, <1>13 DEF PacketInv

\* Button packets reach the game in the order of arrival, and none of those the chip accepted
\* is lost, for every size of the queues and of the FIFO and whatever events are dropped.
THEOREM PacketsInOrder == Spec => []ReceivedInOrder
<1>1. Init => PacketInv
  <2> SUFFICES ASSUME Init  PROVE PacketInv
    OBVIOUS
  <2>1. read = <<>> /\ recv_q = <<>> /\ raw = <<>> /\ fifo = <<>> /\ arrived = <<>>
    BY DEF Init, None
  <2>2. Taken = <<>> /\ Held = <<>>
    BY <2>1, ConcatEmptySeq, EmptySeq DEF Taken, Held
  <2>3. DOMAIN <<>> = {}
    OBVIOUS
  <2> QED
    BY <2>1, <2>2, <2>3 DEF PacketInv, Ordered, Buttons, ToSet
<1>2. PacketInv /\ RadioInv /\ [Next]_vars => PacketInv'
  <2> SUFFICES ASSUME PacketInv, RadioInv, [Next]_vars  PROVE PacketInv'
    OBVIOUS
  <2>1. CASE UNCHANGED <<read, recv_q, raw, fifo, arrived>>
    BY <2>1 DEF PacketInv, Taken, Held, Ordered, Buttons
  <2>2. CASE Calls
    BY <2>1, <2>2 DEF Calls, CallEnqueue, io_enqueue_send, recvVars, chipVars, history
  <2>3. CASE SendTask
    BY <2>1, <2>3 DEF SendTask, DequeueSend, LockSend, AwaitLast, Nrf24_send, StillSending,
                      FinishSending, GiveUpSending, ClearFailed, recvVars, chipVars, history
  <2>4. CASE DequeueIrq \/ LockReceive \/ TimeoutReceive \/ NotReady \/ ClearReady
    BY <2>1, <2>4 DEF DequeueIrq, LockReceive, TimeoutReceive, NotReady, ClearReady, recvVars,
                      chipVars, history
  <2>5. CASE Chip
    BY <2>1, <2>5 DEF Chip, Report, recvVars, history
  <2>6. CASE UNCHANGED vars
    BY <2>1, <2>6 DEF vars, recvVars, chipVars, history
  <2> QED
    BY <2>2, <2>3, <2>4, <2>5, <2>6, Moves, PingDropped, PacketArrives DEF Next, ReceiveTask
<1>3. PacketInv => ReceivedInOrder
  BY DEF PacketInv, ReceivedInOrder, Taken, Held, Ordered, Buttons
<1> QED
  BY <1>1, <1>2, <1>3, RadioInvariant, PTL DEF Spec
-----------------------------------------------------------------------------
(***************************************************************************)
(* Listening.                                                              *)
(***************************************************************************)
\* Until a transmission is given up, the chip listens between any two of them, whatever
\* the number of polls allowed.
THEOREM ListensWhenIdle == Spec => IdleListens
<1> DEFINE Idle  == send \in {"wait", "take"} => mode = "RX" /\ ~PTX
           Inv   == send \in {"wait", "take", "load"} => mode = "RX" /\ ~PTX
           Works == send # "fail"
<1>1. Init => Inv
  BY DEF Init
<1>2. Inv /\ Works /\ [Next]_vars => Inv'
  <2> SUFFICES ASSUME Inv, Works, [Next]_vars  PROVE Inv'
    OBVIOUS
  <2>1. CASE UNCHANGED <<send, mode, PTX>>
    BY <2>1
  <2>2. CASE Calls \/ ReadButton
    BY <2>1, <2>2 DEF Calls, CallEnqueue, io_enqueue_send, ReadButton, sendVars, chipVars
  <2>3. CASE DequeueSend \/ LockSend \/ StillSending \/ GiveUpSending
    BY <2>3 DEF DequeueSend, LockSend, StillSending, GiveUpSending, chipVars
  <2>4. CASE AwaitLast \/ Nrf24_send \/ FinishSending \/ ClearFailed
    BY <2>4 DEF AwaitLast, Nrf24_send, FinishSending, ClearFailed
  <2>5. CASE ReceiveTask
    BY <2>1, <2>5 DEF ReceiveTask, DequeueIrq, LockReceive, TimeoutReceive, NotReady, ReadPayload,
                      ClearReady, TakePing, PushButton, sendVars, chipVars
  <2>6. CASE Chip \/ \E kind \in {"PING", "BUTTON"} : Arrive(kind)
    BY <2>1, <2>6 DEF Chip, Report, Arrive, sendVars
  <2>7. CASE UNCHANGED vars
    BY <2>1, <2>7 DEF vars, sendVars, chipVars
  <2> QED
    BY <2>2, <2>3, <2>4, <2>5, <2>6, <2>7 DEF Next, SendTask
<1>3. Inv => Idle
  OBVIOUS
<1>4. Spec /\ []Works => []Idle
  BY <1>1, <1>2, <1>3, PTL DEF Spec
<1> QED
  BY <1>4 DEF IdleListens
=============================================================================
