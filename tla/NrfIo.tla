------------------------------- MODULE NrfIo --------------------------------
(***************************************************************************)
(* The radio side of the master: the send and receive tasks of             *)
(* src/nrf_io.c, the part of the nRF24L01 driver they use (src/mirf.c),    *)
(* and the tasks that call them: the game task, which sends and reads, and *)
(* the HTTP server's, which sends from its handlers.                       *)
(*                                                                         *)
(* The chip and the slaves are external.  The chip pulls its interrupt     *)
(* line low while RX_DR or MAX_RT is set (mirf_CONFIG masks TX_DS), and    *)
(* the interrupt fires on the falling edge: a flag set while the line is   *)
(* low already raises nothing.                                             *)
(*                                                                         *)
(* Messages and packets are numbered in the order of their creation; the   *)
(* payload is left out.  A PING is answered by the heartbeat monitor, any  *)
(* other packet goes to io_receive_queue.                                  *)
(***************************************************************************)
EXTENDS Integers, FiniteSets, SequencesExt

CONSTANTS IO_QUEUE_SIZE,   \* capacity of io_send_queue and io_receive_queue
          IRQ_QUEUE_SIZE,  \* capacity of nrf_irq_queue
          FIFO_SIZE,       \* payloads the chip's receive FIFO holds
          MAX_RETRIES,     \* polls of a transmission before it is given up
          Callers,         \* the tasks that call io_enqueue_send
          Messages,        \* bound: messages they send
          Packets          \* bound: packets the slaves send

ASSUME NrfIoAssumption ==
  /\ {IO_QUEUE_SIZE, IRQ_QUEUE_SIZE, FIFO_SIZE} \subseteq Nat \ {0}
  /\ {MAX_RETRIES, Messages, Packets} \subseteq Nat
  /\ IsFiniteSet(Callers) /\ "game" \in Callers

VARIABLES send_q, recv_q, irq_q,   \* the three queues; nrf_irq_queue by its length
          nrf_mutex,               \* "free", or the task that holds it
          send, msg, retry_count,  \* io_send_task: where it is, and its locals
          recv, raw,               \* io_receive_task: where it is, and the packet it holds
          PTX, mode,               \* the driver's flag and the chip's CONFIG: "RX" or "TX"
          STATUS, fifo, air,       \* the chip's flags, receive FIFO, packet in transmission
          calling,                 \* the tasks that have called io_enqueue_send and are in it
          enqueued, aired, arrived, read   \* history of messages and packets

sendVars == <<send, msg, retry_count>>
recvVars == <<recv, raw>>
chipVars == <<PTX, mode, STATUS, fifo, air>>
history  == <<enqueued, aired, arrived, read>>
vars == <<send_q, recv_q, irq_q, nrf_mutex, sendVars, recvVars, chipVars, calling, history>>

None   == <<>>
Done   == {"TX_DS", "MAX_RT"}
Packet == [id : 1 .. Packets, kind : {"PING", "BUTTON"}]
IsButton(p) == p.kind = "BUTTON"

Init ==
  /\ send_q = <<>> /\ recv_q = <<>> /\ irq_q = 0 /\ nrf_mutex = "free"
  /\ send = "wait" /\ msg = None /\ retry_count = 0
  /\ recv = "wait" /\ raw = None
  /\ PTX = FALSE /\ mode = "RX" /\ STATUS = {} /\ fifo = <<>> /\ air = None
  /\ calling = {}
  /\ enqueued = 0 /\ aired = <<>> /\ arrived = <<>> /\ read = <<>>

Low(status) == status \cap {"RX_DR", "MAX_RT"} # {}

\* nrf_gpio_isr_handler: the event is lost if the queue is full.
nrf_gpio_isr_handler(status) ==
  irq_q' = IF Low(status) /\ ~Low(STATUS) /\ irq_q < IRQ_QUEUE_SIZE THEN irq_q + 1 ELSE irq_q

Raise(flag) ==
  /\ STATUS' = STATUS \cup {flag}
  /\ nrf_gpio_isr_handler(STATUS')
-----------------------------------------------------------------------------
(***************************************************************************)
(* The callers.                                                            *)
(***************************************************************************)
CallEnqueue(task) ==
  /\ task \notin calling /\ enqueued + Cardinality(calling) < Messages
  /\ calling' = calling \cup {task}
  /\ UNCHANGED <<send_q, recv_q, irq_q, nrf_mutex, sendVars, recvVars, chipVars, history>>

\* xQueueSend(io_send_queue, msg, portMAX_DELAY); messages are numbered as they get in.
io_enqueue_send(task) ==
  /\ task \in calling /\ Len(send_q) < IO_QUEUE_SIZE
  /\ enqueued' = enqueued + 1
  /\ send_q' = Append(send_q, enqueued')
  /\ calling' = calling \ {task}
  /\ UNCHANGED <<recv_q, irq_q, nrf_mutex, sendVars, recvVars, chipVars, aired, arrived, read>>

Calls == \E task \in Callers : CallEnqueue(task) \/ io_enqueue_send(task)

\* Only while it waits for the player does the game task read.
ReadButton ==
  /\ "game" \notin calling /\ recv_q # <<>>
  /\ read' = Append(read, Head(recv_q))
  /\ recv_q' = Tail(recv_q)
  /\ UNCHANGED <<send_q, irq_q, nrf_mutex, sendVars, recvVars, chipVars, calling,
                 enqueued, aired, arrived>>
-----------------------------------------------------------------------------
(***************************************************************************)
(* io_send_task.                                                           *)
(***************************************************************************)
DequeueSend ==
  /\ send = "wait" /\ send_q # <<>>
  /\ msg' = <<Head(send_q)>>
  /\ send_q' = Tail(send_q)
  /\ retry_count' = 0
  /\ send' = "take"
  /\ UNCHANGED <<recv_q, irq_q, nrf_mutex, recvVars, chipVars, calling, history>>

LockSend ==
  /\ send = "take" /\ nrf_mutex = "free"
  /\ nrf_mutex' = "send"
  /\ send' = "load"
  /\ UNCHANGED <<send_q, recv_q, irq_q, msg, retry_count, recvVars, chipVars, calling, history>>

\* Nrf24_send spins on PTX with the mutex held.
AwaitLast ==
  /\ send = "load" /\ PTX /\ STATUS \cap Done # {}
  /\ PTX' = FALSE
  /\ UNCHANGED <<send_q, recv_q, irq_q, nrf_mutex, sendVars, recvVars, mode, STATUS, fifo, air,
                 calling, history>>

\* The rest of Nrf24_send: powerUpTx, FLUSH_TX, the payload, CE high.
Nrf24_send ==
  /\ send = "load" /\ ~PTX
  /\ PTX' = TRUE /\ mode' = "TX"
  /\ STATUS' = STATUS \ Done
  /\ air' = msg
  /\ aired' = aired \o msg
  /\ msg' = None
  /\ send' = "poll"
  /\ UNCHANGED <<send_q, recv_q, irq_q, nrf_mutex, retry_count, recvVars, fifo, calling,
                 enqueued, arrived, read>>

\* Mutant: the payload is sent again at every poll.
StillSendingAgain ==
  /\ send = "poll" /\ PTX /\ STATUS \cap Done = {}
  /\ retry_count < MAX_RETRIES
  /\ retry_count' = retry_count + 1
  /\ aired' = Append(aired, Last(aired))
  /\ UNCHANGED <<send_q, recv_q, irq_q, nrf_mutex, send, msg, recvVars, chipVars, calling,
                 enqueued, arrived, read>>

StillSending ==
  /\ send = "poll" /\ PTX /\ STATUS \cap Done = {}
  /\ retry_count < MAX_RETRIES
  /\ retry_count' = retry_count + 1
  /\ UNCHANGED <<send_q, recv_q, irq_q, nrf_mutex, send, msg, recvVars, chipVars, calling, history>>

\* Mutant: the chip is not returned to listening.
FinishSendingDeaf ==
  /\ send = "poll" /\ PTX /\ STATUS \cap Done # {}
  /\ PTX' = FALSE
  /\ STATUS' = STATUS \ Done
  /\ nrf_mutex' = "free"
  /\ send' = "wait"
  /\ UNCHANGED <<send_q, recv_q, irq_q, msg, retry_count, recvVars, mode, fifo, air, calling, history>>

\* Mutant: the mutex is not given back.
FinishSendingHeld ==
  /\ send = "poll" /\ PTX /\ STATUS \cap Done # {}
  /\ PTX' = FALSE /\ mode' = "RX"
  /\ STATUS' = STATUS \ Done
  /\ send' = "wait"
  /\ UNCHANGED <<send_q, recv_q, irq_q, nrf_mutex, msg, retry_count, recvVars, fifo, air, calling,
                 history>>

\* Nrf24_isSending finds a flag and calls Nrf24_powerUpRx.
FinishSending ==
  /\ send = "poll" /\ PTX /\ STATUS \cap Done # {}
  /\ PTX' = FALSE /\ mode' = "RX"
  /\ STATUS' = STATUS \ Done
  /\ nrf_mutex' = "free"
  /\ send' = "wait"
  /\ UNCHANGED <<send_q, recv_q, irq_q, msg, retry_count, recvVars, fifo, air, calling, history>>

\* One poll too many finds no flag.
GiveUpSending ==
  /\ send = "poll" /\ PTX /\ STATUS \cap Done = {}
  /\ retry_count = MAX_RETRIES
  /\ send' = "fail"
  /\ UNCHANGED <<send_q, recv_q, irq_q, nrf_mutex, msg, retry_count, recvVars, chipVars, calling,
                 history>>

\* "Failed to send message": every flag is cleared, RX_DR and one set since the poll too,
\* and the chip is left as it is.
ClearFailed ==
  /\ send = "fail"
  /\ STATUS' = {}
  /\ nrf_mutex' = "free"
  /\ send' = "wait"
  /\ UNCHANGED <<send_q, recv_q, irq_q, msg, retry_count, recvVars, PTX, mode, fifo, air,
                 calling, history>>

SendTask == DequeueSend \/ LockSend \/ AwaitLast \/ Nrf24_send \/ StillSending
              \/ FinishSending \/ GiveUpSending \/ ClearFailed
-----------------------------------------------------------------------------
(***************************************************************************)
(* io_receive_task.                                                        *)
(***************************************************************************)
DequeueIrq ==
  /\ recv = "wait" /\ irq_q > 0
  /\ irq_q' = irq_q - 1
  /\ recv' = "take"
  /\ UNCHANGED <<send_q, recv_q, nrf_mutex, sendVars, raw, chipVars, calling, history>>

LockReceive ==
  /\ recv = "take" /\ nrf_mutex = "free"
  /\ nrf_mutex' = "receive"
  /\ recv' = "ready"
  /\ UNCHANGED <<send_q, recv_q, irq_q, sendVars, raw, chipVars, calling, history>>

\* Mutant: what xSemaphoreTake returns is not looked at.
TimeoutReceiveBlind ==
  /\ recv = "take" /\ nrf_mutex # "free"
  /\ recv' = "ready"
  /\ UNCHANGED <<send_q, recv_q, irq_q, nrf_mutex, sendVars, raw, chipVars, calling, history>>

\* 10 ms without the mutex: the event is dropped.
TimeoutReceive ==
  /\ recv = "take" /\ nrf_mutex # "free"
  /\ recv' = "wait"
  /\ UNCHANGED <<send_q, recv_q, irq_q, nrf_mutex, sendVars, raw, chipVars, calling, history>>

NotReady ==
  /\ recv = "ready" /\ "RX_DR" \notin STATUS
  /\ nrf_mutex' = "free"
  /\ recv' = "wait"
  /\ UNCHANGED <<send_q, recv_q, irq_q, sendVars, raw, chipVars, calling, history>>

\* Nrf24_getData in its two transfers: the payload, then the flag.
ReadPayload ==
  /\ recv = "ready" /\ "RX_DR" \in STATUS
  /\ raw' = <<Head(fifo)>>
  /\ fifo' = Tail(fifo)
  /\ recv' = "clear"
  /\ UNCHANGED <<send_q, recv_q, irq_q, nrf_mutex, sendVars, PTX, mode, STATUS, air, calling, history>>

ClearReady ==
  /\ recv = "clear"
  /\ STATUS' = STATUS \ {"RX_DR"}
  /\ recv' = "sort"
  /\ UNCHANGED <<send_q, recv_q, irq_q, nrf_mutex, sendVars, raw, PTX, mode, fifo, air, calling, history>>

\* hb_register_ping_response
TakePing ==
  /\ recv = "sort" /\ ~IsButton(raw[1])
  /\ raw' = None
  /\ nrf_mutex' = "free"
  /\ recv' = "wait"
  /\ UNCHANGED <<send_q, recv_q, irq_q, sendVars, chipVars, calling, history>>

\* Mutant: the queue takes more than its capacity.
PushButtonUnbounded ==
  /\ recv = "sort" /\ IsButton(raw[1])
  /\ recv_q' = recv_q \o raw
  /\ raw' = None
  /\ nrf_mutex' = "free"
  /\ recv' = "wait"
  /\ UNCHANGED <<send_q, irq_q, sendVars, chipVars, calling, history>>

\* Mutant: no wait for room in the queue.
PushButtonNoWait ==
  /\ recv = "sort" /\ IsButton(raw[1])
  /\ recv_q' = IF Len(recv_q) < IO_QUEUE_SIZE THEN recv_q \o raw ELSE recv_q
  /\ raw' = None
  /\ nrf_mutex' = "free"
  /\ recv' = "wait"
  /\ UNCHANGED <<send_q, irq_q, sendVars, chipVars, calling, history>>

\* xQueueSend(io_receive_queue, &msg, portMAX_DELAY), with the mutex held.
PushButton ==
  /\ recv = "sort" /\ IsButton(raw[1])
  /\ Len(recv_q) < IO_QUEUE_SIZE
  /\ recv_q' = recv_q \o raw
  /\ raw' = None
  /\ nrf_mutex' = "free"
  /\ recv' = "wait"
  /\ UNCHANGED <<send_q, irq_q, sendVars, chipVars, calling, history>>

ReceiveTask == DequeueIrq \/ LockReceive \/ TimeoutReceive \/ NotReady \/ ReadPayload
                 \/ ClearReady \/ TakePing \/ PushButton
-----------------------------------------------------------------------------
(***************************************************************************)
(* The chip and the slaves.                                                *)
(***************************************************************************)
Arrive(kind) ==
  /\ mode = "RX" /\ Len(fifo) < FIFO_SIZE /\ Len(arrived) < Packets
  /\ LET packet == [id |-> Len(arrived) + 1, kind |-> kind]
     IN  arrived' = Append(arrived, packet) /\ fifo' = Append(fifo, packet)
  /\ Raise("RX_DR")
  /\ UNCHANGED <<send_q, recv_q, nrf_mutex, sendVars, recvVars, PTX, mode, air, calling,
                 enqueued, aired, read>>

\* Acknowledged by the slave, or not after the last automatic repetition.
Report(flag) ==
  /\ air # None
  /\ air' = None
  /\ Raise(flag)
  /\ UNCHANGED <<send_q, recv_q, nrf_mutex, sendVars, recvVars, PTX, mode, fifo, calling, history>>

Chip == \E flag \in Done : Report(flag)

Next == \/ Calls \/ ReadButton
        \/ SendTask \/ ReceiveTask \/ Chip
        \/ \E kind \in {"PING", "BUTTON"} : Arrive(kind)

\* The tasks run when they can; the chip reports in the end.  Nothing makes the game
\* task read: outside WAITING_FOR_PLAYER it does not.
Spec == /\ Init /\ [][Next]_vars
        /\ \A task \in Callers : WF_vars(io_enqueue_send(task))
        /\ WF_vars(SendTask) /\ WF_vars(ReceiveTask) /\ WF_vars(Chip)
-----------------------------------------------------------------------------
\* Every variable has its type, and no queue holds more than xQueueCreate gave it.
TypeOK ==
  /\ send_q \in Seq(1 .. Messages) /\ Len(send_q) <= IO_QUEUE_SIZE
  /\ recv_q \in Seq(Packet) /\ Len(recv_q) <= IO_QUEUE_SIZE
  /\ irq_q \in 0 .. IRQ_QUEUE_SIZE
  /\ nrf_mutex \in {"free", "send", "receive"}
  /\ send \in {"wait", "take", "load", "poll", "fail"} /\ retry_count \in 0 .. MAX_RETRIES
  /\ msg \in {None} \cup {<<m>> : m \in 1 .. Messages}
  /\ recv \in {"wait", "take", "ready", "clear", "sort"}
  /\ raw \in {None} \cup {<<p>> : p \in Packet}
  /\ PTX \in BOOLEAN /\ mode \in {"RX", "TX"}
  /\ STATUS \subseteq {"RX_DR"} \cup Done
  /\ fifo \in Seq(Packet) /\ Len(fifo) <= FIFO_SIZE
  /\ air \in {None} \cup {<<m>> : m \in 1 .. Messages}
  /\ calling \subseteq Callers
  /\ enqueued \in 0 .. Messages

\* The two tasks never drive the SPI bus at the same time, and each holds the mutex
\* while it does: their transfers would interleave otherwise.
BusExclusive ==
  /\ send \in {"load", "poll", "fail"} <=> nrf_mutex = "send"
  /\ recv \in {"ready", "clear", "sort"} <=> nrf_mutex = "receive"

\* Every message goes on air once, in the order of the calls of io_enqueue_send: none is
\* lost, repeated or overtaken between the queue and the chip, failed transmissions
\* included.
SentInOrder == aired \o msg \o send_q = [i \in 1 .. enqueued |-> i]

\* Every button packet that the chip accepted is in one place, and the places hold them in
\* the order of arrival, whatever events were dropped: what the game task has read, then the
\* queue, then the packet in the task's hands, then the FIFO.
ReceivedInOrder ==
  LET taken == read \o recv_q
      held  == taken \o raw \o fifo
      Buttons(s) == {p \in ToSet(s) : IsButton(p)}
  IN  /\ \A j, k \in DOMAIN held : j < k => held[j].id < held[k].id
      /\ Buttons(held) = Buttons(arrived)
      /\ ToSet(taken) = Buttons(taken)

\* src/mirf.c:326 "When sending has finished return chip to listening.": unless some
\* transmission is given up, the chip listens whenever none is in progress.
IdleListens ==
  [](send # "fail") => [](send \in {"wait", "take"} => mode = "RX" /\ ~PTX)

\* src/mirf.c:266 "So if we're going to clear RX_DR here, we need to check the RX FIFO in
\* the dataReady() function": no packet is left in the FIFO without an event to fetch it.
NothingStranded ==
  recv = "wait" /\ irq_q = 0 /\ nrf_mutex = "free" => fifo = <<>>

\* include/nrf_io.h:30 "Enqueues a message for sending": the call returns, at least as
\* long as no transmission is given up.
EnqueueReturns ==
  [](send # "fail") => \A task \in Callers : (task \in calling ~> task \notin calling)

\* It does if no more packets arrive than the receive queue holds, even if none of them
\* is ever read.
EnqueueReturnsIfRoom == [](Len(arrived) <= IO_QUEUE_SIZE) => EnqueueReturns
=============================================================================
