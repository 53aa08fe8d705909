----------------------------- MODULE LedMatrix ------------------------------
(***************************************************************************)
(* The bits behind the two LED matrices (src/led_matrix_ctrl.c) and the    *)
(* message that carries them (src/io_builder.c:34-62).  A row is a word    *)
(* of 16 bits, three for each LED, and a bit that is 0 lights its lamp.    *)
(* A word is the set of its bits that are 1, a byte likewise.              *)
(***************************************************************************)
EXTENDS Integers

CONSTANTS MATRIX_SIZE,    \* rows and columns of a matrix
          PAYLOAD_SIZE,   \* bytes of a message's payload
          Calls           \* bound: calls of setLEDColor after a reset

ASSUME LedMatrixAssumption ==
  /\ MATRIX_SIZE \in Nat \ {0} /\ 3 * MATRIX_SIZE <= 16
  /\ PAYLOAD_SIZE \in Nat /\ 4 * MATRIX_SIZE <= PAYLOAD_SIZE
  /\ Calls \in Nat

VARIABLES ledMatrix,   \* ledMatrix1 and ledMatrix2
          payload,     \* of the last LED message
          call,        \* history: what setLEDColor was called with last; <<>> after a reset
          calls        \* history: how often it was called since the last reset

vars == <<ledMatrix, payload, call, calls>>

Size  == 0 .. MATRIX_SIZE - 1
Byte == SUBSET (0 .. 7)
Color == {"OFF", "RED", "GREEN", "BLUE", "CYAN"}

\* Mutant: the second matrix is taken to be wired like the first.
BitsAlike(num, col) == <<3 * col, 3 * col + 2, 3 * col + 1>>

\* The bits bit0, bit1 and bit2 of setLEDColor.
Bits(num, col) == IF num = 1 THEN <<3 * col, 3 * col + 2, 3 * col + 1>>
                  ELSE <<3 * col, 3 * col + 1, 3 * col + 2>>

\* Which of the three the switch on the color clears, whatever its comments call them.
On(color) == CASE color = "RED"   -> {1}
               [] color = "GREEN" -> {2}
               [] color = "BLUE"  -> {3}
               [] color = "CYAN"  -> {1, 2}
               [] color = "OFF"   -> {}

Led(num, col) == {Bits(num, col)[i] : i \in 1 .. 3}
Lit(num, col, color) == {Bits(num, col)[i] : i \in On(color)}

\* Every word is 0xFFFF but for the bits that led_matrix_init clears.
BlueWord(num) == (0 .. 15) \ {3 * col + (IF num = 1 THEN 1 ELSE 2) : col \in Size}

Blue == [num \in 1 .. 2 |-> [row \in Size |-> BlueWord(num)]]

Low(word)  == word \cap (0 .. 7)
High(word) == {b - 8 : b \in word \cap (8 .. 15)}

\* Mutant: the second matrix begins one byte early.
MessageOverlapping(m) ==
  [i \in 0 .. PAYLOAD_SIZE - 1 |->
     LET half == IF i < 2 * MATRIX_SIZE - 1 THEN 1 ELSE 2
         word == m[half][((i + half - 1) \div 2) % MATRIX_SIZE]
     IN  IF i >= 4 * MATRIX_SIZE THEN {}
         ELSE IF i % 2 = 0 THEN Low(word) ELSE High(word)]

\* Both matrices row by row, the low byte first, in a zeroed payload.
Message(m) ==
  [i \in 0 .. PAYLOAD_SIZE - 1 |->
     LET word == m[IF i < 2 * MATRIX_SIZE THEN 1 ELSE 2][(i \div 2) % MATRIX_SIZE]
     IN  IF i >= 4 * MATRIX_SIZE THEN {}
         ELSE IF i % 2 = 0 THEN Low(word) ELSE High(word)]

Init == ledMatrix = Blue /\ payload = Message(Blue) /\ call = <<>> /\ calls = 0

led_matrix_init ==
  /\ ledMatrix' = Blue
  /\ payload' = Message(Blue)
  /\ call' = <<>> /\ calls' = 0

setLEDColor(num, row, col, color) ==
  /\ calls < Calls
  /\ ledMatrix' = IF row \notin Size \/ col \notin Size THEN ledMatrix
                  ELSE [ledMatrix EXCEPT ![num][row] =
                          (@ \cup Led(num, col)) \ Lit(num, col, color)]
  /\ call' = <<num, <<row, col>>, color>> /\ calls' = calls + 1
  /\ UNCHANGED payload

send_led_matrix_update ==
  /\ payload' = Message(ledMatrix)
  /\ UNCHANGED <<ledMatrix, call, calls>>

Next == \/ led_matrix_init
        \/ send_led_matrix_update
        \/ \E num \in 1 .. 2, row, col \in 0 .. MATRIX_SIZE, color \in Color :
              setLEDColor(num, row, col, color)

Spec == Init /\ [][Next]_vars
-----------------------------------------------------------------------------
\* The lamp behind each of an LED's three bits, lowest first: how the LED slave is wired,
\* external, and known only from the cases COLOR_RED ("on red"), COLOR_GREEN ("on green") and
\* COLOR_BLUE ("on blue") of setLEDColor.
Wires == <<<<"red", "blue", "green">>, <<"red", "green", "blue">>>>

\* The lamps that a word of the matrix lights at one LED.
LampsAt(num, word, col) == {Wires[num][i] : i \in {j \in 1 .. 3 : 3 * col + j - 1 \notin word}}

\* The lamps that a colour's name promises.  CYAN is taken as the code lights it: its own
\* comments say "on green", "on blue", "off red" (src/led_matrix_ctrl.c:64-66), but of bits
\* that the other three cases call green, red and blue.
Shows == [RED  |-> {"red"}, GREEN |-> {"green"}, BLUE |-> {"blue"},
          CYAN |-> {"red", "green"}, OFF |-> {}]

\* The words behind a payload, as the LED slave has to read them.
Decoded(p) ==
  [num \in 1 .. 2 |-> [row \in Size |->
     LET at == 2 * ((num - 1) * MATRIX_SIZE + row)
     IN  p[at] \cup {b + 8 : b \in p[at + 1]}]]

LampsOf(m) ==
  [num \in 1 .. 2 |-> [c \in Size \X Size |-> LampsAt(num, m[num][c[1]], c[2])]]

Slave == INSTANCE LedPanel WITH
           Matrices <- 1 .. 2, Cells <- Size \X Size,
           Asked    <- (0 .. MATRIX_SIZE) \X (0 .. MATRIX_SIZE),
           First    <- "BLUE", leds <- LampsOf(ledMatrix)

\* The bit arithmetic implements the panel of lamps: a reset shows the blue that setLEDColor
\* knows on both matrices, wired differently, and a call lights at the LED it names the
\* lamps of the colour it names and changes no other LED.
ImplementsLedPanel == Slave!Spec

\* Every message carries the matrices as they were when it was built, in bytes: the slave
\* decodes exactly the master's words.
MessageDecodes ==
  [][led_matrix_init \/ send_led_matrix_update =>
       payload' \in [0 .. PAYLOAD_SIZE - 1 -> Byte] /\ Decoded(payload') = ledMatrix']_vars
=============================================================================
