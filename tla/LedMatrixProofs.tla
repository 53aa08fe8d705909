--------------------------- MODULE LedMatrixProofs ---------------------------
(***************************************************************************)
(* Proofs about LedMatrix: the bits of setLEDColor implement a panel of    *)
(* coloured LEDs, and a message carries them unchanged, whatever the size  *)
(* of the matrices, as long as a row fits in 16 bits.                      *)
(***************************************************************************)
EXTENDS LedMatrix, TLAPS

Word   == SUBSET (0 .. 15)
Matrix == [1 .. 2 -> [Size -> Word]]

\* The inductive invariant: both matrices hold words of 16 bits.
Words == ledMatrix \in Matrix
-----------------------------------------------------------------------------
\* A row is at most five LEDs, so its bits stay inside the word.
LEMMA Sizes == MATRIX_SIZE \in {1, 2, 3, 4, 5} /\ PAYLOAD_SIZE \in Nat /\ 4 * MATRIX_SIZE <= PAYLOAD_SIZE
BY LedMatrixAssumption

\* The three bits of an LED, by number: the first is 3 * col in both matrices.
LEMMA LedBits ==
  ASSUME NEW num \in 1 .. 2, NEW col \in Size
  PROVE  /\ Led(num, col) = {3 * col, 3 * col + 1, 3 * col + 2}
         /\ Led(num, col) \subseteq 0 .. 15
  <1>1. col \in Int /\ 0 <= col /\ 3 * col + 2 <= 15
    BY LedMatrixAssumption DEF Size
  <1>2. 1 .. 3 = {1, 2, 3}
    OBVIOUS
  <1>3. Led(num, col) = {Bits(num, col)[1], Bits(num, col)[2], Bits(num, col)[3]}
    BY <1>2, Zenon DEF Led
  <1>4. Led(num, col) = {3 * col, 3 * col + 1, 3 * col + 2}
    BY <1>1, <1>3 DEF Bits
  <1> QED
    BY <1>1, <1>4

\* The bits that a colour clears, by colour.
LitBits(num, col, color) ==
  LET red   == 3 * col
      green == IF num = 1 THEN 3 * col + 2 ELSE 3 * col + 1
      blue  == IF num = 1 THEN 3 * col + 1 ELSE 3 * col + 2
  IN  /\ color = "RED"   => Lit(num, col, color) = {red}
      /\ color = "GREEN" => Lit(num, col, color) = {green}
      /\ color = "BLUE"  => Lit(num, col, color) = {blue}
      /\ color = "CYAN"  => Lit(num, col, color) = {red, green}
      /\ color = "OFF"   => Lit(num, col, color) = {}

LEMMA LitIs ==
  ASSUME NEW num \in 1 .. 2, NEW col \in Size, NEW color \in Color
  PROVE  LitBits(num, col, color)
  <1>1. col \in Int
    BY LedMatrixAssumption DEF Size
  <1>2. CASE color = "RED"
    BY <1>1, <1>2 DEF LitBits, Lit, On, Bits
  <1>3. CASE color = "GREEN"
    BY <1>1, <1>3 DEF LitBits, Lit, On, Bits
  <1>4. CASE color = "BLUE"
    BY <1>1, <1>4 DEF LitBits, Lit, On, Bits
  <1>5. CASE color = "CYAN"
    BY <1>1, <1>5 DEF LitBits, Lit, On, Bits
  <1>6. CASE color = "OFF"
    BY <1>1, <1>6 DEF LitBits, Lit, On, Bits
  <1> QED
    BY <1>2, <1>3, <1>4, <1>5, <1>6 DEF Color

LEMMA LitInside ==
  ASSUME NEW num \in 1 .. 2, NEW col \in Size, NEW color \in Color
  PROVE  Lit(num, col, color) \subseteq Led(num, col)
  <1>1. col \in Int
    BY LedMatrixAssumption DEF Size
  <1>2. LitBits(num, col, color) /\ Led(num, col) = {3 * col, 3 * col + 1, 3 * col + 2}
    BY LitIs, LedBits
  <1> QED
    BY <1>1, <1>2 DEF LitBits, Color

\* Which bit of a word is which lamp, by lamp.
LEMMA LampBits ==
  ASSUME NEW num \in 1 .. 2, NEW col \in Size, NEW word
  PROVE  /\ LampsAt(num, word, col) \subseteq {"red", "green", "blue"}
         /\ "red" \in LampsAt(num, word, col) <=> 3 * col \notin word
         /\ "green" \in LampsAt(num, word, col)
              <=> (IF num = 1 THEN 3 * col + 2 ELSE 3 * col + 1) \notin word
         /\ "blue" \in LampsAt(num, word, col)
              <=> (IF num = 1 THEN 3 * col + 1 ELSE 3 * col + 2) \notin word
  <1>1. col \in Int
    BY LedMatrixAssumption DEF Size
  <1> DEFINE dark(j) == 3 * col + j - 1 \in word
  <1>2. /\ dark(1) <=> 3 * col \in word
        /\ dark(2) <=> 3 * col + 1 \in word
        /\ dark(3) <=> 3 * col + 2 \in word
    BY <1>1
  <1>3. \A lamp : lamp \in LampsAt(num, word, col) <=> \E i \in 1 .. 3 : ~dark(i) /\ lamp = Wires[num][i]
    BY DEF LampsAt
  <1> HIDE DEF dark
  <1>4. \A lamp : lamp \in LampsAt(num, word, col) <=>
          \/ ~dark(1) /\ lamp = Wires[num][1]
          \/ ~dark(2) /\ lamp = Wires[num][2]
          \/ ~dark(3) /\ lamp = Wires[num][3]
    <2>1. 1 .. 3 = {1, 2, 3}
      OBVIOUS
    <2> QED BY <1>3, <2>1, Zenon
  <1>5. CASE num = 1
    <2>1. Wires[num][1] = "red" /\ Wires[num][2] = "blue" /\ Wires[num][3] = "green"
      BY <1>5 DEF Wires
    <2> QED BY <1>2, <1>4, <1>5, <2>1
  <1>6. CASE num = 2
    <2>1. Wires[num][1] = "red" /\ Wires[num][2] = "green" /\ Wires[num][3] = "blue"
      BY <1>6 DEF Wires
    <2> QED BY <1>2, <1>4, <1>6, <2>1
  <1> QED
    BY <1>5, <1>6

\* An LED whose cleared bits are those that a colour clears lights that colour's lamps.
LEMMA LampsShown ==
  ASSUME NEW num \in 1 .. 2, NEW col \in Size, NEW color \in Color, NEW word,
         Led(num, col) \ word = Lit(num, col, color)
  PROVE  LampsAt(num, word, col) = Shows[color]
  <1> DEFINE red   == 3 * col
             green == IF num = 1 THEN 3 * col + 2 ELSE 3 * col + 1
             blue  == IF num = 1 THEN 3 * col + 1 ELSE 3 * col + 2
             lit   == Lit(num, col, color)
  <1>1. col \in Int
    BY LedMatrixAssumption DEF Size
  <1>2. red # green /\ red # blue /\ green # blue /\ Led(num, col) = {red, green, blue}
    BY <1>1, LedBits
  <1>3. /\ LampsAt(num, word, col) \subseteq {"red", "green", "blue"}
        /\ "red" \in LampsAt(num, word, col) <=> red \notin word
        /\ "green" \in LampsAt(num, word, col) <=> green \notin word
        /\ "blue" \in LampsAt(num, word, col) <=> blue \notin word
    BY LampBits
  <1>4. /\ color = "RED"   => lit = {red}
        /\ color = "GREEN" => lit = {green}
        /\ color = "BLUE"  => lit = {blue}
        /\ color = "CYAN"  => lit = {red, green}
        /\ color = "OFF"   => lit = {}
    BY LitIs DEF LitBits
  <1>5. Led(num, col) \ word = lit
    OBVIOUS
  <1> HIDE DEF red, green, blue, lit
  <1>6. /\ red \in lit <=> color \in {"RED", "CYAN"}
        /\ green \in lit <=> color \in {"GREEN", "CYAN"}
        /\ blue \in lit <=> color = "BLUE"
    BY <1>2, <1>4 DEF Color
  <1>7. /\ "red" \in LampsAt(num, word, col) <=> color \in {"RED", "CYAN"}
        /\ "green" \in LampsAt(num, word, col) <=> color \in {"GREEN", "CYAN"}
        /\ "blue" \in LampsAt(num, word, col) <=> color = "BLUE"
    BY <1>2, <1>3, <1>5, <1>6
  <1>8. /\ Shows["RED"] = {"red"} /\ Shows["GREEN"] = {"green"} /\ Shows["BLUE"] = {"blue"}
        /\ Shows["CYAN"] = {"red", "green"} /\ Shows["OFF"] = {}
    BY DEF Shows
  <1>9. /\ Shows[color] \subseteq {"red", "green", "blue"}
        /\ "red" \in Shows[color] <=> color \in {"RED", "CYAN"}
        /\ "green" \in Shows[color] <=> color \in {"GREEN", "CYAN"}
        /\ "blue" \in Shows[color] <=> color = "BLUE"
    BY <1>8 DEF Color
  <1> QED
    BY <1>3, <1>7, <1>9

\* What an LED shows depends on its own three bits only.
LEMMA LampsKept ==
  ASSUME NEW num \in 1 .. 2, NEW col \in Size, NEW word, NEW other,
         Led(num, col) \ word = Led(num, col) \ other
  PROVE  LampsAt(num, word, col) = LampsAt(num, other, col)
  <1>1. \A b \in Led(num, col) : b \in word <=> b \in other
    OBVIOUS
  <1>2. Led(num, col) = {3 * col, 3 * col + 1, 3 * col + 2}
    BY LedBits
  <1>3. \A i \in 1 .. 3 : 3 * col + i - 1 \in Led(num, col)
    <2>1. col \in Int
      BY LedMatrixAssumption DEF Size
    <2> QED BY <1>2, <2>1
  <1>4. {j \in 1 .. 3 : 3 * col + j - 1 \notin word} = {j \in 1 .. 3 : 3 * col + j - 1 \notin other}
    BY <1>1, <1>3
  <1> QED
    BY <1>4, Zenon DEF LampsAt

\* The LEDs of a row share no bit.
LEMMA LedsApart ==
  ASSUME NEW num \in 1 .. 2, NEW a \in Size, NEW b \in Size, a # b
  PROVE  Led(num, a) \cap Led(num, b) = {}
  <1>1. a \in Int /\ b \in Int
    BY LedMatrixAssumption DEF Size
  <1>2. /\ Led(num, a) = {3 * a, 3 * a + 1, 3 * a + 2}
        /\ Led(num, b) = {3 * b, 3 * b + 1, 3 * b + 2}
    BY LedBits
  <1> QED
    BY <1>1, <1>2
-----------------------------------------------------------------------------
\* The words of a reset are words, and show blue at every LED.
LEMMA BlueShown ==
  /\ Blue \in Matrix
  /\ LampsOf(Blue) = [num \in 1 .. 2 |-> [c \in Size \X Size |-> Shows["BLUE"]]]
  <1>1. Blue \in Matrix
    BY DEF Blue, BlueWord, Matrix, Word
  <1>2. ASSUME NEW num \in 1 .. 2, NEW c \in Size \X Size
        PROVE  LampsAt(num, Blue[num][c[1]], c[2]) = Shows["BLUE"]
    <2>1. c[1] \in Size /\ c[2] \in Size
      OBVIOUS
    <2> DEFINE col == c[2]
               blue == IF num = 1 THEN 3 * col + 1 ELSE 3 * col + 2
    <2>2. Blue[num][c[1]] = BlueWord(num)
      BY <2>1 DEF Blue
    <2>3. col \in Int /\ \A k \in Size : k \in Int
      BY <2>1, LedMatrixAssumption DEF Size
    <2>4. /\ Led(num, col) = {3 * col, 3 * col + 1, 3 * col + 2}
          /\ Led(num, col) \subseteq 0 .. 15
      BY <2>1, LedBits
    <2>5. Lit(num, col, "BLUE") = {blue}
      BY <2>1, LitIs DEF LitBits, Color
    <2>6. Led(num, col) \ BlueWord(num) = {blue}
      <3>1. CASE num = 1
        <4>1. BlueWord(num) = (0 .. 15) \ {3 * k + 1 : k \in Size}
          BY <3>1 DEF BlueWord
        <4>2. 3 * col + 1 \in {3 * k + 1 : k \in Size}
          BY <2>1
        <4>3. 3 * col \notin {3 * k + 1 : k \in Size} /\ 3 * col + 2 \notin {3 * k + 1 : k \in Size}
          BY <2>3
        <4> QED
          BY <2>4, <4>1, <4>2, <4>3, <3>1
      <3>2. CASE num # 1
        <4>1. BlueWord(num) = (0 .. 15) \ {3 * k + 2 : k \in Size}
          BY <3>2 DEF BlueWord
        <4>2. 3 * col + 2 \in {3 * k + 2 : k \in Size}
          BY <2>1
        <4>3. 3 * col \notin {3 * k + 2 : k \in Size} /\ 3 * col + 1 \notin {3 * k + 2 : k \in Size}
          BY <2>3
        <4> QED
          BY <2>4, <4>1, <4>2, <4>3, <3>2
      <3> QED
        BY <3>1, <3>2
    <2>7. "BLUE" \in Color
      BY DEF Color
    <2> HIDE DEF blue
    <2> QED
      BY <2>1, <2>2, <2>5, <2>6, <2>7, LampsShown
  <1> QED
    BY <1>1, <1>2, Zenon DEF LampsOf

\* What setLEDColor makes of the matrices.
Recolored(num, row, col, color) ==
  [ledMatrix EXCEPT ![num][row] = (@ \cup Led(num, col)) \ Lit(num, col, color)]

\* A call of setLEDColor inside the matrix leaves words, and one LED with a new colour.
LEMMA CallShown ==
  ASSUME Words, NEW num \in 1 .. 2, NEW row \in Size, NEW col \in Size, NEW color \in Color
  PROVE  /\ Recolored(num, row, col, color) \in Matrix
         /\ LampsOf(Recolored(num, row, col, color)) =
              [LampsOf(ledMatrix) EXCEPT ![num][<<row, col>>] = Shows[color]]
  <1> DEFINE after == Recolored(num, row, col, color)
             old  == ledMatrix[num][row]
             word == (old \cup Led(num, col)) \ Lit(num, col, color)
  <1>1. /\ Led(num, col) \subseteq 0 .. 15
        /\ Lit(num, col, color) \subseteq Led(num, col)
    BY LedBits, LitInside
  <1>2. old \in Word /\ word \in Word
    BY <1>1 DEF Words, Matrix, Word
  <1>3. /\ after \in Matrix
        /\ after[num][row] = word
        /\ \A n \in 1 .. 2, r \in Size :
             n # num \/ r # row => after[n][r] = ledMatrix[n][r]
    <2>1. after = [ledMatrix EXCEPT ![num][row] = word]
      BY DEF Recolored
    <2> HIDE DEF word, old, after
    <2> QED
      BY <1>2, <2>1 DEF Words, Matrix
  <1> HIDE DEF after
  <1>4. LampsAt(num, word, col) = Shows[color]
    <2>1. Led(num, col) \ word = Lit(num, col, color)
      BY <1>1
    <2> QED
      BY <2>1, LampsShown
  <1>5. ASSUME NEW n \in 1 .. 2, NEW c \in Size \X Size
        PROVE  LampsAt(n, after[n][c[1]], c[2]) =
                 IF n = num /\ c = <<row, col>> THEN Shows[color]
                 ELSE LampsAt(n, ledMatrix[n][c[1]], c[2])
    <2>1. c[1] \in Size /\ c[2] \in Size /\ c = <<c[1], c[2]>>
      OBVIOUS
    <2>2. CASE n = num /\ c = <<row, col>>
      BY <1>3, <1>4, <2>2
    <2>3. CASE n # num \/ c[1] # row
      <3>1. after[n][c[1]] = ledMatrix[n][c[1]] /\ ~(n = num /\ c = <<row, col>>)
        BY <1>3, <2>1, <2>3
      <3> QED
        BY <3>1
    <2>4. CASE n = num /\ c[1] = row /\ c[2] # col
      <3>1. Led(num, c[2]) \cap Led(num, col) = {}
        BY <2>1, <2>4, LedsApart
      <3>2. Led(num, c[2]) \ word = Led(num, c[2]) \ old
        BY <1>1, <3>1
      <3>3. LampsAt(num, word, c[2]) = LampsAt(num, old, c[2])
        BY <3>2, LampsKept
      <3>4. c # <<row, col>>
        BY <2>4
      <3> QED
        BY <1>3, <2>4, <3>3, <3>4
    <2> QED
      BY <2>1, <2>2, <2>3, <2>4
  <1>6. LampsOf(after) = [n \in 1 .. 2 |-> [c \in Size \X Size |->
                             IF n = num /\ c = <<row, col>> THEN Shows[color]
                             ELSE LampsAt(n, ledMatrix[n][c[1]], c[2])]]
    BY <1>5, Zenon DEF LampsOf
  <1>7. [LampsOf(ledMatrix) EXCEPT ![num][<<row, col>>] = Shows[color]] =
          [n \in 1 .. 2 |-> [c \in Size \X Size |->
             IF n = num /\ c = <<row, col>> THEN Shows[color]
             ELSE LampsAt(n, ledMatrix[n][c[1]], c[2])]]
    <2> DEFINE at(n, c) == LampsAt(n, ledMatrix[n][c[1]], c[2])
    <2>1. LampsOf(ledMatrix) = [n \in 1 .. 2 |-> [c \in Size \X Size |-> at(n, c)]]
      BY Zenon DEF LampsOf
    <2> HIDE DEF at
    <2>2. [[n \in 1 .. 2 |-> [c \in Size \X Size |-> at(n, c)]]
             EXCEPT ![num][<<row, col>>] = Shows[color]] =
            [n \in 1 .. 2 |-> [c \in Size \X Size |->
               IF n = num /\ c = <<row, col>> THEN Shows[color] ELSE at(n, c)]]
      OBVIOUS
    <2> QED
      BY <2>1, <2>2 DEF at
  <1> QED
    BY <1>3, <1>6, <1>7 DEF after
-----------------------------------------------------------------------------
\* Every step keeps the words and shows the slave the panel's step for the same call.
LEMMA LedStep ==
  ASSUME Words, [Next]_vars
  PROVE  Words' /\ [Slave!Next]_<<LampsOf(ledMatrix), call>>
  <1>1. CASE led_matrix_init
    <2>1. Slave!Clear
      BY <1>1, BlueShown DEF led_matrix_init, Slave!Clear, Slave!Cleared
    <2> QED BY <1>1, <2>1, BlueShown DEF led_matrix_init, Words, Slave!Next
  <1>2. CASE send_led_matrix_update
    BY <1>2 DEF send_led_matrix_update, Words, LampsOf
  <1>3. ASSUME NEW num \in 1 .. 2, NEW row \in 0 .. MATRIX_SIZE, NEW col \in 0 .. MATRIX_SIZE,
               NEW color \in Color, setLEDColor(num, row, col, color)
        PROVE  Words' /\ [Slave!Next]_<<LampsOf(ledMatrix), call>>
    <2> DEFINE c == <<row, col>>
    <2>1. c \in (0 .. MATRIX_SIZE) \X (0 .. MATRIX_SIZE) /\ call' = <<num, c, color>>
      BY <1>3 DEF setLEDColor
    <2>2. Words' /\ LampsOf(ledMatrix)' =
            IF c \in Size \X Size THEN [LampsOf(ledMatrix) EXCEPT ![num][c] = Shows[color]]
            ELSE LampsOf(ledMatrix)
      <3>1. CASE row \notin Size \/ col \notin Size
        <4>1. ledMatrix' = ledMatrix /\ c \notin Size \X Size
          BY <1>3, <3>1 DEF setLEDColor
        <4> QED BY <4>1 DEF Words, LampsOf
      <3>2. CASE row \in Size /\ col \in Size
        <4>1. ledMatrix' = Recolored(num, row, col, color)
          BY <1>3, <3>2, Zenon DEF setLEDColor, Recolored
        <4>2. /\ ledMatrix' \in Matrix
              /\ LampsOf(ledMatrix') = [LampsOf(ledMatrix) EXCEPT ![num][<<row, col>>] = Shows[color]]
          BY <3>2, <4>1, CallShown
        <4>3. c \in Size \X Size
          BY <3>2
        <4>4. LampsOf(ledMatrix)' = LampsOf(ledMatrix')
          BY DEF LampsOf
        <4> QED
          BY <4>2, <4>3, <4>4 DEF Words
      <3> QED BY <3>1, <3>2
    <2>3. color \in DOMAIN Shows
      BY DEF Shows, Color
    <2> HIDE DEF c
    <2>4. Slave!Set(num, c, color)
      BY <2>1, <2>2 DEF Slave!Set
    <2> QED
      BY <2>1, <2>2, <2>3, <2>4 DEF Slave!Next
  <1>4. CASE UNCHANGED vars
    BY <1>4 DEF vars, Words, LampsOf
  <1> QED
    BY <1>1, <1>2, <1>3, <1>4 DEF Next

\* Both matrices always hold words of 16 bits.
LEMMA WordsAlways == Spec => []Words
  <1>1. Init => Words
    BY BlueShown DEF Init, Words
  <1>2. Words /\ [Next]_vars => Words'
    BY LedStep
  <1> QED
    BY <1>1, <1>2, PTL DEF Spec

\* The bit arithmetic of led_matrix_init and setLEDColor implements the panel of lamps:
\* the LED that is named, and no other, lights the lamps of the colour that is named, on both
\* matrices as they are wired, for every size that a row of 16 bits admits.
THEOREM PanelRefined == Spec => ImplementsLedPanel
  <1>1. Init => Slave!Init
    BY BlueShown DEF Init, Slave!Init, Slave!Cleared
  <1>2. Words /\ [Next]_vars => [Slave!Next]_<<LampsOf(ledMatrix), call>>
    BY LedStep
  <1> QED
    BY <1>1, <1>2, WordsAlways, PTL DEF Spec, ImplementsLedPanel, Slave!Spec
-----------------------------------------------------------------------------
\* The two bytes of a word, and the word of two bytes.
LEMMA WordBytes ==
  ASSUME NEW word \in Word
  PROVE  /\ Low(word) \in Byte /\ High(word) \in Byte
         /\ Low(word) \cup {b + 8 : b \in High(word)} = word
  <1>1. word \subseteq 0 .. 15
    BY DEF Word
  <1>2. Low(word) \in Byte /\ High(word) \in Byte
    BY <1>1 DEF Low, High, Byte
  <1>3. ASSUME NEW b \in word
        PROVE  b \in Low(word) \cup {a + 8 : a \in High(word)}
    <2>1. CASE b \in 0 .. 7
      BY <2>1 DEF Low
    <2>2. CASE b \notin 0 .. 7
      <3>1. b \in 8 .. 15 /\ b = (b - 8) + 8
        BY <1>1, <2>2
      <3>2. b - 8 \in High(word)
        BY <3>1 DEF High
      <3> QED
        BY <3>1, <3>2
    <2> QED
      BY <2>1, <2>2
  <1>4. ASSUME NEW a \in High(word)
        PROVE  a + 8 \in word
    <2>1. PICK b \in word \cap (8 .. 15) : a = b - 8
      BY DEF High
    <2> QED
      BY <2>1
  <1>5. Low(word) \subseteq word
    BY DEF Low
  <1> QED
    BY <1>2, <1>3, <1>4, <1>5

\* Where Message puts the bytes of a row: the arithmetic of its indices.
LEMMA Places ==
  ASSUME NEW num \in 1 .. 2, NEW row \in Size
  PROVE  LET at == 2 * ((num - 1) * MATRIX_SIZE + row)
         IN  /\ {at, at + 1} \subseteq 0 .. PAYLOAD_SIZE - 1
             /\ at < 4 * MATRIX_SIZE /\ at + 1 < 4 * MATRIX_SIZE
             /\ at % 2 = 0 /\ (at + 1) % 2 # 0
             /\ at < 2 * MATRIX_SIZE <=> num = 1
             /\ at + 1 < 2 * MATRIX_SIZE <=> num = 1
             /\ (at \div 2) % MATRIX_SIZE = row
             /\ ((at + 1) \div 2) % MATRIX_SIZE = row
  <1>1. row \in Int /\ 0 <= row /\ row < MATRIX_SIZE
    BY LedMatrixAssumption DEF Size
  <1>2. CASE MATRIX_SIZE = 1
    BY <1>1, <1>2, Sizes
  <1>3. CASE MATRIX_SIZE = 2
    BY <1>1, <1>3, Sizes
  <1>4. CASE MATRIX_SIZE = 3
    BY <1>1, <1>4, Sizes
  <1>5. CASE MATRIX_SIZE = 4
    BY <1>1, <1>5, Sizes
  <1>6. CASE MATRIX_SIZE = 5
    BY <1>1, <1>6, Sizes
  <1> QED
    BY <1>2, <1>3, <1>4, <1>5, <1>6, Sizes

\* Decoding undoes Message: every word comes back, and the payload is made of bytes.
LEMMA DecodesMessage ==
  ASSUME NEW m \in Matrix
  PROVE  /\ Message(m) \in [0 .. PAYLOAD_SIZE - 1 -> Byte]
         /\ Decoded(Message(m)) = m
  <1> DEFINE word(i) == m[IF i < 2 * MATRIX_SIZE THEN 1 ELSE 2][(i \div 2) % MATRIX_SIZE]
             byte(i) == IF i >= 4 * MATRIX_SIZE THEN {}
                        ELSE IF i % 2 = 0 THEN Low(word(i)) ELSE High(word(i))
  <1>1. Message(m) = [i \in 0 .. PAYLOAD_SIZE - 1 |-> byte(i)]
    BY Zenon DEF Message
  <1>2. ASSUME NEW i \in 0 .. PAYLOAD_SIZE - 1
        PROVE  byte(i) \in Byte
    <2>1. (i \div 2) % MATRIX_SIZE \in Size
      <3>1. i \div 2 \in Int
        BY Sizes
      <3> QED
        BY <3>1, Sizes DEF Size
    <2>2. word(i) \in Word
      <3> DEFINE n == IF i < 2 * MATRIX_SIZE THEN 1 ELSE 2
                 r == (i \div 2) % MATRIX_SIZE
      <3>1. n \in 1 .. 2
        OBVIOUS
      <3> HIDE DEF n, r
      <3>2. m[n][r] \in Word
        BY <2>1, <3>1 DEF Matrix, r
      <3> QED
        BY <3>2 DEF n, r
    <2>3. Low(word(i)) \in Byte /\ High(word(i)) \in Byte
      BY <2>2, WordBytes
    <2> HIDE DEF word
    <2> QED
      BY <2>3 DEF Byte
  <1>3. ASSUME NEW num \in 1 .. 2, NEW row \in Size
        PROVE  LET at == 2 * ((num - 1) * MATRIX_SIZE + row)
               IN  Message(m)[at] \cup {b + 8 : b \in Message(m)[at + 1]} = m[num][row]
    <2> DEFINE at == 2 * ((num - 1) * MATRIX_SIZE + row)
    <2>1. /\ at \in 0 .. PAYLOAD_SIZE - 1 /\ at + 1 \in 0 .. PAYLOAD_SIZE - 1
          /\ at < 4 * MATRIX_SIZE /\ at + 1 < 4 * MATRIX_SIZE
          /\ at % 2 = 0 /\ (at + 1) % 2 # 0
          /\ at < 2 * MATRIX_SIZE <=> num = 1
          /\ at + 1 < 2 * MATRIX_SIZE <=> num = 1
          /\ (at \div 2) % MATRIX_SIZE = row
          /\ ((at + 1) \div 2) % MATRIX_SIZE = row
      BY Places
    <2> HIDE DEF at
    <2>2. ~(at >= 4 * MATRIX_SIZE) /\ ~(at + 1 >= 4 * MATRIX_SIZE)
      BY <2>1, Sizes
    <2>3. (IF at < 2 * MATRIX_SIZE THEN 1 ELSE 2) = num
          /\ (IF at + 1 < 2 * MATRIX_SIZE THEN 1 ELSE 2) = num
      BY <2>1
    <2>4. word(at) = m[num][row] /\ word(at + 1) = m[num][row]
      BY <2>1, <2>3, Zenon
    <2> HIDE DEF word
    <2>5. byte(at) = Low(m[num][row]) /\ byte(at + 1) = High(m[num][row])
      BY <2>1, <2>2, <2>4, Zenon
    <2> HIDE DEF byte
    <2>6. Message(m)[at] = Low(m[num][row]) /\ Message(m)[at + 1] = High(m[num][row])
      BY <1>1, <2>1, <2>5
    <2>7. m[num][row] \in Word
      BY DEF Matrix
    <2> QED
      BY <2>6, <2>7, WordBytes DEF at
  <1>4. Message(m) \in [0 .. PAYLOAD_SIZE - 1 -> Byte]
    <2> HIDE DEF byte
    <2> QED
      BY <1>1, <1>2
  <1>5. m = [num \in 1 .. 2 |-> [row \in Size |-> m[num][row]]]
    BY DEF Matrix
  <1>6. Decoded(Message(m)) = [num \in 1 .. 2 |-> [row \in Size |-> m[num][row]]]
    BY <1>3, Zenon DEF Decoded
  <1> QED
    BY <1>4, <1>5, <1>6

\* Every LED message carries the matrices as they were when it was built: the slave decodes
\* exactly the master's words, for every payload long enough to hold them.
THEOREM MessagesDecode == Spec => MessageDecodes
  <1>1. Words /\ [Next]_vars =>
          (led_matrix_init \/ send_led_matrix_update =>
             payload' \in [0 .. PAYLOAD_SIZE - 1 -> Byte] /\ Decoded(payload') = ledMatrix')
    <2> SUFFICES ASSUME Words, led_matrix_init \/ send_led_matrix_update
                 PROVE  payload' \in [0 .. PAYLOAD_SIZE - 1 -> Byte] /\ Decoded(payload') = ledMatrix'
      OBVIOUS
    <2>1. CASE led_matrix_init
      <3>1. payload' = Message(Blue) /\ ledMatrix' = Blue
        BY <2>1 DEF led_matrix_init
      <3> QED
        BY <3>1, BlueShown, DecodesMessage
    <2>2. CASE send_led_matrix_update
      <3>1. payload' = Message(ledMatrix) /\ ledMatrix' = ledMatrix
        BY <2>2 DEF send_led_matrix_update
      <3> QED
        BY <3>1, DecodesMessage DEF Words
    <2> QED
      BY <2>1, <2>2
  <1> QED
    BY <1>1, WordsAlways, PTL DEF Spec, MessageDecodes
=============================================================================
