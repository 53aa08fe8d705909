------------------------------ MODULE LedPanel ------------------------------
(***************************************************************************)
(* What the LED control promises to the game: two matrices of LEDs, each a *)
(* red, a green and a blue lamp, set one LED by one.                       *)
(***************************************************************************)
CONSTANTS Matrices, Cells,
          Asked,   \* the cells that a call may name, some of them off the matrix
          Shows,   \* for each colour, the lamps that are lit
          First    \* the colour of a cleared panel

VARIABLES leds,    \* the lamps that are lit at each LED
          call     \* the last call: matrix, cell and colour; <<>> after a reset

Cleared == [m \in Matrices |-> [c \in Cells |-> Shows[First]]]

Init == leds = Cleared /\ call = <<>>

Clear == leds' = Cleared /\ call' = <<>>

\* The LED that is named, and no other, shows the colour that is named.
Set(m, c, color) ==
  /\ call' = <<m, c, color>>
  /\ leds' = IF c \in Cells THEN [leds EXCEPT ![m][c] = Shows[color]] ELSE leds

Next == Clear \/ \E m \in Matrices, c \in Asked, color \in DOMAIN Shows : Set(m, c, color)

Spec == Init /\ [][Next]_<<leds, call>>
=============================================================================
