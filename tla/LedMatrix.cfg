\* Three rows and columns for five, 14 bytes for 24: each matrix still fills half of
\* the message after its two first bytes. Two calls of setLEDColor after each reset.
CONSTANTS
  MATRIX_SIZE = 3
  PAYLOAD_SIZE = 14
  Calls = 2
SPECIFICATION Spec
PROPERTIES
  MessageDecodes
  
