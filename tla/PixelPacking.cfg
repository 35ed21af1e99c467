\* Three white LEDs at the head of a strip, three strips per PRU.
CONSTANTS
  Rgbw = 3
  Channels = 3
  Counts = {1, 3, 4, 5, 6, 7, 8, 9}
  Useds = {1, 6}
SPECIFICATION Spec
INVARIANTS
  IInv
  PackedInOrder
  WritesInBuffer
  LedsShowTheirPixels
