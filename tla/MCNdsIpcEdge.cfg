SPECIFICATION Spec
CONSTANTS
    Words = {w1, w2}
    Nothing = w0
    Depth = 3
    Nibbles = {0, 1}
PROPERTY
    SendEmptyOnEdge
