CONSTANTS
    Readers = {r1, r2}
    Files = {f1, f2}
    RingSize = 3
    Lengths = {0, 1, 2, 4}
    MaxChars = 5
    Rude = FALSE
SPECIFICATION CSpec
INVARIANT
    ReadInOrder
CHECK_DEADLOCK FALSE
