\* Reads of up to three bytes, of which two are letters, from a stream of
\* seven, into a buffer of three that is replaced when less than two bytes of
\* it are free.
CONSTANTS
    Bytes = {a, b, nl}
    NL = nl
    Capacity = 3
    Reserve = 2
    MaxRead = 3
    MaxBytes = 7
SPECIFICATION Spec
CHECK_DEADLOCK FALSE
INVARIANTS
    BytesCounted
    LinesExact
    BuffersSound
