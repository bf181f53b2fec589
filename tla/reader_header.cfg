SPECIFICATION Spec
CONSTANTS
    START_BYTE = 2
    MIN_LEN = 1
    MAX_LEN = 3
    Messages <- MCMessages
INVARIANTS
    CorrectStreamAccepted
