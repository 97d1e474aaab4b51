SPECIFICATION Spec
CHECK_DEADLOCK FALSE
CONSTANTS
    NoFile = NoFile
    w1 = w1
    Writers = {w1}
    Fallible = {"write"}
INVARIANTS
    DestinationIsWhole
