SPECIFICATION Spec
CHECK_DEADLOCK FALSE
CONSTANTS
    NoFile = NoFile
    w1 = w1
    w2 = w2
    Writers = {w1, w2}
    Fallible = {"mkdir", "open", "write", "close", "rename", "replace", "link", "unlink"}
INVARIANTS
    NothingLeftOver
    CompleteCopySurvives
PROPERTIES
    NothingReplaced
    ImplementsAtomicFile
