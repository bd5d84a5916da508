SPECIFICATION ClipboardSpec
CONSTANTS
    Calls = {c1}
    NoCall = NoCall
CHECK_DEADLOCK FALSE
INVARIANTS
    ControlInv
    NoCyclicWait
    HonestOutcome
