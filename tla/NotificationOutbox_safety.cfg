SPECIFICATION Spec
CONSTANTS
    Passes = {p1, p2, p3, p4}
    Keys = {x1, x2}
    MaxFaults = 2
    None = None
SYMMETRY MCSymmetry
INVARIANTS
    TypeOK
    SentIsAccepted
    OnceWhenAlone
PROPERTIES
    QuietSentIsFinal
CHECK_DEADLOCK FALSE
