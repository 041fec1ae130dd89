SPECIFICATION Spec
CONSTANTS
    Conn = {"c1", "c2"}
    Question = {"q1", "q2"}
    Option = {"once", "never"}
    Kept = {"never"}
    MaxAsks = 2
    ReadFails = TRUE
INVARIANTS AskedOnce ToldIsTrue ClosedServesNone
PROPERTIES BlockedAskEnds CloseEnds
