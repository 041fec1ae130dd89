SPECIFICATION Spec
CONSTANTS
    Call = {c1, c2, c3}
    Server = {s1, s2}
    Occ = {o1}
    Feature = {operator}
    Slots = 2
INVARIANTS TypeOK ReturnedIsDrained
PROPERTIES NoneAfterStopped ServeEnds FullDrains
CHECK_DEADLOCK FALSE
