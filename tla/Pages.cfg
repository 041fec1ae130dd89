SPECIFICATION Spec
CONSTANTS
    Caller = {c1}
    Note = {n1, n2}
    Question = {q1, q2}
    PageSize = 1
    MaxIssued = 3
    MaxEpoch = 1
INVARIANT WholeList
PROPERTIES UnderRight ActedOnShown ListEnds
