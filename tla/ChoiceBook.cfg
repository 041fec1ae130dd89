SPECIFICATION Spec
CONSTANTS
    r1 = r1
    r2 = r2
    yes = yes
    no = no
    p1 = p1
    k1 = k1
    None = None
    Ref = {r1, r2}
    ReplayUntil <- MCReplay
    Request <- MCRequests
    Option = {yes, no}
    Program = {p1}
    Question = {k1}
    Clock <- MCClock
    MaxReplay = 2
    Retention = 2
    MaxAdmissions = 2
    MaxAnswers = 2
INVARIANTS FileValid ExpiryCommitted OneOccurrence ToldStands AuditComplete
PROPERTY ImplementsContract
