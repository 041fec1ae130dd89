SPECIFICATION Spec
CONSTANTS
    n1 = n1
    n2 = n2
    n3 = n3
    open = open
    tagged = tagged
    p1 = p1
    p2 = p2
    None = None
    Ref = {n1, n2, n3}
    Owner <- MCOwner
    ReplayUntil <- MCReplay
    Request <- MCRequests
    Action = {open}
    Tag = {tagged}
    Program = {p1, p2}
    Polled = {n1}
    Blockable = {p1}
    Clock <- MCClock
    MaxReplay = 3
    MaxAdmissions = 2
    MaxLive = 1
    MaxPerHour = 1
    MaxNotifiers = 2
    Hour = 2
INVARIANTS FileValid ToldStands RateKept SilentOnceOff DecisionWoken
PROPERTIES ImplementsContract
