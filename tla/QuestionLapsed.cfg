SPECIFICATION Spec
CONSTANTS
    Scope <- MCScope
    Key <- MCKey
    Content <- MCContent
    Asking <- MCAsking
    Option <- MCOption
    Offered <- MCOffered
    Kept = {"always"}
    Refuse = "refuse"
    Typed <- MCTyped
    Effect <- MCEffect
    RuntimeBound <- MCBound
    None = None
    Clock = {0, 1}
    Lifetime = 1
    RefuseFor = 1
    MaxAdmissions = 2
    MaxIssued = 3

PROPERTY LapsedUnanswered
