SPECIFICATION Spec
CONSTANTS
    Call = {c1, c2}
    Key = {k1}
    Typed = {typed}
    FirstUse = {use}
    Reply = {a1}
    None = None
    MaxIssued = 2
INVARIANTS TypeOK NoneStranded WrittenOnce
PROPERTIES AnswerKept ReplyStands CompletedIsRetained SettledLeaves
