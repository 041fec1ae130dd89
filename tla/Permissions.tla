------------------------------ MODULE Permissions ------------------------------
(***************************************************************************)
(* Consent between two owners: the Book keeps the questions and answers, the  *)
(* rights service the rules.  Typed permission requests                      *)
(* (go/application/permission.go, go/typed_permission.go) evaluate the rules  *)
(* before they ask; the owner withdraws the requests its rules have settled;  *)
(* delegated responders (go/application/responder.go) answer first-use        *)
(* questions and write a rule afterwards; and the rule of an operator's allow *)
(* is written with its record pinned (go/application_book.go).               *)
(*                                                                         *)
(* The rules change at any moment, also while an edit holds Book.mu, so the   *)
(* edits that consult them take two steps.  The rights service and the        *)
(* runtime that drives it are modelled from the calls they make here.  A      *)
(* policy revision is whether the rules changed since it was read.  Calls     *)
(* refused without a change are stutters; expiry, purposes and the sharing of *)
(* refusals are in QuestionBook, the operator's own right in Pages.          *)
(***************************************************************************)
EXTENDS Integers, FiniteSets

CONSTANTS
    Call,           \* calls of Request in progress, all of one program
    Key,            \* its request keys
    Typed,          \* effects asked for by typed requests
    FirstUse,       \* effects asked for by the runtime's first-use questions
    Reply,          \* calls of responder Answer, all of one program
    None,
    MaxIssued       \* bound on occurrences

ASSUME PermissionsAssumption ==
    /\ Typed \cap FirstUse = {}
    /\ Call \cap {"owner", "operator", "responder"} = {}
    /\ MaxIssued \in Nat \ {0}

Effect == Typed \cup FirstUse

ID == 1..MaxIssued

(* Consent is needed, or a rule permits or blocks the effect without it.      *)
Verdict == {"open", "decided"}

VARIABLES
    asks,       \* the retained records, by occurrence
    named,      \* what each typed request key is admitted for
    issued,     \* how many occurrences there were
    mu,         \* who holds Book.mu across a look at the rules, and for what
    pin,        \* the record whose rule is being written, as it was read
    verdict,    \* what the rules say of each effect
    due,        \* the rules changed after the owner's last listing
    pass,       \* pending occurrences the owner has listed and not decided
    req,        \* the calls of Request
    resp,       \* the calls of Answer
    told        \* history: the keys that were told an answer

vars == <<asks, named, issued, mu, pin, verdict, due, pass, req, resp, told>>

book == <<asks, named, issued>>
lock == <<mu, pin>>
rules == <<verdict, due>>

Options == {"allow", "refuse"}

(* A record, who answered it, and how often its answer wrote its rule (the     *)
(* rights service keeps a receipt of that under the occurrence's ID).         *)
Record == [effect : Effect, option : Options \cup {None},
           by : {"operator", "responder", None}, written : 0..2]

ASSUME NoneAssumption ==
    /\ None \notin Key /\ None \notin Effect /\ None \notin ID
    /\ None \notin Options \cup {"operator", "responder"}
    /\ None \notin Record
    /\ None \notin [by : Call \cup {"owner", "operator", "responder"}, id : ID]
    /\ None \notin [id : ID, effect : Effect, fresh : BOOLEAN]

Idle == [at |-> "idle", key |-> None, effect |-> None, outcome |-> "open", fresh |-> TRUE]

Quiet == [at |-> "idle", id |-> None, effect |-> None, firstAllow |-> FALSE]

Retained == {i \in ID : asks[i] # None}
Pending == {i \in Retained : asks[i].option = None}
Answered == Retained \ Pending
OfEffect(e) == {i \in Retained : asks[i].effect = e}
TypedPending == {i \in Pending : asks[i].effect \in Typed}

(* The state has its type, and every request key names a retained typed        *)
(* occurrence, so that a typed key is never gone.                             *)
TypeOK ==
    /\ asks \in [ID -> Record \cup {None}]
    /\ issued \in 0..MaxIssued /\ Retained \subseteq 1..issued
    /\ named \in [Key -> ID \cup {None}]
    /\ \A k \in Key : named[k] # None =>
          named[k] \in Retained /\ asks[named[k]].effect \in Typed
    /\ mu \in [by : Call \cup {"owner", "operator", "responder"}, id : ID] \cup {None}
    /\ pin \in [id : ID, effect : Effect, fresh : BOOLEAN] \cup {None}
    /\ verdict \in [Effect -> Verdict]
    /\ due \in BOOLEAN /\ pass \subseteq ID
    /\ req \in [Call -> [at : {"idle", "prepared", "asking", "admitting"},
                         key : Key \cup {None}, effect : Typed \cup {None},
                         outcome : Verdict, fresh : BOOLEAN]]
    /\ resp \in [Reply -> [at : {"idle", "asking", "effect"}, id : ID \cup {None},
                           effect : FirstUse \cup {None}, firstAllow : BOOLEAN]]
    /\ told \subseteq Key

Init ==
    /\ asks = [i \in ID |-> None]
    /\ named = [k \in Key |-> None]
    /\ issued = 0
    /\ mu = None /\ pin = None
    /\ verdict = [e \in Effect |-> "open"]
    /\ due = TRUE /\ pass = {}
    /\ req = [c \in Call |-> Idle]
    /\ resp = [a \in Reply |-> Quiet]
    /\ told = {}

Free == mu = None

-----------------------------------------------------------------------------
(* The rules. *)

(* They commit: every revision read before is another, and the owner has its   *)
(* pending requests to decide again.                                          *)
Commit(e, v) ==
    /\ verdict' = [verdict EXCEPT ![e] = v]
    /\ due' = TRUE
    /\ req' = [c \in Call |-> IF req[c].outcome = "decided" \/ req[c].at = "idle" THEN req[c]
                              ELSE [req[c] EXCEPT !.fresh = FALSE]]

Overtaken == pin' = IF pin = None THEN None ELSE [pin EXCEPT !.fresh = FALSE]

ChangeRule(e, v) ==
    /\ verdict[e] # v
    /\ Commit(e, v)
    /\ Overtaken
    /\ UNCHANGED <<book, mu, pass, resp, told>>

(* The answer of an occurrence wrote its rule. *)
Write(i) ==
    asks' = IF i \in Retained THEN [asks EXCEPT ![i].written = @ + 1] ELSE asks

-----------------------------------------------------------------------------
(* Request. *)

End(c) == req' = [req EXCEPT ![c] = Idle]

(* The capability evaluates the whole effect at one revision of the rules.    *)
Prepare(c, k, e) ==
    /\ req[c].at = "idle"
    /\ req' = [req EXCEPT ![c] = [at |-> "prepared", key |-> k, effect |-> e,
                                  outcome |-> verdict[e], fresh |-> TRUE]]
    /\ UNCHANGED <<book, lock, rules, pass, resp, told>>

(* The caller is gone or no longer proven. *)
Abandon(c) ==
    /\ req[c].at \in {"prepared", "asking"}
    /\ End(c)
    /\ UNCHANGED <<book, lock, rules, pass, resp, told>>

(* permissionObservation: an answered occurrence tells its option, and any      *)
(* other reply tells of no answer.                                            *)
Report(k, i) == told' = IF i \in Answered THEN told \cup {k} ELSE told \ {k}

(* The key's own occurrence; a key of another effect is a conflict. *)
ReportNamed(c) ==
    LET k == req[c].key IN
    IF asks[named[k]].effect = req[c].effect THEN Report(k, named[k]) ELSE UNCHANGED told

(* A recorded occurrence is reported whatever the rules say now.  OpenReplays  *)
(* would let them overrule it.                                                *)
OpenReplays(c) == named[req[c].key] # None /\ req[c].outcome = "open"

Replays(c) == named[req[c].key] # None

Replay(c) ==
    /\ req[c].at = "prepared" /\ Free
    /\ \/ /\ Replays(c)
          /\ ReportNamed(c)
          /\ End(c)
       \/ /\ ~Replays(c) /\ req[c].outcome # "open"
          /\ told' = told \ {req[c].key}
          /\ End(c)
       \/ /\ ~Replays(c) /\ req[c].outcome = "open"
          /\ req' = [req EXCEPT ![c].at = "asking"]
          /\ UNCHANGED told
    /\ UNCHANGED <<book, lock, rules, pass, resp>>

(* The edit holds the lock and rechecks the evaluated revision.  RecheckNever  *)
(* would trust the evaluation.                                                *)
RecheckNever(c) == TRUE

Recheck(c) == req[c].fresh

LockAsk(c) ==
    /\ req[c].at = "asking" /\ Free
    /\ IF Recheck(c)
       THEN /\ req' = [req EXCEPT ![c].at = "admitting"]
            /\ mu' = [by |-> c, id |-> 1]
       ELSE End(c) /\ UNCHANGED mu
    /\ UNCHANGED <<book, pin, rules, pass, resp, told>>

New(e) ==
    /\ issued < MaxIssued
    /\ issued' = issued + 1
    /\ asks' = [asks EXCEPT ![issued + 1] =
                   [effect |-> e, option |-> None, by |-> None, written |-> 0]]

(* A new key shares the pending occurrence of its effect, and a refused one    *)
(* while the refusal is recent.                                               *)
Shareable(e) ==
    {i \in OfEffect(e) : asks[i].option \in {None, "refuse"}
                         /\ \A j \in OfEffect(e) : j < i => j \notin Pending}

(* The occurrence an edit finds for a call: of its key, which another call may *)
(* have admitted by now, or one to share.                                     *)
Found(c) == IF Replays(c) THEN {named[req[c].key]} ELSE Shareable(req[c].effect)

MustFind(c) == Replays(c) \/ OfEffect(req[c].effect) \cap Pending # {}

Admit(c) ==
    LET k == req[c].key
        e == req[c].effect
    IN  /\ req[c].at = "admitting"
        /\ \/ /\ \E i \in Found(c) :
                    IF asks[i].effect = e
                    THEN named' = [named EXCEPT ![k] = i] /\ Report(k, i)
                    ELSE UNCHANGED <<named, told>>
              /\ UNCHANGED <<asks, issued>>
           \/ /\ ~MustFind(c)
              /\ New(e)
              /\ named' = [named EXCEPT ![k] = issued + 1]
              /\ UNCHANGED told
           \/ /\ ~MustFind(c) /\ issued = MaxIssued
              /\ UNCHANGED <<book, told>>
        /\ End(c)
        /\ mu' = None
        /\ UNCHANGED <<pin, rules, pass, resp>>

Observe(k) ==
    /\ Free /\ named[k] # None
    /\ Report(k, named[k])
    /\ UNCHANGED <<book, lock, rules, pass, req, resp>>

-----------------------------------------------------------------------------
(* The owner's pass over the pending requests. *)

(* PendingTypedPermissions. *)
List ==
    /\ due /\ pass = {} /\ Free
    /\ pass' = TypedPending
    /\ due' = FALSE
    /\ UNCHANGED <<book, lock, verdict, req, resp, told>>

(* WithdrawSettledPermission asks inside the edit, of a pending request only.  *)
(* SettledAsListed would take the listing's word for that.                    *)
SettledAsListed(i) == i \in Retained /\ verdict[asks[i].effect] # "open"

Settled(i) == i \in TypedPending /\ verdict[asks[i].effect] # "open"

LockSettled(i) ==
    /\ i \in pass /\ Free
    /\ IF Settled(i)
       THEN mu' = [by |-> "owner", id |-> i] /\ UNCHANGED pass
       ELSE pass' = pass \ {i} /\ UNCHANGED mu
    /\ UNCHANGED <<book, pin, rules, req, resp, told>>

(* The names left when an occurrence is removed; AllNames are too many.       *)
AllNames(i) == named

NamesWithout(i) == [k \in Key |-> IF named[k] = i THEN None ELSE named[k]]

Withdraw ==
    /\ ~Free /\ mu.by = "owner"
    /\ asks' = [asks EXCEPT ![mu.id] = None]
    /\ named' = NamesWithout(mu.id)
    /\ pass' = pass \ {mu.id}
    /\ mu' = None
    /\ UNCHANGED <<issued, pin, rules, req, resp, told>>

-----------------------------------------------------------------------------
(* The operator, and the rule of an allow. *)

(* AnswerPermissionIfPending and AnswerQuestion. *)
OperatorAnswer(i, option) ==
    /\ Free /\ i \in Pending
    /\ asks' = [asks EXCEPT ![i].option = option, ![i].by = "operator"]
    /\ UNCHANGED <<named, issued, lock, rules, pass, req, resp, told>>

(* RetireQuestion refuses typed requests. *)
Retire(i) ==
    /\ Free /\ i \in Retained /\ asks[i].effect \in FirstUse
    /\ asks' = [asks EXCEPT ![i] = None]
    /\ UNCHANGED <<named, issued, lock, rules, pass, req, resp, told>>

(* The rights service completes an operator's allow that has no receipt.      *)
Completable(i) ==
    /\ i \in Answered /\ asks[i].option = "allow"
    /\ asks[i].by = "operator" /\ asks[i].written = 0

(* WithApplicationRecordContext pins the record while the rule is written.     *)
(* PinUnlocked would only read it.                                            *)
PinUnlocked(i) == UNCHANGED mu

PinLocked(i) == mu' = [by |-> "operator", id |-> i]

Pin(i) ==
    /\ Free /\ pin = None /\ Completable(i)
    /\ PinLocked(i)
    /\ pin' = [id |-> i, effect |-> asks[i].effect, fresh |-> TRUE]
    /\ UNCHANGED <<book, rules, pass, req, resp, told>>

(* At the expected revision, or not at all. *)
Complete ==
    /\ pin # None
    /\ pin' = None /\ mu' = None
    /\ IF pin.fresh
       THEN Commit(pin.effect, "decided") /\ Write(pin.id)
       ELSE UNCHANGED <<verdict, due, req, asks>>
    /\ UNCHANGED <<named, issued, pass, resp, told>>

-----------------------------------------------------------------------------
(* First-use questions and their responders. *)

(* The runtime asks when it refuses a first use; an answered question replays. *)
AskFirstUse(e) ==
    /\ Free /\ verdict[e] = "open" /\ OfEffect(e) = {}
    /\ New(e)
    /\ UNCHANGED <<named, lock, rules, pass, req, resp, told>>

(* An answered question is asked again once its rule was written and is gone,  *)
(* or its refusal is old: ReleaseAnsweredApplicationID.                       *)
Release(i) ==
    /\ Free /\ i \in Answered /\ asks[i].effect \in FirstUse
    /\ verdict[asks[i].effect] = "open"
    /\ asks[i].option = "refuse" \/ asks[i].written > 0
    /\ asks' = [asks EXCEPT ![i] = None]
    /\ UNCHANGED <<named, issued, lock, rules, pass, req, resp, told>>

(* responderReceiver.authorize, inside the edit: the runtime lets a responder   *)
(* answer first-use questions, while its right to answer holds; that right     *)
(* comes and goes, so that any call may be refused.                           *)
MayAnswer(i) == asks[i].effect \in FirstUse

(* What the edit found, for the effect that follows it.  AlwaysPending would    *)
(* forget that the answer was there.                                          *)
AlwaysPending(i) == TRUE

WasPending(i) == i \in Pending

(* A refused answer asks for the right to answer when the edit has let go of   *)
(* the Book.  StillLocked would ask from inside it.                           *)
StillLocked(i) == [by |-> "responder", id |-> i]

Unlocked(i) == None

Answer(a, i, option) ==
    /\ resp[a].at = "idle" /\ Free /\ i \in Retained
    /\ \/ /\ resp' = [resp EXCEPT ![a].at = "asking"]
          /\ mu' = Unlocked(i)
          /\ UNCHANGED asks
       \/ /\ MayAnswer(i) /\ asks[i].option \in {None, option}
          /\ resp' = [resp EXCEPT ![a] =
                         [at |-> "effect", id |-> i, effect |-> asks[i].effect,
                          firstAllow |-> WasPending(i) /\ option = "allow"]]
          /\ asks' = IF i \in Pending
                     THEN [asks EXCEPT ![i].option = option, ![i].by = "responder"]
                     ELSE asks
          /\ UNCHANGED mu
    /\ UNCHANGED <<named, issued, pin, rules, pass, req, told>>

(* The effect of a recorded answer, after the edit.  The rights service writes *)
(* the rule of a first allow, unless the right is gone or a rule conflicts.    *)
WritesRule(a) == resp[a].firstAllow

ApplyEffect(a) ==
    /\ resp[a].at = "effect"
    /\ \/ /\ WritesRule(a)
          /\ Commit(resp[a].effect, "decided")
          /\ Overtaken
          /\ Write(resp[a].id)
       \/ UNCHANGED <<verdict, due, req, pin, asks>>
    /\ resp' = [resp EXCEPT ![a] = Quiet]
    /\ UNCHANGED <<named, issued, mu, pass, told>>

(* RequestAnswering, whose question is admitted like any other, in an edit of  *)
(* its own.                                                                   *)
AskAnswering(a) ==
    /\ resp[a].at = "asking" /\ Free
    /\ resp' = [resp EXCEPT ![a] = Quiet]
    /\ UNCHANGED <<book, lock, rules, pass, req, told>>

-----------------------------------------------------------------------------
(* A new host over the same file: calls and passes are lost. *)
Restart ==
    /\ mu' = None /\ pin' = None
    /\ req' = [c \in Call |-> Idle]
    /\ resp' = [a \in Reply |-> Quiet]
    /\ due' = TRUE /\ pass' = {}
    /\ UNCHANGED <<book, verdict, told>>

Next ==
    \/ \E e \in Effect, v \in Verdict : ChangeRule(e, v)
    \/ \E c \in Call, k \in Key, e \in Typed : Prepare(c, k, e)
    \/ \E c \in Call : Abandon(c) \/ Replay(c) \/ LockAsk(c) \/ Admit(c)
    \/ \E k \in Key : Observe(k)
    \/ List \/ Withdraw \/ Complete \/ Restart
    \/ \E i \in ID : LockSettled(i) \/ Retire(i) \/ Pin(i) \/ Release(i)
    \/ \E i \in ID, option \in Options : OperatorAnswer(i, option)
    \/ \E e \in FirstUse : AskFirstUse(e)
    \/ \E a \in Reply, i \in ID, option \in Options : Answer(a, i, option)
    \/ \E a \in Reply : ApplyEffect(a) \/ AskAnswering(a)

(* Whoever holds the Book lets go of it, and sync.Mutex starves nobody who      *)
(* waits for it, the owner's pass among them.  Nothing makes anybody ask,      *)
(* answer or change a rule.                                                   *)
LetGo == Withdraw \/ Complete \/ \E c \in Call : Admit(c)

Pass == List \/ \E i \in ID : LockSettled(i)

Fairness == WF_vars(LetGo) /\ SF_vars(Pass)

Spec == Init /\ [][Next]_vars /\ Fairness

-----------------------------------------------------------------------------
(* Properties. *)

(* CONTRACT.md ASK-A13: no pending request is left behind by the rules.  One   *)
(* that they have settled is listed, or a listing is due; a request evaluated *)
(* before a change and admitted after the listing would wait for good.        *)
NoneStranded ==
    \A i \in TypedPending :
        verdict[asks[i].effect] # "open" => due \/ i \in pass

(* And it leaves, or is answered, or needs consent again, whoever else uses     *)
(* the Book, unless the host crashes for ever.                                *)
SettledLeaves ==
    <>[][~Restart]_vars => \A i \in ID :
        i \in TypedPending /\ verdict[asks[i].effect] # "open"
            ~> i \notin TypedPending \/ verdict[asks[i].effect] = "open"

(* CONTRACT.md ASK-A13: an answer to a typed request stays as it was given,    *)
(* whatever the owner's pass had listed and whatever the rules say since.     *)
AnswerKept ==
    [][\A i \in Answered : asks[i].effect \in Typed =>
          asks'[i] # None /\ asks'[i].option = asks[i].option]_vars

(* CONTRACT.md ASK-A11: a key that was told an answer is told it by every later *)
(* call, whatever the rules say by then and across a restart.                 *)
ReplyStands == [][told \subseteq told']_vars

(* CONTRACT.md ASK-R4 and ASK-O10: an answer writes its effect's rule once at   *)
(* most, and only an allow does: no replay writes it again, no second answer,  *)
(* no completion after a responder's effect.                                  *)
WrittenOnce ==
    \A i \in Retained :
        asks[i].written <= IF asks[i].option = "allow" THEN 1 ELSE 0

(* CONTRACT.md ASK-O10: the rule of an operator's allow is written while that   *)
(* answer is retained: a retirement comes before the rule or after it.        *)
CompletedIsRetained ==
    [][pin # None /\ pin' = None /\ verdict' # verdict =>
          /\ pin.id \in Answered
          /\ asks[pin.id].option = "allow" /\ asks'[pin.id].written = 1]_vars

=============================================================================
