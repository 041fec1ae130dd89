---------------------------- MODULE QuestionBook ----------------------------
(***************************************************************************)
(* The question partition of the application-profile Book: catalogue        *)
(* questions (go/application_book.go, go/operator_book.go, go/questions.go) *)
(* and typed permission requests (go/typed_permission.go), with the expiry  *)
(* every edit begins with (go/expiry.go).                                   *)
(*                                                                         *)
(* Book.mu and the file's compare-and-swap make each call one edit, and a   *)
(* restart finds the file as the last edit left it.  Questions expire by    *)
(* the wall clock alone, with no durable floor as choices have, so every    *)
(* reading of it is any member of Clock.  An edit that returns an error     *)
(* writes nothing, the expiry it began with included; those calls are       *)
(* stutters.  The answer audit is in ChoiceBook, the wakeups in Waiters.    *)
(***************************************************************************)
EXTENDS Integers, FiniteSets

CONSTANTS
    Scope,          \* requester scopes
    Key,            \* request keys
    Content,        \* what is asked: the fingerprint of a request
    Asking,         \* the requests made: [scope, key, content]
    Option,         \* option names
    Offered,        \* the options of each content
    Kept,           \* options whose answer is kept
    Refuse,         \* the typed permission's refuse option
    Typed,          \* contents that are typed permission requests
    Effect,         \* their effect digest: contents may differ in purpose only
    RuntimeBound,   \* catalogue contents bound to the runtime that asked them
    None,           \* no option, content or question
    Clock,          \* the readings of the wall clock
    Lifetime,       \* pendingLifetime
    RefuseFor,      \* how long a typed refusal stands
    MaxAdmissions,  \* MaxApplicationAdmissions
    MaxIssued       \* bound: how many occurrences a behaviour has

ASSUME RequestAssumption ==
    /\ Asking \subseteq [scope : Scope, key : Key, content : Content]
    /\ Offered \in [Content -> SUBSET Option]
    /\ Typed \subseteq Content
    /\ RuntimeBound \subseteq Content \ Typed
    /\ \A c \in Typed : Offered[c] \cap Kept = {}     \* allow or refuse, once

ASSUME NoneAssumption ==
    None \notin Option /\ None \notin Content

ASSUME OptionAssumption ==      \* the statuses of QuestionContract that are not answers
    Option \cap {"unasked", "open", "dismissed", "dropped"} = {}

ASSUME ClockAssumption ==
    Clock \subseteq Int /\ Lifetime \in Int /\ RefuseFor \in Int

ASSUME BoundAssumption == MaxAdmissions \in Nat /\ MaxIssued \in Nat

VARIABLES
    file,       \* the durable file: asks by occurrence, and admissions
    issued,     \* how many occurrences were given an id (random in the code)
    shown,      \* history: the answers Observe reported, by occurrence
    lapsed,     \* history: pending questions that a call took to be expired
    blind       \* history: what the last edit released, if it named no occurrence

vars == <<file, issued, shown, lapsed, blind>>

-----------------------------------------------------------------------------
(* The durable state. *)

ID == 1 .. MaxIssued

(* A Record, in the order asked; its text and attributions are left out. *)
Record == [content : Content, asked : Int, option : Option \cup {None}, at : Int]

ASSUME UnsetAssumption == None \notin Record

(* An applicationAdmission: what a scope's key names. *)
Admission == [scope : Scope, key : Key, content : Content, id : ID]

Retained(f) == {i \in ID : f.asks[i] # None}

Pending(f) == {i \in Retained(f) : f.asks[i].option = None}

Answered(f) == Retained(f) \ Pending(f)

PendingBound(f) == {i \in Pending(f) : f.asks[i].content \in RuntimeBound}

(* Pending, or answered for good. *)
Standing(f) == Pending(f) \cup {i \in Answered(f) : f.asks[i].option \in Kept}

Named(f, s, k) == {n \in f.admissions : n.scope = s /\ n.key = k}

(* The record goes and the admissions naming it stay: their keys are gone. *)
Buried(f, S) == [f EXCEPT !.asks = [i \in ID |-> IF i \in S THEN None ELSE @[i]]]

(* The record goes with every admission naming it: their keys ask again. *)
Without(f, S) ==
    [Buried(f, S) EXCEPT !.admissions = {n \in @ : n.id \notin S}]

-----------------------------------------------------------------------------
(* Expiry. *)

Due(f, now) == {i \in Pending(f) : now - f.asks[i].asked >= Lifetime}

Expire(f, now) == Without(f, Due(f, now))

(* changeApplication: the files an edit may start from. *)
Openings == {Expire(file, now) : now \in Clock}

(* readApplication: what a read may see; it writes nothing. *)
Views == Openings

Write(f) == file' = f /\ lapsed' = lapsed \cap Pending(f) /\ UNCHANGED <<issued, shown>>

Commit(f) == Write(f) /\ blind' = {}

-----------------------------------------------------------------------------
(* Asking. *)

(* Ask and Request replay an admitted key: the edit adds nothing, and is     *)
(* written with its expiry.  So is a key of other content (conflict) or of   *)
(* a dismissed question (gone).                                             *)
Replay(f, q) ==
    /\ Named(f, q.scope, q.key) # {}
    /\ Commit(f)

(* The pending or kept question that the scope already asks in the same      *)
(* words.  SameScope would not compare the words, SamePending would overlook *)
(* the kept answers.                                                        *)
SameScope(f, q) ==
    {n.id : n \in {m \in f.admissions : m.scope = q.scope /\ m.id \in Standing(f)}}

SamePending(f, q) ==
    {n.id : n \in {m \in f.admissions :
        m.scope = q.scope /\ m.content = q.content /\ m.id \in Pending(f)}}

SameWords(f, q) ==
    {n.id : n \in {m \in f.admissions :
        m.scope = q.scope /\ m.content = q.content /\ m.id \in Standing(f)}}

(* The retained requests for the same effect, whatever their scope and       *)
(* purpose.  SamePurpose would compare the whole content.                    *)
SamePurpose(f, q) == {i \in Retained(f) : f.asks[i].content = q.content}

SameEffect(f, q) ==
    {i \in Retained(f) : f.asks[i].content \in Typed
                         /\ Effect[f.asks[i].content] = Effect[q.content]}

(* A refusal still stands at the reading `now`. *)
Stands(f, i, now) == f.asks[i].option = Refuse /\ now < f.asks[i].at + RefuseFor

(* Each retained request is asked about in turn, so each reads the clock. *)
Shareable(f, i) == i \in Pending(f) \/ \E now \in Clock : Stands(f, i, now)
PassedOver(f, i) == i \notin Pending(f) /\ \E now \in Clock : ~Stands(f, i, now)

(* Which question a new key may share. *)
Sharing(f, q) ==
    IF q.content \in Typed
    THEN {i \in SameEffect(f, q) :
             /\ Shareable(f, i)
             /\ \A j \in SameEffect(f, q) : j < i => PassedOver(f, j)}
    ELSE SameWords(f, q)

MustShare(f, q) ==
    IF q.content \in Typed
    THEN \E i \in SameEffect(f, q) : ~PassedOver(f, i)
    ELSE SameWords(f, q) # {}

Admitted(f, q, i) ==
    [f EXCEPT !.admissions = @ \cup {[scope |-> q.scope, key |-> q.key,
                                      content |-> q.content, id |-> i]}]

(* A key is admitted while there is room for it.  RoomForOne is one off. *)
RoomForOne(f) == Cardinality(f.admissions) <= MaxAdmissions

HasRoom(f) == Cardinality(f.admissions) < MaxAdmissions

Share(f, q) ==
    /\ Named(f, q.scope, q.key) = {} /\ HasRoom(f)
    /\ \E i \in Sharing(f, q) : Commit(Admitted(f, q, i))

AskNew(f, q) ==
    /\ Named(f, q.scope, q.key) = {} /\ HasRoom(f)
    /\ ~MustShare(f, q)
    /\ Cardinality(Retained(f)) < MaxAdmissions
    /\ issued < MaxIssued
    /\ issued' = issued + 1
    /\ \E now \in Clock :
          file' = Admitted([f EXCEPT !.asks[issued + 1] =
                          [content |-> q.content, asked |-> now, option |-> None, at |-> 0]],
                       q, issued + 1)
    /\ lapsed' = lapsed \cap Pending(f)
    /\ blind' = {}
    /\ UNCHANGED shown

(* askApplicationFrom and askTypedPermission. *)
Ask(q) == \E f \in Openings : Replay(f, q) \/ Share(f, q) \/ AskNew(f, q)

-----------------------------------------------------------------------------
(* Answering and removal. *)

(* answerApplication, for the operator, the native permission operator and a *)
(* responder: whoever is first.  Only a pending question takes an answer; a  *)
(* repeat reports the record and a different answer conflicts, both without  *)
(* an edit.  MayAnswerAny would record over it.                              *)
MayAnswerAny(f, i) == i \in Retained(f)

MayAnswer(f, i) == i \in Pending(f)

Answer(i, option) ==
    \E f \in Openings, now \in Clock :
        /\ MayAnswer(f, i)
        /\ option \in Offered[f.asks[i].content]
        /\ Commit([f EXCEPT !.asks[i].option = option, !.asks[i].at = now])

(* RetireQuestion refuses a typed request that it reads, before the edit;    *)
(* one that this read finds expired passes.                                 *)
PassesTypedCheck(i) ==
    \E f \in Views : i \in Retained(f) => f.asks[i].content \notin Typed

(* RetireApplicationAuthorized. *)

Retire(i) ==
    /\ PassesTypedCheck(i)
    /\ \E f \in Openings : i \in Retained(f) /\ Commit(Buried(f, {i}))

(* Forget checks the record it removes. *)
Forget(i) ==
    \E f \in Openings :
        /\ i \in Retained(f) /\ f.asks[i].content \notin Typed
        /\ Commit(Buried(f, {i}))

(* ReleaseAnsweredApplicationID with an occurrence: the runtime names the     *)
(* key, the occurrence and the option that Observe gave it.  IsAnyAnswer       *)
(* would not compare the occurrence.                                          *)
IsAnyAnswer(n, i) == TRUE

IsExpected(n, i) == n.id = i

Releasable(f, n, option) == n.id \in Answered(f) /\ f.asks[n.id].option = option

Release(i, option) ==
    /\ option \in shown[i]
    /\ \E f \in Openings : \E n \in f.admissions :
          /\ IsExpected(n, i)
          /\ Releasable(f, n, option)
          /\ Commit(Without(f, {n.id}))

(* ReleaseAnsweredApplication, of the library: no occurrence is named, so     *)
(* none is compared, and nobody need have been shown the answer it takes.     *)
ReleaseKey(s, k, option) ==
    \E f \in Openings : \E n \in Named(f, s, k) :
        /\ Releasable(f, n, option)
        /\ Write(Without(f, {n.id}))
        /\ blind' = {n.id}

(* WithdrawSettledPermission: the permission owner already decided. *)
WithdrawSettled(i) ==
    \E f \in Openings :
        /\ i \in Pending(f) /\ f.asks[i].content \in Typed
        /\ Commit(Without(f, {i}))

(* WithdrawRuntimeBound: a runtime starts, and nobody can honour what its    *)
(* predecessor asked.  An edit that finds nothing to withdraw is not         *)
(* written, and neither is the expiry that left it nothing.                  *)
WithdrawRuntimeBound ==
    \E f \in Openings :
        \/ /\ PendingBound(f) # {}
           /\ Commit(Buried(f, PendingBound(f)))
        \/ /\ PendingBound(f) = {}
           /\ lapsed' = lapsed \cup PendingBound(file)
           /\ blind' = {}
           /\ UNCHANGED <<file, issued, shown>>

-----------------------------------------------------------------------------
(* Observing. *)

(* What ObserveApplication reports under the name n. *)
Reported(f, n) ==
    IF n.id \in Answered(f) THEN {f.asks[n.id].option} ELSE {}

(* A question that the key named reads as unknown once it expired. *)
Observe(s, k) ==
    \E f \in Views :
        /\ shown' = [i \in ID |-> shown[i] \cup
                        UNION {Reported(f, n) : n \in {m \in Named(f, s, k) : m.id = i}}]
        /\ lapsed' = lapsed \cup {n.id : n \in Named(file, s, k) \ Named(f, s, k)}
        /\ blind' = {}
        /\ UNCHANGED <<file, issued>>

-----------------------------------------------------------------------------
(* The Book. *)

Init ==
    /\ file = [asks |-> [i \in ID |-> None], admissions |-> {}]
    /\ issued = 0
    /\ shown = [i \in ID |-> {}]
    /\ lapsed = {}
    /\ blind = {}

Next ==
    \/ \E q \in Asking : Ask(q)
    \/ \E i \in ID :
          \/ \E option \in Option : Answer(i, option) \/ Release(i, option)
          \/ Retire(i)
          \/ Forget(i)
          \/ WithdrawSettled(i)
    \/ WithdrawRuntimeBound
    \/ \E s \in Scope, k \in Key : Observe(s, k) \/ \E option \in Option : ReleaseKey(s, k, option)

Spec == Init /\ [][Next]_vars

-----------------------------------------------------------------------------
(* Properties. *)

(* The file, the counter and the histories have the types of their fields.   *)
TypeOK ==
    /\ file.asks \in [ID -> Record \cup {None}]
    /\ file.admissions \subseteq Admission
    /\ issued \in 0 .. MaxIssued
    /\ shown \in [ID -> SUBSET Option]
    /\ lapsed \subseteq ID
    /\ blind \subseteq ID

(* decodeApplication refuses the whole file, with every partition of it,     *)
(* when a key is admitted twice, an answer is not one its question offers,   *)
(* or a partition is over its capacity; and no edit checks the question      *)
(* partition before it writes.  Every edit leaves a file that reads back.    *)
Readable ==
    /\ TypeOK
    /\ \A m, n \in file.admissions : m.scope = n.scope /\ m.key = n.key => m = n
    /\ \A i \in Answered(file) : file.asks[i].option \in Offered[file.asks[i].content]
    /\ Cardinality(file.admissions) <= MaxAdmissions
    /\ Cardinality(Retained(file)) <= MaxAdmissions

(* A person is asked once: a scope has at most one pending or kept question  *)
(* in the same words, and an effect at most one pending request, whatever    *)
(* scopes, keys and purposes the requesters used.                           *)
AskedOnce ==
    /\ \A m, n \in file.admissions :
          /\ m.scope = n.scope /\ m.content = n.content
          /\ \A x \in {m, n} : x.id \in Standing(file)
          => m.id = n.id
    /\ \A i, j \in Pending(file) :
          /\ file.asks[i].content \in Typed /\ file.asks[j].content \in Typed
          /\ Effect[file.asks[i].content] = Effect[file.asks[j].content]
          => i = j

(* The answer a key reads was given to what that key asked: the same words,  *)
(* or the same permission effect.                                           *)
AnswersWhatWasAsked ==
    \A n \in file.admissions :
        n.id \in Retained(file) =>
            LET c == file.asks[n.id].content IN
            \/ c = n.content
            \/ {c, n.content} \subseteq Typed /\ Effect[c] = Effect[n.content]

(* A release that names an occurrence never takes an answer nobody acted on:  *)
(* an answered question is removed with its names only after that very answer *)
(* was observed, or by a release that named a key alone.                      *)
ReleaseIsCurrent ==
    [][\A i \in Answered(file) :
          i \notin Retained(file') /\ (\A n \in file'.admissions : n.id # i)
          => file.asks[i].option \in shown[i] \/ i \in blind']_vars

(* CONTRACT.md ASK-A7: a question that a call took to be expired is no longer *)
(* retained, so it is never answered afterwards, nor, if it is bound to the  *)
(* runtime that asked it, after a restart (ObserveApplication and             *)
(* WithdrawRuntimeBound over readApplication and changeApplication).         *)
LapsedUnanswered ==
    [][\A i \in lapsed : i \notin Pending(file) \/ i \notin Answered(file')]_vars

(* The contract: what each name stands for and how each occurrence ends.     *)
Status(i) ==
    IF i > issued THEN "unasked"
    ELSE IF i \in Pending(file) THEN "open"
    ELSE IF i \in Answered(file) THEN file.asks[i].option
    ELSE IF \E n \in file.admissions : n.id = i THEN "dismissed"
    ELSE "dropped"

Contract ==
    INSTANCE QuestionContract
        WITH Name   <- Scope \X Key,
             named  <- {[name |-> <<n.scope, n.key>>, id |-> n.id] : n \in file.admissions},
             status <- [i \in ID |-> Status(i)]

(* The Book implements its contract: the first answer of an occurrence       *)
(* stands, a dismissed name is never asked again, and only an expired,       *)
(* withdrawn or released occurrence frees its names, all of them at once.   *)
ImplementsContract == Contract!Spec

=============================================================================
