----------------------------- MODULE ChoiceBook -----------------------------
(***************************************************************************)
(* The ordinary-choice partition of the application-profile Book           *)
(* (go/choice_book.go, go/shared_choice_book.go) and the answer audit it    *)
(* shares with catalogue questions, over the file that                     *)
(* Book.changeApplication edits (go/application_book.go).                   *)
(*                                                                         *)
(* The file is the only state the partition keeps: Book.mu serialises the  *)
(* calls, every call is one atomic file edit, and a crash or a restart      *)
(* between two calls leaves the file as it was.  The wall clock is not      *)
(* state: a reading is any member of Clock, at every read, because the      *)
(* service's clock may be stepped either way.  One call reads it more than  *)
(* once, so each action takes one reading for the collection that opens     *)
(* the edit and another for the edit itself.                                *)
(***************************************************************************)
EXTENDS Integers, FiniteSets

CONSTANTS
    Ref,            \* requester scope and RequestRef of an occurrence
    ReplayUntil,    \* RequestRef.ReplayUntilMs
    Request,        \* requests: [ref, pendingUntil, options, shared]
    Option,         \* option IDs
    Program,        \* programs that may decide
    Question,       \* catalogue questions whose answers join the audit
    None,           \* no request, answer, option or route
    Clock,          \* the readings of the wall clock
    MaxReplay,      \* MaxChoiceReplayMilliseconds
    Retention,      \* DelegatedRetentionMilliseconds
    MaxAdmissions,  \* MaxOrdinaryAdmissions
    MaxAnswers      \* MaxDelegatedAnswers

(* ValidChoiceReference: a deadline is a positive time. *)
ASSUME ReferenceAssumption ==
    ReplayUntil \in [Ref -> Int] /\ \A r \in Ref : 0 < ReplayUntil[r]

(* ValidChoiceRequest: the shape a request has before the clock is read. *)
ASSUME RequestAssumption ==
    \A q \in Request :
        /\ q.ref \in Ref
        /\ q.pendingUntil \in Int
        /\ 0 < q.pendingUntil
        /\ q.pendingUntil <= ReplayUntil[q.ref]
        /\ q.options \subseteq Option
        /\ q.shared \subseteq q.options

ASSUME NoneAssumption ==
    None \notin Request /\ None \notin Option /\ None \notin Program

ASSUME ClockAssumption == Clock \subseteq Int

ASSUME BoundAssumption ==
    MaxReplay \in Int /\ Retention \in Int /\ MaxAdmissions \in Nat /\ MaxAnswers \in Nat

VARIABLES
    file,       \* the durable file: choices, ChoiceTimeMs, answers, AnswersSinceMs
    admitted,   \* history: how many occurrences each reference was given
    told,       \* history: the terminal outcomes and lapses reported for each reference
    recorded,   \* history: every audit entry ever appended
    horizon     \* history: the latest time a durable edit collected at

vars == <<file, admitted, told, recorded, horizon>>

-----------------------------------------------------------------------------
(* The durable state. *)

Routes == {"requester", "operator", "responder"}

Decided == {"answered", "dismissed"}

Answers == [option : Option \cup {None}, at : Int, by : Program]

ASSUME UnsetAssumption == None \notin Answers /\ None \notin Routes

(* A choiceAdmission.  A tombstone ("gone") keeps the fingerprint of its     *)
(* request and the hash of its answer, modelled by the values themselves.   *)
Admission ==
    [state  : {"absent", "pending", "answered", "dismissed", "expired", "gone"},
     id     : Nat,
     req    : Request \cup {None},
     asked  : Int,
     answer : Answers \cup {None},
     route  : Routes \cup {None}]

Absent == [state |-> "absent", id |-> 0, req |-> None, asked |-> 0,
           answer |-> None, route |-> None]

AnswerID == (Ref \X Nat) \cup (Question \X {0})

AuditEntry == [id : AnswerID, at : Int]

Outcome == [is : {"expired", "gone", "answered", "dismissed"}, answer : Answers \cup {None}]

Expired == [is |-> "expired", answer |-> None]
Gone    == [is |-> "gone", answer |-> None]

(* An "expired" reported of a request that was never admitted. *)
Lapse == [is : {"lapsed"}, req : Request]

Lapsed(q) == [is |-> "lapsed", req |-> q]

Report == Outcome \cup Lapse

Later(s, t) == IF s >= t THEN s ELSE t

-----------------------------------------------------------------------------
(* Service time and collection. *)

(* choiceTime: effective time is the clock's, or the durable floor's if that *)
(* is later.  RawReadings would trust the clock alone.                       *)
RawReadings(f) == Clock

Readings(f) == {Later(c, f.floor) : c \in Clock}

(* noteChoiceTime.  NotedNever would report without committing. *)
NotedNever(f, now) == f

Noted(f, now) == [f EXCEPT !.floor = Later(now, @)]

(* collectAnswers: entries past their retention go, and an eviction time     *)
(* past it says nothing more.                                               *)
CollectAnswers(f, now) ==
    [f EXCEPT !.answers = {d \in @ : now - d.at < Retention},
              !.since = IF now - @ >= Retention THEN 0 ELSE @]

(* collectChoices: what `now` leaves of one admission, and of the file. *)
Aged(r, a, now) ==
    IF now >= ReplayUntil[r] THEN Absent
    ELSE IF a.state = "pending" /\ now >= a.req.pendingUntil
         THEN [a EXCEPT !.state = "expired"]
         ELSE a

Collected(f, now) ==
    CollectAnswers([f EXCEPT !.choices = [r \in Ref |-> Aged(r, @[r], now)]], now)

(* The prologue of changeApplication: collect at `now`, and keep that time   *)
(* if it settled an occurrence or if no time was kept before.  `other` says  *)
(* that it settled a notification, whose partition shares the floor.         *)
(* OpenedUnkept is what would be left were that time not kept.              *)
OpenedUnkept(f, now, other) == Collected(f, now)

Opened(f, now, other) ==
    LET g == Collected(f, now) IN
    IF f.floor = 0 \/ other \/ g.choices # f.choices THEN Noted(g, now) ELSE g

(* The files an edit may start from, each with the time it collected at. *)
Openings(f) ==
    {[book |-> Opened(f, now, other), at |-> now] : now \in Readings(f), other \in BOOLEAN}

(* readApplication: an in-memory collection at the durable floor. *)
AtFloor(f) == Collected(f, f.floor)

(* readChoices: a read that finds something to settle commits it first. *)
AfterRead(f) ==
    {[book |-> f, at |-> horizon] :
        now \in {t \in Readings(f) : t > 0 /\ Collected(AtFloor(f), t).choices = AtFloor(f).choices}}
    \cup
    {[book |-> Noted(e.book, now), at |-> e.at] :
        e \in Openings(f), now \in {t \in Readings(f) : t > 0}}

(* choiceObservation, kept when it is terminal. *)
Terminal(a) ==
    CASE a.state \in Decided -> {[is |-> a.state, answer |-> a.answer]}
      [] a.state = "expired" -> {Expired}
      [] a.state = "gone"    -> {Gone}
      [] OTHER               -> {}

(* What a read of r reports at the durable time: the committed state. *)
View(f, r) == AtFloor(f).choices[r]

(* recordAnswer: append d at the floor and evict the oldest entries E, at    *)
(* least down to the entry bound; the byte bound may ask for more.           *)
Evictions(A) ==
    {E \in SUBSET A : /\ Cardinality(A) + 1 - Cardinality(E) <= MaxAnswers
                      /\ \A x \in E, y \in A \ E : x.at <= y.at}

Watermarks(f, E) ==
    LET T == {f.since} \cup {x.at : x \in E} IN {s \in T : \A t \in T : t <= s}

(* AuditedSilently would evict without recording the eviction time. *)
AuditedSilently(f, d) ==
    IF \E x \in f.answers : x.id = d.id THEN {f}
    ELSE {[f EXCEPT !.answers = (@ \ E) \cup {d}] : E \in Evictions(f.answers)}

Audited(f, d) ==
    IF \E x \in f.answers : x.id = d.id THEN {f}
    ELSE UNION {{[f EXCEPT !.answers = (@ \ E) \cup {d}, !.since = s] : s \in Watermarks(f, E)} :
                   E \in Evictions(f.answers)}

-----------------------------------------------------------------------------
(* The operations.  A refusal by authorize, by capacity, by validation or by *)
(* the storage makes the edit fail: the file is not replaced and the caller  *)
(* is told nothing about the occurrence, which is a stuttering step.         *)

Init ==
    /\ file = [choices |-> [r \in Ref |-> Absent], floor |-> 0, answers |-> {}, since |-> 0]
    /\ admitted = [r \in Ref |-> 0]
    /\ told = [r \in Ref |-> {}]
    /\ recorded = {}
    /\ horizon = 0

(* The edit e commits g, and its caller is told o about r. *)
Commit(e, g) ==
    /\ file' = g
    /\ horizon' = Later(horizon, e.at)

Tell(r, o) == told' = [told EXCEPT ![r] = @ \cup o]

(* AskChoiceFrom, AskChoiceAs: the edit that opens with e, at its own reading *)
(* of the clock.                                                             *)
AskAt(q, e, now) ==
    LET f == e.book
        r == q.ref
        a == f.choices[r]
    IN
    /\ now > 0
    /\ UNCHANGED recorded
    /\ \/ /\ now >= ReplayUntil[r]
          /\ Commit(e, Noted(f, now))
          /\ Tell(r, {Expired})
          /\ UNCHANGED admitted
       \/ /\ now < ReplayUntil[r]
          /\ a # Absent
          /\ Commit(e, f)
          /\ Tell(r, IF a.req = q THEN Terminal(a) ELSE {})   \* else conflict
          /\ UNCHANGED admitted
       \/ /\ now < ReplayUntil[r]
          /\ a = Absent
          /\ now >= q.pendingUntil
          /\ Commit(e, Noted(f, now))
          /\ Tell(r, {Lapsed(q)})                              \* expired, not admitted
          /\ UNCHANGED admitted
       \/ /\ a = Absent
          /\ now < q.pendingUntil
          /\ ReplayUntil[r] - now > MaxReplay
          /\ Commit(e, f)                                      \* invalid
          /\ UNCHANGED <<told, admitted>>
       \/ /\ a = Absent
          /\ now < q.pendingUntil
          /\ ReplayUntil[r] - now <= MaxReplay
          /\ Cardinality({x \in Ref : f.choices[x] # Absent}) < MaxAdmissions
          /\ Commit(e, Noted([f EXCEPT !.choices[r] =
                           [state |-> "pending", id |-> admitted[r] + 1, req |-> q,
                            asked |-> now, answer |-> None, route |-> None]], now))
          /\ admitted' = [admitted EXCEPT ![r] = @ + 1]
          /\ UNCHANGED told

AskChoice(q) == \E e \in Openings(file) : \E now \in Readings(e.book) : AskAt(q, e, now)

(* The deadline of an occurrence has passed for a call made at `now`;        *)
(* PastPendingLate would decide at the deadline itself.                      *)
PastPendingLate(a, now) ==
    a.state = "expired" \/ (a.state = "pending" /\ now > a.req.pendingUntil)

PastPending(a, now) ==
    a.state = "expired" \/ (a.state = "pending" /\ now >= a.req.pendingUntil)

(* The recorded decision of a is the one the caller repeats. *)
Repeats(a, route, option, by, ifPending) ==
    /\ a.answer.option = option
    /\ IF route = "responder" THEN a.route = "responder" /\ a.answer.by = by ELSE ~ifPending

(* decideChoiceAuthorized and AnswerSharedChoice.  The requester addresses   *)
(* its own reference, the others the occurrence ID n they were shown.        *)
(* option = None is a dismissal.                                             *)
DecideAt(route, r, n, option, by, ifPending, e, now) ==
    LET f == e.book
        a == f.choices[r]
        found == a # Absent /\ (route = "requester" \/ a.id = n)
        live == found /\ now < ReplayUntil[r]
        d == [option |-> option, at |-> now, by |-> by]
        g == Noted([f EXCEPT !.choices[r] =
                      [@ EXCEPT !.state = IF option = None THEN "dismissed" ELSE "answered",
                                !.answer = d, !.route = route]], now)
        entry == [id |-> <<r, a.id>>, at |-> now]
    IN
    /\ now > 0
    /\ UNCHANGED admitted
    /\ \/ /\ ~found                                            \* unknown
          /\ route = "requester" => now < ReplayUntil[r]
          /\ Commit(e, f)
          /\ UNCHANGED <<told, recorded>>
       \/ /\ found \/ route = "requester"
          /\ now >= ReplayUntil[r]
          /\ Commit(e, Noted(f, now))
          /\ Tell(r, {Expired})
          /\ UNCHANGED recorded
       \/ /\ live
          /\ a.state = "gone"
          /\ Commit(e, f)
          /\ Tell(r, {Gone})
          /\ UNCHANGED recorded
       \/ /\ live
          /\ PastPending(a, now)
          /\ Commit(e, Noted([f EXCEPT !.choices[r] = [@ EXCEPT !.state = "expired"]], now))
          /\ Tell(r, {Expired})
          /\ UNCHANGED recorded
       \/ /\ live
          /\ \/ a.state \in Decided
             \/ a.state = "pending" /\ ~PastPending(a, now) /\ option \notin a.req.options \cup {None}
          /\ route = "responder" => option \in a.req.shared
          /\ Commit(e, f)
          /\ Tell(r, IF a.state \in Decided /\ Repeats(a, route, option, by, ifPending)
                     THEN Terminal(a) ELSE {})                  \* else conflict or invalid
          /\ UNCHANGED recorded
       \/ /\ live
          /\ a.state = "pending"
          /\ ~PastPending(a, now)
          /\ option \in IF route = "responder" THEN a.req.shared ELSE a.req.options \cup {None}
          /\ Tell(r, Terminal(g.choices[r]))
          /\ IF route = "requester" \/ option = None
             THEN Commit(e, g) /\ UNCHANGED recorded
             ELSE /\ \E h \in Audited(g, entry) : Commit(e, h)
                  /\ recorded' = recorded \cup {entry}

Decide(route, r, n, option, by, ifPending) ==
    \E e \in Openings(file) : \E now \in Readings(e.book) :
        DecideAt(route, r, n, option, by, ifPending, e, now)

DecideOwn(r, option, by, ifPending) == Decide("requester", r, 0, option, by, ifPending)

DecideListed(r, n, option, by, ifPending) == Decide("operator", r, n, option, by, ifPending)

AnswerShared(r, n, option, by) == Decide("responder", r, n, option, by, TRUE)

(* AcknowledgeChoice: an exact answer leaves a tombstone. *)
AcknowledgeAt(r, e, now) ==
    LET f == e.book
        a == f.choices[r]
    IN
    /\ now > 0
    /\ UNCHANGED <<admitted, recorded>>
    /\ \/ /\ now >= ReplayUntil[r]
          /\ Commit(e, Noted(f, now))
          /\ Tell(r, {Expired})
       \/ /\ now < ReplayUntil[r]                     \* unknown, conflict or a replay
          /\ Commit(e, f)
          /\ UNCHANGED told
       \/ /\ now < ReplayUntil[r]
          /\ a.state \in Decided
          /\ Commit(e, Noted([f EXCEPT !.choices[r] =
                           [@ EXCEPT !.state = "gone", !.asked = 0, !.route = None]], now))
          /\ UNCHANGED told

AcknowledgeChoice(r) ==
    \E e \in Openings(file) : \E now \in Readings(e.book) : AcknowledgeAt(r, e, now)

(* ObserveChoice: readChoices, then a second reading for the replay deadline. *)
ObserveChoice(r) ==
    \E p \in AfterRead(file) : \E now \in Readings(p.book) :
        /\ UNCHANGED <<admitted, recorded>>
        /\ \/ /\ now >= ReplayUntil[r]
              /\ Tell(r, {Expired})
              /\ IF now > p.book.floor
                 THEN \E e \in Openings(p.book) : Commit([e EXCEPT !.at = Later(@, p.at)], Noted(e.book, now))
                 ELSE Commit(p, p.book)
           \/ /\ now < ReplayUntil[r]
              /\ Commit(p, p.book)
              /\ Tell(r, Terminal(View(p.book, r)))

(* ChoiceHistory and the reads built on it: every retained record is shown. *)
ChoiceHistory ==
    \E p \in AfterRead(file) :
        /\ Commit(p, p.book)
        /\ told' = [r \in Ref |-> told[r] \cup (Terminal(View(p.book, r)) \ {Gone})]
        /\ UNCHANGED <<admitted, recorded>>

(* answerApplication, for a catalogue question: its answer joins the audit. *)
AnswerQuestion(k) ==
    \E e \in Openings(file) : \E now \in Readings(e.book) :
        LET entry == [id |-> <<k, 0>>, at |-> now] IN
        /\ now > 0
        /\ \A x \in recorded : x.id # entry.id
        /\ \E h \in Audited(Noted(e.book, now), entry) : Commit(e, h)
        /\ recorded' = recorded \cup {entry}
        /\ UNCHANGED <<admitted, told>>

(* Every other edit of the file: catalogue questions and notifications.  The *)
(* notification operations keep the time they decided at, as choices do.     *)
OtherEdit ==
    \E e \in Openings(file) :
        /\ Commit(e, e.book) \/ \E now \in Readings(e.book) : Commit(e, Noted(e.book, now))
        /\ UNCHANGED <<admitted, told, recorded>>

Next ==
    \/ \E q \in Request : AskChoice(q)
    \/ \E r \in Ref : ObserveChoice(r) \/ AcknowledgeChoice(r)
    \/ \E r \in Ref, option \in Option \cup {None}, by \in Program :
          \/ \E ifPending \in BOOLEAN :
                \/ DecideOwn(r, option, by, ifPending)
                \/ \E n \in 1..admitted[r] : DecideListed(r, n, option, by, ifPending)
          \/ \E n \in 1..admitted[r] : AnswerShared(r, n, option, by)
    \/ \E k \in Question : AnswerQuestion(k)
    \/ ChoiceHistory
    \/ OtherEdit

Spec == Init /\ [][Next]_vars

-----------------------------------------------------------------------------
(* Properties. *)

TypeOK ==
    /\ file \in [choices : [Ref -> Admission], floor : Int, answers : SUBSET AuditEntry, since : Int]
    /\ admitted \in [Ref -> Nat]
    /\ told \in [Ref -> SUBSET Report]
    /\ recorded \subseteq AuditEntry
    /\ horizon \in Int

(* ValidChoiceRecord, for a retained record. *)
ValidRecord(r, a) ==
    /\ 0 < a.asked /\ a.asked < a.req.pendingUntil
    /\ ReplayUntil[r] - a.asked <= MaxReplay
    /\ a.state \in Decided =>
          /\ a.asked <= a.answer.at /\ a.answer.at < a.req.pendingUntil
          /\ IF a.state = "dismissed" THEN a.answer.option = None ELSE a.answer.option \in a.req.options

(* validChoiceAttribution *)
ValidAttribution(a) ==
    /\ a.route # None => a.state \in Decided
    /\ a.route = "responder" => a.state = "answered" /\ a.answer.option \in a.req.shared

(* validateChoicePartition, for one admission. *)
ValidAdmission(r, a) ==
    /\ file.floor > 0
    /\ a.req # None /\ a.req.ref = r
    /\ a.answer = None <=> a.state \in {"pending", "expired"}
    /\ a.state # "gone" =>
          /\ ValidRecord(r, a)
          /\ ValidAttribution(a)
          /\ a.asked <= file.floor
          /\ a.answer # None => a.answer.at <= file.floor

(* validateAnswers *)
ValidAudit ==
    /\ \A d \in file.answers : d.at <= file.floor
    /\ \A d, x \in file.answers : d.id = x.id => d = x
    /\ Cardinality(file.answers) <= MaxAnswers

(* Every file an edit leaves passes the validation that the next read and    *)
(* the next edit make, although the two clock readings of one edit may be    *)
(* in any order: no sequence of calls makes the Book unreadable.             *)
FileValid ==
    /\ TypeOK
    /\ \A r \in Ref : file.choices[r] # Absent => ValidAdmission(r, file.choices[r])
    /\ Cardinality({r \in Ref : file.choices[r] # Absent}) <= MaxAdmissions
    /\ ValidAudit

(* A stored expiry and a collected occurrence rest on a committed time, so   *)
(* that a clock set back, or a restart, cannot bring either back (ASK-P4).   *)
ExpiryCommitted ==
    \A r \in Ref :
        /\ file.choices[r].state = "expired" => file.floor >= file.choices[r].req.pendingUntil
        /\ admitted[r] > 0 /\ file.choices[r] = Absent => file.floor >= ReplayUntil[r]

(* A reference never admits a second occurrence: not after expiry, not after *)
(* acknowledgement, not after its tombstone is collected (ASK-W5, ASK-P4).   *)
OneOccurrence ==
    \A r \in Ref : admitted[r] <= 1

(* An outcome once reported to anyone stays what the Book reports, until the *)
(* acknowledgement of that very decision or the replay deadline, whatever    *)
(* the clock does and whoever asks or decides next; and a request that was   *)
(* reported expired unadmitted is never admitted (ASK-W5, ASK-A9).  Its       *)
(* reference may be, by a request with a later deadline: the code keeps no    *)
(* trace of the one it refused, and answers no conflict.                     *)
ToldStands ==
    \A r \in Ref : \A o \in told[r] :
        \/ file.floor >= ReplayUntil[r]
        \/ o \in Terminal(View(file, r))
        \/ /\ o.is \in Decided
           /\ View(file, r).state = "gone"
           /\ o.answer = View(file, r).answer
        \/ /\ o \in Lapse
           /\ file.floor >= o.req.pendingUntil
           /\ View(file, r).req # o.req

(* The audit is one that a read accepts, and holds every answer it appended  *)
(* that is younger than its retention at the latest time an edit collected    *)
(* at, or says from when it is complete: neither acknowledgement, nor replay  *)
(* expiry, nor eviction loses one silently (ASK-O15).                        *)
AuditComplete ==
    /\ ValidAudit
    /\ \A d \in recorded :
          horizon - d.at < Retention => d \in file.answers \/ d.at <= file.since

(* The contract, read off the file: what time `floor` makes of each          *)
(* reference.                                                                *)
Status(r) ==
    LET a == View(file, r) IN
    IF file.floor >= ReplayUntil[r] \/ a.state = "expired"
    THEN [is |-> "expired", req |-> None, answer |-> None]
    ELSE [is |-> IF a.state = "absent" THEN "unknown" ELSE a.state,
          req |-> a.req, answer |-> a.answer]

Contract == INSTANCE ChoiceContract WITH time <- file.floor, status <- [r \in Ref |-> Status(r)]

(* The Book implements the contract: service time never goes back, and every *)
(* edit ages all references to it and moves at most one of them, along the   *)
(* contract's order: the first decision made before the deadline stands.     *)
ImplementsContract == Contract!Spec

=============================================================================
