-------------------------- MODULE NotificationBook --------------------------
(***************************************************************************)
(* The notification partition of the application-profile Book               *)
(* (go/notification_book.go): posting, scheduling, decisions, withdrawal,   *)
(* acknowledgement, the bounds on a program's notifications, the rule by     *)
(* which the person turns a program off, and the long polls that wait for an *)
(* outcome (go/application/notification.go).                                *)
(*                                                                         *)
(* As in ChoiceBook each call is one atomic edit of the file under Book.mu, *)
(* the clock is any member of Clock at each reading, and the durable floor  *)
(* is shared with the choices.  A scope is one program.  A reference is     *)
(* admitted at most once, so it stands for its occurrence's id too.  The    *)
(* per-day counts of a notifier are left out.                               *)
(***************************************************************************)
EXTENDS Integers, FiniteSets, Sequences

CONSTANTS
    Ref,            \* requester scope and RequestRef of an occurrence
    Owner,          \* the program of each reference
    ReplayUntil,    \* RequestRef.ReplayUntilMs
    Request,        \* [ref, tag, delivery, expires, actions]
    Action,         \* action IDs
    Tag,            \* tags
    Program,        \* posting programs
    Polled,         \* the references their requesters wait for
    Blockable,      \* the programs the person may turn off and on
    None,           \* no request, tag, action, result or notifier
    Clock,          \* the readings of the wall clock
    MaxReplay,      \* MaxChoiceReplayMilliseconds
    MaxAdmissions,  \* MaxNotificationAdmissions
    MaxLive,        \* MaxLiveNotifications
    MaxPerHour,     \* MaxNotificationsPerHour
    MaxNotifiers,   \* MaxNotifiers
    Hour            \* hourMilliseconds

(* ValidChoiceReference *)
ASSUME ReferenceAssumption ==
    /\ Owner \in [Ref -> Program]
    /\ ReplayUntil \in [Ref -> Int] /\ \A r \in Ref : 0 < ReplayUntil[r]
    /\ Polled \subseteq Ref
    /\ Blockable \subseteq Program

(* ValidNotificationRequest: the shape a request has before the clock is read. *)
ASSUME RequestAssumption ==
    \A q \in Request :
        /\ q.ref \in Ref
        /\ q.tag \in Tag \cup {None}
        /\ q.delivery \in {"now", "operation_end"}
        /\ q.expires \in Int /\ 0 < q.expires /\ q.expires <= ReplayUntil[q.ref]
        /\ q.actions \subseteq Action

ASSUME NoneAssumption ==
    None \notin Request /\ None \notin Tag /\ None \notin Action

ASSUME BoundAssumption ==
    /\ Clock \subseteq Int /\ MaxReplay \in Int /\ MaxAdmissions \in Nat
    /\ {MaxLive, MaxPerHour, MaxNotifiers, Hour} \subseteq Nat \ {0}

VARIABLES
    file,       \* the durable file: notes, ChoiceTimeMs, notifiers
    waiting,    \* Book.decided: the occurrences with an open channel for long polls
    off,        \* which programs are turned off, and their notifications withdrawn
    told,       \* history: the terminal outcomes and lapses reported for each reference
    posts,      \* history: every admission and its time
    skipped     \* history: the open channels that a panic kept a settle from

vars == <<file, waiting, off, told, posts, skipped>>

-----------------------------------------------------------------------------
(* The durable state. *)

Live == {"scheduled", "posted"}

Ended == {"acted", "dismissed", "withdrawn"}

Result == [action : Action \cup {None}, at : Int]

(* A notificationAdmission; a tombstone ("gone") keeps the fingerprint of    *)
(* its request and the hash of its result, modelled by the values.          *)
Admission ==
    [state    : {"absent", "gone", "expired"} \cup Live \cup Ended,
     req      : Request \cup {None},
     admitted : Int,
     posted   : Int,                \* PostedMs, 0 before
     result   : Result \cup {None}]

Absent == [state |-> "absent", req |-> None, admitted |-> 0, posted |-> 0, result |-> None]

(* A notifier: admission times of the last hour, oldest first. *)
Notifier == [recent : Seq(Int), last : Int]

(* A field that holds nothing is told from one that does. *)
ASSUME UnsetAssumption == None \notin Result /\ None \notin Notifier

Outcome == [is : {"expired", "gone"} \cup Ended, result : Result \cup {None}]

Expired == [is |-> "expired", result |-> None]
Gone    == [is |-> "gone", result |-> None]

(* An "expired" reported of a request that was never admitted. *)
Lapse == [is : {"lapsed"}, req : Request]

Report == Outcome \cup Lapse

Later(s, t) == IF s >= t THEN s ELSE t

Held(f) == {r \in Ref : f.notes[r].state # "absent"}

-----------------------------------------------------------------------------
(* Service time and collection. *)

(* choiceTime.  RawReadings would trust the clock alone. *)
RawReadings(f) == Clock

Readings(f) == {Later(c, f.floor) : c \in Clock}

(* noteChoiceTime.  NotedNever would act at a time it does not commit. *)
NotedNever(f, now) == f

Noted(f, now) == [f EXCEPT !.floor = Later(now, @)]

(* collectNotifications *)
Aged(r, a, now) ==
    IF now >= ReplayUntil[r] THEN Absent
    ELSE IF a.state \in Live /\ now >= a.req.expires
         THEN [a EXCEPT !.state = "expired"]
         ELSE a

Collected(f, now) == [f EXCEPT !.notes = [r \in Ref |-> Aged(r, @[r], now)]]

Settled(f, now) == {r \in Ref : Collected(f, now).notes[r] # f.notes[r]}

(* The prologue of changeApplication: collect at `now`, and keep that time   *)
(* if it settled a notification or a choice (`other`), or if no time was     *)
(* kept before.                                                             *)
Opened(f, now, other) ==
    IF f.floor = 0 \/ other \/ Settled(f, now) # {}
    THEN Noted(Collected(f, now), now) ELSE Collected(f, now)

(* The edits that may start from f, with the occurrences each settled. *)
Openings(f) ==
    {[book |-> Opened(f, now, other), settled |-> Settled(f, now)] :
        now \in Readings(f), other \in BOOLEAN}

(* readApplication: an in-memory collection at the durable floor. *)
AtFloor(f) == Collected(f, f.floor)

(* readChoices: a read that finds something to settle commits it first. *)
AfterRead(f) ==
    {[book |-> f, settled |-> {}] :
        now \in {t \in Readings(f) : t > 0 /\ Settled(AtFloor(f), t) = {}}}
    \cup
    {[e EXCEPT !.book = Noted(@, now)] :
        e \in Openings(f), now \in {t \in Readings(f) : t > 0}}

(* notificationObservation, kept when it is terminal. *)
Terminal(a) ==
    CASE a.state \in Ended   -> {[is |-> a.state, result |-> a.result]}
      [] a.state = "expired" -> {Expired}
      [] a.state = "gone"    -> {Gone}
      [] OTHER               -> {}

View(f, r) == AtFloor(f).notes[r]

-----------------------------------------------------------------------------
(* Steps of the operations. *)

(* settle, for the occurrences S.  Decided keeps a channel it closes itself,   *)
(* and a settle of that id panics (Waiters): the id may be of another         *)
(* partition, whose expiries the same edit settles, so any part W of S is     *)
(* woken and the rest are skipped.  The edit stands; its caller, who gets no  *)
(* reply then, counts as told all the same.                                  *)
Settle(S) ==
    \E W \in SUBSET (waiting \cap S) :
        /\ waiting' = waiting \ W
        /\ skipped' = (skipped \cup S) \cap waiting'

(* The edit e commits g and settles S after what it settled itself.           *)
(* CommitOnly would leave S alone.                                           *)
CommitOnly(e, g, S) ==
    /\ file' = g
    /\ Settle(e.settled)

Commit(e, g, S) ==
    /\ file' = g
    /\ Settle(e.settled \cup S)

(* The edit e fails: nothing is written, and changeApplication settles what  *)
(* it expired all the same.                                                 *)
Fail(e) ==
    /\ Settle(e.settled)
    /\ UNCHANGED <<file, told, posts>>

(* An edit that its authorization or its write refuses. *)
Refused == \E e \in Openings(file) : Fail(e)

(* The rights service blocks a program, or permits it again.  Every post, and  *)
(* every act on what it posted, asks for that inside its edit; a block that    *)
(* lands between the answer and the write is one that lands after the edit.    *)
Blocked(p) == off[p] # "no"

Block(p) ==
    /\ ~Blocked(p)
    /\ off' = [off EXCEPT ![p] = "blocked"]
    /\ UNCHANGED <<file, waiting, told, posts, skipped>>

Permit(p) ==
    /\ Blocked(p)
    /\ off' = [off EXCEPT ![p] = "no"]
    /\ UNCHANGED <<file, waiting, told, posts, skipped>>

(* The histories forget what no property looks at any more: outcomes past the  *)
(* replay deadline, and admissions an hour before the floor, which is before   *)
(* any hour that ends with an admission to come.                             *)
Recall(outcomes, admissions) ==
    /\ told' = [r \in Ref |-> IF file'.floor >= ReplayUntil[r] THEN {} ELSE outcomes[r]]
    /\ posts' = {x \in admissions : x.at > file'.floor - Hour}

Tell(r, o) == Recall([told EXCEPT ![r] = @ \cup o], posts)

Quiet == Recall(told, posts)

(* withdrawRecord, for the occurrences S. *)
Withdrawn(f, S, now) ==
    [f EXCEPT !.notes = [r \in Ref |->
        IF r \in S
        THEN [@[r] EXCEPT !.state = "withdrawn", !.result = [action |-> None, at |-> now]]
        ELSE @[r]]]

-----------------------------------------------------------------------------
(* Posting. *)

(* What DeleteFunc leaves of a row, which is sorted: the times after t. *)
Since(times, t) ==
    SubSeq(times, 1 + Cardinality({i \in DOMAIN times : times[i] <= t}), Len(times))

(* The admissions of the last hour that a notifier's row still counts.       *)
(* RecentNow would count those at this very time alone.                      *)
RecentNow(n, now) == Since(n.recent, now - 1)

Recent(n, now) == Since(n.recent, now - Hour)

NewNotifier == [recent |-> <<>>, last |-> 0]

(* The rows left to make room for one more: the row longest unused goes. *)
Evicted(rows) ==
    LET used == {p \in Program : rows[p] # None} IN
    IF Cardinality(used) < MaxNotifiers THEN {rows}
    ELSE {[rows EXCEPT ![p] = None] :
             p \in {x \in used : \A y \in used : rows[x].last <= rows[y].last}}

(* notice: the files with one admission of p counted at `now`; none when the *)
(* hourly bound is reached.                                                 *)
Noticed(f, p, now) ==
    LET rows == IF f.notifiers[p] # None THEN {f.notifiers}
                ELSE {[n EXCEPT ![p] = NewNotifier] : n \in Evicted(f.notifiers)}
    IN {[f EXCEPT !.notifiers = [n EXCEPT ![p] =
            [recent |-> Append(Recent(@, now), now), last |-> now]]] :
          n \in {m \in rows : Len(Recent(m[p], now)) < MaxPerHour}}

(* A tagged post replaces the program's live notification of that tag. *)
Replaced(f, q) ==
    {r \in Ref : /\ Owner[r] = Owner[q.ref] /\ f.notes[r].state \in Live
                 /\ q.tag # None /\ f.notes[r].req.tag = q.tag}

Posted(f, p) == {r \in Ref : Owner[r] = p /\ f.notes[r].state = "posted"}

(* One more among the posted P withdraws the oldest, at the bound.           *)
(* DisplacedLate would count the new one in.                                *)
DisplacedLate(f, P) ==
    IF Cardinality(P) <= MaxLive THEN {{}}
    ELSE {{r} : r \in {x \in P : \A y \in P : f.notes[x].posted <= f.notes[y].posted}}

Displaced(f, P) ==
    IF Cardinality(P) < MaxLive THEN {{}}
    ELSE {{r} : r \in {x \in P : \A y \in P : f.notes[x].posted <= f.notes[y].posted}}

(* PostNotificationFrom: the edit that opens with e, at its own reading. *)
PostAt(q, e, now) ==
    LET f == e.book
        r == q.ref
        a == f.notes[r]
        T == Replaced(f, q)
        new == [state |-> IF q.delivery = "now" THEN "posted" ELSE "scheduled", req |-> q,
                admitted |-> now, posted |-> IF q.delivery = "now" THEN now ELSE 0,
                result |-> None]
        fresh == a = Absent /\ now < q.expires /\ ReplayUntil[r] - now <= MaxReplay
        full == Cardinality(Held(f)) >= MaxAdmissions \/ Noticed(f, Owner[r], now) = {}
    IN
    /\ now > 0
    /\ \/ /\ now >= ReplayUntil[r]
          /\ Commit(e, Noted(f, now), {})
          /\ Tell(r, {Expired})
       \/ /\ now < ReplayUntil[r] /\ a # Absent
          /\ Commit(e, f, {})
          /\ Tell(r, IF a.req = q THEN Terminal(a) ELSE {})      \* else conflict
       \/ /\ now < ReplayUntil[r] /\ a = Absent /\ now >= q.expires
          /\ Commit(e, Noted(f, now), {})
          /\ Tell(r, {[is |-> "lapsed", req |-> q]})             \* expired, not admitted
       \/ /\ a = Absent /\ now < q.expires /\ ReplayUntil[r] - now > MaxReplay
          /\ Commit(e, f, {})                                     \* invalid
          /\ Quiet
       \/ fresh /\ full /\ Fail(e)                                \* exhausted
       \/ /\ fresh /\ ~full
          /\ \E g \in Noticed(f, Owner[r], now) :
             \E D \in IF q.delivery = "now" THEN Displaced(f, Posted(f, Owner[r]) \ T) ELSE {{}} :
                Commit(e, Noted([Withdrawn(g, T \cup D, now) EXCEPT !.notes[r] = new], now),
                       T \cup D)
          /\ Recall(told, posts \cup {[ref |-> r, at |-> now]})

(* A program that is turned off is refused, its replays too.  AnyMayPost would *)
(* ask before the edit only.                                                  *)
AnyMayPost(q) == TRUE

MayPost(q) == ~Blocked(Owner[q.ref])

Post(q) ==
    /\ MayPost(q)
    /\ \E e \in Openings(file) : \E now \in Readings(e.book) : PostAt(q, e, now)

(* PostScheduledNotification: the operation ended.  The one it displaces is  *)
(* withdrawn, and its waiters are not settled.                              *)
PostScheduled(r) ==
    \E e \in Openings(file) : \E now \in Readings(e.book) :
        LET f == e.book IN
        /\ now > 0
        /\ IF f.notes[r].state = "scheduled" /\ now < f.notes[r].req.expires
           THEN \E D \in Displaced(f, Posted(f, Owner[r])) :
                   Commit(e, Noted([Withdrawn(f, D, now) EXCEPT
                                      !.notes[r].state = "posted", !.notes[r].posted = now], now), {})
           ELSE Commit(e, f, {})
        /\ Quiet

-----------------------------------------------------------------------------
(* Deciding. *)

(* The expiry of an occurrence has passed for a call made at `now`. *)
Lapsed(a, now) == a.state = "expired" \/ (a.state \in Live /\ now >= a.req.expires)

(* decideNotification: the operator acts or dismisses by id, the poster      *)
(* withdraws by reference.  An expiry found here settles nobody.             *)
DecideAt(r, to, action, e, now) ==
    LET f == e.book
        a == f.notes[r]
        own == to = "withdrawn"
        live == a # Absent /\ now < ReplayUntil[r]
        refused == to = "acted" /\ Blocked(Owner[r])
        decided == [f EXCEPT !.notes[r] =
                      [@ EXCEPT !.state = to, !.result = [action |-> action, at |-> now]]]
    IN
    /\ now > 0
    /\ \/ /\ a = Absent /\ (own => now < ReplayUntil[r])          \* unknown
          /\ Commit(e, f, {}) /\ Quiet
       \/ /\ a # Absent \/ own
          /\ now >= ReplayUntil[r]
          /\ Commit(e, Noted(f, now), {}) /\ Tell(r, {Expired})
       \/ /\ live /\ a.state = "gone"
          /\ Commit(e, f, {}) /\ Tell(r, {Gone})
       \/ /\ live /\ a.state # "gone" /\ refused
          /\ Fail(e)
       \/ /\ live /\ ~refused /\ Lapsed(a, now)
          /\ Commit(e, Noted([f EXCEPT !.notes[r].state = "expired"], now), {})
          /\ Tell(r, {Expired})
       \/ /\ live /\ ~refused /\ a.state \in Ended
          /\ IF own \/ (a.state = to /\ a.result.action = action)
             THEN Commit(e, f, {r}) /\ Tell(r, Terminal(a))
             ELSE Commit(e, f, {}) /\ Quiet              \* conflict
       \/ /\ live /\ ~refused /\ a.state \in Live /\ ~Lapsed(a, now)
          /\ IF to = "acted" /\ (a.state # "posted" \/ action \notin a.req.actions)
             THEN Commit(e, f, {}) /\ Quiet              \* invalid
             ELSE /\ Commit(e, Noted(decided, now), {r})
                  /\ Tell(r, Terminal(decided.notes[r]))

Decide(r, to, action) ==
    \E e \in Openings(file) : \E now \in Readings(e.book) : DecideAt(r, to, action, e, now)

Act(r, action) == Decide(r, "acted", action)

Dismiss(r) == Decide(r, "dismissed", None)

WithdrawOwn(r) == Decide(r, "withdrawn", None)

(* WithdrawProgramNotifications, after which a blocked program has nothing    *)
(* live, unless this reading found some past its expiry, as the edit's first    *)
(* reading had not.                                                          *)
LiveOf(f, p) == {r \in Ref : Owner[r] = p /\ f.notes[r].state \in Live}

WithdrawProgram(p) ==
    \E e \in Openings(file) : \E now \in Readings(e.book) :
        LET S == {r \in Ref : /\ Owner[r] = p /\ e.book.notes[r].state \in Live
                              /\ now < e.book.notes[r].req.expires}
        IN
        /\ now > 0
        /\ Commit(e, IF S = {} THEN e.book ELSE Noted(Withdrawn(e.book, S, now), now), S)
        /\ off' = IF Blocked(p) /\ S = LiveOf(e.book, p) THEN [off EXCEPT ![p] = "withdrawn"] ELSE off
        /\ Quiet

(* AcknowledgeNotification: an exact result leaves a tombstone. *)
Acknowledge(r) ==
    \E e \in Openings(file) : \E now \in Readings(e.book) :
        LET f == e.book IN
        /\ now > 0
        /\ \/ /\ now >= ReplayUntil[r]
              /\ Commit(e, Noted(f, now), {}) /\ Tell(r, {Expired})
           \/ /\ now < ReplayUntil[r]                             \* unknown, conflict, replay
              /\ Commit(e, f, {}) /\ Quiet
           \/ /\ now < ReplayUntil[r] /\ f.notes[r].state \in Ended
              /\ Commit(e, Noted([f EXCEPT !.notes[r] =
                      [@ EXCEPT !.state = "gone", !.admitted = 0, !.posted = 0]], now), {})
              /\ Quiet

-----------------------------------------------------------------------------
(* Reading and waiting. *)

(* ObserveNotification: readChoices, then a second reading for the replay    *)
(* deadline.                                                                *)
Observe(r) ==
    \E p \in AfterRead(file) : \E now \in Readings(p.book) :
        /\ \/ /\ now >= ReplayUntil[r]
              /\ IF now > p.book.floor
                 THEN \E e \in Openings(p.book) : Commit(e, Noted(e.book, now), p.settled)
                 ELSE Commit(p, p.book, {})
              /\ Tell(r, {Expired})
           \/ /\ now < ReplayUntil[r]
              /\ Commit(p, p.book, {})
              /\ Tell(r, Terminal(View(p.book, r)))

(* The long poll's wait, once it observed a live occurrence.  Its timer, or   *)
(* its caller going away, ends the wait and leaves the channel open.         *)
Wait(r) ==
    /\ View(file, r).state \in Live
    /\ waiting' = waiting \cup {r}
    /\ UNCHANGED <<file, told, posts, skipped>>

(* NotificationHistory and the operator's reads built on it. *)
History ==
    \E p \in AfterRead(file) :
        /\ Commit(p, p.book, {})
        /\ Recall([r \in Ref |-> told[r] \cup (Terminal(View(p.book, r)) \ {Gone})], posts)

(* Every other edit of the file, which may keep the time it acts at. *)
OtherEdit ==
    \E e \in Openings(file) :
        /\ \/ Commit(e, e.book, {})
           \/ \E now \in Readings(e.book) : Commit(e, Noted(e.book, now), {})
        /\ Quiet

Init ==
    /\ file = [notes |-> [r \in Ref |-> Absent], floor |-> 0,
               notifiers |-> [p \in Program |-> None]]
    /\ waiting = {}
    /\ off = [p \in Program |-> "no"]
    /\ told = [r \in Ref |-> {}]
    /\ posts = {}
    /\ skipped = {}

Next ==
    \/ /\ UNCHANGED off
       /\ \/ \E q \in Request : Post(q)
          \/ \E r \in Ref : \/ PostScheduled(r) \/ Dismiss(r) \/ WithdrawOwn(r)
                           \/ Acknowledge(r) \/ Observe(r)
                           \/ \E action \in Action : Act(r, action)
          \/ \E r \in Polled : Wait(r)
          \/ History \/ OtherEdit \/ Refused
    \/ \E p \in Program : WithdrawProgram(p)
    \/ \E p \in Blockable : Block(p) \/ Permit(p)

Spec == Init /\ [][Next]_vars

-----------------------------------------------------------------------------
(* Properties. *)

(* The file, the waits and the histories have the types of their fields.     *)
TypeOK ==
    /\ file.notes \in [Ref -> Admission] /\ file.floor \in Int
    /\ \A p \in Program : file.notifiers[p] = None \/ file.notifiers[p] \in Notifier
    /\ waiting \subseteq Polled
    /\ off \in [Program -> {"no", "blocked", "withdrawn"}]
    /\ told \in [Ref -> SUBSET Report]
    /\ posts \subseteq [ref : Ref, at : Int]
    /\ skipped \subseteq waiting

(* ValidNotificationRecord, with the floor that the partition compares. *)
ValidRecord(r, a) ==
    /\ 0 < a.admitted /\ a.admitted < a.req.expires /\ a.admitted <= file.floor
    /\ ReplayUntil[r] - a.admitted <= MaxReplay
    /\ a.posted = 0 \/ a.posted >= a.admitted
    /\ a.state = "scheduled" => a.posted = 0
    /\ a.state \in {"posted", "acted"} => a.posted > 0
    /\ a.state \in Live \cup {"expired"} => a.result = None
    /\ a.state \in Ended =>
          /\ a.admitted <= a.result.at /\ a.result.at <= file.floor
          /\ IF a.state = "acted" THEN a.result.action \in a.req.actions
             ELSE a.result.action = None

SortedTo(s, last) ==
    /\ \A i \in 1 .. Len(s) : 0 < s[i] /\ s[i] <= last
    /\ \A i, j \in 1 .. Len(s) : i < j => s[i] <= s[j]

(* Every file an edit leaves passes validateNotificationPartition, which the *)
(* next edit and the next read make, although the two clock readings of one  *)
(* edit may be in any order: no sequence of calls makes the Book unreadable. *)
FileValid ==
    /\ TypeOK
    /\ Held(file) # {} => file.floor > 0
    /\ Cardinality(Held(file)) <= MaxAdmissions
    /\ \A r \in Held(file) : file.notes[r].state # "gone" => ValidRecord(r, file.notes[r])
    /\ Cardinality({p \in Program : file.notifiers[p] # None}) <= MaxNotifiers
    /\ \A p \in Program :
          LET n == file.notifiers[p] IN
          n # None => /\ 0 < n.last /\ n.last <= file.floor
                      /\ Len(n.recent) <= MaxPerHour
                      /\ SortedTo(n.recent, n.last)

(* ASK-N3: a terminal outcome once reported does not change, until that very *)
(* result is acknowledged or the replay deadline passes, and a clock set     *)
(* back reopens nothing; and a request that was reported expired without an  *)
(* admission is never admitted.  Its reference may be, by a post with a later  *)
(* expiry: the code keeps no trace of the one it refused.                    *)
ToldStands ==
    \A r \in Ref : \A o \in told[r] :
        \/ file.floor >= ReplayUntil[r]
        \/ o \in Terminal(View(file, r))
        \/ /\ o.is \in Ended
           /\ View(file, r).state = "gone"
           /\ o.result = View(file, r).result
        \/ /\ o \in Lapse
           /\ file.floor >= o.req.expires
           /\ View(file, r).req # o.req

(* CONTRACT.md ASK-N6: one program is admitted at most MaxPerHour times in   *)
(* any rolling hour of service time.  The code keeps this for as many        *)
(* programs as it has rows: a row that is evicted takes its hour along.      *)
RateKept ==
    \A p \in Program : \A t \in {x.at : x \in posts} :
        Cardinality({x \in posts : Owner[x.ref] = p /\ t - Hour < x.at /\ x.at <= t}) <= MaxPerHour

(* CONTRACT.md ASK-N6: once a program is turned off and its notifications are  *)
(* withdrawn, it has none shown or held until it is turned on again, whatever  *)
(* it posts, whatever operation of its ends and however the clock steps.       *)
SilentOnceOff ==
    \A p \in Program : off[p] = "withdrawn" => LiveOf(file, p) = {}

(* CONTRACT.md ASK-N3: a wait wakes on any outcome, so no channel is open for  *)
(* an occurrence whose result is recorded, whoever recorded it, unless a      *)
(* panic kept the settle from it.                                            *)
WokenOnResult ==
    \A r \in waiting : file.notes[r].state \in Ended => r \in skipped

(* What the person did wakes its poster, whoever else's call displaced,       *)
(* replaced or expired anything: the same, of a notification that was acted on *)
(* or dismissed (decideNotification).                                        *)
DecisionWoken ==
    \A r \in waiting : file.notes[r].state \in {"acted", "dismissed"} => r \in skipped

(* The contract, read off the file: what time `floor` makes of each reference. *)
Status(r) ==
    LET a == View(file, r) IN
    IF file.floor >= ReplayUntil[r] \/ a.state = "expired"
    THEN [is |-> "expired", req |-> None, result |-> None]
    ELSE [is |-> IF a.state = "absent" THEN "unknown" ELSE a.state,
          req |-> a.req, result |-> a.result]

Contract == INSTANCE NotificationContract
                WITH time <- file.floor, status <- [r \in Ref |-> Status(r)]

(* The partition implements the contract: no result before or after its time,  *)
(* nothing acted on that was not shown, and no call takes away a notification  *)
(* but its own program's, by its tag, its bound or its withdrawal.            *)
ImplementsContract == Contract!Spec

=============================================================================
