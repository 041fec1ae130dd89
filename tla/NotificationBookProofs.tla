------------------------ MODULE NotificationBookProofs ------------------------
(* Theorems about NotificationBook, for every value of its constants.       *)
EXTENDS NotificationBook, FiniteSetTheorems, FunctionTheorems, SequenceTheorems, TLAPS

Rows == [Program -> Notifier \cup {None}]

Files == [notes : [Ref -> Admission], floor : Int, notifiers : Rows]

(* What a retained record holds at time t, by its state; the conditions of   *)
(* ValidRecord among them.                                                   *)
Valid(r, a, t) ==
    /\ 0 < a.admitted /\ a.admitted < a.req.expires /\ a.admitted <= t
    /\ ReplayUntil[r] - a.admitted <= MaxReplay
    /\ a.posted = 0 \/ a.posted >= a.admitted
    /\ a.state = "scheduled" => a.posted = 0
    /\ a.state \in {"posted", "acted"} => a.posted > 0
    /\ a.state \in Ended => a.admitted <= a.result.at /\ a.result.at <= t
    /\ a.state = "acted" => a.result.action \in a.req.actions
    /\ a.state \in Ended \ {"acted"} => a.result.action = None

GoodRecord(r, a, t) ==
    /\ a.state = "absent" => a = Absent
    /\ a.state # "absent" => a.req \in Request /\ a.req.ref = r /\ 0 < t
    /\ a.state \in Live \cup {"expired"} => a.result = None
    /\ a.state \in Ended \cup {"gone"} => a.result \in Result
    /\ a.state \notin {"absent", "gone"} => Valid(r, a, t)

(* The bounds: on the records held, and on those posted of each program.     *)
Bounded(f) ==
    /\ IsFiniteSet(Held(f)) /\ Cardinality(Held(f)) <= MaxAdmissions
    /\ \A p \in Program : Cardinality(Posted(f, p)) <= MaxLive

(* The programs that have a row, and a row in order. *)
Used(rows) == {p \in Program : rows[p] # None}

GoodRow(n, t) ==
    /\ 0 < n.last /\ n.last <= t
    /\ Len(n.recent) <= MaxPerHour
    /\ SortedTo(n.recent, n.last)

GoodRows(rows, t) ==
    /\ IsFiniteSet(Used(rows)) /\ Cardinality(Used(rows)) <= MaxNotifiers
    /\ \A p \in Used(rows) : GoodRow(rows[p], t)

GoodFile(f) ==
    /\ f \in Files
    /\ \A r \in Ref : GoodRecord(r, f.notes[r], f.floor)
    /\ Bounded(f)
    /\ GoodRows(f.notifiers, f.floor)

(* What collection may make of a record by time t. *)
AgesTo(r, a, b, t) ==
    \/ b = a
    \/ b = Absent /\ t >= ReplayUntil[r]
    \/ /\ a.state \in Live
       /\ b = [a EXCEPT !.state = "expired"]
       /\ t >= a.req.expires

Ages(f, g) ==
    /\ f.floor <= g.floor
    /\ g.notifiers = f.notifiers
    /\ \A r \in Ref : AgesTo(r, f.notes[r], g.notes[r], g.floor)

-----------------------------------------------------------------------------
(* The helpers. *)

(* A reading of the effective clock is never behind the floor (choiceTime). *)
LEMMA ReadingsAhead ==
    ASSUME NEW f, f.floor \in Int, NEW now \in Readings(f)
    PROVE  now \in Int /\ now >= f.floor
BY BoundAssumption DEF Readings, Later

(* noteChoiceTime keeps everything else. *)
LEMMA NotedFacts ==
    ASSUME NEW f \in Files, NEW now \in Int
    PROVE  /\ Noted(f, now) \in Files
           /\ Noted(f, now).notes = f.notes
           /\ Noted(f, now).notifiers = f.notifiers
           /\ Noted(f, now).floor >= f.floor
           /\ Noted(f, now).floor >= now
           /\ now >= f.floor => Noted(f, now).floor = now
BY DEF Noted, Files, Later

LEMMA AbsentType == Absent \in Admission
BY DEF Absent, Admission

(* collectNotifications leaves a record, ages it, or drops it. *)
LEMMA AgedFacts ==
    ASSUME NEW r \in Ref, NEW a \in Admission, NEW now \in Int
    PROVE  /\ Aged(r, a, now) \in Admission
           /\ AgesTo(r, a, Aged(r, a, now), now)
<1>1. [a EXCEPT !.state = "expired"] \in Admission
  BY DEF Admission
<1> QED
  BY <1>1, AbsentType DEF Aged, AgesTo

LEMMA CollectedFacts ==
    ASSUME NEW f \in Files, NEW now \in Int
    PROVE  /\ Collected(f, now) \in Files
           /\ Collected(f, now).floor = f.floor
           /\ Collected(f, now).notes = [r \in Ref |-> Aged(r, f.notes[r], now)]
           /\ Collected(f, now).notifiers = f.notifiers
<1>1. \A r \in Ref : Aged(r, f.notes[r], now) \in Admission
  BY AgedFacts DEF Files
<1> DEFINE n == [r \in Ref |-> Aged(r, f.notes[r], now)]
<1>2. n \in [Ref -> Admission]
  BY <1>1
<1>3. Collected(f, now) = [f EXCEPT !.notes = n]
  BY DEF Collected
<1> HIDE DEF n
<1>4. [f EXCEPT !.notes = n] \in Files /\ [f EXCEPT !.notes = n].notes = n
      /\ [f EXCEPT !.notes = n].floor = f.floor /\ [f EXCEPT !.notes = n].notifiers = f.notifiers
  BY <1>2 DEF Files
<1> QED
  BY <1>3, <1>4 DEF n

(* The prologue of an edit ages the file, to a time it commits when the      *)
(* ageing changed anything.                                                  *)
LEMMA OpenedFacts ==
    ASSUME NEW f \in Files, NEW now \in Int, now >= f.floor, NEW other \in BOOLEAN
    PROVE  Opened(f, now, other) \in Files /\ Ages(f, Opened(f, now, other))
<1> DEFINE g == Collected(f, now)
<1>1. g \in Files /\ g.floor = f.floor /\ g.notifiers = f.notifiers
      /\ g.notes = [r \in Ref |-> Aged(r, f.notes[r], now)]
  BY CollectedFacts
<1>2. \A r \in Ref : AgesTo(r, f.notes[r], g.notes[r], now)
  BY <1>1, AgedFacts DEF Files
<1>3. Settled(f, now) = {r \in Ref : g.notes[r] # f.notes[r]}
  BY DEF Settled
<1>4. CASE f.floor = 0 \/ other \/ Settled(f, now) # {}
  <2>1. Opened(f, now, other) = Noted(g, now)
    BY <1>4 DEF Opened
  <2> HIDE DEF g
  <2>2. /\ Noted(g, now) \in Files /\ Noted(g, now).notes = g.notes
        /\ Noted(g, now).floor = now /\ Noted(g, now).notifiers = g.notifiers
    BY <1>1, NotedFacts
  <2> QED
    BY <1>1, <1>2, <2>1, <2>2 DEF Ages
<1>5. CASE ~(f.floor = 0 \/ other \/ Settled(f, now) # {})
  <2>1. Opened(f, now, other) = g
    BY <1>5 DEF Opened
  <2> HIDE DEF g
  <2>2. \A r \in Ref : g.notes[r] = f.notes[r]
    BY <1>3, <1>5
  <2> QED
    BY <1>1, <2>1, <2>2 DEF Ages, AgesTo, Files
<1> QED
  BY <1>4, <1>5

(* A record that aged is a record of the same kind, at a later time. *)
LEMMA RecordAges ==
    ASSUME NEW r \in Ref, NEW a \in Admission, NEW s \in Int, NEW t \in Int, s <= t,
           GoodRecord(r, a, s), NEW b \in Admission, AgesTo(r, a, b, t)
    PROVE  /\ GoodRecord(r, b, t)
           /\ b.state # "absent" => a.state # "absent" /\ b.req = a.req
           /\ b.state \in Live => b = a
<1>1. CASE b = a
  <2>1. a.state \in Ended => a.result.at \in Int
    BY DEF GoodRecord, Result
  <2>2. a.admitted \in Int /\ a.posted \in Int
    BY DEF Admission
  <2>3. a.state \notin {"absent", "gone"} => Valid(r, a, t)
    BY <2>1, <2>2 DEF GoodRecord, Valid
  <2> QED
    BY <1>1, <2>3 DEF GoodRecord
<1>2. CASE b = Absent
  BY <1>2 DEF Absent, GoodRecord, Live, Ended
<1>3. CASE a.state \in Live /\ b = [a EXCEPT !.state = "expired"]
  <2>1. b.state = "expired" /\ b.req = a.req /\ b.result = a.result
        /\ b.admitted = a.admitted /\ b.posted = a.posted
    BY <1>3 DEF Admission
  <2>2. a.state # "absent" /\ a.state # "gone" /\ Valid(r, a, s) /\ a.result = None
    BY <1>3 DEF GoodRecord, Live
  <2>3. a.admitted \in Int /\ a.posted \in Int
    BY DEF Admission
  <2>4. Valid(r, b, t)
    BY <2>1, <2>2, <2>3 DEF Valid, Live, Ended
  <2> QED
    BY <2>1, <2>2, <2>4 DEF GoodRecord, Live, Ended
<1> QED
  BY <1>1, <1>2, <1>3 DEF AgesTo

LEMMA RowsAge ==
    ASSUME NEW rows \in Rows, NEW s \in Int, NEW t \in Int, s <= t, GoodRows(rows, s)
    PROVE  GoodRows(rows, t)
<1> SUFFICES ASSUME NEW p \in Used(rows)
             PROVE  GoodRow(rows[p], t)
  BY DEF GoodRows
<1>1. rows[p] \in Notifier /\ GoodRow(rows[p], s)
  BY DEF GoodRows, Used, Rows
<1> QED
  BY <1>1 DEF GoodRow, Notifier

(* Fewer records are within the bounds. *)
LEMMA Fewer ==
    ASSUME NEW f, Bounded(f), NEW g, Held(g) \subseteq Held(f),
           \A p \in Program : Posted(g, p) \subseteq Posted(f, p)
    PROVE  Bounded(g)
<1>1. IsFiniteSet(Held(g)) /\ Cardinality(Held(g)) <= Cardinality(Held(f))
  BY FS_Subset DEF Bounded
<1>2. Cardinality(Held(g)) \in Nat /\ Cardinality(Held(f)) \in Nat
  BY <1>1, FS_CardinalityType DEF Bounded
<1>3. ASSUME NEW p \in Program
      PROVE  Cardinality(Posted(g, p)) <= MaxLive
  <2>1. Posted(f, p) \subseteq Held(f)
    BY DEF Posted, Held
  <2>2. IsFiniteSet(Posted(f, p)) /\ Cardinality(Posted(f, p)) \in Nat
    BY <2>1, FS_Subset, FS_CardinalityType DEF Bounded
  <2>3. Cardinality(Posted(g, p)) <= Cardinality(Posted(f, p))
        /\ Cardinality(Posted(g, p)) \in Nat
    BY <1>3, <2>2, FS_Subset, FS_CardinalityType
  <2> QED
    BY <1>3, <2>2, <2>3, BoundAssumption DEF Bounded
<1> QED
  BY <1>1, <1>2, <1>3, BoundAssumption DEF Bounded

(* A file that aged is a good file, with no more held or posted. *)
LEMMA AgesGood ==
    ASSUME NEW f, GoodFile(f), NEW g \in Files, Ages(f, g)
    PROVE  /\ GoodFile(g)
           /\ Held(g) \subseteq Held(f)
           /\ \A r \in Ref : g.notes[r].state \in Live => g.notes[r] = f.notes[r]
<1>1. f.floor \in Int /\ g.floor \in Int /\ f.floor <= g.floor /\ f.notifiers \in Rows
  BY DEF GoodFile, Files, Ages
<1>2. ASSUME NEW r \in Ref
      PROVE  /\ GoodRecord(r, g.notes[r], g.floor)
             /\ g.notes[r].state # "absent" => f.notes[r].state # "absent"
             /\ g.notes[r].state \in Live => g.notes[r] = f.notes[r]
  <2>1. f.notes[r] \in Admission /\ g.notes[r] \in Admission
        /\ GoodRecord(r, f.notes[r], f.floor) /\ AgesTo(r, f.notes[r], g.notes[r], g.floor)
    BY DEF GoodFile, Files, Ages
  <2> QED
    BY <1>1, <2>1, RecordAges
<1>3. Held(g) \subseteq Held(f)
  BY <1>2 DEF Held
<1>4. \A p \in Program : Posted(g, p) \subseteq Posted(f, p)
  BY <1>2 DEF Posted, Live
<1>5. Bounded(g)
  BY <1>3, <1>4, Fewer DEF GoodFile
<1>6. GoodRows(g.notifiers, g.floor)
  BY <1>1, RowsAge DEF GoodFile, Ages
<1> QED
  BY <1>2, <1>3, <1>5, <1>6 DEF GoodFile

LEMMA AgesTransitive ==
    ASSUME NEW f, GoodFile(f), NEW g \in Files, Ages(f, g), NEW h \in Files, Ages(g, h)
    PROVE  Ages(f, h)
<1>1. f.floor \in Int /\ g.floor \in Int /\ h.floor \in Int /\ f.floor <= g.floor /\ g.floor <= h.floor
      /\ h.notifiers = f.notifiers
  BY DEF GoodFile, Files, Ages
<1> SUFFICES ASSUME NEW r \in Ref
             PROVE  AgesTo(r, f.notes[r], h.notes[r], h.floor)
  BY <1>1 DEF Ages
<1> DEFINE a == f.notes[r]
           b == g.notes[r]
           c == h.notes[r]
<1>2. /\ a \in Admission /\ GoodRecord(r, a, f.floor)
      /\ AgesTo(r, a, b, g.floor) /\ AgesTo(r, b, c, h.floor)
  BY DEF GoodFile, Files, Ages
<1>3. ReplayUntil[r] \in Int /\ (a.state \in Live => a.req.expires \in Int)
  <2>1. a.state \in Live => a.req \in Request /\ a.req.ref \in Ref
    BY <1>2, RequestAssumption DEF GoodRecord, Live
  <2> QED
    BY <2>1, ReferenceAssumption, RequestAssumption
<1> HIDE DEF a, b, c
<1>4. CASE b = a
  BY <1>2, <1>4 DEF AgesTo, a, c
<1>5. CASE b = Absent /\ g.floor >= ReplayUntil[r]
  BY <1>1, <1>2, <1>3, <1>5 DEF AgesTo, Absent, Live, a, c
<1>6. CASE a.state \in Live /\ b = [a EXCEPT !.state = "expired"] /\ g.floor >= a.req.expires
  <2>1. b.state = "expired"
    BY <1>2, <1>6 DEF Admission
  <2> QED
    BY <1>1, <1>2, <1>3, <1>6, <2>1 DEF AgesTo, Live, a, c
<1> QED
  BY <1>2, <1>4, <1>5, <1>6 DEF AgesTo

LEMMA AgesNoted ==
    ASSUME NEW f, GoodFile(f), NEW g \in Files, Ages(f, g), NEW now \in Int
    PROVE  GoodFile(Noted(g, now)) /\ Ages(f, Noted(g, now))
<1>1. Noted(g, now) \in Files /\ Noted(g, now).notes = g.notes /\ g.floor <= Noted(g, now).floor
      /\ Noted(g, now).notifiers = g.notifiers
  BY NotedFacts
<1>2. Ages(g, Noted(g, now))
  BY <1>1 DEF Ages, AgesTo
<1>3. GoodFile(g)
  BY AgesGood
<1> QED
  BY <1>1, <1>2, <1>3, AgesGood, AgesTransitive

(* What an edit starts from: the file, aged, with nothing live that its own  *)
(* floor is past.                                                            *)
Opens(f, g) ==
    /\ GoodFile(g)
    /\ Ages(f, g)
    /\ \A r \in Ref : g.notes[r].state \in Live => f.floor < g.notes[r].req.expires

LEMMA OpeningFacts ==
    ASSUME NEW f, GoodFile(f), NEW e \in Openings(f)
    PROVE  Opens(f, e.book)
<1>1. PICK now \in Readings(f), other \in BOOLEAN :
         e = [book |-> Opened(f, now, other), settled |-> Settled(f, now)]
  BY DEF Openings
<1>2. now \in Int /\ now >= f.floor /\ f \in Files /\ f.floor \in Int
  BY ReadingsAhead DEF GoodFile, Files
<1> DEFINE g == Opened(f, now, other)
<1>3. g \in Files /\ Ages(f, g)
  BY <1>2, OpenedFacts
<1>4. g.notes = [r \in Ref |-> Aged(r, f.notes[r], now)]
  <2>1. Collected(f, now) \in Files /\ Collected(f, now).notes = [r \in Ref |-> Aged(r, f.notes[r], now)]
    BY <1>2, CollectedFacts
  <2>2. Noted(Collected(f, now), now).notes = Collected(f, now).notes
    BY <1>2, <2>1, NotedFacts
  <2> QED
    BY <2>1, <2>2 DEF Opened
<1>5. e.book = g
  BY <1>1
<1> HIDE DEF g
<1>6. GoodFile(g) /\ \A r \in Ref : g.notes[r].state \in Live => g.notes[r] = f.notes[r]
  BY <1>3, AgesGood
<1>7. ASSUME NEW r \in Ref, g.notes[r].state \in Live
      PROVE  f.floor < g.notes[r].req.expires
  <2>1. g.notes[r] = Aged(r, f.notes[r], now) /\ g.notes[r] = f.notes[r]
    BY <1>4, <1>6, <1>7
  <2>2. f.notes[r] \in Admission /\ f.notes[r].state \in Live /\ GoodRecord(r, f.notes[r], f.floor)
    BY <1>7, <2>1 DEF GoodFile, Files
  <2>3. f.notes[r].req.expires \in Int
    BY <2>2, RequestAssumption DEF GoodRecord, Live
  <2>4. f.notes[r] # Absent /\ f.notes[r] # [f.notes[r] EXCEPT !.state = "expired"]
    BY <2>2 DEF Absent, Live, Admission
  <2>5. ~(now >= f.notes[r].req.expires)
    BY <2>1, <2>2, <2>4 DEF Aged
  <2> QED
    BY <1>2, <2>1, <2>3, <2>5
<1> QED
  BY <1>3, <1>5, <1>6, <1>7 DEF Opens

(* What a read answers from: the file as it is, or aged and kept. *)
LEMMA AfterReadFacts ==
    ASSUME NEW f, GoodFile(f), NEW p \in AfterRead(f)
    PROVE  GoodFile(p.book) /\ Ages(f, p.book)
<1>1. CASE p = [book |-> f, settled |-> {}]
  BY <1>1 DEF Ages, AgesTo, GoodFile, Files
<1>2. CASE \E e \in Openings(f), now \in Readings(f) : p = [e EXCEPT !.book = Noted(@, now)]
  <2>1. PICK e \in Openings(f), now \in Readings(f) : p = [e EXCEPT !.book = Noted(@, now)]
    BY <1>2
  <2>2. now \in Int
    BY ReadingsAhead DEF GoodFile, Files
  <2>3. GoodFile(e.book) /\ Ages(f, e.book)
    BY OpeningFacts DEF Opens
  <2>4. p.book = Noted(e.book, now)
    BY <2>1 DEF Openings
  <2> QED
    BY <2>2, <2>3, <2>4, AgesNoted DEF GoodFile
<1> QED
  BY <1>1, <1>2 DEF AfterRead

(* A record that its withdrawal leaves. *)
Taken(a, t) == [a EXCEPT !.state = "withdrawn", !.result = [action |-> None, at |-> t]]

(* The file with the records n. *)
LEMMA WithNotes ==
    ASSUME NEW f \in Files, NEW n \in [Ref -> Admission]
    PROVE  /\ [f EXCEPT !.notes = n] \in Files
           /\ [f EXCEPT !.notes = n].notes = n
           /\ [f EXCEPT !.notes = n].floor = f.floor
           /\ [f EXCEPT !.notes = n].notifiers = f.notifiers
BY DEF Files

LEMMA TakenType ==
    ASSUME NEW a \in Admission, NEW t \in Int
    PROVE  /\ Taken(a, t) \in Admission
           /\ Taken(a, t).state = "withdrawn"
           /\ Taken(a, t).result = [action |-> None, at |-> t]
           /\ Taken(a, t).req = a.req
           /\ Taken(a, t).admitted = a.admitted
           /\ Taken(a, t).posted = a.posted
<1>1. [action |-> None, at |-> t] \in Result
  BY DEF Result
<1> QED
  BY <1>1 DEF Taken, Admission, Ended

(* withdrawRecord touches the records it names. *)
LEMMA WithdrawnFacts ==
    ASSUME NEW f \in Files, NEW S, NEW now \in Int
    PROVE  /\ Withdrawn(f, S, now) \in Files
           /\ Withdrawn(f, S, now).notes =
                 [r \in Ref |-> IF r \in S THEN Taken(f.notes[r], now) ELSE f.notes[r]]
           /\ Withdrawn(f, S, now).floor = f.floor
           /\ Withdrawn(f, S, now).notifiers = f.notifiers
<1> DEFINE n == [r \in Ref |-> IF r \in S THEN Taken(f.notes[r], now) ELSE f.notes[r]]
<1>1. n \in [Ref -> Admission]
  BY TakenType DEF Files
<1>2. Withdrawn(f, S, now) = [f EXCEPT !.notes = n]
  BY DEF Withdrawn, Taken
<1> HIDE DEF n
<1>3. [f EXCEPT !.notes = n] \in Files /\ [f EXCEPT !.notes = n].notes = n
      /\ [f EXCEPT !.notes = n].floor = f.floor /\ [f EXCEPT !.notes = n].notifiers = f.notifiers
  BY <1>1, WithNotes
<1> QED
  BY <1>2, <1>3 DEF n

(* One record written, at time now. *)
LEMMA WriteFacts ==
    ASSUME NEW f \in Files, NEW r \in Ref, NEW b \in Admission, NEW now \in Int, now >= f.floor
    PROVE  /\ Noted([f EXCEPT !.notes[r] = b], now) \in Files
           /\ Noted([f EXCEPT !.notes[r] = b], now).notes = [f.notes EXCEPT ![r] = b]
           /\ Noted([f EXCEPT !.notes[r] = b], now).floor = now
           /\ Noted([f EXCEPT !.notes[r] = b], now).notifiers = f.notifiers
<1> DEFINE n == [f.notes EXCEPT ![r] = b]
<1>1. n \in [Ref -> Admission]
  BY DEF Files
<1>2. [f EXCEPT !.notes[r] = b] = [f EXCEPT !.notes = n]
  BY DEF Files
<1> HIDE DEF n
<1> DEFINE u == [f EXCEPT !.notes = n]
<1>3. u \in Files /\ u.notes = n /\ u.floor = f.floor /\ u.notifiers = f.notifiers
  BY <1>1, WithNotes
<1> HIDE DEF u
<1>4. Noted(u, now) \in Files /\ Noted(u, now).notes = n
      /\ Noted(u, now).floor = now /\ Noted(u, now).notifiers = f.notifiers
  BY <1>3, NotedFacts
<1> QED
  BY <1>2, <1>4 DEF u, n

-----------------------------------------------------------------------------
(* The moves of one record at time t. *)

Ends(a, b, t) ==
    /\ a.state \in Live /\ t < a.req.expires
    /\ \E to \in Ended, action \in Action \cup {None} :
          /\ IF to = "acted" THEN a.state = "posted" /\ action \in a.req.actions
             ELSE action = None
          /\ b = [a EXCEPT !.state = to, !.result = [action |-> action, at |-> t]]

Acks(a, b) ==
    /\ a.state \in Ended
    /\ b = [a EXCEPT !.state = "gone", !.admitted = 0, !.posted = 0]

Shows(a, b, t) ==
    /\ a.state = "scheduled" /\ 0 < t /\ t < a.req.expires
    /\ b = [a EXCEPT !.state = "posted", !.posted = t]

Admits(q, a, b, t) ==
    /\ a = Absent /\ 0 < t /\ t < q.expires /\ ReplayUntil[q.ref] - t <= MaxReplay
    /\ b = [state |-> IF q.delivery = "now" THEN "posted" ELSE "scheduled", req |-> q,
            admitted |-> t, posted |-> IF q.delivery = "now" THEN t ELSE 0,
            result |-> None]

MovesTo(r, a, b, t) ==
    \/ b = a
    \/ Ends(a, b, t)
    \/ Acks(a, b)
    \/ Shows(a, b, t)
    \/ a.state \in Live /\ b = Taken(a, t)
    \/ \E q \in Request : q.ref = r /\ Admits(q, a, b, t)

(* Every move leaves a record in order. *)
LEMMA RecordMoves ==
    ASSUME NEW r \in Ref, NEW a \in Admission, NEW s \in Int, NEW t \in Int, s <= t,
           GoodRecord(r, a, s), NEW b \in Admission, MovesTo(r, a, b, t)
    PROVE  GoodRecord(r, b, t)
<1>0. /\ a.admitted \in Int /\ a.posted \in Int
      /\ a.state \in Live => /\ a.state # "absent" /\ a.state # "gone" /\ Valid(r, a, s)
                              /\ a.req \in Request /\ a.req.ref = r /\ 0 < t
  BY DEF GoodRecord, Admission, Live
<1>1. CASE b = a
  <2>1. AgesTo(r, a, b, t)
    BY <1>1 DEF AgesTo
  <2> QED
    BY <2>1, RecordAges
<1>2. CASE Ends(a, b, t)
  <2>1. PICK to \in Ended, action \in Action \cup {None} :
          /\ IF to = "acted" THEN a.state = "posted" /\ action \in a.req.actions
             ELSE action = None
          /\ b = [a EXCEPT !.state = to, !.result = [action |-> action, at |-> t]]
    BY <1>2 DEF Ends
  <2>2. /\ b.state = to /\ b.req = a.req /\ b.result = [action |-> action, at |-> t]
        /\ b.admitted = a.admitted /\ b.posted = a.posted
    BY <2>1 DEF Admission
  <2>3. b.result \in Result /\ b.result.at = t /\ b.result.action = action
    BY <2>2 DEF Result
  <2>4. a.state \in Live
    BY <1>2 DEF Ends
  <2>5. Valid(r, b, t)
    BY <1>0, <2>1, <2>2, <2>3, <2>4 DEF Valid, Ended, Live
  <2> QED
    BY <1>0, <2>2, <2>3, <2>4, <2>5 DEF GoodRecord, Ended, Live
<1>3. CASE Acks(a, b)
  <2>1. b.state = "gone" /\ b.req = a.req /\ b.result = a.result /\ a.state \in Ended
    BY <1>3 DEF Acks, Admission
  <2> QED
    BY <2>1 DEF GoodRecord, Live, Ended
<1>4. CASE Shows(a, b, t)
  <2>1. b.state = "posted" /\ b.req = a.req /\ b.result = a.result
        /\ b.admitted = a.admitted /\ b.posted = t /\ a.state = "scheduled" /\ 0 < t
    BY <1>4 DEF Shows, Admission
  <2>2. Valid(r, a, s) /\ a.result = None
    BY <1>0, <2>1 DEF GoodRecord, Live
  <2>3. Valid(r, b, t)
    BY <1>0, <2>1, <2>2 DEF Valid, Ended
  <2> QED
    BY <1>0, <2>1, <2>2, <2>3 DEF GoodRecord, Ended, Live
<1>5. CASE a.state \in Live /\ b = Taken(a, t)
  <2>1. /\ b.state = "withdrawn" /\ b.req = a.req /\ b.result = [action |-> None, at |-> t]
        /\ b.admitted = a.admitted /\ b.posted = a.posted
    BY <1>5, TakenType
  <2>2. b.result \in Result /\ b.result.at = t /\ b.result.action = None
    BY <2>1 DEF Result
  <2>3. Valid(r, b, t)
    BY <1>0, <1>5, <2>1, <2>2 DEF Valid, Ended
  <2> QED
    BY <1>0, <1>5, <2>1, <2>2, <2>3 DEF GoodRecord, Ended, Live
<1>6. CASE \E q \in Request : q.ref = r /\ Admits(q, a, b, t)
  <2>1. PICK q \in Request : q.ref = r /\ Admits(q, a, b, t)
    BY <1>6
  <2>2. /\ b.state = IF q.delivery = "now" THEN "posted" ELSE "scheduled"
        /\ b.req = q /\ b.result = None /\ b.admitted = t
        /\ b.posted = IF q.delivery = "now" THEN t ELSE 0
        /\ 0 < t /\ t < q.expires /\ ReplayUntil[r] - t <= MaxReplay
    BY <2>1 DEF Admits
  <2>3. Valid(r, b, t)
    BY <2>2 DEF Valid, Ended
  <2> QED
    BY <2>1, <2>2, <2>3 DEF GoodRecord, Ended, Live
<1> QED
  BY <1>1, <1>2, <1>3, <1>4, <1>5, <1>6 DEF MovesTo

-----------------------------------------------------------------------------
(* The rows of the notifiers. *)

(* In a row in order, the times up to t come first. *)
LEMMA EarlierFirst ==
    ASSUME NEW s \in Seq(Int), NEW last \in Int, SortedTo(s, last), NEW t \in Int
    PROVE  LET X == {i \in DOMAIN s : s[i] <= t} IN
           X = 1 .. Cardinality(X) /\ Cardinality(X) \in 0 .. Len(s)
<1> DEFINE X == {i \in DOMAIN s : s[i] <= t}
           n == Len(s)
           c == Cardinality(X)
<1>1. DOMAIN s = 1 .. n /\ n \in Nat
  OBVIOUS
<1>2. IsFiniteSet(1 .. n) /\ Cardinality(1 .. n) = n
  <2>1. 1 \in Int /\ n \in Int /\ (1 > n => n = 0) /\ n - 1 + 1 = n
    BY <1>1
  <2> HIDE DEF n
  <2> QED
    BY <2>1, FS_Interval
<1>3. X \subseteq 1 .. n
  BY <1>1
<1>4. IsFiniteSet(X) /\ c \in Nat /\ c <= n
  BY <1>2, <1>3, FS_Subset, FS_CardinalityType
<1>5. ASSUME NEW j \in X
      PROVE  j \in 1 .. c
  <2>1. j \in 1 .. n /\ s[j] <= t
    BY <1>1
  <2>2. ASSUME NEW i \in 1 .. j
        PROVE  i \in X
    <3>1. i \in 1 .. n /\ (i < j => s[i] <= s[j])
      BY <1>1, <2>1 DEF SortedTo
    <3>2. s[i] \in Int /\ s[j] \in Int
      BY <1>1, <2>1, <3>1
    <3> QED
      BY <1>1, <2>1, <3>1, <3>2
  <2>3. 1 .. j \subseteq X
    BY <2>2
  <2>4. j \in Nat /\ Cardinality(1 .. j) = j
    BY <1>1, <2>1, FS_Interval
  <2>5. Cardinality(1 .. j) <= c
    BY <1>4, <2>3, FS_Subset
  <2> QED
    BY <1>1, <1>4, <2>1, <2>4, <2>5
<1>6. X \subseteq 1 .. c
  BY <1>5
<1>7. IsFiniteSet(1 .. c) /\ Cardinality(1 .. c) = c
  BY <1>4, FS_Interval
<1>8. X = 1 .. c
  BY <1>6, <1>7, FS_Subset
<1> QED
  BY <1>1, <1>4, <1>8

(* slices.DeleteFunc keeps the times after t, in their order. *)
LEMMA SinceFacts ==
    ASSUME NEW s \in Seq(Int), NEW last \in Int, SortedTo(s, last), NEW t \in Int
    PROVE  \E k \in 0 .. Len(s) :
             /\ \A i \in 1 .. Len(s) : s[i] <= t <=> i <= k
             /\ Since(s, t) \in Seq(Int)
             /\ Len(Since(s, t)) = Len(s) - k
             /\ \A i \in 1 .. Len(s) - k : Since(s, t)[i] = s[i + k]
<1> DEFINE X == {i \in DOMAIN s : s[i] <= t}
           k == Cardinality(X)
<1>1. X = 1 .. k /\ k \in 0 .. Len(s)
  BY EarlierFirst
<1>2. \A i \in 1 .. Len(s) : s[i] <= t <=> i \in X
  OBVIOUS
<1>3. Since(s, t) = SubSeq(s, 1 + k, Len(s))
  BY DEF Since
<1> HIDE DEF k, X
<1>4. Len(s) \in Nat /\ k \in Int /\ 1 + k \in Int /\ \A i \in (1 + k) .. Len(s) : s[i] \in Int
  BY <1>1
<1>5. /\ SubSeq(s, 1 + k, Len(s)) \in Seq(Int)
      /\ Len(SubSeq(s, 1 + k, Len(s))) = IF 1 + k <= Len(s) THEN Len(s) - (1 + k) + 1 ELSE 0
      /\ \A i \in 1 .. Len(s) - (1 + k) + 1 : SubSeq(s, 1 + k, Len(s))[i] = s[(1 + k) + i - 1]
  BY <1>4, SubSeqProperties
<1>6. Len(Since(s, t)) = Len(s) - k
  BY <1>1, <1>3, <1>4, <1>5
<1>7. ASSUME NEW i \in 1 .. Len(s) - k
      PROVE  Since(s, t)[i] = s[i + k]
  BY <1>1, <1>3, <1>4, <1>5
<1>8. \A i \in 1 .. Len(s) : s[i] <= t <=> i <= k
  BY <1>1, <1>2
<1> QED
  BY <1>1, <1>3, <1>5, <1>6, <1>7, <1>8

(* The row of a program, and the same with one more admission at `now`. *)
Counted(n, now) == [recent |-> Append(Recent(n, now), now), last |-> now]

LEMMA CountedFacts ==
    ASSUME NEW n \in Notifier, SortedTo(n.recent, n.last), NEW now \in Int,
           0 < now, n.last <= now, Len(Recent(n, now)) < MaxPerHour
    PROVE  Counted(n, now) \in Notifier /\ GoodRow(Counted(n, now), now)
<1> DEFINE s == n.recent
           u == Recent(n, now)
           w == Append(u, now)
<1>1. s \in Seq(Int) /\ n.last \in Int /\ Hour \in Int /\ MaxPerHour \in Int
  BY BoundAssumption DEF Notifier
<1>2. u = Since(s, now - Hour) /\ now - Hour \in Int /\ SortedTo(s, n.last)
  BY <1>1 DEF Recent
<1> HIDE DEF s, u
<1>3. PICK k \in 0 .. Len(s) :
        /\ u \in Seq(Int) /\ Len(u) = Len(s) - k
        /\ \A i \in 1 .. Len(s) - k : u[i] = s[i + k]
  BY <1>1, <1>2, SinceFacts
<1>4. /\ \A i \in 1 .. Len(s) : 0 < s[i] /\ s[i] <= n.last /\ s[i] \in Int
      /\ \A i, j \in 1 .. Len(s) : i < j => s[i] <= s[j]
  BY <1>1, <1>2 DEF SortedTo
<1>5. Len(s) \in Nat
  BY <1>1
<1>6. \A i \in 1 .. Len(u) : 0 < u[i] /\ u[i] <= now /\ u[i] \in Int
  <2> SUFFICES ASSUME NEW i \in 1 .. Len(u)
               PROVE  0 < u[i] /\ u[i] <= now /\ u[i] \in Int
    OBVIOUS
  <2>1. i + k \in 1 .. Len(s) /\ u[i] = s[i + k]
    BY <1>3, <1>5
  <2> QED
    BY <1>1, <1>4, <2>1
<1>7. \A i, j \in 1 .. Len(u) : i < j => u[i] <= u[j]
  <2> SUFFICES ASSUME NEW i \in 1 .. Len(u), NEW j \in 1 .. Len(u), i < j
               PROVE  u[i] <= u[j]
    OBVIOUS
  <2>1. i + k \in 1 .. Len(s) /\ u[i] = s[i + k] /\ j + k \in 1 .. Len(s) /\ u[j] = s[j + k]
        /\ i + k < j + k
    BY <1>3, <1>5
  <2> QED
    BY <1>4, <2>1
<1>8. /\ w \in Seq(Int) /\ Len(w) = Len(u) + 1 /\ w[Len(u) + 1] = now
      /\ \A i \in 1 .. Len(u) : w[i] = u[i]
      /\ Len(u) \in Nat
  BY <1>3
<1> HIDE DEF w
<1>9. SortedTo(w, now)
  <2>1. ASSUME NEW i \in 1 .. Len(w)
        PROVE  0 < w[i] /\ w[i] <= now
    <3>1. CASE i = Len(u) + 1
      BY <1>8, <3>1
    <3>2. CASE i \in 1 .. Len(u)
      BY <1>6, <1>8, <3>2
    <3> QED
      BY <1>8, <3>1, <3>2
  <2>2. ASSUME NEW i \in 1 .. Len(w), NEW j \in 1 .. Len(w), i < j
        PROVE  w[i] <= w[j]
    <3>1. i \in 1 .. Len(u)
      BY <1>8, <2>2
    <3>2. CASE j = Len(u) + 1
      BY <1>6, <1>8, <3>1, <3>2
    <3>3. CASE j \in 1 .. Len(u)
      BY <1>7, <1>8, <2>2, <3>1, <3>3
    <3> QED
      BY <1>8, <3>2, <3>3
  <2> QED
    BY <2>1, <2>2 DEF SortedTo
<1>10. Len(w) <= MaxPerHour
  BY <1>1, <1>8 DEF u
<1>11. Counted(n, now).recent = w /\ Counted(n, now).last = now
  BY DEF Counted, w, u
<1> QED
  BY <1>8, <1>9, <1>10, <1>11 DEF Counted, Notifier, GoodRow, w, u

(* Room is made for one row more, and no other row changes. *)
LEMMA EvictedFacts ==
    ASSUME NEW rows \in Rows, IsFiniteSet(Used(rows)), Cardinality(Used(rows)) <= MaxNotifiers,
           NEW m \in Evicted(rows)
    PROVE  /\ m \in Rows
           /\ IsFiniteSet(Used(m)) /\ Cardinality(Used(m)) + 1 <= MaxNotifiers
           /\ \A x \in Used(m) : x \in Used(rows) /\ m[x] = rows[x]
<1>1. MaxNotifiers \in Nat \ {0} /\ Cardinality(Used(rows)) \in Nat
  BY BoundAssumption, FS_CardinalityType
<1>2. CASE Cardinality(Used(rows)) < MaxNotifiers
  <2>1. m = rows
    BY <1>2 DEF Evicted, Used
  <2> QED
    BY <1>1, <1>2, <2>1
<1>3. CASE ~(Cardinality(Used(rows)) < MaxNotifiers)
  <2>1. PICK p \in Used(rows) : m = [rows EXCEPT ![p] = None]
    BY <1>3 DEF Evicted, Used
  <2>2. p \in Program /\ m \in Rows
    BY <2>1 DEF Used, Rows
  <2>3. Used(m) = Used(rows) \ {p}
    BY <2>1, <2>2 DEF Used, Rows
  <2>4. \A x \in Used(m) : x \in Used(rows) /\ m[x] = rows[x]
    BY <2>1, <2>3 DEF Used, Rows
  <2>5. IsFiniteSet(Used(m)) /\ Cardinality(Used(m)) = Cardinality(Used(rows)) - 1
    BY <2>1, <2>3, FS_RemoveElement
  <2> QED
    BY <1>1, <2>2, <2>4, <2>5
<1> QED
  BY <1>2, <1>3

(* The rows an admission of p may start from. *)
Bases(rows, p) ==
    IF rows[p] # None THEN {rows}
    ELSE {[m EXCEPT ![p] = NewNotifier] : m \in Evicted(rows)}

LEMMA NewNotifierType ==
    NewNotifier \in Notifier /\ SortedTo(NewNotifier.recent, 0) /\ NewNotifier.last = 0
<1>1. <<>> \in Seq(Int) /\ Len(<<>>) = 0
  OBVIOUS
<1> QED
  BY <1>1 DEF NewNotifier, Notifier, SortedTo

LEMMA BasesFacts ==
    ASSUME NEW rows \in Rows, NEW t \in Int, GoodRows(rows, t), NEW now \in Int, 0 < now, t <= now,
           NEW p \in Program, NEW n \in Bases(rows, p)
    PROVE  /\ n \in Rows
           /\ IsFiniteSet(Used(n) \cup {p}) /\ Cardinality(Used(n) \cup {p}) <= MaxNotifiers
           /\ \A x \in Used(n) \ {p} : n[x] = rows[x] /\ x \in Used(rows)
           /\ n[p] \in Notifier /\ SortedTo(n[p].recent, n[p].last) /\ n[p].last <= now
<1>1. MaxNotifiers \in Nat \ {0}
  BY BoundAssumption
<1>2. CASE rows[p] # None
  <2>1. n = rows /\ p \in Used(rows) /\ Used(n) \cup {p} = Used(n)
    BY <1>2 DEF Bases, Used
  <2>2. rows[p] \in Notifier /\ GoodRow(rows[p], t)
    BY <2>1 DEF GoodRows, Used, Rows
  <2>3. rows[p].last \in Int /\ rows[p].last <= now
    BY <2>2 DEF GoodRow, Notifier
  <2> QED
    BY <2>1, <2>2, <2>3 DEF GoodRows, GoodRow
<1>3. CASE rows[p] = None
  <2>1. PICK m \in Evicted(rows) : n = [m EXCEPT ![p] = NewNotifier]
    BY <1>3 DEF Bases
  <2>2. /\ m \in Rows /\ IsFiniteSet(Used(m)) /\ Cardinality(Used(m)) + 1 <= MaxNotifiers
        /\ \A x \in Used(m) : x \in Used(rows) /\ m[x] = rows[x]
    BY EvictedFacts DEF GoodRows
  <2>3. n \in Rows /\ n[p] = NewNotifier /\ \A x \in Program \ {p} : n[x] = m[x]
    BY <2>1, <2>2, NewNotifierType DEF Rows
  <2>4. Used(n) \cup {p} = Used(m) \cup {p}
    BY <2>3 DEF Used
  <2>5. IsFiniteSet(Used(m) \cup {p}) /\ Cardinality(Used(m) \cup {p}) <= Cardinality(Used(m)) + 1
        /\ Cardinality(Used(m) \cup {p}) \in Nat /\ Cardinality(Used(m)) \in Nat
    <3>1. /\ IsFiniteSet(Used(m) \cup {p})
          /\ Cardinality(Used(m) \cup {p}) =
                IF p \in Used(m) THEN Cardinality(Used(m)) ELSE Cardinality(Used(m)) + 1
      BY <2>2, FS_AddElement
    <3>2. Cardinality(Used(m)) \in Nat
      BY <2>2, FS_CardinalityType
    <3> QED
      BY <3>1, <3>2
  <2>6. \A x \in Used(n) \ {p} : n[x] = rows[x] /\ x \in Used(rows)
    BY <2>2, <2>3, <2>4 DEF Used
  <2> QED
    BY <1>1, <2>2, <2>3, <2>4, <2>5, <2>6, NewNotifierType
<1> QED
  BY <1>2, <1>3

(* notice leaves the rows in order, and one more admission counted. *)
LEMMA NoticedFacts ==
    ASSUME NEW f \in Files, GoodRows(f.notifiers, f.floor), NEW p \in Program,
           NEW now \in Int, 0 < now, f.floor <= now, NEW g \in Noticed(f, p, now)
    PROVE  /\ g \in Files /\ g.notes = f.notes /\ g.floor = f.floor
           /\ GoodRows(g.notifiers, now)
           /\ \E n \in Bases(f.notifiers, p) :
                 /\ Len(Recent(n[p], now)) < MaxPerHour
                 /\ g.notifiers = [n EXCEPT ![p] = Counted(n[p], now)]
<1>0. f.notifiers \in Rows /\ f.floor \in Int
  BY DEF Files
<1>1. PICK n \in Bases(f.notifiers, p) :
        /\ Len(Recent(n[p], now)) < MaxPerHour
        /\ g = [f EXCEPT !.notifiers = [n EXCEPT ![p] = Counted(n[p], now)]]
  BY DEF Noticed, Bases, Counted
<1>2. /\ n \in Rows
      /\ IsFiniteSet(Used(n) \cup {p}) /\ Cardinality(Used(n) \cup {p}) <= MaxNotifiers
      /\ \A x \in Used(n) \ {p} : n[x] = f.notifiers[x] /\ x \in Used(f.notifiers)
      /\ n[p] \in Notifier /\ SortedTo(n[p].recent, n[p].last) /\ n[p].last <= now
  BY <1>0, BasesFacts
<1>3. Counted(n[p], now) \in Notifier /\ GoodRow(Counted(n[p], now), now)
  BY <1>1, <1>2, CountedFacts
<1> DEFINE rows == [n EXCEPT ![p] = Counted(n[p], now)]
<1>4. rows \in Rows /\ rows[p] = Counted(n[p], now) /\ \A x \in Program \ {p} : rows[x] = n[x]
  BY <1>2, <1>3 DEF Rows
<1>5. g = [f EXCEPT !.notifiers = rows]
  BY <1>1
<1> HIDE DEF rows
<1>6. g \in Files /\ g.notes = f.notes /\ g.floor = f.floor /\ g.notifiers = rows
  BY <1>4, <1>5 DEF Files
<1>7. Used(rows) \subseteq Used(n) \cup {p}
  BY <1>4 DEF Used
<1>8. IsFiniteSet(Used(rows)) /\ Cardinality(Used(rows)) <= MaxNotifiers
  <2>1. /\ IsFiniteSet(Used(rows)) /\ Cardinality(Used(rows)) <= Cardinality(Used(n) \cup {p})
        /\ Cardinality(Used(rows)) \in Nat /\ Cardinality(Used(n) \cup {p}) \in Nat
    BY <1>2, <1>7, FS_Subset, FS_CardinalityType
  <2> QED
    BY <1>2, <2>1, BoundAssumption
<1>9. ASSUME NEW x \in Used(rows)
      PROVE  GoodRow(rows[x], now)
  <2>1. CASE x = p
    BY <1>3, <1>4, <2>1
  <2>2. CASE x # p
    <3>1. x \in Used(n) \ {p} /\ rows[x] = f.notifiers[x] /\ x \in Used(f.notifiers)
      BY <1>2, <1>4, <1>7, <1>9, <2>2 DEF Used
    <3>2. GoodRows(f.notifiers, now)
      BY <1>0, RowsAge
    <3> QED
      BY <3>1, <3>2 DEF GoodRows
  <2> QED
    BY <2>1, <2>2
<1>10. GoodRows(rows, now)
  BY <1>8, <1>9 DEF GoodRows
<1> QED
  BY <1>1, <1>6, <1>10 DEF rows

-----------------------------------------------------------------------------
(* The shapes of a step that changes the file from f to h: it ages, or it    *)
(* opens as g and then ...                                                   *)

From(f, g, h) == Opens(f, g) /\ h \in Files /\ g.floor <= h.floor

Aging(f, h) == h \in Files /\ Ages(f, h)

(* ... one record ends or is acknowledged, before its replay deadline, *)
Finished(f, h, r) ==
    \E g : /\ From(f, g, h) /\ h.notifiers = g.notifiers
           /\ h.floor < ReplayUntil[r]
           /\ Ends(g.notes[r], h.notes[r], h.floor) \/ Acks(g.notes[r], h.notes[r])
           /\ \A s \in Ref \ {r} : h.notes[s] = g.notes[s]

(* ... all that p has live is withdrawn, *)
Doomed(g, p, t) == {s \in LiveOf(g, p) : t < g.notes[s].req.expires}

Silenced(f, h, p) ==
    \E g : /\ From(f, g, h) /\ h.notifiers = g.notifiers
           /\ \A s \in Ref : h.notes[s] = IF s \in Doomed(g, p, h.floor)
                                         THEN Taken(g.notes[s], h.floor) ELSE g.notes[s]

(* ... a held one is posted and the oldest displaced, *)
Delivered(f, h, r) ==
    \E g : \E D \in Displaced(g, Posted(g, Owner[r])) :
        /\ From(f, g, h) /\ h.notifiers = g.notifiers
        /\ Shows(g.notes[r], h.notes[r], h.floor)
        /\ \A s \in Ref \ {r} : h.notes[s] = IF s \in D THEN Taken(g.notes[s], h.floor)
                                            ELSE g.notes[s]

(* ... or one is admitted, what it replaces and displaces withdrawn. *)
Leaving(g, q) ==
    IF q.delivery = "now" THEN Displaced(g, Posted(g, Owner[q.ref]) \ Replaced(g, q)) ELSE {{}}

Admitted(f, h, q) ==
    \E g : \E D \in Leaving(g, q) :
        /\ From(f, g, h)
        /\ Cardinality(Held(g)) < MaxAdmissions
        /\ GoodRows(h.notifiers, h.floor)
        /\ \E n \in Bases(f.notifiers, Owner[q.ref]) :
              /\ Len(Recent(n[Owner[q.ref]], h.floor)) < MaxPerHour
              /\ h.notifiers = [n EXCEPT ![Owner[q.ref]] = Counted(n[Owner[q.ref]], h.floor)]
        /\ Admits(q, g.notes[q.ref], h.notes[q.ref], h.floor)
        /\ \A s \in Ref \ {q.ref} :
              h.notes[s] = IF s \in Replaced(g, q) \cup D THEN Taken(g.notes[s], h.floor)
                           ELSE g.notes[s]

LEMMA FromFacts ==
    ASSUME NEW f, NEW g, NEW h, From(f, g, h)
    PROVE  /\ GoodFile(g) /\ g \in Files /\ h \in Files
           /\ g.floor \in Int /\ h.floor \in Int /\ g.floor <= h.floor
           /\ \A s \in Ref : /\ g.notes[s] \in Admission /\ h.notes[s] \in Admission
                             /\ GoodRecord(s, g.notes[s], g.floor)
BY DEF From, Opens, GoodFile, Files

(* Moves within the bounds leave a good file. *)
LEMMA MovesGood ==
    ASSUME NEW f, NEW g, NEW h, From(f, g, h),
           \A s \in Ref : MovesTo(s, g.notes[s], h.notes[s], h.floor),
           Bounded(h), GoodRows(h.notifiers, h.floor)
    PROVE  GoodFile(h)
<1> SUFFICES ASSUME NEW s \in Ref
             PROVE  GoodRecord(s, h.notes[s], h.floor)
  BY DEF GoodFile, From
<1> QED
  BY FromFacts, RecordMoves

LEMMA SameRows ==
    ASSUME NEW f, NEW g, NEW h, From(f, g, h), h.notifiers = g.notifiers
    PROVE  GoodRows(h.notifiers, h.floor)
<1>1. g.notifiers \in Rows /\ GoodRows(g.notifiers, g.floor)
  BY FromFacts DEF GoodFile, Files
<1> QED
  BY <1>1, FromFacts, RowsAge

LEMMA FinishedGood ==
    ASSUME NEW f, NEW h, NEW r \in Ref, Finished(f, h, r)
    PROVE  GoodFile(h)
<1>1. PICK g : /\ From(f, g, h) /\ h.notifiers = g.notifiers
               /\ Ends(g.notes[r], h.notes[r], h.floor) \/ Acks(g.notes[r], h.notes[r])
               /\ \A s \in Ref \ {r} : h.notes[s] = g.notes[s]
  BY DEF Finished
<1>2. \A s \in Ref : MovesTo(s, g.notes[s], h.notes[s], h.floor)
  BY <1>1 DEF MovesTo
<1>3. /\ g.notes[r] \in Admission
      /\ g.notes[r].state \in Live \cup Ended
      /\ h.notes[r].state \in Ended \cup {"gone"}
  <2>1. g.notes[r] \in Admission
    BY <1>1, FromFacts
  <2> QED
    BY <1>1, <2>1 DEF Ends, Acks, Admission
<1>4. Held(h) \subseteq Held(g) /\ \A p \in Program : Posted(h, p) \subseteq Posted(g, p)
  BY <1>1, <1>3 DEF Held, Posted, Live, Ended
<1>5. Bounded(h)
  BY <1>1, <1>4, FromFacts, Fewer DEF GoodFile
<1> QED
  BY <1>1, <1>2, <1>5, SameRows, MovesGood

LEMMA SilencedGood ==
    ASSUME NEW f, NEW h, NEW p \in Program, Silenced(f, h, p)
    PROVE  GoodFile(h)
<1>1. PICK g : /\ From(f, g, h) /\ h.notifiers = g.notifiers
               /\ \A s \in Ref : h.notes[s] = IF s \in Doomed(g, p, h.floor)
                                             THEN Taken(g.notes[s], h.floor) ELSE g.notes[s]
  BY DEF Silenced
<1>2. \A s \in Doomed(g, p, h.floor) : s \in Ref /\ g.notes[s].state \in Live
  BY DEF Doomed, LiveOf
<1>3. \A s \in Ref : MovesTo(s, g.notes[s], h.notes[s], h.floor)
  BY <1>1, <1>2 DEF MovesTo
<1>4. ASSUME NEW s \in Doomed(g, p, h.floor)
      PROVE  h.notes[s].state = "withdrawn"
  <2>1. s \in Ref /\ h.notes[s] = Taken(g.notes[s], h.floor)
    BY <1>1, <1>2
  <2>2. g.notes[s] \in Admission /\ h.floor \in Int
    BY <1>1, <2>1, FromFacts
  <2>4. Taken(g.notes[s], h.floor).state = "withdrawn"
    BY <2>2, TakenType
  <2> QED
    BY <2>1, <2>2, <2>4
<1>5. ASSUME NEW s \in Ref
      PROVE  \/ h.notes[s] = g.notes[s]
             \/ g.notes[s].state \in Live /\ h.notes[s].state = "withdrawn"
  <2>1. CASE s \in Doomed(g, p, h.floor)
    BY <1>2, <1>4, <2>1
  <2>2. CASE s \notin Doomed(g, p, h.floor)
    BY <1>1, <2>2
  <2> QED
    BY <2>1, <2>2
<1>6. Held(h) \subseteq Held(g) /\ \A x \in Program : Posted(h, x) \subseteq Posted(g, x)
  BY <1>5 DEF Held, Posted, Live
<1>7. Bounded(h)
  BY <1>1, <1>6, FromFacts, Fewer DEF GoodFile
<1> QED
  BY <1>1, <1>3, <1>7, SameRows, MovesGood

(* What is displaced makes room for one more. *)
LEMMA DisplacedFacts ==
    ASSUME NEW g, NEW P, IsFiniteSet(P), Cardinality(P) <= MaxLive, NEW D \in Displaced(g, P), NEW x
    PROVE  /\ D \subseteq P
           /\ IsFiniteSet((P \ D) \cup {x})
           /\ Cardinality((P \ D) \cup {x}) <= MaxLive
<1>1. Cardinality(P) \in Nat /\ MaxLive \in Nat
  BY BoundAssumption, FS_CardinalityType
<1>2. ASSUME NEW Q, IsFiniteSet(Q), Cardinality(Q) \in Nat, Cardinality(Q) + 1 <= MaxLive
      PROVE  IsFiniteSet(Q \cup {x}) /\ Cardinality(Q \cup {x}) <= MaxLive
  <2>1. /\ IsFiniteSet(Q \cup {x})
        /\ Cardinality(Q \cup {x}) = IF x \in Q THEN Cardinality(Q) ELSE Cardinality(Q) + 1
    BY <1>2, FS_AddElement
  <2> QED
    BY <1>1, <1>2, <2>1
<1>3. CASE Cardinality(P) < MaxLive
  <2>1. D = {} /\ P \ D = P
    BY <1>3 DEF Displaced
  <2>2. Cardinality(P) + 1 <= MaxLive
    BY <1>1, <1>3
  <2> QED
    BY <1>1, <1>2, <2>1, <2>2
<1>4. CASE ~(Cardinality(P) < MaxLive)
  <2>1. PICK d \in P : D = {d}
    BY <1>4 DEF Displaced
  <2>2. IsFiniteSet(P \ {d}) /\ Cardinality(P \ {d}) = Cardinality(P) - 1
    BY <2>1, FS_RemoveElement
  <2>3. Cardinality(P \ {d}) \in Nat
    BY <2>2, FS_CardinalityType
  <2>4. Cardinality(P \ {d}) + 1 <= MaxLive
    BY <1>1, <2>2
  <2> QED
    BY <1>2, <2>1, <2>2, <2>3, <2>4
<1> QED
  BY <1>3, <1>4

LEMMA PostedFacts ==
    ASSUME NEW g, GoodFile(g), NEW p \in Program, NEW T
    PROVE  IsFiniteSet(Posted(g, p) \ T) /\ Cardinality(Posted(g, p) \ T) <= MaxLive
<1>1. Posted(g, p) \subseteq Held(g)
  BY DEF Posted, Held
<1>2. IsFiniteSet(Posted(g, p)) /\ Cardinality(Posted(g, p)) <= MaxLive
  BY <1>1, FS_Subset DEF GoodFile, Bounded
<1>3. /\ IsFiniteSet(Posted(g, p) \ T)
      /\ Cardinality(Posted(g, p) \ T) <= Cardinality(Posted(g, p))
  BY <1>2, FS_Subset
<1>4. Cardinality(Posted(g, p) \ T) \in Nat /\ Cardinality(Posted(g, p)) \in Nat
  BY <1>2, <1>3, FS_CardinalityType
<1> QED
  BY <1>2, <1>3, <1>4, BoundAssumption

LEMMA DeliveredGood ==
    ASSUME NEW f, NEW h, NEW r \in Ref, Delivered(f, h, r)
    PROVE  GoodFile(h)
<1>1. PICK g : \E D \in Displaced(g, Posted(g, Owner[r])) :
        /\ From(f, g, h) /\ h.notifiers = g.notifiers
        /\ Shows(g.notes[r], h.notes[r], h.floor)
        /\ \A s \in Ref \ {r} : h.notes[s] = IF s \in D THEN Taken(g.notes[s], h.floor)
                                            ELSE g.notes[s]
  BY DEF Delivered
<1>2. PICK D \in Displaced(g, Posted(g, Owner[r])) :
        /\ From(f, g, h) /\ h.notifiers = g.notifiers
        /\ Shows(g.notes[r], h.notes[r], h.floor)
        /\ \A s \in Ref \ {r} : h.notes[s] = IF s \in D THEN Taken(g.notes[s], h.floor)
                                            ELSE g.notes[s]
  BY <1>1
<1>3. Owner[r] \in Program
  BY ReferenceAssumption
<1> DEFINE P == Posted(g, Owner[r]) \ {}
<1>4. IsFiniteSet(P) /\ Cardinality(P) <= MaxLive /\ P = Posted(g, Owner[r])
  BY <1>2, <1>3, FromFacts, PostedFacts
<1>5. D \subseteq P /\ IsFiniteSet((P \ D) \cup {r}) /\ Cardinality((P \ D) \cup {r}) <= MaxLive
  BY <1>2, <1>4, DisplacedFacts
<1>6. \A s \in D : s \in Ref /\ Owner[s] = Owner[r] /\ g.notes[s].state = "posted"
  BY <1>4, <1>5 DEF Posted
<1>7. ASSUME NEW s \in D
      PROVE  s # r /\ h.notes[s].state = "withdrawn"
  <2>1. s \in Ref \ {r}
    BY <1>2, <1>6 DEF Shows
  <2>2. h.notes[s] = Taken(g.notes[s], h.floor)
    BY <1>2, <2>1
  <2>3. g.notes[s] \in Admission /\ h.floor \in Int
    BY <1>2, <2>1, FromFacts
  <2>4. Taken(g.notes[s], h.floor).state = "withdrawn"
    BY <2>3, TakenType
  <2> QED
    BY <2>1, <2>2, <2>4
<1>8. g.notes[r].state = "scheduled" /\ h.notes[r].state = "posted"
  BY <1>2, FromFacts DEF Shows, Admission
<1>9. \A s \in Ref : MovesTo(s, g.notes[s], h.notes[s], h.floor)
  BY <1>2, <1>6 DEF MovesTo, Live
<1>10. IsFiniteSet(Held(h)) /\ Cardinality(Held(h)) <= MaxAdmissions
  <2>1. Held(h) \subseteq Held(g)
    BY <1>2, <1>6, <1>7, <1>8 DEF Held
  <2>2. IsFiniteSet(Held(g)) /\ Cardinality(Held(g)) <= MaxAdmissions
    BY <1>2, FromFacts DEF GoodFile, Bounded
  <2>3. IsFiniteSet(Held(h)) /\ Cardinality(Held(h)) <= Cardinality(Held(g))
    BY <2>1, <2>2, FS_Subset
  <2>4. Cardinality(Held(h)) \in Nat /\ Cardinality(Held(g)) \in Nat
    BY <2>2, <2>3, FS_CardinalityType
  <2> QED
    BY <2>2, <2>3, <2>4, BoundAssumption
<1>11. ASSUME NEW p \in Program
       PROVE  Cardinality(Posted(h, p)) <= MaxLive
  <2>1. CASE p = Owner[r]
    <3>1. Posted(h, p) \subseteq (P \ D) \cup {r}
      BY <1>2, <1>4, <1>7, <2>1 DEF Posted
    <3>2. /\ IsFiniteSet(Posted(h, p))
          /\ Cardinality(Posted(h, p)) <= Cardinality((P \ D) \cup {r})
      BY <1>5, <3>1, FS_Subset
    <3>3. Cardinality(Posted(h, p)) \in Nat /\ Cardinality((P \ D) \cup {r}) \in Nat
      BY <1>5, <3>2, FS_CardinalityType
    <3> QED
      BY <1>5, <3>2, <3>3, BoundAssumption
  <2>2. CASE p # Owner[r]
    <3>1. Posted(h, p) = Posted(g, p)
      BY <1>2, <1>6, <2>2 DEF Posted
    <3> QED
      BY <1>2, <3>1, FromFacts DEF GoodFile, Bounded
  <2> QED
    BY <2>1, <2>2
<1> QED
  BY <1>2, <1>9, <1>10, <1>11, SameRows, MovesGood DEF Bounded

LEMMA LeavingFacts ==
    ASSUME NEW g, GoodFile(g), NEW q \in Request, NEW D \in Leaving(g, q), NEW t \in Int,
           NEW s \in Replaced(g, q) \cup D
    PROVE  /\ s \in Ref /\ Owner[s] = Owner[q.ref]
           /\ g.notes[s].state \in Live
           /\ Taken(g.notes[s], t).state = "withdrawn"
<1>0. q.ref \in Ref /\ Owner[q.ref] \in Program
  BY RequestAssumption, ReferenceAssumption
<1> DEFINE P == Posted(g, Owner[q.ref]) \ Replaced(g, q)
<1>1. IsFiniteSet(P) /\ Cardinality(P) <= MaxLive
  BY <1>0, PostedFacts
<1>2. D = {} \/ D \in Displaced(g, P)
  BY DEF Leaving
<1> HIDE DEF P
<1>3. D = {} \/ D \subseteq P
  BY <1>1, <1>2, DisplacedFacts
<1>4. s \in Ref /\ Owner[s] = Owner[q.ref] /\ g.notes[s].state \in Live
  BY <1>3 DEF P, Posted, Replaced, Live
<1>5. g.notes[s] \in Admission
  BY <1>4 DEF GoodFile, Files
<1>6. Taken(g.notes[s], t).state = "withdrawn"
  BY <1>5, TakenType
<1> QED
  BY <1>4, <1>6

LEMMA AdmittedGood ==
    ASSUME NEW f, NEW h, NEW q \in Request, Admitted(f, h, q)
    PROVE  GoodFile(h)
<1> DEFINE r == q.ref
<1>1. PICK g : \E D \in Leaving(g, q) :
        /\ From(f, g, h)
        /\ Cardinality(Held(g)) < MaxAdmissions
        /\ GoodRows(h.notifiers, h.floor)
        /\ Admits(q, g.notes[r], h.notes[r], h.floor)
        /\ \A s \in Ref \ {r} :
              h.notes[s] = IF s \in Replaced(g, q) \cup D THEN Taken(g.notes[s], h.floor)
                           ELSE g.notes[s]
  BY DEF Admitted
<1>2. PICK D \in Leaving(g, q) :
        /\ From(f, g, h)
        /\ Cardinality(Held(g)) < MaxAdmissions
        /\ GoodRows(h.notifiers, h.floor)
        /\ Admits(q, g.notes[r], h.notes[r], h.floor)
        /\ \A s \in Ref \ {r} :
              h.notes[s] = IF s \in Replaced(g, q) \cup D THEN Taken(g.notes[s], h.floor)
                           ELSE g.notes[s]
  BY <1>1
<1>3. r \in Ref /\ Owner[r] \in Program
  BY RequestAssumption, ReferenceAssumption
<1> DEFINE W == Replaced(g, q) \cup D
           p0 == Owner[r]
           P == Posted(g, p0) \ Replaced(g, q)
<1>4. GoodFile(g) /\ g \in Files /\ h.floor \in Int
  BY <1>2, FromFacts
<1>5. ASSUME NEW s \in W
      PROVE  s \in Ref \ {r} /\ Owner[s] = p0 /\ g.notes[s].state \in Live
             /\ h.notes[s] = Taken(g.notes[s], h.floor) /\ h.notes[s].state = "withdrawn"
  <2>1. /\ s \in Ref /\ Owner[s] = p0
        /\ g.notes[s].state \in Live /\ Taken(g.notes[s], h.floor).state = "withdrawn"
    BY <1>2, <1>4, LeavingFacts
  <2>2. s # r
    BY <1>2, <2>1 DEF Admits, Absent, Live
  <2>3. h.notes[s] = Taken(g.notes[s], h.floor)
    BY <1>2, <2>1, <2>2
  <2> QED
    BY <2>1, <2>2, <2>3
<1>6. \A s \in Ref \ ({r} \cup W) : h.notes[s] = g.notes[s]
  BY <1>2
<1>7. g.notes[r] = Absent /\ h.notes[r].state \in Live
  BY <1>2 DEF Admits, Live
<1> HIDE DEF W, P, p0, r
<1>8. \A s \in Ref : MovesTo(s, g.notes[s], h.notes[s], h.floor)
  BY <1>2, <1>5, <1>6 DEF MovesTo, r
<1>9. IsFiniteSet(Held(h)) /\ Cardinality(Held(h)) <= MaxAdmissions
  <2>1. Held(h) \subseteq Held(g) \cup {r}
    BY <1>5, <1>6 DEF Held, Live
  <2>2. IsFiniteSet(Held(g)) /\ r \notin Held(g)
    BY <1>4, <1>7 DEF GoodFile, Bounded, Held, Absent
  <2>3. IsFiniteSet(Held(g) \cup {r}) /\ Cardinality(Held(g) \cup {r}) = Cardinality(Held(g)) + 1
    BY <2>2, FS_AddElement
  <2>4. IsFiniteSet(Held(h)) /\ Cardinality(Held(h)) <= Cardinality(Held(g) \cup {r})
    BY <2>1, <2>3, FS_Subset
  <2>5. Cardinality(Held(h)) \in Nat /\ Cardinality(Held(g)) \in Nat
    BY <2>2, <2>4, FS_CardinalityType
  <2> QED
    BY <1>2, <2>3, <2>4, <2>5, BoundAssumption
<1>10. ASSUME NEW p \in Program
       PROVE  Cardinality(Posted(h, p)) <= MaxLive
  <2>1. CASE p = p0
    <3>1. IsFiniteSet(P) /\ Cardinality(P) <= MaxLive
      BY <1>3, <1>4, PostedFacts DEF P, p0
    <3>2. CASE q.delivery = "now"
      <4>1. D \in Displaced(g, P)
        BY <3>2 DEF Leaving, P, p0, r
      <4>2. IsFiniteSet((P \ D) \cup {r}) /\ Cardinality((P \ D) \cup {r}) <= MaxLive
        BY <3>1, <4>1, DisplacedFacts
      <4>3. Posted(h, p) \subseteq (P \ D) \cup {r}
        BY <1>5, <1>6, <2>1 DEF Posted, P, W
      <4>4. /\ IsFiniteSet(Posted(h, p))
            /\ Cardinality(Posted(h, p)) <= Cardinality((P \ D) \cup {r})
        BY <4>2, <4>3, FS_Subset
      <4>5. Cardinality(Posted(h, p)) \in Nat /\ Cardinality((P \ D) \cup {r}) \in Nat
        BY <4>2, <4>4, FS_CardinalityType
      <4> QED
        BY <4>2, <4>4, <4>5, BoundAssumption
    <3>3. CASE q.delivery # "now"
      <4>1. h.notes[r].state = "scheduled"
        BY <1>2, <3>3 DEF Admits
      <4>2. Posted(h, p) \subseteq P
        BY <1>5, <1>6, <2>1, <4>1 DEF Posted, P, W
      <4>3. /\ IsFiniteSet(Posted(h, p))
            /\ Cardinality(Posted(h, p)) <= Cardinality(P)
        BY <3>1, <4>2, FS_Subset
      <4>4. Cardinality(Posted(h, p)) \in Nat /\ Cardinality(P) \in Nat
        BY <3>1, <4>3, FS_CardinalityType
      <4> QED
        BY <3>1, <4>3, <4>4, BoundAssumption
    <3> QED
      BY <3>2, <3>3
  <2>2. CASE p # p0
    <3>1. Posted(h, p) = Posted(g, p)
      BY <1>5, <1>6, <2>2 DEF Posted, p0
    <3> QED
      BY <1>4, <3>1 DEF GoodFile, Bounded
  <2> QED
    BY <2>1, <2>2
<1> QED
  BY <1>2, <1>8, <1>9, <1>10, MovesGood DEF Bounded

-----------------------------------------------------------------------------
(* What a step tells. *)

(* The lapses of r that stand at the floor of f. *)
Over(f, r) == {o \in Lapse : f.floor >= o.req.expires /\ View(f, r).req # o.req}

(* What is told now was told before, or is what the file says. *)
Truthful ==
    /\ told' = [r \in Ref |-> told'[r]]
    /\ \A r \in Ref : \A o \in told'[r] :
          \/ o \in told[r]
          \/ /\ o \in Report /\ file'.floor < ReplayUntil[r]
             /\ o \in Terminal(View(file', r)) \cup Over(file', r)

Tells == Truthful /\ posts' \subseteq posts

Fine == GoodFile(file) /\ told \in [Ref -> SUBSET Report]

LEMMA TerminalType ==
    ASSUME NEW a \in Admission
    PROVE  Terminal(a) \subseteq Report
BY DEF Terminal, Admission, Outcome, Report, Ended, Live, Expired, Gone

(* Collection leaves what is terminal, up to the replay deadline. *)
LEMMA TerminalView ==
    ASSUME NEW f \in Files, NEW r \in Ref, f.floor < ReplayUntil[r]
    PROVE  /\ f.notes[r].state \notin Live => View(f, r) = f.notes[r]
           /\ Terminal(f.notes[r]) \subseteq Terminal(View(f, r))
           /\ Terminal(f.notes[r]) \subseteq Report
           /\ View(f, r) = Aged(r, f.notes[r], f.floor)
<1>1. f.floor \in Int /\ ReplayUntil[r] \in Int /\ f.notes[r] \in Admission
  BY ReferenceAssumption DEF Files
<1>2. View(f, r) = Aged(r, f.notes[r], f.floor)
  BY <1>1, CollectedFacts DEF View, AtFloor
<1>3. f.notes[r].state \notin Live => View(f, r) = f.notes[r]
  BY <1>1, <1>2 DEF Aged
<1>4. f.notes[r].state \in Live => Terminal(f.notes[r]) = {}
  BY DEF Terminal, Live, Ended
<1> QED
  BY <1>1, <1>2, <1>3, <1>4, TerminalType

LEMMA ViewType ==
    ASSUME NEW f \in Files, NEW r \in Ref
    PROVE  /\ View(f, r) = Aged(r, f.notes[r], f.floor)
           /\ View(f, r) \in Admission
           /\ Terminal(View(f, r)) \subseteq Report
<1>1. f.floor \in Int /\ f.notes[r] \in Admission
  BY DEF Files
<1>2. View(f, r) = Aged(r, f.notes[r], f.floor)
  BY <1>1, CollectedFacts DEF View, AtFloor
<1>3. View(f, r) \in Admission
  BY <1>1, <1>2, AgedFacts
<1> QED
  BY <1>2, <1>3, TerminalType

LEMMA RecallFacts ==
    ASSUME told \in [Ref -> SUBSET Report], file' \in Files,
           NEW outcomes \in [Ref -> SUBSET Report], NEW admissions, Recall(outcomes, admissions),
           \A r \in Ref : file'.floor < ReplayUntil[r] =>
               outcomes[r] \subseteq told[r] \cup (Terminal(View(file', r)) \cup Over(file', r))
    PROVE  Truthful /\ posts' = {x \in admissions : x.at > file'.floor - Hour}
<1>1. told' = [r \in Ref |-> IF file'.floor >= ReplayUntil[r] THEN {} ELSE outcomes[r]]
  BY DEF Recall
<1>2. told' = [r \in Ref |-> told'[r]]
  BY <1>1
<1>3. ASSUME NEW r \in Ref, NEW o \in told'[r]
      PROVE  \/ o \in told[r]
             \/ /\ o \in Report /\ file'.floor < ReplayUntil[r]
                /\ o \in Terminal(View(file', r)) \cup Over(file', r)
  <2>1. ~(file'.floor >= ReplayUntil[r]) /\ o \in outcomes[r]
    BY <1>1, <1>3
  <2>2. file'.floor \in Int /\ ReplayUntil[r] \in Int
    BY ReferenceAssumption DEF Files
  <2>3. file'.floor < ReplayUntil[r] /\ o \in Report
    BY <2>1, <2>2
  <2> QED
    BY <2>1, <2>3
<1> QED
  BY <1>2, <1>3 DEF Truthful, Recall

LEMMA QuietTells ==
    ASSUME told \in [Ref -> SUBSET Report], file' \in Files, Quiet
    PROVE  Tells
BY RecallFacts DEF Quiet, Tells

LEMMA TellTells ==
    ASSUME told \in [Ref -> SUBSET Report], file' \in Files, NEW r \in Ref,
           NEW o \in SUBSET Report, Tell(r, o),
           file'.floor < ReplayUntil[r] => o \subseteq Terminal(View(file', r)) \cup Over(file', r)
    PROVE  Tells
<1> DEFINE outcomes == [told EXCEPT ![r] = @ \cup o]
<1>1. outcomes \in [Ref -> SUBSET Report]
  OBVIOUS
<1>2. \A s \in Ref : file'.floor < ReplayUntil[s] =>
               outcomes[s] \subseteq told[s] \cup (Terminal(View(file', s)) \cup Over(file', s))
  OBVIOUS
<1>3. Recall(outcomes, posts)
  BY DEF Tell
<1> HIDE DEF outcomes
<1> QED
  BY <1>1, <1>2, <1>3, RecallFacts DEF Tells

LEMMA SilentTells ==
    ASSUME told \in [Ref -> SUBSET Report], UNCHANGED <<told, posts>>
    PROVE  Tells
BY DEF Tells, Truthful

LEMMA OutcomeTypes == Expired \in Report /\ Gone \in Report
BY DEF Expired, Gone, Outcome, Report

(* An edit that keeps what it opened with, or the time it acts at as well. *)
LEMMA EditAges ==
    ASSUME GoodFile(file), NEW e \in Openings(file), NEW now \in Readings(e.book)
    PROVE  /\ Opens(file, e.book)
           /\ now \in Int /\ e.book.floor <= now /\ e.book \in Files
           /\ Aging(file, e.book)
           /\ Aging(file, Noted(e.book, now))
           /\ Noted(e.book, now).floor = now
<1>1. Opens(file, e.book) /\ GoodFile(e.book) /\ e.book \in Files /\ Ages(file, e.book)
  BY OpeningFacts DEF Opens, GoodFile
<1>2. now \in Int /\ e.book.floor <= now
  BY <1>1, ReadingsAhead DEF Files
<1>3. Noted(e.book, now) \in Files /\ Ages(file, Noted(e.book, now))
  BY <1>1, <1>2, AgesNoted DEF GoodFile
<1>4. Noted(e.book, now).floor = now
  BY <1>1, <1>2, NotedFacts
<1> QED
  BY <1>1, <1>2, <1>3, <1>4 DEF Aging

LEMMA FailAges ==
    ASSUME Fine, NEW e, Fail(e)
    PROVE  Aging(file, file') /\ Tells
<1>1. UNCHANGED <<told, posts>> /\ file' = file
  BY DEF Fail
<1>2. Ages(file, file)
  BY DEF Ages, AgesTo, Fine, GoodFile, Files
<1> QED
  BY <1>1, <1>2, SilentTells DEF Aging, Fine, GoodFile

-----------------------------------------------------------------------------
(* The shape of each action. *)

LEMMA PostAtShape ==
    ASSUME Fine, NEW q \in Request, NEW e \in Openings(file), NEW now \in Readings(e.book),
           PostAt(q, e, now)
    PROVE  \/ Aging(file, file') /\ Tells
           \/ /\ Admitted(file, file', q) /\ Truthful
              /\ posts' = {x \in posts \cup {[ref |-> q.ref, at |-> file'.floor]} :
                             x.at > file'.floor - Hour}
<1> DEFINE f == e.book
           r == q.ref
           a == f.notes[r]
           T == Replaced(f, q)
           new == [state |-> IF q.delivery = "now" THEN "posted" ELSE "scheduled", req |-> q,
                   admitted |-> now, posted |-> IF q.delivery = "now" THEN now ELSE 0,
                   result |-> None]
<1>1. /\ Opens(file, f) /\ GoodFile(f) /\ f \in Files /\ now \in Int /\ f.floor <= now
      /\ Aging(file, f) /\ Aging(file, Noted(f, now)) /\ Noted(f, now).floor = now
      /\ told \in [Ref -> SUBSET Report]
  BY EditAges DEF Fine, Opens
<1>2. r \in Ref /\ Owner[r] \in Program /\ ReplayUntil[r] \in Int /\ f.floor \in Int
      /\ f.notifiers = file.notifiers
  BY <1>1, RequestAssumption, ReferenceAssumption DEF Files, Aging, Ages
<1>3. CASE /\ now >= ReplayUntil[r]
           /\ Commit(e, Noted(f, now), {})
           /\ Tell(r, {Expired})
  <2>1. file' = Noted(f, now) /\ file' \in Files /\ file'.floor = now
    BY <1>1, <1>3 DEF Commit, Aging
  <2>2. ~(file'.floor < ReplayUntil[r])
    BY <1>1, <1>2, <1>3, <2>1
  <2>3. Tells
    BY <1>1, <1>2, <1>3, <2>1, <2>2, OutcomeTypes, TellTells
  <2> QED
    BY <1>1, <2>1, <2>3
<1>4. CASE /\ now < ReplayUntil[r] /\ a # Absent
           /\ Commit(e, f, {})
           /\ Tell(r, IF a.req = q THEN Terminal(a) ELSE {})
  <2>1. file' = f
    BY <1>4 DEF Commit
  <2>2. f.floor < ReplayUntil[r]
    BY <1>1, <1>2, <1>4
  <2>3. Terminal(a) \subseteq Terminal(View(f, r)) /\ Terminal(a) \subseteq Report
    BY <1>1, <1>2, <2>2, TerminalView
  <2> DEFINE o == IF a.req = q THEN Terminal(a) ELSE {}
  <2>4. o \in SUBSET Report /\ o \subseteq Terminal(View(file', r)) /\ Tell(r, o)
    BY <1>4, <2>1, <2>3
  <2> HIDE DEF o
  <2>5. Tells
    BY <1>1, <1>2, <2>1, <2>4, TellTells
  <2> QED
    BY <1>1, <2>1, <2>5
<1>5. CASE Quiet /\ (Commit(e, Noted(f, now), {}) \/ Commit(e, f, {}))
  <2>1. file' = f \/ file' = Noted(f, now)
    BY <1>5 DEF Commit
  <2>2. Aging(file, file')
    BY <1>1, <2>1
  <2> QED
    BY <1>1, <1>5, <2>2, QuietTells DEF Aging
<1>8. CASE /\ a = Absent /\ now < ReplayUntil[r] /\ now >= q.expires
           /\ Commit(e, Noted(f, now), {})
           /\ Tell(r, {[is |-> "lapsed", req |-> q]})
  <2>1. file' = Noted(f, now) /\ file' \in Files /\ file'.floor = now /\ file'.notes = f.notes
    BY <1>1, <1>2, <1>8, NotedFacts DEF Commit, Aging
  <2>2. View(file', r) = Absent
    BY <1>1, <1>2, <1>8, <2>1, TerminalView DEF Absent, Live
  <2>3. [is |-> "lapsed", req |-> q] \in Lapse \cap Over(file', r)
    BY <1>8, <2>1, <2>2, NoneAssumption DEF Lapse, Over, Absent
  <2>4. Tells
    BY <1>1, <1>2, <1>8, <2>1, <2>3, TellTells DEF Report
  <2> QED
    BY <1>1, <2>1, <2>4
<1>6. CASE Fail(e)
  BY <1>6, FailAges
<1>7. CASE /\ a = Absent /\ now < q.expires /\ ReplayUntil[r] - now <= MaxReplay /\ 0 < now
           /\ ~(Cardinality(Held(f)) >= MaxAdmissions)
           /\ \E g \in Noticed(f, Owner[r], now) :
              \E D \in Leaving(f, q) :
                Commit(e, Noted([Withdrawn(g, T \cup D, now) EXCEPT !.notes[r] = new], now),
                       T \cup D)
           /\ Recall(told, posts \cup {[ref |-> r, at |-> now]})
  <2>1. PICK g \in Noticed(f, Owner[r], now), D \in Leaving(f, q) :
           file' = Noted([Withdrawn(g, T \cup D, now) EXCEPT !.notes[r] = new], now)
    BY <1>7 DEF Commit
  <2>2. /\ g \in Files /\ g.notes = f.notes /\ g.floor = f.floor
        /\ GoodRows(g.notifiers, now)
        /\ \E n \in Bases(f.notifiers, Owner[r]) :
              /\ Len(Recent(n[Owner[r]], now)) < MaxPerHour
              /\ g.notifiers = [n EXCEPT ![Owner[r]] = Counted(n[Owner[r]], now)]
    <3>1. GoodRows(f.notifiers, f.floor)
      BY <1>1 DEF GoodFile
    <3>2. f \in Files /\ f.floor <= now /\ Owner[r] \in Program /\ 0 < now
      BY <1>1, <1>2, <1>7
    <3> DEFINE p == Owner[r]
    <3>3. p \in Program /\ g \in Noticed(f, p, now)
      BY <3>2
    <3> HIDE DEF f, p
    <3>4. /\ g \in Files /\ g.notes = f.notes /\ g.floor = f.floor
          /\ GoodRows(g.notifiers, now)
          /\ \E n \in Bases(f.notifiers, p) :
                /\ Len(Recent(n[p], now)) < MaxPerHour
                /\ g.notifiers = [n EXCEPT ![p] = Counted(n[p], now)]
      BY <1>1, <3>1, <3>2, <3>3, NoticedFacts
    <3> QED
      BY <3>4 DEF p
  <2> DEFINE w == Withdrawn(g, T \cup D, now)
  <2>3. /\ w \in Files /\ w.floor = f.floor /\ w.notifiers = g.notifiers
        /\ w.notes = [s \in Ref |-> IF s \in T \cup D THEN Taken(f.notes[s], now) ELSE f.notes[s]]
    BY <1>1, <2>2, WithdrawnFacts
  <2>4. new \in Admission
    BY <1>1 DEF Admission, Live
  <2>5. Admits(q, a, new, now)
    BY <1>7 DEF Admits
  <2> HIDE DEF w, new, T
  <2>6. /\ file' \in Files /\ file'.notes = [w.notes EXCEPT ![r] = new]
        /\ file'.floor = now /\ file'.notifiers = g.notifiers
    <3>1. file' = Noted([w EXCEPT !.notes[r] = new], now)
      BY <2>1 DEF w, new, T
    <3>2. w.floor <= now
      BY <1>1, <2>3
    <3> HIDE DEF f, r
    <3>3. /\ Noted([w EXCEPT !.notes[r] = new], now) \in Files
          /\ Noted([w EXCEPT !.notes[r] = new], now).notes = [w.notes EXCEPT ![r] = new]
          /\ Noted([w EXCEPT !.notes[r] = new], now).floor = now
          /\ Noted([w EXCEPT !.notes[r] = new], now).notifiers = w.notifiers
      BY <1>1, <1>2, <2>3, <2>4, <3>2, WriteFacts
    <3> QED
      BY <2>3, <3>1, <3>3
  <2>7. file'.notes[r] = new /\ \A s \in Ref \ {r} :
           file'.notes[s] = IF s \in T \cup D THEN Taken(f.notes[s], now) ELSE f.notes[s]
    BY <1>2, <2>3, <2>6
  <2>8. Cardinality(Held(f)) < MaxAdmissions
    <3>1. Cardinality(Held(f)) \in Nat
      BY <1>1, FS_CardinalityType DEF GoodFile, Bounded
    <3> QED
      BY <1>7, <3>1, BoundAssumption
  <2>9. From(file, f, file')
    BY <1>1, <2>6 DEF From
  <2>10. Admitted(file, file', q)
    BY <1>2, <2>2, <2>5, <2>6, <2>7, <2>8, <2>9 DEF Admitted, T
  <2>11. Truthful /\ posts' = {x \in posts \cup {[ref |-> r, at |-> now]} : x.at > file'.floor - Hour}
    BY <1>1, <1>7, <2>6, RecallFacts
  <2> QED
    BY <2>6, <2>10, <2>11
<1> QED
  BY <1>3, <1>4, <1>5, <1>6, <1>7, <1>8 DEF PostAt, Leaving

(* Assigning fields of one record. *)
LEMMA PutExpired ==
    ASSUME NEW f \in Files, NEW r \in Ref, NEW b, b = f.notes[r]
    PROVE  [f EXCEPT !.notes[r].state = "expired"]
              = [f EXCEPT !.notes[r] = [b EXCEPT !.state = "expired"]]
BY DEF Files

LEMMA PostScheduledShape ==
    ASSUME Fine, NEW r \in Ref, PostScheduled(r)
    PROVE  (Aging(file, file') \/ Delivered(file, file', r)) /\ Tells
<1>1. PICK e \in Openings(file) : \E now \in Readings(e.book) :
        LET f == e.book IN
        /\ now > 0
        /\ IF f.notes[r].state = "scheduled" /\ now < f.notes[r].req.expires
           THEN \E D \in Displaced(f, Posted(f, Owner[r])) :
                   Commit(e, Noted([Withdrawn(f, D, now) EXCEPT
                                      !.notes[r].state = "posted", !.notes[r].posted = now], now), {})
           ELSE Commit(e, f, {})
        /\ Quiet
  BY DEF PostScheduled
<1> DEFINE f == e.book
<1>2. PICK now \in Readings(f) :
        /\ now > 0
        /\ IF f.notes[r].state = "scheduled" /\ now < f.notes[r].req.expires
           THEN \E D \in Displaced(f, Posted(f, Owner[r])) :
                   Commit(e, Noted([Withdrawn(f, D, now) EXCEPT
                                      !.notes[r].state = "posted", !.notes[r].posted = now], now), {})
           ELSE Commit(e, f, {})
        /\ Quiet
  BY <1>1
<1>3. /\ Opens(file, f) /\ GoodFile(f) /\ f \in Files /\ now \in Int /\ f.floor <= now
      /\ Aging(file, f) /\ told \in [Ref -> SUBSET Report]
  BY EditAges DEF Fine, Opens
<1> HIDE DEF f
<1>4. CASE Commit(e, f, {})
  <2>1. file' = f
    BY <1>4 DEF Commit
  <2> QED
    BY <1>2, <1>3, <2>1, QuietTells
<1>5. CASE /\ f.notes[r].state = "scheduled" /\ now < f.notes[r].req.expires
           /\ \E D \in Displaced(f, Posted(f, Owner[r])) :
                   Commit(e, Noted([Withdrawn(f, D, now) EXCEPT
                                      !.notes[r].state = "posted", !.notes[r].posted = now], now), {})
  <2>1. PICK D \in Displaced(f, Posted(f, Owner[r])) :
           file' = Noted([Withdrawn(f, D, now) EXCEPT
                            !.notes[r].state = "posted", !.notes[r].posted = now], now)
    BY <1>5 DEF Commit
  <2> DEFINE w == Withdrawn(f, D, now)
             b == [f.notes[r] EXCEPT !.state = "posted", !.posted = now]
  <2>2. /\ w \in Files /\ w.floor = f.floor /\ w.notifiers = f.notifiers
        /\ w.notes = [s \in Ref |-> IF s \in D THEN Taken(f.notes[s], now) ELSE f.notes[s]]
    BY <1>3, WithdrawnFacts
  <2>3. r \notin D
    <3>1. Owner[r] \in Program
      BY ReferenceAssumption
    <3> DEFINE P == Posted(f, Owner[r]) \ {}
    <3>2. IsFiniteSet(P) /\ Cardinality(P) <= MaxLive /\ P = Posted(f, Owner[r])
      BY <1>3, <3>1, PostedFacts
    <3>3. D \subseteq P
      BY <3>2, DisplacedFacts
    <3> QED
      BY <1>5, <3>2, <3>3 DEF Posted
  <2>4. w.notes[r] = f.notes[r] /\ f.notes[r] \in Admission
    BY <1>3, <2>2, <2>3 DEF Files
  <2>5. b \in Admission
    BY <1>3, <2>4 DEF Admission, Live
  <2>6. Shows(f.notes[r], b, now)
    BY <1>2, <1>5 DEF Shows
  <2> HIDE DEF w, b
  <2>7. file' = Noted([w EXCEPT !.notes[r] = b], now)
    <3> DEFINE c == f.notes[r]
    <3>0. c = w.notes[r]
      BY <2>4
    <3> HIDE DEF c
    <3>1. [w EXCEPT !.notes[r].state = "posted", !.notes[r].posted = now]
             = [w EXCEPT !.notes[r] = [c EXCEPT !.state = "posted", !.posted = now]]
      BY <2>2, <3>0 DEF Files
    <3> QED
      BY <2>1, <3>1 DEF w, b, c
  <2>8. /\ file' \in Files /\ file'.notes = [w.notes EXCEPT ![r] = b]
        /\ file'.floor = now /\ file'.notifiers = f.notifiers
    <3>1. w.floor <= now
      BY <1>3, <2>2
    <3>2. /\ Noted([w EXCEPT !.notes[r] = b], now) \in Files
          /\ Noted([w EXCEPT !.notes[r] = b], now).notes = [w.notes EXCEPT ![r] = b]
          /\ Noted([w EXCEPT !.notes[r] = b], now).floor = now
          /\ Noted([w EXCEPT !.notes[r] = b], now).notifiers = w.notifiers
      BY <1>3, <2>2, <2>5, <3>1, WriteFacts
    <3> QED
      BY <2>2, <2>7, <3>2
  <2>9. file'.notes[r] = b /\ \A s \in Ref \ {r} :
           file'.notes[s] = IF s \in D THEN Taken(f.notes[s], now) ELSE f.notes[s]
    BY <2>2, <2>8
  <2>10. From(file, f, file')
    BY <1>3, <2>8 DEF From
  <2>11. Delivered(file, file', r)
    BY <2>6, <2>8, <2>9, <2>10 DEF Delivered
  <2> QED
    BY <1>2, <1>3, <2>8, <2>11, QuietTells
<1> QED
  BY <1>2, <1>4, <1>5

(* One record written by an edit, before its replay deadline. *)
LEMMA WriteFinishes ==
    ASSUME GoodFile(file), NEW e \in Openings(file), NEW now \in Readings(e.book), NEW r \in Ref,
           NEW b \in Admission, file' = Noted([e.book EXCEPT !.notes[r] = b], now)
    PROVE  /\ file' \in Files /\ file'.floor = now /\ file'.notes[r] = b
           /\ AgesTo(r, e.book.notes[r], b, now) => Aging(file, file')
           /\ now < ReplayUntil[r] /\ (Ends(e.book.notes[r], b, now) \/ Acks(e.book.notes[r], b))
                  => Finished(file, file', r)
<1> DEFINE f == e.book
<1>1. /\ Opens(file, f) /\ GoodFile(f) /\ f \in Files /\ now \in Int /\ f.floor <= now
      /\ Ages(file, f)
  BY EditAges DEF Opens
<1>2. file' = Noted([f EXCEPT !.notes[r] = b], now)
  OBVIOUS
<1> HIDE DEF f
<1>3. /\ file' \in Files /\ file'.notes = [f.notes EXCEPT ![r] = b]
      /\ file'.floor = now /\ file'.notifiers = f.notifiers
  BY <1>1, <1>2, WriteFacts
<1>4. file'.notes[r] = b /\ \A s \in Ref \ {r} : file'.notes[s] = f.notes[s]
  BY <1>1, <1>3 DEF Files
<1>5. ASSUME AgesTo(r, f.notes[r], b, now)
      PROVE  Aging(file, file')
  <2>1. Ages(f, file')
    BY <1>1, <1>3, <1>4, <1>5 DEF Ages, AgesTo
  <2> QED
    BY <1>1, <1>3, <2>1, AgesTransitive DEF Aging
<1>6. ASSUME now < ReplayUntil[r], Ends(f.notes[r], b, now) \/ Acks(f.notes[r], b)
      PROVE  Finished(file, file', r)
  BY <1>1, <1>3, <1>4, <1>6 DEF Finished, From
<1> QED
  BY <1>3, <1>4, <1>5, <1>6 DEF f

LEMMA DecideShape ==
    ASSUME Fine, NEW r \in Ref, NEW to \in Ended, NEW action \in Action \cup {None},
           to # "acted" => action = None, Decide(r, to, action)
    PROVE  (Aging(file, file') \/ Finished(file, file', r)) /\ Tells
<1>1. PICK e \in Openings(file) : \E now \in Readings(e.book) : DecideAt(r, to, action, e, now)
  BY DEF Decide
<1>2. PICK now \in Readings(e.book) : DecideAt(r, to, action, e, now)
  BY <1>1
<1> DEFINE f == e.book
           a == f.notes[r]
           b == [a EXCEPT !.state = to, !.result = [action |-> action, at |-> now]]
           x == [a EXCEPT !.state = "expired"]
<1>3. /\ Opens(file, f) /\ GoodFile(f) /\ f \in Files /\ now \in Int /\ f.floor <= now
      /\ Aging(file, f) /\ Aging(file, Noted(f, now)) /\ Noted(f, now).floor = now
      /\ told \in [Ref -> SUBSET Report]
  BY EditAges DEF Fine, Opens
<1>4. /\ a \in Admission /\ ReplayUntil[r] \in Int /\ f.floor \in Int
      /\ GoodRecord(r, a, f.floor)
  BY <1>3, ReferenceAssumption DEF Files, GoodFile
<1>5. CASE Quiet /\ (Commit(e, f, {}) \/ Commit(e, Noted(f, now), {}))
  <2>1. file' = f \/ file' = Noted(f, now)
    BY <1>5 DEF Commit
  <2>2. Aging(file, file')
    BY <1>3, <2>1
  <2> QED
    BY <1>3, <1>5, <2>2, QuietTells DEF Aging
<1>6. CASE now >= ReplayUntil[r] /\ Commit(e, Noted(f, now), {}) /\ Tell(r, {Expired})
  <2>1. file' = Noted(f, now) /\ file' \in Files /\ file'.floor = now
    BY <1>3, <1>6 DEF Commit, Aging
  <2>2. ~(file'.floor < ReplayUntil[r])
    BY <1>3, <1>4, <1>6, <2>1
  <2>3. Tells
    BY <1>3, <1>6, <2>1, <2>2, OutcomeTypes, TellTells
  <2> QED
    BY <1>3, <2>1, <2>3
<1>7. CASE \E S : Commit(e, f, S) /\ now < ReplayUntil[r] /\ Tell(r, Terminal(a))
  <2>1. file' = f
    BY <1>7 DEF Commit
  <2>2. f.floor < ReplayUntil[r]
    BY <1>3, <1>4, <1>7
  <2>3. Terminal(a) \subseteq Terminal(View(f, r)) /\ Terminal(a) \subseteq Report
    BY <1>3, <2>2, TerminalView
  <2>4. Tells
    BY <1>3, <1>7, <2>1, <2>3, TellTells
  <2> QED
    BY <1>3, <2>1, <2>4
<1>8. CASE Fail(e)
  BY <1>8, FailAges
<1>9. CASE /\ a # Absent /\ now < ReplayUntil[r] /\ Lapsed(a, now)
           /\ Commit(e, Noted([f EXCEPT !.notes[r].state = "expired"], now), {})
           /\ Tell(r, {Expired})
  <2>1. x \in Admission /\ x.state = "expired"
    BY <1>4 DEF Admission
  <2>2. AgesTo(r, a, x, now)
    <3>1. CASE a.state = "expired"
      <4>1. x = a
        BY <1>4, <3>1 DEF Admission
      <4> QED
        BY <4>1 DEF AgesTo
    <3>2. CASE a.state \in Live /\ now >= a.req.expires
      BY <3>2 DEF AgesTo
    <3> QED
      BY <1>9, <3>1, <3>2 DEF Lapsed
  <2>3. [f EXCEPT !.notes[r].state = "expired"] = [f EXCEPT !.notes[r] = x]
    <3> HIDE DEF f
    <3> QED
      BY <1>3, PutExpired
  <2>4. file' = Noted([f EXCEPT !.notes[r] = x], now)
    BY <1>9, <2>3 DEF Commit
  <2> HIDE DEF x
  <2>5. /\ file' \in Files /\ file'.floor = now /\ file'.notes[r] = x /\ Aging(file, file')
    BY <2>1, <2>2, <2>4, WriteFinishes DEF Fine
  <2>6. Terminal(file'.notes[r]) = {Expired}
    BY <2>1, <2>5 DEF Terminal, Ended
  <2>7. {Expired} \subseteq Terminal(View(file', r))
    BY <1>9, <2>5, <2>6, TerminalView
  <2>8. Tells
    BY <1>3, <1>9, <2>5, <2>7, OutcomeTypes, TellTells
  <2> QED
    BY <2>5, <2>8
<1>10. CASE /\ now < ReplayUntil[r] /\ a.state \in Live /\ ~Lapsed(a, now)
            /\ ~(to = "acted" /\ (a.state # "posted" \/ action \notin a.req.actions))
            /\ Commit(e, Noted([f EXCEPT !.notes[r] = b], now), {r})
            /\ Tell(r, Terminal([f EXCEPT !.notes[r] = b].notes[r]))
  <2>1. b \in Admission /\ b.state = to
    <3>1. [action |-> action, at |-> now] \in Result
      BY <1>3 DEF Result
    <3> QED
      BY <1>4, <3>1 DEF Admission
  <2>2. Ends(a, b, now)
    <3>1. now < a.req.expires
      <4>1. a.req.expires \in Int
        BY <1>4, <1>10, RequestAssumption DEF GoodRecord, Live
      <4> QED
        BY <1>3, <1>10, <4>1 DEF Lapsed
    <3> QED
      BY <1>10, <3>1 DEF Ends
  <2>3. file' = Noted([f EXCEPT !.notes[r] = b], now)
    BY <1>10 DEF Commit
  <2>4. [f EXCEPT !.notes[r] = b].notes[r] = b
    BY <1>3 DEF Files
  <2> HIDE DEF b
  <2>5. /\ file' \in Files /\ file'.floor = now /\ file'.notes[r] = b /\ Finished(file, file', r)
    BY <1>10, <2>1, <2>2, <2>3, WriteFinishes DEF Fine
  <2>6. Terminal(b) \subseteq Terminal(View(file', r)) /\ Terminal(b) \subseteq Report
    BY <1>10, <2>5, TerminalView
  <2>7. Tell(r, Terminal(b))
    BY <1>10, <2>4
  <2>8. Tells
    BY <1>3, <2>5, <2>6, <2>7, TellTells
  <2> QED
    BY <2>5, <2>8
<1>11. Terminal(a) = {Gone} \/ a.state # "gone"
  BY DEF Terminal, Ended
<1> HIDE DEF a, f, b, x
<1>12. DecideAt(r, to, action, e, now) =>
          \/ Quiet /\ (Commit(e, f, {}) \/ Commit(e, Noted(f, now), {}))
          \/ now >= ReplayUntil[r] /\ Commit(e, Noted(f, now), {}) /\ Tell(r, {Expired})
          \/ \E S : Commit(e, f, S) /\ now < ReplayUntil[r] /\ Tell(r, Terminal(a))
          \/ Fail(e)
          \/ /\ a # Absent /\ now < ReplayUntil[r] /\ Lapsed(a, now)
             /\ Commit(e, Noted([f EXCEPT !.notes[r].state = "expired"], now), {})
             /\ Tell(r, {Expired})
          \/ /\ now < ReplayUntil[r] /\ a.state \in Live /\ ~Lapsed(a, now)
             /\ ~(to = "acted" /\ (a.state # "posted" \/ action \notin a.req.actions))
             /\ Commit(e, Noted([f EXCEPT !.notes[r] = b], now), {r})
             /\ Tell(r, Terminal([f EXCEPT !.notes[r] = b].notes[r]))
  BY <1>11 DEF DecideAt, a, f, b
<1> QED
  BY <1>2, <1>5, <1>6, <1>7, <1>8, <1>9, <1>10, <1>12

(* Turning a program off, with what it leaves of that program. *)
LEMMA WithdrawProgramShape ==
    ASSUME Fine, NEW p \in Program, WithdrawProgram(p)
    PROVE  /\ (Aging(file, file') \/ Silenced(file, file', p)) /\ Tells
           /\ \/ off' = off
              \/ LiveOf(file', p) = {} /\ off' = [off EXCEPT ![p] = "withdrawn"]
<1>1. PICK e \in Openings(file) : \E now \in Readings(e.book) :
        LET S == {r \in Ref : /\ Owner[r] = p /\ e.book.notes[r].state \in Live
                              /\ now < e.book.notes[r].req.expires}
        IN
        /\ now > 0
        /\ Commit(e, IF S = {} THEN e.book ELSE Noted(Withdrawn(e.book, S, now), now), S)
        /\ off' = IF Blocked(p) /\ S = LiveOf(e.book, p) THEN [off EXCEPT ![p] = "withdrawn"] ELSE off
        /\ Quiet
  BY DEF WithdrawProgram
<1> DEFINE f == e.book
<1>2. PICK now \in Readings(f) :
        LET S == {r \in Ref : /\ Owner[r] = p /\ e.book.notes[r].state \in Live
                              /\ now < e.book.notes[r].req.expires}
        IN
        /\ now > 0
        /\ Commit(e, IF S = {} THEN e.book ELSE Noted(Withdrawn(e.book, S, now), now), S)
        /\ off' = IF Blocked(p) /\ S = LiveOf(e.book, p) THEN [off EXCEPT ![p] = "withdrawn"] ELSE off
        /\ Quiet
  BY <1>1
<1> DEFINE S == Doomed(f, p, now)
<1>3. S = {r \in Ref : /\ Owner[r] = p /\ e.book.notes[r].state \in Live
                       /\ now < e.book.notes[r].req.expires}
  BY DEF Doomed, LiveOf
<1>4. /\ file' = IF S = {} THEN f ELSE Noted(Withdrawn(f, S, now), now)
      /\ off' = off \/ (S = LiveOf(f, p) /\ off' = [off EXCEPT ![p] = "withdrawn"])
      /\ Quiet
  BY <1>2, <1>3 DEF Commit
<1>5. /\ Opens(file, f) /\ GoodFile(f) /\ f \in Files /\ now \in Int /\ f.floor <= now
      /\ Aging(file, f) /\ told \in [Ref -> SUBSET Report]
  BY EditAges DEF Fine, Opens
<1>6. CASE S = {}
  <2>1. file' = f
    BY <1>4, <1>6
  <2> QED
    BY <1>4, <1>5, <1>6, <2>1, QuietTells
<1>7. CASE S # {}
  <2> DEFINE w == Withdrawn(f, S, now)
  <2>1. /\ w \in Files /\ w.floor = f.floor /\ w.notifiers = f.notifiers
        /\ w.notes = [s \in Ref |-> IF s \in S THEN Taken(f.notes[s], now) ELSE f.notes[s]]
    BY <1>5, WithdrawnFacts
  <2>2. file' = Noted(w, now)
    BY <1>4, <1>7
  <2> HIDE DEF w, f, S
  <2>3. /\ file' \in Files /\ file'.notes = w.notes
        /\ file'.floor = now /\ file'.notifiers = f.notifiers
    BY <1>5, <2>1, <2>2, NotedFacts
  <2>4. Silenced(file, file', p)
    <3>1. From(file, f, file')
      BY <1>5, <2>3 DEF From
    <3>2. \A s \in Ref : file'.notes[s] = IF s \in Doomed(f, p, file'.floor)
                          THEN Taken(f.notes[s], file'.floor) ELSE f.notes[s]
      BY <2>1, <2>3 DEF S
    <3> QED
      BY <2>3, <3>1, <3>2 DEF Silenced
  <2>5. ASSUME S = LiveOf(f, p)
        PROVE  LiveOf(file', p) = {}
    <3> SUFFICES ASSUME NEW s \in LiveOf(file', p)
                 PROVE  FALSE
      OBVIOUS
    <3>1. s \in Ref /\ Owner[s] = p /\ file'.notes[s].state \in Live
      BY DEF LiveOf
    <3>2. s \notin S
      <4>1. SUFFICES ASSUME s \in S PROVE FALSE
        OBVIOUS
      <4>2. file'.notes[s] = Taken(f.notes[s], now) /\ f.notes[s] \in Admission
        BY <1>5, <2>1, <2>3, <3>1, <4>1 DEF Files
      <4>3. Taken(f.notes[s], now).state = "withdrawn"
        BY <1>5, <4>2, TakenType
      <4> QED
        BY <3>1, <4>2, <4>3 DEF Live
    <3>3. file'.notes[s] = f.notes[s]
      BY <2>1, <2>3, <3>1, <3>2
    <3> QED
      BY <2>5, <3>1, <3>2, <3>3 DEF LiveOf
  <2> QED
    BY <1>4, <1>5, <2>3, <2>4, <2>5, QuietTells
<1> QED
  BY <1>6, <1>7

LEMMA TombstoneType ==
    ASSUME NEW a \in Admission
    PROVE  [a EXCEPT !.state = "gone", !.admitted = 0, !.posted = 0] \in Admission
<1>1. \A t \in Int : [a EXCEPT !.state = "gone", !.admitted = t, !.posted = t] \in Admission
  BY DEF Admission
<1>2. 0 \in Int
  OBVIOUS
<1> QED
  BY <1>1, <1>2, Zenon

LEMMA AcknowledgeShape ==
    ASSUME Fine, NEW r \in Ref, Acknowledge(r)
    PROVE  (Aging(file, file') \/ Finished(file, file', r)) /\ Tells
<1>1. PICK e \in Openings(file) : \E now \in Readings(e.book) :
        LET f == e.book IN
        /\ now > 0
        /\ \/ /\ now >= ReplayUntil[r]
              /\ Commit(e, Noted(f, now), {}) /\ Tell(r, {Expired})
           \/ /\ now < ReplayUntil[r]
              /\ Commit(e, f, {}) /\ Quiet
           \/ /\ now < ReplayUntil[r] /\ f.notes[r].state \in Ended
              /\ Commit(e, Noted([f EXCEPT !.notes[r] =
                      [@ EXCEPT !.state = "gone", !.admitted = 0, !.posted = 0]], now), {})
              /\ Quiet
  BY DEF Acknowledge
<1> DEFINE f == e.book
           a == f.notes[r]
           b == [a EXCEPT !.state = "gone", !.admitted = 0, !.posted = 0]
<1>2. PICK now \in Readings(f) :
        \/ now >= ReplayUntil[r] /\ file' = Noted(f, now) /\ Tell(r, {Expired})
        \/ file' = f /\ Quiet
        \/ /\ now < ReplayUntil[r] /\ a.state \in Ended
           /\ file' = Noted([f EXCEPT !.notes[r] = b], now) /\ Quiet
  BY <1>1 DEF Commit
<1>3. /\ f \in Files /\ now \in Int /\ a \in Admission /\ ReplayUntil[r] \in Int
      /\ Aging(file, f) /\ Aging(file, Noted(f, now)) /\ Noted(f, now).floor = now
      /\ told \in [Ref -> SUBSET Report]
  BY EditAges, ReferenceAssumption DEF Fine, Files
<1>4. CASE now >= ReplayUntil[r] /\ file' = Noted(f, now) /\ Tell(r, {Expired})
  <2>1. file' \in Files /\ ~(file'.floor < ReplayUntil[r])
    BY <1>3, <1>4 DEF Aging
  <2>2. Tells
    BY <1>3, <1>4, <2>1, OutcomeTypes, TellTells
  <2> QED
    BY <1>3, <1>4, <2>2
<1>5. CASE file' = f /\ Quiet
  BY <1>3, <1>5, QuietTells
<1>6. CASE /\ now < ReplayUntil[r] /\ a.state \in Ended
           /\ file' = Noted([f EXCEPT !.notes[r] = b], now) /\ Quiet
  <2> HIDE DEF a
  <2>1. b \in Admission
    BY <1>3, TombstoneType
  <2>0. Acks(a, b)
    BY <1>6 DEF Acks
  <2> HIDE DEF b
  <2>2. file' \in Files /\ Finished(file, file', r)
    BY <1>6, <2>0, <2>1, WriteFinishes DEF Fine, a
  <2> QED
    BY <1>3, <1>6, <2>2, QuietTells
<1> QED
  BY <1>2, <1>4, <1>5, <1>6

(* What a read finds at the floor it answers at is told truly. *)
LEMMA ReadAges ==
    ASSUME GoodFile(file), NEW p \in AfterRead(file)
    PROVE  Aging(file, p.book) /\ GoodFile(p.book) /\ p.book \in Files
BY AfterReadFacts DEF Aging, GoodFile

LEMMA ObserveShape ==
    ASSUME Fine, NEW r \in Ref, Observe(r)
    PROVE  Aging(file, file') /\ Tells
<1>1. PICK p \in AfterRead(file) : \E now \in Readings(p.book) :
        \/ /\ now >= ReplayUntil[r]
           /\ IF now > p.book.floor
              THEN \E e \in Openings(p.book) : Commit(e, Noted(e.book, now), p.settled)
              ELSE Commit(p, p.book, {})
           /\ Tell(r, {Expired})
        \/ /\ now < ReplayUntil[r]
           /\ Commit(p, p.book, {})
           /\ Tell(r, Terminal(View(p.book, r)))
  BY DEF Observe
<1> DEFINE f == p.book
<1>2. PICK now \in Readings(f) :
        \/ /\ now >= ReplayUntil[r]
           /\ IF now > f.floor
              THEN \E e \in Openings(f) : file' = Noted(e.book, now)
              ELSE file' = f
           /\ Tell(r, {Expired})
        \/ file' = f /\ Tell(r, Terminal(View(f, r)))
  BY <1>1 DEF Commit
<1>3. Aging(file, f) /\ GoodFile(f) /\ f \in Files /\ f.floor \in Int
      /\ told \in [Ref -> SUBSET Report] /\ ReplayUntil[r] \in Int
  BY ReadAges, ReferenceAssumption DEF Fine, Files
<1>4. now \in Int
  BY <1>3, ReadingsAhead
<1> HIDE DEF f
<1>5. CASE file' = f /\ Tell(r, Terminal(View(f, r)))
  <2>1. Terminal(View(f, r)) \in SUBSET Report
    BY <1>3, ViewType
  <2>2. Tells
    BY <1>3, <1>5, <2>1, TellTells
  <2> QED
    BY <1>3, <1>5, <2>2
<1>6. CASE now >= ReplayUntil[r] /\ ~(now > f.floor) /\ file' = f /\ Tell(r, {Expired})
  <2>1. ~(f.floor < ReplayUntil[r])
    BY <1>3, <1>4, <1>6
  <2>2. Tells
    BY <1>3, <1>6, <2>1, OutcomeTypes, TellTells
  <2> QED
    BY <1>3, <1>6, <2>2
<1>7. CASE now >= ReplayUntil[r] /\ Tell(r, {Expired}) /\ \E e \in Openings(f) : file' = Noted(e.book, now)
  <2>1. PICK e \in Openings(f) : file' = Noted(e.book, now)
    BY <1>7
  <2>2. GoodFile(e.book) /\ e.book \in Files /\ Ages(f, e.book) /\ e.book.floor \in Int
    BY <1>3, OpeningFacts DEF Opens, GoodFile, Files
  <2>3. /\ Noted(e.book, now) \in Files /\ Noted(e.book, now).floor >= now
        /\ Noted(e.book, now).floor \in Int
    BY <1>4, <2>2, NotedFacts DEF Files
  <2>4. Ages(f, Noted(e.book, now))
    BY <1>3, <1>4, <2>2, AgesNoted
  <2>5. Aging(file, file')
    BY <1>3, <2>1, <2>3, <2>4, AgesTransitive DEF Aging, Fine
  <2>6. ~(file'.floor < ReplayUntil[r])
    BY <1>3, <1>4, <1>7, <2>1, <2>3
  <2>7. Tells
    BY <1>3, <1>7, <2>5, <2>6, OutcomeTypes, TellTells DEF Aging
  <2> QED
    BY <2>5, <2>7
<1> QED
  BY <1>2, <1>5, <1>6, <1>7

LEMMA HistoryShape ==
    ASSUME Fine, History
    PROVE  Aging(file, file') /\ Tells
<1>1. PICK p \in AfterRead(file) :
        /\ file' = p.book
        /\ Recall([r \in Ref |-> told[r] \cup (Terminal(View(p.book, r)) \ {Gone})], posts)
  BY DEF History, Commit
<1> DEFINE outcomes == [r \in Ref |-> told[r] \cup (Terminal(View(p.book, r)) \ {Gone})]
<1>2. Aging(file, file') /\ file' \in Files /\ told \in [Ref -> SUBSET Report]
  BY <1>1, ReadAges DEF Fine
<1>3. outcomes \in [Ref -> SUBSET Report]
  BY <1>1, <1>2, ViewType
<1>4. \A r \in Ref : file'.floor < ReplayUntil[r] =>
               outcomes[r] \subseteq told[r] \cup Terminal(View(file', r))
  BY <1>1
<1>5. Recall(outcomes, posts)
  BY <1>1
<1> HIDE DEF outcomes
<1> QED
  BY <1>2, <1>3, <1>4, <1>5, RecallFacts DEF Tells

LEMMA OtherEditShape ==
    ASSUME Fine, OtherEdit
    PROVE  Aging(file, file') /\ Tells
<1>1. PICK e \in Openings(file) :
        /\ file' = e.book \/ \E now \in Readings(e.book) : file' = Noted(e.book, now)
        /\ Quiet
  BY DEF OtherEdit, Commit
<1>2. Aging(file, e.book)
  BY OpeningFacts DEF Fine, Opens, Aging, GoodFile
<1>3. Aging(file, file')
  BY <1>1, <1>2, EditAges DEF Fine
<1> QED
  BY <1>1, <1>3, QuietTells DEF Fine, Aging

LEMMA StillAges ==
    ASSUME Fine, UNCHANGED <<file, told, posts>>
    PROVE  Aging(file, file') /\ Tells
<1>1. Ages(file, file)
  BY DEF Ages, AgesTo, Fine, GoodFile, Files
<1> QED
  BY <1>1, SilentTells DEF Aging, Fine, GoodFile

-----------------------------------------------------------------------------
(* The inductive invariant.  Beside the types it has what the guards rest on *)
(* but do not ask: the fields that each state of a record fills, the bounds, *)
(* the rows in order, and, for outcomes, that nothing told is pending at the *)
(* floor.                                                                    *)

Histories ==
    /\ waiting \subseteq Polled
    /\ off \in [Program -> {"no", "blocked", "withdrawn"}]
    /\ told \in [Ref -> SUBSET Report]
    /\ posts \subseteq [ref : Ref, at : Int]
    /\ skipped \subseteq waiting

IInv == GoodFile(file) /\ Histories /\ SilentOnceOff /\ ToldStands

(* The step counted one more admission. *)
Counts(q) ==
    /\ MayPost(q)
    /\ Admitted(file, file', q)
    /\ Truthful
    /\ posts' = {x \in posts \cup {[ref |-> q.ref, at |-> file'.floor]} : x.at > file'.floor - Hour}

Shape ==
    \/ /\ \/ Aging(file, file')
          \/ \E r \in Ref : Finished(file, file', r) \/ Delivered(file, file', r)
          \/ \E p \in Program : Silenced(file, file', p)
       /\ Tells
    \/ \E q \in Request : Counts(q) /\ off' = off

(* What becomes of the programs that are turned off. *)
OffShape ==
    \/ off' = off
    \/ \E p \in Program : \E x \in {"no", "blocked", "withdrawn"} :
          /\ off' = [off EXCEPT ![p] = x]
          /\ x = "withdrawn" => LiveOf(file', p) = {}

LEMMA PostShape ==
    ASSUME Fine, NEW q \in Request, Post(q)
    PROVE  (Aging(file, file') /\ Tells) \/ Counts(q)
<1>1. MayPost(q) /\ \E e \in Openings(file) : \E now \in Readings(e.book) : PostAt(q, e, now)
  BY DEF Post
<1> QED
  BY <1>1, PostAtShape DEF Counts

LEMMA NextShape ==
    ASSUME Fine, Next
    PROVE  Shape /\ OffShape
<1>1. ASSUME NEW q \in Request, Post(q), UNCHANGED off
      PROVE  Shape /\ OffShape
  <2>1. (Aging(file, file') /\ Tells) \/ Counts(q)
    BY <1>1, PostShape
  <2> QED
    BY <1>1, <2>1 DEF Shape, OffShape
<1>2. ASSUME NEW r \in Ref, PostScheduled(r), UNCHANGED off
      PROVE  Shape /\ OffShape
  <2>1. (Aging(file, file') \/ Delivered(file, file', r)) /\ Tells
    BY <1>2, PostScheduledShape
  <2> QED
    BY <1>2, <2>1 DEF Shape, OffShape
<1>3. ASSUME NEW r \in Ref, Dismiss(r) \/ WithdrawOwn(r) \/ \E action \in Action : Act(r, action),
             UNCHANGED off
      PROVE  Shape /\ OffShape
  <2>1. \E to \in Ended, action \in Action \cup {None} :
           (to # "acted" => action = None) /\ Decide(r, to, action)
    BY <1>3 DEF Dismiss, WithdrawOwn, Act, Ended
  <2>2. (Aging(file, file') \/ Finished(file, file', r)) /\ Tells
    BY <2>1, DecideShape
  <2> QED
    BY <1>3, <2>2 DEF Shape, OffShape
<1>4. ASSUME NEW r \in Ref, Acknowledge(r), UNCHANGED off
      PROVE  Shape /\ OffShape
  <2>1. (Aging(file, file') \/ Finished(file, file', r)) /\ Tells
    BY <1>4, AcknowledgeShape
  <2> QED
    BY <1>4, <2>1 DEF Shape, OffShape
<1>5. ASSUME NEW r \in Ref, Observe(r), UNCHANGED off
      PROVE  Shape /\ OffShape
  BY <1>5, ObserveShape DEF Shape, OffShape
<1>6. ASSUME History \/ OtherEdit \/ Refused, UNCHANGED off
      PROVE  Shape /\ OffShape
  <2>1. Aging(file, file') /\ Tells
    BY <1>6, HistoryShape, OtherEditShape, FailAges DEF Refused
  <2> QED
    BY <1>6, <2>1 DEF Shape, OffShape
<1>7. ASSUME NEW r \in Polled, Wait(r), UNCHANGED off
      PROVE  Shape /\ OffShape
  <2>1. UNCHANGED <<file, told, posts>>
    BY <1>7 DEF Wait
  <2> QED
    BY <1>7, <2>1, StillAges DEF Shape, OffShape
<1>8. ASSUME NEW p \in Program, WithdrawProgram(p)
      PROVE  Shape /\ OffShape
  <2>1. /\ (Aging(file, file') \/ Silenced(file, file', p)) /\ Tells
        /\ off' = off \/ (LiveOf(file', p) = {} /\ off' = [off EXCEPT ![p] = "withdrawn"])
    BY <1>8, WithdrawProgramShape
  <2> QED
    BY <2>1 DEF Shape, OffShape
<1>9. ASSUME NEW p \in Blockable, Block(p) \/ Permit(p)
      PROVE  Shape /\ OffShape
  <2>1. UNCHANGED <<file, told, posts>>
    BY <1>9 DEF Block, Permit
  <2>2. p \in Program
    BY ReferenceAssumption
  <2>3. off' = [off EXCEPT ![p] = "blocked"] \/ off' = [off EXCEPT ![p] = "no"]
    BY <1>9 DEF Block, Permit
  <2>4. OffShape
    BY <2>2, <2>3 DEF OffShape
  <2> QED
    BY <2>1, <2>4, StillAges DEF Shape
<1> QED
  BY <1>1, <1>2, <1>3, <1>4, <1>5, <1>6, <1>7, <1>8, <1>9 DEF Next

(* Every shape leaves a good file, at a time that did not go back. *)
LEMMA ShapeGood ==
    ASSUME Fine, Shape
    PROVE  GoodFile(file') /\ Truthful
<1>1. CASE Aging(file, file') /\ Tells
  BY <1>1, AgesGood DEF Aging, Fine, Tells
<1>2. ASSUME NEW r \in Ref, Finished(file, file', r) \/ Delivered(file, file', r), Tells
      PROVE  GoodFile(file') /\ Truthful
  BY <1>2, FinishedGood, DeliveredGood DEF Tells
<1>3. ASSUME NEW p \in Program, Silenced(file, file', p), Tells
      PROVE  GoodFile(file') /\ Truthful
  BY <1>3, SilencedGood DEF Tells
<1>4. ASSUME NEW q \in Request, Counts(q)
      PROVE  GoodFile(file') /\ Truthful
  BY <1>4, AdmittedGood DEF Counts
<1> QED
  BY <1>1, <1>2, <1>3, <1>4 DEF Shape

(* Every step but a long poll that begins settles, or leaves the channels be. *)
LEMMA StepSettles ==
    ASSUME Next, \A r \in Polled : ~Wait(r)
    PROVE  UNCHANGED <<waiting, skipped>> \/ \E S : Settle(S)
<1> DEFINE Settles == \E S : Settle(S)
<1>1. \A e, g, S : Commit(e, g, S) => Settles
  BY DEF Commit
<1>2. \A e : Fail(e) => Settles
  BY DEF Fail
<1> HIDE DEF Settles
<1>3. ASSUME NEW q \in Request, Post(q)
      PROVE  Settles
  <2>1. PICK e \in Openings(file) : \E now \in Readings(e.book) : PostAt(q, e, now)
    BY <1>3 DEF Post
  <2>2. PICK now \in Readings(e.book) : PostAt(q, e, now)
    BY <2>1
  <2>3. Fail(e) \/ \E g, S : Commit(e, g, S)
    BY <2>2 DEF PostAt
  <2> QED
    BY <1>1, <1>2, <2>3
<1>4. ASSUME NEW r \in Ref, PostScheduled(r) \/ Acknowledge(r) \/ Observe(r)
      PROVE  Settles
  <2>1. PostScheduled(r) => \E e, g, S : Commit(e, g, S)
    BY DEF PostScheduled
  <2>2. Acknowledge(r) => \E e, g, S : Commit(e, g, S)
    BY DEF Acknowledge
  <2>3. ASSUME Observe(r)
        PROVE  Settles
    <3>1. PICK p \in AfterRead(file) : \E now \in Readings(p.book) :
            \/ \E e \in Openings(p.book) : Commit(e, Noted(e.book, now), p.settled)
            \/ Commit(p, p.book, {})
      BY <2>3 DEF Observe
    <3> QED
      BY <1>1, <3>1
  <2> QED
    BY <1>1, <1>4, <2>1, <2>2, <2>3
<1>5. \A r, to, action : Decide(r, to, action) => Settles
  BY <1>1, <1>2 DEF Decide, DecideAt
<1>6. \A p : WithdrawProgram(p) => Settles
  BY <1>1 DEF WithdrawProgram
<1>7. History \/ OtherEdit \/ Refused => Settles
  BY <1>1, <1>2 DEF History, OtherEdit, Refused
<1>8. \A p : Block(p) \/ Permit(p) => UNCHANGED <<waiting, skipped>>
  BY DEF Block, Permit
<1> QED
  BY <1>3, <1>4, <1>5, <1>6, <1>7, <1>8 DEF Next, Dismiss, WithdrawOwn, Act, Settles

(* No call but a long poll that begins adds to those who wait. *)
LEMMA OnlyWaitAdds ==
    ASSUME Next, \A r \in Polled : ~Wait(r)
    PROVE  waiting' \subseteq waiting
BY StepSettles DEF Settle

(* Only an open channel is skipped, and who sleeps on stays skipped. *)
LEMMA SkippedStays ==
    ASSUME Next
    PROVE  /\ skipped \subseteq waiting => skipped' \subseteq waiting'
           /\ skipped \cap waiting' \subseteq skipped'
<1>1. CASE \A r \in Polled : ~Wait(r)
  BY <1>1, StepSettles DEF Settle
<1>2. ASSUME NEW r \in Polled, Wait(r)
      PROVE  waiting' = waiting \cup {r} /\ skipped' = skipped
  BY <1>2 DEF Wait
<1> QED
  BY <1>1, <1>2

LEMMA HistoriesKept ==
    ASSUME IInv, Shape, OffShape, Next
    PROVE  Histories'
<1>1. GoodFile(file') /\ Truthful /\ file'.floor \in Int
  BY ShapeGood DEF IInv, Fine, Histories, GoodFile, Files
<1>2. told' \in [Ref -> SUBSET Report]
  <2>1. \A r \in Ref : told'[r] \subseteq Report
    BY <1>1 DEF Truthful, IInv, Histories
  <2>2. told' = [r \in Ref |-> told'[r]]
    BY <1>1 DEF Truthful
  <2> QED
    BY <2>1, <2>2
<1>3. posts' \subseteq [ref : Ref, at : Int]
  <2>1. CASE posts' \subseteq posts
    BY <2>1 DEF IInv, Histories
  <2>2. ASSUME NEW q \in Request, Counts(q)
        PROVE  posts' \subseteq [ref : Ref, at : Int]
    <3>1. posts' \subseteq posts \cup {[ref |-> q.ref, at |-> file'.floor]}
      BY <2>2 DEF Counts
    <3>2. [ref |-> q.ref, at |-> file'.floor] \in [ref : Ref, at : Int]
      BY <1>1, RequestAssumption
    <3> QED
      BY <3>1, <3>2 DEF IInv, Histories
  <2> QED
    BY <2>1, <2>2 DEF Shape, Tells
<1>4. off' \in [Program -> {"no", "blocked", "withdrawn"}]
  BY DEF OffShape, IInv, Histories
<1>5. waiting' \subseteq Polled
  <2>1. \A r \in Polled : Wait(r) => waiting' \subseteq waiting \cup {r}
    BY DEF Wait
  <2> QED
    BY <2>1, OnlyWaitAdds DEF IInv, Histories
<1>6. skipped' \subseteq waiting'
  BY SkippedStays DEF IInv, Histories
<1> QED
  BY <1>2, <1>3, <1>4, <1>5, <1>6 DEF Histories

-----------------------------------------------------------------------------
(* A program that is turned off: no step but its own post makes one of its   *)
(* notifications live.                                                       *)

LEMMA NoneRevived ==
    ASSUME Fine, Shape, NEW p \in Program,
           \A q \in Request : Counts(q) => Owner[q.ref] # p
    PROVE  LiveOf(file', p) \subseteq LiveOf(file, p)
<1>0. ASSUME NEW g, GoodFile(g), Ages(file, g)
      PROVE  LiveOf(g, p) \subseteq LiveOf(file, p)
  BY <1>0, AgesGood DEF LiveOf, Fine, GoodFile
<1>1. CASE Aging(file, file')
  <2>1. GoodFile(file')
    BY <1>1, AgesGood DEF Aging, Fine
  <2> QED
    BY <1>0, <1>1, <2>1 DEF Aging
<1>2. ASSUME NEW r \in Ref, Finished(file, file', r)
      PROVE  LiveOf(file', p) \subseteq LiveOf(file, p)
  <2>1. PICK g : /\ From(file, g, file')
                 /\ Ends(g.notes[r], file'.notes[r], file'.floor) \/ Acks(g.notes[r], file'.notes[r])
                 /\ \A s \in Ref \ {r} : file'.notes[s] = g.notes[s]
    BY <1>2 DEF Finished
  <2>2. file'.notes[r].state \notin Live
    <3>1. g.notes[r] \in Admission
      BY <2>1, FromFacts
    <3> QED
      BY <2>1, <3>1 DEF Ends, Acks, Admission, Live, Ended
  <2>3. LiveOf(file', p) \subseteq LiveOf(g, p)
    BY <2>1, <2>2 DEF LiveOf
  <2> QED
    BY <1>0, <2>1, <2>3 DEF From, Opens
<1>3. ASSUME NEW r \in Ref, Delivered(file, file', r)
      PROVE  LiveOf(file', p) \subseteq LiveOf(file, p)
  <2>1. PICK g : \E D \in Displaced(g, Posted(g, Owner[r])) :
                 /\ From(file, g, file')
                 /\ Shows(g.notes[r], file'.notes[r], file'.floor)
                 /\ \A s \in Ref \ {r} : file'.notes[s] = IF s \in D THEN Taken(g.notes[s], file'.floor)
                                                          ELSE g.notes[s]
    BY <1>3 DEF Delivered
  <2>2. g.notes[r].state \in Live
    BY <2>1 DEF Shows, Live
  <2>3. ASSUME NEW s \in Ref \ {r}, file'.notes[s].state \in Live
        PROVE  g.notes[s].state \in Live
    <3>1. g.notes[s] \in Admission /\ file'.floor \in Int
      BY <2>1, FromFacts
    <3>2. Taken(g.notes[s], file'.floor).state \notin Live
      BY <3>1, TakenType DEF Live
    <3> QED
      BY <2>1, <2>3, <3>2
  <2>4. LiveOf(file', p) \subseteq LiveOf(g, p)
    BY <2>2, <2>3 DEF LiveOf
  <2> QED
    BY <1>0, <2>1, <2>4 DEF From, Opens
<1>4. ASSUME NEW x \in Program, Silenced(file, file', x)
      PROVE  LiveOf(file', p) \subseteq LiveOf(file, p)
  <2>1. PICK g : /\ From(file, g, file')
                 /\ \A s \in Ref : file'.notes[s] = IF s \in Doomed(g, x, file'.floor)
                                         THEN Taken(g.notes[s], file'.floor) ELSE g.notes[s]
    BY <1>4 DEF Silenced
  <2>2. ASSUME NEW s \in Ref, file'.notes[s].state \in Live
        PROVE  g.notes[s].state \in Live
    <3>1. g.notes[s] \in Admission /\ file'.floor \in Int
      BY <2>1, FromFacts
    <3>2. Taken(g.notes[s], file'.floor).state \notin Live
      BY <3>1, TakenType DEF Live
    <3> QED
      BY <2>1, <2>2, <3>2
  <2>3. LiveOf(file', p) \subseteq LiveOf(g, p)
    BY <2>2 DEF LiveOf
  <2> QED
    BY <1>0, <2>1, <2>3 DEF From, Opens
<1>5. ASSUME NEW q \in Request, Counts(q)
      PROVE  LiveOf(file', p) \subseteq LiveOf(file, p)
  <2>1. PICK g : \E D \in Leaving(g, q) :
                 /\ From(file, g, file')
                 /\ \A s \in Ref \ {q.ref} :
                      file'.notes[s] = IF s \in Replaced(g, q) \cup D THEN Taken(g.notes[s], file'.floor)
                                       ELSE g.notes[s]
    BY <1>5 DEF Counts, Admitted
  <2>2. Owner[q.ref] # p
    BY <1>5
  <2>3. ASSUME NEW s \in Ref, Owner[s] = p, file'.notes[s].state \in Live
        PROVE  g.notes[s].state \in Live
    <3>1. g.notes[s] \in Admission /\ file'.floor \in Int
      BY <2>1, FromFacts
    <3>2. Taken(g.notes[s], file'.floor).state \notin Live
      BY <3>1, TakenType DEF Live
    <3>3. s \in Ref \ {q.ref}
      BY <2>2, <2>3
    <3> QED
      BY <2>1, <2>3, <3>2, <3>3
  <2>4. LiveOf(file', p) \subseteq LiveOf(g, p)
    BY <2>3 DEF LiveOf
  <2> QED
    BY <1>0, <2>1, <2>4 DEF From, Opens
<1> QED
  BY <1>1, <1>2, <1>3, <1>4, <1>5 DEF Shape

LEMMA SilenceKept ==
    ASSUME IInv, Shape, OffShape
    PROVE  SilentOnceOff'
<1>1. Fine
  BY DEF Fine, IInv, Histories
<1> SUFFICES ASSUME NEW p \in Program, off'[p] = "withdrawn"
             PROVE  LiveOf(file', p) = {}
  BY DEF SilentOnceOff
<1>2. off[p] = "withdrawn" \/ LiveOf(file', p) = {}
  BY DEF OffShape, IInv, Histories
<1>3. CASE off[p] = "withdrawn"
  <2>1. ASSUME NEW q \in Request, Counts(q)
        PROVE  Owner[q.ref] # p
    BY <1>3, <2>1 DEF Counts, MayPost, Blocked
  <2>2. LiveOf(file', p) \subseteq LiveOf(file, p)
    BY <1>1, <2>1, NoneRevived
  <2> QED
    BY <1>3, <2>2 DEF IInv, SilentOnceOff
<1> QED
  BY <1>2, <1>3

-----------------------------------------------------------------------------
(* The refinement.  A record is worth one status of the contract at each      *)
(* time: its collection is the passing of time there, and each move of a      *)
(* record is a step of the contract.                                          *)

(* What the contract is owed of a record at time t. *)
Kept(a) == [is |-> IF a.state = "absent" THEN "unknown" ELSE a.state, req |-> a.req, result |-> a.result]

Owed(r, a, t) ==
    IF t >= ReplayUntil[r] \/ Aged(r, a, t).state = "expired" THEN Contract!Expired
    ELSE Kept(Aged(r, a, t))

LEMMA RequestFacts ==
    ASSUME NEW r \in Ref, NEW a \in Admission, NEW s, GoodRecord(r, a, s)
    PROVE  /\ ReplayUntil[r] \in Int
           /\ a.state \in Live => /\ a.req \in Request /\ a.req.ref = r
                                  /\ a.req.expires \in Int /\ a.req.expires <= ReplayUntil[r]
           /\ a.state = "absent" => a = Absent
<1>1. ReplayUntil[r] \in Int
  BY ReferenceAssumption
<1>2. a.state \in Live => a.req \in Request /\ a.req.ref = r
  BY DEF GoodRecord, Live
<1> QED
  BY <1>1, <1>2, RequestAssumption DEF GoodRecord

LEMMA OwedCases ==
    ASSUME NEW r \in Ref, NEW a \in Admission, NEW s, GoodRecord(r, a, s), NEW t \in Int
    PROVE  /\ t >= ReplayUntil[r] => Owed(r, a, t) = Contract!Expired
           /\ a.state = "expired" => Owed(r, a, t) = Contract!Expired
           /\ a.state \in Live /\ t >= a.req.expires => Owed(r, a, t) = Contract!Expired
           /\ t < ReplayUntil[r] /\ a.state # "expired" /\ (a.state \in Live => t < a.req.expires)
                => Owed(r, a, t) = Kept(a)
<1>0. ReplayUntil[r] \in Int /\ (a.state \in Live => a.req.expires \in Int)
  BY RequestFacts
<1>1. t >= ReplayUntil[r] => Owed(r, a, t) = Contract!Expired
  BY DEF Owed
<1>2. ASSUME t < ReplayUntil[r], a.state = "expired"
      PROVE  Owed(r, a, t) = Contract!Expired
  <2>1. Aged(r, a, t) = a
    BY <1>0, <1>2 DEF Aged, Live
  <2> QED
    BY <1>2, <2>1 DEF Owed
<1>3. ASSUME t < ReplayUntil[r], a.state \in Live, t >= a.req.expires
      PROVE  Owed(r, a, t) = Contract!Expired
  <2>1. Aged(r, a, t) = [a EXCEPT !.state = "expired"]
    BY <1>0, <1>3 DEF Aged
  <2>2. Aged(r, a, t).state = "expired"
    BY <2>1 DEF Admission
  <2> QED
    BY <2>2 DEF Owed
<1>4. ASSUME t < ReplayUntil[r], a.state # "expired", a.state \in Live => t < a.req.expires
      PROVE  Owed(r, a, t) = Kept(a)
  <2>1. Aged(r, a, t) = a
    BY <1>0, <1>4 DEF Aged
  <2> QED
    BY <1>0, <1>4, <2>1 DEF Owed
<1> QED
  BY <1>0, <1>1, <1>2, <1>3, <1>4

LEMMA KeptFacts ==
    ASSUME NEW a
    PROVE  /\ Kept(a).is = IF a.state = "absent" THEN "unknown" ELSE a.state
           /\ Kept(a).req = a.req /\ Kept(a).result = a.result
BY DEF Kept

(* A record in its prime is owed as it stands, now and at t. *)
LEMMA OwedLive ==
    ASSUME NEW r \in Ref, NEW a \in Admission, NEW s \in Int, GoodRecord(r, a, s), a.state \in Live,
           s < a.req.expires
    PROVE  /\ Owed(r, a, s) = Kept(a)
           /\ Kept(a).is = a.state
           /\ \A t \in Int : t < a.req.expires => Contract!Aged(Kept(a), r, t) = Kept(a)
           /\ \A t \in Int : t >= a.req.expires => Contract!Aged(Kept(a), r, t) = Contract!Expired
<1>0. ReplayUntil[r] \in Int /\ a.req.expires \in Int /\ a.req.expires <= ReplayUntil[r]
  BY RequestFacts
<1>1. Kept(a).is = a.state /\ Kept(a).req = a.req
  BY KeptFacts DEF Live
<1>2. Owed(r, a, s) = Kept(a)
  BY <1>0, OwedCases DEF Live
<1>3. \A t \in Int : t < a.req.expires => Contract!Aged(Kept(a), r, t) = Kept(a)
  BY <1>0, <1>1 DEF Contract!Aged
<1>4. \A t \in Int : t >= a.req.expires => Contract!Aged(Kept(a), r, t) = Contract!Expired
  BY <1>0, <1>1 DEF Contract!Aged, Contract!Live, Live
<1> QED
  BY <1>1, <1>2, <1>3, <1>4

(* Collection of the file is the passing of time in the contract. *)
LEMMA OwedAges ==
    ASSUME NEW r \in Ref, NEW a \in Admission, NEW s \in Int, NEW t \in Int, s <= t,
           GoodRecord(r, a, s), NEW b \in Admission, AgesTo(r, a, b, t)
    PROVE  Owed(r, b, t) = Contract!Aged(Owed(r, a, s), r, t)
<1>0. /\ ReplayUntil[r] \in Int
      /\ a.state \in Live => a.req.expires \in Int /\ a.req.expires <= ReplayUntil[r]
  BY RequestFacts
<1>1. GoodRecord(r, b, t)
  BY RecordAges
<1>2. CASE t >= ReplayUntil[r]
  BY <1>1, <1>2, OwedCases DEF Contract!Aged
<1>3. CASE t < ReplayUntil[r] /\ a.state \in Live /\ t >= a.req.expires
  <2>1. Owed(r, b, t) = Contract!Expired
    <3>1. b.state = "expired" \/ b = a
      BY <1>0, <1>3 DEF AgesTo, Admission
    <3> QED
      BY <1>1, <1>3, <3>1, OwedCases
  <2>2. Contract!Aged(Owed(r, a, s), r, t) = Contract!Expired
    <3>1. CASE s < a.req.expires
      BY <1>3, <3>1, OwedLive
    <3>2. CASE ~(s < a.req.expires)
      <4>1. Owed(r, a, s) = Contract!Expired
        BY <1>0, <1>3, <3>2, OwedCases
      <4> QED
        BY <4>1 DEF Contract!Aged, Contract!Expired, Contract!Live
    <3> QED
      BY <3>1, <3>2
  <2> QED
    BY <2>1, <2>2
<1>4. CASE t < ReplayUntil[r] /\ a.state \in Live /\ t < a.req.expires
  <2>1. b = a
    BY <1>0, <1>4 DEF AgesTo
  <2>2. s < a.req.expires
    BY <1>0, <1>4
  <2>3. Owed(r, a, s) = Kept(a) /\ Contract!Aged(Kept(a), r, t) = Kept(a)
    BY <1>4, <2>2, OwedLive
  <2>4. Owed(r, a, t) = Kept(a)
    BY <1>1, <1>4, <2>1, OwedCases DEF Live
  <2> QED
    BY <2>1, <2>3, <2>4
<1>5. CASE t < ReplayUntil[r] /\ a.state \notin Live
  <2>1. b = a /\ s < ReplayUntil[r]
    BY <1>0, <1>5 DEF AgesTo
  <2>2. CASE a.state = "expired"
    <3>1. Owed(r, a, s) = Contract!Expired /\ Owed(r, a, t) = Contract!Expired
      BY <2>2, OwedCases
    <3> QED
      BY <2>1, <3>1 DEF Contract!Aged, Contract!Expired, Contract!Live
  <2>3. CASE a.state # "expired"
    <3>1. Owed(r, a, s) = Kept(a) /\ Owed(r, a, t) = Kept(a)
      BY <1>5, <2>1, <2>3, OwedCases
    <3>2. Kept(a).is \notin Contract!Live
      BY <1>5, KeptFacts DEF Contract!Live, Live
    <3> QED
      BY <1>0, <1>5, <2>1, <3>1, <3>2 DEF Contract!Aged
  <2> QED
    BY <2>2, <2>3
<1> QED
  BY <1>0, <1>2, <1>3, <1>4, <1>5

(* A status with another state, and with another state and result. *)
Turned(k, x) == [k EXCEPT !.is = x]

Resulting(k, x, y) == [k EXCEPT !.is = x, !.result = y]

LEMMA TurnedKept ==
    ASSUME NEW a, NEW x
    PROVE  Turned(Kept(a), x) = [is |-> x, req |-> a.req, result |-> a.result]
<1> DEFINE i == IF a.state = "absent" THEN "unknown" ELSE a.state
<1> HIDE DEF i
<1>1. Kept(a) = [is |-> i, req |-> a.req, result |-> a.result]
  BY DEF Kept, i
<1> QED
  BY <1>1 DEF Turned

LEMMA ResultingKept ==
    ASSUME NEW a, NEW x, NEW y
    PROVE  Resulting(Kept(a), x, y) = [is |-> x, req |-> a.req, result |-> y]
<1>1. Resulting(Kept(a), x, y) = [Turned(Kept(a), x) EXCEPT !.result = y]
  BY DEF Resulting, Turned
<1>2. Turned(Kept(a), x) = [is |-> x, req |-> a.req, result |-> a.result]
  BY TurnedKept
<1> QED
  BY <1>1, <1>2

(* The moves of a record, as the contract sees them. *)
LEMMA OwedEnded ==
    ASSUME NEW r \in Ref, NEW a, NEW b, NEW t \in Int, t < ReplayUntil[r],
           NEW to \in Ended, NEW y, b.state = to, b.req = a.req, b.result = y
    PROVE  Owed(r, b, t) = Resulting(Kept(a), to, y)
<1>0. ReplayUntil[r] \in Int
  BY ReferenceAssumption
<1>1. Aged(r, b, t) = b
  BY <1>0 DEF Aged, Live, Ended
<1>2. Owed(r, b, t) = Kept(b)
  BY <1>0, <1>1 DEF Owed, Ended
<1>3. Kept(b) = [is |-> to, req |-> a.req, result |-> y]
  BY DEF Kept, Ended
<1>4. Resulting(Kept(a), to, y) = [is |-> to, req |-> a.req, result |-> y]
  BY ResultingKept, Zenon
<1> QED
  BY <1>2, <1>3, <1>4

LEMMA OwedTaken ==
    ASSUME NEW r \in Ref, NEW a \in Admission, NEW t \in Int, t < ReplayUntil[r]
    PROVE  Owed(r, Taken(a, t), t) = Resulting(Kept(a), "withdrawn", [action |-> None, at |-> t])
<1>1. /\ Taken(a, t).state = "withdrawn" /\ Taken(a, t).req = a.req
      /\ Taken(a, t).result = [action |-> None, at |-> t]
  BY TakenType
<1>2. "withdrawn" \in Ended
  BY DEF Ended
<1> QED
  BY <1>1, <1>2, OwedEnded

LEMMA OwedShows ==
    ASSUME NEW r \in Ref, NEW a \in Admission, NEW s \in Int, NEW t \in Int, s <= t,
           GoodRecord(r, a, s), NEW b \in Admission, Shows(a, b, t)
    PROVE  Owed(r, b, t) = Turned(Kept(a), "posted")
<1>0. /\ a.state \in Live /\ t < a.req.expires
      /\ ReplayUntil[r] \in Int /\ a.req.expires \in Int /\ a.req.expires <= ReplayUntil[r]
  BY RequestFacts DEF Shows, Live
<1>1. b.state = "posted" /\ b.req = a.req /\ b.result = a.result
  BY DEF Admission, Shows
<1>2. Aged(r, b, t) = b
  BY <1>0, <1>1 DEF Aged
<1>3. Owed(r, b, t) = Kept(b)
  BY <1>0, <1>1, <1>2 DEF Owed
<1>4. Kept(b) = [is |-> "posted", req |-> a.req, result |-> a.result]
  BY <1>1 DEF Kept
<1>5. Turned(Kept(a), "posted") = [is |-> "posted", req |-> a.req, result |-> a.result]
  BY TurnedKept
<1> QED
  BY <1>3, <1>4, <1>5

LEMMA OwedAcks ==
    ASSUME NEW r \in Ref, NEW a \in Admission, NEW s \in Int, NEW t \in Int, s <= t,
           GoodRecord(r, a, s), NEW b \in Admission, Acks(a, b), t < ReplayUntil[r]
    PROVE  /\ Owed(r, a, t) = Kept(a) /\ Kept(a).is \in Ended
           /\ Owed(r, b, t) = Turned(Kept(a), "gone")
<1>0. a.state \in Ended /\ ReplayUntil[r] \in Int
  BY RequestFacts DEF Acks
<1>1. b.state = "gone" /\ b.req = a.req /\ b.result = a.result
  BY DEF Admission, Acks
<1>2. Aged(r, b, t) = b /\ Aged(r, a, t) = a
  BY <1>0, <1>1 DEF Aged, Live, Ended
<1>3. Owed(r, b, t) = Kept(b) /\ Owed(r, a, t) = Kept(a)
  BY <1>0, <1>1, <1>2 DEF Owed, Ended
<1>4. Kept(b) = [is |-> "gone", req |-> a.req, result |-> a.result]
  BY <1>1 DEF Kept
<1>5. Turned(Kept(a), "gone") = [is |-> "gone", req |-> a.req, result |-> a.result]
  BY TurnedKept
<1>6. Kept(a).is \in Ended
  BY <1>0, KeptFacts DEF Ended
<1> QED
  BY <1>3, <1>4, <1>5, <1>6

LEMMA OwedAdmits ==
    ASSUME NEW q \in Request, NEW a, NEW b \in Admission, NEW t \in Int,
           Admits(q, a, b, t)
    PROVE  /\ Owed(q.ref, Absent, t) = Contract!Unknown
           /\ Owed(q.ref, b, t) = [is |-> IF q.delivery = "now" THEN "posted" ELSE "scheduled",
                                    req |-> q, result |-> None]
<1>0. /\ q.ref \in Ref /\ q.expires \in Int /\ q.expires <= ReplayUntil[q.ref]
      /\ ReplayUntil[q.ref] \in Int /\ t < q.expires
  BY RequestAssumption, ReferenceAssumption DEF Admits
<1>1. b.state = (IF q.delivery = "now" THEN "posted" ELSE "scheduled") /\ b.req = q /\ b.result = None
  BY DEF Admits
<1>2. Aged(q.ref, b, t) = b
  BY <1>0, <1>1 DEF Aged
<1>3. Owed(q.ref, b, t) = Kept(b)
  BY <1>0, <1>1, <1>2 DEF Owed
<1>4. Absent.state = "absent" /\ Absent.req = None /\ Absent.result = None
  BY DEF Absent
<1>5. Aged(q.ref, Absent, t) = Absent
  BY <1>4 DEF Aged, Live
<1>6. Owed(q.ref, Absent, t) = Kept(Absent)
  BY <1>0, <1>4, <1>5 DEF Owed
<1> QED
  BY <1>1, <1>3, <1>4, <1>6 DEF Kept, Contract!Unknown

(* What the records an edit opens with are owed. *)
LEMMA OpenedStatus ==
    ASSUME NEW f, GoodFile(f), NEW g, NEW h, From(f, g, h), NEW s \in Ref
    PROVE  /\ Owed(s, g.notes[s], h.floor) = Contract!Aged(Owed(s, f.notes[s], f.floor), s, h.floor)
           /\ g.notes[s].state \in Live => /\ g.notes[s] = f.notes[s]
                                          /\ Owed(s, f.notes[s], f.floor) = Kept(g.notes[s])
                                          /\ Kept(g.notes[s]).is = g.notes[s].state
           /\ Owed(s, f.notes[s], f.floor).is \in Live
                => /\ f.notes[s].state \in Live
                   /\ Owed(s, f.notes[s], f.floor) = Kept(f.notes[s])
           /\ /\ Owed(s, f.notes[s], f.floor).is \in Live
              /\ Contract!Aged(Owed(s, f.notes[s], f.floor), s, h.floor) = Owed(s, f.notes[s], f.floor)
              <=> g.notes[s].state \in Live /\ h.floor < g.notes[s].req.expires
<1> DEFINE a == f.notes[s]
           b == g.notes[s]
           u == f.floor
           t == h.floor
<1>1. /\ a \in Admission /\ b \in Admission /\ u \in Int /\ g.floor \in Int /\ t \in Int
      /\ u <= g.floor /\ g.floor <= t
      /\ GoodRecord(s, a, u) /\ AgesTo(s, a, b, g.floor)
      /\ b.state \in Live => b = a /\ u < b.req.expires
  <2>1. /\ g.floor \in Int /\ t \in Int /\ g.floor <= t /\ b \in Admission
    BY FromFacts
  <2>2. Opens(f, g) /\ g \in Files
    BY FromFacts DEF From
  <2>3. u <= g.floor /\ AgesTo(s, a, b, g.floor) /\ (b.state \in Live => u < b.req.expires)
    BY <2>2 DEF Opens, Ages
  <2>4. b.state \in Live => b = a
    BY <2>2, AgesGood DEF Opens
  <2>5. a \in Admission /\ u \in Int /\ GoodRecord(s, a, u)
    BY DEF GoodFile, Files
  <2> QED
    BY <2>1, <2>3, <2>4, <2>5
<1> HIDE DEF a, b, u, t
<1>2. /\ ReplayUntil[s] \in Int
      /\ a.state \in Live => a.req.expires \in Int /\ a.req.expires <= ReplayUntil[s]
  BY <1>1, RequestFacts
<1>3. AgesTo(s, a, b, t)
  BY <1>1, <1>2 DEF AgesTo
<1>4. Owed(s, b, t) = Contract!Aged(Owed(s, a, u), s, t)
  BY <1>1, <1>3, OwedAges
<1>5. b.state \in Live => b = a /\ Owed(s, a, u) = Kept(b) /\ Kept(b).is = b.state
  BY <1>1, OwedLive
<1>6. ASSUME Owed(s, a, u).is \in Live
      PROVE  a.state \in Live /\ u < a.req.expires /\ Owed(s, a, u) = Kept(a)
  <2>1. Owed(s, a, u) # Contract!Expired
    BY <1>6 DEF Contract!Expired, Live
  <2>2. Owed(s, a, u) = Kept(a) /\ a.state # "expired" /\ (a.state \in Live => u < a.req.expires)
    BY <1>1, <1>2, <2>1, OwedCases
  <2>3. a.state \in Live
    BY <1>6, <2>2, KeptFacts DEF Live
  <2> QED
    BY <2>2, <2>3
<1>7. ASSUME Owed(s, a, u).is \in Live, Contract!Aged(Owed(s, a, u), s, t) = Owed(s, a, u)
      PROVE  b.state \in Live /\ t < b.req.expires
  <2>1. a.state \in Live /\ u < a.req.expires /\ Owed(s, a, u) = Kept(a)
    BY <1>6, <1>7
  <2>2. Kept(a) # Contract!Expired
    BY <1>7, <2>1 DEF Contract!Expired, Live
  <2>3. t < a.req.expires
    BY <1>1, <1>2, <1>7, <2>1, <2>2, OwedLive
  <2>4. b = a
    BY <1>1, <1>2, <2>1, <2>3 DEF AgesTo
  <2> QED
    BY <2>1, <2>3, <2>4
<1>8. ASSUME b.state \in Live, t < b.req.expires
      PROVE  Owed(s, a, u).is \in Live /\ Contract!Aged(Owed(s, a, u), s, t) = Owed(s, a, u)
  BY <1>1, <1>5, <1>8, OwedLive
<1> QED
  BY <1>4, <1>5, <1>6, <1>7, <1>8 DEF a, b, u, t

-----------------------------------------------------------------------------
(* The contract over the file.                                               *)

LEMMA Mapping ==
    ASSUME file \in Files, file' \in Files, NEW r \in Ref
    PROVE  /\ Status(r) = Owed(r, file.notes[r], file.floor)
           /\ Status(r)' = Owed(r, file'.notes[r], file'.floor)
<1>1. View(file, r) = Aged(r, file.notes[r], file.floor)
  BY ViewType
<1>2. View(file', r) = Aged(r, file'.notes[r], file'.floor)
  BY ViewType
<1>3. Status(r) = Owed(r, file.notes[r], file.floor)
  BY <1>1 DEF Status, Owed, Kept, Contract!Expired
<1>4. Status(r)' = Owed(r, file'.notes[r], file'.floor)
  BY <1>2 DEF Status, Owed, Kept, Contract!Expired
<1> QED
  BY <1>3, <1>4

(* What the passing of time to t makes of r. *)
Passing(r, t) == Contract!Aged(Status(r), r, t)

LEMMA Bridge ==
    ASSUME NEW t
    PROVE  /\ Contract!AgedStatus(t) = [r \in Ref |-> Passing(r, t)]
           /\ \A p : Contract!LiveOf(p) = {r \in Ref : Owner[r] = p /\ Status(r).is \in Live}
           /\ \A S \in SUBSET Ref : Contract!Still(S, t) = {r \in S : Passing(r, t) = Status(r)}
<1>1. Contract!AgedStatus(t) = [r \in Ref |-> Passing(r, t)]
  BY DEF Contract!AgedStatus, Passing
<1>3. ASSUME NEW p
      PROVE  Contract!LiveOf(p) = {r \in Ref : Owner[r] = p /\ Status(r).is \in Live}
  BY DEF Contract!LiveOf, Contract!Live, Live
<1>4. ASSUME NEW S \in SUBSET Ref
      PROVE  Contract!Still(S, t) = {r \in S : Passing(r, t) = Status(r)}
  BY <1>1 DEF Contract!Still
<1> QED
  BY <1>1, <1>3, <1>4

LEMMA LeftFacts ==
    ASSUME NEW t, NEW W
    PROVE  /\ Contract!Left(W, t) = [r \in Ref |-> Contract!Left(W, t)[r]]
           /\ \A r \in Ref \ W : Contract!Left(W, t)[r] = Passing(r, t)
           /\ \A r \in Ref \cap W : Contract!Left(W, t)[r] =
                 Resulting(Status(r), "withdrawn", [action |-> None, at |-> t])
BY DEF Contract!Left, Passing, Resulting

(* What a step that opens with g makes of each reference. *)
LEMMA StepFacts ==
    ASSUME GoodFile(file), NEW g, From(file, g, file'), NEW s \in Ref
    PROVE  /\ Passing(s, file'.floor) = Owed(s, g.notes[s], file'.floor)
           /\ Status(s)' = Owed(s, file'.notes[s], file'.floor)
           /\ g.notes[s].state \in Live => /\ g.notes[s] = file.notes[s]
                                          /\ Status(s) = Kept(g.notes[s])
                                          /\ Status(s).is = g.notes[s].state
                                          /\ Status(s).req = g.notes[s].req
           /\ Status(s).is \in Live
                => file.notes[s].state \in Live /\ Status(s).is = file.notes[s].state
           /\ Status(s).is \in Live /\ Passing(s, file'.floor) = Status(s)
              <=> g.notes[s].state \in Live /\ file'.floor < g.notes[s].req.expires
<1>1. file \in Files /\ file' \in Files
  BY FromFacts DEF GoodFile
<1>2. Status(s) = Owed(s, file.notes[s], file.floor) /\ Status(s)' = Owed(s, file'.notes[s], file'.floor)
  BY <1>1, Mapping
<1>3. \A a : a.state \in Live => Kept(a).is = a.state /\ Kept(a).req = a.req
  BY KeptFacts DEF Live
<1>4. /\ Owed(s, g.notes[s], file'.floor) = Passing(s, file'.floor)
      /\ g.notes[s].state \in Live => /\ g.notes[s] = file.notes[s]
                                      /\ Status(s) = Kept(g.notes[s])
      /\ Status(s).is \in Live => /\ file.notes[s].state \in Live
                                  /\ Status(s) = Kept(file.notes[s])
      /\ Status(s).is \in Live /\ Passing(s, file'.floor) = Status(s)
         <=> g.notes[s].state \in Live /\ file'.floor < g.notes[s].req.expires
  BY <1>2, OpenedStatus DEF Passing
<1> QED
  BY <1>2, <1>3, <1>4

LEMMA LeftStep ==
    ASSUME GoodFile(file), NEW g, From(file, g, file'), NEW W,
           \A x \in W : x \in Ref /\ g.notes[x].state \in Live,
           NEW V, NEW s \in Ref, s \in V <=> s \in W /\ file'.floor < ReplayUntil[s],
           s \in W => file'.notes[s] = Taken(g.notes[s], file'.floor),
           s \notin W => file'.notes[s] = g.notes[s]
    PROVE  Status(s)' = Contract!Left(V, file'.floor)[s]
<1> DEFINE t == file'.floor
<1>1. /\ g.notes[s] \in Admission /\ t \in Int /\ g.floor \in Int /\ g.floor <= t
      /\ GoodRecord(s, g.notes[s], g.floor) /\ ReplayUntil[s] \in Int
      /\ file'.notes[s] \in Admission
  BY FromFacts, ReferenceAssumption
<1>2. /\ s \in V => Contract!Left(V, t)[s] = Resulting(Status(s), "withdrawn", [action |-> None, at |-> t])
      /\ s \notin V => Contract!Left(V, t)[s] = Passing(s, t)
  BY LeftFacts
<1>3. CASE s \in V
  <2>1. g.notes[s].state \in Live /\ t < ReplayUntil[s] /\ file'.notes[s] = Taken(g.notes[s], t)
    BY <1>3
  <2>2. Status(s)' = Owed(s, Taken(g.notes[s], t), t) /\ Status(s) = Kept(g.notes[s])
    BY <2>1, StepFacts
  <2>3. Status(s)' = Resulting(Status(s), "withdrawn", [action |-> None, at |-> t])
    BY <1>1, <2>1, <2>2, OwedTaken
  <2> QED
    BY <1>2, <1>3, <2>3
<1>4. CASE s \in W \ V
  <2>1. t >= ReplayUntil[s]
    BY <1>1, <1>4
  <2>2. Status(s)' = Contract!Expired
    BY <2>1, StepFacts DEF Owed
  <2>3. Passing(s, t) = Contract!Expired
    BY <2>1 DEF Passing, Contract!Aged
  <2> QED
    BY <1>2, <1>4, <2>2, <2>3
<1>5. CASE s \notin W
  <2>1. Status(s)' = Passing(s, t)
    BY <1>5, StepFacts
  <2> QED
    BY <1>2, <1>5, <2>1
<1> QED
  BY <1>3, <1>4, <1>5

LEMMA SameCardinality ==
    ASSUME NEW S
    PROVE  Contract!Cardinality(S) = Cardinality(S)
BY DEF Contract!Cardinality, Cardinality

(* What is displaced in the file is displaced in the contract. *)
LEMMA DisplacedAlike ==
    ASSUME GoodFile(file), NEW g, From(file, g, file'), NEW p \in Program,
           NEW T \in SUBSET Ref, NEW D \in Displaced(g, Posted(g, p) \ T)
    PROVE  {x \in D : file'.floor < ReplayUntil[x]}
             \in Contract!Displaced(p, {x \in T : file'.floor < ReplayUntil[x]}, file'.floor)
<1> DEFINE t == file'.floor
           P == Posted(g, p) \ T
           U == {x \in T : t < ReplayUntil[x]}
           E == {x \in D : t < ReplayUntil[x]}
           shown == {r \in Contract!LiveOf(p) \ U : Status(r).is = "posted"}
           still == {r \in shown : Passing(r, t) = Status(r)}
<1>1. GoodFile(g) /\ t \in Int
  BY FromFacts
<1>2. IsFiniteSet(P) /\ Cardinality(P) <= MaxLive /\ Cardinality(P) \in Nat
  BY <1>1, PostedFacts, FS_CardinalityType
<1>3. Contract!LiveOf(p) = {r \in Ref : Owner[r] = p /\ Status(r).is \in Live}
  BY Bridge
<1>4. P \subseteq shown
  <2>1. ASSUME NEW r \in P PROVE r \in shown
    <3>1. r \in Ref /\ Owner[r] = p /\ g.notes[r].state = "posted" /\ r \notin T
      BY <2>1 DEF Posted
    <3>2. Status(r).is = "posted"
      BY <3>1, StepFacts DEF Live
    <3> QED
      BY <1>3, <3>1, <3>2 DEF Live
  <2> QED
    BY <2>1
<1>5. IsFiniteSet(shown) /\ Cardinality(P) <= Cardinality(shown) /\ Cardinality(shown) \in Nat
  <2>1. shown \subseteq Posted(file, p)
    BY <1>3, StepFacts DEF Posted
  <2>2. IsFiniteSet(Posted(file, p))
    <3>1. IsFiniteSet(Posted(file, p) \ {}) /\ Posted(file, p) \ {} = Posted(file, p)
      BY PostedFacts
    <3> QED
      BY <3>1
  <2>3. IsFiniteSet(shown)
    BY <2>1, <2>2, FS_Subset
  <2> QED
    BY <1>4, <2>3, FS_Subset, FS_CardinalityType
<1>6. ASSUME NEW r \in still
      PROVE  r \in P /\ t < ReplayUntil[r]
  <2>1. r \in Ref /\ Owner[r] = p /\ r \notin U /\ Status(r).is = "posted" /\ Passing(r, t) = Status(r)
    BY <1>3, <1>6
  <2>2. g.notes[r].state \in Live /\ t < g.notes[r].req.expires /\ Status(r).is = g.notes[r].state
    BY <2>1, StepFacts DEF Live
  <2>3. g.notes[r] \in Admission /\ GoodRecord(r, g.notes[r], g.floor)
    BY <2>1, FromFacts
  <2>4. t < ReplayUntil[r]
    BY <1>1, <2>1, <2>2, <2>3, RequestFacts
  <2> QED
    BY <2>1, <2>2, <2>4 DEF Posted
<1>7. Contract!Displaced(p, U, t) =
        {X \in SUBSET shown : \/ X = {} /\ Cardinality(still) < MaxLive
                              \/ Cardinality(X) = 1 /\ Cardinality(shown) >= MaxLive}
  <2>1. shown \in SUBSET Ref
    BY <1>3
  <2>2. Contract!Still(shown, t) = still
    BY <2>1, Bridge
  <2> DEFINE alike == {r \in Contract!LiveOf(p) \ U : [s \in Ref |-> Status(s)][r].is = "posted"}
  <2>3. shown = alike
    BY <1>3
  <2>4. Contract!Displaced(p, U, t) =
        {X \in SUBSET alike :
           \/ X = {} /\ Contract!Cardinality(Contract!Still(alike, t)) < MaxLive
           \/ Contract!Cardinality(X) = 1 /\ Contract!Cardinality(alike) >= MaxLive}
    BY DEF Contract!Displaced
  <2> HIDE DEF alike, shown, still
  <2> QED
    BY <2>2, <2>3, <2>4, SameCardinality
<1> HIDE DEF P, shown, still
<1>8. IsFiniteSet(still) /\ Cardinality(still) \in Nat /\ Cardinality(still) <= Cardinality(P)
  BY <1>2, <1>6, FS_Subset, FS_CardinalityType
<1>9. MaxLive \in Nat
  BY BoundAssumption
<1>10. CASE Cardinality(P) < MaxLive
  <2>1. D = {}
    BY <1>10 DEF Displaced, P
  <2>2. E = {} /\ Cardinality(still) < MaxLive
    BY <1>2, <1>8, <1>9, <1>10, <2>1
  <2> QED
    BY <1>7, <2>2
<1>11. CASE ~(Cardinality(P) < MaxLive)
  <2>1. PICK d \in P : D = {d}
    BY <1>11 DEF Displaced, P
  <2>2. CASE t < ReplayUntil[d]
    <3>1. E = {d}
      BY <2>1, <2>2
    <3>2. Cardinality(E) = 1
      BY <3>1, FS_Singleton
    <3>3. Cardinality(shown) >= MaxLive
      BY <1>2, <1>5, <1>9, <1>11
    <3>4. E \in SUBSET shown
      BY <1>4, <3>1
    <3> QED
      BY <1>7, <3>2, <3>3, <3>4
  <2>3. CASE ~(t < ReplayUntil[d])
    <3>1. E = {}
      BY <2>1, <2>3
    <3>2. still \subseteq P \ {d}
      BY <1>6, <2>3
    <3>3. IsFiniteSet(P \ {d}) /\ Cardinality(P \ {d}) = Cardinality(P) - 1
      BY <1>2, <2>1, FS_RemoveElement
    <3>4. Cardinality(still) <= Cardinality(P \ {d})
      BY <3>2, <3>3, FS_Subset
    <3>5. Cardinality(still) < MaxLive
      BY <1>2, <1>8, <1>9, <3>3, <3>4
    <3> QED
      BY <1>7, <3>1, <3>5
  <2> QED
    BY <2>2, <2>3
<1> QED
  BY <1>10, <1>11

LEMMA AgingImplements ==
    ASSUME GoodFile(file), Aging(file, file')
    PROVE  Contract!Age
<1>1. /\ file \in Files /\ file' \in Files /\ file.floor \in Int /\ file'.floor \in Int
      /\ file.floor <= file'.floor
  BY DEF GoodFile, Aging, Ages, Files
<1>2. ASSUME NEW r \in Ref
      PROVE  Status(r)' = Passing(r, file'.floor)
  <2>1. /\ file.notes[r] \in Admission /\ file'.notes[r] \in Admission
        /\ GoodRecord(r, file.notes[r], file.floor)
        /\ AgesTo(r, file.notes[r], file'.notes[r], file'.floor)
    BY DEF GoodFile, Aging, Ages, Files
  <2>2. Status(r) = Owed(r, file.notes[r], file.floor) /\ Status(r)' = Owed(r, file'.notes[r], file'.floor)
    BY <1>1, Mapping
  <2>3. Owed(r, file'.notes[r], file'.floor)
          = Contract!Aged(Owed(r, file.notes[r], file.floor), r, file'.floor)
    BY <1>1, <2>1, OwedAges
  <2> QED
    BY <2>2, <2>3 DEF Passing
<1>3. [r \in Ref |-> Status(r)]' = Contract!AgedStatus(file'.floor)
  <2>1. Contract!AgedStatus(file'.floor) = [r \in Ref |-> Passing(r, file'.floor)]
    BY Bridge
  <2> QED
    BY <1>2, <2>1
<1> QED
  BY <1>1, <1>3 DEF Contract!Age, Contract!Forward

LEMMA Onward ==
    ASSUME GoodFile(file), NEW g, From(file, g, file')
    PROVE  Contract!Forward
<1>1. Ages(file, g) /\ g.floor <= file'.floor /\ g.floor \in Int /\ file'.floor \in Int
  BY FromFacts DEF From, Opens
<1>2. file.floor <= g.floor /\ file.floor \in Int
  BY <1>1 DEF Ages, GoodFile, Files
<1> QED
  BY <1>1, <1>2 DEF Contract!Forward

LEMMA FinishedImplements ==
    ASSUME GoodFile(file), NEW r \in Ref, Finished(file, file', r)
    PROVE  Contract!Next
<1> DEFINE t == file'.floor
<1>1. PICK g : /\ From(file, g, file')
               /\ t < ReplayUntil[r]
               /\ Ends(g.notes[r], file'.notes[r], t) \/ Acks(g.notes[r], file'.notes[r])
               /\ \A s \in Ref \ {r} : file'.notes[s] = g.notes[s]
  BY DEF Finished
<1>2. /\ g.notes[r] \in Admission /\ file'.notes[r] \in Admission /\ t \in Int /\ g.floor \in Int
      /\ g.floor <= t /\ GoodRecord(r, g.notes[r], g.floor)
  BY <1>1, FromFacts
<1>3. \A s \in Ref \ {r} : Status(s)' = Passing(s, t)
  BY <1>1, StepFacts
<1>4. Contract!Forward /\ Contract!AgedStatus(t) = [s \in Ref |-> Passing(s, t)]
  BY <1>1, Onward, Bridge
<1>5. /\ Passing(r, t) = Owed(r, g.notes[r], t)
      /\ Status(r)' = Owed(r, file'.notes[r], t)
      /\ g.notes[r].state \in Live => Status(r) = Kept(g.notes[r]) /\ Status(r).is = g.notes[r].state
                                      /\ Status(r).req = g.notes[r].req
      /\ g.notes[r].state \in Live /\ t < g.notes[r].req.expires => Passing(r, t) = Status(r)
  BY <1>1, StepFacts
<1>6. CASE Ends(g.notes[r], file'.notes[r], t)
  <2>1. PICK to \in Ended, action \in Action \cup {None} :
          /\ IF to = "acted" THEN g.notes[r].state = "posted" /\ action \in g.notes[r].req.actions
             ELSE action = None
          /\ file'.notes[r] = [g.notes[r] EXCEPT !.state = to, !.result = [action |-> action, at |-> t]]
    BY <1>6 DEF Ends
  <2>2. g.notes[r].state \in Live /\ t < g.notes[r].req.expires
    BY <1>6 DEF Ends
  <2>3. /\ file'.notes[r].state = to /\ file'.notes[r].req = g.notes[r].req
        /\ file'.notes[r].result = [action |-> action, at |-> t]
    BY <1>2, <2>1 DEF Admission
  <2>4. Status(r)' = Resulting(Kept(g.notes[r]), to, [action |-> action, at |-> t])
    BY <1>1, <1>2, <1>5, <2>3, OwedEnded
  <2>5. Status(r)' = Resulting(Passing(r, t), to, [action |-> action, at |-> t])
    BY <1>5, <2>2, <2>4
  <2>6. [s \in Ref |-> Status(s)]' =
          [[s \in Ref |-> Passing(s, t)] EXCEPT ![r] = Resulting(Passing(r, t), to, [action |-> action, at |-> t])]
    BY <1>3, <2>5
  <2> DEFINE k == [s \in Ref |-> Passing(s, t)]
             y == [action |-> action, at |-> t]
  <2>7. [s \in Ref |-> Status(s)]' = [k EXCEPT ![r].is = to, ![r].result = y]
    <3>1. k[r] = Passing(r, t) /\ k \in [Ref -> {k[s] : s \in Ref}]
      OBVIOUS
    <3>2. [s \in Ref |-> Status(s)]' = [k EXCEPT ![r] = Resulting(k[r], to, y)]
      BY <2>6, <3>1
    <3> HIDE DEF k, y
    <3>3. [k EXCEPT ![r].is = to, ![r].result = y] = [k EXCEPT ![r] = [k[r] EXCEPT !.is = to, !.result = y]]
      BY <3>1
    <3> QED
      BY <3>2, <3>3 DEF Resulting
  <2>8. IF to = "acted"
        THEN [s \in Ref |-> Status(s)][r].is = "posted" /\ action \in [s \in Ref |-> Status(s)][r].req.actions
        ELSE action = None
    BY <1>5, <2>1, <2>2
  <2>9. Contract!AgedStatus(t)[r].is \in Contract!Live
    BY <1>4, <1>5, <2>2 DEF Contract!Live, Live
  <2>10. Contract!Finish(r, to, action)
    <3>1. [s \in Ref |-> Status(s)]' = [Contract!AgedStatus(t) EXCEPT ![r].is = to, ![r].result = y]
      BY <1>4, <2>7
    <3> QED
      BY <1>4, <2>8, <2>9, <3>1 DEF Contract!Finish
  <2> QED
    BY <2>10 DEF Contract!Next, Contract!Ended, Ended
<1>7. CASE Acks(g.notes[r], file'.notes[r])
  <2>1. /\ Owed(r, g.notes[r], t) = Kept(g.notes[r]) /\ Kept(g.notes[r]).is \in Ended
        /\ Owed(r, file'.notes[r], t) = Turned(Kept(g.notes[r]), "gone")
    BY <1>1, <1>2, <1>7, OwedAcks
  <2>2. Passing(r, t).is \in Ended /\ Status(r)' = Turned(Passing(r, t), "gone")
    BY <1>5, <2>1
  <2> DEFINE k == [s \in Ref |-> Passing(s, t)]
  <2>3. [s \in Ref |-> Status(s)]' = [k EXCEPT ![r] = Turned(k[r], "gone")]
    BY <1>3, <2>2
  <2>4. k[r].is \in Ended
    BY <2>2
  <2>5. [k EXCEPT ![r].is = "gone"] = [k EXCEPT ![r] = Turned(k[r], "gone")]
    BY DEF Turned
  <2> HIDE DEF k
  <2>6. [s \in Ref |-> Status(s)]' = [Contract!AgedStatus(t) EXCEPT ![r].is = "gone"]
        /\ Contract!AgedStatus(t)[r].is \in Contract!Ended
    BY <1>4, <2>3, <2>4, <2>5 DEF k, Ended, Contract!Ended
  <2> QED
    BY <1>4, <2>6 DEF Contract!Acknowledge, Contract!Next
<1> QED
  BY <1>1, <1>6, <1>7

LEMMA SilencedImplements ==
    ASSUME GoodFile(file), NEW p \in Program, Silenced(file, file', p)
    PROVE  Contract!Next
<1> DEFINE t == file'.floor
<1>1. PICK g : /\ From(file, g, file')
               /\ \A s \in Ref : file'.notes[s] = IF s \in Doomed(g, p, t) THEN Taken(g.notes[s], t)
                                                 ELSE g.notes[s]
  BY DEF Silenced
<1> DEFINE W == Doomed(g, p, t)
<1>2. \A s \in W : s \in Ref /\ g.notes[s].state \in Live /\ Owner[s] = p /\ t < g.notes[s].req.expires
  BY DEF Doomed, LiveOf
<1>3. {s \in W : t < ReplayUntil[s]} = W
  <2>1. ASSUME NEW s \in W PROVE t < ReplayUntil[s]
    <3>1. s \in Ref /\ g.notes[s] \in Admission /\ GoodRecord(s, g.notes[s], g.floor) /\ t \in Int
      BY <1>1, <1>2, FromFacts
    <3> QED
      BY <1>2, <3>1, RequestFacts
  <2> QED
    BY <2>1
<1>4. ASSUME NEW s \in Ref PROVE Status(s)' = Contract!Left(W, t)[s]
  <2>1. /\ s \in W => file'.notes[s] = Taken(g.notes[s], t)
        /\ s \notin W => file'.notes[s] = g.notes[s]
    BY <1>1
  <2>2. From(file, g, file')
    BY <1>1
  <2>3. \A x \in W : x \in Ref /\ g.notes[x].state \in Live
    BY <1>2
  <2>4. s \in W <=> s \in W /\ file'.floor < ReplayUntil[s]
    BY <1>3
  <2> HIDE DEF W
  <2> QED
    BY <2>1, <2>2, <2>3, <2>4, LeftStep
<1>5. [s \in Ref |-> Status(s)]' = Contract!Left(W, t)
  <2>1. Contract!Left(W, t) = [s \in Ref |-> Contract!Left(W, t)[s]]
    BY LeftFacts
  <2> HIDE DEF W
  <2> QED
    BY <1>4, <2>1
<1>6. W = Contract!Still(Contract!LiveOf(p), t)
  <2>1. Contract!LiveOf(p) = {s \in Ref : Owner[s] = p /\ Status(s).is \in Live}
    BY Bridge
  <2>2. Contract!Still(Contract!LiveOf(p), t) = {s \in Contract!LiveOf(p) : Passing(s, t) = Status(s)}
    BY <2>1, Bridge
  <2>3. \A s \in Ref : Status(s).is \in Live /\ Passing(s, t) = Status(s)
                       <=> g.notes[s].state \in Live /\ t < g.notes[s].req.expires
    BY <1>1, StepFacts
  <2> QED
    BY <2>1, <2>2, <2>3 DEF Doomed, LiveOf
<1>7. Contract!Forward
  BY <1>1, Onward
<1>8. CASE \E r \in Ref : Owner[r] = p
  <2>1. Contract!Silence(p)
    BY <1>5, <1>6, <1>7 DEF Contract!Silence
  <2> QED
    BY <1>8, <2>1 DEF Contract!Next
<1>9. CASE ~\E r \in Ref : Owner[r] = p
  <2>1. W = {}
    BY <1>2, <1>9
  <2>2. Contract!Left(W, t) = Contract!AgedStatus(t)
    <3>1. /\ Contract!Left({}, t) = [s \in Ref |-> Contract!Left({}, t)[s]]
          /\ \A s \in Ref : Contract!Left({}, t)[s] = Passing(s, t)
      BY LeftFacts
    <3>2. Contract!AgedStatus(t) = [s \in Ref |-> Passing(s, t)]
      BY Bridge
    <3> QED
      BY <2>1, <3>1, <3>2
  <2> QED
    BY <1>5, <1>7, <2>2 DEF Contract!Age, Contract!Next
<1> QED
  BY <1>8, <1>9

LEMMA DeliveredImplements ==
    ASSUME GoodFile(file), NEW r \in Ref, Delivered(file, file', r)
    PROVE  Contract!Next
<1> DEFINE t == file'.floor
           p == Owner[r]
<1>1. PICK g : \E D \in Displaced(g, Posted(g, p)) :
               /\ From(file, g, file')
               /\ Shows(g.notes[r], file'.notes[r], t)
               /\ \A s \in Ref \ {r} : file'.notes[s] = IF s \in D THEN Taken(g.notes[s], t)
                                                       ELSE g.notes[s]
  BY DEF Delivered
<1>2. PICK D \in Displaced(g, Posted(g, p)) :
               /\ From(file, g, file')
               /\ Shows(g.notes[r], file'.notes[r], t)
               /\ \A s \in Ref \ {r} : file'.notes[s] = IF s \in D THEN Taken(g.notes[s], t)
                                                       ELSE g.notes[s]
  BY <1>1
<1> DEFINE E == {x \in D : t < ReplayUntil[x]}
<1>3. p \in Program /\ GoodFile(g)
  BY <1>2, FromFacts, ReferenceAssumption
<1>4. Posted(g, p) \ {} = Posted(g, p)
  OBVIOUS
<1>5. \A s \in D : s \in Ref /\ g.notes[s].state = "posted"
  <2>1. IsFiniteSet(Posted(g, p) \ {}) /\ Cardinality(Posted(g, p) \ {}) <= MaxLive
    BY <1>3, PostedFacts
  <2>2. D \subseteq Posted(g, p)
    BY <1>2, <1>4, <2>1, DisplacedFacts
  <2> QED
    BY <2>2 DEF Posted
<1>6. E \in Contract!Displaced(p, {}, t)
  <2>1. E \in Contract!Displaced(p, {x \in {} : t < ReplayUntil[x]}, t)
    BY <1>2, <1>3, <1>4, DisplacedAlike
  <2>2. {x \in {} : t < ReplayUntil[x]} = {}
    OBVIOUS
  <2> HIDE DEF E, p, t
  <2> QED
    BY <2>1, <2>2
<1>7. ASSUME NEW s \in Ref \ {r}
      PROVE  Status(s)' = Contract!Left(E, t)[s]
  <2>1. \A x \in D : x \in Ref /\ g.notes[x].state \in Live
    BY <1>5 DEF Live
  <2>2. /\ s \in D => file'.notes[s] = Taken(g.notes[s], t)
        /\ s \notin D => file'.notes[s] = g.notes[s]
    BY <1>2
  <2>3. From(file, g, file') /\ (s \in E <=> s \in D /\ file'.floor < ReplayUntil[s])
    BY <1>2
  <2> HIDE DEF E
  <2> QED
    BY <2>1, <2>2, <2>3, LeftStep
<1>8. /\ g.notes[r] \in Admission /\ file'.notes[r] \in Admission /\ t \in Int /\ g.floor \in Int
      /\ g.floor <= t /\ GoodRecord(r, g.notes[r], g.floor)
      /\ g.notes[r].state = "scheduled" /\ t < g.notes[r].req.expires
  BY <1>2, FromFacts DEF Shows
<1>9. /\ Status(r)' = Turned(Status(r), "posted")
      /\ Passing(r, t) = Status(r) /\ Status(r).is = "scheduled"
  <2>1. Owed(r, file'.notes[r], t) = Turned(Kept(g.notes[r]), "posted")
    BY <1>2, <1>8, OwedShows
  <2>2. Status(r) = Kept(g.notes[r]) /\ Status(r)' = Owed(r, file'.notes[r], t)
        /\ Passing(r, t) = Status(r) /\ Status(r).is = "scheduled"
    BY <1>2, <1>8, StepFacts DEF Live
  <2> QED
    BY <2>1, <2>2
<1>10. r \notin E
  BY <1>5, <1>8
<1> DEFINE k == Contract!Left(E, t)
<1>11. k = [s \in Ref |-> k[s]] /\ k[r] = Status(r)
  <2>1. k = [s \in Ref |-> k[s]] /\ k[r] = Passing(r, t)
    BY <1>10, LeftFacts
  <2> HIDE DEF k, E
  <2> QED
    BY <1>9, <2>1
<1>12. [s \in Ref |-> Status(s)]' = [k EXCEPT ![r].is = "posted"]
  <2> HIDE DEF k
  <2>1. [s \in Ref |-> Status(s)]' = [k EXCEPT ![r] = Turned(k[r], "posted")]
    BY <1>7, <1>9, <1>11 DEF k
  <2>2. [k EXCEPT ![r].is = "posted"] = [k EXCEPT ![r] = Turned(k[r], "posted")]
    BY <1>11 DEF Turned
  <2> QED
    BY <2>1, <2>2
<1>13. Contract!AgedStatus(t)[r].is = "scheduled"
  BY <1>9, Bridge
<1>14. Contract!Forward
  BY <1>2, Onward
<1>15. Contract!Deliver(r)
  BY <1>6, <1>12, <1>13, <1>14 DEF Contract!Deliver
<1> QED
  BY <1>15 DEF Contract!Next

(* What a request replaces in the file it replaces in the contract. *)
LEMMA ReplacedAlike ==
    ASSUME GoodFile(file), NEW g, From(file, g, file'), NEW q \in Request
    PROVE  {x \in Replaced(g, q) : file'.floor < ReplayUntil[x]} \in Contract!Replaced(q, file'.floor)
<1> DEFINE t == file'.floor
           p == Owner[q.ref]
           T == Replaced(g, q)
           U == {x \in T : t < ReplayUntil[x]}
           same == {r \in Contract!LiveOf(p) : q.tag # None /\ Status(r).req.tag = q.tag}
           alike == {r \in Contract!LiveOf(p) : q.tag # None /\ [s \in Ref |-> Status(s)][r].req.tag = q.tag}
<1>1. Contract!LiveOf(p) = {r \in Ref : Owner[r] = p /\ Status(r).is \in Live}
  BY Bridge
<1>2. same = alike
  BY <1>1
<1>3. Contract!Replaced(q, t) = {X \in SUBSET alike : Contract!Still(alike, t) \subseteq X}
  BY DEF Contract!Replaced
<1>4. Contract!Still(same, t) = {r \in same : Passing(r, t) = Status(r)}
  BY <1>1, Bridge
<1>5. U \subseteq same
  <2>1. ASSUME NEW r \in U PROVE r \in same
    <3>1. /\ r \in Ref /\ Owner[r] = p /\ g.notes[r].state \in Live
          /\ q.tag # None /\ g.notes[r].req.tag = q.tag
      BY <2>1 DEF Replaced
    <3>2. Status(r).is \in Live /\ Status(r).req = g.notes[r].req
      BY <3>1, StepFacts
    <3> QED
      BY <1>1, <3>1, <3>2
  <2> QED
    BY <2>1
<1>6. ASSUME NEW r \in same, Passing(r, t) = Status(r)
      PROVE  r \in U
  <2>1. r \in Ref /\ Owner[r] = p /\ Status(r).is \in Live /\ q.tag # None /\ Status(r).req.tag = q.tag
    BY <1>1, <1>6
  <2>2. /\ g.notes[r].state \in Live /\ t < g.notes[r].req.expires
        /\ Status(r).req = g.notes[r].req
    BY <1>6, <2>1, StepFacts
  <2>3. g.notes[r] \in Admission /\ GoodRecord(r, g.notes[r], g.floor) /\ t \in Int
    BY <2>1, FromFacts
  <2>4. t < ReplayUntil[r]
    BY <2>1, <2>2, <2>3, RequestFacts
  <2> QED
    BY <2>1, <2>2, <2>4 DEF Replaced
<1> HIDE DEF same, alike, U
<1>7. U \in {X \in SUBSET same : Contract!Still(same, t) \subseteq X}
  BY <1>4, <1>5, <1>6
<1> QED
  BY <1>2, <1>3, <1>7 DEF U

LEMMA AdmittedImplements ==
    ASSUME GoodFile(file), NEW q \in Request, Admitted(file, file', q)
    PROVE  Contract!Next
<1> DEFINE t == file'.floor
           r == q.ref
           p == Owner[r]
<1>1. PICK g : \E D \in Leaving(g, q) :
        /\ From(file, g, file')
        /\ Admits(q, g.notes[r], file'.notes[r], t)
        /\ \A s \in Ref \ {r} :
              file'.notes[s] = IF s \in Replaced(g, q) \cup D THEN Taken(g.notes[s], t)
                               ELSE g.notes[s]
  BY DEF Admitted
<1>2. PICK D \in Leaving(g, q) :
        /\ From(file, g, file')
        /\ Admits(q, g.notes[r], file'.notes[r], t)
        /\ \A s \in Ref \ {r} :
              file'.notes[s] = IF s \in Replaced(g, q) \cup D THEN Taken(g.notes[s], t)
                               ELSE g.notes[s]
  BY <1>1
<1> DEFINE T == Replaced(g, q)
           U == {x \in T : t < ReplayUntil[x]}
           E == {x \in D : t < ReplayUntil[x]}
           W == T \cup D
           V == U \cup E
           new == [is |-> IF q.delivery = "now" THEN "posted" ELSE "scheduled", req |-> q, result |-> None]
<1>3. /\ r \in Ref /\ p \in Program /\ GoodFile(g) /\ t \in Int
      /\ file'.notes[r] \in Admission
      /\ g.notes[r] = Absent /\ t < q.expires
  BY <1>2, FromFacts, RequestAssumption, ReferenceAssumption DEF Admits
<1>4. From(file, g, file')
  BY <1>2
<1>5. \A x \in W : x \in Ref /\ g.notes[x].state \in Live
  BY <1>3, LeavingFacts
<1>6. U \in Contract!Replaced(q, t)
  BY <1>4, ReplacedAlike
<1>7. E \in IF q.delivery = "now" THEN Contract!Displaced(p, U, t) ELSE {{}}
  <2>1. CASE q.delivery = "now"
    <3>1. D \in Displaced(g, Posted(g, p) \ T)
      BY <2>1 DEF Leaving
    <3>2. T \in SUBSET Ref
      BY DEF Replaced
    <3> HIDE DEF p, T
    <3>3. E \in Contract!Displaced(p, U, t)
      BY <1>3, <1>4, <3>1, <3>2, DisplacedAlike
    <3> QED
      BY <2>1, <3>3
  <2>2. CASE q.delivery # "now"
    <3>1. D = {}
      BY <2>2 DEF Leaving
    <3> QED
      BY <2>2, <3>1
  <2> QED
    BY <2>1, <2>2
<1>8. ASSUME NEW s \in Ref \ {r}
      PROVE  Status(s)' = Contract!Left(V, t)[s]
  <2>1. /\ s \in W => file'.notes[s] = Taken(g.notes[s], t)
        /\ s \notin W => file'.notes[s] = g.notes[s]
    BY <1>2
  <2>2. s \in V <=> s \in W /\ file'.floor < ReplayUntil[s]
    OBVIOUS
  <2> HIDE DEF W, V, r
  <2> QED
    BY <1>4, <1>5, <2>1, <2>2, LeftStep
<1>9. Owed(r, Absent, t) = Contract!Unknown /\ Owed(r, file'.notes[r], t) = new
  BY <1>2, <1>3, OwedAdmits
<1>10. Status(r)' = new /\ Passing(r, t) = Contract!Unknown
  <2>1. Passing(r, t) = Owed(r, g.notes[r], t) /\ Status(r)' = Owed(r, file'.notes[r], t)
    BY <1>3, <1>4, StepFacts
  <2> QED
    BY <1>3, <1>9, <2>1
<1>11. [s \in Ref |-> Status(s)]' = [Contract!Left(V, t) EXCEPT ![r] = new]
  <2> DEFINE k == Contract!Left(V, t)
  <2>1. k = [s \in Ref |-> k[s]]
    BY LeftFacts
  <2> HIDE DEF k, V, new
  <2>2. \A s \in Ref \ {r} : Status(s)' = k[s]
    BY <1>8 DEF k
  <2>3. [s \in Ref |-> Status(s)]' = [k EXCEPT ![r] = new]
    BY <1>3, <1>10, <2>1, <2>2
  <2> QED
    BY <2>3 DEF k
<1>12. Contract!AgedStatus(t)[r] = Contract!Unknown
  <2>1. Contract!AgedStatus(t) = [s \in Ref |-> Passing(s, t)]
    BY Bridge
  <2> QED
    BY <1>3, <1>10, <2>1
<1>13. Contract!Forward
  BY <1>4, Onward
<1> HIDE DEF U, E
<1>14. Contract!Post(q)
  BY <1>3, <1>6, <1>7, <1>11, <1>12, <1>13 DEF Contract!Post
<1> QED
  BY <1>14 DEF Contract!Next

(* Each shape of a step is a step of the contract. *)
LEMMA ShapeImplements ==
    ASSUME GoodFile(file), Shape
    PROVE  Contract!Next
<1>1. CASE Aging(file, file')
  BY <1>1, AgingImplements DEF Contract!Next
<1>2. ASSUME NEW r \in Ref, Finished(file, file', r) \/ Delivered(file, file', r)
      PROVE  Contract!Next
  BY <1>2, FinishedImplements, DeliveredImplements
<1>3. ASSUME NEW p \in Program, Silenced(file, file', p)
      PROVE  Contract!Next
  BY <1>3, SilencedImplements
<1>4. ASSUME NEW q \in Request, Counts(q)
      PROVE  Contract!Next
  BY <1>4, AdmittedImplements DEF Counts
<1> QED
  BY <1>1, <1>2, <1>3, <1>4 DEF Shape

LEMMA InitFile ==
    ASSUME Init
    PROVE  /\ GoodFile(file)
           /\ \A r \in Ref : file.notes[r] = Absent
           /\ file.floor = 0
<1>1. /\ file.notes = [r \in Ref |-> Absent] /\ file.floor = 0
      /\ file.notifiers = [p \in Program |-> None]
      /\ file \in Files
  <2>1. [r \in Ref |-> Absent] \in [Ref -> Admission] /\ [p \in Program |-> None] \in Rows
    BY AbsentType DEF Rows
  <2> QED
    BY <2>1 DEF Init, Files
<1>2. \A r \in Ref : GoodRecord(r, file.notes[r], file.floor)
  BY <1>1 DEF GoodRecord, Absent, Live, Ended
<1>3. Held(file) = {} /\ \A p \in Program : Posted(file, p) = {}
  BY <1>1 DEF Held, Posted, Absent
<1>4. Used(file.notifiers) = {}
  BY <1>1 DEF Used
<1>5. IsFiniteSet({}) /\ Cardinality({}) = 0
  BY FS_EmptySet
<1>6. Bounded(file) /\ GoodRows(file.notifiers, file.floor)
  BY <1>3, <1>4, <1>5, BoundAssumption DEF Bounded, GoodRows
<1> QED
  BY <1>1, <1>2, <1>6 DEF GoodFile

LEMMA ContractInit == Init => Contract!Init
<1> SUFFICES ASSUME Init PROVE Contract!Init
  OBVIOUS
<1>1. ASSUME NEW r \in Ref
      PROVE  Status(r) = Contract!Unknown
  <2>1. /\ file \in Files /\ file.notes[r] = Absent /\ file.floor = 0
        /\ ReplayUntil[r] \in Int /\ 0 < ReplayUntil[r]
    BY InitFile, ReferenceAssumption DEF GoodFile
  <2>2. View(file, r) = Aged(r, Absent, 0)
    BY <2>1, ViewType
  <2>3. View(file, r) = Absent
    BY <2>1, <2>2 DEF Aged, Absent, Live
  <2>4. View(file, r).state = "absent" /\ View(file, r).req = None /\ View(file, r).result = None
    BY <2>3 DEF Absent
  <2> QED
    BY <2>1, <2>4 DEF Status, Contract!Unknown
<1>2. file.floor = 0
  BY InitFile
<1> QED
  BY <1>1, <1>2 DEF Contract!Init

-----------------------------------------------------------------------------
(* What is told stands: a step ages a record, or moves it once.              *)

LEMMA ShapeMoves ==
    ASSUME Fine, Shape, NEW r \in Ref
    PROVE  \/ Aging(file, file')
           \/ \E g : From(file, g, file') /\ MovesTo(r, g.notes[r], file'.notes[r], file'.floor)
<1>1. ASSUME NEW x \in Ref, Finished(file, file', x)
      PROVE  \E g : From(file, g, file') /\ MovesTo(r, g.notes[r], file'.notes[r], file'.floor)
  <2>1. PICK g : /\ From(file, g, file')
                 /\ Ends(g.notes[x], file'.notes[x], file'.floor) \/ Acks(g.notes[x], file'.notes[x])
                 /\ \A s \in Ref \ {x} : file'.notes[s] = g.notes[s]
    BY <1>1 DEF Finished
  <2> QED
    BY <2>1 DEF MovesTo
<1>2. ASSUME NEW x \in Ref, Delivered(file, file', x)
      PROVE  \E g : From(file, g, file') /\ MovesTo(r, g.notes[r], file'.notes[r], file'.floor)
  <2>1. PICK g : \E D \in Displaced(g, Posted(g, Owner[x])) :
           /\ From(file, g, file')
           /\ Shows(g.notes[x], file'.notes[x], file'.floor)
           /\ \A s \in Ref \ {x} : file'.notes[s] = IF s \in D THEN Taken(g.notes[s], file'.floor)
                                                    ELSE g.notes[s]
    BY <1>2 DEF Delivered
  <2>2. PICK D \in Displaced(g, Posted(g, Owner[x])) :
           /\ From(file, g, file')
           /\ Shows(g.notes[x], file'.notes[x], file'.floor)
           /\ \A s \in Ref \ {x} : file'.notes[s] = IF s \in D THEN Taken(g.notes[s], file'.floor)
                                                    ELSE g.notes[s]
    BY <2>1
  <2>3. D \subseteq Posted(g, Owner[x])
    BY DEF Displaced
  <2>4. r \in D => g.notes[r].state \in Live
    BY <2>3 DEF Posted, Live
  <2> QED
    BY <2>2, <2>4 DEF MovesTo
<1>3. ASSUME NEW p \in Program, Silenced(file, file', p)
      PROVE  \E g : From(file, g, file') /\ MovesTo(r, g.notes[r], file'.notes[r], file'.floor)
  <2>1. PICK g : /\ From(file, g, file')
                 /\ \A s \in Ref : file'.notes[s] = IF s \in Doomed(g, p, file'.floor)
                                                   THEN Taken(g.notes[s], file'.floor) ELSE g.notes[s]
    BY <1>3 DEF Silenced
  <2>2. r \in Doomed(g, p, file'.floor) => g.notes[r].state \in Live
    BY DEF Doomed, LiveOf
  <2> QED
    BY <2>1, <2>2 DEF MovesTo
<1>4. ASSUME NEW q \in Request, Counts(q)
      PROVE  \E g : From(file, g, file') /\ MovesTo(r, g.notes[r], file'.notes[r], file'.floor)
  <2>1. PICK g : \E D \in Leaving(g, q) :
           /\ From(file, g, file')
           /\ Admits(q, g.notes[q.ref], file'.notes[q.ref], file'.floor)
           /\ \A s \in Ref \ {q.ref} :
                 file'.notes[s] = IF s \in Replaced(g, q) \cup D THEN Taken(g.notes[s], file'.floor)
                                  ELSE g.notes[s]
    BY <1>4 DEF Counts, Admitted
  <2>2. PICK D \in Leaving(g, q) :
           /\ From(file, g, file')
           /\ Admits(q, g.notes[q.ref], file'.notes[q.ref], file'.floor)
           /\ \A s \in Ref \ {q.ref} :
                 file'.notes[s] = IF s \in Replaced(g, q) \cup D THEN Taken(g.notes[s], file'.floor)
                                  ELSE g.notes[s]
    BY <2>1
  <2>3. GoodFile(g) /\ file'.floor \in Int
    BY <2>2, FromFacts
  <2>4. r \in Replaced(g, q) \cup D => g.notes[r].state \in Live
    BY <2>3, LeavingFacts
  <2> QED
    BY <2>2, <2>4 DEF MovesTo
<1> QED
  BY <1>1, <1>2, <1>3, <1>4 DEF Shape

(* The view of a record that is final. *)
LEMMA FinalView ==
    ASSUME NEW f, GoodFile(f), NEW r \in Ref, f.floor < ReplayUntil[r]
    PROVE  /\ f.notes[r].state \notin Live => View(f, r) = f.notes[r]
           /\ f.notes[r].state \in Live /\ f.floor >= f.notes[r].req.expires
                => View(f, r).state = "expired"
           /\ f.notes[r].state \in Live /\ f.floor < f.notes[r].req.expires
                => View(f, r) = f.notes[r]
<1>1. f \in Files /\ f.notes[r] \in Admission /\ f.floor \in Int /\ GoodRecord(r, f.notes[r], f.floor)
  BY DEF GoodFile, Files
<1>2. View(f, r) = Aged(r, f.notes[r], f.floor)
  BY <1>1, ViewType
<1>3. /\ ReplayUntil[r] \in Int
      /\ f.notes[r].state \in Live => f.notes[r].req.expires \in Int
  BY <1>1, RequestFacts
<1>4. [f.notes[r] EXCEPT !.state = "expired"].state = "expired"
  BY <1>1 DEF Admission
<1> QED
  BY <1>1, <1>2, <1>3, <1>4 DEF Aged

LEMMA RecordLasts ==
    ASSUME NEW r \in Ref, NEW a \in Admission, NEW b \in Admission, NEW u, NEW t \in Int,
           GoodRecord(r, a, u), t < ReplayUntil[r], AgesTo(r, a, b, t)
    PROVE  /\ a.state \in Ended \cup {"gone", "expired"} => b = a
           /\ a.state \in Live => b = a \/ b.state = "expired"
BY RequestFacts DEF AgesTo, Live, Ended, Admission

LEMMA MoveLasts ==
    ASSUME NEW r \in Ref, NEW c \in Admission, NEW b \in Admission, NEW t, MovesTo(r, c, b, t)
    PROVE  /\ c.state \in {"gone", "expired"} => b = c
           /\ c.state \in Ended => b = c \/ (b.state = "gone" /\ b.result = c.result)
<1>1. CASE Acks(c, b)
  BY <1>1 DEF Acks, Admission, Ended
<1>2. CASE ~Acks(c, b)
  <2>1. Ends(c, b, t) => c.state \in Live
    BY DEF Ends
  <2>2. Shows(c, b, t) => c.state = "scheduled"
    BY DEF Shows
  <2>3. ASSUME NEW q, Admits(q, c, b, t)
        PROVE  c.state = "absent"
    BY <2>3 DEF Admits, Absent
  <2>4. b = c \/ c.state \in Live \cup {"absent"}
    BY <1>2, <2>1, <2>2, <2>3 DEF MovesTo, Live
  <2> QED
    BY <2>4 DEF Live, Ended
<1> QED
  BY <1>1, <1>2

LEMMA ViewLasts ==
    ASSUME Fine, Shape, GoodFile(file'), NEW r \in Ref, file'.floor < ReplayUntil[r]
    PROVE  LET A == View(file, r)
               B == View(file', r)
           IN  /\ file.floor < ReplayUntil[r]
               /\ A.state = "expired" => B.state = "expired"
               /\ A.state = "gone" => B = A
               /\ A.state \in Ended => B = A \/ (B.state = "gone" /\ B.result = A.result)
<1> DEFINE a == file.notes[r]
           b == file'.notes[r]
           u == file.floor
           t == file'.floor
           A == View(file, r)
           B == View(file', r)
<1>1. /\ a \in Admission /\ b \in Admission /\ u \in Int /\ t \in Int /\ ReplayUntil[r] \in Int
      /\ GoodRecord(r, a, u)
      /\ a.state \in Live => a.req.expires \in Int
  BY RequestFacts DEF Fine, GoodFile, Files
<1>2. u <= t
  <2>1. CASE Aging(file, file')
    BY <2>1 DEF Aging, Ages
  <2>2. ASSUME NEW g, From(file, g, file')
        PROVE  u <= t
    <3>1. u <= g.floor /\ g.floor <= t /\ g.floor \in Int
      BY <2>2, FromFacts DEF From, Opens, Ages
    <3> QED
      BY <1>1, <3>1
  <2> QED
    BY <2>1, <2>2, ShapeMoves
<1>3. u < ReplayUntil[r]
  BY <1>1, <1>2
<1>4. /\ a.state \notin Live => A = a
      /\ a.state \in Live /\ u >= a.req.expires => A.state = "expired"
      /\ a.state \in Live /\ u < a.req.expires => A = a
  BY <1>3, FinalView DEF Fine
<1>5. /\ b.state \notin Live => B = b
      /\ b.state \in Live /\ t >= b.req.expires => B.state = "expired"
  BY FinalView
<1> DEFINE Lasts ==
      /\ a.state \in Ended => b = a \/ (b.state = "gone" /\ b.result = a.result)
      /\ a.state \in {"gone", "expired"} => b = a
      /\ a.state \in Live /\ u >= a.req.expires =>
            b.state = "expired" \/ (b = a /\ t >= b.req.expires)
<1>6. Lasts
  <2>1. CASE Aging(file, file')
    <3>1. AgesTo(r, a, b, t)
      BY <2>1 DEF Aging, Ages
    <3>2. /\ a.state \in Ended \cup {"gone", "expired"} => b = a
          /\ a.state \in Live => b = a \/ b.state = "expired"
      BY <1>1, <3>1, RecordLasts
    <3> QED
      BY <1>1, <1>2, <3>2
  <2>2. ASSUME NEW g, From(file, g, file'), MovesTo(r, g.notes[r], b, t)
        PROVE  Lasts
    <3> DEFINE c == g.notes[r]
    <3>1. /\ c \in Admission /\ AgesTo(r, a, c, g.floor) /\ g.floor \in Int /\ g.floor <= t
          /\ c.state \in Live => u < c.req.expires
      BY <2>2, FromFacts DEF From, Opens, Ages
    <3>2. g.floor < ReplayUntil[r]
      BY <1>1, <3>1
    <3>3. /\ a.state \in Ended \cup {"gone", "expired"} => c = a
          /\ a.state \in Live => c = a \/ c.state = "expired"
      BY <1>1, <3>1, <3>2, RecordLasts
    <3>4. /\ c.state \in {"gone", "expired"} => b = c
          /\ c.state \in Ended => b = c \/ (b.state = "gone" /\ b.result = c.result)
      BY <1>1, <2>2, <3>1, MoveLasts
    <3> HIDE DEF a, b, c, u, t
    <3> QED
      BY <1>1, <3>1, <3>3, <3>4
  <2> QED
    BY <2>1, <2>2, ShapeMoves
<1> HIDE DEF a, b, u, t, A, B
<1>7. /\ A.state = "expired" => B.state = "expired"
      /\ A.state = "gone" => B = A
      /\ A.state \in Ended => B = A \/ (B.state = "gone" /\ B.result = A.result)
  <2>1. CASE a.state \in Live /\ u >= a.req.expires
    BY <1>4, <1>5, <1>6, <2>1 DEF Ended, Live
  <2>2. CASE ~(a.state \in Live /\ u >= a.req.expires)
    <3>1. A = a
      BY <1>1, <1>4, <2>2
    <3> QED
      BY <1>5, <1>6, <3>1 DEF Ended, Live
  <2> QED
    BY <2>1, <2>2
<1> QED
  BY <1>3, <1>7 DEF A, B, u

(* A view has the request of its record. *)
LEMMA ViewRequest ==
    ASSUME NEW f \in Files, NEW r \in Ref, f.floor < ReplayUntil[r]
    PROVE  View(f, r).req = f.notes[r].req
<1>1. f.floor \in Int /\ ReplayUntil[r] \in Int /\ f.notes[r] \in Admission
  BY ReferenceAssumption DEF Files
<1>2. View(f, r) = Aged(r, f.notes[r], f.floor)
  BY ViewType
<1> QED
  BY <1>1, <1>2 DEF Aged, Admission

(* A request that lapsed is admitted no more: an admission comes before the   *)
(* expiry of its request, and the floor does not go back.                    *)
LEMMA OverLasts ==
    ASSUME Fine, Shape, GoodFile(file'), NEW r \in Ref, file'.floor < ReplayUntil[r],
           NEW o \in Over(file, r)
    PROVE  o \in Over(file', r)
<1> DEFINE a == file.notes[r]
           b == file'.notes[r]
<1>1. /\ o \in Lapse /\ o.req \in Request /\ o.req.expires \in Int
      /\ file.floor >= o.req.expires
      /\ file \in Files /\ file' \in Files /\ file.floor \in Int /\ file'.floor \in Int
      /\ a \in Admission
  BY RequestAssumption DEF Over, Lapse, Fine, GoodFile, Files
<1>2. file.floor <= file'.floor
  <2>1. CASE Aging(file, file')
    BY <2>1 DEF Aging, Ages
  <2>2. ASSUME NEW g, From(file, g, file')
        PROVE  file.floor <= file'.floor
    <3>1. file.floor <= g.floor /\ g.floor <= file'.floor /\ g.floor \in Int
      BY <2>2, FromFacts DEF From, Opens, Ages
    <3> QED
      BY <1>1, <3>1
  <2> QED
    BY <2>1, <2>2, ShapeMoves
<1>3. file.floor < ReplayUntil[r] /\ ReplayUntil[r] \in Int
  BY <1>1, <1>2, ReferenceAssumption
<1>4. a.req # o.req
  BY <1>1, <1>3, ViewRequest DEF Over
<1>5. b.req # o.req
  <2>1. ASSUME NEW t \in Int, NEW c, AgesTo(r, a, c, t), t < ReplayUntil[r]
        PROVE  c.req = a.req
    BY <1>1, <1>3, <2>1 DEF AgesTo, Admission
  <2>2. CASE Aging(file, file')
    BY <1>1, <1>4, <2>1, <2>2 DEF Aging, Ages
  <2>3. ASSUME NEW g, From(file, g, file'), MovesTo(r, g.notes[r], b, file'.floor)
        PROVE  b.req # o.req
    <3> DEFINE c == g.notes[r]
    <3>1. /\ c \in Admission /\ AgesTo(r, a, c, g.floor) /\ g.floor \in Int /\ g.floor <= file'.floor
      BY <2>3, FromFacts DEF From, Opens, Ages
    <3>2. c.req = a.req
      BY <1>1, <1>3, <2>1, <3>1
    <3>3. ASSUME NEW q \in Request, Admits(q, c, b, file'.floor)
          PROVE  b.req # o.req
      <4>1. b.req = q /\ file'.floor < q.expires
        BY <3>3 DEF Admits
      <4> QED
        BY <1>1, <1>2, <4>1
    <3>4. CASE ~\E q \in Request : Admits(q, c, b, file'.floor)
      <4> HIDE DEF b, c
      <4>1. b.req = c.req
        BY <2>3, <3>1, <3>4 DEF c, MovesTo, Ends, Shows, Acks, Taken, Admission
      <4> QED
        BY <1>4, <3>2, <4>1
    <3> QED
      BY <3>3, <3>4
  <2> QED
    BY <2>2, <2>3, ShapeMoves
<1> QED
  BY <1>1, <1>2, <1>5, ViewRequest DEF Over

LEMMA EndedTells ==
    ASSUME NEW a, a.state \in Ended
    PROVE  Terminal(a) = {[is |-> a.state, result |-> a.result]}
<1>1. a.state # "expired" /\ a.state # "gone"
  BY DEF Ended
<1> QED
  BY <1>1 DEF Terminal

LEMMA ToldKept ==
    ASSUME IInv, Shape
    PROVE  ToldStands'
<1>1. Fine
  BY DEF Fine, IInv, Histories
<1>2. GoodFile(file') /\ Truthful
  BY <1>1, ShapeGood
<1> SUFFICES ASSUME NEW r \in Ref, NEW o \in told'[r], ~(file'.floor >= ReplayUntil[r])
             PROVE  \/ o \in Terminal(View(file', r))
                    \/ /\ o.is \in Ended
                       /\ View(file', r).state = "gone"
                       /\ o.result = View(file', r).result
                    \/ o \in Over(file', r)
  BY DEF ToldStands, Over
<1>3. file'.floor < ReplayUntil[r]
  BY <1>2, ReferenceAssumption DEF GoodFile, Files
<1> DEFINE A == View(file, r)
           B == View(file', r)
<1>4. /\ file.floor < ReplayUntil[r]
      /\ A.state = "expired" => B.state = "expired"
      /\ A.state = "gone" => B = A
      /\ A.state \in Ended => B = A \/ (B.state = "gone" /\ B.result = A.result)
  BY <1>1, <1>2, <1>3, ViewLasts
<1>5. CASE o \in Terminal(B) \cup Over(file', r)
  BY <1>5
<1>6. CASE o \in told[r]
  <2>1. \/ file.floor >= ReplayUntil[r]
        \/ o \in Terminal(A)
        \/ o.is \in Ended /\ A.state = "gone" /\ o.result = A.result
        \/ o \in Over(file, r)
    BY <1>6 DEF IInv, ToldStands, Over
  <2>5. CASE o \in Over(file, r)
    BY <1>1, <1>2, <1>3, <2>5, OverLasts
  <2>2. ~(file.floor >= ReplayUntil[r])
    BY <1>1, <1>4, ReferenceAssumption DEF Fine, GoodFile, Files
  <2> HIDE DEF A, B
  <2>3. CASE o \in Terminal(A)
    <3>1. CASE A.state \in Ended
      <4>1. o = [is |-> A.state, result |-> A.result]
        BY <2>3, <3>1, EndedTells
      <4>2. o.is = A.state /\ o.result = A.result
        BY <4>1
      <4> QED
        BY <1>4, <2>3, <3>1, <4>2 DEF A, B
    <3>2. CASE A.state = "expired"
      <4>1. o = Expired
        BY <2>3, <3>2 DEF Terminal, Ended
      <4>2. B.state = "expired"
        BY <1>4, <3>2
      <4>3. o \in Terminal(B)
        BY <4>1, <4>2 DEF Terminal, Ended
      <4> QED
        BY <4>3 DEF B
    <3>3. CASE A.state = "gone"
      BY <1>4, <2>3, <3>3 DEF A, B
    <3> QED
      BY <2>3, <3>1, <3>2, <3>3 DEF Terminal
  <2>4. CASE o.is \in Ended /\ A.state = "gone" /\ o.result = A.result
    BY <1>4, <2>4 DEF A, B
  <2> QED
    BY <2>1, <2>2, <2>3, <2>4, <2>5
<1> QED
  BY <1>2, <1>5, <1>6 DEF Truthful

-----------------------------------------------------------------------------
(* The theorems. *)

LEMMA StillShape ==
    ASSUME Fine, UNCHANGED vars
    PROVE  Shape /\ OffShape
BY StillAges DEF vars, Shape, OffShape

LEMMA Step ==
    ASSUME IInv, [Next]_vars
    PROVE  IInv' /\ Shape
<1>1. Fine
  BY DEF Fine, IInv, Histories
<1>2. Shape /\ OffShape
  BY <1>1, NextShape, StillShape
<1>3. GoodFile(file')
  BY <1>1, <1>2, ShapeGood
<1>4. Histories'
  <2>1. CASE Next
    BY <1>2, <2>1, HistoriesKept
  <2>2. CASE UNCHANGED vars
    BY <2>2 DEF IInv, Histories, vars
  <2> QED
    BY <2>1, <2>2
<1> QED
  BY <1>2, <1>3, <1>4, SilenceKept, ToldKept DEF IInv

LEMMA Start == Init => IInv
<1> SUFFICES ASSUME Init PROVE IInv
  OBVIOUS
<1>1. Histories
  BY DEF Init, Histories
<1>2. SilentOnceOff
  BY DEF Init, SilentOnceOff
<1>3. ToldStands
  BY DEF Init, ToldStands
<1> QED
  BY <1>1, <1>2, <1>3, InitFile DEF IInv

LEMMA Invariance == Spec => []IInv
<1>1. IInv /\ [Next]_vars => IInv'
  BY Step
<1> QED
  BY <1>1, Start, PTL DEF Spec

LEMMA GoodFileValid == IInv => FileValid
<1> SUFFICES ASSUME IInv PROVE FileValid
  OBVIOUS
<1>1. file \in Files /\ file.floor \in Int /\ Bounded(file) /\ GoodRows(file.notifiers, file.floor)
      /\ \A r \in Ref : GoodRecord(r, file.notes[r], file.floor)
  BY DEF IInv, GoodFile, Files
<1>2. TypeOK
  BY <1>1 DEF IInv, Histories, TypeOK, Files, Rows
<1>3. Held(file) # {} => file.floor > 0
  BY <1>1 DEF GoodRecord, Held
<1>4. ASSUME NEW r \in Held(file), file.notes[r].state # "gone"
      PROVE  ValidRecord(r, file.notes[r])
  <2>1. Valid(r, file.notes[r], file.floor) /\ GoodRecord(r, file.notes[r], file.floor)
    BY <1>1, <1>4 DEF Held, GoodRecord
  <2> QED
    BY <2>1 DEF Valid, ValidRecord, GoodRecord, Ended, Live
<1>5. \A p \in Program : file.notifiers[p] # None => GoodRow(file.notifiers[p], file.floor)
  BY <1>1 DEF GoodRows, Used
<1> QED
  BY <1>1, <1>2, <1>3, <1>4, <1>5 DEF FileValid, Bounded, GoodRows, Used, GoodRow

(* Whatever calls are made and however the clock steps, each edit leaves a    *)
(* file that validateNotificationPartition accepts.                           *)
THEOREM FileStaysValid == Spec => []FileValid
BY Invariance, GoodFileValid, PTL

(* ASK-N3: an outcome once reported stands until it is acknowledged or the    *)
(* replay deadline passes, though an expiry is recorded only by a later edit   *)
(* and the clock may be set back in between.                                  *)
THEOREM ToldIsFinal == Spec => []ToldStands
<1>1. IInv => ToldStands
  BY DEF IInv
<1> QED
  BY <1>1, Invariance, PTL

(* ASK-N6: a program turned off, its notifications withdrawn, has none live    *)
(* until it is turned on again.                                               *)
THEOREM StaysSilent == Spec => []SilentOnceOff
<1>1. IInv => SilentOnceOff
  BY DEF IInv
<1> QED
  BY <1>1, Invariance, PTL

(* Every edit is one step of the contract, or time passing in it.  A record    *)
(* taken away by a reading past its replay deadline is one that expired.       *)
THEOREM Implementation == Spec => ImplementsContract
<1>1. IInv /\ [Next]_vars => [Contract!Next]_(Contract!vars)
  <2> SUFFICES ASSUME IInv, [Next]_vars PROVE Contract!Next
    OBVIOUS
  <2> QED
    BY Step, ShapeImplements DEF IInv
<1> QED
  BY <1>1, ContractInit, Invariance, PTL DEF Spec, ImplementsContract, Contract!Spec

-----------------------------------------------------------------------------
(* The hourly bound.  A program's row counts each of its admissions of the    *)
(* hour before its last one.  That is lost when the row makes room for        *)
(* another program's, so the bound is proved for as many rows as programs.    *)

(* The admissions of p after s. *)
After(P, p, s) == {x \in P : Owner[x.ref] = p /\ s < x.at}

(* The row that counts the next admission of p, when no row is evicted. *)
Row(rows, p) == IF rows[p] = None THEN NewNotifier ELSE rows[p]

(* The row n counts what P has of p. *)
Tallied(n, P, p) ==
    /\ \A x \in P : Owner[x.ref] = p => x.at <= n.last
    /\ \A s \in Int : n.last - Hour <= s =>
          Cardinality(After(P, p, s)) <= Len(Since(n.recent, s))

(* The admissions of p in the hour that ends at t. *)
InHour(P, p, t) == {x \in P : Owner[x.ref] = p /\ t - Hour < x.at /\ x.at <= t}

RateInv ==
    /\ IsFiniteSet(posts)
    /\ \A p \in Program : Tallied(Row(file.notifiers, p), posts, p)
    /\ \A p \in Program : \A t \in Int : Cardinality(InHour(posts, p, t)) <= MaxPerHour

LEMMA RowFacts ==
    ASSUME NEW rows, NEW t \in Int, rows \in Rows, GoodRows(rows, t), NEW p \in Program
    PROVE  LET n == Row(rows, p) IN
           /\ n \in Notifier /\ SortedTo(n.recent, n.last)
           /\ n.last <= t \/ n = NewNotifier
           /\ n.recent \in Seq(Int) /\ n.last \in Int
<1>1. CASE rows[p] = None
  BY <1>1, NewNotifierType DEF Row, Notifier
<1>2. CASE rows[p] # None
  BY <1>2 DEF Row, Rows, GoodRows, GoodRow, Used, Notifier
<1> QED
  BY <1>1, <1>2

(* With a row for every program none is evicted. *)
LEMMA RoomForAll ==
    ASSUME IsFiniteSet(Program), Cardinality(Program) <= MaxNotifiers,
           NEW rows \in Rows, NEW p \in Program, NEW n \in Bases(rows, p)
    PROVE  n[p] = Row(rows, p) /\ \A x \in Program \ {p} : n[x] = rows[x]
<1>1. CASE rows[p] # None
  BY <1>1 DEF Bases, Row
<1>2. CASE rows[p] = None
  <2>1. PICK m \in Evicted(rows) : n = [m EXCEPT ![p] = NewNotifier]
    BY <1>2 DEF Bases
  <2>2. Used(rows) \subseteq Program \ {p}
    BY <1>2 DEF Used
  <2>3. IsFiniteSet(Program \ {p}) /\ Cardinality(Program \ {p}) = Cardinality(Program) - 1
    BY FS_RemoveElement
  <2>4. IsFiniteSet(Used(rows)) /\ Cardinality(Used(rows)) <= Cardinality(Program \ {p})
    BY <2>2, <2>3, FS_Subset
  <2>5. Cardinality(Used(rows)) < MaxNotifiers
    <3>1. Cardinality(Used(rows)) \in Nat /\ Cardinality(Program) \in Nat /\ MaxNotifiers \in Nat
      BY <2>4, FS_CardinalityType, BoundAssumption
    <3> QED
      BY <2>3, <2>4, <3>1
  <2>6. m = rows
    BY <2>5 DEF Evicted, Used
  <2> QED
    BY <1>2, <2>1, <2>6 DEF Row, Rows
<1> QED
  BY <1>1, <1>2

(* A row counts its new admission on top of those that it counted. *)
LEMMA CountedSince ==
    ASSUME NEW n \in Notifier, SortedTo(n.recent, n.last), NEW now \in Int, 0 < now, n.last <= now,
           Len(Recent(n, now)) < MaxPerHour,
           NEW s \in Int, now - Hour <= s, s < now
    PROVE  /\ Len(Since(n.recent, s)) \in Nat
           /\ Len(Since(Counted(n, now).recent, s)) \in Nat
           /\ Len(Since(n.recent, s)) + 1 <= Len(Since(Counted(n, now).recent, s))
<1> DEFINE old == n.recent
           u == Recent(n, now)
           new == Counted(n, now).recent
<1>1. old \in Seq(Int) /\ n.last \in Int /\ Hour \in Int /\ now - Hour \in Int
  BY BoundAssumption DEF Notifier
<1>2. u = Since(old, now - Hour) /\ new = Append(u, now)
  BY DEF Recent, Counted
<1>3. new \in Seq(Int) /\ SortedTo(new, now)
  BY CountedFacts DEF Notifier, GoodRow, Counted
<1>4. SortedTo(old, n.last)
  OBVIOUS
<1> HIDE DEF old, u, new
<1>5. PICK k \in 0 .. Len(old) :
        /\ \A i \in 1 .. Len(old) : old[i] <= now - Hour <=> i <= k
        /\ u \in Seq(Int) /\ Len(u) = Len(old) - k
        /\ \A i \in 1 .. Len(old) - k : u[i] = old[i + k]
  BY <1>1, <1>2, <1>4, SinceFacts
<1>6. PICK a \in 0 .. Len(old) :
        /\ \A i \in 1 .. Len(old) : old[i] <= s <=> i <= a
        /\ Len(Since(old, s)) = Len(old) - a
  BY <1>1, <1>4, SinceFacts
<1>7. PICK b \in 0 .. Len(new) :
        /\ \A i \in 1 .. Len(new) : new[i] <= s <=> i <= b
        /\ Len(Since(new, s)) = Len(new) - b
  BY <1>1, <1>3, SinceFacts
<1>8. Len(old) \in Nat /\ Len(new) = Len(u) + 1 /\ new[Len(u) + 1] = now
      /\ \A i \in 1 .. Len(u) : new[i] = u[i]
  BY <1>1, <1>2, <1>5
<1>9. b <= Len(u)
  BY <1>5, <1>7, <1>8
<1>10. k <= a
  <2>1. CASE k = 0
    BY <1>6, <2>1
  <2>2. CASE k # 0
    <3>1. k \in 1 .. Len(old) /\ old[k] <= now - Hour /\ old[k] \in Int
      BY <1>1, <1>5, <1>8, <2>2
    <3>2. old[k] <= s
      BY <1>1, <3>1
    <3> QED
      BY <1>6, <3>1, <3>2
  <2> QED
    BY <2>1, <2>2
<1>11. b + k <= a
  <2>1. CASE b = 0
    BY <1>5, <1>6, <1>10, <2>1
  <2>2. CASE b # 0
    <3>1. b \in 1 .. Len(u) /\ b \in 1 .. Len(new) /\ b + k \in 1 .. Len(old)
      BY <1>5, <1>7, <1>8, <1>9, <2>2
    <3>2. new[b] <= s /\ new[b] = u[b] /\ u[b] = old[b + k]
      BY <1>5, <1>7, <1>8, <3>1
    <3> QED
      BY <1>6, <3>1, <3>2
  <2> QED
    BY <2>1, <2>2
<1>12. /\ Len(Since(old, s)) \in Nat /\ Len(Since(new, s)) \in Nat
       /\ Len(Since(old, s)) + 1 <= Len(Since(new, s))
  BY <1>5, <1>6, <1>7, <1>8, <1>11
<1> QED
  BY <1>12 DEF old, new

LEMMA FiniteParts ==
    ASSUME NEW P, IsFiniteSet(P), NEW p, NEW t
    PROVE  /\ IsFiniteSet(After(P, p, t)) /\ Cardinality(After(P, p, t)) \in Nat
           /\ IsFiniteSet(InHour(P, p, t)) /\ Cardinality(InHour(P, p, t)) \in Nat
<1>1. After(P, p, t) \subseteq P /\ InHour(P, p, t) \subseteq P
  BY DEF After, InHour
<1> QED
  BY <1>1, FS_Subset, FS_CardinalityType

(* A row that counted what there was counts what is left of it. *)
LEMMA TalliedFewer ==
    ASSUME NEW n \in Notifier, SortedTo(n.recent, n.last), NEW p,
           NEW P, IsFiniteSet(P), NEW Q, Q \subseteq P, Tallied(n, P, p)
    PROVE  Tallied(n, Q, p)
<1>1. IsFiniteSet(Q) /\ n.last \in Int /\ n.recent \in Seq(Int) /\ Hour \in Int
  BY FS_Subset, BoundAssumption DEF Notifier
<1>2. ASSUME NEW s \in Int, n.last - Hour <= s
      PROVE  Cardinality(After(Q, p, s)) <= Len(Since(n.recent, s))
  <2>1. After(Q, p, s) \subseteq After(P, p, s)
    BY DEF After
  <2>2. Cardinality(After(Q, p, s)) <= Cardinality(After(P, p, s))
    BY <2>1, FiniteParts, FS_Subset
  <2>3. Cardinality(After(P, p, s)) <= Len(Since(n.recent, s))
    BY <1>2 DEF Tallied
  <2>4. Len(Since(n.recent, s)) \in Int
    BY <1>1, SinceFacts
  <2> QED
    BY <1>1, <2>2, <2>3, <2>4, FiniteParts
<1> QED
  BY <1>2 DEF Tallied

(* The row of p counts one admission more. *)
LEMMA TalliedMore ==
    ASSUME NEW n \in Notifier, SortedTo(n.recent, n.last), NEW p,
           NEW now \in Int, 0 < now, n.last <= now, Len(Recent(n, now)) < MaxPerHour,
           NEW P, IsFiniteSet(P), \A x \in P : x.at \in Int,
           NEW y, y.at = now, Tallied(n, P, p)
    PROVE  Tallied(Counted(n, now), P \cup {y}, p)
<1> DEFINE m == Counted(n, now)
           Q == P \cup {y}
<1>1. IsFiniteSet(Q) /\ n.last \in Int /\ Hour \in Nat /\ m.last = now
  BY FS_AddElement, BoundAssumption DEF Notifier, Counted
<1>2. m \in Notifier /\ SortedTo(m.recent, now) /\ m.recent \in Seq(Int)
  BY CountedFacts DEF Notifier, GoodRow, Counted
<1>3. \A x \in P : Owner[x.ref] = p => x.at <= now
  BY <1>1 DEF Tallied
<1> HIDE DEF m
<1>4. ASSUME NEW s \in Int, now - Hour <= s
      PROVE  Cardinality(After(Q, p, s)) <= Len(Since(m.recent, s))
  <2>1. CASE now <= s
    <3>1. After(Q, p, s) = {}
      BY <1>3, <2>1 DEF After
    <3>2. Len(Since(m.recent, s)) \in Nat
      BY <1>2, SinceFacts
    <3>3. Cardinality(After(Q, p, s)) = 0
      BY <3>1, FS_EmptySet
    <3> QED
      BY <3>2, <3>3
  <2>2. CASE s < now
    <3>1. /\ Len(Since(n.recent, s)) \in Nat /\ Len(Since(m.recent, s)) \in Nat
          /\ Len(Since(n.recent, s)) + 1 <= Len(Since(m.recent, s))
      BY <1>4, <2>2, CountedSince DEF m
    <3>2. Cardinality(After(P, p, s)) <= Len(Since(n.recent, s))
      BY <1>1, <1>4 DEF Tallied
    <3>3. After(Q, p, s) \subseteq After(P, p, s) \cup {y}
      BY DEF After
    <3>4. IsFiniteSet(After(P, p, s)) /\ Cardinality(After(P, p, s)) \in Nat
      BY FiniteParts
    <3>5. /\ IsFiniteSet(After(P, p, s) \cup {y})
          /\ Cardinality(After(P, p, s) \cup {y}) <= Cardinality(After(P, p, s)) + 1
          /\ Cardinality(After(P, p, s) \cup {y}) \in Nat
      <4>1. /\ IsFiniteSet(After(P, p, s) \cup {y})
            /\ Cardinality(After(P, p, s) \cup {y}) =
                 IF y \in After(P, p, s) THEN Cardinality(After(P, p, s))
                 ELSE Cardinality(After(P, p, s)) + 1
        BY <3>4, FS_AddElement
      <4> QED
        BY <3>4, <4>1
    <3>6. Cardinality(After(Q, p, s)) <= Cardinality(After(P, p, s) \cup {y})
          /\ Cardinality(After(Q, p, s)) \in Nat
      BY <1>1, <3>3, <3>5, FS_Subset, FiniteParts
    <3> QED
      BY <3>1, <3>2, <3>4, <3>5, <3>6
  <2> QED
    BY <1>1, <1>4, <2>1, <2>2
<1>5. \A x \in Q : Owner[x.ref] = p => x.at <= m.last
  BY <1>1, <1>3
<1> QED
  BY <1>1, <1>4, <1>5 DEF Tallied, m

(* An hour that ends at its last admission or later holds what a row counts. *)
LEMMA HourCounted ==
    ASSUME NEW n \in Notifier, GoodRow(n, n.last), NEW p, NEW P, IsFiniteSet(P),
           Tallied(n, P, p), NEW t \in Int, n.last <= t
    PROVE  Cardinality(InHour(P, p, t)) <= MaxPerHour
<1>1. n.last \in Int /\ n.recent \in Seq(Int) /\ Hour \in Int /\ MaxPerHour \in Int
  BY BoundAssumption DEF Notifier
<1>2. t - Hour \in Int /\ n.last - Hour <= t - Hour
  BY <1>1
<1>3. Cardinality(After(P, p, t - Hour)) <= Len(Since(n.recent, t - Hour))
  BY <1>2 DEF Tallied
<1>4. Len(Since(n.recent, t - Hour)) <= Len(n.recent) /\ Len(Since(n.recent, t - Hour)) \in Nat
  <2>1. PICK k \in 0 .. Len(n.recent) : Len(Since(n.recent, t - Hour)) = Len(n.recent) - k
    BY <1>1, <1>2, SinceFacts DEF GoodRow
  <2> QED
    BY <1>1, <2>1
<1>5. InHour(P, p, t) \subseteq After(P, p, t - Hour)
  BY DEF InHour, After
<1>6. Cardinality(InHour(P, p, t)) <= Cardinality(After(P, p, t - Hour))
  BY <1>5, FiniteParts, FS_Subset
<1>7. Cardinality(InHour(P, p, t)) \in Nat /\ Cardinality(After(P, p, t - Hour)) \in Nat
  BY FiniteParts
<1>8. Len(n.recent) <= MaxPerHour /\ Len(n.recent) \in Nat
  BY <1>1 DEF GoodRow
<1> QED
  BY <1>1, <1>3, <1>4, <1>6, <1>7, <1>8

LEMMA HourFewer ==
    ASSUME NEW P, IsFiniteSet(P), NEW Q, NEW p, NEW t, InHour(Q, p, t) \subseteq InHour(P, p, t),
           Cardinality(InHour(P, p, t)) <= MaxPerHour
    PROVE  Cardinality(InHour(Q, p, t)) <= MaxPerHour
<1>1. IsFiniteSet(InHour(P, p, t)) /\ Cardinality(InHour(P, p, t)) \in Nat
  BY FiniteParts
<1>2. IsFiniteSet(InHour(Q, p, t)) /\ Cardinality(InHour(Q, p, t)) <= Cardinality(InHour(P, p, t))
  BY <1>1, FS_Subset
<1>3. Cardinality(InHour(Q, p, t)) \in Nat
  BY <1>2, FS_CardinalityType
<1> QED
  BY <1>1, <1>2, <1>3, BoundAssumption

(* Nothing but an admission counts. *)
LEMMA RateStill ==
    ASSUME IInv, RateInv, posts' \subseteq posts, file'.notifiers = file.notifiers
    PROVE  RateInv'
<1>1. IsFiniteSet(posts) /\ IsFiniteSet(posts')
  BY FS_Subset DEF RateInv
<1>2. ASSUME NEW p \in Program
      PROVE  Tallied(Row(file'.notifiers, p), posts', p)
  <2>1. Tallied(Row(file.notifiers, p), posts, p)
    BY DEF RateInv
  <2>2. /\ Row(file.notifiers, p) \in Notifier
        /\ SortedTo(Row(file.notifiers, p).recent, Row(file.notifiers, p).last)
    BY RowFacts DEF IInv, GoodFile, Files
  <2> QED
    BY <1>1, <2>1, <2>2, TalliedFewer
<1>3. ASSUME NEW p \in Program, NEW t \in Int
      PROVE  Cardinality(InHour(posts', p, t)) <= MaxPerHour
  <2>1. InHour(posts', p, t) \subseteq InHour(posts, p, t)
    BY DEF InHour
  <2> QED
    BY <1>1, <2>1, HourFewer DEF RateInv
<1> QED
  BY <1>1, <1>2, <1>3 DEF RateInv

LEMMA RateCounts ==
    ASSUME IInv, RateInv, IsFiniteSet(Program), Cardinality(Program) <= MaxNotifiers,
           NEW q \in Request, Counts(q)
    PROVE  RateInv'
<1> DEFINE p == Owner[q.ref]
           now == file'.floor
           y == [ref |-> q.ref, at |-> file'.floor]
           rows == file.notifiers
           P == posts
           Q == posts \cup {y}
<1>0. p \in Program /\ q.ref \in Ref
  BY RequestAssumption, ReferenceAssumption
<1>1. /\ posts' \subseteq Q /\ IsFiniteSet(P) /\ IsFiniteSet(Q) /\ IsFiniteSet(posts')
      /\ \A x \in P : x.at \in Int
  <2>1. posts' \subseteq Q
    BY DEF Counts
  <2>2. IsFiniteSet(P) /\ IsFiniteSet(Q)
    BY FS_AddElement DEF RateInv
  <2> QED
    BY <2>1, <2>2, FS_Subset DEF IInv, Histories
<1>2. /\ rows \in Rows /\ file.floor \in Int /\ GoodRows(rows, file.floor) /\ IsFiniteSet(Used(rows))
  BY DEF IInv, GoodFile, Files, GoodRows
<1>3. GoodFile(file') /\ now \in Int /\ GoodRows(file'.notifiers, now) /\ file'.notifiers \in Rows
  BY AdmittedGood DEF Counts, GoodFile, Files
<1>4. file.floor <= now /\ 0 < now
  <2>1. PICK g : From(file, g, file') /\ Admits(q, g.notes[q.ref], file'.notes[q.ref], now)
    BY DEF Counts, Admitted
  <2>2. file.floor <= g.floor /\ g.floor <= now /\ g.floor \in Int
    BY <2>1, FromFacts DEF From, Opens, Ages
  <2>3. file'.notes[q.ref].state # "absent" /\ GoodRecord(q.ref, file'.notes[q.ref], now)
    BY <1>0, <1>3, <2>1 DEF Admits, GoodFile
  <2> QED
    BY <1>2, <1>3, <2>2, <2>3 DEF GoodRecord
<1>5. PICK n \in Bases(rows, p) :
        /\ Len(Recent(n[p], now)) < MaxPerHour
        /\ file'.notifiers = [n EXCEPT ![p] = Counted(n[p], now)]
  BY DEF Counts, Admitted
<1> HIDE DEF rows, p, now, y
<1>6. n \in Rows
  BY <1>0, <1>2, <1>3, <1>4, BasesFacts
<1>7. n[p] = Row(rows, p) /\ \A x \in Program \ {p} : n[x] = rows[x]
  BY <1>0, <1>2, RoomForAll
<1> DEFINE old == Row(rows, p)
           new == Counted(old, now)
<1>8. old \in Notifier /\ SortedTo(old.recent, old.last) /\ old.last <= now
  BY <1>0, <1>2, <1>3, <1>4, RowFacts, NewNotifierType
<1>9. Len(Recent(old, now)) < MaxPerHour
  BY <1>5, <1>7
<1>10. new \in Notifier /\ GoodRow(new, now) /\ new.last = now
  BY <1>3, <1>4, <1>8, <1>9, CountedFacts DEF Counted
<1>11. Row(file'.notifiers, p) = new /\ \A x \in Program \ {p} : Row(file'.notifiers, x) = Row(rows, x)
  BY <1>0, <1>5, <1>6, <1>7, <1>10, UnsetAssumption DEF Row, Rows
<1> HIDE DEF old, new
<1>12. Tallied(new, Q, p)
  <2>1. Tallied(old, P, p)
    BY <1>0 DEF RateInv, old, rows
  <2>2. y.at = now
    BY DEF y, now
  <2> HIDE DEF Q, P
  <2>3. Tallied(Counted(old, now), P \cup {y}, p)
    BY <1>1, <1>3, <1>4, <1>8, <1>9, <2>1, <2>2, TalliedMore
  <2> QED
    BY <2>3 DEF new, Q, P
<1>13. ASSUME NEW x \in Program
       PROVE  Tallied(Row(file'.notifiers, x), posts', x)
  <2>1. CASE x = p
    BY <1>1, <1>10, <1>11, <1>12, <2>1, TalliedFewer DEF GoodRow
  <2>2. CASE x # p
    <3>1. Tallied(Row(rows, x), P, x) /\ Row(file'.notifiers, x) = Row(rows, x)
      BY <1>11, <2>2 DEF RateInv, rows
    <3>2. Row(rows, x) \in Notifier /\ SortedTo(Row(rows, x).recent, Row(rows, x).last)
      BY <1>2, RowFacts
    <3>3. \A s : After(posts', x, s) \subseteq After(P, x, s)
      BY <1>1, <2>2 DEF After, p, y
    <3>4. {z \in posts' : Owner[z.ref] = x} \subseteq P
      BY <1>1, <2>2 DEF p, y
    <3>5. ASSUME NEW s \in Int, Row(rows, x).last - Hour <= s
          PROVE  Cardinality(After(posts', x, s)) <= Len(Since(Row(rows, x).recent, s))
      <4>1. Cardinality(After(posts', x, s)) <= Cardinality(After(P, x, s))
        BY <1>1, <3>3, FiniteParts, FS_Subset
      <4>2. Cardinality(After(P, x, s)) <= Len(Since(Row(rows, x).recent, s))
        BY <3>1, <3>5 DEF Tallied
      <4>3. Len(Since(Row(rows, x).recent, s)) \in Int
        BY <3>2, SinceFacts DEF Notifier
      <4> QED
        BY <1>1, <4>1, <4>2, <4>3, FiniteParts
    <3> QED
      BY <3>1, <3>4, <3>5 DEF Tallied
  <2> QED
    BY <2>1, <2>2
<1>14. ASSUME NEW x \in Program, NEW t \in Int
       PROVE  Cardinality(InHour(posts', x, t)) <= MaxPerHour
  <2>1. CASE x = p /\ now <= t
    <3>1. Tallied(new, posts', p)
      BY <1>0, <1>11, <1>13
    <3> QED
      BY <1>1, <1>10, <2>1, <3>1, HourCounted
  <2>2. CASE x # p \/ t < now
    <3>1. InHour(posts', x, t) \subseteq InHour(P, x, t)
      BY <1>1, <1>3, <2>2 DEF InHour, p, y, now
    <3>2. Cardinality(InHour(P, x, t)) <= MaxPerHour
      BY DEF RateInv
    <3> QED
      BY <1>1, <3>1, <3>2, HourFewer
  <2> QED
    BY <1>3, <2>1, <2>2
<1> QED
  BY <1>1, <1>13, <1>14 DEF RateInv

LEMMA RateStep ==
    ASSUME IInv, RateInv, IsFiniteSet(Program), Cardinality(Program) <= MaxNotifiers, [Next]_vars
    PROVE  RateInv'
<1>1. Shape
  BY Step
<1>2. ASSUME NEW q \in Request, Counts(q)
      PROVE  RateInv'
  BY <1>2, RateCounts
<1>3. ASSUME Tells, NEW g, Opens(file, g), file'.notifiers = g.notifiers
      PROVE  RateInv'
  BY <1>3, RateStill DEF Tells, Opens, Ages
<1>4. CASE Aging(file, file') /\ Tells
  BY <1>4, RateStill DEF Aging, Ages, Tells
<1>5. ASSUME NEW r \in Ref, Finished(file, file', r) \/ Delivered(file, file', r), Tells
      PROVE  RateInv'
  BY <1>3, <1>5 DEF Finished, Delivered, From
<1>6. ASSUME NEW p \in Program, Silenced(file, file', p), Tells
      PROVE  RateInv'
  BY <1>3, <1>6 DEF Silenced, From
<1> QED
  BY <1>1, <1>2, <1>4, <1>5, <1>6 DEF Shape

LEMMA RateStart == Init => RateInv
<1> SUFFICES ASSUME Init PROVE RateInv
  OBVIOUS
<1>1. posts = {} /\ IsFiniteSet({}) /\ Cardinality({}) = 0
  BY FS_EmptySet DEF Init
<1>2. ASSUME NEW p \in Program
      PROVE  Row(file.notifiers, p) = NewNotifier
  BY DEF Init, Row
<1>3. \A p \in Program : \A s : After(posts, p, s) = {} /\ InHour(posts, p, s) = {}
  BY <1>1 DEF After, InHour
<1>4. ASSUME NEW s \in Int
      PROVE  Len(Since(NewNotifier.recent, s)) \in Nat
  BY NewNotifierType, SinceFacts DEF Notifier
<1>5. ASSUME NEW p \in Program
      PROVE  Tallied(NewNotifier, posts, p)
  <2>1. ASSUME NEW s \in Int
        PROVE  Cardinality(After(posts, p, s)) <= Len(Since(NewNotifier.recent, s))
    <3>1. Cardinality(After(posts, p, s)) = 0
      BY <1>1, <1>3
    <3> QED
      BY <1>4, <3>1
  <2> QED
    BY <1>1, <2>1 DEF Tallied
<1>6. ASSUME NEW p \in Program, NEW t \in Int
      PROVE  Cardinality(InHour(posts, p, t)) <= MaxPerHour
  BY <1>1, <1>3, BoundAssumption
<1> QED
  BY <1>1, <1>2, <1>5, <1>6 DEF RateInv

(* ASK-N6: one program is admitted at most MaxPerHour times in any rolling     *)
(* hour of service time, whatever the clock does, as long as there are no more *)
(* programs than rows to count them in.                                       *)
THEOREM RateHolds ==
    ASSUME IsFiniteSet(Program), Cardinality(Program) <= MaxNotifiers
    PROVE  Spec => []RateKept
<1>1. IInv /\ RateInv /\ [Next]_vars => RateInv'
  BY RateStep
<1>2. IInv /\ RateInv => RateKept
  <2> SUFFICES ASSUME IInv, RateInv, NEW p \in Program, NEW x \in posts
               PROVE  Cardinality({z \in posts : Owner[z.ref] = p /\ x.at - Hour < z.at /\ z.at <= x.at})
                        <= MaxPerHour
    BY DEF RateKept
  <2>1. x.at \in Int
    BY DEF IInv, Histories
  <2>2. Cardinality(InHour(posts, p, x.at)) <= MaxPerHour
    BY <2>1 DEF RateInv
  <2> QED
    BY <2>2 DEF InHour
<1> QED
  BY <1>1, <1>2, RateStart, Invariance, PTL DEF Spec

-----------------------------------------------------------------------------
(* Whom a result wakes.  Every edit settles what it gives a result, but one:   *)
(* PostScheduledNotification displaces and settles nobody.                   *)

(* Nobody is left waiting for what this step gave a result, but whom a panic   *)
(* skipped.                                                                  *)
Wakes ==
    \A r \in waiting' \ skipped' :
        file'.notes[r].state \in Ended => file'.notes[r] = file.notes[r]

LEMMA AgesEnds ==
    ASSUME NEW f \in Files, NEW g, Ages(f, g), NEW r \in Ref, g.notes[r].state \in Ended
    PROVE  g.notes[r] = f.notes[r]
<1>1. f.notes[r] \in Admission
  BY DEF Files
<1>2. Absent.state \notin Ended /\ [f.notes[r] EXCEPT !.state = "expired"].state \notin Ended
  BY <1>1 DEF Absent, Ended, Admission
<1> QED
  BY <1>2 DEF Ages, AgesTo

LEMMA AgingWakes ==
    ASSUME Fine, Histories', Aging(file, file')
    PROVE  Wakes
<1>1. waiting' \subseteq Ref
  BY ReferenceAssumption DEF Histories
<1> QED
  BY <1>1, AgesEnds DEF Aging, Wakes, Fine, GoodFile

(* A step whose file is the one it opened with, but for what it withdrew and   *)
(* woke and for one record that has no result or is woken too.                *)
LEMMA EditWakes ==
    ASSUME Fine, Histories', NEW e \in Openings(file), NEW g, NEW S, Commit(e, g, S),
           NEW r \in Ref,
           g.notes[r].state \notin Ended \/ r \in S \/ g.notes[r] = e.book.notes[r],
           \A s \in Ref \ {r} : s \in S \/ g.notes[s] = e.book.notes[s]
    PROVE  Wakes
<1>1. Opens(file, e.book) /\ Ages(file, e.book) /\ file \in Files
  BY OpeningFacts DEF Fine, Opens, GoodFile
<1>2. ASSUME NEW s \in waiting' \ skipped', file'.notes[s].state \in Ended
      PROVE  file'.notes[s] = file.notes[s]
  <2>1. s \in Ref /\ s \notin S /\ file' = g
    BY <1>2, ReferenceAssumption DEF Histories, Commit, Settle
  <2>2. g.notes[s] = e.book.notes[s]
    BY <1>2, <2>1
  <2> QED
    BY <1>1, <1>2, <2>1, <2>2, AgesEnds
<1> QED
  BY <1>2 DEF Wakes

LEMMA PostWakes ==
    ASSUME Fine, Histories', NEW q \in Request, Post(q)
    PROVE  Wakes
<1>1. PICK e \in Openings(file) : \E now \in Readings(e.book) : PostAt(q, e, now)
  BY DEF Post
<1>2. PICK now \in Readings(e.book) : PostAt(q, e, now)
  BY <1>1
<1> DEFINE f == e.book
           r == q.ref
           T == Replaced(f, q)
           new == [state |-> IF q.delivery = "now" THEN "posted" ELSE "scheduled", req |-> q,
                   admitted |-> now, posted |-> IF q.delivery = "now" THEN now ELSE 0,
                   result |-> None]
<1>3. /\ Opens(file, f) /\ GoodFile(f) /\ f \in Files /\ now \in Int /\ f.floor <= now
      /\ Aging(file, f) /\ Aging(file, Noted(f, now))
  BY EditAges DEF Fine, Opens
<1>4. r \in Ref /\ Owner[r] \in Program /\ GoodRows(f.notifiers, f.floor)
  BY <1>3, RequestAssumption, ReferenceAssumption DEF GoodFile
<1>5. CASE Aging(file, file')
  BY <1>5, AgingWakes
<1>6. ASSUME 0 < now, NEW g \in Noticed(f, Owner[r], now), NEW D \in Leaving(f, q),
             Commit(e, Noted([Withdrawn(g, T \cup D, now) EXCEPT !.notes[r] = new], now), T \cup D)
      PROVE  Wakes
  <2> DEFINE S == T \cup D
             w == Withdrawn(g, S, now)
             h == Noted([w EXCEPT !.notes[r] = new], now)
  <2>1. g \in Files /\ g.notes = f.notes /\ g.floor = f.floor
    BY <1>3, <1>4, <1>6, NoticedFacts
  <2>2. w \in Files /\ w.floor = g.floor
        /\ w.notes = [s \in Ref |-> IF s \in S THEN Taken(g.notes[s], now) ELSE g.notes[s]]
    BY <1>3, <2>1, WithdrawnFacts
  <2>3. new \in Admission /\ new.state \notin Ended
    <3>1. new \in Admission
      BY <1>3 DEF Admission, Live
    <3>2. new.state \in {"posted", "scheduled"}
      OBVIOUS
    <3> QED
      BY <3>1, <3>2 DEF Ended
  <2> HIDE DEF S, w, new
  <2>4. h.notes = [w.notes EXCEPT ![r] = new]
    BY <1>3, <1>4, <2>1, <2>2, <2>3, WriteFacts
  <2> HIDE DEF h
  <2>5. h.notes[r].state \notin Ended /\ \A s \in Ref \ {r} : s \in S \/ h.notes[s] = f.notes[s]
    BY <1>4, <2>1, <2>2, <2>3, <2>4
  <2>6. Commit(e, h, S)
    BY <1>6 DEF h, w, S, new
  <2> QED
    BY <1>4, <2>5, <2>6, EditWakes
<1> HIDE DEF T, new
<1>7. PostAt(q, e, now) =>
         \/ file' = f \/ file' = Noted(f, now) \/ Fail(e)
         \/ 0 < now /\ \E g \in Noticed(f, Owner[r], now) : \E D \in Leaving(f, q) :
               Commit(e, Noted([Withdrawn(g, T \cup D, now) EXCEPT !.notes[r] = new], now), T \cup D)
  BY DEF PostAt, Commit, Leaving, T, new
<1> HIDE DEF f, r
<1>8. Fail(e) => Aging(file, file')
  BY FailAges
<1> QED
  BY <1>2, <1>3, <1>5, <1>6, <1>7, <1>8

LEMMA DecideWakes ==
    ASSUME Fine, Histories', NEW r \in Ref, NEW to \in Ended, NEW action \in Action \cup {None},
           Decide(r, to, action)
    PROVE  Wakes
<1>1. PICK e \in Openings(file) : \E now \in Readings(e.book) : DecideAt(r, to, action, e, now)
  BY DEF Decide
<1>2. PICK now \in Readings(e.book) : DecideAt(r, to, action, e, now)
  BY <1>1
<1> DEFINE f == e.book
           a == f.notes[r]
           b == [a EXCEPT !.state = to, !.result = [action |-> action, at |-> now]]
           x == [a EXCEPT !.state = "expired"]
<1>3. /\ f \in Files /\ now \in Int /\ f.floor <= now /\ a \in Admission
      /\ Aging(file, f) /\ Aging(file, Noted(f, now))
  BY EditAges DEF Fine, Opens, GoodFile, Files
<1>4. CASE Aging(file, file')
  BY <1>4, AgingWakes
<1>5. CASE Commit(e, Noted([f EXCEPT !.notes[r].state = "expired"], now), {})
  <2>1. x \in Admission /\ x.state \notin Ended
    BY <1>3 DEF Admission, Ended
  <2>2. [f EXCEPT !.notes[r].state = "expired"] = [f EXCEPT !.notes[r] = x]
    <3> HIDE DEF f
    <3> QED
      BY <1>3, PutExpired
  <2> DEFINE h == Noted([f EXCEPT !.notes[r] = x], now)
  <2> HIDE DEF x, f
  <2>3. h.notes = [f.notes EXCEPT ![r] = x]
    BY <1>3, <2>1, WriteFacts
  <2>4. Commit(e, h, {})
    BY <1>5, <2>2 DEF f
  <2> HIDE DEF h
  <2>5. h.notes[r].state \notin Ended /\ \A s \in Ref \ {r} : h.notes[s] = f.notes[s]
    BY <1>3, <2>1, <2>3 DEF Files
  <2> QED
    BY <2>4, <2>5, EditWakes DEF f
<1>6. CASE Commit(e, Noted([f EXCEPT !.notes[r] = b], now), {r})
  <2>1. b \in Admission
    <3>1. [action |-> action, at |-> now] \in Result
      BY <1>3 DEF Result
    <3> QED
      BY <1>3, <3>1 DEF Admission
  <2> DEFINE h == Noted([f EXCEPT !.notes[r] = b], now)
  <2> HIDE DEF b
  <2>3. h.notes = [f.notes EXCEPT ![r] = b]
    <3> HIDE DEF f
    <3> QED
      BY <1>3, <2>1, WriteFacts
  <2>4. Commit(e, h, {r})
    BY <1>6
  <2> HIDE DEF h
  <2>5. \A s \in Ref \ {r} : h.notes[s] = f.notes[s]
    BY <1>3, <2>3 DEF Files
  <2> QED
    BY <2>4, <2>5, EditWakes
<1> HIDE DEF a, f, b, x
<1>7. DecideAt(r, to, action, e, now) =>
          \/ file' = f \/ file' = Noted(f, now) \/ Fail(e)
          \/ Commit(e, Noted([f EXCEPT !.notes[r].state = "expired"], now), {})
          \/ Commit(e, Noted([f EXCEPT !.notes[r] = b], now), {r})
  BY DEF DecideAt, Commit, a, f, b
<1>8. Fail(e) => Aging(file, file')
  BY FailAges
<1> QED
  BY <1>2, <1>3, <1>4, <1>5, <1>6, <1>7, <1>8

LEMMA WithdrawProgramWakes ==
    ASSUME Fine, Histories', NEW p \in Program, WithdrawProgram(p)
    PROVE  Wakes
<1>1. PICK e \in Openings(file) : \E now \in Readings(e.book) :
        LET S == {r \in Ref : /\ Owner[r] = p /\ e.book.notes[r].state \in Live
                              /\ now < e.book.notes[r].req.expires}
        IN Commit(e, IF S = {} THEN e.book ELSE Noted(Withdrawn(e.book, S, now), now), S)
  BY DEF WithdrawProgram
<1>2. PICK now \in Readings(e.book), S \in SUBSET Ref :
        Commit(e, IF S = {} THEN e.book ELSE Noted(Withdrawn(e.book, S, now), now), S)
  BY <1>1
<1> DEFINE f == e.book
           w == Withdrawn(f, S, now)
           h == IF S = {} THEN f ELSE Noted(w, now)
<1>3. /\ f \in Files /\ now \in Int /\ Aging(file, f)
  BY EditAges DEF Fine
<1> HIDE DEF f
<1>4. w \in Files /\ w.notes = [s \in Ref |-> IF s \in S THEN Taken(f.notes[s], now) ELSE f.notes[s]]
  BY <1>3, WithdrawnFacts
<1> HIDE DEF w
<1>5. \A s \in Ref : s \in S \/ h.notes[s] = f.notes[s]
  BY <1>3, <1>4, NotedFacts
<1>6. Commit(e, h, S)
  BY <1>2 DEF f, w
<1> HIDE DEF h
<1> SUFFICES ASSUME NEW r \in waiting' PROVE Wakes
  BY DEF Wakes
<1>7. r \in Ref
  BY ReferenceAssumption DEF Histories
<1> QED
  BY <1>5, <1>6, <1>7, EditWakes DEF f

LEMMA AcknowledgeWakes ==
    ASSUME Fine, Histories', NEW r \in Ref, Acknowledge(r)
    PROVE  Wakes
<1>1. PICK e \in Openings(file) : \E now \in Readings(e.book) :
         \/ file' = e.book \/ file' = Noted(e.book, now)
         \/ Commit(e, Noted([e.book EXCEPT !.notes[r] =
                [@ EXCEPT !.state = "gone", !.admitted = 0, !.posted = 0]], now), {})
  BY DEF Acknowledge, Commit
<1>2. PICK now \in Readings(e.book) :
         \/ file' = e.book \/ file' = Noted(e.book, now)
         \/ Commit(e, Noted([e.book EXCEPT !.notes[r] =
                [@ EXCEPT !.state = "gone", !.admitted = 0, !.posted = 0]], now), {})
  BY <1>1
<1> DEFINE f == e.book
           b == [f.notes[r] EXCEPT !.state = "gone", !.admitted = 0, !.posted = 0]
           h == Noted([f EXCEPT !.notes[r] = b], now)
<1>3. /\ f \in Files /\ now \in Int /\ f.floor <= now /\ f.notes[r] \in Admission
      /\ Aging(file, f) /\ Aging(file, Noted(f, now))
  BY EditAges DEF Fine, Opens, GoodFile, Files
<1>4. b \in Admission /\ b.state \notin Ended
  BY <1>3, TombstoneType DEF Ended, Admission
<1>5. Commit(e, h, {}) => Wakes
  <2> HIDE DEF b, f
  <2>1. h.notes = [f.notes EXCEPT ![r] = b]
    BY <1>3, <1>4, WriteFacts
  <2> HIDE DEF h
  <2>2. h.notes[r].state \notin Ended /\ \A s \in Ref \ {r} : h.notes[s] = f.notes[s]
    BY <1>3, <1>4, <2>1 DEF Files
  <2> QED
    BY <2>2, EditWakes DEF f
<1>6. Aging(file, file') => Wakes
  BY AgingWakes
<1> QED
  BY <1>2, <1>3, <1>5, <1>6

(* Every step but one wakes whom it gives a result, or panics on the way. *)
LEMMA StepWakes ==
    ASSUME Fine, Histories', Next, \A r \in Ref : ~PostScheduled(r)
    PROVE  Wakes
<1>1. ASSUME NEW r \in Ref, Dismiss(r) \/ WithdrawOwn(r) \/ \E action \in Action : Act(r, action)
      PROVE  Wakes
  BY <1>1, DecideWakes DEF Dismiss, WithdrawOwn, Act, Ended
<1>2. ASSUME NEW r \in Ref, Observe(r)
      PROVE  Wakes
  BY <1>2, ObserveShape, AgingWakes
<1>3. CASE History \/ OtherEdit \/ Refused
  BY <1>3, HistoryShape, OtherEditShape, FailAges, AgingWakes DEF Refused
<1>4. CASE UNCHANGED file
  BY <1>4 DEF Wakes
<1>5. \A r : Wait(r) => UNCHANGED file
  BY DEF Wait
<1>6. \A p : Block(p) \/ Permit(p) => UNCHANGED file
  BY DEF Block, Permit
<1> QED
  BY <1>1, <1>2, <1>3, <1>4, <1>5, <1>6, PostWakes, WithdrawProgramWakes, AcknowledgeWakes DEF Next

(* ASK-N3: whatever gives a notification its result wakes who waits for it,    *)
(* or was kept from it by a panic of settle, with the exception that the run  *)
(* notification_woken exhibits: a call of PostScheduledNotification, which    *)
(* displaces another of its program.                                         *)
THEOREM ResultWakes == Spec => [][Wakes \/ \E r \in Ref : PostScheduled(r)]_vars
<1>1. IInv /\ IInv' /\ [Next]_vars => [Wakes \/ \E r \in Ref : PostScheduled(r)]_vars
  BY StepWakes DEF IInv, Fine, Histories
<1> QED
  BY <1>1, Invariance, PTL DEF Spec

-----------------------------------------------------------------------------
(* What the person did wakes. *)

(* A displacement gives a result that is nobody's decision.  Who goes on       *)
(* waiting did so before.                                                    *)
LEMMA DeliveryDecidesNothing ==
    ASSUME Fine, NEW r \in Ref, PostScheduled(r)
    PROVE  /\ waiting' \subseteq waiting
           /\ skipped \cap waiting' \subseteq skipped'
           /\ \A s \in Ref : file'.notes[s].state \in {"acted", "dismissed"} =>
                                file'.notes[s] = file.notes[s]
<1>1. waiting' \subseteq waiting /\ skipped \cap waiting' \subseteq skipped'
  <2>1. \E e, g, S : Commit(e, g, S)
    BY DEF PostScheduled
  <2> QED
    BY <2>1 DEF Commit, Settle
<1>2. CASE Aging(file, file')
  BY <1>1, <1>2, AgesEnds DEF Aging, Fine, GoodFile, Ended
<1>3. ASSUME NEW g, NEW D, From(file, g, file'), Shows(g.notes[r], file'.notes[r], file'.floor),
             \A s \in Ref \ {r} : file'.notes[s] = IF s \in D THEN Taken(g.notes[s], file'.floor)
                                                  ELSE g.notes[s],
             NEW s \in Ref, file'.notes[s].state \in {"acted", "dismissed"}
      PROVE  file'.notes[s] = file.notes[s]
  <2>1. /\ file \in Files /\ Ages(file, g) /\ g \in Files /\ file'.floor \in Int
        /\ g.notes[r] \in Admission /\ g.notes[s] \in Admission
    BY <1>3 DEF From, Opens, Fine, GoodFile, Files
  <2>2. s # r
    BY <1>3, <2>1 DEF Shows, Admission
  <2>3. s \notin D
    BY <1>3, <2>1, <2>2, TakenType
  <2> QED
    BY <1>3, <2>1, <2>2, <2>3, AgesEnds DEF Ended
<1>4. Aging(file, file') \/ Delivered(file, file', r)
  BY PostScheduledShape
<1> QED
  BY <1>1, <1>2, <1>3, <1>4 DEF Delivered

(* Who begins to wait waits for what has no result. *)
LEMMA NewWaits ==
    ASSUME Fine, NEW r \in Polled, Wait(r)
    PROVE  /\ waiting' = waiting \cup {r} /\ UNCHANGED <<file, skipped>>
           /\ file.notes[r].state \notin Ended
<1>1. /\ waiting' = waiting \cup {r} /\ UNCHANGED <<file, skipped>>
      /\ View(file, r).state \in Live
  BY DEF Wait
<1>2. r \in Ref /\ file \in Files /\ file.floor \in Int
  BY ReferenceAssumption DEF Fine, GoodFile, Files
<1>3. View(file, r) = Aged(r, file.notes[r], file.floor)
  BY <1>2, CollectedFacts DEF View, AtFloor
<1>4. file.notes[r] \in Admission
  BY <1>2 DEF Files
<1>5. [file.notes[r] EXCEPT !.state = "expired"].state \notin Live /\ Absent.state \notin Live
  BY <1>4 DEF Admission, Live, Absent
<1>6. file.notes[r].state \in Live
  BY <1>1, <1>3, <1>5 DEF Aged
<1> QED
  BY <1>1, <1>6 DEF Live, Ended

LEMMA DecisionStep ==
    ASSUME IInv, Histories', DecisionWoken, [Next]_vars
    PROVE  DecisionWoken'
<1>1. Fine
  BY DEF Fine, IInv, Histories
<1>2. CASE UNCHANGED vars
  BY <1>2 DEF vars, DecisionWoken
<1>3. ASSUME NEW r \in Polled, Wait(r)
      PROVE  DecisionWoken'
  BY <1>1, <1>3, NewWaits DEF DecisionWoken, Ended
<1>4. ASSUME NEW r \in Ref, PostScheduled(r)
      PROVE  DecisionWoken'
  BY <1>1, <1>4, ReferenceAssumption, DeliveryDecidesNothing DEF DecisionWoken, IInv, Histories
<1>5. CASE Next /\ (\A r \in Polled : ~Wait(r)) /\ \A r \in Ref : ~PostScheduled(r)
  <2>1. waiting' \subseteq waiting /\ skipped \cap waiting' \subseteq skipped'
    BY <1>1, <1>5, OnlyWaitAdds, SkippedStays
  <2>2. Wakes
    BY <1>1, <1>5, StepWakes
  <2> QED
    BY <2>1, <2>2 DEF Wakes, DecisionWoken, Ended
<1> QED
  BY <1>2, <1>3, <1>4, <1>5

(* ASK-N3: a poster that waits is woken by what the person does with its       *)
(* notification, whoever else's call displaced, replaced or expired anything,  *)
(* unless a panic kept the decision's edit from settling it                  *)
(* (decideNotification, changeApplication).                                  *)
THEOREM DecisionWakes == Spec => []DecisionWoken
<1>1. Init => DecisionWoken
  BY DEF Init, DecisionWoken
<1>2. IInv /\ IInv' /\ DecisionWoken /\ [Next]_vars => DecisionWoken'
  BY DecisionStep DEF IInv
<1> QED
  BY <1>1, <1>2, Invariance, PTL DEF Spec

-----------------------------------------------------------------------------
(* What the contract promises.  A status fits its reference at each time; a    *)
(* step ages or withdraws most of them and moves one.                          *)

(* A status of the contract that fits its reference at time t. *)
Fitting(s, r, t) ==
    /\ s = [is |-> s.is, req |-> s.req, result |-> s.result]
    /\ s.is \in Ended => s.result.at \in Int
    /\ Contract!Fits(s, r, t)

(* What a step at time t may make of one reference whose status was s. *)
Goes(s, n, r, t) ==
    LET a == Contract!Aged(s, r, t) IN
    \/ n = a
    \/ /\ s.is \in Live
       /\ n = Resulting(s, "withdrawn", [action |-> None, at |-> t])
    \/ a.is = "scheduled" /\ n = Turned(a, "posted")
    \/ /\ a.is \in Live
       /\ \E to \in Ended, action \in Action \cup {None} :
             /\ IF to = "acted" THEN action \in s.req.actions ELSE action = None
             /\ n = Resulting(a, to, [action |-> action, at |-> t])
    \/ a.is \in Ended /\ n = Turned(a, "gone")
    \/ /\ a = Contract!Unknown
       /\ \E q \in Request, w \in Live :
             q.ref = r /\ t < q.expires /\ n = [is |-> w, req |-> q, result |-> None]

LEMMA ExpiredFitting ==
    ASSUME NEW r, NEW t
    PROVE  Fitting(Contract!Expired, r, t) /\ Fitting(Contract!Unknown, r, t)
BY DEF Fitting, Contract!Fits, Contract!Expired, Contract!Unknown, Contract!Live, Contract!Ended, Ended

LEMMA TurnedFields ==
    ASSUME NEW s, s = [is |-> s.is, req |-> s.req, result |-> s.result], NEW x, NEW y
    PROVE  /\ Turned(s, x) = [is |-> x, req |-> s.req, result |-> s.result]
           /\ Resulting(s, x, y) = [is |-> x, req |-> s.req, result |-> y]
<1> DEFINE i == s.is
           q == s.req
           z == s.result
<1>1. s = [is |-> i, req |-> q, result |-> z]
  OBVIOUS
<1> HIDE DEF i, q, z
<1>2. Turned(s, x) = [is |-> x, req |-> q, result |-> z]
  BY <1>1 DEF Turned
<1>3. Resulting(s, x, y) = [Turned(s, x) EXCEPT !.result = y]
  BY DEF Resulting, Turned
<1>4. Resulting(s, x, y) = [is |-> x, req |-> q, result |-> y]
  BY <1>2, <1>3
<1> QED
  BY <1>2, <1>4 DEF q, z

LEMMA AgedFitting ==
    ASSUME NEW r \in Ref, NEW s, NEW t \in Int, NEW u \in Int, t <= u, Fitting(s, r, t)
    PROVE  /\ Fitting(Contract!Aged(s, r, u), r, u)
           /\ Contract!Follows(s, Contract!Aged(s, r, u))
           /\ Contract!Aged(s, r, u).is \in Live \cup Ended \cup {"unknown"}
                => Contract!Aged(s, r, u) = s
<1>1. CASE Contract!Aged(s, r, u) = Contract!Expired
  <2>1. Contract!Follows(s, Contract!Expired)
    BY DEF Contract!Follows, Contract!Expired
  <2>2. Contract!Expired.is \notin Live \cup Ended \cup {"unknown"}
    BY DEF Contract!Expired, Live, Ended
  <2> QED
    BY <1>1, <2>1, <2>2, ExpiredFitting
<1>2. CASE Contract!Aged(s, r, u) # Contract!Expired
  <2>1. Contract!Aged(s, r, u) = s /\ ~(s.is \in Live /\ u >= s.req.expires)
    BY <1>2 DEF Contract!Aged, Contract!Live, Live
  <2>2. Contract!Follows(s, s)
    BY DEF Contract!Follows
  <2>3. s.is \in Live => s.req.expires \in Int
    BY RequestAssumption DEF Fitting, Contract!Fits, Contract!Live, Live
  <2>4. Contract!Fits(s, r, u)
    BY <2>1, <2>3 DEF Fitting, Contract!Fits, Contract!Live, Contract!Ended, Live, Ended
  <2> QED
    BY <2>1, <2>2, <2>4 DEF Fitting
<1> QED
  BY <1>1, <1>2

LEMMA GoesFitting ==
    ASSUME NEW r \in Ref, NEW s, NEW n, NEW t \in Int, NEW u \in Int, t <= u,
           Fitting(s, r, t), Goes(s, n, r, u)
    PROVE  Fitting(n, r, u) /\ Contract!Follows(s, n)
<1> DEFINE a == Contract!Aged(s, r, u)
<1>1. /\ Fitting(a, r, u) /\ Contract!Follows(s, a)
      /\ a.is \in Live \cup Ended \cup {"unknown"} => a = s
  BY AgedFitting
<1>2. /\ \A x : Turned(s, x) = [is |-> x, req |-> s.req, result |-> s.result]
      /\ \A x, y : Resulting(s, x, y) = [is |-> x, req |-> s.req, result |-> y]
  BY TurnedFields DEF Fitting
<1>3. CASE n = a
  BY <1>1, <1>3
<1>4. ASSUME s.is \in Live, n = Resulting(s, "withdrawn", [action |-> None, at |-> u])
      PROVE  Fitting(n, r, u) /\ Contract!Follows(s, n)
  <2>1. n = [is |-> "withdrawn", req |-> s.req, result |-> [action |-> None, at |-> u]]
    BY <1>2, <1>4
  <2>2. Fitting(n, r, u)
    BY <1>4, <2>1 DEF Fitting, Contract!Fits, Contract!Live, Contract!Ended, Live, Ended
  <2>3. Contract!Follows(s, n)
    BY <1>4, <2>1 DEF Contract!Follows, Contract!Expired, Contract!Ended, Live
  <2> QED
    BY <2>2, <2>3
<1>5. ASSUME a.is = "scheduled", n = Turned(a, "posted")
      PROVE  Fitting(n, r, u) /\ Contract!Follows(s, n)
  <2>1. a = s
    BY <1>1, <1>5 DEF Live
  <2>2. n = [is |-> "posted", req |-> s.req, result |-> s.result] /\ s.is = "scheduled"
    <3> HIDE DEF a
    <3> QED
      BY <1>2, <1>5, <2>1
  <2>3. Fitting(s, r, u)
    BY <1>1, <2>1
  <2>4. Fitting(n, r, u)
    BY <2>2, <2>3 DEF Fitting, Contract!Fits, Contract!Live, Contract!Ended, Ended
  <2>5. Contract!Follows(s, n)
    BY <2>2 DEF Contract!Follows, Contract!Expired, Contract!Ended
  <2> QED
    BY <2>4, <2>5
<1>6. ASSUME a.is \in Live, NEW to \in Ended, NEW action \in Action \cup {None},
             IF to = "acted" THEN action \in s.req.actions ELSE action = None,
             n = Resulting(a, to, [action |-> action, at |-> u])
      PROVE  Fitting(n, r, u) /\ Contract!Follows(s, n)
  <2>1. a = s
    BY <1>1, <1>6
  <2>2. n = [is |-> to, req |-> s.req, result |-> [action |-> action, at |-> u]] /\ s.is \in Live
    <3> HIDE DEF a
    <3> QED
      BY <1>2, <1>6, <2>1
  <2>3. Fitting(s, r, u)
    BY <1>1, <2>1
  <2>4. s.req \in Request /\ s.req.ref = r /\ u < s.req.expires
    BY <2>2, <2>3 DEF Fitting, Contract!Fits, Contract!Live, Live
  <2>5. Fitting(n, r, u)
    BY <1>6, <2>2, <2>4 DEF Fitting, Contract!Fits, Contract!Live, Contract!Ended, Ended
  <2>6. Contract!Follows(s, n)
    BY <2>2 DEF Contract!Follows, Contract!Expired, Contract!Ended, Live, Ended
  <2> QED
    BY <2>5, <2>6
<1>7. ASSUME a.is \in Ended, n = Turned(a, "gone")
      PROVE  Fitting(n, r, u) /\ Contract!Follows(s, n)
  <2>1. a = s
    BY <1>1, <1>7
  <2>2. n = [is |-> "gone", req |-> s.req, result |-> s.result] /\ s.is \in Ended
    <3> HIDE DEF a
    <3> QED
      BY <1>2, <1>7, <2>1
  <2>3. Fitting(n, r, u)
    BY <2>2 DEF Fitting, Contract!Fits, Contract!Live, Contract!Ended, Ended
  <2>4. Contract!Follows(s, n)
    BY <2>2 DEF Contract!Follows, Contract!Expired, Contract!Ended, Ended
  <2> QED
    BY <2>3, <2>4
<1>8. ASSUME a = Contract!Unknown, NEW q \in Request, NEW w \in Live, q.ref = r, u < q.expires,
             n = [is |-> w, req |-> q, result |-> None]
      PROVE  Fitting(n, r, u) /\ Contract!Follows(s, n)
  <2>1. a.is = "unknown"
    BY <1>8 DEF Contract!Unknown
  <2>2. s.is = "unknown"
    BY <1>1, <2>1
  <2>3. Fitting(n, r, u)
    BY <1>8 DEF Fitting, Contract!Fits, Contract!Live, Contract!Ended, Live, Ended
  <2>4. Contract!Follows(s, n)
    BY <1>8, <2>2 DEF Contract!Follows, Contract!Expired, Contract!Ended, Live
  <2> QED
    BY <2>3, <2>4
<1> QED
  BY <1>3, <1>4, <1>5, <1>6, <1>7, <1>8 DEF Goes

(* What a step does to a reference that it does not move: it ages it, or       *)
(* withdraws it if it is in W.                                                 *)
Leaves(s, W) ==
    /\ s \in W => /\ Status(s).is \in Live
                  /\ Status(s)' = Resulting(Status(s), "withdrawn", [action |-> None, at |-> file'.floor])
    /\ s \notin W => Status(s)' = Passing(s, file'.floor)

LEMMA ForwardIs ==
    ASSUME Contract!Forward
    PROVE  file'.floor \in Int /\ file'.floor >= file.floor
BY DEF Contract!Forward

LEMMA AgeLeaves ==
    ASSUME Contract!Age
    PROVE  Contract!Forward /\ \A s \in Ref : Leaves(s, {})
<1>1. [s \in Ref |-> Status(s)'] = [s \in Ref |-> Passing(s, file'.floor)]
  BY Bridge DEF Contract!Age
<1>2. \A s \in Ref : Status(s)' = Passing(s, file'.floor)
  BY <1>1
<1> QED
  BY <1>2 DEF Contract!Age, Leaves

LEMMA LeftLeaves ==
    ASSUME NEW W, \A x \in W : x \in Ref /\ Status(x).is \in Live,
           NEW s \in Ref, Status(s)' = Contract!Left(W, file'.floor)[s]
    PROVE  Leaves(s, W)
BY LeftFacts DEF Leaves

LEMMA SilenceLeaves ==
    ASSUME NEW p, Contract!Silence(p)
    PROVE  Contract!Forward /\ \E W : \A s \in Ref : Leaves(s, W)
<1> DEFINE W == Contract!Still(Contract!LiveOf(p), file'.floor)
<1>1. Contract!LiveOf(p) = {r \in Ref : Owner[r] = p /\ Status(r).is \in Live}
  BY Bridge
<1>2. W = {r \in Contract!LiveOf(p) : Passing(r, file'.floor) = Status(r)}
  BY <1>1, Bridge
<1>3. \A x \in W : x \in Ref /\ Status(x).is \in Live
  BY <1>1, <1>2
<1>4. Contract!Forward /\ [s \in Ref |-> Status(s)'] = Contract!Left(W, file'.floor)
  BY DEF Contract!Silence
<1> HIDE DEF W
<1>5. \A s \in Ref : Status(s)' = Contract!Left(W, file'.floor)[s]
  BY <1>4
<1> QED
  BY <1>3, <1>4, <1>5, LeftLeaves

LEMMA FinishGoes ==
    ASSUME NEW r \in Ref, NEW to, NEW action, Contract!Finish(r, to, action)
    PROVE  /\ Contract!Forward
           /\ \A s \in Ref \ {r} : Leaves(s, {})
           /\ Passing(r, file'.floor).is \in Live
           /\ IF to = "acted" THEN action \in Status(r).req.actions ELSE action = None
           /\ Status(r)' = Resulting(Passing(r, file'.floor), to, [action |-> action, at |-> file'.floor])
<1> DEFINE k == [s \in Ref |-> Passing(s, file'.floor)]
           y == [action |-> action, at |-> file'.floor]
<1>1. Contract!AgedStatus(file'.floor) = k
  BY Bridge
<1>2. /\ Contract!Forward
      /\ k[r].is \in Contract!Live
      /\ IF to = "acted" THEN action \in [s \in Ref |-> Status(s)][r].req.actions ELSE action = None
      /\ [s \in Ref |-> Status(s)'] = [k EXCEPT ![r].is = to, ![r].result = y]
  BY <1>1 DEF Contract!Finish
<1>3. k[r] = Passing(r, file'.floor) /\ k \in [Ref -> {k[s] : s \in Ref}]
  OBVIOUS
<1>4. \A s \in Ref : k[s] = Passing(s, file'.floor)
  OBVIOUS
<1> HIDE DEF k, y
<1>5. [k EXCEPT ![r].is = to, ![r].result = y] = [k EXCEPT ![r] = [k[r] EXCEPT !.is = to, !.result = y]]
  BY <1>3
<1>6. [s \in Ref |-> Status(s)'] = [k EXCEPT ![r] = Resulting(k[r], to, y)]
  BY <1>2, <1>5 DEF Resulting
<1>7. Status(r)' = Resulting(k[r], to, y) /\ \A s \in Ref \ {r} : Status(s)' = k[s]
  BY <1>3, <1>6
<1>8. \A s \in Ref \ {r} : Leaves(s, {})
  BY <1>4, <1>7 DEF Leaves
<1> QED
  BY <1>2, <1>3, <1>7, <1>8 DEF Contract!Live, Live, y

LEMMA AcknowledgeGoes ==
    ASSUME NEW r \in Ref, Contract!Acknowledge(r)
    PROVE  /\ Contract!Forward
           /\ \A s \in Ref \ {r} : Leaves(s, {})
           /\ Passing(r, file'.floor).is \in Ended
           /\ Status(r)' = Turned(Passing(r, file'.floor), "gone")
<1> DEFINE k == [s \in Ref |-> Passing(s, file'.floor)]
<1>1. Contract!AgedStatus(file'.floor) = k
  BY Bridge
<1>2. /\ Contract!Forward
      /\ k[r].is \in Contract!Ended
      /\ [s \in Ref |-> Status(s)'] = [k EXCEPT ![r].is = "gone"]
  BY <1>1 DEF Contract!Acknowledge
<1>4. \A s \in Ref : k[s] = Passing(s, file'.floor)
  OBVIOUS
<1>3. DOMAIN k = Ref
  OBVIOUS
<1> HIDE DEF k
<1>5. [k EXCEPT ![r].is = "gone"] = [k EXCEPT ![r] = Turned(k[r], "gone")]
  BY DEF Turned
<1>7. Status(r)' = Turned(k[r], "gone") /\ \A s \in Ref \ {r} : Status(s)' = k[s]
  BY <1>2, <1>3, <1>5
<1>8. \A s \in Ref \ {r} : Leaves(s, {})
  BY <1>4, <1>7 DEF Leaves
<1> QED
  BY <1>2, <1>4, <1>7, <1>8 DEF Contract!Ended, Ended

(* What one more shown notification of p displaces, of those not in T. *)
LEMMA DisplacedIs ==
    ASSUME NEW p, NEW T, NEW t, NEW D \in Contract!Displaced(p, T, t)
    PROVE  /\ \A x \in D : x \in Ref /\ x \notin T /\ Owner[x] = p /\ Status(x).is = "posted"
           /\ Cardinality(D) # 1 => D = {}
           /\ Cardinality(D) # 1 =>
                 Cardinality({x \in {y \in Ref \ T : Owner[y] = p /\ Status(y).is = "posted"} :
                                Passing(x, t) = Status(x)}) < MaxLive
<1> DEFINE shown == {x \in Ref \ T : Owner[x] = p /\ Status(x).is = "posted"}
           alike == {x \in Contract!LiveOf(p) \ T : [s \in Ref |-> Status(s)][x].is = "posted"}
<1>1. Contract!LiveOf(p) = {x \in Ref : Owner[x] = p /\ Status(x).is \in Live}
  BY Bridge
<1>2. alike = shown
  BY <1>1 DEF Live
<1>3. Contract!Displaced(p, T, t) =
        {X \in SUBSET alike :
           \/ X = {} /\ Contract!Cardinality(Contract!Still(alike, t)) < MaxLive
           \/ Contract!Cardinality(X) = 1 /\ Contract!Cardinality(alike) >= MaxLive}
  BY DEF Contract!Displaced
<1>4. Contract!Still(shown, t) = {x \in shown : Passing(x, t) = Status(x)}
  <2>1. shown \in SUBSET Ref
    OBVIOUS
  <2> QED
    BY <2>1, Bridge
<1>5. \/ D = {} /\ Cardinality({x \in shown : Passing(x, t) = Status(x)}) < MaxLive
      \/ Cardinality(D) = 1
  <2> HIDE DEF shown, alike
  <2> QED
    BY <1>2, <1>3, <1>4, SameCardinality
<1>6. D \subseteq shown
  <2> HIDE DEF shown, alike
  <2> QED
    BY <1>2, <1>3
<1> QED
  BY <1>5, <1>6

LEMMA DisplacedOwned ==
    ASSUME NEW p, NEW T, NEW t, NEW D \in Contract!Displaced(p, T, t)
    PROVE  \A x \in D : x \in Ref /\ Owner[x] = p /\ Status(x).is = "posted"
BY DisplacedIs

LEMMA DisplacedRoom ==
    ASSUME NEW p, NEW T, NEW t, NEW D \in Contract!Displaced(p, T, t), Cardinality(D) # 1
    PROVE  Cardinality({x \in {y \in Ref \ T : Owner[y] = p /\ Status(y).is = "posted"} :
                          Passing(x, t) = Status(x)}) < MaxLive
BY DisplacedIs

LEMMA DeliverGoes ==
    ASSUME NEW r \in Ref, Contract!Deliver(r)
    PROVE  /\ Contract!Forward
           /\ Passing(r, file'.floor).is = "scheduled"
           /\ \E D \in Contract!Displaced(Owner[r], {}, file'.floor) :
                 /\ \A s \in Ref \ {r} : Leaves(s, D)
                 /\ r \notin D => Status(r)' = Turned(Passing(r, file'.floor), "posted")
<1> DEFINE t == file'.floor
<1>1. PICK D \in Contract!Displaced(Owner[r], {}, t) :
        [s \in Ref |-> Status(s)'] = [Contract!Left(D, t) EXCEPT ![r].is = "posted"]
  BY DEF Contract!Deliver
<1>2. Contract!Forward /\ Contract!AgedStatus(t)[r].is = "scheduled"
  BY DEF Contract!Deliver
<1>3. Passing(r, t).is = "scheduled"
  BY <1>2, Bridge
<1> DEFINE k == Contract!Left(D, t)
<1>4. k = [s \in Ref |-> k[s]] /\ (r \notin D => k[r] = Passing(r, t))
  BY LeftFacts
<1>5. \A x \in D : x \in Ref /\ Status(x).is \in Live
  <2>1. \A x \in D : x \in Ref /\ Status(x).is = "posted"
    BY DisplacedOwned
  <2> QED
    BY <2>1 DEF Live
<1> HIDE DEF k
<1>6. [k EXCEPT ![r].is = "posted"] = [k EXCEPT ![r] = Turned(k[r], "posted")]
  BY DEF Turned
<1>7. [s \in Ref |-> Status(s)'] = [k EXCEPT ![r] = Turned(k[r], "posted")]
  BY <1>1, <1>6 DEF k
<1>8. Status(r)' = Turned(k[r], "posted") /\ \A s \in Ref \ {r} : Status(s)' = k[s]
  <2>1. DOMAIN k = Ref
    BY <1>4
  <2> QED
    BY <1>7, <2>1
<1>9. \A s \in Ref \ {r} : Leaves(s, D)
  BY <1>5, <1>8, LeftLeaves DEF k
<1> QED
  BY <1>2, <1>3, <1>4, <1>8, <1>9

LEMMA PostGoes ==
    ASSUME NEW q \in Request, Contract!Post(q)
    PROVE  /\ Contract!Forward /\ file'.floor < q.expires
           /\ Passing(q.ref, file'.floor) = Contract!Unknown
           /\ Status(q.ref)' = [is |-> IF q.delivery = "now" THEN "posted" ELSE "scheduled",
                                req |-> q, result |-> None]
           /\ \E T \in Contract!Replaced(q, file'.floor) :
              \E D \in IF q.delivery = "now"
                       THEN Contract!Displaced(Owner[q.ref], T, file'.floor) ELSE {{}} :
                 \A s \in Ref \ {q.ref} : Leaves(s, T \cup D)
<1> DEFINE t == file'.floor
           new == [is |-> IF q.delivery = "now" THEN "posted" ELSE "scheduled",
                   req |-> q, result |-> None]
<1>0. q.ref \in Ref
  BY RequestAssumption
<1>1. PICK T \in Contract!Replaced(q, t) :
        \E D \in IF q.delivery = "now" THEN Contract!Displaced(Owner[q.ref], T, t) ELSE {{}} :
           [s \in Ref |-> Status(s)'] = [Contract!Left(T \cup D, t) EXCEPT ![q.ref] = new]
  BY DEF Contract!Post
<1>2. PICK D \in IF q.delivery = "now" THEN Contract!Displaced(Owner[q.ref], T, t) ELSE {{}} :
           [s \in Ref |-> Status(s)'] = [Contract!Left(T \cup D, t) EXCEPT ![q.ref] = new]
  BY <1>1
<1>3. Contract!Forward /\ t < q.expires /\ Contract!AgedStatus(t)[q.ref] = Contract!Unknown
  BY DEF Contract!Post
<1>4. Passing(q.ref, t) = Contract!Unknown
  BY <1>0, <1>3, Bridge
<1> DEFINE W == T \cup D
           k == Contract!Left(W, t)
<1>5. k = [s \in Ref |-> k[s]]
  BY LeftFacts
<1>6. \A x \in T : x \in Ref /\ Status(x).is \in Live
  <2>1. T \subseteq Contract!LiveOf(Owner[q.ref])
    BY DEF Contract!Replaced
  <2> QED
    BY <2>1, Bridge
<1>7. \A x \in D : x \in Ref /\ Status(x).is \in Live
  <2>1. CASE q.delivery = "now"
    <3>1. D \in Contract!Displaced(Owner[q.ref], T, t)
      BY <2>1
    <3>2. \A x \in D : x \in Ref /\ Status(x).is = "posted"
      BY <3>1, DisplacedOwned
    <3> QED
      BY <3>2 DEF Live
  <2> QED
    BY <2>1
<1> HIDE DEF k, W, new
<1>8. Status(q.ref)' = new /\ \A s \in Ref \ {q.ref} : Status(s)' = k[s]
  <2>1. DOMAIN k = Ref
    BY <1>5
  <2> QED
    BY <1>0, <1>2, <2>1 DEF k, W
<1>9. \A s \in Ref \ {q.ref} : Leaves(s, W)
  <2>1. \A x \in W : x \in Ref /\ Status(x).is \in Live
    BY <1>6, <1>7 DEF W
  <2> QED
    BY <2>1, <1>8, LeftLeaves DEF k
<1>10. \A s \in Ref \ {q.ref} : Leaves(s, T \cup D)
  BY <1>9 DEF W
<1> QED
  BY <1>2, <1>3, <1>4, <1>8, <1>10 DEF new

FittingAll == file.floor \in Int /\ \A r \in Ref : Fitting(Status(r), r, file.floor)

LEMMA LeavesGoes ==
    ASSUME NEW s \in Ref, NEW W, Leaves(s, W)
    PROVE  Goes(Status(s), Status(s)', s, file'.floor)
<1>1. CASE s \in W
  BY <1>1 DEF Leaves, Goes
<1>2. CASE s \notin W
  BY <1>2 DEF Leaves, Goes, Passing
<1> QED
  BY <1>1, <1>2

(* What only ages or is withdrawn is live after the step if it was and was    *)
(* left as it is.                                                             *)
LEMMA LeavesLive ==
    ASSUME FittingAll, NEW s \in Ref, NEW W, Leaves(s, W), file'.floor \in Int, file'.floor >= file.floor,
           Status(s)'.is \in Live
    PROVE  s \notin W /\ Status(s)' = Status(s) /\ Passing(s, file'.floor) = Status(s)
<1>1. Status(s) = [is |-> Status(s).is, req |-> Status(s).req, result |-> Status(s).result]
      /\ Fitting(Status(s), s, file.floor) /\ file.floor \in Int
  BY DEF FittingAll, Fitting
<1>2. CASE s \in W
  <2>1. Status(s)' = [is |-> "withdrawn", req |-> Status(s).req,
                      result |-> [action |-> None, at |-> file'.floor]]
    BY <1>1, <1>2, TurnedFields DEF Leaves
  <2> QED
    BY <2>1 DEF Live
<1>3. CASE s \notin W
  <2>1. Status(s)' = Passing(s, file'.floor)
    BY <1>3 DEF Leaves
  <2>2. Passing(s, file'.floor).is \in Live
    BY <2>1
  <2>3. Passing(s, file'.floor) = Status(s)
    BY <1>1, <2>2, AgedFitting DEF Passing
  <2> QED
    BY <1>3, <2>1, <2>3
<1> QED
  BY <1>2, <1>3

LEMMA GoesNext ==
    ASSUME FittingAll, Contract!Next, NEW r \in Ref
    PROVE  Contract!Forward /\ Goes(Status(r), Status(r)', r, file'.floor)
<1> DEFINE t == file'.floor
           G == Contract!Forward /\ Goes(Status(r), Status(r)', r, t)
<1> HIDE DEF G
<1>1. ASSUME Contract!Age
      PROVE  G
  BY <1>1, AgeLeaves, LeavesGoes DEF G
<1>2. ASSUME NEW q \in Request, Contract!Post(q)
      PROVE  G
  <2>1. CASE r = q.ref
    <3>1. /\ Contract!Forward /\ t < q.expires /\ Passing(r, t) = Contract!Unknown
          /\ Status(r)' = [is |-> IF q.delivery = "now" THEN "posted" ELSE "scheduled",
                           req |-> q, result |-> None]
      BY <1>2, <2>1, PostGoes
    <3>2. PICK w \in Live : Status(r)' = [is |-> w, req |-> q, result |-> None]
      BY <3>1 DEF Live
    <3> QED
      BY <2>1, <3>1, <3>2 DEF Goes, Passing, G
  <2>2. CASE r # q.ref
    <3>1. Contract!Forward /\ \E W : Leaves(r, W)
      BY <1>2, <2>2, PostGoes
    <3> QED
      BY <3>1, LeavesGoes DEF G
  <2> QED
    BY <2>1, <2>2
<1>3. ASSUME NEW x \in Ref, Contract!Deliver(x)
      PROVE  G
  <2>1. Contract!Forward /\ Passing(x, t).is = "scheduled"
    BY <1>3, DeliverGoes
  <2>2. PICK D \in Contract!Displaced(Owner[x], {}, t) :
          /\ \A s \in Ref \ {x} : Leaves(s, D)
          /\ x \notin D => Status(x)' = Turned(Passing(x, t), "posted")
    BY <1>3, DeliverGoes
  <2>3. x \notin D
    <3>1. ASSUME x \in D PROVE FALSE
      <4>1. Status(x).is = "posted"
        BY <3>1, DisplacedOwned
      <4>2. Fitting(Status(x), x, file.floor) /\ file.floor \in Int /\ t \in Int /\ file.floor <= t
        BY <2>1, ForwardIs DEF FittingAll
      <4>3. Passing(x, t) = Status(x)
        BY <2>1, <4>2, AgedFitting DEF Passing, Live
      <4> QED
        BY <2>1, <4>1, <4>3
    <3> QED
      BY <3>1
  <2>4. CASE r = x
    BY <2>1, <2>2, <2>3, <2>4 DEF Goes, Passing, G
  <2>5. CASE r # x
    BY <2>1, <2>2, <2>5, LeavesGoes DEF G
  <2> QED
    BY <2>4, <2>5
<1>4. ASSUME NEW x \in Ref, Contract!Acknowledge(x)
      PROVE  G
  <2>1. /\ Contract!Forward /\ Passing(x, t).is \in Ended
        /\ Status(x)' = Turned(Passing(x, t), "gone")
        /\ \A s \in Ref \ {x} : Leaves(s, {})
    BY <1>4, AcknowledgeGoes
  <2>2. CASE r = x
    BY <2>1, <2>2 DEF Goes, Passing, G
  <2>3. CASE r # x
    BY <2>1, <2>3, LeavesGoes DEF G
  <2> QED
    BY <2>2, <2>3
<1>5. ASSUME NEW x \in Ref, NEW to \in Ended, NEW action \in Action \cup {None},
             Contract!Finish(x, to, action)
      PROVE  G
  <2>1. /\ Contract!Forward /\ Passing(x, t).is \in Live
        /\ IF to = "acted" THEN action \in Status(x).req.actions ELSE action = None
        /\ Status(x)' = Resulting(Passing(x, t), to, [action |-> action, at |-> t])
        /\ \A s \in Ref \ {x} : Leaves(s, {})
    BY <1>5, FinishGoes
  <2>2. CASE r = x
    BY <2>1, <2>2 DEF Goes, Passing, G
  <2>3. CASE r # x
    BY <2>1, <2>3, LeavesGoes DEF G
  <2> QED
    BY <2>2, <2>3
<1>6. ASSUME NEW x \in Ref, Contract!Silence(Owner[x])
      PROVE  G
  BY <1>6, SilenceLeaves, LeavesGoes DEF G
<1>7. Contract!Ended = Ended
  BY DEF Contract!Ended, Ended
<1>8. \/ Contract!Age
      \/ \E q \in Request : Contract!Post(q)
      \/ \E x \in Ref : Contract!Deliver(x) \/ Contract!Acknowledge(x)
      \/ \E x \in Ref, to \in Ended, action \in Action \cup {None} : Contract!Finish(x, to, action)
      \/ \E x \in Ref : Contract!Silence(Owner[x])
  BY <1>7 DEF Contract!Next
<1>9. G
  <2>1. CASE \E q \in Request : Contract!Post(q)
    BY <1>2, <2>1
  <2>2. CASE \E x \in Ref : Contract!Deliver(x) \/ Contract!Acknowledge(x)
    BY <1>3, <1>4, <2>2
  <2>3. CASE \E x \in Ref, to \in Ended, action \in Action \cup {None} : Contract!Finish(x, to, action)
    BY <1>5, <2>3
  <2>4. CASE \E x \in Ref : Contract!Silence(Owner[x])
    BY <1>6, <2>4
  <2> QED
    BY <1>1, <1>8, <2>1, <2>2, <2>3, <2>4
<1> QED
  BY <1>9 DEF G

LEMMA FittingNext ==
    ASSUME FittingAll, Contract!Next
    PROVE  /\ FittingAll'
           /\ Contract!Onward
<1>1. ASSUME NEW r \in Ref
      PROVE  /\ Fitting(Status(r)', r, file'.floor)
             /\ Contract!Follows(Status(r), Status(r)')
             /\ file'.floor \in Int /\ file'.floor >= file.floor
  <2>1. Contract!Forward /\ Goes(Status(r), Status(r)', r, file'.floor)
    BY GoesNext
  <2>2. file'.floor \in Int /\ file'.floor >= file.floor
    BY <2>1, ForwardIs
  <2>3. file.floor \in Int /\ Fitting(Status(r), r, file.floor)
    BY DEF FittingAll
  <2> QED
    BY <2>1, <2>2, <2>3, GoesFitting
<1>2. file'.floor \in Int /\ file'.floor >= file.floor
  BY DEF Contract!Next, Contract!Age, Contract!Post, Contract!Deliver, Contract!Acknowledge,
         Contract!Finish, Contract!Silence, Contract!Forward
<1>3. ASSUME NEW r \in Ref
      PROVE  /\ [x \in Ref |-> Status(x)][r] = Status(r)
             /\ [x \in Ref |-> Status(x)'][r] = Status(r)'
  OBVIOUS
<1>4. FittingAll'
  BY <1>1, <1>2 DEF FittingAll
<1> QED
  BY <1>1, <1>2, <1>3, <1>4 DEF Contract!Onward

LEMMA FittingInit == Contract!Init => FittingAll
<1> SUFFICES ASSUME Contract!Init
             PROVE  FittingAll
  OBVIOUS
<1>1. file.floor = 0 /\ \A r \in Ref : Status(r) = Contract!Unknown
  BY DEF Contract!Init
<1> QED
  BY <1>1, ExpiredFitting DEF FittingAll

LEMMA SameContract ==
    ASSUME UNCHANGED Contract!vars
    PROVE  file'.floor = file.floor /\ \A r \in Ref : Status(r)' = Status(r)
<1>1. file'.floor = file.floor /\ [r \in Ref |-> Status(r)'] = [r \in Ref |-> Status(r)]
  BY DEF Contract!vars
<1> QED
  BY <1>1

LEMMA ContractFitting == Contract!Spec => []FittingAll
<1>1. Contract!Init => FittingAll
  BY FittingInit
<1>2. FittingAll /\ [Contract!Next]_(Contract!vars) => FittingAll'
  <2>1. ASSUME FittingAll, UNCHANGED Contract!vars PROVE FittingAll'
    BY <2>1, SameContract DEF FittingAll
  <2> QED
    BY <2>1, FittingNext
<1> QED
  BY <1>1, <1>2, PTL DEF Contract!Spec

(* What the contract promises of a result: it fits the request it is for, and  *)
(* the person's came before its expiry, of something it offered.               *)
THEOREM ContractResultFits == Spec => []Contract!ResultFits
<1>1. FittingAll => Contract!ResultFits
  <2>1. FittingAll => \A r \in Ref : Contract!Fits(Status(r), r, file.floor)
    BY DEF FittingAll, Fitting
  <2>2. \A r \in Ref : [x \in Ref |-> Status(x)][r] = Status(r)
    OBVIOUS
  <2> QED
    BY <2>1, <2>2 DEF Contract!ResultFits
<1> QED
  BY <1>1, ContractFitting, Implementation, PTL DEF ImplementsContract

(* The result of a reference is its only one, which stands until it is         *)
(* acknowledged or its replay deadline passes; nothing shown is scheduled      *)
(* again, and service time never goes back.                                    *)
THEOREM ContractEndsOnce == Spec => Contract!EndsOnce
<1>1. FittingAll /\ [Contract!Next]_(Contract!vars) => [Contract!Onward]_(Contract!vars)
  BY FittingNext
<1> QED
  BY <1>1, ContractFitting, Implementation, PTL
  DEF ImplementsContract, Contract!Spec, Contract!EndsOnce

-----------------------------------------------------------------------------
(* The bounds.  Only a notification that begins to be shown or is admitted     *)
(* needs room and its tag, and what it displaces or replaces makes both.       *)

Seen(p) == {x \in Ref : Owner[x] = p /\ Status(x).is = "posted"}

InBounds == \A r \in Ref : IsFiniteSet(Seen(Owner[r])) /\ Cardinality(Seen(Owner[r])) <= MaxLive

Alone ==
    \A r, s \in Ref :
       /\ Status(r).is \in Live /\ Status(s).is \in Live
       /\ Owner[r] = Owner[s] /\ Status(r).req.tag = Status(s).req.tag
       /\ Status(r).req.tag # None
       => r = s

(* One more fits a set that has room, or that made it. *)
LEMMA RoomLeft ==
    ASSUME NEW S, IsFiniteSet(S), Cardinality(S) < MaxLive, NEW r, NEW N, N \subseteq S \cup {r}
    PROVE  IsFiniteSet(N) /\ Cardinality(N) <= MaxLive
<1>1. /\ IsFiniteSet(S \cup {r})
      /\ Cardinality(S \cup {r}) = IF r \in S THEN Cardinality(S) ELSE Cardinality(S) + 1
  BY FS_AddElement
<1>2. IsFiniteSet(N) /\ Cardinality(N) <= Cardinality(S \cup {r})
  BY <1>1, FS_Subset
<1>3. Cardinality(S) \in Nat /\ Cardinality(N) \in Nat /\ MaxLive \in Nat
  BY <1>2, FS_CardinalityType, BoundAssumption
<1> QED
  BY <1>1, <1>2, <1>3

LEMMA RoomMade ==
    ASSUME NEW S, IsFiniteSet(S), Cardinality(S) <= MaxLive, NEW D, D \subseteq S, Cardinality(D) = 1,
           NEW r, NEW N, N \subseteq (S \ D) \cup {r}
    PROVE  IsFiniteSet(N) /\ Cardinality(N) <= MaxLive
<1>1. IsFiniteSet(S \ D) /\ Cardinality(S \ D) = Cardinality(S) - Cardinality(S \cap D)
  BY FS_Difference
<1>2. S \cap D = D
  OBVIOUS
<1>3. Cardinality(S) \in Nat /\ MaxLive \in Nat
  BY FS_CardinalityType, BoundAssumption
<1>4. Cardinality(S \ D) < MaxLive
  BY <1>1, <1>2, <1>3
<1> QED
  BY <1>1, <1>4, RoomLeft

LEMMA FewerSeen ==
    ASSUME InBounds, \A s \in Ref : Status(s)'.is = "posted" => Status(s).is = "posted"
    PROVE  InBounds'
<1>1. ASSUME NEW r \in Ref
      PROVE  /\ IsFiniteSet(Seen(Owner[r]))'
             /\ (Cardinality(Seen(Owner[r])) <= MaxLive)'
  <2> DEFINE S == Seen(Owner[r])
             N == {x \in Ref : Owner[x] = Owner[r] /\ Status(x)'.is = "posted"}
  <2>1. N \subseteq S
    BY DEF Seen
  <2>2. IsFiniteSet(S) /\ Cardinality(S) <= MaxLive
    BY DEF InBounds
  <2> HIDE DEF S
  <2>3. IsFiniteSet(N) /\ Cardinality(N) <= Cardinality(S)
    BY <2>1, <2>2, FS_Subset
  <2>4. Cardinality(N) \in Nat /\ Cardinality(S) \in Nat /\ MaxLive \in Nat
    BY <2>2, <2>3, FS_CardinalityType, BoundAssumption
  <2> QED
    BY <2>2, <2>3, <2>4 DEF Seen
<1> QED
  BY <1>1 DEF InBounds

LEMMA FewerTagged ==
    ASSUME Alone, \A s \in Ref : Status(s)'.is \in Live => Status(s).is \in Live /\ Status(s).req = Status(s)'.req
    PROVE  Alone'
BY DEF Alone

(* One more of p is shown. *)
LEMMA Arrival ==
    ASSUME FittingAll, InBounds, Contract!Forward, NEW r \in Ref, NEW T,
           NEW D \in Contract!Displaced(Owner[r], T, file'.floor),
           \A s \in Ref \ {r} : Leaves(s, T \cup D)
    PROVE  InBounds'
<1> DEFINE t == file'.floor
<1>1. t \in Int /\ t >= file.floor
  BY ForwardIs
<1>2. ASSUME NEW s \in Ref \ {r}, Status(s)'.is = "posted"
      PROVE  s \notin T /\ s \notin D /\ Status(s).is = "posted" /\ Passing(s, t) = Status(s)
  BY <1>1, <1>2, LeavesLive DEF Live
<1>3. ASSUME NEW x \in Ref
      PROVE  /\ IsFiniteSet(Seen(Owner[x]))'
             /\ (Cardinality(Seen(Owner[x])) <= MaxLive)'
  <2> DEFINE S == Seen(Owner[x])
             N == {y \in Ref : Owner[y] = Owner[x] /\ Status(y)'.is = "posted"}
             shown == {y \in Ref \ T : Owner[y] = Owner[r] /\ Status(y).is = "posted"}
             still == {y \in shown : Passing(y, t) = Status(y)}
  <2>1. IsFiniteSet(S) /\ Cardinality(S) <= MaxLive
    BY DEF InBounds
  <2>2. Cardinality(S) \in Nat /\ MaxLive \in Nat
    BY <2>1, FS_CardinalityType, BoundAssumption
  <2>3. IsFiniteSet(N) /\ Cardinality(N) <= MaxLive
    <3>1. CASE Owner[x] # Owner[r]
      <4>1. N \subseteq S
        BY <1>2, <3>1 DEF Seen
      <4> HIDE DEF S, N
      <4>2. IsFiniteSet(N) /\ Cardinality(N) <= Cardinality(S) /\ Cardinality(N) \in Nat
        BY <2>1, <4>1, FS_Subset, FS_CardinalityType
      <4> QED
        BY <2>1, <2>2, <4>2
    <3>2. CASE Owner[x] = Owner[r] /\ Cardinality(D) = 1
      <4>1. N \subseteq (S \ D) \cup {r}
        BY <1>2, <3>2 DEF Seen
      <4>2. D \subseteq S
        <5>1. \A y \in D : y \in Ref /\ Owner[y] = Owner[r] /\ Status(y).is = "posted"
          BY DisplacedOwned
        <5> QED
          BY <3>2, <5>1 DEF Seen
      <4> HIDE DEF S, N
      <4> QED
        BY <2>1, <3>2, <4>1, <4>2, RoomMade
    <3>3. CASE Owner[x] = Owner[r] /\ Cardinality(D) # 1
      <4>1. N \subseteq still \cup {r}
        BY <1>2, <3>3
      <4>2. still \subseteq S
        BY <3>3 DEF Seen
      <4>3. Cardinality(still) < MaxLive
        BY <3>3, DisplacedRoom
      <4> HIDE DEF S, N, still
      <4>4. IsFiniteSet(still)
        BY <2>1, <4>2, FS_Subset
      <4> QED
        BY <4>1, <4>3, <4>4, RoomLeft
    <3> QED
      BY <3>1, <3>2, <3>3
  <2> QED
    BY <2>3 DEF Seen
<1> QED
  BY <1>3 DEF InBounds

(* What is live under the tag of a request and does not expire is replaced.    *)
LEMMA ReplacedIs ==
    ASSUME NEW q, NEW t, NEW T \in Contract!Replaced(q, t), NEW s \in Ref,
           Owner[s] = Owner[q.ref], Status(s).is \in Live, q.tag # None, Status(s).req.tag = q.tag,
           Passing(s, t) = Status(s)
    PROVE  s \in T
<1> DEFINE same == {r \in Contract!LiveOf(Owner[q.ref]) : q.tag # None /\ [x \in Ref |-> Status(x)][r].req.tag = q.tag}
<1>1. Contract!LiveOf(Owner[q.ref]) = {x \in Ref : Owner[x] = Owner[q.ref] /\ Status(x).is \in Live}
  BY Bridge
<1>2. Contract!Replaced(q, t) = {X \in SUBSET same : Contract!Still(same, t) \subseteq X}
  BY DEF Contract!Replaced
<1>3. s \in same
  BY <1>1
<1>4. same \in SUBSET Ref
  BY <1>1
<1> HIDE DEF same
<1>5. Contract!Still(same, t) = {r \in same : Passing(r, t) = Status(r)}
  BY <1>4, Bridge
<1> QED
  BY <1>2, <1>3, <1>5

LEMMA KeepsLive ==
    ASSUME FittingAll, Contract!Forward, NEW s \in Ref, \E W : Leaves(s, W)
    PROVE  /\ Status(s)'.is \in Live => Status(s)' = Status(s)
           /\ Status(s)'.is = "posted" => Status(s).is = "posted"
<1>1. file'.floor \in Int /\ file'.floor >= file.floor
  BY ForwardIs
<1> QED
  BY <1>1, LeavesLive DEF Live

LEMMA BoundsNext ==
    ASSUME FittingAll, InBounds, Alone, Contract!Next
    PROVE  InBounds' /\ Alone'
<1> DEFINE t == file'.floor
           B == InBounds' /\ Alone'
<1> HIDE DEF B
<1>1. ASSUME Contract!Forward, \A s \in Ref : \E W : Leaves(s, W)
      PROVE  B
  <2>1. \A s \in Ref : /\ Status(s)'.is \in Live => Status(s)' = Status(s)
                       /\ Status(s)'.is = "posted" => Status(s).is = "posted"
    BY <1>1, KeepsLive
  <2>2. \A s \in Ref : Status(s)'.is \in Live => Status(s).is \in Live /\ Status(s).req = Status(s)'.req
    BY <2>1
  <2> QED
    BY <2>1, <2>2, FewerSeen, FewerTagged DEF B
<1>2. ASSUME Contract!Forward, NEW r \in Ref, \A s \in Ref \ {r} : Leaves(s, {}),
             NEW to \in Ended \cup {"gone"}, Status(r)'.is = to
      PROVE  B
  <2>1. to \notin Live
    BY DEF Live, Ended
  <2>2. \A s \in Ref : /\ Status(s)'.is \in Live => Status(s)' = Status(s)
                       /\ Status(s)'.is = "posted" => Status(s).is = "posted"
    BY <1>2, <2>1, KeepsLive DEF Live
  <2>3. \A s \in Ref : Status(s)'.is \in Live => Status(s).is \in Live /\ Status(s).req = Status(s)'.req
    BY <2>2
  <2> QED
    BY <2>2, <2>3, FewerSeen, FewerTagged DEF B
<1>3. ASSUME NEW s \in Ref, Contract!Forward, Passing(s, t).is \in Live \cup Ended \cup {"unknown"}
      PROVE  /\ Passing(s, t) = Status(s)
             /\ Status(s) = [is |-> Status(s).is, req |-> Status(s).req, result |-> Status(s).result]
  <2>1. t \in Int /\ t >= file.floor /\ file.floor \in Int /\ Fitting(Status(s), s, file.floor)
    BY <1>3, ForwardIs DEF FittingAll
  <2> QED
    BY <1>3, <2>1, AgedFitting DEF Passing, Fitting
<1>4. ASSUME NEW r \in Ref, NEW to \in Ended, NEW action, Contract!Finish(r, to, action)
      PROVE  B
  <2>1. /\ Contract!Forward /\ Passing(r, t).is \in Live
        /\ Status(r)' = Resulting(Passing(r, t), to, [action |-> action, at |-> t])
        /\ \A s \in Ref \ {r} : Leaves(s, {})
    BY <1>4, FinishGoes
  <2>2. Status(r)'.is = to
    BY <1>3, <2>1, TurnedFields
  <2> QED
    BY <1>2, <2>1, <2>2
<1>5. ASSUME NEW r \in Ref, Contract!Acknowledge(r)
      PROVE  B
  <2>1. /\ Contract!Forward /\ Passing(r, t).is \in Ended
        /\ Status(r)' = Turned(Passing(r, t), "gone")
        /\ \A s \in Ref \ {r} : Leaves(s, {})
    BY <1>5, AcknowledgeGoes
  <2>2. Status(r)'.is = "gone"
    BY <1>3, <2>1, TurnedFields
  <2> QED
    BY <1>2, <2>1, <2>2
<1>6. ASSUME NEW r \in Ref, Contract!Deliver(r)
      PROVE  B
  <2>1. Contract!Forward /\ Passing(r, t).is = "scheduled"
    BY <1>6, DeliverGoes
  <2>2. PICK D \in Contract!Displaced(Owner[r], {}, t) :
          /\ \A s \in Ref \ {r} : Leaves(s, D)
          /\ r \notin D => Status(r)' = Turned(Passing(r, t), "posted")
    BY <1>6, DeliverGoes
  <2>3. Passing(r, t) = Status(r)
        /\ Status(r) = [is |-> Status(r).is, req |-> Status(r).req, result |-> Status(r).result]
    BY <1>3, <2>1 DEF Live
  <2>4. r \notin D
    BY <2>1, <2>3, DisplacedOwned
  <2>5. Status(r)' = [is |-> "posted", req |-> Status(r).req, result |-> Status(r).result]
    BY <2>2, <2>3, <2>4, TurnedFields
  <2>6. \A s \in Ref \ {r} : Leaves(s, {} \cup D)
    <3>1. {} \cup D = D
      OBVIOUS
    <3> QED
      BY <2>2, <3>1
  <2>7. InBounds'
    BY <2>1, <2>6, Arrival
  <2>8. Status(r).is \in Live /\ Status(r)'.req = Status(r).req
    BY <2>1, <2>3, <2>5 DEF Live
  <2>9. \A s \in Ref : Status(s)'.is \in Live => Status(s).is \in Live /\ Status(s).req = Status(s)'.req
    <3>1. ASSUME NEW s \in Ref \ {r}, Status(s)'.is \in Live
          PROVE  Status(s).is \in Live /\ Status(s).req = Status(s)'.req
      BY <2>1, <2>2, <3>1, KeepsLive
    <3> QED
      BY <2>8, <3>1
  <2> QED
    BY <2>7, <2>9, FewerTagged DEF B
<1>7. ASSUME NEW q \in Request, Contract!Post(q)
      PROVE  B
  <2> DEFINE r == q.ref
  <2>0. r \in Ref
    BY RequestAssumption
  <2>1. /\ Contract!Forward
        /\ Status(r)' = [is |-> IF q.delivery = "now" THEN "posted" ELSE "scheduled",
                         req |-> q, result |-> None]
    BY <1>7, PostGoes
  <2>2. PICK T \in Contract!Replaced(q, t) :
           \E D \in IF q.delivery = "now" THEN Contract!Displaced(Owner[r], T, t) ELSE {{}} :
              \A s \in Ref \ {r} : Leaves(s, T \cup D)
    BY <1>7, PostGoes
  <2>3. PICK D \in IF q.delivery = "now" THEN Contract!Displaced(Owner[r], T, t) ELSE {{}} :
              \A s \in Ref \ {r} : Leaves(s, T \cup D)
    BY <2>2
  <2> HIDE DEF r
  <2>4. ASSUME NEW s \in Ref \ {r}, Status(s)'.is \in Live
        PROVE  /\ s \notin T
               /\ Status(s)' = Status(s) /\ Passing(s, t) = Status(s)
    BY <2>1, <2>3, <2>4, ForwardIs, LeavesLive
  <2>5. InBounds'
    <3>1. CASE q.delivery = "now"
      <4>1. D \in Contract!Displaced(Owner[r], T, t)
        BY <3>1
      <4> QED
        BY <2>0, <2>1, <2>3, <4>1, Arrival
    <3>2. CASE q.delivery # "now"
      <4>1. Status(r)'.is # "posted"
        BY <2>1, <3>2
      <4>2. \A s \in Ref : Status(s)'.is = "posted" => Status(s).is = "posted"
        BY <2>4, <4>1 DEF Live
      <4> QED
        BY <4>2, FewerSeen
    <3> QED
      BY <3>1, <3>2
  <2>6. ASSUME NEW s \in Ref \ {r}, Status(s)'.is \in Live, Owner[s] = Owner[r], q.tag # None
        PROVE  Status(s)'.req.tag # q.tag
    <3>1. ASSUME Status(s)'.req.tag = q.tag
          PROVE  FALSE
      <4>1. s \notin T /\ Status(s)' = Status(s) /\ Passing(s, t) = Status(s)
        BY <2>4, <2>6
      <4>2. Status(s).is \in Live /\ Status(s).req.tag = q.tag
        BY <2>6, <3>1, <4>1
      <4>3. s \in T
        BY <2>6, <4>1, <4>2, ReplacedIs DEF r
      <4> QED
        BY <4>1, <4>3
    <3> QED
      BY <3>1
  <2>7. Status(r)'.req = q
    BY <2>1
  <2>8. Alone'
    <3>1. ASSUME NEW x \in Ref, NEW y \in Ref,
                 Status(x)'.is \in Live, Status(y)'.is \in Live, Owner[x] = Owner[y],
                 Status(x)'.req.tag = Status(y)'.req.tag, Status(x)'.req.tag # None
          PROVE  x = y
      <4>1. CASE x # r /\ y # r
        BY <2>4, <3>1, <4>1 DEF Alone
      <4>2. CASE x = r /\ y # r
        BY <2>6, <2>7, <3>1, <4>2
      <4>3. CASE x # r /\ y = r
        BY <2>6, <2>7, <3>1, <4>3
      <4> QED
        BY <4>1, <4>2, <4>3
    <3> QED
      BY <3>1 DEF Alone
  <2> QED
    BY <2>5, <2>8 DEF B
<1>8. ASSUME NEW r \in Ref, Contract!Silence(Owner[r])
      PROVE  B
  BY <1>1, <1>8, SilenceLeaves
<1>9. ASSUME Contract!Age
      PROVE  B
  BY <1>1, <1>9, AgeLeaves
<1>10. Contract!Ended = Ended
  BY DEF Contract!Ended, Ended
<1>11. \/ Contract!Age
       \/ \E q \in Request : Contract!Post(q)
       \/ \E x \in Ref : Contract!Deliver(x) \/ Contract!Acknowledge(x)
       \/ \E x \in Ref, to \in Ended, action \in Action \cup {None} : Contract!Finish(x, to, action)
       \/ \E x \in Ref : Contract!Silence(Owner[x])
  BY <1>10 DEF Contract!Next
<1>12. B
  <2>1. CASE \E q \in Request : Contract!Post(q)
    BY <1>7, <2>1
  <2>2. CASE \E x \in Ref : Contract!Deliver(x) \/ Contract!Acknowledge(x)
    BY <1>5, <1>6, <2>2
  <2>3. CASE \E x \in Ref, to \in Ended, action \in Action \cup {None} : Contract!Finish(x, to, action)
    BY <1>4, <2>3
  <2>4. CASE \E x \in Ref : Contract!Silence(Owner[x])
    BY <1>8, <2>4
  <2> QED
    BY <1>9, <1>11, <2>1, <2>2, <2>3, <2>4
<1> QED
  BY <1>12 DEF B

LEMMA BoundsInit == Contract!Init => InBounds /\ Alone
<1> SUFFICES ASSUME Contract!Init
             PROVE  InBounds /\ Alone
  OBVIOUS
<1>1. \A r \in Ref : Status(r).is = "unknown"
  BY DEF Contract!Init, Contract!Unknown
<1>2. \A p : Seen(p) = {}
  BY <1>1 DEF Seen
<1>3. IsFiniteSet({}) /\ Cardinality({}) = 0 /\ MaxLive \in Nat
  BY FS_EmptySet, BoundAssumption
<1> QED
  BY <1>1, <1>2, <1>3 DEF InBounds, Alone, Live

LEMMA ContractBounded == Contract!Spec => [](InBounds /\ Alone)
<1>1. Contract!Init => InBounds /\ Alone
  BY BoundsInit
<1>2. FittingAll /\ (InBounds /\ Alone) /\ [Contract!Next]_(Contract!vars) => (InBounds /\ Alone)'
  <2>1. ASSUME InBounds, Alone, UNCHANGED Contract!vars PROVE InBounds' /\ Alone'
    <3>1. \A r \in Ref : Status(r)' = Status(r)
      BY <2>1, SameContract
    <3> QED
      BY <2>1, <3>1, FewerSeen, FewerTagged
  <2> QED
    BY <2>1, BoundsNext
<1> QED
  BY <1>1, <1>2, ContractFitting, PTL DEF Contract!Spec

LEMMA SameFiniteness ==
    ASSUME NEW S
    PROVE  Contract!IsFiniteSet(S) <=> IsFiniteSet(S)
BY DEF Contract!IsFiniteSet, IsFiniteSet

(* No program has more shown at once than it may, and no two of its live       *)
(* notifications have one tag.                                                 *)
THEOREM ContractWithinBounds == Spec => []Contract!WithinBounds
<1>1. InBounds /\ Alone => Contract!WithinBounds
  <2>1. \A r \in Ref : [x \in Ref |-> Status(x)][r] = Status(r)
    OBVIOUS
  <2>2. \A p : Contract!ShownOf(p) = Seen(p)
    BY <2>1 DEF Contract!ShownOf, Seen
  <2>3. Contract!Live = Live
    BY DEF Contract!Live, Live
  <2>4. InBounds => \A r \in Ref : /\ Contract!IsFiniteSet(Contract!ShownOf(Owner[r]))
                                   /\ Contract!Cardinality(Contract!ShownOf(Owner[r])) <= MaxLive
    BY <2>2, SameCardinality, SameFiniteness DEF InBounds
  <2> QED
    BY <2>1, <2>3, <2>4 DEF Alone, Contract!WithinBounds
<1> QED
  BY <1>1, ContractBounded, Implementation, PTL DEF ImplementsContract

=============================================================================
