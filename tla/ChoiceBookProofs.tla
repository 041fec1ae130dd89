-------------------------- MODULE ChoiceBookProofs --------------------------
(* Theorems about ChoiceBook, for every value of its constants.            *)
EXTENDS ChoiceBook, FiniteSetTheorems, TLAPS

Files == [choices : [Ref -> Admission], floor : Int, answers : SUBSET AuditEntry, since : Int]

(* One admission: which fields its state fills, and the time an expiry rests *)
(* on.                                                                       *)
GoodRecord(r, a, t) ==
    /\ a.state = "absent" => a = Absent
    /\ a.state # "absent" => a.req \in Request /\ a.req.ref = r /\ a.id = 1
    /\ a.state \in {"pending", "expired"} => a.answer = None
    /\ a.state = "expired" => t >= a.req.pendingUntil
    /\ a.state \in Decided \cup {"gone"} => a.answer \in Answers

GoodFile(f) ==
    /\ f \in Files
    /\ \A r \in Ref : GoodRecord(r, f.choices[r], f.floor)

(* What collection may make of an admission by time t. *)
AgesTo(r, a, b, t) ==
    \/ b = a
    \/ b = Absent /\ t >= ReplayUntil[r]
    \/ /\ a.state = "pending"
       /\ b = [a EXCEPT !.state = "expired"]
       /\ t >= a.req.pendingUntil

Ages(f, g) ==
    /\ f.floor <= g.floor
    /\ \A r \in Ref : AgesTo(r, f.choices[r], g.choices[r], g.floor)

(* The admission, decision or acknowledgement one call may make at time t. *)
Admits(r, a, b, t) ==
    /\ a = Absent
    /\ 0 < t /\ ReplayUntil[r] - t <= MaxReplay
    /\ \E q \in Request, n \in Nat :
          /\ q.ref = r /\ t < q.pendingUntil
          /\ b = [state |-> "pending", id |-> n, req |-> q, asked |-> t,
                  answer |-> None, route |-> None]

Decides(r, a, b, t) ==
    /\ a.state = "pending" /\ t < a.req.pendingUntil
    /\ \E option \in a.req.options \cup {None}, by \in Program, route \in Routes :
          /\ route = "responder" => option \in a.req.shared
          /\ b = [a EXCEPT !.state = IF option = None THEN "dismissed" ELSE "answered",
                           !.answer = [option |-> option, at |-> t, by |-> by],
                           !.route = route]

Acknowledges(r, a, b, t) ==
    /\ a.state \in Decided
    /\ b = [a EXCEPT !.state = "gone", !.asked = 0, !.route = None]

-----------------------------------------------------------------------------
(* The helpers. *)

(* A reading of the effective clock is never behind the floor (choiceTime). *)
LEMMA ReadingsAhead ==
    ASSUME NEW f, f.floor \in Int, NEW now \in Readings(f)
    PROVE  now \in Int /\ now >= f.floor
BY ClockAssumption DEF Readings, Later

(* noteChoiceTime keeps everything else. *)
LEMMA NotedFacts ==
    ASSUME NEW f \in Files, NEW now \in Int
    PROVE  /\ Noted(f, now) \in Files
           /\ Noted(f, now).choices = f.choices
           /\ Noted(f, now).answers = f.answers
           /\ Noted(f, now).since = f.since
           /\ Noted(f, now).floor >= f.floor
           /\ Noted(f, now).floor >= now
           /\ now >= f.floor => Noted(f, now).floor = now
BY DEF Noted, Files, Later

LEMMA AbsentType == Absent \in Admission
BY DEF Absent, Admission

(* collectChoices leaves an admission, ages it, or drops it. *)
LEMMA AgedFacts ==
    ASSUME NEW r \in Ref, NEW a \in Admission, NEW now \in Int
    PROVE  /\ Aged(r, a, now) \in Admission
           /\ AgesTo(r, a, Aged(r, a, now), now)
BY AbsentType DEF Aged, AgesTo, Admission

LEMMA CollectedFacts ==
    ASSUME NEW f \in Files, NEW now \in Int
    PROVE  /\ Collected(f, now) \in Files
           /\ Collected(f, now).floor = f.floor
           /\ Collected(f, now).choices = [r \in Ref |-> Aged(r, f.choices[r], now)]
           /\ Collected(f, now).answers = {d \in f.answers : now - d.at < Retention}
           /\ Collected(f, now).since = IF now - f.since >= Retention THEN 0 ELSE f.since
<1> DEFINE g == [f EXCEPT !.choices = [r \in Ref |-> Aged(r, f.choices[r], now)]]
<1>1. \A r \in Ref : Aged(r, f.choices[r], now) \in Admission
  BY AgedFacts DEF Files
<1>2. g \in Files /\ g.floor = f.floor /\ g.answers = f.answers /\ g.since = f.since
      /\ g.choices = [r \in Ref |-> Aged(r, f.choices[r], now)]
  BY <1>1 DEF Files
<1>3. Collected(f, now) = CollectAnswers(g, now)
  BY DEF Collected
<1> HIDE DEF g
<1> DEFINE kept == {d \in g.answers : now - d.at < Retention}
           since == IF now - g.since >= Retention THEN 0 ELSE g.since
<1>4. Collected(f, now) = [g EXCEPT !.answers = kept, !.since = since]
  BY <1>3 DEF CollectAnswers
<1>5. kept \in SUBSET AuditEntry /\ since \in Int
  BY <1>2 DEF Files
<1>6. kept = {d \in f.answers : now - d.at < Retention}
      /\ since = IF now - f.since >= Retention THEN 0 ELSE f.since
  BY <1>2
<1> HIDE DEF kept, since
<1> QED
  BY <1>2, <1>4, <1>5, <1>6 DEF Files

(* The prologue of an edit ages the file, to a time it commits when the      *)
(* ageing changed anything.                                                  *)
LEMMA OpenedFacts ==
    ASSUME NEW f \in Files, NEW now \in Int, now >= f.floor, NEW other \in BOOLEAN
    PROVE  /\ Opened(f, now, other) \in Files
           /\ Ages(f, Opened(f, now, other))
           /\ Opened(f, now, other).answers = {d \in f.answers : now - d.at < Retention}
           /\ Opened(f, now, other).since = IF now - f.since >= Retention THEN 0 ELSE f.since
<1> DEFINE g == Collected(f, now)
<1>1. g \in Files /\ g.floor = f.floor
      /\ g.choices = [r \in Ref |-> Aged(r, f.choices[r], now)]
      /\ g.answers = {d \in f.answers : now - d.at < Retention}
      /\ g.since = IF now - f.since >= Retention THEN 0 ELSE f.since
  BY CollectedFacts
<1>2. \A r \in Ref : AgesTo(r, f.choices[r], g.choices[r], now)
  BY <1>1, AgedFacts DEF Files
<1>3. CASE f.floor = 0 \/ other \/ g.choices # f.choices
  <2>1. Opened(f, now, other) = Noted(g, now)
    BY <1>3 DEF Opened
  <2> HIDE DEF g
  <2>2. /\ Noted(g, now) \in Files /\ Noted(g, now).choices = g.choices
        /\ Noted(g, now).floor = now /\ Noted(g, now).answers = g.answers
        /\ Noted(g, now).since = g.since
    BY <1>1, NotedFacts
  <2> QED
    BY <1>1, <1>2, <2>1, <2>2 DEF Ages
<1>4. CASE ~(f.floor = 0 \/ other \/ g.choices # f.choices)
  <2>1. Opened(f, now, other) = g /\ g.choices = f.choices
    BY <1>4 DEF Opened
  <2> HIDE DEF g
  <2> QED
    BY <1>1, <2>1 DEF Ages, AgesTo, Files
<1> QED
  BY <1>3, <1>4

(* A file that aged is a file of the same shape. *)
LEMMA AgesGood ==
    ASSUME NEW f, GoodFile(f), NEW g \in Files, Ages(f, g)
    PROVE  GoodFile(g)
<1> SUFFICES ASSUME NEW r \in Ref
             PROVE  GoodRecord(r, g.choices[r], g.floor)
  BY DEF GoodFile
<1> DEFINE a == f.choices[r]
           b == g.choices[r]
<1>1. a \in Admission /\ GoodRecord(r, a, f.floor) /\ AgesTo(r, a, b, g.floor)
      /\ f.floor \in Int /\ g.floor \in Int /\ f.floor <= g.floor
  BY DEF GoodFile, Files, Ages
<1> HIDE DEF a, b
<1>2. CASE b = a
  <2>1. a.state = "expired" => a.req.pendingUntil \in Int
    BY <1>1, RequestAssumption DEF GoodRecord
  <2> QED
    BY <1>1, <1>2, <2>1 DEF GoodRecord, b
<1>3. CASE b = Absent
  BY <1>3 DEF GoodRecord, Absent, Decided, b
<1>4. CASE a.state = "pending" /\ b = [a EXCEPT !.state = "expired"] /\ g.floor >= a.req.pendingUntil
  <2>1. b.state = "expired" /\ b.req = a.req /\ b.id = a.id /\ b.answer = a.answer
    BY <1>1, <1>4 DEF Admission
  <2> QED
    BY <1>1, <1>4, <2>1 DEF GoodRecord, Decided, b
<1> QED
  BY <1>1, <1>2, <1>3, <1>4 DEF AgesTo

LEMMA AgesTransitive ==
    ASSUME NEW f, GoodFile(f), NEW g \in Files, Ages(f, g), NEW h \in Files, Ages(g, h)
    PROVE  Ages(f, h)
<1>1. f.floor \in Int /\ g.floor \in Int /\ h.floor \in Int /\ f.floor <= g.floor /\ g.floor <= h.floor
  BY DEF GoodFile, Files, Ages
<1> SUFFICES ASSUME NEW r \in Ref
             PROVE  AgesTo(r, f.choices[r], h.choices[r], h.floor)
  BY <1>1 DEF Ages
<1> DEFINE a == f.choices[r]
           b == g.choices[r]
           c == h.choices[r]
<1>2. /\ a \in Admission /\ GoodRecord(r, a, f.floor)
      /\ AgesTo(r, a, b, g.floor) /\ AgesTo(r, b, c, h.floor)
  BY DEF GoodFile, Files, Ages
<1>3. ReplayUntil[r] \in Int /\ (a.state = "pending" => a.req.pendingUntil \in Int)
  BY <1>2, ReferenceAssumption, RequestAssumption DEF GoodRecord
<1> HIDE DEF a, b, c
<1>4. CASE b = a
  BY <1>2, <1>4 DEF AgesTo, a, c
<1>5. CASE b = Absent /\ g.floor >= ReplayUntil[r]
  BY <1>1, <1>2, <1>3, <1>5 DEF AgesTo, Absent, a, c
<1>6. CASE a.state = "pending" /\ b = [a EXCEPT !.state = "expired"] /\ g.floor >= a.req.pendingUntil
  <2>1. b.state = "expired"
    BY <1>2, <1>6 DEF Admission
  <2> QED
    BY <1>1, <1>2, <1>3, <1>6, <2>1 DEF AgesTo, a, c
<1> QED
  BY <1>2, <1>4, <1>5, <1>6 DEF AgesTo

LEMMA AgesNoted ==
    ASSUME NEW f, GoodFile(f), NEW g \in Files, Ages(f, g), NEW now \in Int
    PROVE  GoodFile(g) /\ GoodFile(Noted(g, now)) /\ Ages(f, Noted(g, now))
<1>1. Noted(g, now) \in Files /\ Noted(g, now).choices = g.choices /\ g.floor <= Noted(g, now).floor
  BY NotedFacts
<1>2. Ages(g, Noted(g, now))
  BY <1>1 DEF Ages, AgesTo
<1> QED
  BY <1>1, <1>2, AgesGood, AgesTransitive

(* What an edit may start from: the file, aged. *)
LEMMA OpeningFacts ==
    ASSUME NEW f, GoodFile(f), NEW e \in Openings(f)
    PROVE  GoodFile(e.book) /\ Ages(f, e.book) /\ e.at \in Int /\ e.at >= f.floor
<1>1. PICK now \in Readings(f), other \in BOOLEAN : e = [book |-> Opened(f, now, other), at |-> now]
  BY DEF Openings
<1>2. now \in Int /\ now >= f.floor
  BY ReadingsAhead DEF GoodFile, Files
<1>3. Opened(f, now, other) \in Files /\ Ages(f, Opened(f, now, other))
  BY <1>2, OpenedFacts DEF GoodFile
<1> QED
  BY <1>1, <1>2, <1>3, AgesGood

(* What readChoices answers from: the file as it is, or aged and kept. *)
LEMMA AfterReadFacts ==
    ASSUME NEW f, GoodFile(f), horizon \in Int, NEW p \in AfterRead(f)
    PROVE  GoodFile(p.book) /\ Ages(f, p.book) /\ p.at \in Int
<1>1. CASE p = [book |-> f, at |-> horizon]
  BY <1>1 DEF Ages, AgesTo, GoodFile, Files
<1>2. CASE \E e \in Openings(f), now \in Readings(f) : p = [book |-> Noted(e.book, now), at |-> e.at]
  <2>1. PICK e \in Openings(f), now \in Readings(f) : p = [book |-> Noted(e.book, now), at |-> e.at]
    BY <1>2
  <2>2. now \in Int
    BY ReadingsAhead DEF GoodFile, Files
  <2>3. GoodFile(e.book) /\ Ages(f, e.book) /\ e.at \in Int
    BY OpeningFacts
  <2> QED
    BY <2>1, <2>2, <2>3, AgesNoted DEF GoodFile
<1> QED
  BY <1>1, <1>2 DEF AfterRead

(* recordAnswer touches only the audit. *)
LEMMA AuditedFacts ==
    ASSUME NEW f \in Files, NEW d \in AuditEntry, NEW h \in Audited(f, d)
    PROVE  h \in Files /\ h.choices = f.choices /\ h.floor = f.floor
<1>1. CASE h = f
  BY <1>1
<1>2. CASE \E E \in Evictions(f.answers) : \E s \in Watermarks(f, E) :
             h = [f EXCEPT !.answers = (@ \ E) \cup {d}, !.since = s]
  <2>0. PICK E \in Evictions(f.answers) : \E s \in Watermarks(f, E) :
             h = [f EXCEPT !.answers = (@ \ E) \cup {d}, !.since = s]
    BY <1>2
  <2>1. PICK s \in Watermarks(f, E) : h = [f EXCEPT !.answers = (@ \ E) \cup {d}, !.since = s]
    BY <2>0
  <2>2. E \subseteq f.answers
    BY DEF Evictions
  <2>3. s \in Int
    BY <2>2 DEF Watermarks, Files, AuditEntry
  <2>4. (f.answers \ E) \cup {d} \in SUBSET AuditEntry
    BY DEF Files
  <2> QED
    BY <2>1, <2>3, <2>4 DEF Files
<1> QED
  BY <1>1, <1>2 DEF Audited

(* Writing one admission at time now. *)
LEMMA WriteFacts ==
    ASSUME NEW f \in Files, NEW r \in Ref, NEW b \in Admission, NEW now \in Int, now >= f.floor
    PROVE  LET h == Noted([f EXCEPT !.choices[r] = b], now) IN
           /\ h \in Files
           /\ h.choices = [f.choices EXCEPT ![r] = b]
           /\ h.choices[r] = b
           /\ h.floor = now
           /\ h.answers = f.answers
           /\ h.since = f.since
<1> DEFINE u == [f EXCEPT !.choices[r] = b]
<1>1. /\ u \in Files /\ u.floor = f.floor /\ u.answers = f.answers /\ u.since = f.since
      /\ u.choices = [f.choices EXCEPT ![r] = b] /\ u.choices[r] = b
  BY DEF Files
<1> HIDE DEF u
<1>2. /\ Noted(u, now) \in Files /\ Noted(u, now).choices = u.choices
      /\ Noted(u, now).answers = u.answers /\ Noted(u, now).since = u.since
      /\ Noted(u, now).floor = now
  BY <1>1, NotedFacts
<1> QED
  BY <1>1, <1>2 DEF u

(* A terminal state is an outcome. *)
LEMMA TerminalType ==
    ASSUME NEW a \in Admission
    PROVE  Terminal(a) \subseteq Report
BY DEF Terminal, Admission, Outcome, Report, Decided, Expired, Gone

-----------------------------------------------------------------------------
(* The inductive invariant.  TypeOK is not inductive alone: ageing compares  *)
(* a deadline that only a retained request has, and a reference is admitted  *)
(* once because the floor has passed the replay deadline of every one that   *)
(* was dropped.                                                              *)

Occurrence(r) ==
    /\ admitted[r] \in {0, 1}
    /\ file.choices[r] # Absent => admitted[r] = 1
    /\ admitted[r] = 1 /\ file.choices[r] = Absent => file.floor >= ReplayUntil[r]

Types(t, d, h) ==
    /\ t \in [Ref -> SUBSET Report]
    /\ d \subseteq AuditEntry
    /\ h \in Int

IInv ==
    /\ GoodFile(file)
    /\ admitted \in [Ref -> Nat]
    /\ Types(told, recorded, horizon)
    /\ \A r \in Ref : Occurrence(r)

(* The references that have an admission. *)
Held(f) == {r \in Ref : f.choices[r] # Absent}

(* The shape of every step: all references age, and at most one of them, g's *)
(* r, moves at the new floor, which its replay deadline has not reached.     *)
Moves(r, g) ==
    /\ GoodFile(g)
    /\ Ages(file, g)
    /\ file'.floor = g.floor
    /\ file'.floor < ReplayUntil[r]
    /\ file'.choices = [g.choices EXCEPT ![r] = file'.choices[r]]
    /\ \/ /\ Admits(r, g.choices[r], file'.choices[r], file'.floor)
          /\ Cardinality(Held(g)) < MaxAdmissions
          /\ file'.choices[r].id = admitted[r] + 1
          /\ admitted' = [admitted EXCEPT ![r] = @ + 1]
       \/ /\ Decides(r, g.choices[r], file'.choices[r], file'.floor)
          /\ admitted' = admitted
       \/ /\ Acknowledges(r, g.choices[r], file'.choices[r], file'.floor)
          /\ admitted' = admitted

Shape ==
    /\ file' \in Files
    /\ Types(told', recorded', horizon')
    /\ \/ Ages(file, file') /\ admitted' = admitted
       \/ \E r \in Ref, g \in Files : Moves(r, g)

LEMMA CommitTypes ==
    ASSUME IInv, NEW e, e.at \in Int, NEW g, Commit(e, g)
    PROVE  file' = g /\ horizon' \in Int /\ horizon' >= horizon
BY DEF Commit, Later, IInv, Types

LEMMA TellTypes ==
    ASSUME IInv, NEW r \in Ref, NEW o \in SUBSET Report, Tell(r, o)
    PROVE  told' \in [Ref -> SUBSET Report]
BY DEF Tell, IInv, Types

LEMMA ExpiredType ==
    /\ Expired \in Report /\ Gone \in Report
    /\ \A q \in Request : Lapsed(q) \in Report
BY DEF Expired, Gone, Outcome, Lapsed, Lapse, Report

LEMMA AskShape ==
    ASSUME IInv, NEW q \in Request, AskChoice(q)
    PROVE  Shape
<1> DEFINE r == q.ref
<1>1. PICK e \in Openings(file) : \E now \in Readings(e.book) : AskAt(q, e, now)
  BY DEF AskChoice
<1>2. PICK now \in Readings(e.book) : AskAt(q, e, now)
  BY <1>1
<1> DEFINE f == e.book
           a == f.choices[r]
<1>3. GoodFile(f) /\ f \in Files /\ Ages(file, f) /\ e.at \in Int /\ f.floor \in Int
  BY OpeningFacts DEF IInv, GoodFile, Files
<1>4. now \in Int /\ now >= f.floor
  BY <1>3, ReadingsAhead
<1>5. GoodFile(Noted(f, now)) /\ Noted(f, now) \in Files /\ Ages(file, Noted(f, now))
  BY <1>3, <1>4, AgesNoted DEF IInv, GoodFile
<1>6. r \in Ref /\ a \in Admission
  BY <1>3, RequestAssumption DEF Files
<1>7. /\ Types(told, recorded, horizon)
      /\ admitted \in [Ref -> Nat]
      /\ Terminal(a) \subseteq Report /\ {Expired} \subseteq Report /\ {Lapsed(q)} \subseteq Report
  BY <1>6, TerminalType, ExpiredType DEF IInv
<1>8. recorded' = recorded
  BY <1>2 DEF AskAt
<1>9. CASE /\ Commit(e, Noted(f, now))
           /\ Tell(r, {Expired}) \/ Tell(r, {Lapsed(q)})
           /\ admitted' = admitted
  <2>1. file' = Noted(f, now) /\ horizon' \in Int
    BY <1>3, <1>9, CommitTypes
  <2>2. told' \in [Ref -> SUBSET Report]
    BY <1>6, <1>7, <1>9, TellTypes DEF Types
  <2> QED
    BY <1>5, <1>7, <1>8, <1>9, <2>1, <2>2 DEF Shape, Types
<1>10. CASE /\ Commit(e, f)
            /\ Tell(r, IF a.req = q THEN Terminal(a) ELSE {}) \/ told' = told
            /\ admitted' = admitted
  <2>1. file' = f /\ horizon' \in Int
    BY <1>3, <1>10, CommitTypes
  <2>2. told' \in [Ref -> SUBSET Report]
    BY <1>6, <1>7, <1>10, TellTypes DEF Types
  <2> QED
    BY <1>3, <1>7, <1>8, <1>10, <2>1, <2>2 DEF Shape, Types
<1> DEFINE b == [state |-> "pending", id |-> admitted[r] + 1, req |-> q, asked |-> now,
                 answer |-> None, route |-> None]
           h == Noted([f EXCEPT !.choices[r] = b], now)
<1>11. CASE /\ a = Absent
            /\ now < q.pendingUntil
            /\ 0 < now /\ ReplayUntil[r] - now <= MaxReplay
            /\ Cardinality(Held(f)) < MaxAdmissions
            /\ Commit(e, h)
            /\ admitted' = [admitted EXCEPT ![r] = @ + 1]
            /\ told' = told
  <2>1. b \in Admission
    BY <1>4, <1>6, <1>7 DEF Admission
  <2>2. h \in Files /\ h.choices = [f.choices EXCEPT ![r] = b] /\ h.choices[r] = b /\ h.floor = now
    <3> HIDE DEF b
    <3> QED
      BY <1>3, <1>4, <1>6, <2>1, WriteFacts
  <2>3. file' = h /\ horizon' \in Int
    BY <1>3, <1>11, CommitTypes
  <2> DEFINE g == Noted(f, now)
  <2>4. g.choices = f.choices /\ g.floor = now
    BY <1>3, <1>4, NotedFacts
  <2>5. now < ReplayUntil[r]
    BY <1>4, <1>6, <1>11, RequestAssumption, ReferenceAssumption
  <2>6. Admits(r, a, b, now)
    <3> SUFFICES \E x \in Request, m \in Nat :
                    /\ x.ref = r /\ now < x.pendingUntil
                    /\ b = [state |-> "pending", id |-> m, req |-> x, asked |-> now,
                            answer |-> None, route |-> None]
      BY <1>11 DEF Admits
    <3>1. admitted[r] + 1 \in Nat
      BY <1>6, <1>7
    <3> WITNESS q \in Request, admitted[r] + 1 \in Nat
    <3> QED
      BY <1>11
  <2>7. b.id = admitted[r] + 1
    OBVIOUS
  <2> HIDE DEF b, h, g
  <2>8. Moves(r, g)
    BY <1>5, <1>11, <2>2, <2>3, <2>4, <2>5, <2>6, <2>7 DEF Moves, Held, g
  <2> QED
    BY <1>5, <1>6, <1>7, <1>8, <1>11, <2>2, <2>3, <2>8 DEF Shape, Types, g
<1> QED
  BY <1>2, <1>9, <1>10, <1>11 DEF AskAt, Held

(* Committing an aged file, whatever its audit and whoever is told, is a step *)
(* of that shape.                                                            *)
LEMMA AgedShape ==
    ASSUME IInv, NEW g \in Files, Ages(file, g),
           file' \in Files, file'.choices = g.choices, file'.floor = g.floor,
           horizon' \in Int, told' \in [Ref -> SUBSET Report], recorded' \subseteq AuditEntry,
           admitted' = admitted
    PROVE  Shape
BY DEF Shape, Types, Ages

LEMMA DecideShape ==
    ASSUME IInv, NEW route \in Routes, NEW r \in Ref, NEW n,
           NEW option \in Option \cup {None}, NEW by \in Program, NEW ifPending,
           Decide(route, r, n, option, by, ifPending)
    PROVE  Shape
<1>1. PICK e \in Openings(file) : \E now \in Readings(e.book) :
              DecideAt(route, r, n, option, by, ifPending, e, now)
  BY DEF Decide
<1>2. PICK now \in Readings(e.book) : DecideAt(route, r, n, option, by, ifPending, e, now)
  BY <1>1
<1> DEFINE f == e.book
           a == f.choices[r]
           d == [option |-> option, at |-> now, by |-> by]
           b == [a EXCEPT !.state = IF option = None THEN "dismissed" ELSE "answered",
                          !.answer = d, !.route = route]
           x == [a EXCEPT !.state = "expired"]
           g == Noted([f EXCEPT !.choices[r] = b], now)
           entry == [id |-> <<r, a.id>>, at |-> now]
<1>3. GoodFile(f) /\ f \in Files /\ Ages(file, f) /\ e.at \in Int /\ f.floor \in Int
  BY OpeningFacts DEF IInv, GoodFile, Files
<1>4. now \in Int /\ now >= f.floor
  BY <1>3, ReadingsAhead
<1>5. GoodFile(Noted(f, now)) /\ Noted(f, now) \in Files /\ Ages(file, Noted(f, now))
      /\ Noted(f, now).choices = f.choices /\ Noted(f, now).floor = now
  BY <1>3, <1>4, AgesNoted, NotedFacts DEF IInv, GoodFile
<1>6. a \in Admission /\ GoodRecord(r, a, f.floor)
  BY <1>3 DEF GoodFile, Files
<1>7. /\ Types(told, recorded, horizon)
      /\ Terminal(a) \subseteq Report /\ {Expired} \subseteq Report /\ {Gone} \subseteq Report
  BY <1>6, TerminalType, ExpiredType DEF IInv
<1>8. admitted' = admitted
  BY <1>2 DEF DecideAt
<1>9. d \in Answers
  BY <1>4 DEF Answers
<1>10. b \in Admission /\ x \in Admission /\ entry \in AuditEntry
  BY <1>4, <1>6, <1>9 DEF Admission, AuditEntry, AnswerID
<1>11. CASE /\ \/ Commit(e, f)
               \/ Commit(e, Noted(f, now))
            /\ \E o \in SUBSET Report : Tell(r, o) \/ told' = told
            /\ recorded' = recorded
  <2>1. file' \in {f, Noted(f, now)} /\ horizon' \in Int
    BY <1>3, <1>11, CommitTypes
  <2>2. told' \in [Ref -> SUBSET Report]
    BY <1>7, <1>11, TellTypes DEF Types
  <2> QED
    BY <1>3, <1>5, <1>7, <1>8, <1>11, <2>1, <2>2, AgedShape DEF Types
<1>12. CASE /\ PastPending(a, now)
            /\ Commit(e, Noted([f EXCEPT !.choices[r] = [@ EXCEPT !.state = "expired"]], now))
            /\ Tell(r, {Expired})
            /\ recorded' = recorded
  <2> DEFINE h == Noted([f EXCEPT !.choices[r] = x], now)
  <2>1. h = Noted([f EXCEPT !.choices[r] = [@ EXCEPT !.state = "expired"]], now)
    BY <1>3 DEF Files
  <2>2. h \in Files /\ h.choices = [f.choices EXCEPT ![r] = x] /\ h.floor = now
    <3> HIDE DEF x
    <3> QED
      BY <1>3, <1>4, <1>10, WriteFacts
  <2> HIDE DEF h
  <2>3. file' = h /\ horizon' \in Int
    BY <1>3, <1>12, <2>1, CommitTypes
  <2>4. AgesTo(r, a, x, now)
    <3>1. a.state = "expired" => x = a
      BY <1>6 DEF Admission
    <3> QED
      BY <1>12, <3>1 DEF AgesTo, PastPending
  <2>5. Ages(f, h)
    <3> HIDE DEF x, a
    <3>1. h.choices[r] = x /\ \A y \in Ref : y # r => h.choices[y] = f.choices[y]
      BY <1>3, <2>2 DEF Files
    <3> QED
      BY <1>4, <2>2, <2>4, <3>1 DEF Ages, AgesTo, a
  <2>6. Ages(file, h)
    BY <1>3, <2>2, <2>5, AgesTransitive DEF IInv
  <2>7. told' \in [Ref -> SUBSET Report]
    BY <1>7, <1>12, TellTypes
  <2> QED
    BY <1>7, <1>8, <1>12, <2>2, <2>3, <2>6, <2>7, AgedShape DEF Types
<1>13. CASE /\ a.state = "pending" /\ ~PastPending(a, now) /\ now < ReplayUntil[r]
            /\ option \in IF route = "responder" THEN a.req.shared ELSE a.req.options \cup {None}
            /\ Tell(r, Terminal(g.choices[r]))
            /\ \/ Commit(e, g) /\ recorded' = recorded
               \/ /\ \E h \in Audited(g, entry) : Commit(e, h)
                  /\ recorded' = recorded \cup {entry}
  <2>1. g \in Files /\ g.choices = [f.choices EXCEPT ![r] = b] /\ g.choices[r] = b /\ g.floor = now
    <3> HIDE DEF b
    <3> QED
      BY <1>3, <1>4, <1>10, WriteFacts
  <2>2. a.req \in Request /\ a.req.pendingUntil \in Int /\ a.req.shared \subseteq a.req.options
    BY <1>6, <1>13, RequestAssumption DEF GoodRecord
  <2>3. Decides(r, a, b, now)
    <3>0. a.state = "pending" /\ now < a.req.pendingUntil
      BY <1>4, <1>13, <2>2 DEF PastPending
    <3> SUFFICES \E p \in a.req.options \cup {None}, y \in Program, z \in Routes :
                    /\ z = "responder" => p \in a.req.shared
                    /\ b = [a EXCEPT !.state = IF p = None THEN "dismissed" ELSE "answered",
                                     !.answer = [option |-> p, at |-> now, by |-> y],
                                     !.route = z]
      BY <3>0, Zenon DEF Decides
    <3>1. option \in a.req.options \cup {None}
      BY <1>13, <2>2
    <3>2. route = "responder" => option \in a.req.shared
      BY <1>13
    <3> HIDE DEF a
    <3> WITNESS option \in a.req.options \cup {None}, by \in Program, route \in Routes
    <3> QED
      BY <3>2
  <2> HIDE DEF g, entry
  <2>4. /\ file' \in Files /\ file'.choices = g.choices /\ file'.floor = now /\ horizon' \in Int
        /\ recorded' \subseteq AuditEntry
    <3>1. CASE Commit(e, g) /\ recorded' = recorded
      BY <1>3, <1>7, <2>1, <3>1, CommitTypes DEF Types
    <3>2. CASE /\ \E h \in Audited(g, entry) : Commit(e, h)
               /\ recorded' = recorded \cup {entry}
      <4>1. PICK h \in Audited(g, entry) : Commit(e, h)
        BY <3>2
      <4>2. h \in Files /\ h.choices = g.choices /\ h.floor = g.floor
        BY <1>10, <2>1, AuditedFacts
      <4> QED
        BY <1>3, <1>7, <1>10, <2>1, <3>2, <4>1, <4>2, CommitTypes DEF Types
    <3> QED
      BY <1>13, <3>1, <3>2
  <2>5. told' \in [Ref -> SUBSET Report]
    <3> HIDE DEF b
    <3> QED
      BY <1>7, <1>10, <1>13, <2>1, TellTypes, TerminalType
  <2> DEFINE k == Noted(f, now)
  <2>6. Moves(r, k)
    <3> HIDE DEF b
    <3> QED
      BY <1>5, <1>8, <1>13, <2>1, <2>3, <2>4 DEF Moves
  <2> QED
    BY <1>5, <1>8, <2>4, <2>5, <2>6 DEF Shape, Types
<1>14. \/ /\ Commit(e, f) \/ Commit(e, Noted(f, now))
          /\ \E o \in SUBSET Report : Tell(r, o) \/ told' = told
          /\ recorded' = recorded
       \/ /\ PastPending(a, now)
          /\ Commit(e, Noted([f EXCEPT !.choices[r] = [@ EXCEPT !.state = "expired"]], now))
          /\ Tell(r, {Expired})
          /\ recorded' = recorded
       \/ /\ a.state = "pending" /\ ~PastPending(a, now) /\ now < ReplayUntil[r]
          /\ option \in IF route = "responder" THEN a.req.shared ELSE a.req.options \cup {None}
          /\ Tell(r, Terminal(g.choices[r]))
          /\ \/ Commit(e, g) /\ recorded' = recorded
             \/ /\ \E h \in Audited(g, entry) : Commit(e, h)
                /\ recorded' = recorded \cup {entry}
  <2>1. g = Noted([f EXCEPT !.choices[r] =
                      [@ EXCEPT !.state = IF option = None THEN "dismissed" ELSE "answered",
                                !.answer = d, !.route = route]], now)
    BY <1>3 DEF Files
  <2> HIDE DEF g, b, x
  <2> QED
    BY <1>2, <1>7, <2>1 DEF DecideAt
<1> QED
  BY <1>11, <1>12, <1>13, <1>14

LEMMA TombstoneType ==
    ASSUME NEW a \in Admission
    PROVE  [a EXCEPT !.state = "gone", !.asked = 0, !.route = None] \in Admission
<1>1. \A t \in Int : [a EXCEPT !.state = "gone", !.asked = t, !.route = None] \in Admission
  BY DEF Admission
<1>2. 0 \in Int
  OBVIOUS
<1> QED
  BY <1>1, <1>2, Zenon

LEMMA AcknowledgeShape ==
    ASSUME IInv, NEW r \in Ref, AcknowledgeChoice(r)
    PROVE  Shape
<1>1. PICK e \in Openings(file) : \E now \in Readings(e.book) : AcknowledgeAt(r, e, now)
  BY DEF AcknowledgeChoice
<1>2. PICK now \in Readings(e.book) : AcknowledgeAt(r, e, now)
  BY <1>1
<1> DEFINE f == e.book
           a == f.choices[r]
           b == [a EXCEPT !.state = "gone", !.asked = 0, !.route = None]
           h == Noted([f EXCEPT !.choices[r] = b], now)
           k == Noted(f, now)
<1>3. GoodFile(f) /\ f \in Files /\ Ages(file, f) /\ e.at \in Int /\ f.floor \in Int
  BY OpeningFacts DEF IInv, GoodFile, Files
<1>4. now \in Int /\ now >= f.floor
  BY <1>3, ReadingsAhead
<1>5. GoodFile(k) /\ k \in Files /\ Ages(file, k) /\ k.choices = f.choices /\ k.floor = now
  BY <1>3, <1>4, AgesNoted, NotedFacts DEF IInv, GoodFile
<1>6. Types(told, recorded, horizon) /\ recorded' = recorded /\ admitted' = admitted
      /\ {Expired} \subseteq Report
  BY <1>2, ExpiredType DEF IInv, AcknowledgeAt
<1>7. CASE Commit(e, k) /\ Tell(r, {Expired})
  <2>1. file' = k /\ horizon' \in Int /\ told' \in [Ref -> SUBSET Report]
    BY <1>3, <1>6, <1>7, CommitTypes, TellTypes
  <2> QED
    BY <1>5, <1>6, <2>1, AgedShape DEF Types
<1>8. CASE Commit(e, f) /\ told' = told
  <2>1. file' = f /\ horizon' \in Int
    BY <1>3, <1>8, CommitTypes
  <2> QED
    BY <1>3, <1>6, <1>8, <2>1, AgedShape DEF Types
<1>9. CASE /\ now < ReplayUntil[r] /\ a.state \in Decided
           /\ Commit(e, h) /\ told' = told
  <2>0. a \in Admission
    BY <1>3 DEF Files
  <2>1. b \in Admission
    <3> HIDE DEF a
    <3> QED
      BY <2>0, TombstoneType
  <2>2. h \in Files /\ h.choices = [f.choices EXCEPT ![r] = b] /\ h.choices[r] = b /\ h.floor = now
    <3> HIDE DEF b
    <3> QED
      BY <1>3, <1>4, <2>1, WriteFacts
  <2>3. file' = h /\ horizon' \in Int
    BY <1>3, <1>9, CommitTypes
  <2>4. Acknowledges(r, a, b, now)
    BY <1>9 DEF Acknowledges
  <2> HIDE DEF b, h, k
  <2>5. Moves(r, k)
    BY <1>5, <1>6, <1>9, <2>2, <2>3, <2>4 DEF Moves
  <2> QED
    BY <1>5, <1>6, <1>9, <2>2, <2>3, <2>5 DEF Shape, Types
<1>10. h = Noted([f EXCEPT !.choices[r] =
                    [@ EXCEPT !.state = "gone", !.asked = 0, !.route = None]], now)
  BY <1>3 DEF Files
<1> HIDE DEF b, h
<1> QED
  BY <1>2, <1>7, <1>8, <1>9, <1>10 DEF AcknowledgeAt

LEMMA ObserveShape ==
    ASSUME IInv, NEW r \in Ref, ObserveChoice(r)
    PROVE  Shape
<1>1. PICK p \in AfterRead(file) : \E now \in Readings(p.book) : ObserveChoice(r)!(p)!(now)
  BY DEF ObserveChoice
<1>2. PICK now \in Readings(p.book) : ObserveChoice(r)!(p)!(now)
  BY <1>1
<1> DEFINE f == p.book
<1>3. GoodFile(f) /\ f \in Files /\ Ages(file, f) /\ p.at \in Int /\ f.floor \in Int
  BY AfterReadFacts DEF IInv, GoodFile, Files, Types
<1>4. now \in Int /\ now >= f.floor
  BY <1>3, ReadingsAhead
<1>5. Types(told, recorded, horizon) /\ recorded' = recorded /\ admitted' = admitted
      /\ {Expired} \subseteq Report
  BY <1>2, ExpiredType DEF IInv
<1>6. CASE Commit(p, f) /\ \E o \in SUBSET Report : Tell(r, o)
  <2>1. file' = f /\ horizon' \in Int /\ told' \in [Ref -> SUBSET Report]
    BY <1>3, <1>6, CommitTypes, TellTypes
  <2> QED
    BY <1>3, <1>5, <2>1, AgedShape DEF Types
<1>7. CASE /\ \E e \in Openings(f) : Commit([e EXCEPT !.at = Later(@, p.at)], Noted(e.book, now))
           /\ Tell(r, {Expired})
  <2>1. PICK e \in Openings(f) : Commit([e EXCEPT !.at = Later(@, p.at)], Noted(e.book, now))
    BY <1>7
  <2>2. GoodFile(e.book) /\ Ages(f, e.book) /\ e.at \in Int /\ e.book \in Files
    BY <1>3, OpeningFacts DEF GoodFile
  <2>3. Ages(file, e.book)
    BY <1>3, <2>2, AgesTransitive DEF IInv
  <2>4. Noted(e.book, now) \in Files /\ Ages(file, Noted(e.book, now))
    BY <1>4, <2>2, <2>3, AgesNoted DEF IInv, GoodFile
  <2> DEFINE w == [e EXCEPT !.at = Later(@, p.at)]
  <2>5. w.at \in Int
    <3>1. PICK t \in Readings(f), other \in BOOLEAN : e = [book |-> Opened(f, t, other), at |-> t]
      BY DEF Openings
    <3> QED
      BY <1>3, <2>2, <3>1 DEF Later
  <2> HIDE DEF w
  <2>6. file' = Noted(e.book, now) /\ horizon' \in Int /\ told' \in [Ref -> SUBSET Report]
    BY <1>5, <1>7, <2>1, <2>5, CommitTypes, TellTypes DEF w
  <2> QED
    BY <1>5, <2>4, <2>6, AgedShape DEF Types
<1>8. Terminal(View(f, r)) \subseteq Report
  <2>1. Collected(f, f.floor) \in Files
    BY <1>3, CollectedFacts
  <2>2. View(f, r) \in Admission
    BY <2>1 DEF View, AtFloor, Files
  <2> QED
    BY <2>2, TerminalType
<1> QED
  BY <1>2, <1>5, <1>6, <1>7, <1>8

LEMMA HistoryShape ==
    ASSUME IInv, ChoiceHistory
    PROVE  Shape
<1>1. PICK p \in AfterRead(file) :
         /\ Commit(p, p.book)
         /\ told' = [r \in Ref |-> told[r] \cup (Terminal(View(p.book, r)) \ {Gone})]
         /\ admitted' = admitted /\ recorded' = recorded
  BY DEF ChoiceHistory
<1> DEFINE f == p.book
<1>2. GoodFile(f) /\ f \in Files /\ Ages(file, f) /\ p.at \in Int /\ f.floor \in Int
  BY AfterReadFacts DEF IInv, GoodFile, Files, Types
<1>3. \A r \in Ref : Terminal(View(f, r)) \subseteq Report
  <2>1. Collected(f, f.floor) \in Files
    BY <1>2, CollectedFacts
  <2>2. \A r \in Ref : View(f, r) \in Admission
    BY <2>1 DEF View, AtFloor, Files
  <2> QED
    BY <2>2, TerminalType
<1>4. file' = f /\ horizon' \in Int
  BY <1>1, <1>2, CommitTypes
<1>5. told' \in [Ref -> SUBSET Report]
  BY <1>1, <1>3 DEF IInv, Types
<1> QED
  BY <1>1, <1>2, <1>4, <1>5, AgedShape DEF IInv, Types

LEMMA QuestionShape ==
    ASSUME IInv, NEW k \in Question, AnswerQuestion(k)
    PROVE  Shape
<1>1. PICK e \in Openings(file), now \in Int :
         /\ now >= e.book.floor
         /\ \E h \in Audited(Noted(e.book, now), [id |-> <<k, 0>>, at |-> now]) : Commit(e, h)
         /\ recorded' = recorded \cup {[id |-> <<k, 0>>, at |-> now]}
         /\ admitted' = admitted /\ told' = told
  BY ReadingsAhead, OpeningFacts DEF AnswerQuestion, IInv, GoodFile, Files
<1> DEFINE entry == [id |-> <<k, 0>>, at |-> now]
           g == Noted(e.book, now)
<1>2. PICK h \in Audited(g, entry) : Commit(e, h)
  BY <1>1
<1>3. g \in Files /\ Ages(file, g) /\ e.at \in Int
  BY OpeningFacts, AgesNoted DEF IInv, GoodFile
<1>4. entry \in AuditEntry
  BY DEF AuditEntry, AnswerID
<1>5. h \in Files /\ h.choices = g.choices /\ h.floor = g.floor
  BY <1>3, <1>4, AuditedFacts
<1>6. file' = h /\ horizon' \in Int
  BY <1>2, <1>3, CommitTypes
<1> HIDE DEF g, entry
<1>7. recorded' \subseteq AuditEntry
  BY <1>1, <1>4 DEF IInv, Types, entry
<1> QED
  BY <1>1, <1>3, <1>5, <1>6, <1>7, AgedShape DEF IInv, Types

LEMMA OtherShape ==
    ASSUME IInv, OtherEdit
    PROVE  Shape
<1>1. PICK e \in Openings(file) :
         /\ Commit(e, e.book) \/ \E now \in Readings(e.book) : Commit(e, Noted(e.book, now))
         /\ admitted' = admitted /\ told' = told /\ recorded' = recorded
  BY DEF OtherEdit
<1>2. GoodFile(e.book) /\ e.book \in Files /\ Ages(file, e.book) /\ e.at \in Int
  BY OpeningFacts DEF IInv, GoodFile
<1>3. PICK g \in Files : Commit(e, g) /\ Ages(file, g)
  <2>1. CASE Commit(e, e.book)
    BY <1>2, <2>1
  <2>2. CASE \E now \in Readings(e.book) : Commit(e, Noted(e.book, now))
    <3>1. PICK now \in Readings(e.book) : Commit(e, Noted(e.book, now))
      BY <2>2
    <3>2. now \in Int
      BY <1>2, ReadingsAhead DEF Files
    <3>3. Noted(e.book, now) \in Files /\ Ages(file, Noted(e.book, now))
      BY <1>2, <3>2, AgesNoted DEF IInv, GoodFile
    <3> QED
      BY <3>1, <3>3
  <2> QED
    BY <1>1, <2>1, <2>2
<1>4. file' = g /\ horizon' \in Int
  BY <1>2, <1>3, CommitTypes
<1> QED
  BY <1>1, <1>3, <1>4, AgedShape DEF IInv, Types

LEMMA StepShape ==
    ASSUME IInv, Next
    PROVE  Shape
<1>1. ASSUME NEW r \in Ref, NEW option \in Option \cup {None}, NEW by \in Program,
             NEW ifPending \in BOOLEAN, NEW n \in 1..admitted[r],
             \/ DecideListed(r, n, option, by, ifPending)
             \/ AnswerShared(r, n, option, by)
      PROVE  Shape
  BY <1>1, DecideShape DEF DecideListed, AnswerShared, Routes
<1>2. ASSUME NEW r \in Ref, NEW option \in Option \cup {None}, NEW by \in Program,
             NEW ifPending \in BOOLEAN, DecideOwn(r, option, by, ifPending)
      PROVE  Shape
  BY <1>2, DecideShape DEF DecideOwn, Routes
<1> QED
  BY <1>1, <1>2, AskShape, AcknowledgeShape, ObserveShape, HistoryShape, QuestionShape, OtherShape
     DEF Next

-----------------------------------------------------------------------------
(* Invariance. *)

LEMMA InitIInv == Init => IInv
<1> SUFFICES ASSUME Init PROVE IInv
  OBVIOUS
<1>1. file \in Files
  BY AbsentType DEF Init, Files
<1>2. \A r \in Ref : file.choices[r] = Absent
  BY DEF Init
<1>3. \A r \in Ref : GoodRecord(r, Absent, file.floor)
  BY DEF GoodRecord, Absent, Decided
<1>4. admitted \in [Ref -> Nat] /\ \A r \in Ref : admitted[r] = 0
  BY DEF Init
<1>5. Types(told, recorded, horizon)
  BY DEF Init, Types
<1> QED
  BY <1>1, <1>2, <1>3, <1>4, <1>5 DEF IInv, GoodFile, Occurrence

(* The admission that moves is one a call may leave behind. *)
LEMMA MoveRecord ==
    ASSUME IInv, NEW r \in Ref, NEW g \in Files, Moves(r, g), file' \in Files
    PROVE  /\ GoodRecord(r, file'.choices[r], file'.floor)
           /\ file'.choices[r] # Absent
           /\ admitted'[r] = 1
<1> DEFINE a == g.choices[r]
           b == file'.choices[r]
           t == file'.floor
<1>1. /\ a \in Admission /\ b \in Admission /\ t \in Int
      /\ GoodRecord(r, a, g.floor) /\ GoodRecord(r, file.choices[r], file.floor)
      /\ AgesTo(r, file.choices[r], a, t) /\ file.choices[r] \in Admission
      /\ file.floor \in Int /\ file.floor <= t /\ t < ReplayUntil[r] /\ ReplayUntil[r] \in Int
  BY ReferenceAssumption DEF IInv, GoodFile, Files, Moves, Ages
<1>2. Occurrence(r) /\ admitted \in [Ref -> Nat]
  BY DEF IInv
<1>3. a # Absent => file.choices[r] # Absent
  BY <1>1 DEF AgesTo, Absent
<1>4. a = Absent => file.choices[r] = Absent
  <2>1. file.choices[r].state = "pending" => [file.choices[r] EXCEPT !.state = "expired"] # Absent
    BY <1>1 DEF Absent, Admission
  <2> QED
    BY <1>1, <2>1 DEF AgesTo
<1>5. CASE Admits(r, a, b, t) /\ b.id = admitted[r] + 1 /\ admitted' = [admitted EXCEPT ![r] = @ + 1]
  <2>1. admitted[r] = 0
    BY <1>1, <1>2, <1>4, <1>5 DEF Occurrence, Admits
  <2>2. admitted'[r] = 1 /\ b.id = 1
    BY <1>2, <1>5, <2>1
  <2>3. PICK q \in Request : q.ref = r /\ b.state = "pending" /\ b.req = q /\ b.answer = None
    BY <1>5 DEF Admits
  <2> HIDE DEF b
  <2> QED
    BY <2>2, <2>3 DEF GoodRecord, Absent, Decided, b
<1>6. CASE Decides(r, a, b, t) /\ admitted' = admitted
  <2>1. PICK option \in a.req.options \cup {None}, by \in Program, route \in Routes :
           b = [a EXCEPT !.state = IF option = None THEN "dismissed" ELSE "answered",
                         !.answer = [option |-> option, at |-> t, by |-> by],
                         !.route = route]
    BY <1>6 DEF Decides
  <2>2. b.state \in Decided /\ b.id = a.id /\ b.req = a.req
        /\ b.answer = [option |-> option, at |-> t, by |-> by]
    <3> HIDE DEF t
    <3> QED
      BY <1>1, <2>1 DEF Admission, Decided
  <2>3. a.state = "pending" /\ a # Absent
    BY <1>6 DEF Decides, Absent
  <2>4. a.req \in Request /\ a.req.ref = r /\ a.id = 1 /\ option \in Option \cup {None}
    BY <1>1, <2>3, RequestAssumption DEF GoodRecord
  <2>5. b.answer \in Answers
    BY <1>1, <2>2, <2>4 DEF Answers
  <2>6. admitted'[r] = 1
    BY <1>2, <1>3, <1>6, <2>3 DEF Occurrence
  <2> HIDE DEF a, b
  <2> QED
    BY <2>2, <2>4, <2>5, <2>6 DEF GoodRecord, Absent, Decided, b
<1>7. CASE Acknowledges(r, a, b, t) /\ admitted' = admitted
  <2>1. b.state = "gone" /\ b.id = a.id /\ b.req = a.req /\ b.answer = a.answer
    BY <1>1, <1>7 DEF Acknowledges, Admission
  <2>2. a.state \in Decided /\ a # Absent
    BY <1>7 DEF Acknowledges, Absent, Decided
  <2>3. a.req \in Request /\ a.req.ref = r /\ a.id = 1 /\ a.answer \in Answers
    BY <1>1, <2>2 DEF GoodRecord, Decided
  <2>4. admitted'[r] = 1
    BY <1>2, <1>3, <1>7, <2>2 DEF Occurrence
  <2> HIDE DEF a, b
  <2> QED
    BY <2>1, <2>3, <2>4 DEF GoodRecord, Absent, Decided, b
<1> QED
  BY <1>5, <1>6, <1>7 DEF Moves

LEMMA NextIInv ==
    ASSUME IInv, Next
    PROVE  IInv'
<1>1. file' \in Files /\ Types(told', recorded', horizon')
  BY StepShape DEF Shape
<1>2. CASE Ages(file, file') /\ admitted' = admitted
  <2>1. GoodFile(file')
    BY <1>1, <1>2, AgesGood DEF IInv
  <2>2. ASSUME NEW r \in Ref
        PROVE  Occurrence(r)'
    <3>1. /\ Occurrence(r) /\ AgesTo(r, file.choices[r], file'.choices[r], file'.floor)
          /\ file.floor <= file'.floor /\ file.floor \in Int /\ file'.floor \in Int
          /\ ReplayUntil[r] \in Int
      BY <1>1, <1>2, ReferenceAssumption DEF IInv, Ages, GoodFile, Files
    <3>2. file'.choices[r] # Absent => file.choices[r] # Absent
      BY <3>1 DEF AgesTo, Absent
    <3>3. file'.choices[r] = Absent => file.choices[r] = Absent \/ file'.floor >= ReplayUntil[r]
      <4>1. file.choices[r] \in Admission
        BY DEF IInv, GoodFile, Files
      <4>2. file.choices[r].state = "pending" => [file.choices[r] EXCEPT !.state = "expired"] # Absent
        BY <4>1 DEF Absent, Admission
      <4> QED
        BY <3>1, <4>2 DEF AgesTo
    <3> QED
      BY <1>2, <3>1, <3>2, <3>3 DEF Occurrence
  <2> QED
    BY <1>1, <1>2, <2>1, <2>2 DEF IInv
<1>3. CASE \E r \in Ref, g \in Files : Moves(r, g)
  <2>1. PICK r \in Ref, g \in Files : Moves(r, g)
    BY <1>3
  <2>2. GoodRecord(r, file'.choices[r], file'.floor) /\ file'.choices[r] # Absent /\ admitted'[r] = 1
    BY <1>1, <2>1, MoveRecord
  <2>3. admitted' \in [Ref -> Nat] /\ \A y \in Ref : y # r => admitted'[y] = admitted[y]
    BY <2>1 DEF Moves, IInv
  <2>4. \A y \in Ref : y # r => file'.choices[y] = g.choices[y]
    BY <2>1 DEF Moves, Files
  <2>5. file'.floor = g.floor /\ GoodFile(g) /\ Ages(file, g)
    BY <2>1 DEF Moves
  <2>6. GoodFile(file')
    BY <1>1, <2>2, <2>4, <2>5 DEF GoodFile
  <2>7. ASSUME NEW y \in Ref, y # r
        PROVE  Occurrence(y)'
    <3>1. /\ Occurrence(y) /\ AgesTo(y, file.choices[y], g.choices[y], g.floor)
          /\ file.floor <= g.floor /\ file.floor \in Int /\ g.floor \in Int
          /\ ReplayUntil[y] \in Int
      BY <2>5, ReferenceAssumption DEF IInv, Ages, GoodFile, Files
    <3>2. g.choices[y] # Absent => file.choices[y] # Absent
      BY <3>1 DEF AgesTo, Absent
    <3>3. g.choices[y] = Absent => file.choices[y] = Absent \/ g.floor >= ReplayUntil[y]
      <4>1. file.choices[y] \in Admission
        BY DEF IInv, GoodFile, Files
      <4>2. file.choices[y].state = "pending" => [file.choices[y] EXCEPT !.state = "expired"] # Absent
        BY <4>1 DEF Absent, Admission
      <4> QED
        BY <3>1, <4>2 DEF AgesTo
    <3>4. admitted'[y] = admitted[y] /\ file'.choices[y] = g.choices[y] /\ file'.floor = g.floor
      BY <2>3, <2>4, <2>5, <2>7
    <3> QED
      BY <3>1, <3>2, <3>3, <3>4 DEF Occurrence
  <2>8. Occurrence(r)'
    BY <2>2 DEF Occurrence
  <2> QED
    BY <1>1, <2>3, <2>6, <2>7, <2>8 DEF IInv
<1> QED
  BY <1>2, <1>3, StepShape DEF Shape

THEOREM Invariance == Spec => []IInv
<1>1. Init => IInv
  BY InitIInv
<1>2. IInv /\ [Next]_vars => IInv'
  <2>1. CASE Next
    BY <2>1, NextIInv
  <2>2. CASE UNCHANGED vars
    BY <2>2 DEF vars, IInv, Occurrence
  <2> QED
    BY <2>1, <2>2
<1> QED
  BY <1>1, <1>2, PTL DEF Spec

(* Every reachable file and history has its type: the fields that a state    *)
(* fills, the readings of the clock and the collected audit stay in range    *)
(* (go/choice_book.go, changeApplication).                                   *)
THEOREM TypeCorrect == Spec => []TypeOK
<1>1. IInv => TypeOK
  BY DEF IInv, GoodFile, Files, Types, TypeOK
<1> QED
  BY <1>1, Invariance, PTL

(* A stored expiry and a dropped occurrence rest on the committed floor,     *)
(* whatever the clock reads afterwards (collectChoices, noteChoiceTime).     *)
THEOREM ExpiryIsCommitted == Spec => []ExpiryCommitted
<1>1. IInv => ExpiryCommitted
  <2> SUFFICES ASSUME IInv, NEW r \in Ref
               PROVE  /\ file.choices[r].state = "expired" => file.floor >= file.choices[r].req.pendingUntil
                      /\ admitted[r] > 0 /\ file.choices[r] = Absent => file.floor >= ReplayUntil[r]
    BY DEF ExpiryCommitted
  <2>1. GoodRecord(r, file.choices[r], file.floor) /\ Occurrence(r)
    BY DEF IInv, GoodFile
  <2> QED
    BY <2>1 DEF GoodRecord, Occurrence
<1> QED
  BY <1>1, Invariance, PTL

(* No reference is given a second occurrence by any sequence of requests,    *)
(* decisions, acknowledgements and clock readings (askChoice).               *)
THEOREM AdmittedOnce == Spec => []OneOccurrence
<1>1. IInv => OneOccurrence
  <2> SUFFICES ASSUME IInv, NEW r \in Ref
               PROVE  admitted[r] <= 1
    BY DEF OneOccurrence
  <2>1. Occurrence(r)
    BY DEF IInv
  <2> QED
    BY <2>1 DEF Occurrence
<1> QED
  BY <1>1, Invariance, PTL

-----------------------------------------------------------------------------
(* The refinement: what the file's admission and floor make of a status, and *)
(* how ageing and moving change it.                                          *)

StatusOf(r, a, t) ==
    IF t >= ReplayUntil[r] \/ Aged(r, a, t).state = "expired"
    THEN [is |-> "expired", req |-> None, answer |-> None]
    ELSE LET b == Aged(r, a, t) IN
         [is |-> IF b.state = "absent" THEN "unknown" ELSE b.state, req |-> b.req, answer |-> b.answer]

LEMMA ViewIs ==
    ASSUME NEW f \in Files, NEW r \in Ref
    PROVE  View(f, r) = Aged(r, f.choices[r], f.floor)
<1>1. f.floor \in Int
  BY DEF Files
<1>2. Collected(f, f.floor).choices = [x \in Ref |-> Aged(x, f.choices[x], f.floor)]
  BY <1>1, CollectedFacts
<1> QED
  BY <1>2 DEF View, AtFloor

LEMMA StatusIs ==
    ASSUME file \in Files, NEW r \in Ref
    PROVE  Status(r) = StatusOf(r, file.choices[r], file.floor)
BY ViewIs DEF Status, StatusOf

LEMMA StatusNext ==
    ASSUME file' \in Files, NEW r \in Ref
    PROVE  Status(r)' = StatusOf(r, file'.choices[r], file'.floor)
BY ViewIs DEF Status, StatusOf

(* Ageing the admission and ageing the status agree. *)
LEMMA StatusAges ==
    ASSUME NEW r \in Ref, NEW a \in Admission, NEW b \in Admission,
           NEW s \in Int, NEW t \in Int, s <= t,
           GoodRecord(r, a, s), AgesTo(r, a, b, t)
    PROVE  StatusOf(r, b, t) = Contract!Aged(StatusOf(r, a, s), r, t)
<1>1. ReplayUntil[r] \in Int
  BY ReferenceAssumption
<1>2. a.state = "pending" => a.req.pendingUntil \in Int /\ a.req.pendingUntil <= ReplayUntil[r]
  BY RequestAssumption DEF GoodRecord
<1>3. CASE t >= ReplayUntil[r]
  BY <1>3 DEF StatusOf, Contract!Aged, Contract!Expired
<1>4. CASE t < ReplayUntil[r]
  <2>1. s < ReplayUntil[r]
    BY <1>1, <1>4
  <2>2. Aged(r, a, s) = IF a.state = "pending" /\ s >= a.req.pendingUntil
                        THEN [a EXCEPT !.state = "expired"] ELSE a
    BY <1>1, <2>1 DEF Aged
  <2>3. Aged(r, b, t) = IF b.state = "pending" /\ t >= b.req.pendingUntil
                        THEN [b EXCEPT !.state = "expired"] ELSE b
    BY <1>1, <1>4 DEF Aged
  <2>4. [a EXCEPT !.state = "expired"].state = "expired" /\ [b EXCEPT !.state = "expired"].state = "expired"
    BY DEF Admission
  <2>5. CASE a.state = "pending" /\ t >= a.req.pendingUntil
    <3>1. StatusOf(r, b, t).is = "expired" /\ StatusOf(r, b, t) = Contract!Expired
      <4>1. b.state = "expired" \/ (b.state = "pending" /\ t >= b.req.pendingUntil)
        <5>1. b = a \/ b = [a EXCEPT !.state = "expired"]
          BY <1>1, <1>4 DEF AgesTo
        <5> QED
          BY <2>4, <2>5, <5>1
      <4> QED
        BY <2>3, <2>4, <4>1 DEF StatusOf, Contract!Expired
    <3>2. \/ StatusOf(r, a, s) = Contract!Expired
          \/ StatusOf(r, a, s) = [is |-> "pending", req |-> a.req, answer |-> a.answer]
      BY <1>1, <2>1, <2>2, <2>4, <2>5 DEF StatusOf, Contract!Expired
    <3> QED
      BY <2>5, <3>1, <3>2 DEF Contract!Aged, Contract!Expired
  <2>6. CASE ~(a.state = "pending" /\ t >= a.req.pendingUntil)
    <3>1. b = a
      BY <1>1, <1>4, <2>6 DEF AgesTo
    <3>2. Aged(r, a, s) = a /\ Aged(r, b, t) = a
      BY <1>2, <2>2, <2>3, <2>6, <3>1
    <3>3. StatusOf(r, b, t) = StatusOf(r, a, s)
      BY <1>1, <1>4, <2>1, <3>2 DEF StatusOf
    <3>4. Contract!Aged(StatusOf(r, a, s), r, t) = StatusOf(r, a, s)
      BY <1>1, <1>4, <2>1, <2>6, <3>2 DEF StatusOf, Contract!Aged, Contract!Expired
    <3> QED
      BY <3>3, <3>4
  <2> QED
    BY <2>5, <2>6
<1> QED
  BY <1>1, <1>3, <1>4

LEMMA ContractInit ==
    ASSUME Init
    PROVE  Contract!Init
<1>1. file.floor = 0 /\ file \in Files /\ \A r \in Ref : file.choices[r] = Absent
  BY InitIInv DEF Init, IInv, GoodFile
<1>2. ASSUME NEW r \in Ref
      PROVE  Status(r) = Contract!Unknown
  <2>1. Aged(r, Absent, 0) = Absent
    BY ReferenceAssumption DEF Aged, Absent
  <2>2. StatusOf(r, Absent, 0) = Contract!Unknown
    BY <2>1, ReferenceAssumption DEF StatusOf, Absent, Contract!Unknown
  <2> QED
    BY <1>1, <2>2, StatusIs
<1> QED
  BY <1>1, <1>2 DEF Contract!Init

(* A status at a later time, for every reference that only aged. *)
LEMMA AgedStatus ==
    ASSUME IInv, NEW g \in Files, Ages(file, g), NEW r \in Ref
    PROVE  StatusOf(r, g.choices[r], g.floor) = Contract!AgedStatus(g.floor)[r]
<1>1. /\ file.choices[r] \in Admission /\ g.choices[r] \in Admission
      /\ file.floor \in Int /\ g.floor \in Int /\ file.floor <= g.floor
      /\ GoodRecord(r, file.choices[r], file.floor)
      /\ AgesTo(r, file.choices[r], g.choices[r], g.floor)
      /\ file \in Files
  BY DEF IInv, GoodFile, Files, Ages
<1>2. StatusOf(r, g.choices[r], g.floor) =
        Contract!Aged(StatusOf(r, file.choices[r], file.floor), r, g.floor)
  BY <1>1, StatusAges
<1>3. Status(r) = StatusOf(r, file.choices[r], file.floor)
  BY <1>1, StatusIs
<1> QED
  BY <1>2, <1>3 DEF Contract!AgedStatus

LEMMA ContractAge ==
    ASSUME IInv, file' \in Files, Ages(file, file')
    PROVE  Contract!Age
<1>1. file'.floor \in Int /\ file'.floor >= file.floor /\ file.floor \in Int
  BY DEF Files, Ages, IInv, GoodFile
<1>2. \A r \in Ref : Status(r)' = StatusOf(r, file'.choices[r], file'.floor)
  BY StatusNext
<1>3. \A r \in Ref : Status(r)' = Contract!AgedStatus(file'.floor)[r]
  BY <1>2, AgedStatus
<1>4. [r \in Ref |-> Status(r)'] = Contract!AgedStatus(file'.floor)
  BY <1>3 DEF Contract!AgedStatus
<1> QED
  BY <1>1, <1>4 DEF Contract!Age

LEMMA ContractAdvance ==
    ASSUME IInv, file' \in Files, NEW r \in Ref, NEW g \in Files, Moves(r, g)
    PROVE  Contract!Advance(r)
<1> DEFINE a == g.choices[r]
           b == file'.choices[r]
           t == file'.floor
           A == Contract!AgedStatus(t)
<1>1. t \in Int /\ t >= file.floor /\ file.floor \in Int /\ t = g.floor /\ t < ReplayUntil[r]
      /\ Ages(file, g) /\ GoodRecord(r, a, t) /\ a \in Admission /\ b \in Admission
      /\ ReplayUntil[r] \in Int
  BY ReferenceAssumption DEF Files, Ages, IInv, GoodFile, Moves
<1>2. A[r] = StatusOf(r, a, t)
  BY <1>1, AgedStatus
<1>3. \A y \in Ref : y # r => A[y] = StatusOf(y, file'.choices[y], t)
  <2>1. \A y \in Ref : y # r => file'.choices[y] = g.choices[y]
    BY DEF Moves, Files
  <2> QED
    BY <1>1, <2>1, AgedStatus
<1>4. \A y \in Ref : Status(y)' = StatusOf(y, file'.choices[y], t)
  BY StatusNext
<1>5. [y \in Ref |-> Status(y)'] = [A EXCEPT ![r] = StatusOf(r, b, t)]
  <2>1. A = [y \in Ref |-> A[y]]
    BY DEF Contract!AgedStatus
  <2> HIDE DEF A
  <2> QED
    BY <1>3, <1>4, <2>1
<1>6. StatusOf(r, b, t) \in Contract!Successors(A[r], r, t)
  <2> HIDE DEF A
  <2>1. CASE Admits(r, a, b, t)
    <3>1. PICK q \in Request, n \in Nat :
             /\ q.ref = r /\ t < q.pendingUntil
             /\ b = [state |-> "pending", id |-> n, req |-> q, asked |-> t,
                     answer |-> None, route |-> None]
      BY <2>1 DEF Admits
    <3>2. A[r].is = "unknown"
      BY <1>1, <1>2, <2>1 DEF StatusOf, Aged, Admits, Absent
    <3>3. Aged(r, b, t) = b
      BY <1>1, <3>1, RequestAssumption DEF Aged
    <3>4. StatusOf(r, b, t) = [is |-> "pending", req |-> q, answer |-> None]
      BY <1>1, <3>1, <3>3 DEF StatusOf
    <3> QED
      BY <1>1, <3>1, <3>2, <3>4 DEF Contract!Successors
  <2>2. CASE Decides(r, a, b, t)
    <3>1. PICK option \in a.req.options \cup {None}, by \in Program, route \in Routes :
             b = [a EXCEPT !.state = IF option = None THEN "dismissed" ELSE "answered",
                           !.answer = [option |-> option, at |-> t, by |-> by],
                           !.route = route]
      BY <2>2 DEF Decides
    <3>2. /\ b.state = IF option = None THEN "dismissed" ELSE "answered"
          /\ b.req = a.req /\ b.answer = [option |-> option, at |-> t, by |-> by]
      <4> HIDE DEF t
      <4> QED
        BY <1>1, <3>1 DEF Admission
    <3>3. a.state = "pending" /\ t < a.req.pendingUntil /\ a.req.pendingUntil \in Int
      BY <1>1, <2>2, RequestAssumption DEF Decides, GoodRecord
    <3>4. Aged(r, a, t) = a /\ Aged(r, b, t) = b
      BY <1>1, <3>2, <3>3 DEF Aged
    <3>5. A[r] = [is |-> "pending", req |-> a.req, answer |-> a.answer]
      BY <1>1, <1>2, <3>3, <3>4 DEF StatusOf
    <3>6. StatusOf(r, b, t) = [is |-> IF option = None THEN "dismissed" ELSE "answered",
                               req |-> a.req, answer |-> [option |-> option, at |-> t, by |-> by]]
      BY <1>1, <3>2, <3>4 DEF StatusOf
    <3>7. [option |-> option, at |-> t, by |-> by] \in
             [option : A[r].req.options \cup {None}, at : {t}, by : Program]
      BY <3>5
    <3> HIDE DEF a, b, t
    <3> QED
      BY <1>1, <3>5, <3>6, <3>7 DEF Contract!Successors
  <2>3. CASE Acknowledges(r, a, b, t)
    <3>1. b.state = "gone" /\ b.req = a.req /\ b.answer = a.answer
      BY <1>1, <2>3 DEF Acknowledges, Admission
    <3>2. a.state \in {"answered", "dismissed"}
      BY <2>3 DEF Acknowledges, Decided
    <3>3. Aged(r, a, t) = a /\ Aged(r, b, t) = b
      BY <1>1, <3>1, <3>2 DEF Aged
    <3>4. A[r] = [is |-> a.state, req |-> a.req, answer |-> a.answer]
      BY <1>1, <1>2, <3>2, <3>3 DEF StatusOf
    <3>5. StatusOf(r, b, t) = [is |-> "gone", req |-> a.req, answer |-> a.answer]
      BY <1>1, <3>1, <3>3 DEF StatusOf
    <3> HIDE DEF a, b, t
    <3> QED
      BY <1>1, <3>2, <3>4, <3>5 DEF Contract!Successors
  <2> QED
    BY <2>1, <2>2, <2>3 DEF Moves
<1> QED
  BY <1>1, <1>5, <1>6 DEF Contract!Advance

(* The Book implements the contract: every step of the file, read through    *)
(* its floor, is time passing for all references and at most one admission,  *)
(* decision or acknowledgement (all of go/choice_book.go).                   *)
THEOREM Implementation == Spec => ImplementsContract
<1>1. Init => Contract!Init
  BY ContractInit
<1>2. IInv /\ [Next]_vars => [Contract!Next]_(Contract!vars)
  <2>1. ASSUME IInv, Next
        PROVE  Contract!Next
    <3>1. file' \in Files /\ (Ages(file, file') \/ \E r \in Ref, g \in Files : Moves(r, g))
      BY <2>1, StepShape DEF Shape
    <3> QED
      BY <2>1, <3>1, ContractAge, ContractAdvance DEF Contract!Next
  <2>2. ASSUME UNCHANGED vars
        PROVE  UNCHANGED Contract!vars
    BY <2>2 DEF vars, Contract!vars, Status, View, AtFloor
  <2> QED
    BY <2>1, <2>2
<1> QED
  BY <1>1, <1>2, Invariance, PTL DEF Spec, ImplementsContract, Contract!Spec

-----------------------------------------------------------------------------
(* What was told stands. *)

Stands(r, o, a, t) ==
    \/ t >= ReplayUntil[r]
    \/ o \in Terminal(Aged(r, a, t))
    \/ /\ o.is \in Decided
       /\ Aged(r, a, t).state = "gone"
       /\ o.answer = Aged(r, a, t).answer
    \/ /\ o \in Lapse
       /\ t >= o.req.pendingUntil
       /\ Aged(r, a, t).req # o.req

LEMMA StandsIs ==
    ASSUME file \in Files
    PROVE  ToldStands <=> \A r \in Ref : \A o \in told[r] : Stands(r, o, file.choices[r], file.floor)
BY ViewIs DEF ToldStands, Stands

LEMMA StandsNext ==
    ASSUME file' \in Files
    PROVE  ToldStands' <=> \A r \in Ref : \A o \in told'[r] : Stands(r, o, file'.choices[r], file'.floor)
BY ViewIs DEF ToldStands, Stands

(* A terminal record stands by itself. *)
LEMMA TerminalStands ==
    ASSUME NEW r \in Ref, NEW a, NEW t \in Int, NEW o \in Terminal(a)
    PROVE  Stands(r, o, a, t)
<1>1. a.state # "pending"
  BY DEF Terminal, Decided
<1>2. CASE t < ReplayUntil[r]
  <2>1. Aged(r, a, t) = a
    BY <1>1, <1>2, ReferenceAssumption DEF Aged
  <2> QED
    BY <2>1 DEF Stands
<1> QED
  BY <1>2, ReferenceAssumption DEF Stands

(* Time leaves a lapse standing: ageing changes no request. *)
LEMMA LapseStandsAges ==
    ASSUME NEW r \in Ref, NEW a \in Admission, NEW b, NEW o \in Lapse,
           NEW s \in Int, NEW t \in Int, s <= t,
           GoodRecord(r, a, s), AgesTo(r, a, b, t),
           s >= o.req.pendingUntil, Aged(r, a, s).req # o.req
    PROVE  Stands(r, o, b, t)
<1>1. /\ ReplayUntil[r] \in Int /\ (a.state = "pending" => a.req.pendingUntil \in Int)
      /\ o.req.pendingUntil \in Int
  BY ReferenceAssumption, RequestAssumption DEF GoodRecord, Lapse
<1>2. SUFFICES ASSUME t < ReplayUntil[r]
               PROVE  Aged(r, b, t).req # o.req
  BY <1>1 DEF Stands
<1>3. Aged(r, a, s).req = a.req
  BY <1>1, <1>2 DEF Aged, Admission
<1>4. b = a \/ b = [a EXCEPT !.state = "expired"]
  BY <1>1, <1>2 DEF AgesTo
<1>5. b \in Admission /\ b.req = a.req
  BY <1>4 DEF Admission
<1>6. Aged(r, b, t).req = b.req
  BY <1>1, <1>2, <1>5 DEF Aged, Admission
<1> QED
  BY <1>3, <1>5, <1>6

(* Time leaves a told outcome standing. *)
LEMMA StandsAges ==
    ASSUME NEW r \in Ref, NEW a \in Admission, NEW b, NEW o,
           NEW s \in Int, NEW t \in Int, s <= t,
           GoodRecord(r, a, s), AgesTo(r, a, b, t), Stands(r, o, a, s)
    PROVE  Stands(r, o, b, t)
<1>0. CASE o \in Lapse /\ s >= o.req.pendingUntil /\ Aged(r, a, s).req # o.req
  BY <1>0, LapseStandsAges
<1>00. SUFFICES ASSUME ~(o \in Lapse /\ s >= o.req.pendingUntil /\ Aged(r, a, s).req # o.req)
                PROVE  Stands(r, o, b, t)
  BY <1>0
<1>1. ReplayUntil[r] \in Int /\ (a.state = "pending" => a.req.pendingUntil \in Int)
  BY ReferenceAssumption, RequestAssumption DEF GoodRecord
<1>2. SUFFICES ASSUME t < ReplayUntil[r]
               PROVE  Stands(r, o, b, t)
  BY <1>1 DEF Stands
<1>3. [a EXCEPT !.state = "expired"].state = "expired"
  BY DEF Admission
<1>4. s < ReplayUntil[r]
  BY <1>1, <1>2
<1>5. CASE a.state = "pending" /\ s >= a.req.pendingUntil
  <2>1. Aged(r, a, s) = [a EXCEPT !.state = "expired"]
    BY <1>1, <1>4, <1>5 DEF Aged
  <2>2. o \in Terminal([a EXCEPT !.state = "expired"])
    BY <1>00, <1>1, <1>3, <1>4, <2>1 DEF Stands
  <2>3. b = a \/ b = [a EXCEPT !.state = "expired"]
    BY <1>1, <1>2 DEF AgesTo
  <2>4. Aged(r, b, t) = [a EXCEPT !.state = "expired"]
    BY <1>1, <1>2, <1>3, <1>5, <2>3 DEF Aged
  <2> QED
    BY <2>2, <2>4 DEF Stands
<1>6. CASE ~(a.state = "pending" /\ s >= a.req.pendingUntil)
  <2>1. Aged(r, a, s) = a
    BY <1>1, <1>4, <1>6 DEF Aged
  <2>2. a.state # "pending"
    BY <1>00, <1>1, <1>4, <2>1 DEF Stands, Terminal, Decided
  <2>3. b = a
    BY <1>1, <1>2, <2>2 DEF AgesTo
  <2>4. Aged(r, b, t) = a
    BY <1>1, <1>2, <2>2, <2>3 DEF Aged
  <2> QED
    BY <1>00, <1>1, <1>4, <2>1, <2>4 DEF Stands
<1> QED
  BY <1>5, <1>6

(* So does every move: only a decision told of is ever acknowledged. *)
LEMMA StandsMoves ==
    ASSUME NEW r \in Ref, NEW a \in Admission, NEW b, NEW o, NEW t \in Int, t < ReplayUntil[r],
           GoodRecord(r, a, t), Stands(r, o, a, t),
           Admits(r, a, b, t) \/ Decides(r, a, b, t) \/ Acknowledges(r, a, b, t)
    PROVE  Stands(r, o, b, t)
<1>1. ReplayUntil[r] \in Int /\ (a.state = "pending" => a.req.pendingUntil \in Int)
  BY ReferenceAssumption, RequestAssumption DEF GoodRecord
<1>2. Aged(r, a, t) = a
  <2>1. CASE Admits(r, a, b, t)
    BY <1>1, <2>1 DEF Aged, Admits, Absent
  <2>2. CASE Decides(r, a, b, t)
    <3>1. a.state = "pending" /\ t < a.req.pendingUntil
      BY <2>2 DEF Decides
    <3> QED
      BY <1>1, <3>1 DEF Aged
  <2>3. CASE Acknowledges(r, a, b, t)
    BY <1>1, <2>3 DEF Aged, Acknowledges, Decided
  <2> QED
    BY <2>1, <2>2, <2>3
<1> DEFINE L == o \in Lapse /\ t >= o.req.pendingUntil /\ a.req # o.req
<1>8. CASE L
  <2>1. o.req.pendingUntil \in Int
    BY <1>8, RequestAssumption DEF Lapse
  <2>2. b.req # o.req
    <3>1. CASE Admits(r, a, b, t)
      BY <1>8, <2>1, <3>1 DEF Admits
    <3>2. CASE Decides(r, a, b, t) \/ Acknowledges(r, a, b, t)
      BY <1>8, <3>2 DEF Decides, Acknowledges, Admission
    <3> QED
      BY <3>1, <3>2
  <2>3. Aged(r, b, t).req = b.req
    <3>1. CASE Admits(r, a, b, t)
      BY <1>1, <3>1, RequestAssumption DEF Admits, Aged
    <3>2. CASE Decides(r, a, b, t) \/ Acknowledges(r, a, b, t)
      <4>1. b.state # "pending"
        BY <3>2 DEF Decides, Acknowledges, Admission
      <4> QED
        BY <1>1, <4>1 DEF Aged
    <3> QED
      BY <3>1, <3>2
  <2> QED
    BY <1>8, <2>2, <2>3 DEF Stands
<1>9. SUFFICES ASSUME ~L
               PROVE  Stands(r, o, b, t)
  BY <1>8
<1>3. o \in Terminal(a) \/ (o.is \in Decided /\ a.state = "gone" /\ o.answer = a.answer)
  BY <1>1, <1>2, <1>9 DEF Stands
<1>4. Acknowledges(r, a, b, t)
  <2>1. CASE Admits(r, a, b, t)
    BY <1>3, <2>1 DEF Terminal, Admits, Absent, Decided
  <2>2. CASE Decides(r, a, b, t)
    BY <1>3, <2>2 DEF Terminal, Decides, Decided
  <2> QED
    BY <2>1, <2>2
<1>5. b.state = "gone" /\ b.answer = a.answer
  BY <1>4 DEF Acknowledges, Admission
<1>6. o = [is |-> a.state, answer |-> a.answer] /\ a.state \in Decided
  BY <1>3, <1>4 DEF Acknowledges, Terminal, Decided
<1>7. Aged(r, b, t) = b
  BY <1>1, <1>5 DEF Aged
<1> QED
  BY <1>5, <1>6, <1>7 DEF Stands

(* What was told before a step stands after it. *)
LEMMA OldStands ==
    ASSUME IInv, Shape, NEW r \in Ref, NEW o, Stands(r, o, file.choices[r], file.floor)
    PROVE  Stands(r, o, file'.choices[r], file'.floor)
<1>1. file.choices[r] \in Admission /\ file.floor \in Int /\ GoodRecord(r, file.choices[r], file.floor)
      /\ file'.floor \in Int /\ file' \in Files
  BY DEF IInv, GoodFile, Files, Shape
<1>2. CASE Ages(file, file')
  BY <1>1, <1>2, StandsAges DEF Ages
<1>3. CASE \E y \in Ref, g \in Files : Moves(y, g)
  <2>1. PICK y \in Ref, g \in Files : Moves(y, g)
    BY <1>3
  <2>2. /\ Ages(file, g) /\ g.floor = file'.floor /\ GoodFile(g)
        /\ g.choices[r] \in Admission /\ GoodRecord(r, g.choices[r], g.floor)
    BY <2>1 DEF Moves, GoodFile, Files
  <2>3. Stands(r, o, g.choices[r], g.floor)
    BY <1>1, <2>2, StandsAges DEF Ages
  <2>4. CASE y # r
    <3>1. file'.choices[r] = g.choices[r]
      BY <2>1, <2>4 DEF Moves, Files
    <3> QED
      BY <2>2, <2>3, <3>1
  <2>5. CASE y = r
    BY <1>1, <2>1, <2>2, <2>3, <2>5, StandsMoves DEF Moves
  <2> QED
    BY <2>4, <2>5
<1> QED
  BY <1>2, <1>3 DEF Shape

(* Told(r) holds when what a step adds to told[r] stands after it. *)
Tells(r) == \A o \in told'[r] \ told[r] : Stands(r, o, file'.choices[r], file'.floor)

LEMMA TellOne ==
    ASSUME IInv, NEW r \in Ref, NEW o, Tell(r, o),
           \A x \in o : Stands(r, x, file'.choices[r], file'.floor)
    PROVE  \A y \in Ref : Tells(y)
BY DEF Tell, Tells, IInv, Types

LEMMA TellNone ==
    ASSUME told' = told
    PROVE  \A y \in Ref : Tells(y)
BY DEF Tells

LEMMA AskTells ==
    ASSUME IInv, NEW q \in Request, AskChoice(q)
    PROVE  \A y \in Ref : Tells(y)
<1> DEFINE r == q.ref
<1>1. PICK e \in Openings(file) : \E now \in Readings(e.book) : AskAt(q, e, now)
  BY DEF AskChoice
<1>2. PICK now \in Readings(e.book) : AskAt(q, e, now)
  BY <1>1
<1> DEFINE f == e.book
           a == f.choices[r]
<1>3. f \in Files /\ now \in Int /\ f.floor \in Int /\ r \in Ref /\ ReplayUntil[r] \in Int
  BY OpeningFacts, ReadingsAhead, RequestAssumption, ReferenceAssumption DEF IInv, GoodFile, Files
<1>4. CASE now >= ReplayUntil[r] /\ Commit(e, Noted(f, now)) /\ Tell(r, {Expired})
  <2>1. file'.floor \in Int /\ file'.floor >= now
    BY <1>3, <1>4, NotedFacts DEF Commit, Files
  <2> QED
    BY <1>3, <1>4, <2>1, TellOne DEF Stands
<1>5. CASE Commit(e, f) /\ Tell(r, IF a.req = q THEN Terminal(a) ELSE {})
  <2>1. file' = f
    BY <1>5 DEF Commit
  <2> QED
    BY <1>3, <1>5, <2>1, TellOne, TerminalStands
<1>6. CASE a = Absent /\ now >= q.pendingUntil /\ Commit(e, Noted(f, now)) /\ Tell(r, {Lapsed(q)})
  <2>1. file' = Noted(f, now) /\ file'.choices = f.choices /\ file'.floor \in Int /\ file'.floor >= now
    BY <1>3, <1>6, NotedFacts DEF Commit, Files
  <2>2. q.pendingUntil \in Int /\ None # q
    BY RequestAssumption, NoneAssumption
  <2>3. Aged(r, Absent, file'.floor).req = None
    BY DEF Aged, Absent
  <2>4. Stands(r, Lapsed(q), file'.choices[r], file'.floor)
    BY <1>3, <1>6, <2>1, <2>2, <2>3 DEF Stands, Lapsed, Lapse
  <2> QED
    BY <1>3, <1>6, <2>4, TellOne
<1> QED
  BY <1>2, <1>4, <1>5, <1>6, TellNone DEF AskAt

Written(f, r, b, now) == Noted([f EXCEPT !.choices[r] = b], now)

LEMMA WrittenFacts ==
    ASSUME NEW f \in Files, NEW r \in Ref, NEW b \in Admission, NEW now \in Int, now >= f.floor
    PROVE  /\ Written(f, r, b, now) \in Files
           /\ Written(f, r, b, now).choices[r] = b
           /\ Written(f, r, b, now).floor = now
<1> DEFINE u == [f EXCEPT !.choices[r] = b]
<1>1. u \in Files /\ u.floor = f.floor /\ u.choices[r] = b
  BY DEF Files
<1> HIDE DEF u
<1>2. Noted(u, now) \in Files /\ Noted(u, now).choices = u.choices /\ Noted(u, now).floor = now
  BY <1>1, NotedFacts
<1>3. Written(f, r, b, now) = Noted(u, now)
  BY DEF Written, u
<1> QED
  BY <1>1, <1>2, <1>3

(* A caller told what the admission it just wrote shows. *)
LEMMA WrittenTells ==
    ASSUME IInv, NEW f \in Files, NEW r \in Ref, NEW b \in Admission,
           NEW now \in Int, now >= f.floor,
           file'.choices = Written(f, r, b, now).choices,
           file'.floor = Written(f, r, b, now).floor,
           NEW o, Tell(r, o), o \subseteq Terminal(b)
    PROVE  \A y \in Ref : Tells(y)
<1>1. file'.choices[r] = b /\ file'.floor = now
  BY WrittenFacts
<1>2. \A x \in o : Stands(r, x, file'.choices[r], file'.floor)
  BY <1>1, TerminalStands
<1> QED
  BY <1>2, TellOne

(* A caller told that the replay deadline has passed, at a time it commits. *)
LEMMA PassedTells ==
    ASSUME IInv, NEW f \in Files, NEW r \in Ref, NEW now \in Int, now >= ReplayUntil[r],
           file' = Noted(f, now), Tell(r, {Expired})
    PROVE  \A y \in Ref : Tells(y)
<1>1. file'.floor \in Int /\ file'.floor >= now /\ ReplayUntil[r] \in Int
  BY NotedFacts, ReferenceAssumption DEF Files
<1> QED
  BY <1>1, TellOne DEF Stands

LEMMA DecideTells ==
    ASSUME IInv, NEW route \in Routes, NEW r \in Ref, NEW n,
           NEW option \in Option \cup {None}, NEW by \in Program, NEW ifPending,
           Decide(route, r, n, option, by, ifPending)
    PROVE  \A y \in Ref : Tells(y)
<1>1. PICK e \in Openings(file) : \E now \in Readings(e.book) :
              DecideAt(route, r, n, option, by, ifPending, e, now)
  BY DEF Decide
<1>2. PICK now \in Readings(e.book) : DecideAt(route, r, n, option, by, ifPending, e, now)
  BY <1>1
<1> DEFINE f == e.book
           a == f.choices[r]
           d == [option |-> option, at |-> now, by |-> by]
           b == [a EXCEPT !.state = IF option = None THEN "dismissed" ELSE "answered",
                          !.answer = d, !.route = route]
           g == Written(f, r, b, now)
           entry == [id |-> <<r, a.id>>, at |-> now]
           x == [a EXCEPT !.state = "expired"]
           h == Written(f, r, x, now)
<1>3. f \in Files /\ now \in Int /\ now >= f.floor /\ ReplayUntil[r] \in Int
  BY OpeningFacts, ReadingsAhead, ReferenceAssumption DEF IInv, GoodFile, Files
<1>4. a \in Admission
  BY <1>3 DEF Files
<1>5. x \in Admission /\ x.state = "expired"
  BY <1>4 DEF Admission
<1>6. b \in Admission
  <2>1. d \in Answers
    BY <1>3 DEF Answers
  <2> QED
    BY <1>4, <2>1 DEF Admission
<1>7. entry \in AuditEntry
  BY <1>3, <1>4 DEF AuditEntry, AnswerID, Admission
<1>8. Gone \in Terminal(a) <=> a.state = "gone"
  BY DEF Terminal, Gone, Expired, Decided
<1>9. Terminal(x) = {Expired}
  <2> HIDE DEF x
  <2> QED
    BY <1>5 DEF Terminal, Decided
<1>10. g \in Files /\ g.choices[r] = b
  <2> HIDE DEF a, b, x, d, entry, h
  <2> QED
    BY <1>3, <1>6, WrittenFacts
<1>11. /\ g = Noted([f EXCEPT !.choices[r] =
                [@ EXCEPT !.state = IF option = None THEN "dismissed" ELSE "answered",
                          !.answer = d, !.route = route]], now)
       /\ h = Noted([f EXCEPT !.choices[r] = [@ EXCEPT !.state = "expired"]], now)
  BY <1>3 DEF Files, Written
<1>12. \/ told' = told
       \/ now >= ReplayUntil[r] /\ Commit(e, Noted(f, now)) /\ Tell(r, {Expired})
       \/ Commit(e, f) /\ \E o : Tell(r, o) /\ o \subseteq Terminal(a)
       \/ Commit(e, h) /\ Tell(r, {Expired})
       \/ /\ Tell(r, Terminal(g.choices[r]))
          /\ Commit(e, g) \/ \E k \in Audited(g, entry) : Commit(e, k)
  <2> HIDE DEF g, h, x, b
  <2> QED
    BY <1>2, <1>8, <1>11 DEF DecideAt
<1> HIDE DEF a, b, x, d, entry
<1>13. CASE now >= ReplayUntil[r] /\ Commit(e, Noted(f, now)) /\ Tell(r, {Expired})
  BY <1>3, <1>13, PassedTells DEF Commit
<1>14. CASE Commit(e, f) /\ \E o : Tell(r, o) /\ o \subseteq Terminal(a)
  <2>1. file'.choices[r] = a /\ file'.floor \in Int
    BY <1>3, <1>14 DEF Commit, Files, a
  <2> QED
    BY <1>14, <2>1, TellOne, TerminalStands
<1>15. CASE Commit(e, h) /\ Tell(r, {Expired})
  BY <1>3, <1>5, <1>9, <1>15, WrittenTells DEF Commit
<1>16. CASE /\ Tell(r, Terminal(g.choices[r]))
            /\ Commit(e, g) \/ \E k \in Audited(g, entry) : Commit(e, k)
  <2>1. file'.choices = g.choices /\ file'.floor = g.floor
    <3> HIDE DEF g
    <3> QED
      BY <1>7, <1>10, <1>16, AuditedFacts DEF Commit
  <2> QED
    BY <1>3, <1>6, <1>10, <1>16, <2>1, WrittenTells
<1> QED
  BY <1>12, <1>13, <1>14, <1>15, <1>16, TellNone

LEMMA AcknowledgeTells ==
    ASSUME IInv, NEW r \in Ref, AcknowledgeChoice(r)
    PROVE  \A y \in Ref : Tells(y)
<1>1. PICK e \in Openings(file) : \E now \in Readings(e.book) : AcknowledgeAt(r, e, now)
  BY DEF AcknowledgeChoice
<1>2. PICK now \in Readings(e.book) : AcknowledgeAt(r, e, now)
  BY <1>1
<1>3. e.book \in Files /\ now \in Int
  BY OpeningFacts, ReadingsAhead DEF IInv, GoodFile, Files
<1>4. CASE told' = told
  BY <1>4, TellNone
<1>5. CASE now >= ReplayUntil[r] /\ file' = Noted(e.book, now) /\ Tell(r, {Expired})
  BY <1>3, <1>5, PassedTells
<1> QED
  BY <1>2, <1>4, <1>5 DEF AcknowledgeAt, Commit

(* What a read reports of the file it leaves behind stands. *)
LEMMA ViewStands ==
    ASSUME NEW f \in Files, NEW r \in Ref, NEW o \in Terminal(View(f, r))
    PROVE  Stands(r, o, f.choices[r], f.floor)
<1>1. View(f, r) = Aged(r, f.choices[r], f.floor)
  <2>1. f.floor \in Int
    BY DEF Files
  <2>2. Collected(f, f.floor).choices = [x \in Ref |-> Aged(x, f.choices[x], f.floor)]
    BY <2>1, CollectedFacts
  <2> QED
    BY <2>2 DEF View, AtFloor
<1> QED
  BY <1>1 DEF Stands

LEMMA ObserveTells ==
    ASSUME IInv, NEW r \in Ref, ObserveChoice(r)
    PROVE  \A y \in Ref : Tells(y)
<1>1. PICK p \in AfterRead(file) : \E now \in Readings(p.book) : ObserveChoice(r)!(p)!(now)
  BY DEF ObserveChoice
<1>2. PICK now \in Readings(p.book) : ObserveChoice(r)!(p)!(now)
  BY <1>1
<1> DEFINE f == p.book
<1>3. GoodFile(f) /\ f \in Files /\ f.floor \in Int /\ now \in Int /\ now >= f.floor /\ ReplayUntil[r] \in Int
  BY AfterReadFacts, ReadingsAhead, ReferenceAssumption DEF IInv, GoodFile, Files, Types
<1>4. CASE now >= ReplayUntil[r] /\ Tell(r, {Expired})
  <2>1. CASE \E e \in Openings(f) : file' = Noted(e.book, now)
    BY <1>3, <1>4, <2>1, OpeningFacts, PassedTells DEF GoodFile
  <2>2. CASE file' = f /\ ~(now > f.floor)
    <3>1. file'.floor >= ReplayUntil[r]
      BY <1>3, <1>4, <2>2
    <3> QED
      BY <1>4, <3>1, TellOne DEF Stands
  <2> QED
    BY <1>2, <1>4, <1>3, <2>1, <2>2 DEF Commit
<1>5. CASE file' = f /\ Tell(r, Terminal(View(f, r)))
  BY <1>3, <1>5, TellOne, ViewStands
<1> QED
  BY <1>2, <1>4, <1>5 DEF Commit

LEMMA HistoryTells ==
    ASSUME IInv, ChoiceHistory
    PROVE  \A y \in Ref : Tells(y)
<1>1. PICK p \in AfterRead(file) :
         /\ file' = p.book
         /\ told' = [r \in Ref |-> told[r] \cup (Terminal(View(p.book, r)) \ {Gone})]
  BY DEF ChoiceHistory, Commit
<1>2. p.book \in Files
  BY AfterReadFacts DEF IInv, GoodFile, Types
<1> QED
  BY <1>1, <1>2, ViewStands DEF Tells

LEMMA StepTells ==
    ASSUME IInv, Next
    PROVE  \A y \in Ref : Tells(y)
<1>1. ASSUME NEW r \in Ref, NEW option \in Option \cup {None}, NEW by \in Program,
             NEW ifPending \in BOOLEAN, NEW n \in 1..admitted[r],
             \/ DecideListed(r, n, option, by, ifPending)
             \/ AnswerShared(r, n, option, by)
      PROVE  \A y \in Ref : Tells(y)
  BY <1>1, DecideTells DEF DecideListed, AnswerShared, Routes
<1>2. ASSUME NEW r \in Ref, NEW option \in Option \cup {None}, NEW by \in Program,
             NEW ifPending \in BOOLEAN, DecideOwn(r, option, by, ifPending)
      PROVE  \A y \in Ref : Tells(y)
  BY <1>2, DecideTells DEF DecideOwn, Routes
<1>3. ASSUME NEW k \in Question, AnswerQuestion(k)
      PROVE  told' = told
  BY <1>3 DEF AnswerQuestion
<1>4. OtherEdit => told' = told
  BY DEF OtherEdit
<1> QED
  BY <1>1, <1>2, <1>3, <1>4, AskTells, AcknowledgeTells, ObserveTells, HistoryTells, TellNone
     DEF Next

(* No caller is ever told a terminal outcome that the Book later revises,    *)
(* short of the acknowledgement of that decision or the replay deadline, nor *)
(* that a request expired which the Book later admits (choiceObservation,    *)
(* askChoice, decideChoiceAuthorized, acknowledge_choice).                   *)
THEOREM ToldIsFinal == Spec => []ToldStands
<1>1. Init => ToldStands
  BY DEF Init, ToldStands
<1>2. IInv /\ IInv' /\ ToldStands /\ [Next]_vars => ToldStands'
  <2>1. ASSUME IInv, IInv', ToldStands, Next
        PROVE  ToldStands'
    <3>1. file \in Files /\ file' \in Files
      BY <2>1 DEF IInv, GoodFile
    <3>2. SUFFICES ASSUME NEW r \in Ref, NEW o \in told'[r]
                   PROVE  Stands(r, o, file'.choices[r], file'.floor)
      BY <3>1, StandsNext
    <3>3. CASE o \in told[r]
      <4>1. Stands(r, o, file.choices[r], file.floor)
        BY <2>1, <3>1, <3>3, StandsIs
      <4> QED
        BY <2>1, <4>1, OldStands, StepShape
    <3>4. CASE o \notin told[r]
      BY <2>1, <3>4, StepTells DEF Tells
    <3> QED
      BY <3>3, <3>4
  <2>2. CASE UNCHANGED vars
    BY <2>2 DEF vars, ToldStands, View, AtFloor
  <2> QED
    BY <2>1, <2>2
<1> QED
  BY <1>1, <1>2, Invariance, PTL DEF Spec

-----------------------------------------------------------------------------
(* The file stays valid: the partition of the admissions.                    *)

(* What validation asks of one admission at the floor t, beyond its shape.    *)
Sound(r, a, t) ==
    a # Absent =>
       /\ 0 < t
       /\ ValidAttribution(a)
       /\ a.state # "gone" => ValidRecord(r, a) /\ a.asked <= t
       /\ a.state \in Decided => a.answer.at <= t

SoundFile(f) ==
    /\ \A r \in Ref : Sound(r, f.choices[r], f.floor)
    /\ IsFiniteSet(Held(f)) /\ Cardinality(Held(f)) <= MaxAdmissions

(* Ageing an admission leaves it sound: an expiry keeps the record it had.    *)
LEMMA AgesSound ==
    ASSUME NEW r \in Ref, NEW a \in Admission, NEW b \in Admission, NEW t \in Int, NEW u \in Int,
           t <= u, Sound(r, a, t), GoodRecord(r, a, t), AgesTo(r, a, b, u)
    PROVE  Sound(r, b, u)
<1>1. CASE b = a
  <2>1. a.asked \in Int
    BY DEF Admission
  <2>2. a.state \in Decided => a.answer.at \in Int
    BY DEF GoodRecord, Answers
  <2> QED
    BY <1>1, <2>1, <2>2 DEF Sound
<1>2. CASE b = Absent
  BY <1>2 DEF Sound
<1>3. CASE a.state = "pending" /\ b = [a EXCEPT !.state = "expired"]
  <2>1. /\ b.state = "expired" /\ b.req = a.req /\ b.asked = a.asked /\ b.route = a.route
        /\ b.answer = a.answer /\ a # Absent /\ a.asked \in Int
    BY <1>3 DEF Admission, Absent
  <2>2. a.route = None
    BY <1>3, <2>1 DEF Sound, ValidAttribution, Decided
  <2> QED
    BY <1>3, <2>1, <2>2 DEF Sound, ValidRecord, ValidAttribution, Decided
<1> QED
  BY <1>1, <1>2, <1>3 DEF AgesTo

LEMMA AgesSoundFile ==
    ASSUME NEW f, GoodFile(f), SoundFile(f), NEW g \in Files, Ages(f, g)
    PROVE  SoundFile(g)
<1>1. ASSUME NEW r \in Ref
      PROVE  /\ Sound(r, g.choices[r], g.floor)
             /\ g.choices[r] # Absent => f.choices[r] # Absent
  <2>1. /\ f.choices[r] \in Admission /\ g.choices[r] \in Admission
        /\ f.floor \in Int /\ g.floor \in Int /\ f.floor <= g.floor
        /\ GoodRecord(r, f.choices[r], f.floor) /\ Sound(r, f.choices[r], f.floor)
        /\ AgesTo(r, f.choices[r], g.choices[r], g.floor)
    BY DEF GoodFile, Files, Ages, SoundFile
  <2>2. g.choices[r] # Absent => f.choices[r] # Absent
    BY <2>1 DEF AgesTo, Absent
  <2> QED
    BY <2>1, <2>2, AgesSound
<1>2. Held(g) \subseteq Held(f)
  BY <1>1 DEF Held
<1>3. /\ IsFiniteSet(Held(g)) /\ Cardinality(Held(g)) <= Cardinality(Held(f))
      /\ Cardinality(Held(g)) \in Nat /\ Cardinality(Held(f)) \in Nat
  BY <1>2, FS_Subset, FS_CardinalityType DEF SoundFile
<1> QED
  BY <1>1, <1>3, BoundAssumption DEF SoundFile

(* The admission, decision or acknowledgement of one call leaves its record   *)
(* sound: its own reading of the clock is not behind the file's floor, and so *)
(* not behind the time the occurrence was asked.                              *)
LEMMA MoveSound ==
    ASSUME NEW r \in Ref, NEW a \in Admission, NEW b \in Admission, NEW t \in Int,
           GoodRecord(r, a, t), Sound(r, a, t),
           Admits(r, a, b, t) \/ Decides(r, a, b, t) \/ Acknowledges(r, a, b, t)
    PROVE  Sound(r, b, t)
<1>1. CASE Admits(r, a, b, t)
  <2>1. PICK q \in Request, n \in Nat :
           /\ t < q.pendingUntil
           /\ b = [state |-> "pending", id |-> n, req |-> q, asked |-> t,
                   answer |-> None, route |-> None]
    BY <1>1 DEF Admits
  <2>2. 0 < t /\ ReplayUntil[r] - t <= MaxReplay
    BY <1>1 DEF Admits
  <2>3. b.state = "pending" /\ b.req = q /\ b.asked = t /\ b.answer = None /\ b.route = None
    BY <2>1
  <2>4. ValidRecord(r, b) /\ ValidAttribution(b)
    BY <2>1, <2>2, <2>3, UnsetAssumption DEF ValidRecord, ValidAttribution, Decided, Routes
  <2> QED
    BY <2>2, <2>3, <2>4 DEF Sound, Decided
<1>2. CASE Decides(r, a, b, t)
  <2>1. PICK option \in a.req.options \cup {None}, by \in Program, route \in Routes :
           /\ route = "responder" => option \in a.req.shared
           /\ b = [a EXCEPT !.state = IF option = None THEN "dismissed" ELSE "answered",
                            !.answer = [option |-> option, at |-> t, by |-> by],
                            !.route = route]
    BY <1>2 DEF Decides
  <2>2. /\ a.state = "pending" /\ t < a.req.pendingUntil /\ a # Absent
        /\ a.req \in Request /\ a.req.shared \subseteq Option
    <3>1. a.state = "pending" /\ t < a.req.pendingUntil
      BY <1>2 DEF Decides
    <3>2. a # Absent /\ a.req \in Request
      BY <3>1 DEF Absent, GoodRecord
    <3>3. a.req.options \subseteq Option /\ a.req.shared \subseteq a.req.options
      BY <3>2, RequestAssumption
    <3> QED
      BY <3>1, <3>2, <3>3
  <2>3. /\ b.state = IF option = None THEN "dismissed" ELSE "answered"
        /\ b.req = a.req /\ b.asked = a.asked /\ b.route = route
        /\ b.answer = [option |-> option, at |-> t, by |-> by]
    BY <2>1 DEF Admission
  <2>4. 0 < t /\ a.asked <= t /\ 0 < a.asked /\ a.asked < a.req.pendingUntil
        /\ ReplayUntil[r] - a.asked <= MaxReplay
    BY <2>2 DEF Sound, ValidRecord
  <2>5. ValidAttribution(b)
    BY <2>1, <2>2, <2>3, NoneAssumption DEF ValidAttribution, Decided
  <2>6. ValidRecord(r, b)
    BY <2>1, <2>2, <2>3, <2>4 DEF ValidRecord, Decided
  <2>7. b.state \in Decided /\ b.answer.at = t
    BY <2>3 DEF Decided
  <2> QED
    BY <2>3, <2>4, <2>5, <2>6, <2>7 DEF Sound
<1>3. CASE Acknowledges(r, a, b, t)
  <2>1. b.state = "gone" /\ b.route = None
    BY <1>3 DEF Acknowledges, Admission
  <2>2. 0 < t
    BY <1>3 DEF Acknowledges, Sound, Absent, Decided
  <2> QED
    BY <2>1, <2>2, UnsetAssumption DEF Sound, ValidAttribution, Decided, Routes
<1> QED
  BY <1>1, <1>2, <1>3

LEMMA MoveSoundFile ==
    ASSUME IInv, SoundFile(file), NEW r \in Ref, NEW g \in Files, Moves(r, g), file' \in Files
    PROVE  SoundFile(file')
<1>1. GoodFile(g) /\ SoundFile(g) /\ file'.floor = g.floor
  BY AgesSoundFile DEF IInv, Moves
<1>2. \A y \in Ref : y # r => file'.choices[y] = g.choices[y]
  BY DEF Moves, Files
<1>3. Sound(r, file'.choices[r], file'.floor)
  <2>1. /\ g.choices[r] \in Admission /\ file'.choices[r] \in Admission /\ g.floor \in Int
        /\ GoodRecord(r, g.choices[r], g.floor) /\ Sound(r, g.choices[r], g.floor)
    BY <1>1 DEF GoodFile, Files, SoundFile
  <2> QED
    BY <1>1, <2>1, MoveSound DEF Moves
<1>4. CASE Cardinality(Held(g)) < MaxAdmissions
  <2>1. Held(file') \subseteq Held(g) \cup {r}
    BY <1>2 DEF Held
  <2>2. /\ IsFiniteSet(Held(g) \cup {r})
        /\ Cardinality(Held(g) \cup {r}) <= Cardinality(Held(g)) + 1
        /\ Cardinality(Held(g)) \in Nat
    <3>1. IsFiniteSet(Held(g)) /\ Cardinality(Held(g)) \in Nat
      BY <1>1, FS_CardinalityType DEF SoundFile
    <3> QED
      BY <3>1, FS_AddElement
  <2>3. /\ IsFiniteSet(Held(file')) /\ Cardinality(Held(file')) <= Cardinality(Held(g) \cup {r})
        /\ Cardinality(Held(file')) \in Nat /\ Cardinality(Held(g) \cup {r}) \in Nat
    BY <2>1, <2>2, FS_Subset, FS_CardinalityType
  <2> QED
    BY <1>1, <1>2, <1>3, <1>4, <2>2, <2>3, BoundAssumption DEF SoundFile
<1>5. CASE g.choices[r] # Absent
  <2>1. Held(file') \subseteq Held(g)
    BY <1>2, <1>5 DEF Held
  <2>2. /\ IsFiniteSet(Held(file')) /\ Cardinality(Held(file')) <= Cardinality(Held(g))
        /\ Cardinality(Held(file')) \in Nat /\ Cardinality(Held(g)) \in Nat
    BY <1>1, <2>1, FS_Subset, FS_CardinalityType DEF SoundFile
  <2> QED
    BY <1>1, <1>2, <1>3, <2>2, BoundAssumption DEF SoundFile
<1>6. Cardinality(Held(g)) < MaxAdmissions \/ g.choices[r] # Absent
  <2>1. Absent.state = "absent"
    BY DEF Absent
  <2>2. \A a, b, t : Decides(r, a, b, t) \/ Acknowledges(r, a, b, t) => a.state \in Decided \cup {"pending"}
    BY DEF Decides, Acknowledges
  <2> QED
    BY <2>1, <2>2 DEF Moves, Decided
<1> QED
  BY <1>4, <1>5, <1>6

LEMMA SoundNext ==
    ASSUME IInv, SoundFile(file), Next
    PROVE  SoundFile(file')
BY StepShape, AgesSoundFile, MoveSoundFile DEF Shape, IInv

-----------------------------------------------------------------------------
(* The audit.                                                                *)

(* The audit of f is one validation accepts, nothing is in it that was not     *)
(* appended, and what was appended of `rec` and is young at `hz` is in it, or  *)
(* is not younger than the eviction it speaks of.                            *)
GoodAudit(f, rec, hz) ==
    /\ \A d \in f.answers : d.at <= f.floor
    /\ \A d, x \in f.answers : d.id = x.id => d = x
    /\ IsFiniteSet(f.answers) /\ Cardinality(f.answers) <= MaxAnswers
    /\ f.answers \subseteq rec
    /\ \A d \in rec : hz - d.at < Retention => d \in f.answers \/ d.at <= f.since

LEMMA SameAudit ==
    ASSUME NEW f \in Files, NEW g \in Files, NEW rec, NEW hz, GoodAudit(f, rec, hz),
           g.answers = f.answers, g.since = f.since, f.floor <= g.floor
    PROVE  GoodAudit(g, rec, hz)
<1>1. f.floor \in Int /\ g.floor \in Int /\ \A d \in f.answers : d.at \in Int
  BY DEF Files, AuditEntry
<1> QED
  BY <1>1 DEF GoodAudit

(* The collection that opens an edit drops only what is past its retention at *)
(* the time it collects at, which the horizon then has reached.               *)
LEMMA OpeningAudit ==
    ASSUME NEW f, GoodFile(f), NEW rec \in SUBSET AuditEntry, NEW hz \in Int,
           GoodAudit(f, rec, hz), NEW e \in Openings(f)
    PROVE  GoodAudit(e.book, rec, Later(hz, e.at))
<1>1. PICK now \in Readings(f), other \in BOOLEAN : e = [book |-> Opened(f, now, other), at |-> now]
  BY DEF Openings
<1>2. now \in Int /\ now >= f.floor /\ f \in Files
  BY ReadingsAhead DEF GoodFile, Files
<1> DEFINE g == Opened(f, now, other)
<1>3. /\ g \in Files /\ f.floor <= g.floor /\ g.floor \in Int /\ f.floor \in Int /\ f.since \in Int
      /\ g.answers = {d \in f.answers : now - d.at < Retention}
      /\ g.since = IF now - f.since >= Retention THEN 0 ELSE f.since
  BY <1>2, OpenedFacts DEF Ages, Files
<1>4. e.book = g /\ e.at = now
  BY <1>1
<1> HIDE DEF g
<1>5. \A d \in rec : d.at \in Int
  BY DEF AuditEntry
<1>6. g.answers \subseteq f.answers
  BY <1>3
<1>7. /\ IsFiniteSet(g.answers) /\ Cardinality(g.answers) <= Cardinality(f.answers)
      /\ Cardinality(g.answers) \in Nat /\ Cardinality(f.answers) \in Nat
  BY <1>6, FS_Subset, FS_CardinalityType DEF GoodAudit
<1>8. Cardinality(g.answers) <= MaxAnswers
  BY <1>7, BoundAssumption DEF GoodAudit
<1>9. ASSUME NEW d \in rec, Later(hz, now) - d.at < Retention
      PROVE  d \in g.answers \/ d.at <= g.since
  <2>1. hz - d.at < Retention /\ now - d.at < Retention
    BY <1>2, <1>5, <1>9, BoundAssumption DEF Later
  <2>2. CASE d \in f.answers
    BY <1>3, <2>1, <2>2
  <2>3. CASE d.at <= f.since
    BY <1>2, <1>3, <1>5, <2>1, <2>3, BoundAssumption
  <2> QED
    BY <2>1, <2>2, <2>3 DEF GoodAudit
<1>10. /\ \A d \in g.answers : d.at <= g.floor
       /\ \A d, x \in g.answers : d.id = x.id => d = x
       /\ g.answers \subseteq rec
  BY <1>3, <1>5, <1>6 DEF GoodAudit
<1> QED
  BY <1>4, <1>7, <1>8, <1>9, <1>10 DEF GoodAudit

(* recordAnswer keeps the entry bound and says up to when it evicted.          *)
LEMMA AppendAudit ==
    ASSUME NEW f \in Files, NEW rec \in SUBSET AuditEntry, NEW hz \in Int, GoodAudit(f, rec, hz),
           NEW d \in AuditEntry, d.at <= f.floor, \A x \in rec : x.id # d.id,
           NEW h \in Audited(f, d)
    PROVE  GoodAudit(h, rec \cup {d}, hz)
<1>1. f.answers \subseteq rec /\ \A x \in f.answers : x.id # d.id
  BY DEF GoodAudit
<1>2. PICK E \in Evictions(f.answers) : \E s \in Watermarks(f, E) :
         h = [f EXCEPT !.answers = (@ \ E) \cup {d}, !.since = s]
  BY <1>1 DEF Audited
<1>3. PICK s \in Watermarks(f, E) : h = [f EXCEPT !.answers = (@ \ E) \cup {d}, !.since = s]
  BY <1>2
<1> DEFINE kept == f.answers \ E
<1>4. /\ E \subseteq f.answers /\ Cardinality(f.answers) + 1 - Cardinality(E) <= MaxAnswers
  BY DEF Evictions
<1>5. f.since \in Int /\ f.floor \in Int /\ \A x \in rec : x.at \in Int
  BY DEF Files, AuditEntry
<1>6. s \in Int /\ f.since <= s /\ \A x \in E : x.at <= s
  BY <1>1, <1>4, <1>5 DEF Watermarks
<1>7. h.answers = kept \cup {d} /\ h.since = s /\ h.floor = f.floor
  BY <1>3 DEF Files
<1>8. /\ IsFiniteSet(E) /\ IsFiniteSet(kept) /\ d \notin kept
      /\ Cardinality(kept) = Cardinality(f.answers) - Cardinality(E)
  <2>1. IsFiniteSet(f.answers) /\ d \notin f.answers /\ f.answers \cap E = E
    BY <1>1, <1>4 DEF GoodAudit
  <2> QED
    BY <1>4, <2>1, FS_Subset, FS_Difference
<1>9. IsFiniteSet(h.answers) /\ Cardinality(h.answers) <= MaxAnswers
  <2>1. Cardinality(kept \cup {d}) = Cardinality(kept) + 1 /\ IsFiniteSet(kept \cup {d})
    BY <1>8, FS_AddElement
  <2>2. Cardinality(f.answers) \in Nat /\ Cardinality(E) \in Nat
    BY <1>8, FS_CardinalityType DEF GoodAudit
  <2> HIDE DEF kept
  <2> QED
    BY <1>4, <1>7, <1>8, <2>1, <2>2
<1>10. ASSUME NEW x \in rec \cup {d}, hz - x.at < Retention
       PROVE  x \in h.answers \/ x.at <= h.since
  <2>1. CASE x = d
    BY <1>7, <2>1
  <2>2. CASE x \in rec /\ x \in E
    BY <1>6, <1>7, <2>2
  <2>3. CASE x \in rec /\ x \notin E
    BY <1>5, <1>6, <1>7, <1>10, <2>3 DEF GoodAudit
  <2> QED
    BY <2>1, <2>2, <2>3
<1>11. \A x, y \in h.answers : x.id = y.id => x = y
  BY <1>1, <1>7 DEF GoodAudit
<1>12. h.answers \subseteq rec \cup {d} /\ \A x \in h.answers : x.at <= h.floor
  BY <1>1, <1>7 DEF GoodAudit
<1> QED
  BY <1>9, <1>10, <1>11, <1>12 DEF GoodAudit

(* The answer of an occurrence is appended once, by the call that decides it. *)
Settled(x) ==
    \A r \in Ref : x.id = <<r, 1>> => admitted[r] = 1 /\ file.choices[r].state # "pending"

AuditInv ==
    /\ GoodAudit(file, recorded, horizon)
    /\ \A x \in recorded : Settled(x)

LEMMA AgesSettled ==
    ASSUME NEW r, NEW a, NEW b, NEW t, AgesTo(r, a, b, t), a.state # "pending"
    PROVE  b.state # "pending"
BY DEF AgesTo, Absent

LEMMA SettledStays ==
    ASSUME IInv, Next, NEW x \in recorded, Settled(x)
    PROVE  Settled(x)'
<1> SUFFICES ASSUME NEW r \in Ref, x.id = <<r, 1>>
             PROVE  admitted'[r] = 1 /\ file'.choices[r].state # "pending"
  BY DEF Settled
<1>1. /\ admitted[r] = 1 /\ file.choices[r].state # "pending" /\ file' \in Files
      /\ file.choices[r] \in Admission
  BY StepShape DEF Settled, Shape, IInv, GoodFile, Files
<1>2. CASE Ages(file, file') /\ admitted' = admitted
  BY <1>1, <1>2, AgesSettled DEF Ages
<1>3. ASSUME NEW y \in Ref, NEW g \in Files, Moves(y, g)
      PROVE  admitted'[r] = 1 /\ file'.choices[r].state # "pending"
  <2>1. g.choices[r].state # "pending"
    BY <1>1, <1>3, AgesSettled DEF Moves, Ages
  <2>2. CASE y # r
    BY <1>1, <1>3, <2>1, <2>2 DEF Moves, Files, IInv
  <2>3. CASE y = r
    <3>1. admitted'[r] = 1
      BY <1>1, <1>3, <2>3, MoveRecord
    <3>2. CASE Acknowledges(r, g.choices[r], file'.choices[r], file'.floor)
      <4>1. g.choices[r] \in Admission
        BY DEF Files
      <4> QED
        BY <3>1, <3>2, <4>1 DEF Acknowledges, Admission
    <3>3. ~Decides(r, g.choices[r], file'.choices[r], file'.floor)
      BY <2>1 DEF Decides
    <3>4. admitted' # [admitted EXCEPT ![r] = @ + 1]
      BY <1>1, <3>1 DEF IInv
    <3> QED
      BY <1>3, <2>3, <3>2, <3>3, <3>4 DEF Moves
  <2> QED
    BY <2>2, <2>3
<1> QED
  BY <1>2, <1>3, StepShape DEF Shape

(* An edit that appends nothing. *)
Keeps ==
    \E e \in Openings(file) :
        /\ file'.answers = e.book.answers /\ file'.since = e.book.since
        /\ e.book.floor <= file'.floor
        /\ horizon' = Later(horizon, e.at)
        /\ recorded' = recorded

LEMMA KeepsAudit ==
    ASSUME IInv, Next, AuditInv, Keeps
    PROVE  AuditInv'
<1>1. PICK e \in Openings(file) :
         /\ file'.answers = e.book.answers /\ file'.since = e.book.since
         /\ e.book.floor <= file'.floor
         /\ horizon' = Later(horizon, e.at)
         /\ recorded' = recorded
  BY DEF Keeps
<1>2. GoodFile(file) /\ e.book \in Files /\ file' \in Files
  BY OpeningFacts, StepShape DEF IInv, GoodFile, Shape
<1>3. GoodAudit(e.book, recorded, Later(horizon, e.at))
  BY <1>2, OpeningAudit DEF IInv, Types, AuditInv
<1>4. GoodAudit(file', recorded, Later(horizon, e.at))
  BY <1>1, <1>2, <1>3, SameAudit
<1> QED
  BY <1>1, <1>4, SettledStays DEF AuditInv

(* One that appends d at its own reading of the clock. *)
LEMMA AppendsAudit ==
    ASSUME IInv, Next, AuditInv, NEW e \in Openings(file), NEW g \in Files, NEW d \in AuditEntry,
           g.answers = e.book.answers, g.since = e.book.since, e.book.floor <= g.floor,
           d.at <= g.floor, \A x \in recorded : x.id # d.id, Settled(d)',
           NEW h \in Audited(g, d), Commit(e, h), recorded' = recorded \cup {d}
    PROVE  AuditInv'
<1>1. GoodFile(file) /\ e.book \in Files /\ e.at \in Int
  BY OpeningFacts DEF IInv, GoodFile
<1>2. GoodAudit(g, recorded, Later(horizon, e.at))
  BY <1>1, OpeningAudit, SameAudit DEF IInv, Types, AuditInv
<1>3. Later(horizon, e.at) \in Int
  BY <1>1 DEF Later, IInv, Types
<1>4. GoodAudit(h, recorded \cup {d}, Later(horizon, e.at))
  BY <1>2, <1>3, AppendAudit DEF IInv, Types
<1> QED
  BY <1>4, SettledStays DEF AuditInv, Commit

-----------------------------------------------------------------------------
(* Every operation keeps the audit. *)

(* Writing an admission is no concern of the audit. *)
LEMMA WriteKeeps ==
    ASSUME NEW f \in Files, NEW r \in Ref, NEW b, NEW now \in Int
    PROVE  LET h == Noted([f EXCEPT !.choices[r] = b], now) IN
           h.answers = f.answers /\ h.since = f.since /\ f.floor <= h.floor
<1> DEFINE u == [f EXCEPT !.choices[r] = b]
           h == Noted(u, now)
<1>1. u.answers = f.answers /\ u.since = f.since /\ u.floor = f.floor /\ f.floor \in Int
  BY DEF Files
<1>2. u = [choices |-> u.choices, floor |-> u.floor, answers |-> u.answers, since |-> u.since]
  BY DEF Files
<1> HIDE DEF u
<1>3. h = [u EXCEPT !.floor = Later(now, @)]
  BY DEF Noted
<1> HIDE DEF h
<1>4. h.answers = f.answers /\ h.since = f.since /\ f.floor <= h.floor
  BY <1>1, <1>2, <1>3 DEF Later
<1> QED
  BY <1>4 DEF h, u

LEMMA AskKeeps ==
    ASSUME IInv, NEW q \in Request, AskChoice(q)
    PROVE  Keeps
<1>0. PICK e \in Openings(file) : \E now \in Readings(e.book) : AskAt(q, e, now)
  BY DEF AskChoice
<1>1. PICK now \in Readings(e.book) : AskAt(q, e, now)
  BY <1>0
<1>2. e.book \in Files /\ e.book.floor \in Int
  BY OpeningFacts DEF IInv, GoodFile, Files
<1>3. now \in Int
  BY <1>2, ReadingsAhead
<1> DEFINE b == [state |-> "pending", id |-> admitted[q.ref] + 1, req |-> q, asked |-> now,
                 answer |-> None, route |-> None]
           h == Noted([e.book EXCEPT !.choices[q.ref] = b], now)
<1>4. file' \in {e.book, Noted(e.book, now), h}
  BY <1>1 DEF AskAt, Commit
<1> HIDE DEF b
<1>6. h.answers = e.book.answers /\ h.since = e.book.since /\ e.book.floor <= h.floor
  BY <1>2, <1>3, WriteKeeps, RequestAssumption
<1> HIDE DEF h
<1>5. file'.answers = e.book.answers /\ file'.since = e.book.since /\ e.book.floor <= file'.floor
  BY <1>2, <1>3, <1>4, <1>6, NotedFacts
<1> QED
  BY <1>1, <1>5 DEF Keeps, AskAt, Commit

LEMMA AcknowledgeKeeps ==
    ASSUME IInv, NEW r \in Ref, AcknowledgeChoice(r)
    PROVE  Keeps
<1>0. PICK e \in Openings(file) : \E now \in Readings(e.book) : AcknowledgeAt(r, e, now)
  BY DEF AcknowledgeChoice
<1>1. PICK now \in Readings(e.book) : AcknowledgeAt(r, e, now)
  BY <1>0
<1>2. e.book \in Files /\ e.book.floor \in Int
  BY OpeningFacts DEF IInv, GoodFile, Files
<1>3. now \in Int
  BY <1>2, ReadingsAhead
<1> DEFINE b == [e.book.choices[r] EXCEPT !.state = "gone", !.asked = 0, !.route = None]
           h == Noted([e.book EXCEPT !.choices[r] = b], now)
<1>4. file' \in {e.book, Noted(e.book, now), h}
  BY <1>1, <1>2 DEF AcknowledgeAt, Commit, Files
<1> HIDE DEF b
<1>6. h.answers = e.book.answers /\ h.since = e.book.since /\ e.book.floor <= h.floor
  BY <1>2, <1>3, WriteKeeps
<1> HIDE DEF h
<1>5. file'.answers = e.book.answers /\ file'.since = e.book.since /\ e.book.floor <= file'.floor
  BY <1>2, <1>3, <1>4, <1>6, NotedFacts
<1> QED
  BY <1>1, <1>5 DEF Keeps, AcknowledgeAt, Commit

LEMMA OtherKeeps ==
    ASSUME IInv, OtherEdit
    PROVE  Keeps
<1>1. PICK e \in Openings(file) :
         /\ Commit(e, e.book) \/ \E now \in Readings(e.book) : Commit(e, Noted(e.book, now))
         /\ recorded' = recorded
  BY DEF OtherEdit
<1>2. e.book \in Files /\ e.book.floor \in Int
  BY OpeningFacts DEF IInv, GoodFile, Files
<1>3. \A now \in Readings(e.book) : now \in Int
  BY <1>2, ReadingsAhead
<1> QED
  BY <1>1, <1>2, <1>3, NotedFacts DEF Keeps, Commit

(* A read either changes nothing or is an edit. *)
LEMMA AfterReadAudit ==
    ASSUME IInv, AuditInv, NEW p \in AfterRead(file)
    PROVE  GoodAudit(p.book, recorded, Later(horizon, p.at))
<1>1. GoodFile(file) /\ horizon \in Int /\ recorded \in SUBSET AuditEntry
      /\ GoodAudit(file, recorded, horizon)
  BY DEF IInv, Types, AuditInv
<1>2. CASE p = [book |-> file, at |-> horizon]
  BY <1>1, <1>2 DEF Later
<1>3. CASE \E e \in Openings(file), now \in Readings(file) : p = [book |-> Noted(e.book, now), at |-> e.at]
  <2>1. PICK e \in Openings(file), now \in Readings(file) : p = [book |-> Noted(e.book, now), at |-> e.at]
    BY <1>3
  <2>2. e.book \in Files /\ e.book.floor \in Int /\ now \in Int
    BY <1>1, OpeningFacts, ReadingsAhead DEF GoodFile, Files
  <2>3. GoodAudit(e.book, recorded, Later(horizon, e.at))
    BY <1>1, OpeningAudit
  <2> QED
    BY <2>1, <2>2, <2>3, NotedFacts, SameAudit
<1> QED
  BY <1>2, <1>3 DEF AfterRead

LEMMA HistoryAudit ==
    ASSUME IInv, Next, AuditInv, ChoiceHistory
    PROVE  AuditInv'
<1>1. PICK p \in AfterRead(file) : Commit(p, p.book) /\ recorded' = recorded
  BY DEF ChoiceHistory
<1>2. GoodAudit(p.book, recorded, Later(horizon, p.at))
  BY AfterReadAudit
<1> QED
  BY <1>1, <1>2, SettledStays DEF AuditInv, Commit

LEMMA ObserveAudit ==
    ASSUME IInv, Next, AuditInv, NEW r \in Ref, ObserveChoice(r)
    PROVE  AuditInv'
<1>0. PICK p \in AfterRead(file) : \E now \in Readings(p.book) :
         /\ recorded' = recorded
         /\ \/ Commit(p, p.book)
            \/ \E e \in Openings(p.book) : Commit([e EXCEPT !.at = Later(@, p.at)], Noted(e.book, now))
  BY DEF ObserveChoice
<1>1. PICK now \in Readings(p.book) :
         /\ recorded' = recorded
         /\ \/ Commit(p, p.book)
            \/ \E e \in Openings(p.book) : Commit([e EXCEPT !.at = Later(@, p.at)], Noted(e.book, now))
  BY <1>0
<1>2. /\ GoodAudit(p.book, recorded, Later(horizon, p.at)) /\ GoodFile(p.book) /\ p.at \in Int
      /\ horizon \in Int /\ recorded \in SUBSET AuditEntry
  BY AfterReadAudit, AfterReadFacts DEF IInv, Types
<1>3. CASE Commit(p, p.book)
  BY <1>1, <1>2, <1>3, SettledStays DEF AuditInv, Commit
<1>4. CASE \E e \in Openings(p.book) : Commit([e EXCEPT !.at = Later(@, p.at)], Noted(e.book, now))
  <2>1. PICK e \in Openings(p.book) : Commit([e EXCEPT !.at = Later(@, p.at)], Noted(e.book, now))
    BY <1>4
  <2>2. e.book \in Files /\ e.book.floor \in Int /\ e.at \in Int /\ now \in Int
    BY <1>2, OpeningFacts, ReadingsAhead DEF GoodFile, Files
  <2>3. [e EXCEPT !.at = Later(@, p.at)].at = Later(e.at, p.at)
    BY DEF Openings
  <2>4. Later(horizon, p.at) \in Int
    BY <1>2 DEF Later
  <2>5. GoodAudit(e.book, recorded, Later(Later(horizon, p.at), e.at))
    BY <1>2, <2>4, OpeningAudit
  <2>6. Later(Later(horizon, p.at), e.at) = Later(horizon, Later(e.at, p.at))
    BY <1>2, <2>2 DEF Later
  <2>7. GoodAudit(Noted(e.book, now), recorded, Later(horizon, Later(e.at, p.at)))
    BY <2>2, <2>5, <2>6, NotedFacts, SameAudit
  <2> QED
    BY <1>1, <2>1, <2>3, <2>7, SettledStays DEF AuditInv, Commit
<1> QED
  BY <1>1, <1>3, <1>4

LEMMA QuestionAudit ==
    ASSUME IInv, Next, AuditInv, NEW k \in Question, AnswerQuestion(k)
    PROVE  AuditInv'
<1> DEFINE entry(now) == [id |-> <<k, 0>>, at |-> now]
<1>0. PICK e \in Openings(file) : \E now \in Readings(e.book) :
         /\ \A x \in recorded : x.id # <<k, 0>>
         /\ \E h \in Audited(Noted(e.book, now), entry(now)) : Commit(e, h)
         /\ recorded' = recorded \cup {entry(now)}
  BY DEF AnswerQuestion
<1>1. PICK now \in Readings(e.book) :
         /\ \A x \in recorded : x.id # <<k, 0>>
         /\ \E h \in Audited(Noted(e.book, now), entry(now)) : Commit(e, h)
         /\ recorded' = recorded \cup {entry(now)}
  BY <1>0
<1>2. e.book \in Files /\ e.book.floor \in Int /\ now \in Int
  BY OpeningFacts, ReadingsAhead DEF IInv, GoodFile, Files
<1>3. PICK h \in Audited(Noted(e.book, now), entry(now)) : Commit(e, h)
  BY <1>1
<1>4. /\ entry(now) \in AuditEntry /\ entry(now).at = now /\ entry(now).id = <<k, 0>>
      /\ Settled(entry(now))'
  BY <1>2 DEF AuditEntry, AnswerID, Settled
<1>5. /\ Noted(e.book, now) \in Files /\ Noted(e.book, now).answers = e.book.answers
      /\ Noted(e.book, now).since = e.book.since
      /\ e.book.floor <= Noted(e.book, now).floor /\ now <= Noted(e.book, now).floor
  BY <1>2, NotedFacts
<1> HIDE DEF entry
<1> QED
  BY <1>1, <1>3, <1>4, <1>5, AppendsAudit

LEMMA DecideAudit ==
    ASSUME IInv, Next, AuditInv, NEW route \in Routes, NEW r \in Ref, NEW n,
           NEW option \in Option \cup {None}, NEW by \in Program, NEW ifPending,
           Decide(route, r, n, option, by, ifPending)
    PROVE  AuditInv'
<1>0. PICK e \in Openings(file) : \E now \in Readings(e.book) :
              DecideAt(route, r, n, option, by, ifPending, e, now)
  BY DEF Decide
<1>1. PICK now \in Readings(e.book) : DecideAt(route, r, n, option, by, ifPending, e, now)
  BY <1>0
<1> DEFINE f == e.book
           a == f.choices[r]
           d == [option |-> option, at |-> now, by |-> by]
           b == [a EXCEPT !.state = IF option = None THEN "dismissed" ELSE "answered",
                          !.answer = d, !.route = route]
           g == Noted([f EXCEPT !.choices[r] = b], now)
           x == Noted([f EXCEPT !.choices[r] = [a EXCEPT !.state = "expired"]], now)
           entry == [id |-> <<r, a.id>>, at |-> now]
<1>2. GoodFile(f) /\ Ages(file, f) /\ f \in Files /\ f.floor \in Int /\ e.at \in Int
  BY OpeningFacts DEF IInv, GoodFile, Files
<1>3. now \in Int /\ now >= f.floor
  BY <1>2, ReadingsAhead
<1>4. \/ recorded' = recorded /\ horizon' = Later(horizon, e.at)
         /\ file' \in {f, Noted(f, now), x, g}
      \/ /\ a.state = "pending" /\ admitted' = admitted
         /\ recorded' = recorded \cup {entry} /\ \E h \in Audited(g, entry) : Commit(e, h)
  <2>1. /\ g = Noted([f EXCEPT !.choices[r] =
                         [@ EXCEPT !.state = IF option = None THEN "dismissed" ELSE "answered",
                                   !.answer = d, !.route = route]], now)
        /\ x = Noted([f EXCEPT !.choices[r] = [@ EXCEPT !.state = "expired"]], now)
    BY <1>2 DEF Files
  <2> HIDE DEF g, b, x
  <2> QED
    BY <1>1, <2>1 DEF DecideAt, Commit
<1>5. CASE recorded' = recorded /\ horizon' = Later(horizon, e.at) /\ file' \in {f, Noted(f, now), x, g}
  <2>1. file'.answers = f.answers /\ file'.since = f.since /\ f.floor <= file'.floor
    <3> DEFINE c == [a EXCEPT !.state = "expired"]
    <3> HIDE DEF b
    <3>1. g.answers = f.answers /\ g.since = f.since /\ f.floor <= g.floor
      BY <1>2, <1>3, WriteKeeps
    <3>2. x = Noted([f EXCEPT !.choices[r] = c], now)
      OBVIOUS
    <3> HIDE DEF c, x
    <3>3. x.answers = f.answers /\ x.since = f.since /\ f.floor <= x.floor
      BY <1>2, <1>3, <3>2, WriteKeeps
    <3> HIDE DEF g
    <3> QED
      BY <1>2, <1>3, <1>5, <3>1, <3>3, NotedFacts
  <2> QED
    BY <1>5, <2>1, KeepsAudit DEF Keeps
<1>6. CASE /\ a.state = "pending" /\ admitted' = admitted
           /\ recorded' = recorded \cup {entry} /\ \E h \in Audited(g, entry) : Commit(e, h)
  <2>1. PICK h \in Audited(g, entry) : Commit(e, h)
    BY <1>6
  <2>2. /\ a \in Admission /\ a # Absent /\ a.id = 1 /\ GoodRecord(r, a, f.floor)
        /\ file.choices[r].state = "pending" /\ admitted[r] = 1
    <3>1. a \in Admission /\ GoodRecord(r, a, f.floor) /\ AgesTo(r, file.choices[r], a, f.floor)
          /\ file.choices[r] \in Admission
      BY <1>2 DEF GoodFile, Files, Ages, IInv
    <3>2. file.choices[r] = a
      BY <1>6, <3>1 DEF AgesTo, Absent, Admission
    <3>3. a # Absent /\ a.id = 1
      BY <1>6, <3>1 DEF Absent, GoodRecord
    <3> QED
      BY <1>6, <3>1, <3>2, <3>3 DEF IInv, Occurrence
  <2>3. d \in Answers /\ entry \in AuditEntry /\ entry.at = now /\ entry.id = <<r, 1>>
    BY <1>3, <2>2 DEF Answers, AuditEntry, AnswerID
  <2>4. b \in Admission /\ b.state # "pending"
    BY <2>2, <2>3 DEF Admission
  <2>5. /\ g \in Files /\ g.choices[r] = b /\ g.floor = now
        /\ g.answers = f.answers /\ g.since = f.since
    <3> HIDE DEF b
    <3>1. f \in Files /\ b \in Admission /\ now \in Int /\ now >= f.floor
      BY <1>2, <1>3, <2>4
    <3>2. g \in Files /\ g.choices = [f.choices EXCEPT ![r] = b] /\ g.choices[r] = b /\ g.floor = now
      BY <3>1, WriteFacts
    <3>3. g.answers = f.answers /\ g.since = f.since
      BY <3>1, WriteKeeps
    <3> QED
      BY <3>2, <3>3
  <2> HIDE DEF g, entry, b
  <2>6. file'.choices[r] = b
    BY <2>1, <2>3, <2>5, AuditedFacts DEF Commit
  <2>7. Settled(entry)'
    BY <1>6, <2>2, <2>3, <2>4, <2>6 DEF Settled
  <2>8. \A y \in recorded : y.id # entry.id
    BY <2>2, <2>3 DEF AuditInv, Settled
  <2> QED
    BY <1>2, <1>3, <1>6, <2>1, <2>3, <2>5, <2>7, <2>8, AppendsAudit
<1> QED
  BY <1>4, <1>5, <1>6

LEMMA AuditNext ==
    ASSUME IInv, AuditInv, Next
    PROVE  AuditInv'
<1>1. ASSUME NEW r \in Ref, NEW option \in Option \cup {None}, NEW by \in Program,
             NEW ifPending \in BOOLEAN, NEW n \in 1..admitted[r],
             \/ DecideListed(r, n, option, by, ifPending)
             \/ AnswerShared(r, n, option, by)
      PROVE  AuditInv'
  BY <1>1, DecideAudit DEF DecideListed, AnswerShared, Routes
<1>2. ASSUME NEW r \in Ref, NEW option \in Option \cup {None}, NEW by \in Program,
             NEW ifPending \in BOOLEAN, DecideOwn(r, option, by, ifPending)
      PROVE  AuditInv'
  BY <1>2, DecideAudit DEF DecideOwn, Routes
<1> QED
  BY <1>1, <1>2, AskKeeps, AcknowledgeKeeps, OtherKeeps, KeepsAudit, ObserveAudit, HistoryAudit,
     QuestionAudit DEF Next

(* Both invariants, together with the one they rest on. *)
FileInv == IInv /\ SoundFile(file) /\ AuditInv

LEMMA InitFileInv == Init => FileInv
<1> SUFFICES ASSUME Init PROVE FileInv
  OBVIOUS
<1>1. Held(file) = {} /\ file.answers = {} /\ recorded = {}
  BY DEF Init, Held
<1>2. IsFiniteSet({}) /\ Cardinality({}) = 0
  BY FS_EmptySet
<1>3. \A r \in Ref : Sound(r, file.choices[r], file.floor)
  BY DEF Init, Sound
<1> QED
  BY <1>1, <1>2, <1>3, InitIInv, BoundAssumption DEF FileInv, SoundFile, AuditInv, GoodAudit

LEMMA FileInvariance == Spec => []FileInv
<1>1. FileInv /\ [Next]_vars => FileInv'
  <2>1. CASE Next
    BY <2>1, NextIInv, SoundNext, AuditNext DEF FileInv
  <2>2. CASE UNCHANGED vars
    BY <2>2 DEF vars, FileInv, IInv, Occurrence, AuditInv, Settled, SoundFile, GoodAudit, Held
  <2> QED
    BY <2>1, <2>2
<1> QED
  BY <1>1, InitFileInv, PTL DEF Spec

(* Every file an edit leaves passes the validation of the next read, for any   *)
(* requests, any clock and any bounds: no sequence of calls makes the Book     *)
(* unreadable (validateChoicePartition, validateAnswers).                      *)
THEOREM FileStaysValid == Spec => []FileValid
<1>1. FileInv => FileValid
  <2> SUFFICES ASSUME FileInv PROVE FileValid
    OBVIOUS
  <2>1. ASSUME NEW r \in Ref, file.choices[r] # Absent
        PROVE  ValidAdmission(r, file.choices[r])
    <3> DEFINE a == file.choices[r]
    <3>1. a \in Admission /\ GoodRecord(r, a, file.floor) /\ Sound(r, a, file.floor)
      BY DEF FileInv, IInv, GoodFile, Files, SoundFile
    <3>2. a.state # "absent"
      BY <2>1, <3>1 DEF GoodRecord
    <3>3. a.req \in Request /\ a.req.ref = r /\ a.req # None
      BY <3>1, <3>2, NoneAssumption DEF GoodRecord
    <3>4. a.answer = None <=> a.state \in {"pending", "expired"}
      BY <3>1, <3>2, UnsetAssumption DEF GoodRecord, Admission, Decided
    <3>5. a.answer # None /\ a.state # "gone" => a.state \in Decided
      BY <3>1, <3>2, <3>4 DEF Admission, Decided
    <3> HIDE DEF a
    <3> QED
      BY <2>1, <3>1, <3>3, <3>4, <3>5 DEF ValidAdmission, Sound, a
  <2>2. ValidAudit
    BY DEF FileInv, AuditInv, GoodAudit, ValidAudit
  <2>3. TypeOK
    BY DEF FileInv, IInv, GoodFile, Files, Types, TypeOK
  <2> QED
    BY <2>1, <2>2, <2>3 DEF FileInv, SoundFile, Held, FileValid
<1> QED
  BY <1>1, FileInvariance, PTL

(* The audit loses no answer silently: what was appended and is younger than   *)
(* its retention is listed, or is not after the time it says it evicted up to  *)
(* (recordAnswer, collectAnswers).                                            *)
THEOREM AuditLosesNothing == Spec => []AuditComplete
<1>1. FileInv => AuditComplete
  BY DEF FileInv, AuditInv, GoodAudit, AuditComplete, ValidAudit
<1> QED
  BY <1>1, FileInvariance, PTL

-----------------------------------------------------------------------------
(* What the contract promises.  A status fits its reference at each time, and  *)
(* what a step makes of it follows from it: time first, then at most one move. *)

(* A status of the contract that fits its reference at time t. *)
Fits(s, r, t) ==
    /\ s \in Contract!Status
    /\ s.is \in Contract!Decided => s.answer \in Contract!Answers
    /\ Contract!InTime(s, r, t)

LEMMA ExpiredFits ==
    ASSUME NEW r, NEW t
    PROVE  Fits(Contract!Expired, r, t)
BY DEF Fits, Contract!Status, Contract!InTime, Contract!Expired, Contract!Decided

LEMMA UnknownFits ==
    ASSUME NEW r, NEW t
    PROVE  Fits(Contract!Unknown, r, t)
BY DEF Fits, Contract!Status, Contract!InTime, Contract!Unknown, Contract!Decided

LEMMA AgedFits ==
    ASSUME NEW r \in Ref, NEW s, NEW t \in Int, NEW u \in Int, t <= u, Fits(s, r, t)
    PROVE  /\ Fits(Contract!Aged(s, r, u), r, u)
           /\ Contract!Follows(s, Contract!Aged(s, r, u))
<1>1. CASE Contract!Aged(s, r, u) = Contract!Expired
  <2>1. Fits(Contract!Aged(s, r, u), r, u)
    BY <1>1, ExpiredFits
  <2>2. Contract!Follows(s, Contract!Expired)
    BY DEF Contract!Follows, Contract!Expired
  <2> QED
    BY <1>1, <2>1, <2>2
<1>2. CASE Contract!Aged(s, r, u) # Contract!Expired
  <2>1. Contract!Aged(s, r, u) = s /\ ~(s.is = "pending" /\ u >= s.req.pendingUntil)
    BY <1>2 DEF Contract!Aged
  <2>2. Contract!Follows(s, s)
    BY DEF Contract!Follows
  <2>3. Contract!InTime(s, r, u)
    <3>1. s.is \in Contract!Decided => s.answer.at \in Int
      BY DEF Fits, Contract!Answers
    <3>2. s.is = "pending" => s.req.pendingUntil \in Int
      BY RequestAssumption DEF Fits, Contract!InTime
    <3> QED
      BY <2>1, <3>1, <3>2 DEF Fits, Contract!InTime, Contract!Decided
  <2> QED
    BY <2>1, <2>2, <2>3 DEF Fits
<1> QED
  BY <1>1, <1>2

LEMMA MoveFits ==
    ASSUME NEW r \in Ref, NEW s, NEW t \in Int, Fits(s, r, t),
           NEW n \in Contract!Successors(s, r, t)
    PROVE  Fits(n, r, t) /\ Contract!Follows(s, n) /\ s # Contract!Expired
<1>0. t < ReplayUntil[r]
  BY ReferenceAssumption DEF Contract!Successors
<1>1. CASE s.is = "unknown"
  <2>1. PICK q \in Request :
          q.ref = r /\ t < q.pendingUntil /\ n = [is |-> "pending", req |-> q, answer |-> None]
    BY <1>0, <1>1, ReferenceAssumption DEF Contract!Successors
  <2>2. n \in Contract!Status
    BY <2>1 DEF Contract!Status
  <2>3. Fits(n, r, t)
    BY <2>1, <2>2 DEF Fits, Contract!InTime, Contract!Decided
  <2>4. Contract!Follows(s, n) /\ s # Contract!Expired
    BY <1>1, <2>1 DEF Contract!Follows, Contract!Expired, Contract!Decided
  <2> QED
    BY <2>3, <2>4
<1>2. CASE s.is = "pending"
  <2>1. PICK d \in [option : s.req.options \cup {None}, at : {t}, by : Program] :
          n = [is |-> IF d.option = None THEN "dismissed" ELSE "answered",
               req |-> s.req, answer |-> d]
    BY <1>0, <1>2, ReferenceAssumption DEF Contract!Successors
  <2>2. s.req \in Request /\ s.req.ref = r /\ t < s.req.pendingUntil
    BY <1>2 DEF Fits, Contract!InTime
  <2>3. d.option \in s.req.options \cup {None} /\ d.at = t
    OBVIOUS
  <2>4. d \in Contract!Answers
    BY <2>2, RequestAssumption DEF Contract!Answers
  <2>5. n \in Contract!Status
    BY <2>1, <2>2, <2>4 DEF Contract!Status
  <2>6. Fits(n, r, t)
    BY <2>1, <2>2, <2>3, <2>4, <2>5 DEF Fits, Contract!InTime, Contract!Decided
  <2>7. Contract!Follows(s, n) /\ s # Contract!Expired
    BY <1>2, <2>1 DEF Contract!Follows, Contract!Expired, Contract!Decided
  <2> QED
    BY <2>6, <2>7
<1>3. CASE s.is \in {"answered", "dismissed"}
  <2>1. n = [s EXCEPT !.is = "gone"]
    BY <1>0, <1>3, ReferenceAssumption DEF Contract!Successors
  <2>2. n.is = "gone" /\ n.req = s.req /\ n.answer = s.answer /\ n \in Contract!Status
    BY <2>1 DEF Fits, Contract!Status
  <2>3. Fits(n, r, t)
    BY <1>3, <2>2 DEF Fits, Contract!InTime, Contract!Decided
  <2>4. Contract!Follows(s, n) /\ s # Contract!Expired
    BY <1>3, <2>2 DEF Contract!Follows, Contract!Expired, Contract!Decided
  <2> QED
    BY <2>3, <2>4
<1> QED
  BY <1>0, <1>1, <1>2, <1>3, ReferenceAssumption DEF Contract!Successors

(* Two moves after one another. *)
LEMMA FollowsOn ==
    ASSUME NEW s, NEW a, NEW n, Contract!Follows(s, a), Contract!Follows(a, n),
           a # Contract!Expired
    PROVE  Contract!Follows(s, n)
BY DEF Contract!Follows, Contract!Expired, Contract!Decided

(* What a step of the contract does to one reference. *)
LEMMA ContractStep ==
    ASSUME Contract!Next, NEW r \in Ref
    PROVE  LET u == Contract!Aged(Status(r), r, file'.floor)
           IN  /\ file'.floor \in Int /\ file'.floor >= file.floor
               /\ Status(r)' = u \/ Status(r)' \in Contract!Successors(u, r, file'.floor)
<1> DEFINE A == Contract!AgedStatus(file'.floor)
<1>1. A = [x \in Ref |-> Contract!Aged(Status(x), x, file'.floor)]
  BY DEF Contract!AgedStatus
<1>2. CASE Contract!Age
  <2>1. [x \in Ref |-> Status(x)'] = A
    BY <1>2 DEF Contract!Age
  <2>2. Status(r)' = [x \in Ref |-> Status(x)'][r]
    OBVIOUS
  <2>3. Status(r)' = Contract!Aged(Status(r), r, file'.floor)
    <3> HIDE DEF A
    <3> QED
      BY <1>1, <2>1, <2>2
  <2> QED
    BY <1>2, <2>3 DEF Contract!Age
<1>3. ASSUME NEW y \in Ref, Contract!Advance(y)
      PROVE  /\ file'.floor \in Int /\ file'.floor >= file.floor
             /\ \/ Status(r)' = A[r]
                \/ Status(r)' \in Contract!Successors(A[r], r, file'.floor)
  <2>1. PICK s \in Contract!Successors(A[y], y, file'.floor) :
          [x \in Ref |-> Status(x)'] = [A EXCEPT ![y] = s]
    BY <1>3 DEF Contract!Advance
  <2>2. Status(r)' = [x \in Ref |-> Status(x)'][r]
    OBVIOUS
  <2>3. DOMAIN A = Ref
    BY <1>1
  <2>4. Status(r)' = IF r = y THEN s ELSE A[r]
    <3> HIDE DEF A
    <3> QED
      BY <2>1, <2>2, <2>3
  <2>5. file'.floor \in Int /\ file'.floor >= file.floor
    BY <1>3 DEF Contract!Advance
  <2> HIDE DEF A
  <2> QED
    BY <2>1, <2>4, <2>5
<1>4. A[r] = Contract!Aged(Status(r), r, file'.floor)
  BY <1>1
<1> HIDE DEF A
<1> QED
  BY <1>2, <1>3, <1>4 DEF Contract!Next

(* The inductive invariant of the contract. *)
Fit == file.floor \in Int /\ \A r \in Ref : Fits(Status(r), r, file.floor)

LEMMA ContractTime ==
    ASSUME Contract!Next
    PROVE  file'.floor \in Int /\ file'.floor >= file.floor
BY DEF Contract!Next, Contract!Age, Contract!Advance

LEMMA FitNext ==
    ASSUME Fit, Contract!Next
    PROVE  /\ Fit'
           /\ file'.floor >= file.floor
           /\ \A r \in Ref : Contract!Follows(Status(r), Status(r)')
<1>1. ASSUME NEW r \in Ref
      PROVE  /\ file'.floor \in Int /\ file'.floor >= file.floor
             /\ Fits(Status(r)', r, file'.floor)
             /\ Contract!Follows(Status(r), Status(r)')
  <2> DEFINE t == file'.floor
             u == Contract!Aged(Status(r), r, t)
  <2>1. t \in Int /\ t >= file.floor /\ (Status(r)' = u \/ Status(r)' \in Contract!Successors(u, r, t))
    BY ContractStep
  <2>2. Fits(u, r, t) /\ Contract!Follows(Status(r), u)
    BY <2>1, AgedFits DEF Fit
  <2> HIDE DEF u
  <2>3. CASE Status(r)' = u
    BY <2>1, <2>2, <2>3
  <2>4. CASE Status(r)' \in Contract!Successors(u, r, t)
    <3>1. Fits(Status(r)', r, t) /\ Contract!Follows(u, Status(r)') /\ u # Contract!Expired
      BY <2>1, <2>2, <2>4, MoveFits
    <3> QED
      BY <2>1, <2>2, <3>1, FollowsOn
  <2> QED
    BY <2>1, <2>3, <2>4
<1>2. file'.floor \in Int /\ file'.floor >= file.floor
  BY ContractTime
<1> QED
  BY <1>1, <1>2 DEF Fit

LEMMA FitInit == Contract!Init => Fit
<1> SUFFICES ASSUME Contract!Init
             PROVE  Fit
  OBVIOUS
<1>1. file.floor = 0 /\ \A r \in Ref : Status(r) = Contract!Unknown
  BY DEF Contract!Init
<1> QED
  BY <1>1, UnknownFits DEF Fit

LEMMA FitUnchanged ==
    ASSUME Fit, UNCHANGED Contract!vars
    PROVE  Fit' /\ UNCHANGED <<file.floor, [r \in Ref |-> Status(r)]>>
<1>1. file'.floor = file.floor /\ [r \in Ref |-> Status(r)'] = [r \in Ref |-> Status(r)]
  BY DEF Contract!vars
<1>2. \A r \in Ref : Status(r)' = Status(r)
  BY <1>1
<1> QED
  BY <1>1, <1>2 DEF Fit

LEMMA ContractFits == Contract!Spec => []Fit
<1>1. Contract!Init => Fit
  BY FitInit
<1>2. Fit /\ [Contract!Next]_(Contract!vars) => Fit'
  BY FitNext, FitUnchanged
<1> QED
  BY <1>1, <1>2, PTL DEF Contract!Spec

(* What the contract promises of the decision: it was made for the request     *)
(* that was admitted, on one of its options, before its deadline.             *)
THEOREM ContractDecidesInTime == Spec => []Contract!DecidedInTime
<1>1. Fit => Contract!DecidedInTime
  <2>1. Fit => \A r \in Ref : Contract!InTime(Status(r), r, file.floor)
    BY DEF Fit, Fits
  <2>2. \A r \in Ref : [x \in Ref |-> Status(x)][r] = Status(r)
    OBVIOUS
  <2> QED
    BY <2>1, <2>2 DEF Contract!DecidedInTime
<1> QED
  BY <1>1, ContractFits, Implementation, PTL DEF ImplementsContract

(* The decision of a reference is its only one: it stays until it is           *)
(* acknowledged or its replay deadline passes, and no step takes service time *)
(* back or makes an expired reference anything else.                          *)
THEOREM ContractDecidesOnce == Spec => Contract!DecidedOnce
<1>1. Fit /\ Contract!Next => Contract!Onward
  <2>1. ASSUME NEW r \in Ref
        PROVE  /\ [x \in Ref |-> Status(x)][r] = Status(r)
               /\ [x \in Ref |-> Status(x)'][r] = Status(r)'
    OBVIOUS
  <2> QED
    BY <2>1, FitNext DEF Contract!Onward
<1>2. Fit /\ [Contract!Next]_(Contract!vars) => [Contract!Onward]_(Contract!vars)
  BY <1>1
<1> QED
  BY <1>2, ContractFits, Implementation, PTL
  DEF ImplementsContract, Contract!Spec, Contract!DecidedOnce

=============================================================================
