-------------------------- MODULE QuestionBookProofs --------------------------
(***************************************************************************)
(* Theorems about QuestionBook, for any requests, options, clock and bounds.  *)
(*                                                                         *)
(* Good says of a file what every edit keeps.  Two of its parts are there for *)
(* the others: an occurrence that was never given an id has no record and no  *)
(* name (Issued), so that a new one inherits nothing; and every record is     *)
(* named (Owned), so that a record which goes without its names leaves them   *)
(* behind.  Expiry, removal, release and withdrawal only take records and     *)
(* names away (Less), which keeps all of it; an answer, a further name and a  *)
(* new occurrence are looked at one by one.                                  *)
(***************************************************************************)
EXTENDS QuestionBook, FiniteSetTheorems, TLAPS

FileType == [asks : [ID -> Record \cup {None}], admissions : SUBSET Admission]

Issued(f, k) ==
    /\ \A i \in Retained(f) : i <= k
    /\ \A n \in f.admissions : n.id <= k

Owned(f) == \A i \in Retained(f) : \E n \in f.admissions : n.id = i

OneKey(f) == \A m, n \in f.admissions : m.scope = n.scope /\ m.key = n.key => m = n

Offers(f) == \A i \in Answered(f) : f.asks[i].option \in Offered[f.asks[i].content]

Room(f) ==
    /\ IsFiniteSet(f.admissions)
    /\ Cardinality(f.admissions) <= MaxAdmissions
    /\ Cardinality(Retained(f)) <= MaxAdmissions

OneInWords(f) ==
    \A m, n \in f.admissions :
        /\ m.scope = n.scope /\ m.content = n.content
        /\ m.id \in Standing(f) /\ n.id \in Standing(f)
        => m.id = n.id

OneOfEffect(f) ==
    \A i, j \in Pending(f) :
        /\ f.asks[i].content \in Typed /\ f.asks[j].content \in Typed
        /\ Effect[f.asks[i].content] = Effect[f.asks[j].content]
        => i = j

(* The content c was asked in the words d, or for the same effect. *)
SameMeaning(c, d) == c = d \/ ({c, d} \subseteq Typed /\ Effect[c] = Effect[d])

Meant(f) == \A n \in f.admissions : n.id \in Retained(f) => SameMeaning(f.asks[n.id].content, n.content)

Good(f, k) ==
    /\ f \in FileType
    /\ Issued(f, k) /\ Owned(f) /\ OneKey(f) /\ Offers(f) /\ Room(f)
    /\ OneInWords(f) /\ OneOfEffect(f) /\ Meant(f)

Histories ==
    /\ issued \in 0 .. MaxIssued
    /\ shown \in [ID -> SUBSET Option]
    /\ lapsed \subseteq ID
    /\ blind \subseteq ID

IInv == Good(file, issued) /\ Histories

-----------------------------------------------------------------------------
(* Records and names. *)

LEMMA RecordFacts ==
    ASSUME NEW f \in FileType
    PROVE  /\ f.admissions \subseteq Admission /\ Retained(f) \subseteq ID
           /\ \A i \in ID : i \in Retained(f) <=> f.asks[i] \in Record
           /\ \A i \in Retained(f) : f.asks[i] \in Record
           /\ \A n \in f.admissions : n.id \in ID /\ n.content \in Content /\ n.scope \in Scope /\ n.key \in Key
           /\ Pending(f) \subseteq Retained(f) /\ Answered(f) \subseteq Retained(f)
           /\ Standing(f) \subseteq Retained(f)
BY UnsetAssumption DEF FileType, Retained, Pending, Answered, Standing, Admission

LEMMA RetainedFinite ==
    ASSUME NEW f \in FileType
    PROVE  IsFiniteSet(Retained(f)) /\ Cardinality(Retained(f)) \in Nat
<1>1. IsFiniteSet(ID)
  BY BoundAssumption, FS_Interval DEF ID
<1>2. Retained(f) \in SUBSET ID
  BY RecordFacts
<1> QED
  BY <1>1, <1>2, FS_Subset, FS_CardinalityType

LEMMA BuriedFacts ==
    ASSUME NEW f \in FileType, NEW S
    PROVE  /\ Buried(f, S) \in FileType
           /\ Buried(f, S).admissions = f.admissions
           /\ Retained(Buried(f, S)) = Retained(f) \ S
           /\ \A i \in Retained(f) \ S : Buried(f, S).asks[i] = f.asks[i]
<1> DEFINE g == Buried(f, S)
<1>1. f.asks \in [ID -> Record \cup {None}] /\ f.admissions \in SUBSET Admission
  BY DEF FileType
<1>2. /\ g.asks = [i \in ID |-> IF i \in S THEN None ELSE f.asks[i]]
      /\ g.admissions = f.admissions
  BY DEF Buried, FileType
<1>3. g.asks \in [ID -> Record \cup {None}]
  BY <1>1, <1>2
<1>4. g \in FileType
  BY <1>1, <1>3 DEF Buried, FileType
<1>5. \A i \in ID : g.asks[i] = IF i \in S THEN None ELSE f.asks[i]
  BY <1>2
<1> HIDE DEF g
<1> QED
  BY <1>2, <1>4, <1>5 DEF Retained, g

LEMMA WithoutFacts ==
    ASSUME NEW f \in FileType, NEW S
    PROVE  /\ Without(f, S) \in FileType
           /\ Without(f, S).admissions = {n \in f.admissions : n.id \notin S}
           /\ Retained(Without(f, S)) = Retained(f) \ S
           /\ \A i \in Retained(f) \ S : Without(f, S).asks[i] = f.asks[i]
<1> DEFINE b == Buried(f, S)
           g == Without(f, S)
<1>1. /\ b \in FileType /\ b.admissions = f.admissions
      /\ Retained(b) = Retained(f) \ S
      /\ \A i \in Retained(f) \ S : b.asks[i] = f.asks[i]
  BY BuriedFacts
<1>2. g = [b EXCEPT !.admissions = {n \in @ : n.id \notin S}]
  BY DEF Without
<1> HIDE DEF b, g
<1>3. g \in FileType /\ g.asks = b.asks /\ g.admissions = {n \in b.admissions : n.id \notin S}
  BY <1>1, <1>2 DEF FileType
<1>4. Retained(g) = Retained(b)
  BY <1>3 DEF Retained
<1> QED
  BY <1>1, <1>3, <1>4 DEF g

(* g is f without some of its records and names, and no record without a name. *)
Less(f, g) ==
    /\ g \in FileType
    /\ g.admissions \subseteq f.admissions
    /\ \A i \in Retained(g) :
          /\ i \in Retained(f) /\ g.asks[i] = f.asks[i]
          /\ \E n \in g.admissions : n.id = i

LEMMA BuriedLess ==
    ASSUME NEW f, NEW k, Good(f, k), NEW S
    PROVE  Less(f, Buried(f, S))
BY BuriedFacts DEF Good, Owned, Less

LEMMA WithoutLess ==
    ASSUME NEW f, NEW k, Good(f, k), NEW S
    PROVE  Less(f, Without(f, S))
BY WithoutFacts DEF Good, Owned, Less

LEMMA LessKinds ==
    ASSUME NEW f \in FileType, NEW g, Less(f, g)
    PROVE  /\ Retained(g) \subseteq Retained(f)
           /\ \A i \in Retained(g) : /\ i \in Pending(g) <=> i \in Pending(f)
                                     /\ i \in Answered(g) <=> i \in Answered(f)
                                     /\ i \in Standing(g) <=> i \in Standing(f)
BY DEF Less, Pending, Answered, Standing

(* What is only taken away breaks nothing. *)
LEMMA LessGood ==
    ASSUME NEW f, NEW k, Good(f, k), NEW g, Less(f, g)
    PROVE  Good(g, k)
<1>1. /\ f \in FileType /\ g \in FileType /\ g.admissions \subseteq f.admissions
      /\ Retained(g) \subseteq Retained(f)
      /\ \A i \in Retained(g) : g.asks[i] = f.asks[i] /\ \E n \in g.admissions : n.id = i
      /\ \A i \in Retained(g) : /\ i \in Pending(g) <=> i \in Pending(f)
                                /\ i \in Answered(g) <=> i \in Answered(f)
                                /\ i \in Standing(g) <=> i \in Standing(f)
      /\ Pending(g) \subseteq Retained(g) /\ Answered(g) \subseteq Retained(g)
      /\ Standing(g) \subseteq Retained(g)
  BY LessKinds, RecordFacts DEF Good, Less
<1>2. Issued(g, k) /\ Owned(g)
  BY <1>1 DEF Good, Issued, Owned
<1>3. OneKey(g)
  BY <1>1 DEF Good, OneKey
<1>4. Offers(g)
  BY <1>1 DEF Good, Offers
<1>5. Room(g)
  <2>1. IsFiniteSet(f.admissions) /\ Cardinality(f.admissions) <= MaxAdmissions
        /\ Cardinality(Retained(f)) <= MaxAdmissions
    BY DEF Good, Room
  <2>2. /\ IsFiniteSet(g.admissions) /\ Cardinality(g.admissions) <= Cardinality(f.admissions)
        /\ Cardinality(g.admissions) \in Nat /\ Cardinality(f.admissions) \in Nat
    BY <1>1, <2>1, FS_Subset, FS_CardinalityType
  <2>3. /\ Cardinality(Retained(g)) <= Cardinality(Retained(f))
        /\ Cardinality(Retained(g)) \in Nat /\ Cardinality(Retained(f)) \in Nat
    BY <1>1, RetainedFinite, FS_Subset
  <2> QED
    BY <2>1, <2>2, <2>3, BoundAssumption DEF Room
<1>6. OneInWords(g)
  BY <1>1 DEF Good, OneInWords
<1>7. OneOfEffect(g)
  BY <1>1 DEF Good, OneOfEffect
<1>8. Meant(g)
  BY <1>1 DEF Good, Meant
<1> QED
  BY <1>1, <1>2, <1>3, <1>4, <1>5, <1>6, <1>7, <1>8 DEF Good

(* Whatever the clock reads, an edit starts from a good file, and so does a    *)
(* read: the file without some questions that were pending.                   *)
LEMMA OpeningFacts ==
    ASSUME NEW k, Good(file, k), NEW f \in Openings
    PROVE  /\ Good(f, k) /\ Less(file, f)
           /\ \E D \in SUBSET Pending(file) : f = Without(file, D)
<1>1. PICK now \in Clock : f = Without(file, Due(file, now))
  BY DEF Openings, Expire
<1>2. Due(file, now) \subseteq Pending(file)
  BY DEF Due
<1> QED
  BY <1>1, <1>2, WithoutLess, LessGood

-----------------------------------------------------------------------------
(* An answer. *)

AnsweredWith(f, i, o, now) == [f EXCEPT !.asks[i].option = o, !.asks[i].at = now]

LEMMA AnswerFacts ==
    ASSUME NEW f \in FileType, NEW i \in Retained(f), NEW o \in Option, NEW now \in Clock
    PROVE  /\ AnsweredWith(f, i, o, now) \in FileType
           /\ AnsweredWith(f, i, o, now).admissions = f.admissions
           /\ Retained(AnsweredWith(f, i, o, now)) = Retained(f)
           /\ AnsweredWith(f, i, o, now).asks[i].option = o
           /\ AnsweredWith(f, i, o, now).asks[i].content = f.asks[i].content
           /\ \A j \in ID \ {i} : AnsweredWith(f, i, o, now).asks[j] = f.asks[j]
<1> DEFINE g == AnsweredWith(f, i, o, now)
           r == [f.asks[i] EXCEPT !.option = o, !.at = now]
<1>1. f.asks \in [ID -> Record \cup {None}] /\ f.admissions \in SUBSET Admission
      /\ i \in ID /\ f.asks[i] \in Record
  BY RecordFacts DEF FileType
<1>2. r \in Record /\ r.option = o /\ r.content = f.asks[i].content
  BY <1>1, ClockAssumption DEF Record
<1>3. g.asks = [f.asks EXCEPT ![i] = r] /\ g.admissions = f.admissions
  BY <1>1 DEF FileType, AnsweredWith
<1> HIDE DEF r
<1>4. g.asks \in [ID -> Record \cup {None}] /\ \A j \in ID : g.asks[j] = IF j = i THEN r ELSE f.asks[j]
  BY <1>1, <1>2, <1>3
<1>5. g \in FileType
  BY <1>1, <1>4 DEF FileType, AnsweredWith
<1> HIDE DEF g
<1>6. Retained(g) = Retained(f)
  BY <1>1, <1>2, <1>4, UnsetAssumption DEF Retained
<1> QED
  BY <1>1, <1>2, <1>3, <1>4, <1>5, <1>6 DEF g

LEMMA AnswerGood ==
    ASSUME NEW f, NEW k, Good(f, k), NEW i \in Pending(f), NEW now \in Clock,
           NEW o \in Option, o \in Offered[f.asks[i].content]
    PROVE  Good(AnsweredWith(f, i, o, now), k)
<1> DEFINE g == AnsweredWith(f, i, o, now)
<1>1. f \in FileType /\ i \in Retained(f) /\ i \in ID /\ Retained(f) \subseteq ID /\ f.asks[i].option = None
  BY RecordFacts DEF Good, Pending
<1>2. /\ g \in FileType /\ g.admissions = f.admissions /\ Retained(g) = Retained(f)
      /\ g.asks[i].option = o /\ g.asks[i].content = f.asks[i].content
      /\ \A j \in ID \ {i} : g.asks[j] = f.asks[j]
  BY <1>1, AnswerFacts
<1> HIDE DEF g
<1>3. \A j \in Retained(f) : g.asks[j].content = f.asks[j].content
  BY <1>1, <1>2
<1>4. Pending(g) = Pending(f) \ {i} /\ Answered(g) = Answered(f) \cup {i}
  BY <1>1, <1>2, NoneAssumption DEF Pending, Answered
<1>5. Standing(g) \subseteq Standing(f)
  BY <1>1, <1>2, <1>4 DEF Standing, Answered
<1>6. Issued(g, k) /\ Owned(g) /\ OneKey(g)
  BY <1>2 DEF Good, Issued, Owned, OneKey
<1>7. Offers(g)
  BY <1>1, <1>2, <1>4 DEF Good, Offers, Answered
<1>8. Room(g)
  BY <1>2 DEF Good, Room
<1>9. OneInWords(g)
  BY <1>2, <1>5 DEF Good, OneInWords
<1>10. OneOfEffect(g)
  BY <1>3, <1>4 DEF Good, OneOfEffect, Pending
<1>11. Meant(g)
  BY <1>2, <1>3 DEF Good, Meant
<1> QED
  BY <1>2, <1>6, <1>7, <1>8, <1>9, <1>10, <1>11 DEF Good, g

-----------------------------------------------------------------------------
(* A further name, and a new occurrence. *)

LEMMA AskingFacts ==
    ASSUME NEW q \in Asking
    PROVE  q.scope \in Scope /\ q.key \in Key /\ q.content \in Content
BY RequestAssumption

NameOf(q, i) == [scope |-> q.scope, key |-> q.key, content |-> q.content, id |-> i]

LEMMA NameFacts ==
    ASSUME NEW q \in Asking, NEW i \in ID
    PROVE  /\ NameOf(q, i) \in Admission
           /\ NameOf(q, i).scope = q.scope /\ NameOf(q, i).key = q.key
           /\ NameOf(q, i).content = q.content /\ NameOf(q, i).id = i
BY AskingFacts DEF NameOf, Admission

LEMMA AdmittedFacts ==
    ASSUME NEW f \in FileType, NEW q \in Asking, NEW i \in ID
    PROVE  /\ Admitted(f, q, i) \in FileType
           /\ Admitted(f, q, i).asks = f.asks
           /\ Admitted(f, q, i).admissions = f.admissions \cup {NameOf(q, i)}
<1>1. Admitted(f, q, i) = [f EXCEPT !.admissions = @ \cup {NameOf(q, i)}]
  BY DEF Admitted, NameOf
<1>2. NameOf(q, i) \in Admission
  BY NameFacts
<1> HIDE DEF NameOf
<1> QED
  BY <1>1, <1>2 DEF FileType

(* One more name keeps the bound and the keys. *)
LEMMA RoomForName ==
    ASSUME NEW f \in FileType, Room(f), HasRoom(f), NEW a
    PROVE  /\ IsFiniteSet(f.admissions \cup {a})
           /\ Cardinality(f.admissions \cup {a}) <= MaxAdmissions
<1> DEFINE N == f.admissions
<1>1. IsFiniteSet(N) /\ Cardinality(N) < MaxAdmissions
  BY DEF Room, HasRoom
<1>2. Cardinality(N) \in Nat
  BY <1>1, FS_CardinalityType
<1>3. /\ IsFiniteSet(N \cup {a})
      /\ Cardinality(N \cup {a}) = IF a \in N THEN Cardinality(N) ELSE Cardinality(N) + 1
  BY <1>1, FS_AddElement
<1> HIDE DEF N
<1>4. Cardinality(N \cup {a}) <= MaxAdmissions
  BY <1>1, <1>2, <1>3, BoundAssumption
<1> QED
  BY <1>3, <1>4 DEF N

LEMMA KeyForName ==
    ASSUME NEW f \in FileType, NEW q \in Asking, NEW i \in ID, OneKey(f), Named(f, q.scope, q.key) = {}
    PROVE  \A m, n \in f.admissions \cup {NameOf(q, i)} : m.scope = n.scope /\ m.key = n.key => m = n
<1>1. NameOf(q, i).scope = q.scope /\ NameOf(q, i).key = q.key
  BY NameFacts
<1>2. \A n \in f.admissions : n.scope # q.scope \/ n.key # q.key
  BY DEF Named
<1> QED
  BY <1>1, <1>2 DEF OneKey

(* A typed request that stands is pending: its answers are not kept. *)
LEMMA TypedStanding ==
    ASSUME NEW f \in FileType, Offers(f), NEW i \in Standing(f), f.asks[i].content \in Typed
    PROVE  i \in Pending(f)
BY RequestAssumption DEF Standing, Offers

LEMMA ShareGood ==
    ASSUME NEW f, NEW k, Good(f, k), NEW q \in Asking, NEW i \in Sharing(f, q),
           Named(f, q.scope, q.key) = {}, HasRoom(f)
    PROVE  Good(Admitted(f, q, i), k)
<1> DEFINE g == Admitted(f, q, i)
           a == NameOf(q, i)
<1>0. f \in FileType /\ Standing(f) \subseteq Retained(f) /\ Retained(f) \subseteq ID
  BY RecordFacts DEF Good
<1>1. i \in Retained(f) /\ i \in ID /\ SameMeaning(f.asks[i].content, q.content)
  <2>1. CASE q.content \in Typed
    BY <1>0, <2>1 DEF Sharing, SameEffect, SameMeaning
  <2>2. CASE q.content \notin Typed
    <3>1. PICK m \in f.admissions : m.id = i /\ m.content = q.content /\ m.id \in Standing(f)
      BY <2>2 DEF Sharing, SameWords
    <3> QED
      BY <1>0, <3>1 DEF Good, Meant
  <2> QED
    BY <2>1, <2>2
<1>2. /\ g \in FileType /\ g.asks = f.asks /\ g.admissions = f.admissions \cup {a}
      /\ a.scope = q.scope /\ a.key = q.key /\ a.content = q.content /\ a.id = i
  BY <1>0, <1>1, AdmittedFacts, NameFacts
<1> HIDE DEF g
<1>3. /\ Retained(g) = Retained(f) /\ Pending(g) = Pending(f)
      /\ Answered(g) = Answered(f) /\ Standing(g) = Standing(f)
  BY <1>2 DEF Retained, Pending, Answered, Standing
<1>4. Issued(g, k) /\ Owned(g) /\ Offers(g) /\ OneOfEffect(g)
  BY <1>1, <1>2, <1>3 DEF Good, Issued, Owned, Offers, OneOfEffect
<1>5. OneKey(g)
  <2>1. \A m, n \in f.admissions \cup {a} : m.scope = n.scope /\ m.key = n.key => m = n
    BY <1>0, <1>1, KeyForName DEF Good
  <2> QED
    BY <1>2, <2>1 DEF OneKey
<1>6. Room(g)
  BY <1>0, <1>2, <1>3, RoomForName DEF Good, Room
<1>7. Meant(g)
  BY <1>1, <1>2, <1>3 DEF Good, Meant
<1>8. ASSUME NEW n \in f.admissions, n.scope = q.scope, n.content = q.content,
             n.id \in Standing(f), i \in Standing(f)
      PROVE  n.id = i
  <2>1. CASE q.content \in Typed
    <3>1. SameMeaning(f.asks[n.id].content, q.content)
      BY <1>0, <1>8 DEF Good, Meant
    <3>2. /\ f.asks[i].content \in Typed /\ Effect[f.asks[i].content] = Effect[q.content]
          /\ f.asks[n.id].content \in Typed /\ Effect[f.asks[n.id].content] = Effect[q.content]
      BY <1>1, <2>1, <3>1 DEF SameMeaning
    <3>3. i \in Pending(f) /\ n.id \in Pending(f)
      BY <1>0, <1>8, <3>2, TypedStanding DEF Good
    <3> QED
      BY <3>2, <3>3 DEF Good, OneOfEffect
  <2>2. CASE q.content \notin Typed
    <3>1. PICK m \in f.admissions : m.id = i /\ m.scope = q.scope /\ m.content = q.content
      BY <2>2 DEF Sharing, SameWords
    <3> QED
      BY <1>8, <3>1 DEF Good, OneInWords
  <2> QED
    BY <2>1, <2>2
<1> HIDE DEF a
<1>9. OneInWords(g)
  BY <1>2, <1>3, <1>8 DEF Good, OneInWords
<1> QED
  BY <1>2, <1>4, <1>5, <1>6, <1>7, <1>9 DEF Good, g

NewRecord(q, now) == [content |-> q.content, asked |-> now, option |-> None, at |-> 0]

NewFile(f, q, i, now) == Admitted([f EXCEPT !.asks[i] = NewRecord(q, now)], q, i)

LEMMA NewFacts ==
    ASSUME NEW f \in FileType, NEW q \in Asking, NEW i \in ID, i \notin Retained(f), NEW now \in Clock
    PROVE  /\ NewFile(f, q, i, now) \in FileType
           /\ NewFile(f, q, i, now).admissions = f.admissions \cup {NameOf(q, i)}
           /\ Retained(NewFile(f, q, i, now)) = Retained(f) \cup {i}
           /\ NewFile(f, q, i, now).asks[i].content = q.content
           /\ NewFile(f, q, i, now).asks[i].option = None
           /\ \A j \in ID \ {i} : NewFile(f, q, i, now).asks[j] = f.asks[j]
<1> DEFINE r == NewRecord(q, now)
           h == [f EXCEPT !.asks[i] = r]
           g == NewFile(f, q, i, now)
<1>1. r \in Record /\ r.content = q.content /\ r.option = None
  BY AskingFacts, ClockAssumption DEF Record, NewRecord
<1> HIDE DEF r
<1>2. f.asks \in [ID -> Record \cup {None}] /\ f.admissions \in SUBSET Admission
  BY DEF FileType
<1>3. h.asks = [f.asks EXCEPT ![i] = r] /\ h.admissions = f.admissions
  BY DEF FileType
<1>4. h.asks \in [ID -> Record \cup {None}] /\ \A j \in ID : h.asks[j] = IF j = i THEN r ELSE f.asks[j]
  BY <1>1, <1>2, <1>3
<1>5. h \in FileType
  BY <1>1, <1>2, <1>4 DEF FileType
<1>6. g = Admitted(h, q, i)
  BY DEF NewFile, r
<1> HIDE DEF h
<1>7. g \in FileType /\ g.asks = h.asks /\ g.admissions = f.admissions \cup {NameOf(q, i)}
  BY <1>3, <1>5, <1>6, AdmittedFacts
<1> HIDE DEF g
<1>8. Retained(g) = Retained(f) \cup {i}
  BY <1>1, <1>4, <1>7, UnsetAssumption DEF Retained
<1> QED
  BY <1>1, <1>4, <1>7, <1>8 DEF g

LEMMA NewGood ==
    ASSUME NEW f, NEW k \in 0 .. MaxIssued, Good(f, k), k < MaxIssued, NEW q \in Asking, NEW now \in Clock,
           Named(f, q.scope, q.key) = {}, HasRoom(f), ~MustShare(f, q),
           Cardinality(Retained(f)) < MaxAdmissions
    PROVE  Good(NewFile(f, q, k + 1, now), k + 1)
<1> DEFINE i == k + 1
           g == NewFile(f, q, i, now)
           a == NameOf(q, i)
<1>1. /\ f \in FileType /\ i \in ID /\ i \notin Retained(f)
      /\ Retained(f) \subseteq ID /\ \A n \in f.admissions : n.id \in ID /\ n.id # i
      /\ Pending(f) \subseteq Retained(f) /\ Answered(f) \subseteq Retained(f)
      /\ Standing(f) \subseteq Retained(f)
      /\ \A j \in ID : j <= k => j <= i
  BY RecordFacts, BoundAssumption DEF Good, Issued, ID
<1>2. /\ g \in FileType /\ g.admissions = f.admissions \cup {a}
      /\ Retained(g) = Retained(f) \cup {i}
      /\ g.asks[i].content = q.content /\ g.asks[i].option = None
      /\ \A j \in Retained(f) : g.asks[j] = f.asks[j]
      /\ a.scope = q.scope /\ a.key = q.key /\ a.content = q.content /\ a.id = i
  BY <1>1, NewFacts, NameFacts
<1>3. /\ Pending(g) = Pending(f) \cup {i}
      /\ Answered(g) = Answered(f)
  BY <1>1, <1>2 DEF Pending, Answered
<1>4. \A j \in Standing(g) : j = i \/ j \in Standing(f)
  BY <1>1, <1>2, <1>3 DEF Standing
<1>5. \A m, n \in f.admissions \cup {a} : m.scope = n.scope /\ m.key = n.key => m = n
  BY <1>1, KeyForName DEF Good
<1>6. /\ IsFiniteSet(f.admissions \cup {a})
      /\ Cardinality(f.admissions \cup {a}) <= MaxAdmissions
      /\ Cardinality(Retained(f) \cup {i}) <= MaxAdmissions
  <2>1. Cardinality(Retained(f) \cup {i}) = Cardinality(Retained(f)) + 1 /\ Cardinality(Retained(f)) \in Nat
    BY <1>1, RetainedFinite, FS_AddElement
  <2>2. Cardinality(Retained(f) \cup {i}) <= MaxAdmissions
    BY <2>1, BoundAssumption
  <2>3. Room(f) /\ HasRoom(f)
    BY DEF Good
  <2> QED
    BY <1>1, <2>2, <2>3, RoomForName
<1> HIDE DEF g, a
<1>7. Issued(g, i) /\ Owned(g)
  BY <1>1, <1>2 DEF Good, Issued, Owned
<1>8. OneKey(g) /\ Room(g)
  BY <1>2, <1>5, <1>6 DEF OneKey, Room
<1>9. Offers(g)
  BY <1>1, <1>2, <1>3 DEF Good, Offers
<1>10. Meant(g)
  BY <1>1, <1>2 DEF Good, Meant, SameMeaning
<1>11. OneOfEffect(g)
  <2>1. ASSUME NEW j \in Pending(f), f.asks[j].content \in Typed, q.content \in Typed,
               Effect[f.asks[j].content] = Effect[q.content]
        PROVE  FALSE
    <3>1. j \in SameEffect(f, q)
      BY <1>1, <2>1 DEF SameEffect
    <3> QED
      BY <2>1, <3>1 DEF MustShare, PassedOver
  <2> QED
    BY <1>1, <1>2, <1>3, <2>1 DEF Good, OneOfEffect
<1>12. ASSUME NEW n \in f.admissions, n.scope = q.scope, n.content = q.content, n.id \in Standing(f)
       PROVE  FALSE
  <2>1. CASE q.content \in Typed
    <3>1. SameMeaning(f.asks[n.id].content, q.content)
      BY <1>1, <1>12 DEF Good, Meant
    <3>2. f.asks[n.id].content \in Typed /\ Effect[f.asks[n.id].content] = Effect[q.content]
      BY <2>1, <3>1 DEF SameMeaning
    <3>3. n.id \in Pending(f)
      BY <1>1, <1>12, <3>2, TypedStanding DEF Good
    <3>4. n.id \in SameEffect(f, q)
      BY <1>1, <3>2, <3>3 DEF SameEffect
    <3> QED
      BY <2>1, <3>3, <3>4 DEF MustShare, PassedOver
  <2>2. CASE q.content \notin Typed
    <3>1. n.id \in SameWords(f, q)
      BY <1>12 DEF SameWords
    <3> QED
      BY <2>2, <3>1 DEF MustShare
  <2> QED
    BY <2>1, <2>2
<1>13. OneInWords(g)
  BY <1>1, <1>2, <1>4, <1>12 DEF Good, OneInWords
<1> QED
  BY <1>2, <1>7, <1>8, <1>9, <1>10, <1>11, <1>13 DEF Good, g

-----------------------------------------------------------------------------
(* The invariant. *)

LEMMA InitHolds == Init => IInv
<1> SUFFICES ASSUME Init PROVE IInv
  OBVIOUS
<1>1. file = [asks |-> [i \in ID |-> None], admissions |-> {}] /\ issued = 0
  BY DEF Init
<1>2. file \in FileType /\ Retained(file) = {} /\ file.admissions = {}
  BY <1>1 DEF FileType, Retained
<1>3. Pending(file) = {} /\ Answered(file) = {} /\ Standing(file) = {}
  BY <1>2 DEF Pending, Answered, Standing
<1>4. Room(file)
  BY <1>2, FS_EmptySet, BoundAssumption DEF Room
<1>5. Issued(file, issued) /\ Owned(file) /\ OneKey(file) /\ Offers(file)
  BY <1>2, <1>3 DEF Issued, Owned, OneKey, Offers
<1>6. OneInWords(file) /\ OneOfEffect(file) /\ Meant(file)
  BY <1>2, <1>3 DEF OneInWords, OneOfEffect, Meant
<1>7. Histories
  BY BoundAssumption DEF Init, Histories
<1> QED
  BY <1>2, <1>4, <1>5, <1>6, <1>7 DEF IInv, Good

LEMMA WritePreserves ==
    ASSUME IInv, NEW g, Good(g, issued), Write(g), blind' \subseteq ID
    PROVE  IInv'
<1>1. Good(file', issued')
  BY DEF Write
<1>2. Histories'
  BY DEF Write, IInv, Histories
<1> QED
  BY <1>1, <1>2 DEF IInv

LEMMA CommitPreserves ==
    ASSUME IInv, NEW g, Good(g, issued), Commit(g)
    PROVE  IInv'
BY WritePreserves DEF Commit, IInv, Histories

LEMMA AskPreserves ==
    ASSUME IInv, NEW q \in Asking, Ask(q)
    PROVE  IInv'
<1>1. PICK f \in Openings : Replay(f, q) \/ Share(f, q) \/ AskNew(f, q)
  BY DEF Ask
<1>2. Good(f, issued) /\ issued \in 0 .. MaxIssued
  BY OpeningFacts DEF IInv, Histories
<1>3. CASE Replay(f, q)
  BY <1>2, <1>3, CommitPreserves DEF Replay
<1>4. CASE Share(f, q)
  BY <1>2, <1>4, ShareGood, CommitPreserves DEF Share
<1>5. CASE AskNew(f, q)
  <2>1. PICK now \in Clock : file' = NewFile(f, q, issued + 1, now)
    BY <1>5 DEF AskNew, NewFile, NewRecord
  <2>2. /\ Named(f, q.scope, q.key) = {} /\ HasRoom(f) /\ ~MustShare(f, q)
        /\ Cardinality(Retained(f)) < MaxAdmissions
        /\ issued < MaxIssued /\ issued' = issued + 1 /\ shown' = shown
        /\ lapsed' \subseteq lapsed /\ blind' = {}
    BY <1>5 DEF AskNew
  <2>3. Good(NewFile(f, q, issued + 1, now), issued + 1)
    BY <1>2, <2>2, NewGood
  <2>4. issued + 1 \in 0 .. MaxIssued
    BY <1>2, <2>2, BoundAssumption
  <2>5. Good(file', issued')
    BY <2>1, <2>2, <2>3
  <2>6. Histories'
    BY <2>2, <2>4 DEF IInv, Histories
  <2> QED
    BY <2>5, <2>6 DEF IInv
<1> QED
  BY <1>1, <1>3, <1>4, <1>5

LEMMA AnswerPreserves ==
    ASSUME IInv, NEW i \in ID, NEW o \in Option, Answer(i, o)
    PROVE  IInv'
<1>1. PICK f \in Openings, now \in Clock :
         i \in Pending(f) /\ o \in Offered[f.asks[i].content] /\ Commit(AnsweredWith(f, i, o, now))
  BY DEF Answer, MayAnswer, AnsweredWith
<1>2. Good(f, issued)
  BY OpeningFacts DEF IInv
<1>3. Good(AnsweredWith(f, i, o, now), issued)
  BY <1>1, <1>2, AnswerGood
<1> QED
  BY <1>1, <1>3, CommitPreserves

(* Everything that removes. *)
Removes ==
    /\ \E f \in Openings : \E S : Write(Buried(f, S)) \/ Write(Without(f, S))
    /\ blind' \subseteq ID

LEMMA RemovesPreserves ==
    ASSUME IInv, Removes
    PROVE  IInv'
<1>1. PICK f \in Openings : \E S : Write(Buried(f, S)) \/ Write(Without(f, S))
  BY DEF Removes
<1>2. PICK S : Write(Buried(f, S)) \/ Write(Without(f, S))
  BY <1>1
<1>3. Good(f, issued)
  BY OpeningFacts DEF IInv
<1>4. Good(Buried(f, S), issued) /\ Good(Without(f, S), issued)
  BY <1>3, BuriedLess, WithoutLess, LessGood
<1> QED
  BY <1>2, <1>4, WritePreserves DEF Removes

(* A release by the key alone takes an answer of the option named. *)
LEMMA ReleaseKeyFacts ==
    ASSUME IInv, NEW s \in Scope, NEW k \in Key, NEW o \in Option, ReleaseKey(s, k, o)
    PROVE  \E f \in Openings, i \in ID :
              /\ i \in Answered(f) /\ f.asks[i].option = o
              /\ Write(Without(f, {i})) /\ blind' = {i}
<1>1. PICK f \in Openings : \E n \in Named(f, s, k) :
         /\ Releasable(f, n, o) /\ Write(Without(f, {n.id})) /\ blind' = {n.id}
  BY DEF ReleaseKey
<1>2. PICK n \in Named(f, s, k) :
         /\ Releasable(f, n, o) /\ Write(Without(f, {n.id})) /\ blind' = {n.id}
  BY <1>1
<1>3. n.id \in ID
  BY <1>2 DEF Releasable, Answered, Retained
<1> QED
  BY <1>2, <1>3 DEF Releasable

LEMMA ObservePreserves ==
    ASSUME IInv, NEW s \in Scope, NEW k \in Key, Observe(s, k)
    PROVE  IInv'
<1>1. PICK f \in Views :
         /\ shown' = [i \in ID |-> shown[i] \cup
                        UNION {Reported(f, n) : n \in {m \in Named(f, s, k) : m.id = i}}]
         /\ lapsed' = lapsed \cup {n.id : n \in Named(file, s, k) \ Named(f, s, k)}
         /\ UNCHANGED <<file, issued>> /\ blind' = {}
  BY DEF Observe
<1>2. f \in FileType /\ file \in FileType
  BY OpeningFacts DEF IInv, Good, Views
<1>3. \A n : Reported(f, n) \subseteq Option
  BY <1>2, RecordFacts DEF Reported, Answered, Pending, Record
<1>4. shown' \in [ID -> SUBSET Option]
  BY <1>1, <1>3 DEF IInv, Histories
<1>5. lapsed' \subseteq ID
  BY <1>1, <1>2, RecordFacts DEF IInv, Histories, Named
<1>6. Good(file', issued')
  BY <1>1 DEF IInv
<1> QED
  BY <1>1, <1>4, <1>5, <1>6 DEF IInv, Histories

LEMMA StepHolds == IInv /\ [Next]_vars => IInv'
<1> SUFFICES ASSUME IInv, [Next]_vars PROVE IInv'
  OBVIOUS
<1>1. CASE \E q \in Asking : Ask(q)
  BY <1>1, AskPreserves
<1>2. CASE \E i \in ID, o \in Option : Answer(i, o)
  BY <1>2, AnswerPreserves
<1>3. CASE Removes
  BY <1>3, RemovesPreserves
<1>4. CASE \E s \in Scope, k \in Key : Observe(s, k)
  BY <1>4, ObservePreserves
<1>5. CASE UNCHANGED vars
  <2>1. /\ file' = file /\ issued' = issued /\ shown' = shown /\ lapsed' = lapsed
        /\ blind' = blind
    BY <1>5 DEF vars
  <2> QED
    BY <2>1 DEF IInv, Histories
<1>6. ASSUME NEW i \in ID, Retire(i) \/ Forget(i) \/ WithdrawSettled(i) \/ \E o \in Option : Release(i, o)
      PROVE  Removes
  <2>1. CASE \E o \in Option : Release(i, o)
    BY <2>1 DEF Release, Removes, Commit, IInv, Histories
  <2>2. CASE Retire(i) \/ Forget(i) \/ WithdrawSettled(i)
    BY <2>2 DEF Retire, Forget, WithdrawSettled, Removes, Commit, IInv, Histories
  <2> QED
    BY <1>6, <2>1, <2>2
<1>7. CASE WithdrawRuntimeBound
  <2>1. PICK f \in Openings :
           \/ Commit(Buried(f, PendingBound(f)))
           \/ /\ lapsed' = lapsed \cup PendingBound(file)
              /\ blind' = {}
              /\ UNCHANGED <<file, issued, shown>>
    BY <1>7 DEF WithdrawRuntimeBound
  <2>2. CASE Commit(Buried(f, PendingBound(f)))
    BY <2>2, RemovesPreserves DEF Removes, Commit
  <2>3. CASE /\ lapsed' = lapsed \cup PendingBound(file)
             /\ blind' = {}
             /\ UNCHANGED <<file, issued, shown>>
    <3>1. PendingBound(file) \subseteq ID
      BY DEF PendingBound, Pending, Retained
    <3>2. Good(file', issued')
      BY <2>3 DEF IInv
    <3> QED
      BY <2>3, <3>1, <3>2 DEF IInv, Histories
  <2> QED
    BY <2>1, <2>2, <2>3
<1>8. ASSUME NEW s \in Scope, NEW k \in Key, NEW o \in Option, ReleaseKey(s, k, o)
      PROVE  Removes
  BY <1>8, ReleaseKeyFacts DEF Removes
<1> QED
  BY <1>1, <1>2, <1>3, <1>4, <1>5, <1>6, <1>7, <1>8 DEF Next

(* The inductive invariant of the question partition, for any requests,        *)
(* readings of the clock and bounds.                                         *)
THEOREM Invariance == Spec => []IInv
BY InitHolds, StepHolds, PTL DEF Spec

(* No call leaves a file that decodeApplication refuses: one admission of a    *)
(* key, answers among those offered, and no more than the partition holds.    *)
THEOREM StaysReadable == Spec => []Readable
<1>1. IInv => Readable
  <2> SUFFICES ASSUME IInv PROVE Readable
    OBVIOUS
  <2>1. TypeOK
    BY DEF IInv, Good, FileType, Histories, TypeOK
  <2> QED
    BY <2>1 DEF IInv, Good, OneKey, Offers, Room, Readable
<1> QED
  BY <1>1, Invariance, PTL

(* Nobody is asked twice: one question of a scope in the same words, one       *)
(* pending request of an effect (askApplicationFrom and askTypedPermission).  *)
THEOREM NobodyAskedTwice == Spec => []AskedOnce
<1>1. IInv => AskedOnce
  <2> SUFFICES ASSUME IInv PROVE AskedOnce
    OBVIOUS
  <2>1. OneInWords(file) /\ OneOfEffect(file)
    BY DEF IInv, Good
  <2>2. ASSUME NEW m \in file.admissions, NEW n \in file.admissions,
               m.scope = n.scope, m.content = n.content, \A x \in {m, n} : x.id \in Standing(file)
        PROVE  m.id = n.id
    <3>1. m.id \in Standing(file) /\ n.id \in Standing(file)
      BY <2>2
    <3> QED
      BY <2>1, <2>2, <3>1 DEF OneInWords
  <2> QED
    BY <2>1, <2>2 DEF OneOfEffect, AskedOnce
<1> QED
  BY <1>1, Invariance, PTL

(* A key reads the answer to what it asked (askTypedPermission shares across   *)
(* purposes, never across effects).                                          *)
THEOREM AnswerFits == Spec => []AnswersWhatWasAsked
<1>1. IInv => AnswersWhatWasAsked
  BY DEF IInv, Good, Meant, SameMeaning, AnswersWhatWasAsked
<1> QED
  BY <1>1, Invariance, PTL

-----------------------------------------------------------------------------
(* Release. *)

(* An edit that starts with the expiry of D and buries or drops S: which of    *)
(* what was answered loses its record and every name.                        *)
LEMMA LosesNames ==
    ASSUME IInv, NEW f \in Openings, NEW S, NEW i \in Answered(file), i \notin Retained(file'),
           \A n \in file'.admissions : n.id # i,
           Write(Buried(f, S)) \/ Write(Without(f, S))
    PROVE  i \in S /\ i \in Answered(f) /\ f.asks[i] = file.asks[i] /\ Write(Without(f, S))
<1>1. PICK D \in SUBSET Pending(file) : f = Without(file, D)
  BY OpeningFacts DEF IInv
<1>2. file \in FileType /\ f \in FileType /\ Good(f, issued) /\ Less(file, f) /\ i \in Retained(file)
  BY OpeningFacts DEF IInv, Good, Answered
<1>3. i \notin D /\ i \in Retained(f) /\ f.asks[i] = file.asks[i]
  BY <1>1, <1>2, WithoutFacts DEF Answered
<1>4. i \in Answered(f)
  BY <1>2, <1>3, LessKinds
<1>5. i \in S
  BY <1>2, <1>3, BuriedFacts, WithoutFacts DEF Write
<1>6. CASE Write(Buried(f, S))
  <2>1. PICK n \in f.admissions : n.id = i
    BY <1>2, <1>3 DEF Good, Owned
  <2>2. n \in file'.admissions
    BY <1>2, <1>6, BuriedFacts DEF Write
  <2> QED
    BY <2>1, <2>2
<1> QED
  BY <1>3, <1>4, <1>5, <1>6

(* An answer goes with its names only after a caller was shown it, or when a    *)
(* release names its key alone: expiry and withdrawal take pending questions,   *)
(* a dismissal leaves the names.                                             *)
LEMMA ReleaseStep ==
    ASSUME IInv, [Next]_vars, NEW i \in Answered(file), i \notin Retained(file'),
           \A n \in file'.admissions : n.id # i
    PROVE  file.asks[i].option \in shown[i] \/ i \in blind'
<1>1. file \in FileType /\ i \in Retained(file) /\ i \in ID
  BY RecordFacts DEF IInv, Good
<1>2. ASSUME NEW f \in Openings
      PROVE  f \in FileType /\ i \in Retained(f) /\ \E n \in f.admissions : n.id = i
  <2>1. PICK D \in SUBSET Pending(file) : f = Without(file, D)
    BY OpeningFacts DEF IInv
  <2>2. i \in Retained(f)
    BY <1>1, <2>1, WithoutFacts DEF Answered
  <2> QED
    BY <2>2, OpeningFacts DEF IInv, Good, Owned
<1>3. ASSUME NEW f \in Openings, NEW S, Write(Buried(f, S)) PROVE FALSE
  <2>1. file'.admissions = f.admissions
    BY <1>2, <1>3, BuriedFacts DEF Write
  <2> QED
    BY <1>2, <2>1
<1>4. CASE \E q \in Asking : Ask(q)
  <2>1. PICK q \in Asking, f \in Openings : Replay(f, q) \/ Share(f, q) \/ AskNew(f, q)
    BY <1>4 DEF Ask
  <2>2. f \in FileType /\ Good(f, issued)
    BY OpeningFacts DEF IInv, Good
  <2>3. f.admissions \subseteq file'.admissions
    <3>1. CASE Replay(f, q)
      BY <3>1 DEF Replay, Commit, Write
    <3>2. CASE Share(f, q)
      <4>1. PICK j \in Sharing(f, q) : file' = Admitted(f, q, j)
        BY <3>2 DEF Share, Commit, Write
      <4>2. j \in ID
        BY <2>2, RecordFacts DEF Sharing, SameEffect, SameWords
      <4> QED
        BY <2>2, <4>1, <4>2, AdmittedFacts
    <3>3. CASE AskNew(f, q)
      <4>1. PICK now \in Clock : file' = NewFile(f, q, issued + 1, now)
        BY <3>3 DEF AskNew, NewFile, NewRecord
      <4>2. issued + 1 \in ID /\ issued + 1 \notin Retained(f)
        BY <2>2, <3>3, BoundAssumption DEF AskNew, IInv, Histories, Good, Issued, ID
      <4> QED
        BY <2>2, <4>1, <4>2, NewFacts
    <3> QED
      BY <2>1, <3>1, <3>2, <3>3
  <2> QED
    BY <1>2, <2>3
<1>5. CASE \E j \in ID, o \in Option : Answer(j, o)
  <2>1. PICK j \in ID, o \in Option, f \in Openings, now \in Clock :
           j \in Pending(f) /\ Commit(AnsweredWith(f, j, o, now))
    BY <1>5 DEF Answer, MayAnswer, AnsweredWith
  <2>2. f \in FileType /\ j \in Retained(f)
    BY <2>1, OpeningFacts, RecordFacts DEF IInv, Good
  <2>3. Retained(file') = Retained(f)
    BY <2>1, <2>2, AnswerFacts DEF Commit, Write
  <2> QED
    BY <1>2, <2>3
<1>6. CASE \E j \in ID, o \in Option : Release(j, o)
  <2>1. PICK j \in ID, o \in Option, f \in Openings : \E n \in f.admissions :
           /\ o \in shown[j] /\ n.id = j
           /\ j \in Answered(f) /\ f.asks[j].option = o /\ Commit(Without(f, {j}))
    BY <1>6 DEF Release, IsExpected, Releasable
  <2>2. i = j /\ f.asks[i] = file.asks[i]
    <3>1. i \in {j} /\ f.asks[i] = file.asks[i]
      BY <2>1, LosesNames DEF Commit
    <3> QED
      BY <3>1
  <2> QED
    BY <2>1, <2>2
<1>7. CASE \E j \in ID : WithdrawSettled(j)
  <2>1. PICK j \in ID, f \in Openings : j \in Pending(f) /\ Commit(Without(f, {j}))
    BY <1>7 DEF WithdrawSettled
  <2>2. i = j /\ i \in Answered(f)
    <3>1. i \in {j} /\ i \in Answered(f)
      BY <2>1, LosesNames DEF Commit
    <3> QED
      BY <3>1
  <2> QED
    BY <2>1, <2>2 DEF Answered
<1>8. CASE (\E j \in ID : Retire(j) \/ Forget(j)) \/ WithdrawRuntimeBound
  <2>1. CASE \E j \in ID : Retire(j) \/ Forget(j)
    BY <1>3, <2>1 DEF Retire, Forget, Commit
  <2>2. CASE WithdrawRuntimeBound
    <3>1. file' = file
      BY <1>3, <2>2 DEF WithdrawRuntimeBound, Commit
    <3> QED
      BY <1>1, <3>1
  <2> QED
    BY <1>8, <2>1, <2>2
<1>9. CASE (\E s \in Scope, k \in Key : Observe(s, k)) \/ UNCHANGED vars
  BY <1>1, <1>9 DEF Observe, vars
<1>10. CASE \E s \in Scope, k \in Key, o \in Option : ReleaseKey(s, k, o)
  <2>1. PICK f \in Openings, j \in ID : Write(Without(f, {j})) /\ blind' = {j}
    BY <1>10, ReleaseKeyFacts
  <2>2. i \in {j}
    BY <2>1, LosesNames
  <2> QED
    BY <2>1, <2>2
<1> QED
  BY <1>4, <1>5, <1>6, <1>7, <1>8, <1>9, <1>10 DEF Next

(* A release that names an occurrence takes only an answer that was observed:  *)
(* ReleaseAnsweredApplicationID compares the occurrence and the option. An      *)
(* answer nobody was shown goes only by a release that names its key alone      *)
(* (ReleaseAnsweredApplication).                                             *)
THEOREM ReleasedWasShown == Spec => ReleaseIsCurrent
<1>1. IInv /\ [Next]_vars =>
         [\A i \in Answered(file) :
             i \notin Retained(file') /\ (\A n \in file'.admissions : n.id # i)
             => file.asks[i].option \in shown[i] \/ i \in blind']_vars
  BY ReleaseStep
<1> QED
  BY <1>1, Invariance, PTL DEF Spec, ReleaseIsCurrent

-----------------------------------------------------------------------------
(* The contract. *)

(* What the contract sees of the file f when k occurrences were made. *)
Names(f) == {[name |-> <<n.scope, n.key>>, id |-> n.id] : n \in f.admissions}

StatusOf(f, k) ==
    [i \in ID |->
        IF i > k THEN "unasked"
        ELSE IF i \in Pending(f) THEN "open"
        ELSE IF i \in Answered(f) THEN f.asks[i].option
        ELSE IF \E n \in f.admissions : n.id = i THEN "dismissed"
        ELSE "dropped"]

LEMMA Mapping ==
    /\ [i \in ID |-> Status(i)] = StatusOf(file, issued)
    /\ [i \in ID |-> Status(i)]' = StatusOf(file', issued')
BY DEF Status, StatusOf

LEMMA StatusKinds ==
    ASSUME NEW f, NEW k \in 0 .. MaxIssued, Good(f, k), NEW i \in ID
    PROVE  /\ i \in Pending(f) <=> StatusOf(f, k)[i] = "open"
           /\ i \in Answered(f) <=> StatusOf(f, k)[i] \in Option
           /\ i \in Answered(f) => StatusOf(f, k)[i] = f.asks[i].option
           /\ i > k => StatusOf(f, k)[i] = "unasked"
<1>1. f \in FileType /\ Pending(f) \subseteq Retained(f) /\ Answered(f) \subseteq Retained(f)
      /\ \A j \in Retained(f) : j <= k /\ j \in ID /\ f.asks[j] \in Record
  BY RecordFacts DEF Good, Issued
<1>2. i \in Retained(f) => ~(i > k)
  BY <1>1 DEF ID
<1>3. i \in Answered(f) => i \notin Pending(f) /\ f.asks[i].option \in Option
  BY <1>1 DEF Answered, Pending, Record
<1> QED
  BY <1>1, <1>2, <1>3, OptionAssumption DEF StatusOf

(* Records that go with their names are dropped. *)
LEMMA StatusWithout ==
    ASSUME NEW f, NEW k \in 0 .. MaxIssued, Good(f, k), NEW D \in SUBSET Retained(f)
    PROVE  /\ Names(Without(f, D)) = {x \in Names(f) : x.id \notin D}
           /\ StatusOf(Without(f, D), k) = [i \in ID |-> IF i \in D THEN "dropped" ELSE StatusOf(f, k)[i]]
<1> DEFINE g == Without(f, D)
<1>1. /\ f \in FileType /\ g \in FileType
      /\ g.admissions = {n \in f.admissions : n.id \notin D}
      /\ Retained(g) = Retained(f) \ D
      /\ \A i \in Retained(f) \ D : g.asks[i] = f.asks[i]
  BY WithoutFacts DEF Good
<1>2. Less(f, g)
  BY WithoutLess
<1> HIDE DEF g
<1>3. Names(g) = {x \in Names(f) : x.id \notin D}
  BY <1>1 DEF Names
<1>4. ASSUME NEW i \in ID
      PROVE  StatusOf(g, k)[i] = IF i \in D THEN "dropped" ELSE StatusOf(f, k)[i]
  <2>1. CASE i \in D
    <3>1. ~(i > k)
      BY <2>1 DEF Good, Issued, ID
    <3>2. i \notin Retained(g) /\ ~\E n \in g.admissions : n.id = i
      BY <1>1, <2>1
    <3> QED
      BY <2>1, <3>1, <3>2 DEF StatusOf, Pending, Answered
  <2>2. CASE i \notin D
    <3>1. (\E n \in g.admissions : n.id = i) <=> (\E n \in f.admissions : n.id = i)
      BY <1>1, <2>2
    <3>2. /\ i \in Pending(g) <=> i \in Pending(f)
          /\ i \in Answered(g) <=> i \in Answered(f)
          /\ i \in Answered(f) => g.asks[i] = f.asks[i]
      BY <1>1, <2>2 DEF Pending, Answered
    <3> QED
      BY <2>2, <3>1, <3>2 DEF StatusOf
  <2> QED
    BY <2>1, <2>2
<1>5. StatusOf(g, k) = [i \in ID |-> IF i \in D THEN "dropped" ELSE StatusOf(f, k)[i]]
  BY <1>4 DEF StatusOf
<1> QED
  BY <1>3, <1>5 DEF g

(* Records that go and leave their names are dismissed. *)
LEMMA StatusBuried ==
    ASSUME NEW f, NEW k \in 0 .. MaxIssued, Good(f, k), NEW S \in SUBSET Retained(f)
    PROVE  /\ Names(Buried(f, S)) = Names(f)
           /\ StatusOf(Buried(f, S), k) = [i \in ID |-> IF i \in S THEN "dismissed" ELSE StatusOf(f, k)[i]]
<1> DEFINE g == Buried(f, S)
<1>1. /\ f \in FileType /\ g \in FileType /\ g.admissions = f.admissions
      /\ Retained(g) = Retained(f) \ S
      /\ \A i \in Retained(f) \ S : g.asks[i] = f.asks[i]
  BY BuriedFacts DEF Good
<1> HIDE DEF g
<1>2. Names(g) = Names(f)
  BY <1>1 DEF Names
<1>3. ASSUME NEW i \in ID
      PROVE  StatusOf(g, k)[i] = IF i \in S THEN "dismissed" ELSE StatusOf(f, k)[i]
  <2>1. CASE i \in S
    <3>1. ~(i > k)
      BY <2>1 DEF Good, Issued, ID
    <3>2. i \notin Retained(g) /\ \E n \in g.admissions : n.id = i
      BY <1>1, <2>1 DEF Good, Owned
    <3> QED
      BY <2>1, <3>1, <3>2 DEF StatusOf, Pending, Answered
  <2>2. CASE i \notin S
    <3>1. /\ i \in Pending(g) <=> i \in Pending(f)
          /\ i \in Answered(g) <=> i \in Answered(f)
          /\ i \in Answered(f) => g.asks[i] = f.asks[i]
      BY <1>1, <2>2 DEF Pending, Answered
    <3> QED
      BY <1>1, <2>2, <3>1 DEF StatusOf
  <2> QED
    BY <2>1, <2>2
<1>4. StatusOf(g, k) = [i \in ID |-> IF i \in S THEN "dismissed" ELSE StatusOf(f, k)[i]]
  BY <1>3 DEF StatusOf
<1> QED
  BY <1>2, <1>4 DEF g

LEMMA StatusAnswered ==
    ASSUME NEW f, NEW k \in 0 .. MaxIssued, Good(f, k), NEW i \in Pending(f), NEW o \in Option, NEW now \in Clock
    PROVE  /\ Names(AnsweredWith(f, i, o, now)) = Names(f)
           /\ StatusOf(AnsweredWith(f, i, o, now), k) = [StatusOf(f, k) EXCEPT ![i] = o]
<1> DEFINE g == AnsweredWith(f, i, o, now)
<1>1. /\ f \in FileType /\ i \in Retained(f) /\ i \in ID /\ Retained(f) \subseteq ID /\ ~(i > k)
  BY RecordFacts DEF Good, Pending, Issued, ID
<1>2. /\ g.admissions = f.admissions /\ Retained(g) = Retained(f)
      /\ g.asks[i].option = o
      /\ \A j \in ID \ {i} : g.asks[j] = f.asks[j]
  BY <1>1, AnswerFacts
<1> HIDE DEF g
<1>3. o # None
  BY NoneAssumption
<1>4. ASSUME NEW j \in ID
      PROVE  StatusOf(g, k)[j] = IF j = i THEN o ELSE StatusOf(f, k)[j]
  <2>1. CASE j = i
    BY <1>1, <1>2, <1>3, <2>1 DEF StatusOf, Pending, Answered
  <2>2. CASE j # i
    <3>1. /\ j \in Pending(g) <=> j \in Pending(f)
          /\ j \in Answered(g) <=> j \in Answered(f)
          /\ g.asks[j] = f.asks[j]
      BY <1>2, <2>2 DEF Pending, Answered
    <3> QED
      BY <1>2, <2>2, <3>1 DEF StatusOf
  <2> QED
    BY <2>1, <2>2
<1>5. StatusOf(g, k) = [StatusOf(f, k) EXCEPT ![i] = o]
  <2>1. StatusOf(g, k) = [j \in ID |-> StatusOf(g, k)[j]] /\ StatusOf(f, k) = [j \in ID |-> StatusOf(f, k)[j]]
    BY DEF StatusOf
  <2> QED
    BY <1>1, <1>4, <2>1
<1> QED
  BY <1>2, <1>5 DEF Names, g

ContractName(q, i) == [name |-> <<q.scope, q.key>>, id |-> i]

LEMMA NamesAdmitted ==
    ASSUME NEW f, NEW g, NEW q \in Asking, NEW i \in ID,
           g.admissions = f.admissions \cup {NameOf(q, i)}
    PROVE  Names(g) = Names(f) \cup {ContractName(q, i)}
<1>1. [name |-> <<NameOf(q, i).scope, NameOf(q, i).key>>, id |-> NameOf(q, i).id] = ContractName(q, i)
  BY NameFacts DEF ContractName
<1> QED
  BY <1>1 DEF Names

LEMMA StatusShared ==
    ASSUME NEW f, NEW k \in 0 .. MaxIssued, Good(f, k), NEW q \in Asking, NEW i \in Retained(f)
    PROVE  StatusOf(Admitted(f, q, i), k) = StatusOf(f, k)
<1> DEFINE g == Admitted(f, q, i)
<1>1. f \in FileType /\ i \in ID
  BY RecordFacts DEF Good
<1>2. g.asks = f.asks /\ g.admissions = f.admissions \cup {NameOf(q, i)} /\ NameOf(q, i).id = i
  BY <1>1, AdmittedFacts, NameFacts
<1> HIDE DEF g
<1>3. Retained(g) = Retained(f) /\ Pending(g) = Pending(f) /\ Answered(g) = Answered(f)
  BY <1>2 DEF Retained, Pending, Answered
<1>4. i \in Pending(f) \/ i \in Answered(f)
  BY DEF Answered
<1>5. ASSUME NEW j \in ID PROVE StatusOf(g, k)[j] = StatusOf(f, k)[j]
  <2>1. CASE j = i
    BY <1>2, <1>3, <1>4, <2>1 DEF StatusOf
  <2>2. CASE j # i
    <3>1. (\E n \in g.admissions : n.id = j) <=> (\E n \in f.admissions : n.id = j)
      BY <1>2, <2>2
    <3> QED
      BY <1>2, <1>3, <3>1 DEF StatusOf
  <2> QED
    BY <2>1, <2>2
<1>6. StatusOf(g, k) = StatusOf(f, k)
  BY <1>5 DEF StatusOf
<1> QED
  BY <1>6 DEF g

LEMMA StatusNew ==
    ASSUME NEW f, NEW k \in 0 .. MaxIssued, Good(f, k), k < MaxIssued, NEW q \in Asking, NEW now \in Clock
    PROVE  StatusOf(NewFile(f, q, k + 1, now), k + 1) = [StatusOf(f, k) EXCEPT ![k + 1] = "open"]
<1> DEFINE i == k + 1
           g == NewFile(f, q, i, now)
<1>1. f \in FileType /\ i \in ID /\ i \notin Retained(f) /\ \A j \in ID : j > k <=> (j > i \/ j = i)
  BY BoundAssumption DEF Good, Issued, ID
<1>2. /\ g.admissions = f.admissions \cup {NameOf(q, i)} /\ NameOf(q, i).id = i
      /\ Retained(g) = Retained(f) \cup {i} /\ g.asks[i].option = None
      /\ \A j \in ID \ {i} : g.asks[j] = f.asks[j]
  BY <1>1, NewFacts, NameFacts
<1> HIDE DEF g
<1>3. ASSUME NEW j \in ID
      PROVE  StatusOf(g, i)[j] = IF j = i THEN "open" ELSE StatusOf(f, k)[j]
  <2>1. CASE j = i
    <3>1. j \in Pending(g) /\ ~(j > i)
      BY <1>1, <1>2, <2>1 DEF Pending, ID
    <3> QED
      BY <2>1, <3>1 DEF StatusOf
  <2>2. CASE j # i
    <3>1. /\ j \in Pending(g) <=> j \in Pending(f)
          /\ j \in Answered(g) <=> j \in Answered(f)
          /\ g.asks[j] = f.asks[j]
          /\ (\E n \in g.admissions : n.id = j) <=> (\E n \in f.admissions : n.id = j)
          /\ j > i <=> j > k
      BY <1>1, <1>2, <2>2 DEF Pending, Answered
    <3> QED
      BY <2>2, <3>1 DEF StatusOf
  <2> QED
    BY <2>1, <2>2
<1>4. StatusOf(g, i) = [StatusOf(f, k) EXCEPT ![i] = "open"]
  <2>1. StatusOf(g, i) = [j \in ID |-> StatusOf(g, i)[j]] /\ StatusOf(f, k) = [j \in ID |-> StatusOf(f, k)[j]]
    BY DEF StatusOf
  <2> QED
    BY <1>1, <1>3, <2>1
<1> QED
  BY <1>4 DEF g

(* The contract's operators, read off the file. *)
LEMMA Bridge ==
    ASSUME NEW D
    PROVE  /\ Contract!Without(D) = {x \in Names(file) : x.id \notin D}
           /\ Contract!Dropping(D) = [i \in ID |-> IF i \in D THEN "dropped" ELSE StatusOf(file, issued)[i]]
<1>1. Contract!Without(D) = {x \in Names(file) : x.id \notin D}
  BY DEF Contract!Without, Names
<1>2. \A i \in ID : Status(i) = StatusOf(file, issued)[i]
  BY DEF Status, StatusOf
<1>3. Contract!Dropping(D) = [i \in ID |-> IF i \in D THEN "dropped" ELSE StatusOf(file, issued)[i]]
  BY <1>2 DEF Contract!Dropping
<1> QED
  BY <1>1, <1>3

LEMMA ContractOpening ==
    ASSUME IInv, NEW f \in Openings
    PROVE  \E D \in SUBSET Pending(file) :
              /\ f = Without(file, D) /\ Good(f, issued)
              /\ Pending(f) \cap D = {} /\ Retained(f) \cap D = {}
              /\ Pending(f) \subseteq Pending(file) /\ Answered(f) \subseteq Answered(file)
              /\ Names(f) = Contract!Without(D)
              /\ StatusOf(f, issued) = Contract!Dropping(D)
<1>1. PICK D \in SUBSET Pending(file) : f = Without(file, D)
  BY OpeningFacts DEF IInv
<1>2. /\ file \in FileType /\ f \in FileType /\ Good(f, issued) /\ Less(file, f)
      /\ issued \in 0 .. MaxIssued /\ Good(file, issued) /\ D \in SUBSET Retained(file)
  BY <1>1, OpeningFacts, RecordFacts DEF IInv, Good, Histories
<1>3. Retained(f) = Retained(file) \ D /\ Pending(f) \subseteq Retained(f) /\ Answered(f) \subseteq Retained(f)
  BY <1>1, <1>2, WithoutFacts, RecordFacts
<1>4. Pending(f) \subseteq Pending(file) /\ Answered(f) \subseteq Answered(file)
  BY <1>2, <1>3, LessKinds
<1>5. Names(f) = Contract!Without(D) /\ StatusOf(f, issued) = Contract!Dropping(D)
  BY <1>1, <1>2, StatusWithout, Bridge
<1> QED
  BY <1>1, <1>2, <1>3, <1>4, <1>5

(* A step of the contract begins with the end of some open questions. *)
LEMMA ContractSteps ==
    ASSUME IInv, NEW D \in SUBSET Pending(file),
           \/ Names(file') = Contract!Without(D) /\ StatusOf(file', issued') = Contract!Dropping(D)
           \/ \E i \in ID : \/ \E x \in Scope \X Key : Contract!Ask(D, x, i) \/ Contract!Share(D, x, i)
                            \/ \E o \in Option : Contract!Answer(D, i, o)
                            \/ Contract!Release(D, i)
           \/ \E S \in SUBSET ID : Contract!Dismiss(D, S)
    PROVE  Contract!Next
<1>1. D \in SUBSET {i \in ID : Status(i) = "open"}
  <2>1. ASSUME NEW i \in D PROVE i \in ID /\ Status(i) = "open"
    <3>1. i \in ID /\ i \in Pending(file)
      BY RecordFacts DEF IInv, Good
    <3> QED
      BY <3>1, StatusKinds DEF IInv, Histories, Status, StatusOf
  <2> QED
    BY <2>1
<1>2. \A i \in ID : [j \in ID |-> Status(j)][i] = Status(i)
  OBVIOUS
<1>3. D \in SUBSET {i \in ID : [j \in ID |-> Status(j)][i] = "open"}
  BY <1>1, <1>2
<1>4. CASE Names(file') = Contract!Without(D) /\ StatusOf(file', issued') = Contract!Dropping(D)
  BY <1>3, <1>4, Mapping DEF Contract!Next, Names
<1>5. CASE \E i \in ID : \/ \E x \in Scope \X Key : Contract!Ask(D, x, i) \/ Contract!Share(D, x, i)
                         \/ \E o \in Option : Contract!Answer(D, i, o)
                         \/ Contract!Release(D, i)
  BY <1>3, <1>5 DEF Contract!Next
<1>6. CASE \E S \in SUBSET ID : Contract!Dismiss(D, S)
  BY <1>3, <1>6 DEF Contract!Next
<1> QED
  BY <1>4, <1>5, <1>6

LEMMA ContractMove ==
    ASSUME NEW D, NEW N, NEW i \in ID, NEW to,
           Names(file') = Contract!Without(D) \cup N,
           StatusOf(file', issued') = [Contract!Dropping(D) EXCEPT ![i] = to]
    PROVE  Contract!Move(D, N, i, to)
BY Mapping DEF Contract!Move, Names

(* A key that names nothing in f is free in the contract. *)
LEMMA FreeName ==
    ASSUME NEW f \in FileType, NEW D, NEW q \in Asking,
           Names(f) = Contract!Without(D), Named(f, q.scope, q.key) = {}
    PROVE  Contract!Free(D, <<q.scope, q.key>>)
<1>1. \A x \in Names(f) : x.name # <<q.scope, q.key>>
  BY DEF Names, Named
<1> QED
  BY <1>1 DEF Contract!Free

LEMMA AskImplements ==
    ASSUME IInv, NEW q \in Asking, Ask(q)
    PROVE  Contract!Next
<1>1. PICK f \in Openings : Replay(f, q) \/ Share(f, q) \/ AskNew(f, q)
  BY DEF Ask
<1>2. PICK D \in SUBSET Pending(file) :
         /\ f = Without(file, D) /\ Good(f, issued)
         /\ Pending(f) \cap D = {} /\ Retained(f) \cap D = {}
         /\ Pending(f) \subseteq Pending(file) /\ Answered(f) \subseteq Answered(file)
         /\ Names(f) = Contract!Without(D)
         /\ StatusOf(f, issued) = Contract!Dropping(D)
  BY ContractOpening
<1>3. /\ f \in FileType /\ issued \in 0 .. MaxIssued /\ Good(file, issued)
      /\ <<q.scope, q.key>> \in Scope \X Key
  BY <1>2, AskingFacts DEF IInv, Histories, Good
<1>4. CASE Replay(f, q)
  <2>1. file' = f /\ issued' = issued
    BY <1>4 DEF Replay, Commit, Write
  <2> QED
    BY <1>2, <2>1, ContractSteps
<1>5. CASE Share(f, q)
  <2>1. PICK i \in Sharing(f, q) : file' = Admitted(f, q, i) /\ issued' = issued
    BY <1>5 DEF Share, Commit, Write
  <2>2. i \in ID /\ i \in Retained(f) /\ i \notin D
    BY <1>2, <1>3, <2>1, RecordFacts DEF Sharing, SameEffect, SameWords
  <2>3. StatusOf(file', issued') = Contract!Dropping(D)
    BY <1>2, <1>3, <2>1, <2>2, StatusShared
  <2>4. Names(file') = Contract!Without(D) \cup {ContractName(q, i)}
    BY <1>2, <1>3, <2>1, <2>2, AdmittedFacts, NamesAdmitted
  <2>5. Status(i) \in Option \cup {"open"} /\ Contract!Dropping(D)[i] = Status(i)
    <3>1. i \in Pending(file) \/ i \in Answered(file)
      BY <1>2, <2>2 DEF Answered
    <3>2. Status(i) = StatusOf(file, issued)[i]
      BY <2>2 DEF Status, StatusOf
    <3> QED
      BY <1>3, <2>2, <3>1, <3>2, StatusKinds, Bridge
  <2> PICK to : to = Status(i)
    OBVIOUS
  <2>6. [Contract!Dropping(D) EXCEPT ![i] = to] = Contract!Dropping(D)
    BY <2>2, <2>5 DEF Contract!Dropping
  <2>7. /\ Names(file)' = Contract!Without(D) \cup {[name |-> <<q.scope, q.key>>, id |-> i]}
        /\ [j \in ID |-> Status(j)]' = [Contract!Dropping(D) EXCEPT ![i] = to]
        /\ [j \in ID |-> Status(j)][i] = to
    BY <2>2, <2>3, <2>4, <2>6, Mapping DEF ContractName, Names
  <2>8. Contract!Free(D, <<q.scope, q.key>>)
    BY <1>2, <1>3, <1>5, FreeName DEF Share
  <2>9. Contract!Share(D, <<q.scope, q.key>>, i)
    BY <2>2, <2>5, <2>7, <2>8 DEF Contract!Share, Contract!Move, Names
  <2> QED
    BY <1>3, <2>2, <2>9, ContractSteps
<1>6. CASE AskNew(f, q)
  <2> DEFINE i == issued + 1
  <2>1. PICK now \in Clock : file' = NewFile(f, q, i, now)
    BY <1>6 DEF AskNew, NewFile, NewRecord
  <2>2. issued < MaxIssued /\ issued' = i /\ i \in ID /\ i \notin Retained(f)
    BY <1>2, <1>3, <1>6, BoundAssumption DEF AskNew, ID, Good, Issued
  <2>3. StatusOf(file', issued') = [Contract!Dropping(D) EXCEPT ![i] = "open"]
    BY <1>2, <1>3, <2>1, <2>2, StatusNew
  <2>4. Names(file') = Contract!Without(D) \cup {ContractName(q, i)}
    BY <1>2, <1>3, <2>1, <2>2, NewFacts, NamesAdmitted
  <2>5. Status(i) = "unasked"
    BY <1>3, <2>2 DEF Status
  <2>6. Contract!Move(D, {ContractName(q, i)}, i, "open")
    BY <2>2, <2>3, <2>4, ContractMove
  <2>7. Contract!Free(D, <<q.scope, q.key>>)
    BY <1>2, <1>3, <1>6, FreeName DEF AskNew
  <2>8. Contract!Ask(D, <<q.scope, q.key>>, i)
    BY <2>2, <2>5, <2>6, <2>7 DEF Contract!Ask, ContractName
  <2> QED
    BY <1>3, <2>2, <2>8, ContractSteps
<1> QED
  BY <1>1, <1>4, <1>5, <1>6

LEMMA AnswerImplements ==
    ASSUME IInv, NEW i \in ID, NEW o \in Option, Answer(i, o)
    PROVE  Contract!Next
<1>1. PICK f \in Openings, now \in Clock : i \in Pending(f) /\ Commit(AnsweredWith(f, i, o, now))
  BY DEF Answer, MayAnswer, AnsweredWith
<1>2. PICK D \in SUBSET Pending(file) :
         /\ Good(f, issued) /\ Pending(f) \cap D = {} /\ Pending(f) \subseteq Pending(file)
         /\ Names(f) = Contract!Without(D)
         /\ StatusOf(f, issued) = Contract!Dropping(D)
  BY ContractOpening
<1>3. issued \in 0 .. MaxIssued /\ Good(file, issued) /\ i \in Pending(file) /\ i \notin D
  BY <1>1, <1>2 DEF IInv, Histories
<1>4. file' = AnsweredWith(f, i, o, now) /\ issued' = issued
  BY <1>1 DEF Commit, Write
<1>5. /\ Names(file') = Contract!Without(D) \cup {}
      /\ StatusOf(file', issued') = [Contract!Dropping(D) EXCEPT ![i] = o]
  BY <1>1, <1>2, <1>3, <1>4, StatusAnswered
<1>6. Status(i) = "open"
  BY <1>3, StatusKinds DEF Status, StatusOf
<1>7. Contract!Answer(D, i, o)
  BY <1>3, <1>5, <1>6, ContractMove DEF Contract!Answer
<1> QED
  BY <1>7, ContractSteps

LEMMA ReleaseImplements ==
    ASSUME IInv, NEW f \in Openings, NEW i \in ID, i \in Answered(f), Write(Without(f, {i}))
    PROVE  Contract!Next
<1>2. PICK D \in SUBSET Pending(file) :
         /\ Good(f, issued) /\ Answered(f) \subseteq Answered(file)
         /\ Names(f) = Contract!Without(D)
         /\ StatusOf(f, issued) = Contract!Dropping(D)
  BY ContractOpening
<1>3. issued \in 0 .. MaxIssued /\ Good(file, issued) /\ i \in Answered(file) /\ i \in Retained(f)
  BY <1>2 DEF IInv, Histories, Answered
<1>4. file' = Without(f, {i}) /\ issued' = issued
  BY DEF Write
<1>5. /\ Names(file') = {x \in Names(f) : x.id \notin {i}}
      /\ StatusOf(file', issued') = [j \in ID |-> IF j \in {i} THEN "dropped" ELSE StatusOf(f, issued)[j]]
  BY <1>2, <1>3, <1>4, StatusWithout
<1>6. Names(file') = Contract!Without(D \cup {i})
  BY <1>2, <1>5, Bridge
<1>7. StatusOf(file', issued') = Contract!Dropping(D \cup {i})
  BY <1>2, <1>5, Bridge
<1>8. Status(i) \in Option
  BY <1>3, StatusKinds DEF Status, StatusOf
<1>9. Contract!Release(D, i)
  BY <1>6, <1>7, <1>8, Mapping DEF Contract!Release, Names
<1> QED
  BY <1>9, ContractSteps

(* What the permission owner settled goes with its names, as what expires.     *)
LEMMA WithdrawImplements ==
    ASSUME IInv, NEW i \in ID, WithdrawSettled(i)
    PROVE  Contract!Next
<1>1. PICK f \in Openings : i \in Pending(f) /\ Commit(Without(f, {i}))
  BY DEF WithdrawSettled
<1>2. PICK D \in SUBSET Pending(file) :
         /\ Good(f, issued) /\ Pending(f) \subseteq Pending(file)
         /\ Names(f) = Contract!Without(D)
         /\ StatusOf(f, issued) = Contract!Dropping(D)
  BY ContractOpening
<1>3. issued \in 0 .. MaxIssued /\ D \cup {i} \in SUBSET Pending(file) /\ i \in Retained(f)
  BY <1>1, <1>2 DEF IInv, Histories, Pending
<1>4. file' = Without(f, {i}) /\ issued' = issued
  BY <1>1 DEF Commit, Write
<1>5. /\ Names(file') = {x \in Names(f) : x.id \notin {i}}
      /\ StatusOf(file', issued') = [j \in ID |-> IF j \in {i} THEN "dropped" ELSE StatusOf(f, issued)[j]]
  BY <1>2, <1>3, <1>4, StatusWithout
<1>6. Names(file') = Contract!Without(D \cup {i})
  BY <1>2, <1>5, Bridge
<1>7. StatusOf(file', issued') = Contract!Dropping(D \cup {i})
  BY <1>2, <1>5, Bridge
<1> QED
  BY <1>3, <1>6, <1>7, ContractSteps

LEMMA DismissImplements ==
    ASSUME IInv, NEW f \in Openings, NEW S \in SUBSET Retained(f), Write(Buried(f, S))
    PROVE  Contract!Next
<1>1. PICK D \in SUBSET Pending(file) :
         /\ Good(f, issued) /\ Retained(f) \cap D = {}
         /\ Pending(f) \subseteq Pending(file) /\ Answered(f) \subseteq Answered(file)
         /\ Names(f) = Contract!Without(D)
         /\ StatusOf(f, issued) = Contract!Dropping(D)
  BY ContractOpening
<1>2. issued \in 0 .. MaxIssued /\ Good(file, issued) /\ S \in SUBSET ID
  BY <1>1, RecordFacts DEF IInv, Histories, Good
<1>3. file' = Buried(f, S) /\ issued' = issued
  BY DEF Write
<1>4. /\ Names(file') = Contract!Without(D)
      /\ StatusOf(file', issued') = [i \in ID |-> IF i \in S THEN "dismissed" ELSE Contract!Dropping(D)[i]]
  BY <1>1, <1>2, <1>3, StatusBuried
<1>5. ASSUME NEW i \in S PROVE Status(i) \in Option \cup {"open"} /\ i \notin D /\ i \in ID
  <2>1. i \in ID /\ i \notin D /\ (i \in Pending(file) \/ i \in Answered(file))
    BY <1>1, <1>2 DEF Answered
  <2> QED
    BY <1>2, <2>1, StatusKinds DEF Status, StatusOf
<1>6. Contract!Dismiss(D, S)
  BY <1>4, <1>5, Mapping DEF Contract!Dismiss, Names
<1> QED
  BY <1>2, <1>6, ContractSteps

LEMMA ContractInit == Init => Contract!Init
<1> SUFFICES ASSUME Init PROVE Contract!Init
  OBVIOUS
<1>1. file.admissions = {} /\ issued = 0
  BY DEF Init
<1>2. \A i \in ID : Status(i) = "unasked"
  BY <1>1 DEF Status, ID
<1> QED
  BY <1>1, <1>2 DEF Contract!Init

(* The partition implements its contract: every edit ends the questions whose  *)
(* time has passed and makes at most one of the contract's moves, and a read   *)
(* makes none.                                                               *)
THEOREM Implementation == Spec => ImplementsContract
<1>1. IInv /\ [Next]_vars => [Contract!Next]_(Contract!vars)
  <2> SUFFICES ASSUME IInv, [Next]_vars PROVE [Contract!Next]_(Contract!vars)
    OBVIOUS
  <2>1. CASE \E q \in Asking : Ask(q)
    BY <2>1, AskImplements
  <2>2. CASE \E i \in ID : WithdrawSettled(i) \/ \E o \in Option : Answer(i, o)
    BY <2>2, AnswerImplements, WithdrawImplements
  <2>6. CASE \E i \in ID, o \in Option : Release(i, o)
    <3>1. PICK i \in ID, f \in Openings : i \in Answered(f) /\ Write(Without(f, {i}))
      BY <2>6 DEF Release, IsExpected, Releasable, Commit
    <3> QED
      BY <3>1, ReleaseImplements
  <2>7. CASE \E s \in Scope, k \in Key, o \in Option : ReleaseKey(s, k, o)
    BY <2>7, ReleaseKeyFacts, ReleaseImplements
  <2>3. CASE \E i \in ID : Retire(i) \/ Forget(i)
    <3>1. PICK i \in ID, f \in Openings : i \in Retained(f) /\ Write(Buried(f, {i}))
      BY <2>3 DEF Retire, Forget, Commit
    <3> QED
      BY <3>1, DismissImplements
  <2>4. CASE WithdrawRuntimeBound
    <3>1. PICK f \in Openings :
             Write(Buried(f, PendingBound(f))) \/ UNCHANGED <<file, issued>>
      BY <2>4 DEF WithdrawRuntimeBound, Commit
    <3>2. CASE UNCHANGED <<file, issued>>
      BY <3>2 DEF Contract!vars, Status
    <3>3. CASE Write(Buried(f, PendingBound(f)))
      <4>1. PendingBound(f) \in SUBSET Retained(f)
        BY DEF PendingBound, Pending
      <4> QED
        BY <3>3, <4>1, DismissImplements
    <3> QED
      BY <3>1, <3>2, <3>3
  <2>5. CASE (\E s \in Scope, k \in Key : Observe(s, k)) \/ UNCHANGED vars
    <3>1. file' = file /\ issued' = issued
      BY <2>5 DEF Observe, vars
    <3>2. UNCHANGED Contract!vars
      BY <3>1 DEF Contract!vars, Status
    <3> QED
      BY <3>2
  <2> QED
    BY <2>1, <2>2, <2>3, <2>4, <2>5, <2>6, <2>7 DEF Next
<1> QED
  BY <1>1, ContractInit, Invariance, PTL DEF Spec, ImplementsContract, Contract!Spec

-----------------------------------------------------------------------------
(* What the contract promises: a name stands for one question that is open,    *)
(* answered or dismissed, and is freed only with what is dropped.              *)

Unsettled == Option \cup {"open"}

(* What one step of the contract makes of its names N and statuses s: the      *)
(* occurrences in G are dropped with their names, the others keep theirs.      *)
Moved(N, s, N1, s1, G) ==
    /\ \A i \in G : i \in ID /\ s[i] \in Unsettled /\ s1[i] = "dropped"
    /\ \A i \in ID \ G :
          \/ s1[i] = s[i]
          \/ s[i] = "unasked" /\ s1[i] = "open" /\ \E n \in N1 : n.id = i
          \/ s[i] = "open" /\ s1[i] \in Option
          \/ s[i] \in Unsettled /\ s1[i] = "dismissed"
    /\ \A n \in N : n \in N1 <=> n.id \notin G
    /\ \A n \in N1 \ N :
          /\ n.id \in ID \ G /\ s1[n.id] \in Unsettled
          /\ \A m \in N1 : m.name = n.name => m = n

Stand(N, s) ==
    /\ \A m, n \in N : m.name = n.name => m = n
    /\ \A n \in N : n.id \in ID /\ s[n.id] \in Unsettled \cup {"dismissed"}
    /\ \A i \in ID : s[i] \in Unsettled => \E n \in N : n.id = i

LEMMA Words ==
    /\ "unasked" \notin Unsettled \cup {"dismissed"} /\ "dropped" \notin Unsettled \cup {"dismissed"}
    /\ "dismissed" \notin Unsettled /\ "open" \in Unsettled /\ "open" \notin Option
    /\ Unsettled = Option \cup {"open"}
BY OptionAssumption DEF Unsettled

LEMMA MovedStand ==
    ASSUME NEW N, NEW s, NEW N1, NEW s1, NEW G, Stand(N, s), Moved(N, s, N1, s1, G)
    PROVE  Stand(N1, s1)
<1>1. ASSUME NEW m \in N1, NEW n \in N1, m.name = n.name
      PROVE  m = n
  <2>1. CASE m \in N /\ n \in N
    BY <1>1, <2>1 DEF Stand
  <2>2. CASE m \notin N
    BY <1>1, <2>2 DEF Moved
  <2>3. CASE n \notin N
    BY <1>1, <2>3 DEF Moved
  <2> QED
    BY <2>1, <2>2, <2>3
<1>2. ASSUME NEW n \in N1
      PROVE  n.id \in ID /\ s1[n.id] \in Unsettled \cup {"dismissed"}
  <2>1. CASE n \in N
    <3>1. n.id \in ID \ G /\ s[n.id] \in Unsettled \cup {"dismissed"}
      BY <1>2, <2>1 DEF Stand, Moved
    <3> QED
      BY <3>1, Words DEF Moved
  <2>2. CASE n \notin N
    BY <1>2, <2>2 DEF Moved
  <2> QED
    BY <2>1, <2>2
<1>3. ASSUME NEW i \in ID, s1[i] \in Unsettled
      PROVE  \E n \in N1 : n.id = i
  <2>1. i \notin G
    BY <1>3, Words DEF Moved
  <2>2. s[i] \in Unsettled \/ \E n \in N1 : n.id = i
    BY <1>3, <2>1, Words DEF Moved
  <2>3. ASSUME s[i] \in Unsettled PROVE \E n \in N1 : n.id = i
    <3>1. PICK n \in N : n.id = i
      BY <2>3 DEF Stand
    <3>2. n \in N1
      BY <2>1, <3>1 DEF Moved
    <3> QED
      BY <3>1, <3>2
  <2> QED
    BY <2>2, <2>3
<1> QED
  BY <1>1, <1>2, <1>3 DEF Stand

LEMMA MovedOnward ==
    ASSUME NEW N, NEW s, NEW N1, NEW s1, NEW G, Moved(N, s, N1, s1, G)
    PROVE  /\ \A i \in ID : Contract!Follows(s[i], s1[i])
           /\ \A n \in N \ N1 : s1[n.id] = "dropped" /\ \A m \in N1 : m.id # n.id
<1>1. ASSUME NEW i \in ID
      PROVE  Contract!Follows(s[i], s1[i])
  <2>1. CASE i \in G
    BY <2>1, Words DEF Moved, Contract!Follows
  <2>2. CASE i \notin G
    BY <2>2, Words DEF Moved, Contract!Follows
  <2> QED
    BY <2>1, <2>2
<1>2. ASSUME NEW n \in N \ N1
      PROVE  s1[n.id] = "dropped" /\ \A m \in N1 : m.id # n.id
  <2>1. n.id \in G /\ s1[n.id] = "dropped"
    BY DEF Moved
  <2>2. ASSUME NEW m \in N1 PROVE m.id \notin G
    BY DEF Moved
  <2> QED
    BY <2>1, <2>2
<1> QED
  BY <1>1, <1>2

(* A step of the contract, as the moves it makes. *)
LEMMA ContractMoves ==
    ASSUME Contract!Next
    PROVE  \E G : Moved(Names(file), StatusOf(file, issued), Names(file'), StatusOf(file', issued'), G)
<1> DEFINE N == Names(file)
           s == StatusOf(file, issued)
           N1 == Names(file')
           s1 == StatusOf(file', issued')
<1>1. [i \in ID |-> Status(i)] = s /\ [i \in ID |-> Status(i)]' = s1
  BY Mapping
<1>2. \A i \in ID : [j \in ID |-> Status(j)][i] = s[i]
  BY <1>1
<1>3. PICK D \in SUBSET {i \in ID : [j \in ID |-> Status(j)][i] = "open"} :
        \/ Names(file)' = Contract!Without(D) /\ [i \in ID |-> Status(i)]' = Contract!Dropping(D)
        \/ \E i \in ID :
              \/ \E x \in Scope \X Key : Contract!Ask(D, x, i) \/ Contract!Share(D, x, i)
              \/ \E option \in Option : Contract!Answer(D, i, option)
              \/ Contract!Release(D, i)
        \/ \E S \in SUBSET ID : Contract!Dismiss(D, S)
  BY DEF Contract!Next, Names
<1>4. \A i \in D : i \in ID /\ s[i] = "open"
  BY <1>2
<1>5. \A E : /\ Contract!Without(E) = {n \in N : n.id \notin E}
             /\ Contract!Dropping(E) = [i \in ID |-> IF i \in E THEN "dropped" ELSE s[i]]
  BY Bridge
<1>6. CASE Names(file)' = Contract!Without(D) /\ [i \in ID |-> Status(i)]' = Contract!Dropping(D)
  <2>1. N1 = {n \in N : n.id \notin D} /\ s1 = [i \in ID |-> IF i \in D THEN "dropped" ELSE s[i]]
    BY <1>1, <1>5, <1>6
  <2> HIDE DEF N, s, N1, s1
  <2>2. Moved(N, s, N1, s1, D)
    BY <1>4, <2>1, Words DEF Moved
  <2> QED
    BY <2>2 DEF N, s, N1, s1
<1>7. ASSUME NEW i \in ID, NEW x, Contract!Ask(D, x, i) \/ Contract!Share(D, x, i)
      PROVE  Moved(N, s, N1, s1, D)
  <2>1. \A n \in Contract!Without(D) : n.name # x
    BY <1>7 DEF Contract!Ask, Contract!Share, Contract!Free
  <2> DEFINE to == IF s[i] = "unasked" THEN "open" ELSE s[i]
  <2>0. s[i] = "unasked" \/ (s[i] \in Unsettled /\ i \notin D)
    BY <1>2, <1>7, Words DEF Contract!Ask, Contract!Share
  <2>2. /\ Names(file)' = Contract!Without(D) \cup {[name |-> x, id |-> i]}
        /\ [j \in ID |-> Status(j)]' = [Contract!Dropping(D) EXCEPT ![i] = to]
    <3>1. CASE Contract!Ask(D, x, i)
      <4>1. [j \in ID |-> Status(j)][i] = "unasked"
        BY <3>1 DEF Contract!Ask
      <4>2. to = "open"
        BY <1>2, <4>1
      <4> QED
        BY <3>1, <4>2 DEF Contract!Ask, Contract!Move, Names
    <3>2. CASE Contract!Share(D, x, i)
      <4>1. [j \in ID |-> Status(j)][i] \in Unsettled
        BY <3>2, Words DEF Contract!Share
      <4>2. to = [j \in ID |-> Status(j)][i]
        BY <1>2, <4>1, Words
      <4> HIDE DEF to
      <4> QED
        BY <3>2, <4>2 DEF Contract!Share, Contract!Move, Names
    <3> QED
      BY <1>7, <3>1, <3>2
  <2>3. /\ N1 = {n \in N : n.id \notin D} \cup {[name |-> x, id |-> i]}
        /\ s1 = [[j \in ID |-> IF j \in D THEN "dropped" ELSE s[j]] EXCEPT ![i] = to]
    BY <1>1, <1>5, <2>2
  <2>4. \A n \in N : n.id \notin D => n.name # x
    BY <1>5, <2>1
  <2> DEFINE y == [name |-> x, id |-> i]
  <2>5. y.name = x /\ y.id = i
    OBVIOUS
  <2> HIDE DEF N, s, N1, s1, y
  <2>6. i \notin D /\ to \in Unsettled /\ (to = s[i] \/ (s[i] = "unasked" /\ to = "open"))
    BY <1>4, <2>0, Words
  <2>7. s1[i] = to /\ \A j \in ID \ {i} : s1[j] = IF j \in D THEN "dropped" ELSE s[j]
    BY <2>3
  <2>8. y \in N1 /\ \A n \in N1 : n = y \/ (n \in N /\ n.id \notin D)
    BY <2>3 DEF y
  <2>9. \A n \in N : n \in N1 <=> n.id \notin D
    BY <2>3, <2>5, <2>6, <2>8
  <2>10. \A n \in N1 \ N : n.id \in ID \ D /\ s1[n.id] \in Unsettled /\ \A m \in N1 : m.name = n.name => m = n
    BY <2>4, <2>5, <2>6, <2>7, <2>8
  <2>11. \A j \in D : j \in ID /\ s[j] \in Unsettled /\ s1[j] = "dropped"
    BY <1>4, <2>6, <2>7, Words
  <2>12. ASSUME NEW j \in ID \ D
         PROVE  \/ s1[j] = s[j]
                \/ s[j] = "unasked" /\ s1[j] = "open" /\ \E n \in N1 : n.id = j
    <3>1. CASE j = i
      BY <2>5, <2>6, <2>7, <2>8, <3>1
    <3>2. CASE j # i
      BY <2>7, <3>2
    <3> QED
      BY <3>1, <3>2
  <2> QED
    BY <2>9, <2>10, <2>11, <2>12 DEF Moved
<1>8. ASSUME NEW i \in ID, NEW o \in Option, Contract!Answer(D, i, o)
      PROVE  Moved(N, s, N1, s1, D)
  <2>1. /\ s[i] = "open" /\ i \notin D
        /\ N1 = {n \in N : n.id \notin D} \cup {}
        /\ s1 = [[j \in ID |-> IF j \in D THEN "dropped" ELSE s[j]] EXCEPT ![i] = o]
    BY <1>1, <1>2, <1>5, <1>8 DEF Contract!Answer, Contract!Move, Names
  <2> HIDE DEF N, s, N1, s1
  <2>2. s1[i] = o /\ \A j \in ID \ {i} : s1[j] = IF j \in D THEN "dropped" ELSE s[j]
    BY <2>1
  <2>3. \A n : n \in N1 <=> n \in N /\ n.id \notin D
    BY <2>1
  <2>4. \A j \in D : j \in ID /\ s[j] \in Unsettled /\ s1[j] = "dropped"
    BY <1>4, <2>1, <2>2, Words
  <2> QED
    BY <2>1, <2>2, <2>3, <2>4 DEF Moved
<1>9. ASSUME NEW i \in ID, Contract!Release(D, i)
      PROVE  Moved(N, s, N1, s1, D \cup {i})
  <2>1. /\ s[i] \in Option
        /\ N1 = {n \in N : n.id \notin D \cup {i}}
        /\ s1 = [j \in ID |-> IF j \in D \cup {i} THEN "dropped" ELSE s[j]]
    BY <1>1, <1>2, <1>5, <1>9 DEF Contract!Release, Names
  <2> HIDE DEF N, s, N1, s1
  <2>2. \A j \in D \cup {i} : j \in ID /\ s[j] \in Unsettled /\ s1[j] = "dropped"
    BY <1>4, <2>1, Words
  <2>3. \A n : n \in N1 <=> n \in N /\ n.id \notin D \cup {i}
    BY <2>1
  <2>4. \A j \in ID \ (D \cup {i}) : s1[j] = s[j]
    BY <2>1
  <2> DEFINE G == D \cup {i}
  <2> HIDE DEF G
  <2> QED
    BY <2>2, <2>3, <2>4 DEF Moved, G
<1>10. ASSUME NEW S \in SUBSET ID, Contract!Dismiss(D, S)
      PROVE  Moved(N, s, N1, s1, D)
  <2>1. /\ \A j \in S : s[j] \in Unsettled /\ j \notin D
        /\ N1 = {n \in N : n.id \notin D}
        /\ s1 = [j \in ID |-> IF j \in S THEN "dismissed" ELSE [k \in ID |-> IF k \in D THEN "dropped" ELSE s[k]][j]]
    BY <1>1, <1>2, <1>5, <1>10, Words DEF Contract!Dismiss, Names
  <2> HIDE DEF N, s, N1, s1
  <2>2. \A j \in ID : s1[j] = IF j \in S THEN "dismissed" ELSE IF j \in D THEN "dropped" ELSE s[j]
    BY <2>1
  <2>3. \A n : n \in N1 <=> n \in N /\ n.id \notin D
    BY <2>1
  <2>4. \A j \in D : j \in ID /\ s[j] \in Unsettled /\ s1[j] = "dropped"
    BY <1>4, <2>1, <2>2, Words
  <2> QED
    BY <2>1, <2>2, <2>3, <2>4 DEF Moved
<1> HIDE DEF N, s, N1, s1
<1>11. \E G : Moved(N, s, N1, s1, G)
  <2>1. CASE \E i \in ID :
              \/ \E x \in Scope \X Key : Contract!Ask(D, x, i) \/ Contract!Share(D, x, i)
              \/ \E option \in Option : Contract!Answer(D, i, option)
              \/ Contract!Release(D, i)
    BY <1>7, <1>8, <1>9, <2>1
  <2>2. CASE \E S \in SUBSET ID : Contract!Dismiss(D, S)
    BY <1>10, <2>2
  <2>3. CASE Names(file)' = Contract!Without(D) /\ [i \in ID |-> Status(i)]' = Contract!Dropping(D)
    BY <1>6, <2>3 DEF N, s, N1, s1
  <2> QED
    BY <1>3, <2>1, <2>2, <2>3
<1> QED
  BY <1>11 DEF N, s, N1, s1

Upheld == Stand(Names(file), StatusOf(file, issued))

LEMMA UpheldIs == Upheld <=> Contract!NamesStand
<1>1. \A i \in ID : [j \in ID |-> Status(j)][i] = StatusOf(file, issued)[i]
  BY Mapping
<1> QED
  BY <1>1 DEF Upheld, Stand, Contract!NamesStand, Names, Unsettled

LEMMA UpheldInit == Contract!Init => Upheld
<1> SUFFICES ASSUME Contract!Init
             PROVE  Upheld
  OBVIOUS
<1>1. Names(file) = {} /\ [i \in ID |-> Status(i)] = [i \in ID |-> "unasked"]
  BY DEF Contract!Init, Names
<1>2. \A i \in ID : StatusOf(file, issued)[i] = "unasked"
  BY <1>1, Mapping
<1> QED
  BY <1>1, <1>2, Words DEF Upheld, Stand

LEMMA UpheldNext ==
    ASSUME Upheld, Contract!Next
    PROVE  Upheld'
<1>1. PICK G : Moved(Names(file), StatusOf(file, issued), Names(file'), StatusOf(file', issued'), G)
  BY ContractMoves
<1>2. Stand(Names(file'), StatusOf(file', issued'))
  BY <1>1, MovedStand DEF Upheld
<1>3. Names(file)' = Names(file') /\ StatusOf(file, issued)' = StatusOf(file', issued')
  BY DEF Names, StatusOf
<1> QED
  BY <1>2, <1>3 DEF Upheld

LEMMA UpheldUnchanged ==
    ASSUME Upheld, UNCHANGED Contract!vars
    PROVE  Upheld'
<1>1. Names(file)' = Names(file) /\ [i \in ID |-> Status(i)]' = [i \in ID |-> Status(i)]
  BY DEF Contract!vars, Names
<1>2. StatusOf(file, issued)' = StatusOf(file, issued)
  <2>1. StatusOf(file, issued)' = StatusOf(file', issued')
    BY DEF StatusOf
  <2> QED
    BY <1>1, <2>1, Mapping
<1> QED
  BY <1>1, <1>2 DEF Upheld

LEMMA OnwardNext == Contract!Next => Contract!Onward
<1> SUFFICES ASSUME Contract!Next
             PROVE  Contract!Onward
  OBVIOUS
<1> DEFINE s == StatusOf(file, issued)
           s1 == StatusOf(file', issued')
<1>1. PICK G : Moved(Names(file), s, Names(file'), s1, G)
  BY ContractMoves
<1>2. /\ \A i \in ID : Contract!Follows(s[i], s1[i])
      /\ \A n \in Names(file) \ Names(file') : s1[n.id] = "dropped" /\ \A m \in Names(file') : m.id # n.id
  BY <1>1, MovedOnward
<1>3. [i \in ID |-> Status(i)] = s /\ [i \in ID |-> Status(i)]' = s1
  BY Mapping
<1> HIDE DEF s, s1
<1> QED
  BY <1>2, <1>3 DEF Contract!Onward, Names

(* A name stands for one occurrence, which is open, answered or dismissed, and *)
(* whatever is open or answered has a name to be read by.                      *)
THEOREM ContractNamesStand == Spec => []Contract!NamesStand
<1>1. Contract!Init => Upheld
  BY UpheldInit
<1>2. Upheld /\ [Contract!Next]_(Contract!vars) => Upheld'
  BY UpheldNext, UpheldUnchanged
<1>3. Upheld => Contract!NamesStand
  BY UpheldIs
<1> QED
  BY <1>1, <1>2, <1>3, Implementation, PTL DEF ImplementsContract, Contract!Spec

(* The first answer of an occurrence is its only one, what is over stays over, *)
(* and no name of a dismissed occurrence asks again.                           *)
THEOREM ContractAnswersOnce == Spec => Contract!AnsweredOnce
<1>1. [Contract!Next]_(Contract!vars) => [Contract!Onward]_(Contract!vars)
  BY OnwardNext
<1> QED
  BY <1>1, Implementation, PTL DEF ImplementsContract, Contract!Spec, Contract!AnsweredOnce

=============================================================================
