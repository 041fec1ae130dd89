----------------------------- MODULE PagesProofs -----------------------------
(***************************************************************************)
(* Theorems about Pages, for any callers, IDs, page sizes and restarts.      *)
(*                                                                         *)
(* What a caller has of a list is told by where it is (Fits): between pages   *)
(* its cursor binds the rows its attempt began with, and during a call the    *)
(* rows it read are those.  A token of this epoch is for what was shown in it. *)
(***************************************************************************)
EXTENDS Pages, FiniteSetTheorems, FunctionTheorems, SequenceTheorems, TLAPS

Places == {"idle", "list", "read", "acting", "done", "gaveup", "failed"}

Kinds == {"notifications", "questions", "answerable"}

Prefixes ==
    ({"notifications:"} \X (0..MaxEpoch) \X Caller \X Seq(Record))
    \cup ((0..MaxEpoch) \X Caller \X Seq(Record)) \cup {<<>>}

Lists == [kind : Kinds, attempt : 1..2, out : Seq(Record),
          cursor : [prefix : Prefixes, offset : Nat]]

Snaps == [rows : Seq(Record), prefix : Prefixes, offset : Nat, part : Seq(Record)]

(* The prefix of a list of this kind holds what the rows were taken from. *)
Binds(prefix, kind, rows) ==
    /\ prefix # <<>>
    /\ rows = IF kind = "notifications" THEN prefix[4] ELSE Only(prefix[3], Question)

(* What a caller has once the first n of the rows were served. *)
Come(kind, out, rows, n) ==
    /\ n \in 0..Len(rows)
    /\ IF kind = "answerable" THEN Len(out) <= n /\ LiveAmong(out, rows, n)
       ELSE out = SubSeq(rows, 1, n)

Fits(a, l, s, f) ==
    /\ a \in Places /\ l \in Lists /\ s \in Snaps /\ f \in Seq(Record)
    /\ a = "list" => \/ l.cursor = NoCursor /\ l.out = <<>>
                     \/ Binds(l.cursor.prefix, l.kind, f) /\ Come(l.kind, l.out, f, l.cursor.offset)
    /\ a = "read" => /\ s.rows = f /\ Binds(s.prefix, l.kind, f)
                     /\ Come(l.kind, l.out \o s.part, f, s.offset)
                     /\ l.kind # "answerable" => s.part = <<>>
    /\ a = "done" => Come(l.kind, l.out, f, Len(f))
    /\ a \notin {"list", "read", "done"} => l.out = <<>>
    /\ a # "read" => s = NoSnap

Callers ==
    /\ at \in [Caller -> Places] /\ list \in [Caller -> Lists]
    /\ snap \in [Caller -> Snaps] /\ first \in [Caller -> Seq(Record)]
    /\ \A c \in Caller : Fits(at[c], list[c], snap[c], first[c])

Distinct(rows) == \A j, k \in DOMAIN rows : rows[j].id = rows[k].id => j = k

GoodFile ==
    /\ file \in Seq(Record) /\ IdsOf(file) \subseteq used /\ used \subseteq Id
    /\ Distinct(file)

Rest ==
    /\ late \in BOOLEAN /\ epoch \in 0..MaxEpoch /\ right \in [Caller -> BOOLEAN]
    /\ want \in [Caller -> Note] /\ tokens \in [Caller -> SUBSET (Note \X (0..MaxEpoch))]
    /\ shown \subseteq Note

Shows ==
    /\ \A c \in Caller : \A t \in tokens[c] : t[2] <= epoch /\ (t[2] = epoch => t[1] \in shown)
    /\ \A c \in Caller : at[c] = "acting" => want[c] \in shown

IInv == GoodFile /\ Rest /\ Callers /\ Shows

-----------------------------------------------------------------------------
(* What Selected makes of a sequence. *)

(* The rank of an index among the selected ones. *)
Rank(K, k) == Cardinality({j \in K : j <= k})

(* Ranks count from one, and a later index has a higher one. *)
LEMMA RankFacts ==
    ASSUME NEW n \in Nat, NEW K, K \subseteq 1..n
    PROVE  /\ IsFiniteSet(K) /\ Cardinality(K) \in Nat
           /\ \A k \in K : Rank(K, k) \in 1..Cardinality(K)
           /\ \A j, k \in K : j < k => Rank(K, j) < Rank(K, k)
<1>0. \A k \in K : k \in Int
  OBVIOUS
<1>1. IsFiniteSet(1..n)
  BY FS_Interval
<1>2. IsFiniteSet(K) /\ Cardinality(K) \in Nat
  BY <1>1, FS_Subset, FS_CardinalityType
<1>3. ASSUME NEW k \in K
      PROVE  /\ IsFiniteSet({j \in K : j <= k}) /\ Rank(K, k) \in Nat
             /\ Rank(K, k) <= Cardinality(K) /\ Rank(K, k) # 0
  <2>1. IsFiniteSet({j \in K : j <= k}) /\ Rank(K, k) <= Cardinality(K)
    BY <1>2, FS_Subset DEF Rank
  <2>2. k \in {j \in K : j <= k}
    OBVIOUS
  <2>3. Rank(K, k) \in Nat
    BY <2>1, FS_CardinalityType DEF Rank
  <2>4. Rank(K, k) # 0
    BY <2>1, <2>2, FS_EmptySet DEF Rank
  <2>5. QED
    BY <2>1, <2>3, <2>4
<1>4. ASSUME NEW j \in K, NEW k \in K, j < k
      PROVE  Rank(K, j) < Rank(K, k)
  <2>0. j \in Int /\ k \in Int
    BY <1>0
  <2>1. {i \in K : i <= j} \in SUBSET {i \in K : i <= k}
    <3>1. ASSUME NEW i \in K, i <= j
          PROVE  i <= k
      BY <1>0, <1>4, <2>0, <3>1
    <3>2. QED
      BY <3>1
  <2>2. k \in {i \in K : i <= k} /\ k \notin {i \in K : i <= j}
    BY <1>4, <2>0
  <2>3. {i \in K : i <= j} # {i \in K : i <= k}
    BY <2>2
  <2>4. IsFiniteSet({i \in K : i <= k})
    BY <1>3
  <2>5. Rank(K, j) <= Rank(K, k) /\ Rank(K, j) # Rank(K, k)
    BY <2>1, <2>3, <2>4, FS_Subset DEF Rank
  <2>6. Rank(K, j) \in Nat /\ Rank(K, k) \in Nat
    BY <1>3
  <2>7. QED
    BY <2>5, <2>6
<1>5. \A k \in K : Rank(K, k) \in 1..Cardinality(K)
  <2>1. ASSUME NEW k \in K
        PROVE  Rank(K, k) \in Nat /\ Rank(K, k) <= Cardinality(K) /\ Rank(K, k) # 0
    BY <1>3
  <2>2. QED
    BY <1>2, <2>1
<1>6. QED
  BY <1>2, <1>4, <1>5

(* Every rank is taken, by one index. *)
LEMMA RankTaken ==
    ASSUME NEW n \in Nat, NEW K, K \subseteq 1..n, NEW m \in 1..Cardinality(K)
    PROVE  \E k \in K : Rank(K, k) = m
<1> DEFINE f == [k \in K |-> Rank(K, k)]
<1>0. /\ IsFiniteSet(K) /\ Cardinality(K) \in Nat
      /\ \A k \in K : Rank(K, k) \in 1..Cardinality(K)
      /\ \A j, k \in K : j < k => Rank(K, j) < Rank(K, k)
  BY RankFacts
<1>1. /\ IsFiniteSet(K) /\ Cardinality(K) \in Nat
      /\ f \in [K -> 1..Cardinality(K)]
      /\ \A j, k \in K : f[j] = f[k] => j = k
  <2>1. ASSUME NEW j \in K, NEW k \in K, Rank(K, j) = Rank(K, k)
        PROVE  j = k
    <3>1. j \in Int /\ k \in Int /\ Rank(K, j) \in Int
      BY <1>0
    <3>2. ~(j < k) /\ ~(k < j)
      BY <1>0, <2>1, <3>1
    <3>3. QED
      BY <3>1, <3>2
  <2>2. QED
    BY <1>0, <2>1
<1>2. f \in Injection(K, 1..Cardinality(K))
  BY <1>1, Fun_IsInj
<1>3. IsFiniteSet(1..Cardinality(K)) /\ Cardinality(1..Cardinality(K)) = Cardinality(K)
  BY <1>1, FS_Interval
<1>4. f \in Surjection(K, 1..Cardinality(K))
  BY <1>2, <1>3, FS_Injection
<1>5. \A y \in 1..Cardinality(K) : \E k \in K : f[k] = y
  BY <1>4 DEF Surjection
<1>6. QED
  BY <1>5

(* Where the rows of a selection stand. *)
Position(K) == [m \in 1..Cardinality(K) |-> CHOOSE k \in K : Rank(K, k) = m]

(* A selection holds the rows of the selected indices, in their order. *)
LEMMA SelectedFacts ==
    ASSUME NEW R, NEW s \in Seq(R), NEW K, K \subseteq 1..Len(s)
    PROVE  /\ Selected(s, K) \in Seq(R)
           /\ DOMAIN Selected(s, K) = 1..Cardinality(K)
           /\ Position(K) \in [1..Cardinality(K) -> K]
           /\ \A m \in 1..Cardinality(K) : Selected(s, K)[m] = s[Position(K)[m]]
           /\ \A m, q \in 1..Cardinality(K) : Position(K)[m] = Position(K)[q] => m = q
<1> DEFINE C == Cardinality(K)
<1>0. Len(s) \in Nat /\ \A k \in 1..Len(s) : s[k] \in R
  BY LenProperties, ElementOfSeq
<1>1. C \in Nat
  BY <1>0, RankFacts
<1>2. ASSUME NEW m \in 1..C
      PROVE  Position(K)[m] \in K /\ Rank(K, Position(K)[m]) = m
  BY <1>0, RankTaken DEF Position
<1>3. Position(K) \in [1..C -> K]
  BY <1>2 DEF Position
<1>4. \A m \in 1..C : Selected(s, K)[m] = s[Position(K)[m]]
  BY DEF Selected, Position, Rank
<1>5. Selected(s, K) = [m \in 1..C |-> s[Position(K)[m]]]
  BY DEF Selected, Position, Rank
<1>6. \A m \in 1..C : s[Position(K)[m]] \in R
  BY <1>0, <1>2
<1>7. [m \in 1..C |-> s[Position(K)[m]]] \in Seq(R)
  BY <1>1, <1>6, IsASeq
<1>8. QED
  BY <1>2, <1>3, <1>4, <1>5, <1>7

(* Of rows that name each ID once, a selection does so too, and names no other. *)
LEMMA SelectedRows ==
    ASSUME NEW v \in Seq(Record), Distinct(v), NEW K, K \subseteq DOMAIN v
    PROVE  /\ Selected(v, K) \in Seq(Record) /\ Distinct(Selected(v, K))
           /\ \A m \in DOMAIN Selected(v, K) : \E k \in K : Selected(v, K)[m] = v[k]
           /\ IdsOf(Selected(v, K)) \subseteq IdsOf(v)
           /\ Acted(Selected(v, K)) \subseteq Acted(v)
<1> DEFINE w == Selected(v, K)
           p == Position(K)
           C == Cardinality(K)
<1>1. DOMAIN v = 1..Len(v)
  BY LenProperties
<1>2. /\ w \in Seq(Record) /\ DOMAIN w = 1..C /\ p \in [1..C -> K]
      /\ \A m \in 1..C : w[m] = v[p[m]]
      /\ \A m, q \in 1..C : p[m] = p[q] => m = q
  BY <1>1, SelectedFacts
<1> HIDE DEF w, p, C
<1>3. Distinct(w)
  <2>1. ASSUME NEW m \in 1..C, NEW q \in 1..C, w[m].id = w[q].id
        PROVE  m = q
    <3>1. p[m] \in DOMAIN v /\ p[q] \in DOMAIN v /\ v[p[m]].id = v[p[q]].id
      BY <1>2, <2>1
    <3>2. p[m] = p[q]
      BY <3>1 DEF Distinct
    <3>3. QED
      BY <1>2, <3>2
  <2>2. QED
    BY <1>2, <2>1 DEF Distinct
<1>4. \A m \in DOMAIN w : \E k \in K : w[m] = v[k]
  BY <1>2
<1>5. IdsOf(w) \subseteq IdsOf(v)
  BY <1>4 DEF IdsOf
<1>6. Acted(w) \subseteq Acted(v)
  BY <1>4 DEF Acted
<1>7. QED
  BY <1>2, <1>3, <1>4, <1>5, <1>6 DEF w

(* Only(v, S) names no ID outside S. *)
LEMMA OnlyFacts ==
    ASSUME NEW v \in Seq(Record), Distinct(v), NEW S
    PROVE  /\ Only(v, S) \in Seq(Record) /\ Distinct(Only(v, S))
           /\ IdsOf(Only(v, S)) \subseteq IdsOf(v) \cap S
           /\ Acted(Only(v, S)) \subseteq Acted(v)
<1> DEFINE K == {k \in DOMAIN v : v[k].id \in S}
           w == Selected(v, K)
<1>1. Only(v, S) = w
  BY DEF Only
<1>2. K \subseteq DOMAIN v
  OBVIOUS
<1>3. /\ w \in Seq(Record) /\ Distinct(w)
      /\ \A m \in DOMAIN w : \E k \in K : w[m] = v[k]
      /\ IdsOf(w) \subseteq IdsOf(v) /\ Acted(w) \subseteq Acted(v)
  BY <1>2, SelectedRows
<1>4. IdsOf(w) \subseteq S
  <2> HIDE DEF w
  <2>1. QED
    BY <1>3 DEF IdsOf
<1>5. QED
  BY <1>1, <1>3, <1>4

(* Aging a record changes neither what it is about nor whether it was acted on. *)
LEMMA AgedFacts ==
    ASSUME NEW r \in Record
    PROVE  /\ Aged(r) \in Record /\ Aged(r).id = r.id
           /\ Aged(r).state = "acted" => r.state = "acted"
<1>1. CASE late /\ r.state = "live"
  BY <1>1 DEF Aged, Record
<1>2. CASE ~(late /\ r.state = "live")
  BY <1>2 DEF Aged, Record
<1>3. QED
  BY <1>1, <1>2

(* What a read makes of the file names what the file names, and no action of    *)
(* its own.                                                                  *)
LEMMA ViewFacts ==
    ASSUME GoodFile
    PROVE  /\ View \in Seq(Record) /\ Distinct(View) /\ IdsOf(View) \subseteq used
           /\ Acted(View) \subseteq Acted(file)
<1> DEFINE v == [k \in DOMAIN file |-> Aged(file[k])]
           K == {k \in DOMAIN file : ~Gone(file[k])}
<1>1. /\ file \in Seq(Record) /\ Distinct(file) /\ IdsOf(file) \subseteq used
      /\ Len(file) \in Nat /\ DOMAIN file = 1..Len(file)
      /\ \A k \in DOMAIN file : file[k] \in Record
  BY LenProperties, ElementOfSeq DEF GoodFile
<1>2. \A k \in DOMAIN file : /\ v[k] \in Record /\ v[k].id = file[k].id
                             /\ v[k].state = "acted" => file[k].state = "acted"
  BY <1>1, AgedFacts
<1>3. DOMAIN v = DOMAIN file
  OBVIOUS
<1>4. v \in Seq(Record)
  <2>1. \A i \in 1..Len(file) : Aged(file[i]) \in Record
    BY <1>1, AgedFacts
  <2>2. [i \in 1..Len(file) |-> Aged(file[i])] \in Seq(Record)
    BY <1>1, <2>1, IsASeq
  <2>3. QED
    BY <1>1, <2>2
<1>5. View = Selected(v, K)
  BY DEF View
<1>6. K \subseteq DOMAIN v
  OBVIOUS
<1> HIDE DEF v, K
<1>7. Distinct(v)
  BY <1>1, <1>2, <1>3 DEF Distinct
<1>8. IdsOf(v) \subseteq used
  BY <1>1, <1>2, <1>3 DEF IdsOf
<1>9. Acted(v) \subseteq Acted(file)
  BY <1>2, <1>3 DEF Acted
<1>10. QED
  BY <1>4, <1>5, <1>6, <1>7, <1>8, <1>9, SelectedRows

(* The rows a caller lists. *)
LEMMA RowsFacts ==
    ASSUME GoodFile
    PROVE  /\ NotificationRows \in Seq(Record) /\ QuestionRows \in Seq(Record)
           /\ IdsOf(NotificationRows) \subseteq Note
           /\ \A kind : Rows(kind) \in Seq(Record)
  BY ViewFacts, OnlyFacts DEF NotificationRows, QuestionRows, Rows

-----------------------------------------------------------------------------
(* What a caller has come to of a list. *)

(* Nothing was served yet. *)
LEMMA ComeStart ==
    ASSUME NEW kind, NEW f \in Seq(Record)
    PROVE  Come(kind, <<>>, f, 0)
<1>1. Len(f) \in Nat /\ SubSeq(f, 1, 0) = <<>> /\ Len(<<>>) = 0
  BY LenProperties, SubSeqEmpty, EmptySeq
<1>2. LiveAmong(<<>>, f, 0)
  <2>1. [i \in 1..0 |-> i] \in [1..Len(<<>>) -> 1..0]
    BY <1>1
  <2>2. \A i \in 1..Len(<<>>) : FALSE
    BY <1>1
  <2>3. QED
    BY <2>1, <2>2 DEF LiveAmong
<1>3. QED
  BY <1>1, <1>2 DEF Come

(* A page goes on where the last one ended. *)
LEMMA ComePage ==
    ASSUME NEW kind, kind # "answerable", NEW out, NEW f \in Seq(Record),
           NEW n, Come(kind, out, f, n), NEW m, m \in n..Len(f)
    PROVE  Come(kind, out \o SubSeq(f, n + 1, m), f, m)
<1>1. Len(f) \in Nat /\ n \in 0..Len(f) /\ out = SubSeq(f, 1, n)
  BY LenProperties DEF Come
<1>2. SubSeq(f, 1, n) \o SubSeq(f, n + 1, m) = SubSeq(f, 1, m)
  <2>1. 1 \in 1..Len(f) + 1 /\ n \in 1-1..Len(f) /\ m \in n..Len(f)
    BY <1>1
  <2>2. QED
    BY <2>1, ConcatAdjacentSubSeq
<1>3. m \in 0..Len(f)
  BY <1>1
<1>4. QED
  BY <1>1, <1>2, <1>3 DEF Come

(* A record that is examined and not taken. *)
LEMMA ComePast ==
    ASSUME NEW out \in Seq(Record), NEW f \in Seq(Record),
           NEW n, Come("answerable", out, f, n), n < Len(f)
    PROVE  Come("answerable", out, f, n + 1)
<1>1. Len(f) \in Nat /\ Len(out) \in Nat /\ n \in 0..Len(f) /\ Len(out) <= n
  BY LenProperties DEF Come
<1>2. PICK pos \in [1..Len(out) -> 1..n] :
         \A i \in 1..Len(out) : /\ out[i] = f[pos[i]] /\ out[i].state = "live"
                                /\ \A j \in 1..i-1 : pos[j] < pos[i]
  BY DEF Come, LiveAmong
<1>3. pos \in [1..Len(out) -> 1..n + 1]
  <2>1. \A i \in 1..Len(out) : pos[i] \in 1..n + 1
    BY <1>1
  <2>2. QED
    BY <2>1
<1>4. LiveAmong(out, f, n + 1)
  BY <1>2, <1>3 DEF LiveAmong
<1>5. n + 1 \in 0..Len(f) /\ Len(out) <= n + 1
  BY <1>1
<1>6. QED
  BY <1>4, <1>5 DEF Come

(* A record that is examined and taken. *)
LEMMA ComeTaken ==
    ASSUME NEW out \in Seq(Record), NEW f \in Seq(Record),
           NEW n, Come("answerable", out, f, n), n < Len(f), f[n + 1].state = "live"
    PROVE  Come("answerable", Append(out, f[n + 1]), f, n + 1)
<1> DEFINE more == Append(out, f[n + 1])
           L == Len(out)
<1>1. Len(f) \in Nat /\ L \in Nat /\ n \in 0..Len(f) /\ L <= n /\ n \in Nat
  BY LenProperties DEF Come
<1>2. f[n + 1] \in Record
  <2>1. n + 1 \in 1..Len(f)
    BY <1>1
  <2>2. QED
    BY <2>1, ElementOfSeq
<1>3. /\ Len(more) = L + 1 /\ more[L + 1] = f[n + 1]
      /\ \A i \in 1..L : more[i] = out[i]
  BY <1>2, AppendProperties
<1>4. PICK pos \in [1..L -> 1..n] :
         \A i \in 1..L : /\ out[i] = f[pos[i]] /\ out[i].state = "live"
                         /\ \A j \in 1..i-1 : pos[j] < pos[i]
  BY DEF Come, LiveAmong
<1> DEFINE q == [i \in 1..L + 1 |-> IF i = L + 1 THEN n + 1 ELSE pos[i]]
<1> HIDE DEF more, L
<1>5. q[L + 1] = n + 1 /\ \A i \in 1..L : q[i] = pos[i]
  BY <1>1
<1>6. q \in [1..Len(more) -> 1..n + 1]
  <2>1. ASSUME NEW i \in 1..L + 1
        PROVE  q[i] \in 1..n + 1
    <3>1. CASE i = L + 1
      BY <1>1, <1>5, <3>1
    <3>2. CASE i \in 1..L
      <4>1. pos[i] \in 1..n /\ q[i] = pos[i]
        BY <1>5, <3>2
      <4>2. QED
        BY <1>1, <4>1
    <3>3. QED
      BY <1>1, <3>1, <3>2
  <2>2. QED
    BY <1>3, <2>1
<1>7. ASSUME NEW i \in 1..Len(more)
      PROVE  /\ more[i] = f[q[i]] /\ more[i].state = "live"
             /\ \A j \in 1..i-1 : q[j] < q[i]
  <2>0. i = L + 1 \/ i \in 1..L
    BY <1>1, <1>3
  <2>1. CASE i = L + 1
    <3>1. more[i] = f[q[i]] /\ more[i].state = "live"
      BY <1>3, <1>5, <2>1
    <3>2. ASSUME NEW j \in 1..i-1
          PROVE  q[j] < q[i]
      <4>1. j \in 1..L
        BY <1>1, <2>1
      <4>2. q[j] = pos[j] /\ pos[j] \in 1..n /\ q[i] = n + 1
        BY <1>5, <2>1, <4>1
      <4>3. QED
        BY <1>1, <4>2
    <3>3. QED
      BY <3>1, <3>2
  <2>2. CASE i \in 1..L
    <3>1. more[i] = f[q[i]] /\ more[i].state = "live"
      BY <1>3, <1>4, <1>5, <2>2
    <3>2. ASSUME NEW j \in 1..i-1
          PROVE  q[j] < q[i]
      <4>1. j \in 1..L
        BY <1>1, <2>2
      <4>2. QED
        BY <1>4, <1>5, <2>2, <4>1
    <3>3. QED
      BY <3>1, <3>2
  <2>3. QED
    BY <2>0, <2>1, <2>2
<1>8. LiveAmong(more, f, n + 1)
  <2> HIDE DEF q
  <2>1. QED
    BY <1>6, <1>7 DEF LiveAmong
<1>9. n + 1 \in 0..Len(f) /\ Len(more) <= n + 1
  BY <1>1, <1>3 DEF L
<1>10. QED
  BY <1>8, <1>9 DEF Come, more

(* A step that gives one caller a state that fits leaves the others theirs. *)
LEMMA OneCaller ==
    ASSUME Callers, NEW c \in Caller, NEW a, NEW l, NEW s, NEW f, Fits(a, l, s, f),
           at' = [at EXCEPT ![c] = a], list' = [list EXCEPT ![c] = l],
           snap' = [snap EXCEPT ![c] = s], first' = [first EXCEPT ![c] = f]
    PROVE  Callers'
<1>1. a \in Places /\ l \in Lists /\ s \in Snaps /\ f \in Seq(Record)
  BY DEF Fits
<1>2. at \in [Caller -> Places] /\ list \in [Caller -> Lists]
      /\ snap \in [Caller -> Snaps] /\ first \in [Caller -> Seq(Record)]
  BY DEF Callers
<1>3. at' \in [Caller -> Places]
  BY <1>1, <1>2
<1>4. list' \in [Caller -> Lists]
  BY <1>1, <1>2
<1>5. snap' \in [Caller -> Snaps]
  BY <1>1, <1>2
<1>6. first' \in [Caller -> Seq(Record)]
  BY <1>1, <1>2
<1>7. ASSUME NEW d \in Caller
      PROVE  Fits(at'[d], list'[d], snap'[d], first'[d])
  <2>1. CASE d = c
    <3>1. at'[d] = a /\ list'[d] = l /\ snap'[d] = s /\ first'[d] = f
      BY <1>2, <2>1
    <3>2. QED
      BY <3>1
  <2>2. CASE d # c
    <3>1. at'[d] = at[d] /\ list'[d] = list[d] /\ snap'[d] = snap[d] /\ first'[d] = first[d]
      BY <1>2, <2>2
    <3>2. Fits(at[d], list[d], snap[d], first[d])
      BY DEF Callers
    <3>3. QED
      BY <3>1, <3>2
  <2>3. QED
    BY <2>1, <2>2
<1>8. QED
  BY <1>3, <1>4, <1>5, <1>6, <1>7 DEF Callers

(* A caller that has no list, or is to ask for its first page. *)
LEMMA EmptyFits ==
    ASSUME NEW a \in Places \ {"read", "done"}, NEW l \in Lists,
           l.out = <<>>, l.cursor = NoCursor
    PROVE  Fits(a, l, NoSnap, <<>>)
<1>1. <<>> \in Seq(Record) /\ <<>> \in Prefixes
  BY EmptySeq DEF Prefixes
<1>2. NoSnap \in Snaps
  BY <1>1 DEF NoSnap, Snaps
<1>3. QED
  BY <1>1, <1>2 DEF Fits

LEMMA NewListFacts ==
    /\ \A kind \in Kinds, attempt \in 1..2 :
          LET l == NewList(kind, attempt)
          IN  l \in Lists /\ l.out = <<>> /\ l.cursor = NoCursor
    /\ NoList \in Lists /\ NoList.out = <<>> /\ NoList.cursor = NoCursor
<1>1. <<>> \in Seq(Record) /\ NoCursor \in [prefix : Prefixes, offset : Nat]
  BY EmptySeq DEF NoCursor, Prefixes
<1>2. ASSUME NEW kind \in Kinds, NEW attempt \in 1..2
      PROVE  LET l == NewList(kind, attempt)
             IN  l \in Lists /\ l.out = <<>> /\ l.cursor = NoCursor
  BY <1>1 DEF Lists, NewList
<1>3. "notifications" \in Kinds /\ 1 \in 1..2
  BY DEF Kinds
<1>4. QED
  BY <1>2, <1>3 DEF NoList

-----------------------------------------------------------------------------
(* The Book. *)

(* Rows with one of their states changed are rows about the same IDs. *)
LEMMA EditFacts ==
    ASSUME NEW v \in Seq(Record), Distinct(v), NEW k \in DOMAIN v,
           NEW st \in {"live", "acted", "over"}
    PROVE  LET w == [v EXCEPT ![k].state = st]
           IN  /\ w \in Seq(Record) /\ Distinct(w) /\ IdsOf(w) \subseteq IdsOf(v)
               /\ Acted(w) \subseteq Acted(v) \cup (IF st = "acted" THEN {v[k].id} ELSE {})
<1> DEFINE row == [v[k] EXCEPT !.state = st]
           w == [v EXCEPT ![k] = row]
<1>1. DOMAIN v = 1..Len(v) /\ v[k] \in Record
  BY LenProperties, ElementOfSeq
<1>2. row \in Record /\ row.id = v[k].id /\ row.state = st
  BY <1>1 DEF Record
<1> HIDE DEF row
<1>3. /\ w \in Seq(Record) /\ Len(w) = Len(v)
      /\ \A j \in 1..Len(v) : w[j] = IF j = k THEN row ELSE v[j]
  BY <1>1, <1>2, ExceptSeq
<1> HIDE DEF w
<1>4. DOMAIN w = DOMAIN v
  BY <1>1, <1>3, LenProperties
<1>5. \A j \in DOMAIN v : /\ w[j].id = v[j].id
                          /\ w[j].state = IF j = k THEN st ELSE v[j].state
  BY <1>1, <1>2, <1>3
<1>6. Distinct(w)
  BY <1>4, <1>5 DEF Distinct
<1>7. IdsOf(w) \subseteq IdsOf(v)
  BY <1>4, <1>5 DEF IdsOf
<1>8. Acted(w) \subseteq Acted(v) \cup (IF st = "acted" THEN {v[k].id} ELSE {})
  BY <1>4, <1>5 DEF Acted
<1>9. [v EXCEPT ![k].state = st] = w
  BY DEF w, row
<1>10. QED
  BY <1>3, <1>6, <1>7, <1>8, <1>9

LEMMA AppendFacts ==
    ASSUME NEW v \in Seq(Record), Distinct(v), NEW row \in Record, row.id \notin IdsOf(v)
    PROVE  LET w == Append(v, row)
           IN  /\ w \in Seq(Record) /\ Distinct(w) /\ IdsOf(w) \subseteq IdsOf(v) \cup {row.id}
               /\ row.state # "acted" => Acted(w) \subseteq Acted(v)
<1> DEFINE w == Append(v, row)
           L == Len(v)
<1>1. L \in Nat /\ DOMAIN v = 1..L
  BY LenProperties
<1>2. /\ w \in Seq(Record) /\ Len(w) = L + 1 /\ w[L + 1] = row
      /\ \A i \in 1..L : w[i] = v[i]
  BY AppendProperties
<1> HIDE DEF w, L
<1>3. DOMAIN w = 1..L + 1
  BY <1>2, LenProperties
<1>4. \A j \in DOMAIN w : \/ j = L + 1 /\ w[j] = row
                          \/ j \in DOMAIN v /\ w[j] = v[j]
  BY <1>1, <1>2, <1>3
<1>5. \A j \in DOMAIN v : v[j].id # row.id
  BY DEF IdsOf
<1>6. Distinct(w)
  BY <1>4, <1>5 DEF Distinct
<1>7. IdsOf(w) \subseteq IdsOf(v) \cup {row.id}
  BY <1>4 DEF IdsOf
<1>8. row.state # "acted" => Acted(w) \subseteq Acted(v)
  BY <1>4 DEF Acted
<1>9. QED
  BY <1>2, <1>6, <1>7, <1>8 DEF w

(* A step of the Book leaves the callers what they have. *)
LEMMA BookStep ==
    ASSUME IInv, GoodFile', late' \in BOOLEAN,
           UNCHANGED <<epoch, right, calls, tokens, first, shown>>
    PROVE  IInv'
<1>1. at' = at /\ list' = list /\ snap' = snap /\ want' = want /\ first' = first
  BY DEF calls
<1>2. epoch' = epoch /\ right' = right /\ tokens' = tokens /\ shown' = shown
  OBVIOUS
<1>3. Rest'
  BY <1>1, <1>2 DEF IInv, Rest
<1>4. Callers'
  BY <1>1 DEF IInv, Callers
<1>5. Shows'
  BY <1>1, <1>2 DEF IInv, Shows
<1>6. QED
  BY <1>3, <1>4, <1>5 DEF IInv

LEMMA PostStep ==
    ASSUME IInv, NEW S, S = Note \/ S = Question, Post(S)
    PROVE  IInv' /\ Acted(file') \subseteq Acted(file)
<1> DEFINE i == Fresh(S)
           row == [id |-> i, state |-> "live"]
<1>1. i \in S /\ i \notin used
  BY DEF Post, Fresh
<1>2. i \in Id
  BY <1>1 DEF Id
<1>3. used' = used \cup {i} /\ file' = Append(View, row) /\ late' = FALSE
      /\ UNCHANGED <<epoch, right, calls, tokens, first, shown>>
  BY DEF Post, Write
<1> HIDE DEF i
<1>4. row \in Record /\ row.id = i /\ row.state = "live"
  BY <1>2 DEF Record
<1>5. /\ View \in Seq(Record) /\ Distinct(View) /\ IdsOf(View) \subseteq used
      /\ Acted(View) \subseteq Acted(file) /\ used \subseteq Id
  BY ViewFacts DEF IInv, GoodFile
<1> HIDE DEF row
<1>6. /\ file' \in Seq(Record) /\ Distinct(file')
      /\ IdsOf(file') \subseteq IdsOf(View) \cup {i} /\ Acted(file') \subseteq Acted(View)
  BY <1>1, <1>3, <1>4, <1>5, AppendFacts
<1>7. GoodFile'
  BY <1>2, <1>3, <1>5, <1>6 DEF GoodFile
<1>8. IInv'
  BY <1>3, <1>7, BookStep
<1>9. QED
  BY <1>5, <1>6, <1>8

LEMMA SettleStep ==
    ASSUME IInv, NEW i, Settle(i)
    PROVE  IInv' /\ Acted(file') \subseteq Acted(file)
<1>1. PICK k \in DOMAIN View : file' = [View EXCEPT ![k].state = "over"]
  BY DEF Settle, Write
<1>2. used' = used /\ late' = late /\ UNCHANGED <<epoch, right, calls, tokens, first, shown>>
  BY DEF Settle
<1>3. /\ View \in Seq(Record) /\ Distinct(View) /\ IdsOf(View) \subseteq used
      /\ Acted(View) \subseteq Acted(file) /\ used \subseteq Id
  BY ViewFacts DEF IInv, GoodFile
<1>4. /\ file' \in Seq(Record) /\ Distinct(file')
      /\ IdsOf(file') \subseteq IdsOf(View) /\ Acted(file') \subseteq Acted(View)
  BY <1>1, <1>3, EditFacts
<1>5. GoodFile'
  BY <1>2, <1>3, <1>4 DEF GoodFile
<1>6. late' \in BOOLEAN
  BY <1>2 DEF IInv, Rest
<1>7. IInv'
  BY <1>2, <1>5, <1>6, BookStep
<1>8. QED
  BY <1>3, <1>4, <1>7

LEMMA CollectStep ==
    ASSUME IInv, NEW i, Collect(i)
    PROVE  IInv' /\ Acted(file') \subseteq Acted(file)
<1>1. file' = Only(View, Id \ {i}) /\ used' = used /\ late' = late
      /\ UNCHANGED <<epoch, right, calls, tokens, first, shown>>
  BY DEF Collect, Write
<1>2. /\ View \in Seq(Record) /\ Distinct(View) /\ IdsOf(View) \subseteq used
      /\ Acted(View) \subseteq Acted(file) /\ used \subseteq Id
  BY ViewFacts DEF IInv, GoodFile
<1>3. /\ file' \in Seq(Record) /\ Distinct(file')
      /\ IdsOf(file') \subseteq IdsOf(View) /\ Acted(file') \subseteq Acted(View)
  BY <1>1, <1>2, OnlyFacts
<1>4. GoodFile'
  BY <1>1, <1>2, <1>3 DEF GoodFile
<1>5. late' \in BOOLEAN
  BY <1>1 DEF IInv, Rest
<1>6. IInv'
  BY <1>1, <1>4, <1>5, BookStep
<1>7. QED
  BY <1>2, <1>3, <1>6

LEMMA ClockSteps ==
    ASSUME IInv, ClockStep
    PROVE  IInv' /\ Acted(file') \subseteq Acted(file)
<1>1. file' = file /\ used' = used /\ late' = ~late
      /\ UNCHANGED <<epoch, right, calls, tokens, first, shown>>
  BY DEF ClockStep
<1>2. GoodFile'
  BY <1>1 DEF IInv, GoodFile
<1>3. late' \in BOOLEAN
  BY <1>1 DEF IInv, Rest
<1>4. IInv'
  BY <1>1, <1>2, <1>3, BookStep
<1>5. QED
  BY <1>1, <1>4

-----------------------------------------------------------------------------
(* The calls. *)

Tokens == [Caller -> SUBSET (Note \X (0..MaxEpoch))]

(* What is presented is shown. *)
LEMMA PresentFacts ==
    ASSUME IInv, NEW c \in Caller, NEW ids, Present(c, ids), epoch' = epoch
    PROVE  /\ tokens' \in Tokens /\ shown \subseteq shown' /\ shown' \subseteq Note
           /\ \A d \in Caller : \A t \in tokens'[d] :
                 t[2] <= epoch' /\ (t[2] = epoch' => t[1] \in shown')
<1> DEFINE more == {<<i, epoch>> : i \in ids \cap Note}
<1>1. /\ tokens \in Tokens /\ shown \subseteq Note /\ epoch \in 0..MaxEpoch
      /\ \A d \in Caller : \A t \in tokens[d] :
            t[2] <= epoch /\ (t[2] = epoch => t[1] \in shown)
  BY DEF IInv, Rest, Shows, Tokens
<1>2. tokens' = [tokens EXCEPT ![c] = tokens[c] \cup more] /\ shown' = shown \cup (ids \cap Note)
  BY DEF Present
<1>3. \A t \in more : /\ t \in Note \X (0..MaxEpoch) /\ t[2] = epoch
                      /\ t[1] \in shown'
  BY <1>1, <1>2
<1>4. epoch <= epoch
  BY <1>1, PagesAssumption DEF PagesAssumption
<1> HIDE DEF more
<1>5. tokens[c] \cup more \in SUBSET (Note \X (0..MaxEpoch))
  BY <1>1, <1>3 DEF Tokens
<1>6. tokens' \in Tokens
  BY <1>1, <1>2, <1>5 DEF Tokens
<1>7. ASSUME NEW d \in Caller, NEW t \in tokens'[d]
      PROVE  t[2] <= epoch /\ (t[2] = epoch => t[1] \in shown')
  <2>1. t \in tokens[d] \/ t \in more
    BY <1>1, <1>2 DEF Tokens
  <2>2. QED
    BY <1>1, <1>2, <1>3, <1>4, <2>1
<1>8. QED
  BY <1>1, <1>2, <1>6, <1>7

(* A step of a call keeps the invariant if the callers' states fit and it       *)
(* presents, if anything, what it shows.                                     *)
LEMMA CallStep ==
    ASSUME IInv, GoodFile', Callers', UNCHANGED <<late, epoch, right>>,
           want' \in [Caller -> Note],
           \A d \in Caller : at'[d] = "acting" => want'[d] \in shown',
           \/ tokens' = tokens /\ shown' = shown
           \/ \E c \in Caller : \E ids : Present(c, ids)
    PROVE  IInv'
<1>1. late' = late /\ epoch' = epoch /\ right' = right
  OBVIOUS
<1>2. /\ tokens' \in Tokens /\ shown' \subseteq Note
      /\ \A d \in Caller : \A t \in tokens'[d] :
            t[2] <= epoch' /\ (t[2] = epoch' => t[1] \in shown')
  <2>1. CASE tokens' = tokens /\ shown' = shown
    BY <1>1, <2>1 DEF IInv, Rest, Shows, Tokens
  <2>2. CASE \E c \in Caller : \E ids : Present(c, ids)
    BY <1>1, <2>2, PresentFacts
  <2>3. QED
    BY <2>1, <2>2
<1>3. Rest'
  BY <1>1, <1>2 DEF IInv, Rest, Tokens
<1>4. Shows'
  BY <1>2 DEF Shows
<1>5. QED
  BY <1>3, <1>4 DEF IInv

(* What is known of one caller. *)
LEMMA CallerFacts ==
    ASSUME IInv, NEW c \in Caller
    PROVE  /\ at[c] \in Places /\ list[c] \in Lists /\ snap[c] \in Snaps
           /\ first[c] \in Seq(Record)
           /\ Fits(at[c], list[c], snap[c], first[c])
           /\ at \in [Caller -> Places] /\ list \in [Caller -> Lists]
           /\ snap \in [Caller -> Snaps] /\ first \in [Caller -> Seq(Record)]
           /\ want \in [Caller -> Note]
  BY DEF IInv, Callers, Rest

LEMMA ChangeRightStep ==
    ASSUME IInv, NEW c \in Caller, ChangeRight(c)
    PROVE  IInv'
<1>1. /\ right' = [right EXCEPT ![c] = ~right[c]] /\ file' = file /\ used' = used
      /\ late' = late /\ epoch' = epoch /\ tokens' = tokens /\ first' = first /\ shown' = shown
      /\ at' = at /\ list' = list /\ snap' = snap /\ want' = want
  BY DEF ChangeRight, book, calls
<1>2. right' \in [Caller -> BOOLEAN]
  BY <1>1 DEF IInv, Rest
<1>3. Rest'
  BY <1>1, <1>2 DEF IInv, Rest
<1>4. GoodFile' /\ Callers'
  BY <1>1 DEF IInv, GoodFile, Callers
<1>5. Shows'
  BY <1>1 DEF IInv, Shows
<1>6. QED
  BY <1>3, <1>4, <1>5 DEF IInv

LEMMA RestartStep ==
    ASSUME IInv, Restart
    PROVE  IInv'
<1>1. /\ epoch < MaxEpoch /\ epoch' = epoch + 1 /\ shown' = {}
      /\ file' = file /\ used' = used /\ late' = late /\ right' = right /\ tokens' = tokens
      /\ want' = [d \in Caller |-> NoWant] /\ snap' = [d \in Caller |-> NoSnap]
  BY DEF Restart, book
<1>2. /\ at' = [d \in Caller |-> IF at[d] \in {"read", "acting"} THEN "failed" ELSE at[d]]
      /\ list' = [d \in Caller |-> IF at[d] = "read" THEN NoList ELSE list[d]]
      /\ first' = [d \in Caller |-> IF at[d] = "read" THEN <<>> ELSE first[d]]
  BY DEF Restart
<1>3. epoch \in 0..MaxEpoch /\ MaxEpoch \in Nat
  BY PagesAssumption DEF PagesAssumption, IInv, Rest
<1>4. epoch' \in 0..MaxEpoch
  BY <1>1, <1>3
<1>5. NoWant \in Note
  BY PagesAssumption DEF PagesAssumption, NoWant
<1>6. Rest'
  BY <1>1, <1>4, <1>5 DEF IInv, Rest
<1>7. GoodFile'
  BY <1>1 DEF IInv, GoodFile
<1>8. ASSUME NEW d \in Caller
      PROVE  Fits(at'[d], list'[d], snap'[d], first'[d]) /\ at'[d] # "acting"
  <2>1. Fits(at[d], list[d], snap[d], first[d]) /\ snap'[d] = NoSnap
    BY <1>1, CallerFacts
  <2>2. CASE at[d] = "read"
    <3>1. at'[d] = "failed" /\ list'[d] = NoList /\ first'[d] = <<>>
      BY <1>2, <2>2
    <3>2. "failed" \in Places \ {"read", "done"}
      BY DEF Places
    <3>3. NoList \in Lists /\ NoList.out = <<>> /\ NoList.cursor = NoCursor
      BY NewListFacts
    <3>4. QED
      BY <2>1, <3>1, <3>2, <3>3, EmptyFits
  <2>3. CASE at[d] = "acting"
    <3>1. at'[d] = "failed" /\ list'[d] = list[d] /\ first'[d] = first[d]
      BY <1>2, <2>3
    <3>2. QED
      BY <2>1, <2>3, <3>1 DEF Fits, Places
  <2>4. CASE at[d] \notin {"read", "acting"}
    <3>1. at'[d] = at[d] /\ list'[d] = list[d] /\ first'[d] = first[d]
      BY <1>2, <2>4
    <3>2. QED
      BY <2>1, <2>4, <3>1 DEF Fits
  <2>5. QED
    BY <2>2, <2>3, <2>4
<1>9. /\ at' \in [Caller -> Places] /\ list' \in [Caller -> Lists]
      /\ snap' \in [Caller -> Snaps] /\ first' \in [Caller -> Seq(Record)]
  <2>1. \A d \in Caller : /\ at'[d] \in Places /\ list'[d] \in Lists
                          /\ snap'[d] \in Snaps /\ first'[d] \in Seq(Record)
    BY <1>8 DEF Fits
  <2>2. QED
    BY <1>1, <1>2, <2>1
<1>10. Callers'
  BY <1>8, <1>9 DEF Callers
<1>11. Shows'
  <2>1. ASSUME NEW d \in Caller, NEW t \in tokens'[d]
        PROVE  t[2] <= epoch' /\ t[2] # epoch'
    <3>1. t \in tokens[d] /\ t[2] <= epoch
      BY <1>1 DEF IInv, Shows
    <3>2. t[2] \in Int
      BY <1>3, <3>1 DEF IInv, Rest
    <3>3. QED
      BY <1>1, <1>3, <3>1, <3>2
  <2>2. QED
    BY <1>8, <2>1 DEF Shows
<1>12. QED
  BY <1>6, <1>7, <1>10, <1>11 DEF IInv

LEMMA StartListStep ==
    ASSUME IInv, NEW c \in Caller, NEW kind \in Kinds, StartList(c, kind)
    PROVE  IInv'
<1> DEFINE l == NewList(kind, 1)
<1>1. /\ at[c] # "read" /\ at' = [at EXCEPT ![c] = "list"]
      /\ list' = [list EXCEPT ![c] = l] /\ first' = [first EXCEPT ![c] = <<>>]
      /\ file' = file /\ used' = used /\ late' = late /\ epoch' = epoch /\ right' = right
      /\ snap' = snap /\ want' = want /\ tokens' = tokens /\ shown' = shown
  BY DEF StartList, book
<1>2. l \in Lists /\ l.out = <<>> /\ l.cursor = NoCursor
  BY NewListFacts
<1> HIDE DEF l
<1>3. "list" \in Places \ {"read", "done"}
  BY DEF Places
<1>4. Fits("list", l, NoSnap, <<>>)
  BY <1>2, <1>3, EmptyFits
<1>5. snap' = [snap EXCEPT ![c] = NoSnap]
  BY <1>1, CallerFacts DEF Fits
<1>6. Callers'
  BY <1>1, <1>4, <1>5, OneCaller DEF IInv
<1>7. GoodFile'
  BY <1>1 DEF IInv, GoodFile
<1>8. want' \in [Caller -> Note]
  BY <1>1, CallerFacts
<1>9. \A d \in Caller : at'[d] = "acting" => want'[d] \in shown'
  BY <1>1, CallerFacts DEF IInv, Shows
<1>10. QED
  BY <1>1, <1>6, <1>7, <1>8, <1>9, CallStep

LEMMA PrefixFacts ==
    ASSUME GoodFile, epoch \in 0..MaxEpoch, NEW c \in Caller, NEW kind
    PROVE  Prefix(c, kind) \in Prefixes /\ Binds(Prefix(c, kind), kind, Rows(kind))
<1>1. View \in Seq(Record) /\ NotificationRows \in Seq(Record)
  BY ViewFacts, RowsFacts
<1>2. CASE kind = "notifications"
  <2>1. Prefix(c, kind) = <<"notifications:", epoch, c, NotificationRows>>
    BY <1>2 DEF Prefix, NotificationPrefix
  <2>2. <<"notifications:", epoch, c, NotificationRows>> \in Prefixes
    BY <1>1 DEF Prefixes
  <2>3. Len(<<"notifications:", epoch, c, NotificationRows>>) = 4
    OBVIOUS
  <2>4. Prefix(c, kind) # <<>>
    BY <2>1, <2>3, EmptySeq
  <2>5. Rows(kind) = NotificationRows /\ Prefix(c, kind)[4] = NotificationRows
    BY <1>2, <2>1 DEF Rows
  <2>6. QED
    BY <1>2, <2>1, <2>2, <2>4, <2>5 DEF Binds
<1>3. CASE kind # "notifications"
  <2>1. Prefix(c, kind) = <<epoch, c, View>>
    BY <1>3 DEF Prefix, QuestionPrefix
  <2>2. <<epoch, c, View>> \in Prefixes
    BY <1>1 DEF Prefixes
  <2>3. Len(<<epoch, c, View>>) = 3
    OBVIOUS
  <2>4. Prefix(c, kind) # <<>>
    BY <2>1, <2>3, EmptySeq
  <2>5. Rows(kind) = Only(View, Question)
    BY <1>3 DEF Rows, QuestionRows
  <2>6. Prefix(c, kind)[3] = View
    BY <2>1
  <2>7. QED
    BY <1>3, <2>1, <2>2, <2>4, <2>5, <2>6 DEF Binds
<1>4. QED
  BY <1>2, <1>3

(* A call that fails leaves its caller nothing of the list. *)
LEMMA FailsStep ==
    ASSUME IInv, NEW c \in Caller, Fails(c), snap' = [snap EXCEPT ![c] = NoSnap]
    PROVE  Callers' /\ \A d \in Caller : at'[d] = "acting" => at[d] = "acting" /\ d # c
<1>1. /\ at' = [at EXCEPT ![c] = "failed"] /\ list' = [list EXCEPT ![c] = NoList]
      /\ first' = [first EXCEPT ![c] = <<>>]
  BY DEF Fails
<1>2. "failed" \in Places \ {"read", "done"}
  BY DEF Places
<1>3. Fits("failed", NoList, NoSnap, <<>>)
  BY <1>2, NewListFacts, EmptyFits
<1>4. Callers'
  BY <1>1, <1>3, OneCaller DEF IInv
<1>5. QED
  BY <1>1, <1>4, CallerFacts

LEMMA AgainStep ==
    ASSUME IInv, NEW c \in Caller, Again(c), snap' = [snap EXCEPT ![c] = NoSnap]
    PROVE  Callers' /\ \A d \in Caller : at'[d] = "acting" => at[d] = "acting" /\ d # c
<1>1. first' = [first EXCEPT ![c] = <<>>]
  BY DEF Again
<1>2. CASE list[c].attempt < Attempts(list[c].kind)
  <2> DEFINE l == NewList(list[c].kind, NextAttempt(list[c].attempt))
  <2>1. at' = [at EXCEPT ![c] = "list"] /\ list' = [list EXCEPT ![c] = l]
    BY <1>2 DEF Again
  <2>2. list[c].kind \in Kinds /\ list[c].attempt \in 1..2
    BY CallerFacts DEF Lists
  <2>3. NextAttempt(list[c].attempt) \in 1..2
    BY <2>2 DEF NextAttempt
  <2>4. l \in Lists /\ l.out = <<>> /\ l.cursor = NoCursor
    BY <2>2, <2>3, NewListFacts
  <2> HIDE DEF l
  <2>5. "list" \in Places \ {"read", "done"}
    BY DEF Places
  <2>6. Fits("list", l, NoSnap, <<>>)
    BY <2>4, <2>5, EmptyFits
  <2>7. Callers'
    BY <1>1, <2>1, <2>6, OneCaller DEF IInv
  <2>8. QED
    BY <2>1, <2>7, CallerFacts
<1>3. CASE ~(list[c].attempt < Attempts(list[c].kind))
  <2>1. at' = [at EXCEPT ![c] = "gaveup"] /\ list' = [list EXCEPT ![c] = NoList]
    BY <1>3 DEF Again
  <2>2. "gaveup" \in Places \ {"read", "done"}
    BY DEF Places
  <2>3. Fits("gaveup", NoList, NoSnap, <<>>)
    BY <2>2, NewListFacts, EmptyFits
  <2>4. Callers'
    BY <1>1, <2>1, <2>3, OneCaller DEF IInv
  <2>5. QED
    BY <2>1, <2>4, CallerFacts
<1>4. QED
  BY <1>2, <1>3

(* What a call reads is what its list began with: a cursor that is accepted      *)
(* binds the rows that are read.                                              *)
LEMMA ReadFits ==
    ASSUME IInv, NEW c \in Caller, at[c] = "list",
           NEW rows, rows = Rows(list[c].kind),
           NEW prefix, prefix = Prefix(c, list[c].kind),
           \/ list[c].cursor = NoCursor
           \/ list[c].cursor.prefix = prefix /\ list[c].cursor.offset <= Len(rows)
    PROVE  Fits("read", list[c],
                [rows |-> rows, prefix |-> prefix, offset |-> list[c].cursor.offset, part |-> <<>>],
                IF list[c].cursor = NoCursor THEN rows ELSE first[c])
<1> DEFINE l == list[c]
           s == [rows |-> rows, prefix |-> prefix, offset |-> l.cursor.offset, part |-> <<>>]
           f == IF l.cursor = NoCursor THEN rows ELSE first[c]
<1>1. /\ rows \in Seq(Record) /\ prefix \in Prefixes
      /\ Binds(prefix, l.kind, rows)
  BY RowsFacts, PrefixFacts DEF IInv, Rest
<1>2. /\ l \in Lists /\ l.out \in Seq(Record) /\ l.cursor.offset \in Nat /\ first[c] \in Seq(Record)
      /\ \/ l.cursor = NoCursor /\ l.out = <<>>
         \/ Binds(l.cursor.prefix, l.kind, first[c]) /\ Come(l.kind, l.out, first[c], l.cursor.offset)
  BY CallerFacts DEF Fits, Lists
<1>3. s \in Snaps
  BY <1>1, <1>2, EmptySeq DEF Snaps
<1>4. l.out \o <<>> = l.out
  BY <1>2, ConcatEmptySeq
<1>5. f = rows /\ Come(l.kind, l.out, f, l.cursor.offset)
  <2>1. CASE l.cursor = NoCursor
    <3>1. l.cursor.prefix = <<>> /\ l.cursor.offset = 0
      BY <2>1 DEF NoCursor
    <3>2. l.out = <<>>
      BY <1>2, <3>1 DEF Binds
    <3>3. QED
      BY <1>1, <2>1, <3>1, <3>2, ComeStart
  <2>2. CASE l.cursor # NoCursor
    <3>1. Binds(prefix, l.kind, first[c]) /\ Come(l.kind, l.out, first[c], l.cursor.offset)
      BY <1>2, <2>2
    <3>2. first[c] = rows
      BY <1>1, <3>1 DEF Binds
    <3>3. QED
      BY <2>2, <3>1, <3>2
  <2>3. QED
    BY <2>1, <2>2
<1>6. /\ s.rows = rows /\ s.prefix = prefix /\ s.offset = l.cursor.offset /\ s.part = <<>>
  OBVIOUS
<1> HIDE DEF s, f
<1>7. Fits("read", l, s, f)
  <2>1. "read" \in Places /\ "read" # "list" /\ "read" # "done"
    BY DEF Places
  <2>2. Come(l.kind, l.out \o s.part, f, s.offset)
    BY <1>4, <1>5, <1>6
  <2>3. s.rows = f /\ Binds(s.prefix, l.kind, f)
    BY <1>1, <1>5, <1>6
  <2>4. f \in Seq(Record)
    BY <1>1, <1>5
  <2>5. QED
    BY <1>2, <1>3, <1>6, <2>1, <2>2, <2>3, <2>4 DEF Fits
<1>8. QED
  BY <1>7 DEF s, f

LEMMA ReadPageStep ==
    ASSUME IInv, NEW c \in Caller, ReadPage(c)
    PROVE  IInv'
<1> DEFINE rows == Rows(list[c].kind)
           prefix == Prefix(c, list[c].kind)
           admitted == list[c].kind = "answerable" \/ right[c]
           bound == \/ list[c].cursor = NoCursor
                    \/ list[c].cursor.prefix = prefix /\ list[c].cursor.offset <= Len(rows)
           s == [rows |-> rows, prefix |-> prefix, offset |-> list[c].cursor.offset, part |-> <<>>]
           f == IF list[c].cursor = NoCursor THEN rows ELSE first[c]
<1>1. /\ at[c] = "list" /\ file' = file /\ used' = used /\ late' = late /\ epoch' = epoch
      /\ right' = right /\ want' = want /\ tokens' = tokens /\ shown' = shown
  BY DEF ReadPage, book
<1>2. snap[c] = NoSnap
  BY <1>1, CallerFacts DEF Fits
<1>3. Callers' /\ \A d \in Caller : at'[d] = "acting" => at[d] = "acting"
  <2>1. CASE Fails(c) /\ snap' = snap
    <3>1. snap' = [snap EXCEPT ![c] = NoSnap]
      BY <1>2, <2>1, CallerFacts
    <3>2. QED
      BY <2>1, <3>1, FailsStep
  <2>2. CASE Again(c) /\ snap' = snap
    <3>1. snap' = [snap EXCEPT ![c] = NoSnap]
      BY <1>2, <2>2, CallerFacts
    <3>2. QED
      BY <2>2, <3>1, AgainStep
  <2>3. CASE /\ bound
             /\ at' = [at EXCEPT ![c] = "read"] /\ list' = list
             /\ snap' = [snap EXCEPT ![c] = s] /\ first' = [first EXCEPT ![c] = f]
    <3>1. list' = [list EXCEPT ![c] = list[c]]
      BY <2>3, CallerFacts
    <3>2. bound => Fits("read", list[c], s, f)
      <4> HIDE DEF IInv
      <4>1. QED
        BY <1>1, ReadFits
    <3> HIDE DEF s, f, bound
    <3>3. Callers'
      BY <2>3, <3>1, <3>2, OneCaller DEF IInv
    <3>4. QED
      BY <2>3, <3>3, CallerFacts
  <2>4. QED
    BY <2>1, <2>2, <2>3 DEF ReadPage
<1>4. GoodFile'
  BY <1>1 DEF IInv, GoodFile
<1>5. want' \in [Caller -> Note]
  BY <1>1, CallerFacts
<1>6. \A d \in Caller : at'[d] = "acting" => want'[d] \in shown'
  BY <1>1, <1>3 DEF IInv, Shows
<1>7. QED
  BY <1>1, <1>3, <1>4, <1>5, <1>6, CallStep

(* A reply leaves its caller with a page more of what its list began with. *)
LEMMA PageStep ==
    ASSUME IInv, NEW c \in Caller, at[c] = "read",
           NEW part \in Seq(Record), NEW end \in Nat,
           Come(list[c].kind, list[c].out \o part, first[c], end), Page(c, part, end),
           snap' = [snap EXCEPT ![c] = NoSnap]
    PROVE  Callers' /\ \A d \in Caller : at'[d] = "acting" => at[d] = "acting"
<1> DEFINE l == list[c]
           s == snap[c]
           out == l.out \o part
           done == [NewList(l.kind, 1) EXCEPT !.out = out]
           more == [kind |-> l.kind, attempt |-> l.attempt, out |-> out,
                    cursor |-> [prefix |-> s.prefix, offset |-> end]]
<1>1. /\ l.kind \in Kinds /\ l.attempt \in 1..2 /\ l.out \in Seq(Record)
      /\ s.prefix \in Prefixes /\ first[c] \in Seq(Record)
      /\ s.rows = first[c] /\ Binds(s.prefix, l.kind, first[c])
  BY CallerFacts DEF Fits, Lists, Snaps
<1>2. out \in Seq(Record)
  BY <1>1, ConcatProperties
<1>3. NoCursor \in [prefix : Prefixes, offset : Nat]
  BY DEF NoCursor, Prefixes
<1>4. NoSnap \in Snaps
  BY EmptySeq DEF NoSnap, Snaps, Prefixes
<1>5. first' = [first EXCEPT ![c] = first[c]]
  BY CallerFacts DEF Page
<1>6. CASE end = Len(s.rows)
  <2>1. at' = [at EXCEPT ![c] = "done"] /\ list' = [list EXCEPT ![c] = done]
    BY <1>6 DEF Page
  <2>2. done \in Lists /\ done.kind = l.kind /\ done.out = out
    <3> HIDE DEF out, l
    <3>1. done = [kind |-> l.kind, attempt |-> 1, out |-> out, cursor |-> NoCursor]
      BY DEF NewList
    <3>2. 1 \in 1..2
      OBVIOUS
    <3> HIDE DEF done
    <3>3. QED
      BY <1>1, <1>2, <1>3, <3>1, <3>2 DEF Lists
  <2>3. Come(l.kind, out, first[c], Len(first[c]))
    BY <1>1, <1>6
  <2> HIDE DEF done, out, l
  <2>4. Fits("done", done, NoSnap, first[c])
    BY <1>1, <1>4, <2>2, <2>3 DEF Fits, Places
  <2>5. Callers'
    BY <1>5, <2>1, <2>4, OneCaller DEF IInv
  <2>6. QED
    BY <2>1, <2>5, CallerFacts
<1>7. CASE end # Len(s.rows)
  <2>1. at' = [at EXCEPT ![c] = "list"] /\ list' = [list EXCEPT ![c] = more]
    BY <1>7 DEF Page
  <2>2. /\ more \in Lists /\ more.kind = l.kind /\ more.out = out
        /\ more.cursor.prefix = s.prefix /\ more.cursor.offset = end
    BY <1>1, <1>2 DEF Lists
  <2>3. Come(l.kind, out, first[c], end)
    OBVIOUS
  <2> HIDE DEF more, out, l, s
  <2>4. Fits("list", more, NoSnap, first[c])
    BY <1>1, <1>4, <2>2, <2>3 DEF Fits, Places
  <2>5. Callers'
    BY <1>5, <2>1, <2>4, OneCaller DEF IInv
  <2>6. QED
    BY <2>1, <2>5, CallerFacts
<1>8. QED
  BY <1>6, <1>7

LEMMA DiscloseStep ==
    ASSUME IInv, NEW c \in Caller, Disclose(c)
    PROVE  IInv'
<1> DEFINE s == snap[c]
<1>1. /\ at[c] = "read" /\ list[c].kind # "answerable" /\ snap' = [snap EXCEPT ![c] = NoSnap]
      /\ file' = file /\ used' = used /\ late' = late /\ epoch' = epoch
      /\ right' = right /\ want' = want
  BY DEF Disclose, book
<1>2. /\ Callers' /\ \A d \in Caller : at'[d] = "acting" => at[d] = "acting"
      /\ \/ tokens' = tokens /\ shown' = shown
         \/ \E ids : Present(c, ids)
  <2>1. CASE Fails(c) /\ tokens' = tokens /\ shown' = shown
    BY <1>1, <2>1, FailsStep
  <2>2. ASSUME NEW n \in 0..PageSize, n <= Len(s.rows) - s.offset,
               Page(c, SubSeq(s.rows, s.offset + 1, s.offset + n), s.offset + n)
        PROVE  /\ Callers' /\ \A d \in Caller : at'[d] = "acting" => at[d] = "acting"
               /\ \E ids : Present(c, ids)
    <3> DEFINE end == s.offset + n
               part == SubSeq(s.rows, s.offset + 1, end)
    <3>1. /\ s.rows = first[c] /\ s.rows \in Seq(Record) /\ s.offset \in Nat
          /\ list[c].out \in Seq(Record) /\ s.part = <<>>
          /\ Come(list[c].kind, list[c].out \o s.part, first[c], s.offset)
      BY <1>1, CallerFacts DEF Fits, Snaps, Lists
    <3>2. Come(list[c].kind, list[c].out, first[c], s.offset)
      BY <3>1, ConcatEmptySeq
    <3>3. Len(s.rows) \in Nat /\ n \in Nat
      BY <3>1, LenProperties, PagesAssumption DEF PagesAssumption
    <3>4. end \in Nat /\ end \in s.offset..Len(first[c])
      BY <2>2, <3>1, <3>3
    <3>5. part \in Seq(Record)
      <4>1. \A i \in s.offset + 1..end : s.rows[i] \in Record
        BY <3>1, <3>3, <3>4, ElementOfSeq
      <4>2. s.offset + 1 \in Int /\ end \in Int
        BY <3>1, <3>4
      <4>3. QED
        BY <4>1, <4>2, SubSeqProperties
    <3>6. Come(list[c].kind, list[c].out \o part, first[c], end)
      BY <1>1, <3>1, <3>2, <3>4, ComePage
    <3>7. Page(c, part, end)
      BY <2>2
    <3>8. \E ids : Present(c, ids)
      BY <3>7 DEF Page
    <3> HIDE DEF part, end
    <3>9. QED
      BY <1>1, <3>4, <3>5, <3>6, <3>7, <3>8, PageStep
  <2>3. QED
    BY <2>1, <2>2 DEF Disclose
<1>3. GoodFile'
  BY <1>1 DEF IInv, GoodFile
<1>4. want' \in [Caller -> Note]
  BY <1>1, CallerFacts
<1>5. shown \subseteq shown'
  BY <1>1, <1>2, PresentFacts
<1>6. \A d \in Caller : at'[d] = "acting" => want'[d] \in shown'
  BY <1>1, <1>2, <1>5 DEF IInv, Shows
<1>7. QED
  BY <1>1, <1>2, <1>3, <1>4, <1>6, CallStep

LEMMA DiscloseAnswerableStep ==
    ASSUME IInv, NEW c \in Caller, DiscloseAnswerable(c)
    PROVE  IInv'
<1> DEFINE s == snap[c]
<1>1. /\ at[c] = "read" /\ snap' = [snap EXCEPT ![c] = NoSnap]
      /\ file' = file /\ used' = used /\ late' = late /\ epoch' = epoch
      /\ right' = right /\ want' = want
  BY DEF DiscloseAnswerable, book
<1>2. /\ Callers' /\ \A d \in Caller : at'[d] = "acting" => at[d] = "acting"
      /\ \/ tokens' = tokens /\ shown' = shown
         \/ \E ids : Present(c, ids)
  <2>1. CASE Fails(c) /\ tokens' = tokens /\ shown' = shown
    BY <1>1, <2>1, FailsStep
  <2>2. CASE Page(c, s.part, s.offset)
    <3>1. /\ s.part \in Seq(Record) /\ s.offset \in Nat
          /\ Come(list[c].kind, list[c].out \o s.part, first[c], s.offset)
      BY <1>1, CallerFacts DEF Fits, Snaps
    <3>2. \E ids : Present(c, ids)
      BY <2>2 DEF Page
    <3>3. QED
      BY <1>1, <2>2, <3>1, <3>2, PageStep
  <2>3. QED
    BY <2>1, <2>2 DEF DiscloseAnswerable
<1>3. GoodFile'
  BY <1>1 DEF IInv, GoodFile
<1>4. want' \in [Caller -> Note]
  BY <1>1, CallerFacts
<1>5. shown \subseteq shown'
  BY <1>1, <1>2, PresentFacts
<1>6. \A d \in Caller : at'[d] = "acting" => want'[d] \in shown'
  BY <1>1, <1>2, <1>5 DEF IInv, Shows
<1>7. QED
  BY <1>1, <1>2, <1>3, <1>4, <1>6, CallStep

LEMMA AppendAfter ==
    ASSUME NEW out \in Seq(Record), NEW part \in Seq(Record), NEW row \in Record
    PROVE  out \o Append(part, row) = Append(out \o part, row)
<1> DEFINE both == out \o part
           one == <<row>>
<1>1. both \in Seq(Record) /\ one \in Seq(Record)
  BY ConcatProperties
<1>2. Append(part, row) = part \o one /\ Append(both, row) = both \o one
  BY <1>1, AppendIsConcat
<1>3. (out \o part) \o one = out \o (part \o one)
  <2> HIDE DEF one
  <2>1. QED
    BY <1>1, ConcatAssociative
<1>4. QED
  BY <1>2, <1>3

LEMMA ExamineStep ==
    ASSUME IInv, NEW c \in Caller, Examine(c)
    PROVE  IInv'
<1> DEFINE l == list[c]
           s == snap[c]
           row == s.rows[s.offset + 1]
           part == IF row.state = "live" /\ right[c] THEN Append(s.part, row) ELSE s.part
           t == [rows |-> s.rows, prefix |-> s.prefix, offset |-> s.offset + 1, part |-> part]
<1>1. /\ at[c] = "read" /\ l.kind = "answerable" /\ s.offset < Len(s.rows)
      /\ snap' = [snap EXCEPT ![c] = t]
      /\ file' = file /\ used' = used /\ late' = late /\ epoch' = epoch /\ right' = right
      /\ at' = at /\ list' = list /\ want' = want /\ tokens' = tokens /\ first' = first
      /\ shown' = shown
  BY DEF Examine, book
<1>2. /\ l \in Lists /\ l.out \in Seq(Record) /\ s.part \in Seq(Record) /\ s.prefix \in Prefixes
      /\ s.offset \in Nat /\ first[c] \in Seq(Record)
      /\ s.rows = first[c] /\ Binds(s.prefix, l.kind, first[c])
      /\ Come("answerable", l.out \o s.part, first[c], s.offset)
  BY <1>1, CallerFacts DEF Fits, Lists, Snaps
<1>3. row \in Record
  <2>1. Len(s.rows) \in Nat
    BY <1>2, LenProperties
  <2>2. s.offset + 1 \in 1..Len(s.rows)
    BY <1>1, <1>2, <2>1
  <2>3. QED
    BY <1>2, <2>2, ElementOfSeq
<1>4. l.out \o s.part \in Seq(Record)
  BY <1>2, ConcatProperties
<1>5. part \in Seq(Record) /\ Come("answerable", l.out \o part, first[c], s.offset + 1)
  <2>1. CASE row.state = "live" /\ right[c]
    <3>1. part = Append(s.part, row) /\ row.state = "live" /\ row = first[c][s.offset + 1]
      BY <1>2, <2>1
    <3>2. l.out \o Append(s.part, row) = Append(l.out \o s.part, row)
      BY <1>2, <1>3, AppendAfter
    <3>5. Come("answerable", Append(l.out \o s.part, row), first[c], s.offset + 1)
      BY <1>1, <1>2, <1>4, <3>1, ComeTaken
    <3>6. Append(s.part, row) \in Seq(Record)
      BY <1>2, <1>3, AppendProperties
    <3>7. QED
      BY <3>1, <3>2, <3>5, <3>6
  <2>2. CASE ~(row.state = "live" /\ right[c])
    <3>1. part = s.part
      BY <2>2
    <3>2. QED
      BY <1>1, <1>2, <1>4, <3>1, ComePast
  <2>3. QED
    BY <2>1, <2>2
<1> HIDE DEF part
<1>6. /\ t \in Snaps /\ t.rows = s.rows /\ t.prefix = s.prefix /\ t.offset = s.offset + 1
      /\ t.part = part
  BY <1>2, <1>5 DEF Snaps
<1> HIDE DEF t, s, l
<1>7. Fits("read", l, t, first[c])
  BY <1>1, <1>2, <1>5, <1>6 DEF Fits, Places
<1>8. /\ at' = [at EXCEPT ![c] = "read"] /\ list' = [list EXCEPT ![c] = l]
      /\ snap' = [snap EXCEPT ![c] = t] /\ first' = [first EXCEPT ![c] = first[c]]
  BY <1>1, CallerFacts DEF l
<1>9. Callers'
  BY <1>7, <1>8, OneCaller DEF IInv
<1>10. GoodFile'
  BY <1>1 DEF IInv, GoodFile
<1>11. want' \in [Caller -> Note]
  BY <1>1, CallerFacts
<1>12. \A d \in Caller : at'[d] = "acting" => want'[d] \in shown'
  BY <1>1 DEF IInv, Shows
<1>13. QED
  BY <1>1, <1>9, <1>10, <1>11, <1>12, CallStep

LEMMA ReadOneStep ==
    ASSUME IInv, NEW c \in Caller, NEW i, ReadOne(c, i)
    PROVE  IInv'
<1>1. /\ Present(c, {i}) /\ file' = file /\ used' = used /\ late' = late /\ epoch' = epoch
      /\ right' = right /\ at' = at /\ list' = list /\ snap' = snap /\ want' = want
      /\ first' = first
  BY DEF ReadOne, book, calls
<1>2. GoodFile' /\ Callers'
  BY <1>1 DEF IInv, GoodFile, Callers
<1>3. want' \in [Caller -> Note]
  BY <1>1, CallerFacts
<1>4. shown \subseteq shown'
  BY <1>1, PresentFacts
<1>5. \A d \in Caller : at'[d] = "acting" => want'[d] \in shown'
  BY <1>1, <1>4 DEF IInv, Shows
<1>6. QED
  BY <1>1, <1>2, <1>3, <1>5, CallStep

(* A token of this host is for what this host showed. *)
LEMMA TokenFacts ==
    ASSUME IInv, NEW c \in Caller, NEW i \in Note, NEW t \in tokens[c], TokenOf(t) = i
    PROVE  i \in shown
<1>1. t[2] = epoch => t[1] \in shown
  BY DEF IInv, Shows
<1>2. t[2] = epoch
  BY PagesAssumption DEF TokenOf, PagesAssumption
<1>3. QED
  BY <1>1, <1>2 DEF TokenOf

LEMMA ActStep ==
    ASSUME IInv, NEW c \in Caller, NEW i \in Note, Act(c, i)
    PROVE  IInv'
<1>1. /\ at[c] # "read" /\ at' = [at EXCEPT ![c] = "acting"] /\ list' = [list EXCEPT ![c] = NoList]
      /\ first' = [first EXCEPT ![c] = <<>>] /\ want' = [want EXCEPT ![c] = i]
      /\ file' = file /\ used' = used /\ late' = late /\ epoch' = epoch /\ right' = right
      /\ snap' = snap /\ tokens' = tokens /\ shown' = shown
  BY DEF Act, book
<1>2. i \in shown
  BY TokenFacts DEF Act
<1>3. snap' = [snap EXCEPT ![c] = NoSnap]
  BY <1>1, CallerFacts DEF Fits
<1>4. "acting" \in Places \ {"read", "done"}
  BY DEF Places
<1>5. Fits("acting", NoList, NoSnap, <<>>)
  BY <1>4, NewListFacts, EmptyFits
<1>6. Callers'
  BY <1>1, <1>3, <1>5, OneCaller DEF IInv
<1>7. GoodFile'
  BY <1>1 DEF IInv, GoodFile
<1>8. want' \in [Caller -> Note]
  BY <1>1, CallerFacts
<1>9. \A d \in Caller : at'[d] = "acting" => want'[d] \in shown'
  <2>1. ASSUME NEW d \in Caller, at'[d] = "acting"
        PROVE  want'[d] \in shown
    <3>1. CASE d = c
      BY <1>1, <1>2, <3>1, CallerFacts
    <3>2. CASE d # c
      <4>1. at[d] = "acting" /\ want'[d] = want[d]
        BY <1>1, <2>1, <3>2, CallerFacts
      <4>2. QED
        BY <4>1 DEF IInv, Shows
    <3>3. QED
      BY <3>1, <3>2
  <2>2. QED
    BY <1>1, <2>1
<1>10. QED
  BY <1>1, <1>6, <1>7, <1>8, <1>9, CallStep

LEMMA RecordActStep ==
    ASSUME IInv, NEW c \in Caller, RecordAct(c)
    PROVE  IInv' /\ Acted(file') \ Acted(file) \subseteq shown
<1>1. /\ at[c] = "acting" /\ want' = [want EXCEPT ![c] = NoWant]
      /\ used' = used /\ late' = late /\ epoch' = epoch /\ right' = right
      /\ snap' = snap /\ tokens' = tokens /\ shown' = shown
  BY DEF RecordAct
<1>2. /\ View \in Seq(Record) /\ Distinct(View) /\ IdsOf(View) \subseteq used
      /\ Acted(View) \subseteq Acted(file) /\ GoodFile
  BY ViewFacts DEF IInv
<1>3. want[c] \in shown
  BY <1>1 DEF IInv, Shows
<1>4. /\ file' \in Seq(Record) /\ Distinct(file') /\ IdsOf(file') \subseteq used
      /\ Acted(file') \subseteq Acted(file) \cup {want[c]}
  <2>1. CASE file' \in {file, View}
    BY <1>2, <2>1 DEF GoodFile
  <2>2. ASSUME NEW k \in DOMAIN View, View[k] = [id |-> want[c], state |-> "live"],
               file' = [View EXCEPT ![k].state = "acted"]
        PROVE  /\ file' \in Seq(Record) /\ Distinct(file') /\ IdsOf(file') \subseteq used
               /\ Acted(file') \subseteq Acted(file) \cup {want[c]}
    <3>1. View[k].id = want[c]
      BY <2>2
    <3>2. /\ file' \in Seq(Record) /\ Distinct(file') /\ IdsOf(file') \subseteq IdsOf(View)
          /\ Acted(file') \subseteq Acted(View) \cup {View[k].id}
      BY <1>2, <2>2, EditFacts
    <3>3. QED
      BY <1>2, <3>1, <3>2
  <2>3. QED
    BY <2>1, <2>2 DEF RecordAct, Write
<1>5. GoodFile'
  BY <1>1, <1>2, <1>4 DEF GoodFile
<1>6. snap' = [snap EXCEPT ![c] = NoSnap]
  BY <1>1, CallerFacts DEF Fits
<1>7. Callers' /\ \A d \in Caller : at'[d] = "acting" => at[d] = "acting" /\ d # c
  <2>1. CASE Fails(c)
    BY <1>6, <2>1, FailsStep
  <2>2. CASE at' = [at EXCEPT ![c] = "idle"] /\ list' = list /\ first' = first
    <3>1. /\ list' = [list EXCEPT ![c] = list[c]] /\ first' = [first EXCEPT ![c] = first[c]]
      BY <2>2, CallerFacts
    <3>2. Fits("acting", list[c], NoSnap, first[c])
      BY <1>1, CallerFacts DEF Fits
    <3>3. Fits("idle", list[c], NoSnap, first[c])
      BY <3>2 DEF Fits, Places
    <3>4. Callers'
      BY <1>6, <2>2, <3>1, <3>3, OneCaller DEF IInv
    <3>5. QED
      BY <2>2, <3>4, CallerFacts
  <2>3. QED
    BY <2>1, <2>2 DEF RecordAct
<1>8. NoWant \in Note
  BY PagesAssumption DEF PagesAssumption, NoWant
<1>9. want' \in [Caller -> Note]
  BY <1>1, <1>8, CallerFacts
<1>10. \A d \in Caller : at'[d] = "acting" => want'[d] \in shown'
  <2>1. ASSUME NEW d \in Caller, at'[d] = "acting"
        PROVE  want'[d] \in shown'
    <3>1. at[d] = "acting" /\ d # c
      BY <1>7, <2>1
    <3>2. want'[d] = want[d]
      BY <1>1, <3>1, CallerFacts
    <3>3. QED
      BY <1>1, <3>1, <3>2 DEF IInv, Shows
  <2>2. QED
    BY <2>1
<1>11. IInv'
  BY <1>1, <1>5, <1>7, <1>9, <1>10, CallStep
<1>12. QED
  BY <1>3, <1>4, <1>11

-----------------------------------------------------------------------------
(* The theorems. *)

LEMMA InitIInv ==
    ASSUME Init
    PROVE  IInv
<1>1. /\ file = <<>> /\ used = {} /\ late = FALSE /\ epoch = 0
      /\ right \in [Caller -> BOOLEAN] /\ shown = {}
      /\ at = [c \in Caller |-> "idle"] /\ list = [c \in Caller |-> NoList]
      /\ snap = [c \in Caller |-> NoSnap] /\ want = [c \in Caller |-> NoWant]
      /\ tokens = [c \in Caller |-> {}] /\ first = [c \in Caller |-> <<>>]
  BY DEF Init
<1>2. GoodFile
  <2>1. file \in Seq(Record) /\ DOMAIN file = {}
    BY <1>1, EmptySeq
  <2>2. QED
    BY <1>1, <2>1 DEF GoodFile, IdsOf, Distinct
<1>3. NoWant \in Note /\ 0 \in 0..MaxEpoch
  BY PagesAssumption DEF PagesAssumption, NoWant
<1>4. Rest
  BY <1>1, <1>3 DEF Rest
<1>5. "idle" \in Places \ {"read", "done"}
  BY DEF Places
<1>6. Fits("idle", NoList, NoSnap, <<>>)
  BY <1>5, NewListFacts, EmptyFits
<1>7. "idle" \in Places /\ NoList \in Lists /\ NoSnap \in Snaps /\ <<>> \in Seq(Record)
  BY <1>6 DEF Fits
<1>8. Callers
  BY <1>1, <1>6, <1>7 DEF Callers
<1>9. Shows
  BY <1>1 DEF Shows
<1>10. QED
  BY <1>2, <1>4, <1>8, <1>9 DEF IInv

LEMMA NextIInv ==
    ASSUME IInv, [Next]_vars
    PROVE  IInv'
<1>1. CASE UNCHANGED vars
  <2>1. /\ file' = file /\ used' = used /\ late' = late /\ epoch' = epoch /\ right' = right
        /\ at' = at /\ list' = list /\ snap' = snap /\ want' = want /\ tokens' = tokens
        /\ first' = first /\ shown' = shown
    BY <1>1 DEF vars
  <2>2. QED
    BY <2>1 DEF IInv, GoodFile, Rest, Callers, Shows
<1>2. CASE Post(Note) \/ Post(Question)
  BY <1>2, PostStep
<1>3. ASSUME NEW i \in Id, Settle(i) \/ Collect(i)
      PROVE  IInv'
  BY <1>3, SettleStep, CollectStep
<1>4. CASE ClockStep
  BY <1>4, ClockSteps
<1>5. CASE Restart
  BY <1>5, RestartStep
<1>6. ASSUME NEW c \in Caller, ChangeRight(c) \/ Serve(c) \/ RecordAct(c)
      PROVE  IInv'
  BY <1>6, ChangeRightStep, ReadPageStep, DiscloseStep, ExamineStep, DiscloseAnswerableStep,
     RecordActStep DEF Serve
<1>7. ASSUME NEW c \in Caller, NEW kind \in Kinds, StartList(c, kind)
      PROVE  IInv'
  BY <1>7, StartListStep
<1>8. ASSUME NEW c \in Caller, NEW i \in Note, ReadOne(c, i) \/ Act(c, i)
      PROVE  IInv'
  BY <1>8, ReadOneStep, ActStep
<1>9. QED
  BY <1>1, <1>2, <1>3, <1>4, <1>5, <1>6, <1>7, <1>8 DEF Next, Kinds

(* Whatever is posted, settled, collected, expired, listed, disclosed, acted on   *)
(* or restarted, each caller's list fits the rows its attempt began with, and     *)
(* what it may act on was shown by this host.                                  *)
THEOREM Invariance == Spec => []IInv
<1>1. Init => IInv
  BY InitIInv
<1>2. IInv /\ [Next]_vars => IInv'
  BY NextIInv
<1>3. QED
  BY <1>1, <1>2, PTL DEF Spec

LEMMA FirstIsShorter ==
    ASSUME NEW a \in Seq(Record), NEW b \in Seq(Record), NEW n \in Nat, Len(a \o b) <= n
    PROVE  Len(a) <= n
<1> DEFINE x == Len(a)
           y == Len(b)
           z == Len(a \o b)
<1>1. x \in Nat /\ y \in Nat /\ z = x + y /\ z <= n
  BY LenProperties, ConcatProperties
<1> HIDE DEF x, y, z
<1>2. x <= n
  BY <1>1
<1>3. QED
  BY <1>2 DEF x

(* The run's WholeList: a list read to its end is the list its attempt began     *)
(* with, and what a delegate is given is, in order, some of what was pending in  *)
(* it.                                                                        *)
THEOREM ListsAreWhole == Spec => []WholeList
<1>1. IInv => WholeList
  <2> SUFFICES ASSUME IInv
               PROVE  WholeList
    OBVIOUS
  <2>1. ASSUME NEW c \in Caller
        PROVE  /\ list[c].attempt \in 1..2 /\ snap[c].offset \in 0..Len(snap[c].rows)
               /\ Len(list[c].out) <= Len(first[c])
               /\ at[c] = "done" => IF list[c].kind = "answerable"
                                   THEN LiveAmong(list[c].out, first[c], Len(first[c]))
                                   ELSE list[c].out = first[c]
    <3> DEFINE l == list[c]
               s == snap[c]
               f == first[c]
    <3>1. /\ Fits(at[c], l, s, f) /\ l.attempt \in 1..2 /\ l.out \in Seq(Record)
          /\ s.part \in Seq(Record) /\ f \in Seq(Record)
      BY CallerFacts DEF Lists, Snaps
    <3> HIDE DEF l, s, f
    <3>2. Len(f) \in Nat /\ Len(l.out) \in Nat
      BY <3>1, LenProperties
    <3>3. s.offset \in 0..Len(s.rows)
      <4>1. CASE at[c] = "read"
        BY <3>1, <4>1 DEF Fits, Come
      <4>2. CASE at[c] # "read"
        <5>1. s.rows = <<>> /\ s.offset = 0
          BY <3>1, <4>2 DEF Fits, NoSnap
        <5>2. QED
          BY <5>1, EmptySeq
      <4>3. QED
        BY <4>1, <4>2
    <3>4. ASSUME NEW n, NEW out \in Seq(Record), Come(l.kind, out, f, n)
          PROVE  Len(out) <= Len(f)
      <4>1. n \in 0..Len(f)
        BY <3>4 DEF Come
      <4>2. CASE l.kind = "answerable"
        <5>1. Len(out) <= n /\ Len(out) \in Nat
          BY <3>4, <4>2, LenProperties DEF Come
        <5>2. QED
          BY <3>2, <4>1, <5>1
      <4>3. CASE l.kind # "answerable"
        <5>1. out = SubSeq(f, 1, n)
          BY <3>4, <4>3 DEF Come
        <5>2. \A i \in 1..n : f[i] \in Record
          BY <3>1, <3>2, <4>1, ElementOfSeq
        <5>3. Len(SubSeq(f, 1, n)) = IF 1 <= n THEN n - 1 + 1 ELSE 0
          BY <4>1, <5>2, SubSeqProperties
        <5>4. QED
          BY <3>2, <4>1, <5>1, <5>3
      <4>4. QED
        BY <4>2, <4>3
    <3>5. Len(l.out) <= Len(f)
      <4>1. CASE l.out = <<>>
        BY <3>2, <4>1, EmptySeq
      <4>2. CASE at[c] = "list" /\ Come(l.kind, l.out, f, l.cursor.offset)
        BY <3>1, <3>4, <4>2
      <4>3. CASE at[c] = "read"
        <5>1. Come(l.kind, l.out \o s.part, f, s.offset)
          BY <3>1, <4>3 DEF Fits
        <5>2. l.out \o s.part \in Seq(Record)
          BY <3>1, ConcatProperties
        <5>3. Len(l.out \o s.part) <= Len(f)
          BY <3>4, <5>1, <5>2
        <5>4. QED
          BY <3>1, <3>2, <5>3, FirstIsShorter
      <4>4. CASE at[c] = "done"
        <5>1. Come(l.kind, l.out, f, Len(f))
          BY <3>1, <4>4 DEF Fits
        <5>2. QED
          BY <3>1, <3>4, <5>1
      <4>5. QED
        BY <3>1, <4>1, <4>2, <4>3, <4>4 DEF Fits
    <3>6. ASSUME at[c] = "done"
          PROVE  IF l.kind = "answerable" THEN LiveAmong(l.out, f, Len(f)) ELSE l.out = f
      <4>1. Come(l.kind, l.out, f, Len(f))
        BY <3>1, <3>6 DEF Fits
      <4>2. SubSeq(f, 1, Len(f)) = f
        BY <3>1, SubSeqFull
      <4>3. QED
        BY <4>1, <4>2 DEF Come
    <3>7. QED
      BY <3>1, <3>3, <3>5, <3>6 DEF l, s, f
  <2>2. \A k \in DOMAIN file : file[k] \in Record
    BY LenProperties, ElementOfSeq DEF IInv, GoodFile
  <2>3. at \in [Caller -> Places]
    BY DEF IInv, Callers
  <2>4. TypeOK
    BY <2>1, <2>2, <2>3 DEF TypeOK, IInv, GoodFile, Rest, Distinct, Places
  <2>5. QED
    BY <2>1, <2>4 DEF WholeList
<1>2. QED
  BY <1>1, Invariance, PTL

(* The run's ActedOnShown: whoever acts, acts on what this host showed.           *)
THEOREM ActsOnShown == Spec => ActedOnShown
<1>1. IInv /\ [Next]_vars => [Acted(file') \ Acted(file) \subseteq shown]_vars
  <2> SUFFICES ASSUME IInv, Next
               PROVE  Acted(file') \ Acted(file) \subseteq shown
    OBVIOUS
  <2>1. CASE Post(Note) \/ Post(Question)
    BY <2>1, PostStep
  <2>2. ASSUME NEW i \in Id, Settle(i) \/ Collect(i)
        PROVE  Acted(file') \ Acted(file) \subseteq shown
    BY <2>2, SettleStep, CollectStep
  <2>3. CASE ClockStep
    BY <2>3, ClockSteps
  <2>4. ASSUME NEW c \in Caller, RecordAct(c)
        PROVE  Acted(file') \ Acted(file) \subseteq shown
    BY <2>4, RecordActStep
  <2>5. ASSUME \/ Restart
               \/ \E c \in Caller : ChangeRight(c) \/ Serve(c)
               \/ \E c \in Caller, kind \in Kinds : StartList(c, kind)
               \/ \E c \in Caller, i \in Note : ReadOne(c, i) \/ Act(c, i)
        PROVE  file' = file
    BY <2>5 DEF Restart, ChangeRight, Serve, ReadPage, Disclose, Examine, DiscloseAnswerable,
       StartList, ReadOne, Act, book
  <2>6. QED
    BY <2>1, <2>2, <2>3, <2>4, <2>5 DEF Next, Kinds
<1>2. QED
  BY <1>1, Invariance, PTL DEF Spec, ActedOnShown

(* What UnderRight counts: a record more, a token more, an action that took what *)
(* is retained.                                                              *)
Gains(c) ==
    \/ Len(list'[c].out) > Len(list[c].out)
    \/ tokens'[c] # tokens[c]
    \/ at[c] = "acting" /\ at'[c] = "idle" /\ want[c] \in IdsOf(View)

LEMMA NoGain ==
    ASSUME IInv, NEW c \in Caller, tokens' = tokens,
           \/ list'[c] = list[c]
           \/ list'[c].out = <<>>
           \/ list'[c].out = list[c].out,
           \/ at'[c] = at[c]
           \/ at'[c] # "idle"
           \/ at[c] # "acting"
           \/ want[c] \notin IdsOf(View)
    PROVE  ~Gains(c)
<1>1. list[c].out \in Seq(Record)
  BY CallerFacts DEF Lists
<1>2. Len(list[c].out) \in Nat /\ Len(<<>>) = 0
  BY <1>1, LenProperties, EmptySeq
<1>3. QED
  BY <1>2 DEF Gains

(* Only the caller whose call it is gains by a step of a call. *)
LEMMA OthersGainNothing ==
    ASSUME IInv, NEW c \in Caller, Serve(c) \/ RecordAct(c), NEW d \in Caller, d # c
    PROVE  ~Gains(d)
<1>1. list'[d] = list[d] /\ at'[d] = at[d] /\ tokens'[d] = tokens[d]
  <2>0. list \in [Caller -> Lists] /\ at \in [Caller -> Places] /\ tokens \in Tokens
    BY CallerFacts DEF IInv, Rest, Tokens
  <2>1. CASE ReadPage(c)
    BY <2>0, <2>1 DEF ReadPage, Fails, Again
  <2>2. CASE Disclose(c)
    BY <2>0, <2>2 DEF Disclose, Fails, Page, Present, Tokens
  <2>3. CASE Examine(c)
    BY <2>0, <2>3 DEF Examine
  <2>4. CASE DiscloseAnswerable(c)
    BY <2>0, <2>4 DEF DiscloseAnswerable, Fails, Page, Present, Tokens
  <2>5. CASE RecordAct(c)
    BY <2>0, <2>5 DEF RecordAct, Fails
  <2>6. QED
    BY <2>1, <2>2, <2>3, <2>4, <2>5 DEF Serve
<1>2. Len(list[d].out) \in Nat
  BY CallerFacts, LenProperties DEF Lists
<1>3. QED
  BY <1>1, <1>2 DEF Gains

(* A refused call gains nothing. *)
LEMMA FailsGainsNothing ==
    ASSUME IInv, NEW c \in Caller, Fails(c), tokens' = tokens
    PROVE  ~Gains(c)
<1>1. list'[c].out = <<>> /\ at'[c] = "failed"
  BY CallerFacts, NewListFacts DEF Fails
<1>2. QED
  BY <1>1, NoGain

(* A call that goes on gains only under the right. *)
LEMMA CallGains ==
    ASSUME IInv, NEW c \in Caller, Serve(c) \/ RecordAct(c), Gains(c)
    PROVE  right[c]
<1>1. CASE ReadPage(c)
  <2>1. tokens' = tokens /\ at[c] # "acting"
    BY <1>1 DEF ReadPage
  <2>2. list'[c] = list[c] \/ list'[c].out = <<>>
    <3>1. CASE Fails(c)
      BY <3>1, CallerFacts, NewListFacts DEF Fails
    <3>2. CASE Again(c)
      BY <3>2, CallerFacts, NewListFacts DEF Again, NewList
    <3>3. CASE list' = list
      BY <3>3
    <3>4. QED
      BY <1>1, <3>1, <3>2, <3>3 DEF ReadPage
  <2>3. QED
    BY <2>1, <2>2, NoGain
<1>2. CASE Disclose(c)
  BY <1>2, FailsGainsNothing DEF Disclose, StillAuthorized
<1>3. CASE Examine(c)
  <2>1. tokens' = tokens /\ at' = at /\ list' = list
    BY <1>3 DEF Examine
  <2>2. QED
    BY <2>1, NoGain
<1>4. CASE DiscloseAnswerable(c)
  <2>1. CASE Fails(c) /\ tokens' = tokens
    BY <2>1, FailsGainsNothing
  <2>2. CASE right[c]
    BY <2>2
  <2>3. CASE snap[c].part = <<>> /\ Page(c, snap[c].part, snap[c].offset)
    <3>1. list[c].out \in Seq(Record) /\ list[c].out \o <<>> = list[c].out
      BY CallerFacts, ConcatEmptySeq DEF Lists
    <3>2. tokens' = tokens
      <4>1. tokens \in Tokens
        BY DEF IInv, Rest, Tokens
      <4>2. IdsOf(snap[c].part) = {}
        BY <2>3, EmptySeq DEF IdsOf
      <4>3. tokens' = [tokens EXCEPT ![c] = tokens[c] \cup {}]
        BY <2>3, <4>2 DEF Page, Present
      <4>4. QED
        BY <4>1, <4>3 DEF Tokens
    <3>3. list'[c].out = list[c].out /\ at'[c] # "idle"
      BY <2>3, <3>1, CallerFacts DEF Page, NewList
    <3>4. QED
      BY <3>2, <3>3, NoGain
  <2>4. QED
    BY <1>4, <2>1, <2>2, <2>3 DEF DiscloseAnswerable, StillAuthorized
<1>5. CASE RecordAct(c)
  <2>1. CASE Fails(c) /\ tokens' = tokens
    BY <2>1, FailsGainsNothing
  <2>2. CASE right[c]
    BY <2>2
  <2>3. CASE want[c] \notin IdsOf(View) /\ tokens' = tokens /\ list' = list
    BY <2>3, NoGain
  <2>4. QED
    BY <1>5, <2>1, <2>2, <2>3 DEF RecordAct, StillAuthorized
<1>6. QED
  BY <1>1, <1>2, <1>3, <1>4, <1>5 DEF Serve

(* The run's UnderRight: nothing is disclosed or done for a caller without the    *)
(* right, whenever its right ended while the call was served; that a notification *)
(* it wants to act on is not retained, it learns without.                       *)
THEOREM OnlyUnderRight == Spec => UnderRight
<1>1. ASSUME IInv, Next, NEW c \in Caller, Gains(c)
      PROVE  right[c]
  <2>1. CASE Post(Note) \/ Post(Question)
    BY <1>1, <2>1, NoGain DEF Post, calls
  <2>2. CASE \E i \in Id : Settle(i) \/ Collect(i)
    BY <1>1, <2>2, NoGain DEF Settle, Collect, calls
  <2>3. CASE ClockStep
    BY <1>1, <2>3, NoGain DEF ClockStep, calls
  <2>4. CASE Restart
    <3>1. /\ tokens' = tokens
          /\ list'[c] = list[c] \/ list'[c] = NoList
          /\ at'[c] = at[c] \/ at'[c] = "failed"
      BY <2>4 DEF Restart
    <3>2. QED
      BY <1>1, <3>1, NoGain, NewListFacts
  <2>5. ASSUME NEW d \in Caller, ChangeRight(d)
        PROVE  right[c]
    BY <1>1, <2>5, NoGain DEF ChangeRight, calls
  <2>6. ASSUME NEW d \in Caller, Serve(d) \/ RecordAct(d)
        PROVE  right[c]
    BY <1>1, <2>6, OthersGainNothing, CallGains
  <2>7. ASSUME NEW d \in Caller, NEW kind \in Kinds, StartList(d, kind)
        PROVE  right[c]
    <3>1. tokens' = tokens /\ (at'[c] = at[c] \/ at'[c] = "list")
      BY <1>1, <2>7, CallerFacts DEF StartList
    <3>2. list'[c] = list[c] \/ list'[c].out = <<>>
      <4>1. CASE c = d
        BY <1>1, <2>7, <4>1, CallerFacts DEF StartList, NewList
      <4>2. CASE c # d
        BY <1>1, <2>7, <4>2, CallerFacts DEF StartList
      <4>3. QED
        BY <4>1, <4>2
    <3>3. QED
      BY <1>1, <2>7, <3>1, <3>2, NoGain DEF StartList
  <2>8. ASSUME NEW d \in Caller, NEW i \in Note, ReadOne(d, i)
        PROVE  right[c]
    <3>1. list' = list /\ at' = at /\ right[d] /\ Present(d, {i})
      BY <2>8 DEF ReadOne, calls
    <3>2. CASE c = d
      BY <3>1, <3>2
    <3>3. CASE c # d
      <4>1. tokens'[c] = tokens[c]
        BY <1>1, <3>1, <3>3 DEF Present, IInv, Rest
      <4>2. Len(list[c].out) \in Nat
        BY <1>1, CallerFacts, LenProperties DEF Lists
      <4>3. QED
        BY <1>1, <3>1, <4>1, <4>2 DEF Gains
    <3>4. QED
      BY <3>2, <3>3
  <2>9. ASSUME NEW d \in Caller, NEW i \in Note, Act(d, i)
        PROVE  right[c]
    <3>1. /\ tokens' = tokens
          /\ list'[c] = list[c] \/ list'[c] = NoList
          /\ at'[c] = at[c] \/ at'[c] = "acting"
      BY <1>1, <2>9, CallerFacts DEF Act
    <3>2. QED
      BY <1>1, <3>1, NoGain, NewListFacts
  <2>10. QED
    BY <1>1, <2>1, <2>2, <2>3, <2>4, <2>5, <2>6, <2>7, <2>8, <2>9 DEF Next, Kinds
<1>2. IInv /\ [Next]_vars => [\A c \in Caller : Gains(c) => right[c]]_vars
  BY <1>1
<1>3. QED
  BY <1>2, Invariance, PTL DEF Spec, UnderRight, Gains

=============================================================================
