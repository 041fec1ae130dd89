------------------------- MODULE LegacyServiceProofs -------------------------
(***************************************************************************)
(* Theorems about LegacyService, for any connections, questions and answers   *)
(* and any number of records.                                                *)
(*                                                                         *)
(* A connection's goroutine remembers a record and never reads the file       *)
(* between its subscription and the close of the channel, so what it may say  *)
(* rests on the channel: an open one stands for a pending record, a closed    *)
(* one for a record that is over or that a read did not find (`misread`), and *)
(* a record that is over stays so (no record becomes pending again).  Fits    *)
(* says that of one connection, and Channels of the channels themselves.      *)
(***************************************************************************)
EXTENDS LegacyService, TLAPS

Connection ==
    [at   : Serving \cup {"none", "accepted", "ended"},
     open : BOOLEAN,
     on   : ID \cup {0},
     told : Option \cup {"pending", "withdrawn", "nothing"}]

Blocked == {"asked", "waiting", "woken"}

Pending(i) == i \in Made /\ asks.answer[i] = "pending"

Over(i) == i \in Made /\ (asks.answer[i] # "pending" \/ i \in misread)

(* Only what has ended was told anything; whoever is blocked has a record, its *)
(* channel is open while it waits, and its record is over (or misread) once it *)
(* woke.  What was told is what the file says while it has the record.        *)
Fits(r) ==
    /\ r.told # "nothing" => r.at = "ended" /\ r.on \in Made
    /\ r.at \in Blocked => r.on \in Made
    /\ r.at = "waiting" => decided[r.on] = "open"
    /\ r.at = "woken" => Over(r.on)
    /\ r.told \in Option => asks.answer[r.on] \in {r.told, "forgotten"}
    /\ r.told = "withdrawn" => asks.answer[r.on] = "forgotten" \/ r.on \in misread

AllFit == \A c \in Conn : Fits(conn[c])

Channels ==
    \A i \in ID : /\ decided[i] = "open" => Pending(i)
                  /\ decided[i] = "closed" => Over(i)

(* At most one record of a question stands: pending, or with a kept answer.    *)
Standing(q) == {i \in Retained : asks.of[i] = q /\ asks.answer[i] \in Kept \cup {"pending"}}

OneStands == \A q \in Question : \A i, j \in Standing(q) : i = j

IInv == TypeOK /\ AllFit /\ Channels /\ OneStands /\ ClosedServesNone

-----------------------------------------------------------------------------
(* Connections. *)

LEMMA OneConnection ==
    ASSUME TypeOK, NEW c \in Conn, NEW r \in Connection, conn' = [conn EXCEPT ![c] = r]
    PROVE  /\ conn' \in [Conn -> Connection]
           /\ \A d \in Conn : conn'[d] = IF d = c THEN r ELSE conn[d]
BY DEF TypeOK, Connection

LEMMA ConnectionType ==
    ASSUME TypeOK, NEW c \in Conn
    PROVE  conn[c] \in Connection
BY DEF TypeOK, Connection

(* A step of one connection that leaves the file and the channels keeps the    *)
(* invariant if what it becomes fits, and serves nobody anew.                 *)
LEMMA OneConnectionPreserves ==
    ASSUME IInv, NEW c \in Conn, NEW r \in Connection, conn' = [conn EXCEPT ![c] = r],
           UNCHANGED <<asks, decided, stage, misread>>,
           Fits(r), r.at \in Serving => conn[c].at \in Serving \/ stage # "returned"
    PROVE  IInv'
<1>1. TypeOK /\ conn' \in [Conn -> Connection]
      /\ \A d \in Conn : conn'[d] = IF d = c THEN r ELSE conn[d]
  BY OneConnection DEF IInv
<1>2. TypeOK'
  BY <1>1 DEF TypeOK, Connection, Made
<1>3. AllFit'
  <2> SUFFICES ASSUME NEW d \in Conn PROVE Fits(conn[d])'
    BY DEF AllFit
  <2>1. Fits(conn'[d])
    BY <1>1 DEF IInv, AllFit
  <2> QED
    BY <2>1 DEF Fits, Over, Made
<1>4. Channels'
  BY DEF IInv, Channels, Pending, Over, Made
<1>5. OneStands'
  BY DEF IInv, OneStands, Standing, Retained, Made
<1>6. ClosedServesNone'
  BY <1>1 DEF IInv, ClosedServesNone
<1> QED
  BY <1>2, <1>3, <1>4, <1>5, <1>6 DEF IInv

LEMMA NoConnFits ==
    /\ NoConn \in Connection /\ Fits(NoConn)
    /\ NoConn.at = "none" /\ NoConn.on = 0 /\ NoConn.told = "nothing"
BY OptionAssumption DEF NoConn, Connection, Fits, Serving, Blocked

LEMMA EndFits ==
    ASSUME TypeOK, NEW c \in Conn
    PROVE  /\ End(c) \in Connection /\ Fits(End(c))
           /\ End(c).at = "ended" /\ End(c).told = "nothing"
<1>1. End(c) \in Connection /\ End(c).at = "ended" /\ End(c).told = "nothing"
  BY NoConnFits DEF End, Connection
<1> QED
  BY <1>1, OptionAssumption DEF Fits, Serving, Blocked

(* What a connection that goes is told fits if it is true. *)
LEMMA ToldFits ==
    ASSUME TypeOK, NEW c \in Conn, NEW i \in ID,
           NEW t \in Option \cup {"pending", "withdrawn"}, i \in Made,
           t \in Option => asks.answer[i] \in {t, "forgotten"},
           t = "withdrawn" => asks.answer[i] = "forgotten" \/ i \in misread
    PROVE  Told(c, i, t) \in Connection /\ Fits(Told(c, i, t)) /\ Told(c, i, t).at = "ended"
<1>1. CASE conn[c].open
  <2> DEFINE r == [End(c) EXCEPT !.on = i, !.told = t]
  <2>1. Told(c, i, t) = r
    BY <1>1 DEF Told
  <2>2. r \in Connection /\ r.at = "ended" /\ r.on = i /\ r.told = t
    BY EndFits DEF Connection
  <2>3. Fits(r)
    BY <2>2, OptionAssumption DEF Fits, Serving, Blocked
  <2> QED
    BY <2>1, <2>2, <2>3
<1>2. CASE ~conn[c].open
  BY <1>2, EndFits DEF Told
<1> QED
  BY <1>1, <1>2

LEMMA AcceptPreserves ==
    ASSUME IInv, NEW c \in Conn, Accept(c)
    PROVE  IInv'
<1> DEFINE r == [NoConn EXCEPT !.at = "accepted", !.open = TRUE]
<1>1. r \in Connection /\ r.at = "accepted" /\ r.on = 0 /\ r.told = "nothing"
  BY NoConnFits DEF Connection
<1>2. Fits(r) /\ r.at \notin Serving
  BY <1>1, OptionAssumption DEF Fits, Serving, Blocked
<1> QED
  BY <1>1, <1>2, OneConnectionPreserves DEF Accept

(* The loop takes no connection once Close is past it. *)
LEMMA RegisterPreserves ==
    ASSUME IInv, NEW c \in Conn, Register(c)
    PROVE  IInv'
<1>1. TypeOK /\ conn[c] \in Connection /\ Fits(conn[c]) /\ conn[c].at = "accepted"
  BY ConnectionType DEF IInv, AllFit, Register
<1>2. CASE Registers
  <2> DEFINE r == [conn[c] EXCEPT !.at = "live"]
  <2>1. /\ r \in Connection /\ r.at = "live" /\ r.on = conn[c].on /\ r.told = conn[c].told
    BY <1>1 DEF Connection, Serving
  <2>2. Fits(r)
    BY <1>1, <2>1, OptionAssumption DEF Fits, Blocked
  <2>3. conn' = [conn EXCEPT ![c] = r] /\ stage # "returned"
    BY <1>2 DEF Register, Registers
  <2> QED
    BY <2>1, <2>2, <2>3, OneConnectionPreserves DEF Register
<1>3. CASE ~Registers
  <2>1. End(c) \in Connection /\ Fits(End(c)) /\ End(c).at \notin Serving
    BY <1>1, EndFits DEF Serving
  <2>2. conn' = [conn EXCEPT ![c] = End(c)]
    BY <1>3 DEF Register
  <2> QED
    BY <2>1, <2>2, OneConnectionPreserves DEF Register
<1> QED
  BY <1>2, <1>3

LEMMA HangUpPreserves ==
    ASSUME IInv, NEW c \in Conn, HangUp(c)
    PROVE  IInv'
<1> DEFINE r == [conn[c] EXCEPT !.open = FALSE]
<1>1. TypeOK /\ conn[c] \in Connection /\ Fits(conn[c])
  BY ConnectionType DEF IInv, AllFit
<1>2. r \in Connection /\ r.at = conn[c].at /\ r.on = conn[c].on /\ r.told = conn[c].told
  BY <1>1 DEF Connection
<1>3. Fits(r)
  BY <1>1, <1>2 DEF Fits
<1>4. conn' = [conn EXCEPT ![c] = r]
  BY DEF HangUp
<1> QED
  BY <1>2, <1>3, <1>4, OneConnectionPreserves DEF HangUp

(* A connection that only ends. *)
LEMMA EndsPreserves ==
    ASSUME IInv, NEW c \in Conn, Refuse(c) \/ Gone(c)
    PROVE  IInv'
<1>1. End(c) \in Connection /\ Fits(End(c)) /\ End(c).at \notin Serving
  BY EndFits DEF IInv, Serving
<1> QED
  BY <1>1, OneConnectionPreserves DEF Refuse, Gone

(* More records may be misread: nothing but what excuses is added. *)
LEMMA MisreadGrows ==
    ASSUME misread \subseteq misread', UNCHANGED asks, NEW r \in Connection, Fits(r),
           r.at = "waiting" => decided'[r.on] = "open"
    PROVE  Fits(r)'
<1>1. Made' = Made
  BY DEF Made
<1>2. r.at = "woken" => Over(r.on)'
  BY <1>1 DEF Fits, Over
<1> QED
  BY <1>1, <1>2 DEF Fits

(* A reply reads a record that is over: its answer, or that it is gone, which  *)
(* a read that fails would say too.                                           *)
LEMMA ReplyPreserves ==
    ASSUME IInv, NEW c \in Conn, Reply(c)
    PROVE  IInv'
<1>1. TypeOK /\ conn[c].at = "woken" /\ Over(conn[c].on)
  BY DEF IInv, AllFit, Fits, Reply
<1>2. PICK i \in ID : i = conn[c].on
  BY <1>1 DEF Over, Made
<1>3. i \in Made /\ asks.answer[i] \in Option \cup {"pending", "forgotten"}
  BY <1>1, <1>2 DEF Over, TypeOK
<1>4. PICK ok \in BOOLEAN :
         /\ conn' = [conn EXCEPT ![c] = Told(c, i, Reading(asks.answer[i], ok))]
         /\ misread' = misread \cup {j \in {i} : ~ok /\ asks.answer[j] # "forgotten"}
         /\ UNCHANGED <<asks, decided, stage>>
  BY <1>2, ReadFailsAssumption DEF Reply, Reads
<1>5. misread \subseteq misread' /\ misread' \subseteq ID /\ Made' = Made
  BY <1>1, <1>4 DEF TypeOK, Made
<1>6. PICK t \in Option \cup {"pending", "withdrawn"} : t = Reading(asks.answer[i], ok)
  BY <1>3 DEF Reading
<1>7. /\ t \in Option => asks.answer[i] \in {t, "forgotten"}
      /\ t = "withdrawn" => asks.answer[i] = "forgotten" \/ i \in misread'
  <2>1. CASE ~ok
    BY <1>3, <1>4, <1>6, <2>1, OptionAssumption DEF Reading
  <2>2. CASE ok
    <3>1. asks.answer[i] = "pending" => i \in misread
      BY <1>1, <1>2 DEF Over
    <3> QED
      BY <1>3, <1>5, <1>6, <2>2, <3>1, OptionAssumption DEF Reading
  <2> QED
    BY <2>1, <2>2
<1>8. PICK r \in Connection : r = Told(c, i, t) /\ r.at = "ended" /\ r.told \in {t, "nothing"}
                             /\ (r.told = t => r.on = i)
  <2>1. CASE conn[c].open
    <3>1. Told(c, i, t) = [End(c) EXCEPT !.on = i, !.told = t]
      BY <2>1 DEF Told
    <3> QED
      BY <1>1, <1>6, <3>1, EndFits DEF Connection
  <2>2. CASE ~conn[c].open
    BY <1>1, <2>2, EndFits, OptionAssumption DEF Told
  <2> QED
    BY <2>1, <2>2
<1>9. Fits(r)'
  BY <1>3, <1>4, <1>5, <1>6, <1>7, <1>8, OptionAssumption DEF Fits, Serving, Blocked
<1>10. conn' \in [Conn -> Connection] /\ \A d \in Conn : conn'[d] = IF d = c THEN r ELSE conn[d]
  BY <1>1, <1>4, <1>6, <1>8, OneConnection
<1>11. TypeOK'
  BY <1>1, <1>4, <1>5, <1>10 DEF TypeOK, Connection
<1>12. AllFit'
  <2> SUFFICES ASSUME NEW d \in Conn PROVE Fits(conn[d])'
    BY DEF AllFit
  <2>1. CASE d = c
    <3>1. conn'[d] = r
      BY <1>10, <2>1
    <3> QED
      BY <1>9, <3>1 DEF Fits, Over
  <2>2. CASE d # c
    <3>1. PICK x \in Connection : x = conn[d] /\ x = conn'[d] /\ Fits(x)
      BY <1>1, <1>10, <2>2, ConnectionType DEF IInv, AllFit
    <3>2. x.at = "waiting" => decided'[x.on] = "open"
      BY <1>4, <3>1 DEF Fits
    <3>3. Fits(x)'
      BY <1>4, <1>5, <3>1, <3>2, MisreadGrows
    <3> QED
      BY <3>1, <3>3 DEF Fits, Over
  <2> QED
    BY <2>1, <2>2
<1>13. Channels'
  BY <1>4, <1>5 DEF IInv, Channels, Pending, Over
<1>14. OneStands'
  BY <1>4, <1>5 DEF IInv, OneStands, Standing, Retained
<1>15. ClosedServesNone'
  BY <1>4, <1>8, <1>10 DEF IInv, ClosedServesNone, Serving
<1> QED
  BY <1>11, <1>12, <1>13, <1>14, <1>15 DEF IInv

-----------------------------------------------------------------------------
(* Questions. *)

(* An ask replies at once, or has the record it will wait for. *)
LEMMA FoundPreserves ==
    ASSUME IInv, NEW c \in Conn, NEW q \in Question, NEW wait \in BOOLEAN,
           conn[c].at = "live", NEW i \in Found(q),
           conn' = [conn EXCEPT ![c] = Replied(c, i, wait)], UNCHANGED <<asks, decided, stage, misread>>
    PROVE  IInv'
<1>1. TypeOK /\ conn[c] \in Connection /\ Fits(conn[c])
  BY ConnectionType DEF IInv, AllFit
<1>2. i \in ID /\ i \in Made /\ asks.answer[i] \in Option \cup {"pending"}
  <2>1. i \in Retained
    BY DEF Found, FoundKept
  <2> QED
    BY <1>1, <2>1 DEF Retained, Made, TypeOK
<1>3. CASE asks.answer[i] = "pending" /\ wait
  <2> DEFINE r == [conn[c] EXCEPT !.at = "asked", !.on = i]
  <2>1. r \in Connection /\ r.at = "asked" /\ r.on = i /\ r.told = conn[c].told
    BY <1>1, <1>2 DEF Connection, Serving
  <2>2. conn[c].told = "nothing"
    BY <1>1 DEF Fits
  <2>3. Fits(r)
    BY <1>2, <2>1, <2>2, OptionAssumption DEF Fits, Blocked
  <2>4. conn' = [conn EXCEPT ![c] = r]
    BY <1>3 DEF Replied
  <2> QED
    BY <2>1, <2>3, <2>4, OneConnectionPreserves DEF Serving
<1>4. CASE ~(asks.answer[i] = "pending" /\ wait)
  <2> DEFINE t == asks.answer[i]
             r == Told(c, i, t)
  <2>1. t # "withdrawn"
    BY <1>2, OptionAssumption
  <2>2. r \in Connection /\ Fits(r) /\ r.at = "ended"
    BY <1>1, <1>2, <2>1, ToldFits
  <2>3. conn' = [conn EXCEPT ![c] = r]
    BY <1>4 DEF Replied
  <2> QED
    BY <2>2, <2>3, OneConnectionPreserves DEF Serving
<1> QED
  BY <1>3, <1>4

LEMMA AskedFacts ==
    ASSUME TypeOK, NEW q \in Question, asks.count < MaxAsks, asks' = Asked(q)
    PROVE  /\ asks.count + 1 \in ID /\ asks.count + 1 \notin Made
           /\ asks' \in [count : 0 .. MaxAsks, of : [ID -> Question],
                         answer : [ID -> Option \cup {"pending", "forgotten"}]]
           /\ Made' = Made \cup {asks.count + 1}
           /\ \A i \in Made : asks'.of[i] = asks.of[i] /\ asks'.answer[i] = asks.answer[i]
           /\ asks'.of[asks.count + 1] = q /\ asks'.answer[asks.count + 1] = "pending"
<1> DEFINE n == asks.count + 1
<1>1. asks.count \in 0 .. MaxAsks /\ asks.of \in [ID -> Question]
      /\ asks.answer \in [ID -> Option \cup {"pending", "forgotten"}]
  BY DEF TypeOK
<1>2. n \in ID /\ n \notin Made
  BY <1>1, BoundAssumption DEF ID, Made
<1>3. asks'.count = n /\ asks'.of = [asks.of EXCEPT ![n] = q]
      /\ asks'.answer = [asks.answer EXCEPT ![n] = "pending"]
  BY DEF Asked
<1>4. asks' \in [count : 0 .. MaxAsks, of : [ID -> Question],
                 answer : [ID -> Option \cup {"pending", "forgotten"}]]
  BY <1>1, <1>2, BoundAssumption DEF Asked
<1>5. Made' = Made \cup {n}
  BY <1>1, <1>3, BoundAssumption DEF Made, ID
<1>6. \A i \in Made : i \in ID /\ i # n
  BY <1>2 DEF Made
<1> QED
  BY <1>1, <1>2, <1>3, <1>4, <1>5, <1>6

(* A record is made for a question of which none stands. *)
LEMMA MadePreserves ==
    ASSUME IInv, NEW c \in Conn, NEW q \in Question, NEW wait \in BOOLEAN,
           conn[c].at = "live", Found(q) = {}, asks.count < MaxAsks, asks' = Asked(q),
           conn' = [conn EXCEPT ![c] = Replied(c, asks.count + 1, wait)],
           UNCHANGED <<decided, stage, misread>>
    PROVE  IInv'
<1> DEFINE n == asks.count + 1
           r == Replied(c, n, wait)
<1>1. TypeOK /\ conn[c] \in Connection /\ Fits(conn[c]) /\ conn[c].told = "nothing"
  BY ConnectionType DEF IInv, AllFit, Fits
<1>2. /\ n \in ID /\ n \notin Made /\ Made' = Made \cup {n} /\ Made \subseteq ID
      /\ asks' \in [count : 0 .. MaxAsks, of : [ID -> Question],
                    answer : [ID -> Option \cup {"pending", "forgotten"}]]
      /\ \A i \in Made : asks'.of[i] = asks.of[i] /\ asks'.answer[i] = asks.answer[i]
      /\ asks'.of[n] = q /\ asks'.answer[n] = "pending"
  BY <1>1, AskedFacts DEF Made
<1>3. /\ r \in Connection
      /\ \/ r.at = "asked" /\ r.told = "nothing" /\ r.on = n
         \/ r.at = "ended" /\ r.told = "pending" /\ r.on = n
         \/ r.at = "ended" /\ r.told = "nothing"
  <2>1. CASE wait
    <3>1. r = [conn[c] EXCEPT !.at = "asked", !.on = n]
      BY <1>2, <2>1 DEF Replied
    <3> QED
      BY <1>1, <1>2, <3>1 DEF Connection, Serving
  <2>2. CASE ~wait
    <3>1. r = Told(c, n, "pending")
      BY <1>2, <2>2 DEF Replied
    <3>2. CASE conn[c].open
      <4>1. r = [End(c) EXCEPT !.on = n, !.told = "pending"]
        BY <3>1, <3>2 DEF Told
      <4>2. End(c) \in Connection /\ End(c).at = "ended" /\ End(c).told = "nothing"
        BY <1>1, EndFits
      <4> QED
        BY <1>2, <4>1, <4>2 DEF Connection
    <3>3. CASE ~conn[c].open
      BY <1>1, <3>1, <3>3, EndFits DEF Told
    <3> QED
      BY <3>2, <3>3
  <2> QED
    BY <2>1, <2>2
<1> HIDE DEF r
<1>4. conn' \in [Conn -> Connection] /\ \A d \in Conn : conn'[d] = IF d = c THEN r ELSE conn[d]
  BY <1>1, <1>3, OneConnection DEF r
<1>5. TypeOK'
  BY <1>1, <1>2, <1>4 DEF TypeOK, Connection
<1>6. AllFit'
  <2> SUFFICES ASSUME NEW d \in Conn PROVE Fits(conn[d])'
    BY DEF AllFit
  <2>1. CASE d = c
    <3>1. conn'[d] = r
      BY <1>4, <2>1
    <3> QED
      BY <1>2, <1>3, <3>1, OptionAssumption DEF Fits, Blocked
  <2>2. CASE d # c
    <3>1. conn'[d] = conn[d] /\ Fits(conn[d])
      BY <1>4, <2>2 DEF IInv, AllFit
    <3>2. conn[d].told # "nothing" \/ conn[d].at \in Blocked => conn[d].on \in Made
      BY <3>1 DEF Fits
    <3>3. conn[d].on \in Made => conn[d].on \in Made' /\ asks'.answer[conn[d].on] = asks.answer[conn[d].on]
      BY <1>2
    <3> QED
      BY <3>1, <3>2, <3>3, OptionAssumption DEF Fits, Over, Blocked
  <2> QED
    BY <2>1, <2>2
<1>7. Channels'
  BY <1>2 DEF IInv, Channels, Pending, Over
<1>8. OneStands'
  <2> SUFFICES ASSUME NEW k \in Question, NEW i \in Standing(k)', NEW j \in Standing(k)' PROVE i = j
    BY DEF OneStands
  <2>1. ASSUME NEW m \in Standing(k)' PROVE m = n \/ m \in Standing(k)
    BY <1>2, <2>1 DEF Standing, Retained
  <2>2. k = q => Standing(k) = {}
    BY DEF Found, FoundKept, Standing
  <2>3. ASSUME NEW m \in Standing(k)', m = n PROVE k = q
    BY <1>2, <2>3 DEF Standing
  <2> QED
    BY <2>1, <2>2, <2>3 DEF IInv, OneStands
<1>9. ClosedServesNone'
  BY <1>4 DEF IInv, ClosedServesNone, Serving
<1> QED
  BY <1>5, <1>6, <1>7, <1>8, <1>9 DEF IInv

LEMMA AskQuestionPreserves ==
    ASSUME IInv, NEW c \in Conn, NEW q \in Question, NEW wait \in BOOLEAN, AskQuestion(c, q, wait)
    PROVE  IInv'
<1>1. CASE \E i \in Found(q) : UNCHANGED asks /\ conn' = [conn EXCEPT ![c] = Replied(c, i, wait)]
  BY <1>1, FoundPreserves DEF AskQuestion
<1>2. CASE /\ Found(q) = {} /\ asks.count < MaxAsks /\ asks' = Asked(q)
           /\ conn' = [conn EXCEPT ![c] = Replied(c, asks.count + 1, wait)]
  BY <1>2, MadePreserves DEF AskQuestion
<1> QED
  BY <1>1, <1>2 DEF AskQuestion

(* The channel is read or made in one step with the record, so that it is open *)
(* while the record is pending and closed once it is over, or misread.        *)
LEMMA SubscribePreserves ==
    ASSUME IInv, NEW c \in Conn, Subscribe(c)
    PROVE  IInv'
<1>1. TypeOK /\ conn[c] \in Connection /\ Fits(conn[c]) /\ conn[c].at = "asked"
  BY ConnectionType DEF IInv, AllFit, Subscribe
<1>2. PICK i \in ID : i = conn[c].on
  BY <1>1 DEF Fits, Blocked, Made
<1>3. i \in Made /\ conn[c].told = "nothing"
  BY <1>1, <1>2 DEF Fits, Blocked
<1>4. PICK ok \in BOOLEAN :
         /\ decided' = [decided EXCEPT ![i] = Channel(i, ok)]
         /\ conn' = [conn EXCEPT ![c].at = IF Channel(i, ok) = "open" THEN "waiting" ELSE "woken"]
         /\ misread' = misread \cup {j \in {i} : ~ok /\ decided[j] = "none" /\ Answerable(j)}
         /\ UNCHANGED <<asks, stage>>
  BY <1>2, ReadFailsAssumption DEF Subscribe, Reads
<1>5. misread \subseteq misread' /\ misread' \subseteq ID /\ Made' = Made
  BY <1>1, <1>4 DEF TypeOK, Made
<1>6. PICK ch \in {"open", "closed"} : ch = Channel(i, ok)
  BY <1>1 DEF Channel, TypeOK
<1>7. ch = "closed" => Over(i)'
  <2> SUFFICES ASSUME ch = "closed" PROVE asks.answer[i] # "pending" \/ i \in misread'
    BY <1>3, <1>4, <1>5 DEF Over
  <2>1. CASE decided[i] = "none"
    <3>1. ~ok \/ ~Answerable(i)
      BY <1>6, <2>1 DEF Channel
    <3>2. Answerable(i) => i \in misread'
      BY <1>4, <2>1, <3>1
    <3> QED
      BY <1>3, <3>2 DEF Answerable, Retained
  <2>2. CASE decided[i] # "none"
    BY <1>3, <1>5, <1>6, <2>2 DEF IInv, Channels, Channel, Over
  <2> QED
    BY <2>1, <2>2
<1>8. (ch = "open" => Pending(i)) /\ (decided[i] # "none" => ch = decided[i])
  BY <1>3, <1>6 DEF IInv, Channels, Channel, Pending, Retained, Answerable
<1>9. PICK r \in Connection : /\ r = [conn[c] EXCEPT !.at = IF ch = "open" THEN "waiting" ELSE "woken"]
                              /\ r.on = i /\ r.told = "nothing"
                              /\ r.at = IF ch = "open" THEN "waiting" ELSE "woken"
  <2> DEFINE at == IF ch = "open" THEN "waiting" ELSE "woken"
             n == [conn[c] EXCEPT !.at = at]
  <2>1. at \in Serving
    BY DEF Serving
  <2> HIDE DEF at
  <2>2. n \in Connection /\ n.on = conn[c].on /\ n.told = conn[c].told /\ n.at = at
    BY <1>1, <2>1 DEF Connection
  <2> QED
    BY <1>2, <1>3, <2>2 DEF at
<1>10. conn' = [conn EXCEPT ![c] = r]
  BY <1>4, <1>6, <1>9
<1>11. conn' \in [Conn -> Connection] /\ \A d \in Conn : conn'[d] = IF d = c THEN r ELSE conn[d]
  BY <1>1, <1>10, OneConnection
<1>12. /\ decided' \in [ID -> {"none", "open", "closed"}]
       /\ \A k \in ID : decided'[k] = IF k = i THEN ch ELSE decided[k]
  BY <1>1, <1>4, <1>6 DEF TypeOK
<1>13. TypeOK'
  BY <1>1, <1>4, <1>5, <1>11, <1>12 DEF TypeOK, Connection
<1>14. AllFit'
  <2> SUFFICES ASSUME NEW d \in Conn PROVE Fits(conn[d])'
    BY DEF AllFit
  <2>1. CASE d = c
    <3>1. conn'[d] = r
      BY <1>11, <2>1
    <3>2. r.at = "woken" => Over(r.on)'
      BY <1>7, <1>9
    <3> QED
      BY <1>3, <1>5, <1>9, <1>12, <3>1, <3>2, OptionAssumption DEF Fits, Over, Blocked
  <2>2. CASE d # c
    <3>1. PICK x \in Connection : x = conn[d] /\ x = conn'[d] /\ Fits(x)
      BY <1>1, <1>11, <2>2, ConnectionType DEF IInv, AllFit
    <3>2. x.at = "waiting" => decided'[x.on] = "open"
      BY <1>8, <1>12, <3>1 DEF Fits, Made, Blocked
    <3>3. Fits(x)'
      BY <1>4, <1>5, <3>1, <3>2, MisreadGrows
    <3> QED
      BY <3>1, <3>3 DEF Fits, Over
  <2> QED
    BY <2>1, <2>2
<1>15. Channels'
  <2> SUFFICES ASSUME NEW k \in ID
               PROVE  /\ decided'[k] = "open" => Pending(k)'
                      /\ decided'[k] = "closed" => Over(k)'
    BY DEF Channels
  <2>1. CASE k = i
    BY <1>4, <1>5, <1>7, <1>8, <1>12, <2>1 DEF Pending, Over
  <2>2. CASE k # i
    BY <1>4, <1>5, <1>12, <2>2 DEF IInv, Channels, Pending, Over
  <2> QED
    BY <2>1, <2>2
<1>16. OneStands'
  BY <1>4, <1>5 DEF IInv, OneStands, Standing, Retained
<1>17. ClosedServesNone'
  BY <1>1, <1>4, <1>11 DEF IInv, ClosedServesNone, Serving
<1> QED
  BY <1>13, <1>14, <1>15, <1>16, <1>17 DEF IInv

-----------------------------------------------------------------------------
(* Answers and withdrawals. *)

(* What an answer (of a pending record) and a withdrawal do to the file. *)
LEMMA SettledFile ==
    ASSUME IInv, NEW i \in Retained, NEW v \in Option \cup {"forgotten"},
           v \in Option => asks.answer[i] = "pending",
           asks' = [asks EXCEPT !.answer[i] = v]
    PROVE  /\ asks' \in [count : 0 .. MaxAsks, of : [ID -> Question],
                         answer : [ID -> Option \cup {"pending", "forgotten"}]]
           /\ Made' = Made /\ asks'.of = asks.of
           /\ \A j \in ID : asks'.answer[j] = IF j = i THEN v ELSE asks.answer[j]
           /\ OneStands'
<1>1. TypeOK /\ i \in ID /\ i \in Made /\ asks.answer[i] # "forgotten"
  BY DEF IInv, Retained, Made
<1>2. asks.answer \in [ID -> Option \cup {"pending", "forgotten"}]
  BY <1>1 DEF TypeOK
<1>3. /\ asks'.count = asks.count /\ asks'.of = asks.of
      /\ asks'.answer = [asks.answer EXCEPT ![i] = v]
      /\ asks' \in [count : 0 .. MaxAsks, of : [ID -> Question],
                    answer : [ID -> Option \cup {"pending", "forgotten"}]]
  BY <1>1, <1>2 DEF TypeOK
<1>4. Made' = Made
  BY <1>3 DEF Made
<1>5. \A j \in ID : asks'.answer[j] = IF j = i THEN v ELSE asks.answer[j]
  BY <1>2, <1>3
<1>6. OneStands'
  <2> SUFFICES ASSUME NEW k \in Question, NEW m \in Standing(k)' PROVE m \in Standing(k)
    BY DEF IInv, OneStands
  <2>1. m \in Made /\ m \in ID /\ asks.of[m] = k /\ asks'.answer[m] # "forgotten"
        /\ asks'.answer[m] \in Kept \cup {"pending"}
    BY <1>3, <1>4 DEF Standing, Retained, Made
  <2>2. CASE m = i
    <3>1. asks.answer[m] = "pending"
      BY <1>5, <2>1, <2>2
    <3> QED
      BY <2>1, <3>1 DEF Standing, Retained
  <2>3. CASE m # i
    BY <1>5, <2>1, <2>3 DEF Standing, Retained
  <2> QED
    BY <2>2, <2>3
<1> QED
  BY <1>3, <1>4, <1>5, <1>6

(* Whoever waited for the record wakes, and the record is over. *)
LEMMA SettlePreserves ==
    ASSUME IInv, NEW i \in Retained, NEW v \in Option \cup {"forgotten"},
           v \in Option => asks.answer[i] = "pending",
           asks' = [asks EXCEPT !.answer[i] = v], Settle(i), UNCHANGED <<stage, misread>>
    PROVE  IInv'
<1>1. /\ TypeOK /\ i \in ID /\ i \in Made /\ asks.answer[i] # "forgotten" /\ v # "pending"
      /\ decided \in [ID -> {"none", "open", "closed"}]
  BY OptionAssumption DEF IInv, TypeOK, Retained, Made
<1>2. /\ asks' \in [count : 0 .. MaxAsks, of : [ID -> Question],
                    answer : [ID -> Option \cup {"pending", "forgotten"}]]
      /\ Made' = Made /\ asks'.of = asks.of
      /\ \A j \in ID : asks'.answer[j] = IF j = i THEN v ELSE asks.answer[j]
      /\ OneStands'
  BY SettledFile
<1>3. /\ decided' \in [ID -> {"none", "open", "closed"}]
      /\ \A j \in ID : decided'[j] = IF j = i THEN "none" ELSE decided[j]
  BY <1>1 DEF Settle
<1>4. ASSUME NEW c \in Conn
      PROVE  /\ conn'[c] \in Connection /\ conn'[c].on = conn[c].on /\ conn'[c].told = conn[c].told
             /\ conn'[c].at = IF conn[c].at = "waiting" /\ conn[c].on = i THEN "woken" ELSE conn[c].at
  <2>1. conn[c] \in Connection
    BY <1>1, ConnectionType
  <2>2. CASE conn[c].at = "waiting" /\ conn[c].on = i
    <3>1. conn'[c] = [conn[c] EXCEPT !.at = "woken"]
      BY <2>2 DEF Settle
    <3> QED
      BY <2>1, <2>2, <3>1 DEF Connection, Serving
  <2>3. CASE ~(conn[c].at = "waiting" /\ conn[c].on = i)
    <3>1. conn'[c] = conn[c]
      BY <2>3 DEF Settle
    <3> QED
      BY <2>1, <2>3, <3>1
  <2> QED
    BY <2>2, <2>3
<1>5. conn' \in [Conn -> Connection]
  BY <1>4 DEF Settle
<1>6. TypeOK'
  BY <1>1, <1>2, <1>3, <1>5 DEF TypeOK, Connection
<1>7. AllFit'
  <2> SUFFICES ASSUME NEW c \in Conn PROVE Fits(conn[c])'
    BY DEF AllFit
  <2> DEFINE k == conn[c].on
             a == conn[c].at
             t == conn[c].told
  <2>1. Fits(conn[c]) /\ k \in ID \cup {0} /\ Made \subseteq ID
    BY <1>1 DEF IInv, AllFit, TypeOK, Made
  <2>2. /\ conn'[c].on = k /\ conn'[c].told = t
        /\ conn'[c].at = IF a = "waiting" /\ k = i THEN "woken" ELSE a
    BY <1>4
  <2>3. k \in Made => k \in ID /\ asks'.answer[k] = IF k = i THEN v ELSE asks.answer[k]
    BY <1>2, <2>1
  <2>4. /\ t # "nothing" => a = "ended" /\ k \in Made
        /\ a \in Blocked => k \in Made
        /\ a = "waiting" => decided[k] = "open"
        /\ a = "woken" => k \in Made /\ (asks.answer[k] # "pending" \/ k \in misread)
        /\ t \in Option => asks.answer[k] \in {t, "forgotten"}
        /\ t = "withdrawn" => asks.answer[k] = "forgotten" \/ k \in misread
    BY <2>1 DEF Fits, Over
  <2>5. conn'[c].told # "nothing" => conn'[c].at = "ended" /\ conn'[c].on \in Made'
    BY <1>2, <2>2, <2>4
  <2>6. conn'[c].at \in Blocked => conn'[c].on \in Made'
    BY <1>1, <1>2, <2>2, <2>4 DEF Blocked
  <2>7. conn'[c].at = "waiting" => decided'[conn'[c].on] = "open"
    BY <1>3, <2>2, <2>3, <2>4 DEF Blocked
  <2>8. conn'[c].at = "woken" => Over(conn[c].on)'
    <3>1. CASE k = i
      BY <1>1, <1>2, <2>2, <2>3, <2>4, <3>1 DEF Over
    <3>2. CASE k # i
      BY <1>2, <2>2, <2>3, <2>4, <3>2 DEF Over
    <3> QED
      BY <3>1, <3>2
  <2>9. t \in Option => asks'.answer[k] \in {t, "forgotten"}
    <3> SUFFICES ASSUME t \in Option PROVE asks'.answer[k] \in {t, "forgotten"}
      OBVIOUS
    <3>1. k \in Made /\ asks.answer[k] \in {t, "forgotten"} /\ t # "pending"
      BY <2>4, OptionAssumption
    <3>2. k = i => v = "forgotten"
      BY <1>1, <3>1
    <3> QED
      BY <2>3, <3>1, <3>2
  <2>10. t = "withdrawn" => asks'.answer[k] = "forgotten" \/ k \in misread'
    <3> SUFFICES ASSUME t = "withdrawn", k \notin misread' PROVE asks'.answer[k] = "forgotten"
      OBVIOUS
    <3>1. k \in Made /\ k # i /\ asks.answer[k] = "forgotten"
      BY <1>1, <2>4
    <3> QED
      BY <2>3, <3>1
  <2> QED
    BY <2>2, <2>5, <2>6, <2>7, <2>8, <2>9, <2>10 DEF Fits, Blocked
<1>8. Channels'
  BY <1>2, <1>3 DEF IInv, Channels, Pending, Over
<1>9. ClosedServesNone'
  BY <1>4 DEF IInv, ClosedServesNone, Serving
<1> QED
  BY <1>2, <1>6, <1>7, <1>8, <1>9 DEF IInv

(* The memory of a process that ended is empty, the file is what it was. *)
LEMMA EmptyMemory ==
    ASSUME IInv,
           asks' \in [count : 0 .. MaxAsks, of : [ID -> Question],
                      answer : [ID -> Option \cup {"pending", "forgotten"}]],
           OneStands', decided' = [i \in ID |-> "none"], conn' = [c \in Conn |-> NoConn],
           misread' = {}, stage' \in {"serving", "down"}
    PROVE  IInv'
<1>1. conn' \in [Conn -> Connection] /\ \A c \in Conn : conn'[c] = NoConn
  BY NoConnFits
<1>2. TypeOK'
  BY <1>1 DEF TypeOK, Connection
<1>3. AllFit'
  <2> SUFFICES ASSUME NEW c \in Conn PROVE Fits(conn[c])'
    BY DEF AllFit
  <2>1. conn'[c].at = "none" /\ conn'[c].told = "nothing"
    BY <1>1, NoConnFits
  <2> QED
    BY <2>1, OptionAssumption DEF Fits, Blocked
<1>4. Channels'
  BY DEF Channels
<1>5. ClosedServesNone'
  BY DEF ClosedServesNone
<1> QED
  BY <1>2, <1>3, <1>4, <1>5 DEF IInv

(* An answer or a withdrawal wakes the waiters; on a channel that is closed it *)
(* is the end of the process.                                                 *)
LEMMA SettleOrDiePreserves ==
    ASSUME IInv, NEW i \in Retained, NEW v \in Option \cup {"forgotten"},
           v \in Option => asks.answer[i] = "pending",
           asks' = [asks EXCEPT !.answer[i] = v], SettleOrDie(i)
    PROVE  IInv'
<1>1. CASE decided[i] = "closed"
  <2>1. Die
    BY <1>1 DEF SettleOrDie
  <2>2. /\ asks' \in [count : 0 .. MaxAsks, of : [ID -> Question],
                      answer : [ID -> Option \cup {"pending", "forgotten"}]]
        /\ OneStands'
    BY SettledFile
  <2> QED
    BY <2>1, <2>2, EmptyMemory DEF Die
<1>2. CASE decided[i] # "closed"
  BY <1>2, SettlePreserves DEF SettleOrDie
<1> QED
  BY <1>1, <1>2

LEMMA AnswerPreserves ==
    ASSUME IInv, NEW i \in ID, NEW o \in Option, Answer(i, o)
    PROVE  IInv'
BY SettleOrDiePreserves DEF Answer, Answerable

LEMMA ForgetPreserves ==
    ASSUME IInv, NEW i \in ID, Forget(i)
    PROVE  IInv'
BY SettleOrDiePreserves, OptionAssumption DEF Forget

-----------------------------------------------------------------------------
(* Close, crash and restart. *)

LEMMA SameFile ==
    ASSUME IInv, UNCHANGED asks
    PROVE  /\ asks' \in [count : 0 .. MaxAsks, of : [ID -> Question],
                         answer : [ID -> Option \cup {"pending", "forgotten"}]]
           /\ OneStands' /\ Made' = Made
<1>1. Made' = Made
  BY DEF Made
<1>2. OneStands'
  BY <1>1 DEF IInv, OneStands, Standing, Retained
<1> QED
  BY <1>1, <1>2 DEF IInv, TypeOK

LEMMA EndsOfProcessPreserve ==
    ASSUME IInv, Crash \/ Restart
    PROVE  IInv'
BY SameFile, EmptyMemory DEF Crash, Restart, Die

(* Close waits for the connections it counts, and they are all there are. *)
LEMMA ClosePreserves ==
    ASSUME IInv, StopListening \/ CloseLive \/ CloseReturns
    PROVE  IInv'
<1>1. TypeOK /\ UNCHANGED <<asks, decided, misread>>
  BY DEF IInv, StopListening, CloseLive, CloseReturns
<1>2. ASSUME NEW c \in Conn
      PROVE  /\ conn'[c] \in Connection /\ conn'[c].on = conn[c].on /\ conn'[c].told = conn[c].told
             /\ conn'[c].at = conn[c].at
  <2>1. conn[c] \in Connection
    BY <1>1, ConnectionType
  <2>2. conn'[c] = conn[c] \/ conn'[c] = [conn[c] EXCEPT !.open = FALSE]
    BY DEF StopListening, CloseLive, CloseReturns
  <2> QED
    BY <2>1, <2>2 DEF Connection
<1>3. conn' \in [Conn -> Connection]
  <2>1. CASE CloseLive
    BY <1>2, <2>1 DEF CloseLive
  <2>2. CASE UNCHANGED conn
    BY <1>1, <2>2 DEF TypeOK, Connection
  <2> QED
    BY <2>1, <2>2 DEF StopListening, CloseReturns
<1>4. stage' \in {"unlistened", "closing", "returned"}
  BY DEF StopListening, CloseLive, CloseReturns
<1>5. Made' = Made /\ OneStands'
  BY <1>1, SameFile
<1>6. TypeOK'
  BY <1>1, <1>3, <1>4, <1>5 DEF TypeOK, Connection
<1>7. AllFit'
  <2> SUFFICES ASSUME NEW c \in Conn PROVE Fits(conn[c])'
    BY DEF AllFit
  <2>1. Fits(conn[c])
    BY DEF IInv, AllFit
  <2> QED
    BY <1>1, <1>2, <1>5, <2>1 DEF Fits, Over
<1>8. Channels'
  BY <1>1, <1>5 DEF IInv, Channels, Pending, Over
<1>9. ClosedServesNone'
  BY DEF IInv, ClosedServesNone, StopListening, CloseLive, CloseReturns
<1> QED
  BY <1>5, <1>6, <1>7, <1>8, <1>9 DEF IInv

-----------------------------------------------------------------------------
(* The invariant. *)

LEMMA InitHolds == Init => IInv
<1> SUFFICES ASSUME Init PROVE IInv
  OBVIOUS
<1>1. Made = {} /\ asks.answer = [i \in ID |-> "forgotten"]
  BY BoundAssumption DEF Init, Made, ID
<1>2. (CHOOSE q \in Question : TRUE) \in Question
  BY QuestionAssumption
<1>3. \A c \in Conn : conn[c] = NoConn
  BY DEF Init
<1>4. conn \in [Conn -> Connection]
  BY NoConnFits DEF Init
<1>5. TypeOK
  <2>1. asks \in [count : 0 .. MaxAsks, of : [ID -> Question],
                  answer : [ID -> Option \cup {"pending", "forgotten"}]]
    BY <1>2, BoundAssumption DEF Init
  <2> QED
    BY <1>4, <2>1 DEF Init, TypeOK, Connection
<1>6. AllFit
  BY <1>3, NoConnFits DEF AllFit
<1>7. Channels
  BY DEF Init, Channels
<1>8. OneStands
  BY <1>1 DEF OneStands, Standing, Retained
<1>9. ClosedServesNone
  BY DEF Init, ClosedServesNone
<1> QED
  BY <1>5, <1>6, <1>7, <1>8, <1>9 DEF IInv

LEMMA StepHolds == IInv /\ [Next]_vars => IInv'
<1> SUFFICES ASSUME IInv, [Next]_vars PROVE IInv'
  OBVIOUS
<1>1. CASE \E i \in ID : Forget(i) \/ \E o \in Option : Answer(i, o)
  BY <1>1, ForgetPreserves, AnswerPreserves
<1>2. CASE \E c \in Conn : Accept(c) \/ Register(c) \/ HangUp(c) \/ Refuse(c) \/ Proceed(c)
  BY <1>2, AcceptPreserves, RegisterPreserves, HangUpPreserves, EndsPreserves,
     SubscribePreserves, ReplyPreserves DEF Proceed
<1>3. CASE \E c \in Conn, q \in Question, wait \in BOOLEAN : AskQuestion(c, q, wait)
  BY <1>3, AskQuestionPreserves
<1>4. CASE StopListening \/ CloseLive \/ CloseReturns
  BY <1>4, ClosePreserves
<1>5. CASE Crash \/ Restart
  BY <1>5, EndsOfProcessPreserve
<1>6. CASE UNCHANGED vars
  <2>1. UNCHANGED <<asks, decided, conn, stage, misread>>
    BY <1>6 DEF vars
  <2>2. Made' = Made /\ OneStands'
    BY <2>1, SameFile
  <2>3. TypeOK'
    BY <2>1, <2>2 DEF IInv, TypeOK
  <2>4. AllFit'
    BY <2>1, <2>2 DEF IInv, AllFit, Fits, Over
  <2>5. Channels' /\ ClosedServesNone'
    BY <2>1, <2>2 DEF IInv, Channels, Pending, Over, ClosedServesNone
  <2> QED
    BY <2>2, <2>3, <2>4, <2>5 DEF IInv
<1> QED
  BY <1>1, <1>2, <1>3, <1>4, <1>5, <1>6 DEF Next

(* The inductive invariant: channels, connections and file agree in every     *)
(* reachable state, across every crash and restart.                           *)
THEOREM Invariance == Spec => []IInv
BY InitHolds, StepHolds, PTL DEF Spec

(* A question has at most one record that stands, pending or with a kept       *)
(* answer, whoever asks, answers, withdraws and restarts (Book.Ask).          *)
THEOREM OneRecordStands == Spec => []AskedOnce
<1>1. IInv => AskedOnce
  BY DEF IInv, OneStands, Standing, AskedOnce
<1> QED
  BY <1>1, Invariance, PTL

(* An ask was told the answer the file has, or that the question it asked is   *)
(* withdrawn when it is or when a read of it failed, which is the only way to  *)
(* be misled (Service.ask, Book.Decided and Book.get).                        *)
THEOREM NobodyMisled == Spec => []ToldIsTrue
<1>1. IInv => ToldIsTrue
  BY DEF IInv, AllFit, Fits, ToldIsTrue
<1> QED
  BY <1>1, Invariance, PTL

(* Nothing is served once Close returned (Service.Close).                     *)
THEOREM NothingServedAfterClose == Spec => []ClosedServesNone
<1>1. IInv => ClosedServesNone
  BY DEF IInv
<1> QED
  BY <1>1, Invariance, PTL

=============================================================================
