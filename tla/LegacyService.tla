---------------------------- MODULE LegacyService ----------------------------
(***************************************************************************)
(* asksd, the standalone service (go/service.go) over the plain Book         *)
(* (go/book.go): a goroutine per connection whose ask may block on the       *)
(* person's answer, the administrator's answers and withdrawals, Close with  *)
(* its listener, its live connections and its WaitGroup, and the crash and   *)
(* restart of the process around a file that outlives it.                    *)
(*                                                                         *)
(* A question stands for asker, key and subject.  Each operation of the Book *)
(* holds Book.mu over one edit of the file and its settle, so it is a step.  *)
(* An administrator's connection is not modelled, its call is.  Decided and   *)
(* Get ignore the error of a read that fails (Book.get): they find no record. *)
(***************************************************************************)
EXTENDS Integers

CONSTANTS
    Conn,       \* connections that may exist at one time
    Question,   \* asker, key and subject
    Option,     \* what the person may answer
    Kept,       \* the options whose answer is kept
    MaxAsks,    \* bound: how many records a behaviour makes
    ReadFails   \* whether the file may fail to read in Decided and Get

ASSUME OptionAssumption ==
    Kept \subseteq Option /\ Option \cap {"pending", "withdrawn", "nothing", "forgotten"} = {}

ASSUME QuestionAssumption == Question # {}

ASSUME BoundAssumption == MaxAsks \in Nat

ASSUME ReadFailsAssumption == ReadFails \in BOOLEAN

VARIABLES
    asks,       \* the file: the records made, the latest last
    decided,    \* Book.decided
    conn,       \* the connections and where their goroutines are
    stage,      \* how far Service.Close has come, or "down"
    misread     \* history: records that a read of this process did not find

vars == <<asks, decided, conn, stage, misread>>

ID == 1 .. MaxAsks

Made == {i \in ID : i <= asks.count}

Serving == {"live", "asked", "waiting", "woken"}

NoConn == [at |-> "none", open |-> FALSE, on |-> 0, told |-> "nothing"]

TypeOK ==
    /\ asks \in [count  : 0 .. MaxAsks,
                 of     : [ID -> Question],
                 answer : [ID -> Option \cup {"pending", "forgotten"}]]
    /\ decided \in [ID -> {"none", "open", "closed"}]
    /\ conn \in [Conn -> [at   : Serving \cup {"none", "accepted", "ended"},
                          open : BOOLEAN,
                          on   : ID \cup {0},
                          told : Option \cup {"pending", "withdrawn", "nothing"}]]
    /\ stage \in {"serving", "unlistened", "closing", "returned", "down"}
    /\ misread \subseteq ID

Init ==
    /\ asks = [count |-> 0, of |-> [i \in ID |-> CHOOSE q \in Question : TRUE],
               answer |-> [i \in ID |-> "forgotten"]]
    /\ decided = [i \in ID |-> "none"]
    /\ conn = [c \in Conn |-> NoConn]
    /\ stage = "serving"
    /\ misread = {}

Up == stage \in {"serving", "unlistened", "closing"}

-----------------------------------------------------------------------------
(* The Book. *)

Retained == {i \in Made : asks.answer[i] # "forgotten"}

(* What Ask finds for a question: the record of a kept answer, or else the    *)
(* pending one; an answer that is not kept is history.  FoundKept would look  *)
(* for kept answers only.                                                     *)
FoundKept(q) == {i \in Retained : asks.of[i] = q /\ asks.answer[i] \in Kept}

Found(q) ==
    IF FoundKept(q) # {} THEN FoundKept(q)
    ELSE {i \in Retained : asks.of[i] = q /\ asks.answer[i] = "pending"}

(* A new pending record. *)
Asked(q) ==
    [count  |-> asks.count + 1,
     of     |-> [asks.of EXCEPT ![asks.count + 1] = q],
     answer |-> [asks.answer EXCEPT ![asks.count + 1] = "pending"]]

(* What Answer takes: a pending record. *)
Answerable(i) == i \in Retained /\ asks.answer[i] = "pending"

(* settle: the channel is closed and forgotten, its waiters wake.             *)
(* SettleUnheard would forget it and leave them.                              *)
SettleUnheard(i) == decided' = [decided EXCEPT ![i] = "none"] /\ UNCHANGED conn

Settle(i) ==
    /\ decided' = [decided EXCEPT ![i] = "none"]
    /\ conn' = [c \in Conn |-> IF conn[c].at = "waiting" /\ conn[c].on = i
                               THEN [conn[c] EXCEPT !.at = "woken"] ELSE conn[c]]

(* The process ends: its memory and its connections go, the file stays. *)
Die ==
    /\ decided' = [i \in ID |-> "none"]
    /\ conn' = [c \in Conn |-> NoConn]
    /\ stage' = "down"
    /\ misread' = {}

(* Nothing recovers the panic of settling a closed channel. *)
SettleOrDie(i) ==
    IF decided[i] = "closed"
    THEN Die
    ELSE Settle(i) /\ UNCHANGED <<stage, misread>>

Answer(i, o) ==
    /\ Up
    /\ Answerable(i)
    /\ asks' = [asks EXCEPT !.answer[i] = o]
    /\ SettleOrDie(i)

Forget(i) ==
    /\ Up
    /\ i \in Retained
    /\ asks' = [asks EXCEPT !.answer[i] = "forgotten"]
    /\ SettleOrDie(i)

-----------------------------------------------------------------------------
(* Connections. *)

Accept(c) ==
    /\ stage = "serving"
    /\ conn[c].at \in {"none", "ended"}
    /\ conn' = [conn EXCEPT ![c] = [NoConn EXCEPT !.at = "accepted", !.open = TRUE]]
    /\ UNCHANGED <<asks, decided, stage, misread>>

End(c) == [NoConn EXCEPT !.at = "ended"]

Told(c, i, told) == IF conn[c].open THEN [End(c) EXCEPT !.on = i, !.told = told] ELSE End(c)

(* The loop registers the connection, unless Close has been there first.      *)
(* ServedLate would not look.                                                 *)
ServedLate == stage # "down"

Registers == stage \in {"serving", "unlistened"}

Register(c) ==
    /\ stage # "down"
    /\ conn[c].at = "accepted"
    /\ conn' = [conn EXCEPT ![c] = IF Registers THEN [conn[c] EXCEPT !.at = "live"] ELSE End(c)]
    /\ UNCHANGED <<asks, decided, stage, misread>>

(* The caller leaves, or the timer of the first line closes the connection. *)
HangUp(c) ==
    /\ conn[c].open
    /\ conn' = [conn EXCEPT ![c].open = FALSE]
    /\ UNCHANGED <<asks, decided, stage, misread>>

FirstLineWait(c) == conn[c].at = "live" /\ HangUp(c)

(* The frame does not arrive, or it is refused. *)
Refuse(c) ==
    /\ conn[c].at = "live"
    /\ conn' = [conn EXCEPT ![c] = End(c)]
    /\ UNCHANGED <<asks, decided, stage, misread>>

(* ask up to Book.Ask: the record that stands is found, or one is made.  An   *)
(* answered one is the reply, and so is a pending one without wait.           *)
Replied(c, i, wait) ==
    IF asks'.answer[i] = "pending" /\ wait
    THEN [conn[c] EXCEPT !.at = "asked", !.on = i]
    ELSE Told(c, i, asks'.answer[i])

AskQuestion(c, q, wait) ==
    /\ conn[c].at = "live"
    /\ \/ /\ Found(q) # {}
          /\ UNCHANGED asks
          /\ \E i \in Found(q) : conn' = [conn EXCEPT ![c] = Replied(c, i, wait)]
       \/ /\ Found(q) = {}
          /\ asks.count < MaxAsks
          /\ asks' = Asked(q)
          /\ conn' = [conn EXCEPT ![c] = Replied(c, asks.count + 1, wait)]
    /\ UNCHANGED <<decided, stage, misread>>

(* Whether a read of the file succeeds. *)
Reads == {TRUE, ~ReadFails}

(* Book.Decided: the channel of the record, made on first use, closed at once *)
(* and kept if the record is over or was not read (~ok).  ClosedAtOnce would   *)
(* not look at the record.                                                    *)
ClosedAtOnce(i, ok) == IF decided[i] # "none" THEN decided[i] ELSE "closed"

Channel(i, ok) ==
    IF decided[i] # "none" THEN decided[i]
    ELSE IF ok /\ Answerable(i) THEN "open" ELSE "closed"

Subscribe(c) ==
    /\ conn[c].at = "asked"
    /\ \E ok \in Reads :
          LET i == conn[c].on IN
          /\ decided' = [decided EXCEPT ![i] = Channel(i, ok)]
          /\ conn' = [conn EXCEPT ![c].at = IF Channel(i, ok) = "open" THEN "waiting" ELSE "woken"]
          /\ misread' = misread \cup {j \in {i} : ~ok /\ decided[j] = "none" /\ Answerable(j)}
    /\ UNCHANGED <<asks, stage>>

(* Gone is ready in the select; the connection may have gone while the        *)
(* channel was closed too.  StillThere would wait on.                         *)
StillThere(c) == conn[c].at = "woken" /\ ~conn[c].open

HasGone(c) == conn[c].at \in {"waiting", "woken"} /\ ~conn[c].open

Gone(c) ==
    /\ HasGone(c)
    /\ conn' = [conn EXCEPT ![c] = End(c)]
    /\ UNCHANGED <<asks, decided, stage, misread>>

(* Book.Get after the channel: no record, or none that was read, is the zero   *)
(* record, which is pending.                                                  *)
Reading(a, ok) == IF ~ok \/ a \in {"pending", "forgotten"} THEN "withdrawn" ELSE a

Reply(c) ==
    /\ conn[c].at = "woken"
    /\ \E ok \in Reads :
          LET i == conn[c].on IN
          /\ conn' = [conn EXCEPT ![c] = Told(c, i, Reading(asks.answer[i], ok))]
          /\ misread' = misread \cup {j \in {i} : ~ok /\ asks.answer[j] # "forgotten"}
    /\ UNCHANGED <<asks, decided, stage>>

-----------------------------------------------------------------------------
(* Close and crash. *)

(* The listener first: Accept returns no more connections. *)
StopListening ==
    /\ stage = "serving"
    /\ stage' = "unlistened"
    /\ UNCHANGED <<asks, decided, conn, misread>>

(* Under Service.mu: closed, and every registered connection is closed. *)
CloseLive ==
    /\ stage = "unlistened"
    /\ stage' = "closing"
    /\ conn' = [c \in Conn |-> IF conn[c].at \in Serving THEN [conn[c] EXCEPT !.open = FALSE] ELSE conn[c]]
    /\ UNCHANGED <<asks, decided, misread>>

(* The WaitGroup is empty. *)
CloseReturns ==
    /\ stage = "closing"
    /\ \A c \in Conn : conn[c].at \notin Serving
    /\ stage' = "returned"
    /\ UNCHANGED <<asks, decided, conn, misread>>

Crash ==
    /\ stage # "down"
    /\ Die
    /\ UNCHANGED asks

(* Start, in a process that found the name free. *)
Restart ==
    /\ stage \in {"returned", "down"}
    /\ stage' = "serving"
    /\ decided' = [i \in ID |-> "none"]
    /\ conn' = [c \in Conn |-> NoConn]
    /\ misread' = {}
    /\ UNCHANGED asks

-----------------------------------------------------------------------------
(* What a connection's goroutine does once its request is in. *)
Proceed(c) == Subscribe(c) \/ Gone(c) \/ Reply(c)

Next ==
    \/ \E i \in ID : Forget(i) \/ \E o \in Option : Answer(i, o)
    \/ \E c \in Conn : Accept(c) \/ Register(c) \/ HangUp(c) \/ Refuse(c) \/ Proceed(c)
    \/ \E c \in Conn, q \in Question, wait \in BOOLEAN : AskQuestion(c, q, wait)
    \/ StopListening \/ CloseLive \/ CloseReturns
    \/ Crash \/ Restart

(* Goroutines run, the first line's timer fires, a closed connection's read   *)
(* fails, and Close goes on.  Nobody has to ask, answer, leave or start.      *)
Fairness ==
    /\ \A c \in Conn :
          /\ WF_vars(Register(c))
          /\ WF_vars(Proceed(c))
          /\ WF_vars(FirstLineWait(c))
          /\ WF_vars(~conn[c].open /\ Refuse(c))
    /\ WF_vars(CloseLive)
    /\ WF_vars(CloseReturns)

Spec == Init /\ [][Next]_vars /\ Fairness

-----------------------------------------------------------------------------
(* Properties. *)

(* README.md:318-324: a pending question is one record however often and by   *)
(* however many connections it is asked, and none is pending or kept beside a *)
(* kept answer (Book.Ask).                                                    *)
AskedOnce ==
    /\ TypeOK
    /\ \A q \in Question :
        \A i, j \in {k \in Retained : asks.of[k] = q /\ asks.answer[k] \in Kept \cup {"pending"}} : i = j

(* What an ask was told is what the file says for as long as it has the       *)
(* record, whoever answers, asks again or restarts in between (Book.Answer    *)
(* takes pending records only, and a wait ends on a durable answer).  One     *)
(* that is told its question was withdrawn asked one that the person did      *)
(* withdraw, unless a read of that record failed: it never mistakes an answer *)
(* it came late for, or a channel of another record, for that.                *)
ToldIsTrue ==
    \A c \in Conn :
        /\ conn[c].told \in Option => asks.answer[conn[c].on] \in {conn[c].told, "forgotten"}
        /\ conn[c].told = "withdrawn" =>
              asks.answer[conn[c].on] = "forgotten" \/ conn[c].on \in misread

(* No goroutine that Close did not wait for serves a request after it         *)
(* returned (Service.closed and Service.wg against the accept loop).          *)
ClosedServesNone ==
    stage = "returned" => \A c \in Conn : conn[c].at \notin Serving

(* A blocked ask whose question is answered or withdrawn ends, in whatever    *)
(* order the answer and its subscription came (Service.ask).                  *)
BlockedAskEnds ==
    \A c \in Conn :
        (/\ conn[c].at \in {"asked", "waiting", "woken"}
         /\ asks.answer[conn[c].on] # "pending") ~> (conn[c].at \in {"ended", "none"})

(* Close returns although asks are blocked on answers that never come: the    *)
(* connections it closes end their waits.                                     *)
CloseEnds == (stage = "closing") ~> (stage \in {"returned", "down"})

=============================================================================
