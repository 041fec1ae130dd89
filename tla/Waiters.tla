------------------------------ MODULE Waiters ------------------------------
(***************************************************************************)
(* The in-memory side of the Book: the `decided` map from an occurrence ID  *)
(* to the channel its waiters share (Book.Decided, Book.settle in           *)
(* go/book.go), the edits that settle it and the long polls of              *)
(* application.receiver.Observe (go/application/receiver.go), which         *)
(* choices, notifications and typed permissions repeat.                     *)
(*                                                                         *)
(* An occurrence is a question, a choice or a notification; its durable      *)
(* state is reduced to what Decided and a read tell apart.  The clock passes *)
(* the end of an occurrence and may be set back before it: until an edit has *)
(* written it, a lapse is undone by that, although it may have closed a      *)
(* channel.  The readings of the clock within one edit agree here            *)
(* (ChoiceBook has those that do not).  An edit holds Book.mu through its    *)
(* settle calls, so it is one step; a long poll takes Book.mu to read, again *)
(* to subscribe, and again to read: three steps.                             *)
(***************************************************************************)
EXTENDS Integers

CONSTANTS
    Id,         \* occurrence IDs
    Question,   \* those of questions, which end by the raw clock (expire)
    Waiter,     \* Observe calls that may run at one time
    ReadFails   \* whether the file may fail to read inside Decided

ASSUME WaitersAssumption == Question \subseteq Id /\ ReadFails \in BOOLEAN

VARIABLES
    durable,    \* what the file says of an occurrence
    decided,    \* Book.decided: no channel, an open one, or a closed one
    pc,         \* where each Observe call is
    occ,        \* the occurrence it waits for
    panicked,   \* history: an edit closed a closed channel since the start
    doubted     \* history: occurrences a channel was closed for in vain, because
                \* a read failed or because the clock undid the lapse it told

vars == <<durable, decided, pc, occ, panicked, doubted>>

TypeOK ==
    /\ durable \in [Id -> {"absent", "pending", "due", "decided", "removed"}]
    /\ decided \in [Id -> {"none", "open", "closed"}]
    /\ pc \in [Waiter -> {"idle", "read", "waiting", "woken", "timedout"}]
    /\ occ \in [Waiter -> Id]
    /\ panicked \in BOOLEAN
    /\ doubted \subseteq Id

Init ==
    /\ durable = [i \in Id |-> "absent"]
    /\ decided = [i \in Id |-> "none"]
    /\ pc = [w \in Waiter |-> "idle"]
    /\ occ \in [Waiter -> Id]
    /\ panicked = FALSE
    /\ doubted = {}

-----------------------------------------------------------------------------
(* Edits. *)

(* Pending in the file, past its lifetime or deadline by the clock: every     *)
(* edit collects it and the first that is written removes it.                 *)
Due == {i \in Id : durable[i] = "due"}

(* settle, for each member of S: close the channel, forget it, wake the       *)
(* waiters; SettleKeeping would leave the channel in the map.                 *)
SettleKeeping(S) ==
    /\ decided' = decided
    /\ pc' = [w \in Waiter |-> IF pc[w] = "waiting" /\ occ[w] \in S THEN "woken" ELSE pc[w]]

SettleAll(S) ==
    /\ decided' = [i \in Id |-> IF i \in S THEN "none" ELSE decided[i]]
    /\ pc' = [w \in Waiter |-> IF pc[w] = "waiting" /\ occ[w] \in S THEN "woken" ELSE pc[w]]

Closed == {i \in Id : decided[i] = "closed"}

(* changeApplication settles what it collected, then the handler settles L.   *)
(* A channel that is closed already panics: what was to be settled after it   *)
(* is not, and the dispatcher answers handler_error.                          *)
SettleAfterEdit(L) ==
    \/ /\ (Due \cup L) \cap Closed = {}
       /\ SettleAll(Due \cup L)
       /\ UNCHANGED panicked
    \/ /\ Due \cap Closed # {}
       /\ \E S \in SUBSET (Due \ Closed) : SettleAll(S)
       /\ panicked' = TRUE
    \/ /\ Due \cap Closed = {}
       /\ L \cap Closed # {}
       /\ SettleAll(Due)
       /\ panicked' = TRUE

(* The durable side of an edit that is written: due occurrences are over.     *)
Persisted == [i \in Id |-> IF i \in Due THEN "removed" ELSE durable[i]]

(* askApplicationFrom, askTypedPermission, askChoice, PostNotificationFrom *)
Admit(i) ==
    /\ durable[i] = "absent"
    /\ durable' = [Persisted EXCEPT ![i] = "pending"]
    /\ SettleAfterEdit({})
    /\ UNCHANGED <<occ, doubted>>

(* answerApplication and the decisions of the other partitions, recorded.     *)
(* SettledFirst would wake the waiters whether or not the edit is written.    *)
SettledFirst(i) ==
    /\ durable[i] = "pending"
    /\ durable' \in {durable, [Persisted EXCEPT ![i] = "decided"]}
    /\ SettleAfterEdit({i})
    /\ UNCHANGED <<occ, doubted>>

Answer(i) ==
    /\ durable[i] = "pending"
    /\ durable' = [Persisted EXCEPT ![i] = "decided"]
    /\ SettleAfterEdit({i})
    /\ UNCHANGED <<occ, doubted>>

(* The same decision repeated: nothing is written, and the ID is settled      *)
(* again.                                                                     *)
AnswerAgain(i) ==
    /\ durable[i] = "decided"
    /\ SettleAfterEdit({i})
    /\ UNCHANGED <<durable, occ, doubted>>

(* RetireApplicationAuthorized, WithdrawRuntimeBound, WithdrawSettledPermission *)
Retire(i) ==
    /\ durable[i] \in {"pending", "decided"}
    /\ durable' = [Persisted EXCEPT ![i] = "removed"]
    /\ SettleAfterEdit({i})
    /\ UNCHANGED <<occ, doubted>>

(* ReleaseAnsweredApplicationID, AcknowledgeChoice: no settle. *)
Release(i) ==
    /\ durable[i] = "decided"
    /\ durable' = [Persisted EXCEPT ![i] = "removed"]
    /\ SettleAfterEdit({})
    /\ UNCHANGED <<occ, doubted>>

(* Any other edit: refused ones write nothing and settle all the same.        *)
OtherEdit ==
    /\ durable' \in {durable, Persisted}
    /\ SettleAfterEdit({})
    /\ UNCHANGED <<occ, doubted>>

(* The clock reaches the end of a pending occurrence. *)
Elapse(i) ==
    /\ durable[i] = "pending"
    /\ durable' = [durable EXCEPT ![i] = "due"]
    /\ UNCHANGED <<decided, pc, occ, panicked, doubted>>

(* Closed already for i, or about to be read by a call that it woke. *)
ToldOver(i) == decided[i] = "closed" \/ \E w \in Waiter : pc[w] = "woken" /\ occ[w] = i

(* The clock is set back before the ends of S, which no edit has written.     *)
SetBack(S) ==
    /\ S # {}
    /\ durable' = [i \in Id |-> IF i \in S THEN "pending" ELSE durable[i]]
    /\ doubted' = doubted \cup {i \in S : ToldOver(i)}
    /\ UNCHANGED <<decided, pc, occ, panicked>>

-----------------------------------------------------------------------------
(* Long polls. *)

(* The first read finds the occurrence pending. *)
Observe(w, i) ==
    /\ pc[w] = "idle"
    /\ durable[i] = "pending"
    /\ pc' = [pc EXCEPT ![w] = "read"]
    /\ occ' = [occ EXCEPT ![w] = i]
    /\ UNCHANGED <<durable, decided, panicked, doubted>>

(* What a read says of an occurrence: expire leaves a question out at its end  *)
(* by the clock; choicePending and notificationPending look at the floor in    *)
(* the file, which a lapse that is not written has not reached.               *)
ReadsPending(i) == durable[i] = "pending" \/ (durable[i] = "due" /\ i \notin Question)

(* decidedLocked: the channel of the occurrence, made on first use, closed at *)
(* once if the occurrence does not read as pending, and kept in the map.  A   *)
(* read that fails (~ok) finds nothing.                                       *)
Channel(i, ok) ==
    IF decided[i] # "none" THEN decided[i]
    ELSE IF ok /\ ReadsPending(i) THEN "open" ELSE "closed"

Subscribe(w) ==
    /\ pc[w] = "read"
    /\ \E ok \in {TRUE, ~ReadFails} :
          LET i == occ[w]
              c == Channel(i, ok) IN
          /\ decided' = [decided EXCEPT ![i] = c]
          /\ pc' = [pc EXCEPT ![w] = IF c = "open" THEN "waiting" ELSE "woken"]
          /\ doubted' = doubted \cup {j \in {i} : ~ok /\ decided[j] = "none" /\ durable[j] = "pending"}
    /\ UNCHANGED <<durable, occ, panicked>>

TimeOut(w) ==
    /\ pc[w] = "waiting"
    /\ pc' = [pc EXCEPT ![w] = "timedout"]
    /\ UNCHANGED <<durable, decided, occ, panicked, doubted>>

(* The second read, and the reply. *)
Reply(w) ==
    /\ pc[w] \in {"woken", "timedout"}
    /\ pc' = [pc EXCEPT ![w] = "idle"]
    /\ UNCHANGED <<durable, decided, occ, panicked, doubted>>

(* The caller goes away: the wait ends, the channel stays. *)
Disconnect(w) ==
    /\ pc[w] \in {"read", "waiting"}
    /\ pc' = [pc EXCEPT ![w] = "idle"]
    /\ UNCHANGED <<durable, decided, occ, panicked, doubted>>

Restart ==
    /\ decided' = [i \in Id |-> "none"]
    /\ pc' = [w \in Waiter |-> "idle"]
    /\ panicked' = FALSE
    /\ doubted' = {}
    /\ UNCHANGED <<durable, occ>>

Next ==
    \/ \E i \in Id : Admit(i) \/ Answer(i) \/ AnswerAgain(i) \/ Retire(i) \/ Release(i) \/ Elapse(i)
    \/ OtherEdit
    \/ \E S \in SUBSET Due : SetBack(S)
    \/ \E w \in Waiter, i \in Id : Observe(w, i)
    \/ \E w \in Waiter : Subscribe(w) \/ TimeOut(w) \/ Reply(w) \/ Disconnect(w)
    \/ Restart

Spec == Init /\ [][Next]_vars

-----------------------------------------------------------------------------
(* Properties. *)

(* A long poll that its channel woke reads an outcome, never `pending`: the   *)
(* channel is closed only for what the file or the clock says is over         *)
(* (ASK-W1), unless Decided could not read, or the clock was set back since   *)
(* and no edit had written the lapse it told (Decided, changeApplication).    *)
WokenIsSettled ==
    \A w \in Waiter : pc[w] = "woken" => durable[occ[w]] # "pending" \/ occ[w] \in doubted

(* No decision, retirement or expiry is lost between the read that found the  *)
(* occurrence pending and the wait: a call still waiting waits for an         *)
(* occurrence that is undecided, and so does every open channel, unless an    *)
(* edit panicked before it settled the channel.  A channel that is kept       *)
(* closed belongs to an occurrence that is over, with the two exceptions of   *)
(* WokenIsSettled.                                                            *)
OpenIsUndecided ==
    /\ TypeOK
    /\ \A w \in Waiter : pc[w] = "waiting" => decided[occ[w]] = "open" \/ panicked
    /\ \A i \in Id : decided[i] = "open" => durable[i] \in {"pending", "due"} \/ panicked
    /\ \A i \in Id : decided[i] = "closed" => durable[i] \notin {"absent", "pending"} \/ i \in doubted

(* Every edit releases the waiters of what it collected or decided            *)
(* (changeApplication): nobody waits for an occurrence that is over.          *)
WaitersReleased ==
    \A w \in Waiter : pc[w] = "waiting" => durable[occ[w]] \in {"pending", "due"}

=============================================================================
