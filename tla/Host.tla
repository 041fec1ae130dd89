-------------------------------- MODULE Host --------------------------------
(***************************************************************************)
(* The life of the application Host (go/application/host.go): configuration, *)
(* Serve, the admission of connections to a fixed number of call slots, the   *)
(* calls themselves and Close.                                               *)
(*                                                                         *)
(* A call is reduced to what holds a slot and for how long: a long poll on a  *)
(* pending occurrence, a decision that settles one, an Ask that makes one     *)
(* pending, or a call that returns at once.  Waiters has the detail of a      *)
(* long poll, ChoiceBook and its siblings that of the edits.  The framed      *)
(* listener and its sessions are outside the repository: a dialled            *)
(* connection waits until Accept takes it or the listener is closed, and      *)
(* WaitContext is done once the host closed or the peer went away.            *)
(***************************************************************************)
EXTENDS Integers, FiniteSets

CONSTANTS
    Call,       \* connections, each reused once its goroutine is gone
    Server,     \* attempts to call Serve
    Occ,        \* occurrences a long poll can wait for
    Feature,    \* the Enable* settings: operator, responder, permission, ...
    Slots       \* capacity of the slots channel; 32 in Listen

ASSUME SlotsAssumption == Slots \in Nat \ {0}

VARIABLES
    serving,    \* Host.serving
    cancelled,  \* Host.ctx is done
    listening,  \* the listener is open
    conf,       \* the settings made so far
    serve,      \* where each Serve call is
    held,       \* the connection Accept returned to it
    slots,      \* Host.slots: the calls that hold one
    workers,    \* Host.workers: the calls counted by the WaitGroup
    pc,         \* where each connection is
    waits,      \* the occurrence it polls
    pending,    \* the occurrences that are undecided in the Book
    stopped     \* OnStopped was called

vars == <<serving, cancelled, listening, conf, serve, held, slots, workers, pc, waits, pending, stopped>>

host == <<serving, cancelled, listening, conf, stopped>>
loop == <<serve, held>>

(* The state has its type; no more calls run than there are slots, and a       *)
(* goroutine that left its slot is all that may run beyond them.              *)
TypeOK ==
    /\ serving \in BOOLEAN /\ cancelled \in BOOLEAN /\ listening \in BOOLEAN /\ stopped \in BOOLEAN
    /\ conf \subseteq Feature
    /\ serve \in [Server -> {"idle", "refused", "accepting", "holding", "stopping", "draining", "returned"}]
    /\ held \in [Server -> Call]
    /\ slots \subseteq workers /\ workers \subseteq Call
    /\ Cardinality(slots) <= Slots
    /\ \A c \in workers \ slots : pc[c] = "leaving"
    /\ pc \in [Call -> {"away", "dialled", "receiving", "working", "waiting", "woken", "replied", "leaving"}]
    /\ waits \in [Call -> Occ]
    /\ pending \subseteq Occ

(* Listen *)
Init ==
    /\ serving = FALSE /\ cancelled = FALSE /\ listening = TRUE /\ stopped = FALSE
    /\ conf = {}
    /\ serve = [s \in Server |-> "idle"]
    /\ held \in [Server -> Call]
    /\ slots = {} /\ workers = {}
    /\ pc = [c \in Call |-> "away"]
    /\ waits \in [Call -> Occ]
    /\ pending = {}

-----------------------------------------------------------------------------
(* Configuration and Close. *)

(* EnableOperator and its siblings refuse once Serve began or the host        *)
(* closed.                                                                    *)
MayEnable == ~serving /\ ~cancelled

Enable(f) ==
    /\ MayEnable
    /\ conf' = conf \cup {f}
    /\ UNCHANGED <<serving, cancelled, listening, stopped, loop, slots, workers, pc, waits, pending>>

(* Close, by once: the context, then the listener; what was dialled is lost.  *)
CloseOnce ==
    /\ cancelled' = TRUE
    /\ listening' = FALSE
    /\ pc' = [c \in Call |-> IF pc[c] = "dialled" THEN "away" ELSE pc[c]]

(* Close by the owner, or by AfterFunc when the context of Serve is done.     *)
Close ==
    /\ ~cancelled
    /\ CloseOnce
    /\ UNCHANGED <<serving, conf, stopped, loop, slots, workers, waits, pending>>

-----------------------------------------------------------------------------
(* Serve. *)

(* Under lifecycle.  AnySecond would let a second Serve in.                   *)
AnySecond == FALSE

Second == serving

Serve(s) ==
    /\ serve[s] = "idle"
    /\ serving' = TRUE
    /\ serve' = [serve EXCEPT ![s] = IF Second THEN "refused" ELSE "accepting"]
    /\ UNCHANGED <<cancelled, listening, conf, stopped, held, slots, workers, pc, waits, pending>>

Accept(s, c) ==
    /\ serve[s] = "accepting"
    /\ listening
    /\ pc[c] = "dialled"
    /\ serve' = [serve EXCEPT ![s] = "holding"]
    /\ held' = [held EXCEPT ![s] = c]
    /\ pc' = [pc EXCEPT ![c] = "receiving"]
    /\ UNCHANGED <<host, slots, workers, waits, pending>>

(* The send to the slots channel, which has Slots places. *)
FreeSlotAtMost == Cardinality(slots) <= Slots

FreeSlot == Cardinality(slots) < Slots

(* workers.Add, before the goroutine. *)
Counted(c) == workers \cup {c}

(* A slot if one is free, else the connection is closed unread.               *)
Admit(s) ==
    /\ serve[s] = "holding"
    /\ serve' = [serve EXCEPT ![s] = "accepting"]
    /\ \/ /\ FreeSlot
          /\ slots' = slots \cup {held[s]}
          /\ workers' = Counted(held[s])
          /\ UNCHANGED pc
       \/ /\ ~FreeSlot
          /\ pc' = [pc EXCEPT ![held[s]] = "away"]
          /\ UNCHANGED <<slots, workers>>
    /\ UNCHANGED <<host, held, waits, pending>>

(* Accept fails: the listener was closed, or broke; the deferred Close runs.  *)
AcceptFails(s) ==
    /\ serve[s] = "accepting"
    /\ serve' = [serve EXCEPT ![s] = "stopping"]
    /\ IF cancelled THEN UNCHANGED <<cancelled, listening, pc>> ELSE CloseOnce
    /\ UNCHANGED <<serving, conf, stopped, held, slots, workers, waits, pending>>

Stopped(s) ==
    /\ serve[s] = "stopping"
    /\ stopped' = TRUE
    /\ serve' = [serve EXCEPT ![s] = "draining"]
    /\ UNCHANGED <<serving, cancelled, listening, conf, held, slots, workers, pc, waits, pending>>

(* workers.Wait; NoWait would return at once. *)
NoWait == TRUE

Drained == workers = {}

Return(s) ==
    /\ serve[s] = "draining"
    /\ Drained
    /\ serve' = [serve EXCEPT ![s] = "returned"]
    /\ UNCHANGED <<host, held, slots, workers, pc, waits, pending>>

-----------------------------------------------------------------------------
(* One call. *)

Goes(c, at) == pc' = [pc EXCEPT ![c] = at]

Dial(c) ==
    /\ pc[c] = "away"
    /\ listening
    /\ Goes(c, "dialled")
    /\ UNCHANGED <<host, loop, slots, workers, waits, pending>>

(* ReceiveFramed under 35 s of Host.ctx: a frame, or none in time.            *)
Receive(c) ==
    /\ c \in slots
    /\ pc[c] = "receiving"
    /\ \E at \in {"working", "replied"} : Goes(c, at)
    /\ UNCHANGED <<host, loop, slots, workers, waits, pending>>

(* Observe with a wait, of an occurrence that reads as pending. *)
Poll(c, o) ==
    /\ pc[c] = "working"
    /\ o \in pending
    /\ Goes(c, "waiting")
    /\ waits' = [waits EXCEPT ![c] = o]
    /\ UNCHANGED <<host, loop, slots, workers, pending>>

(* A decision, retirement or withdrawal: durable, then settled.               *)
Decide(c, o) ==
    /\ pc[c] = "working"
    /\ o \in pending
    /\ pending' = pending \ {o}
    /\ pc' = [d \in Call |-> IF d = c THEN "replied"
                             ELSE IF pc[d] = "waiting" /\ waits[d] = o THEN "woken" ELSE pc[d]]
    /\ UNCHANGED <<host, loop, slots, workers, waits>>

Ask(c, o) ==
    /\ pc[c] = "working"
    /\ pending' = pending \cup {o}
    /\ Goes(c, "replied")
    /\ UNCHANGED <<host, loop, slots, workers, waits>>

(* Every other call, a poll that reads a decided outcome, a refusal. *)
AtOnce(c) ==
    /\ pc[c] = "working"
    /\ Goes(c, "replied")
    /\ UNCHANGED <<host, loop, slots, workers, waits, pending>>

(* The wait ends by its timer, at most 30 s after it began. *)
NeverRings == FALSE

Rings == TRUE

Timer(c) ==
    /\ pc[c] = "waiting"
    /\ Rings
    /\ Goes(c, "woken")
    /\ UNCHANGED <<host, loop, slots, workers, waits, pending>>

(* or because WaitContext is done: no second read.  PeerOnly would not watch  *)
(* the host's own context.                                                    *)
PeerOnly == FALSE

HostGone == cancelled

WaitCancelled(c) ==
    /\ pc[c] = "waiting"
    /\ HostGone
    /\ Goes(c, "replied")
    /\ UNCHANGED <<host, loop, slots, workers, waits, pending>>

PeerGone(c) ==
    /\ pc[c] = "waiting"
    /\ Goes(c, "replied")
    /\ UNCHANGED <<host, loop, slots, workers, waits, pending>>

(* The second read after a wake. *)
ReadAgain(c) ==
    /\ pc[c] = "woken"
    /\ Goes(c, "replied")
    /\ UNCHANGED <<host, loop, slots, workers, waits, pending>>

(* The deferred calls, last first: the connection, the slot, the WaitGroup.   *)
ReleaseSlot(c) ==
    /\ pc[c] = "replied"
    /\ slots' = slots \ {c}
    /\ Goes(c, "leaving")
    /\ UNCHANGED <<host, loop, workers, waits, pending>>

Leave(c) ==
    /\ pc[c] = "leaving"
    /\ workers' = workers \ {c}
    /\ Goes(c, "away")
    /\ UNCHANGED <<host, loop, slots, waits, pending>>

Step(c) == Receive(c) \/ AtOnce(c) \/ WaitCancelled(c) \/ ReadAgain(c) \/ ReleaseSlot(c) \/ Leave(c)

Next ==
    \/ \E f \in Feature : Enable(f)
    \/ Close
    \/ \E s \in Server : Serve(s) \/ Admit(s) \/ AcceptFails(s) \/ Stopped(s) \/ Return(s)
    \/ \E s \in Server, c \in Call : Accept(s, c)
    \/ \E c \in Call : Dial(c) \/ Step(c) \/ Timer(c) \/ PeerGone(c)
    \/ \E c \in Call, o \in Occ : Poll(c, o) \/ Decide(c, o) \/ Ask(c, o)

(* Goroutines run.  Nothing is assumed of callers, of Close, of Accept on an  *)
(* open listener, or of timers.                                               *)
Fairness ==
    /\ \A s \in Server : /\ WF_vars(Admit(s)) /\ WF_vars(Stopped(s)) /\ WF_vars(Return(s))
                         /\ WF_vars(~listening /\ AcceptFails(s))
    /\ \A c \in Call : WF_vars(Step(c))

Spec == Init /\ [][Next]_vars /\ Fairness

-----------------------------------------------------------------------------
(* Properties. *)

(* When Serve returns, no call is running and none will be: the Book is the   *)
(* caller's again.                                                            *)
ReturnedIsDrained ==
    \A s \in Server : serve[s] = "returned" => slots = {} /\ \A c \in Call : pc[c] = "away"

(* OnStopped is called when admission stopped: from there on no connection    *)
(* becomes a call, whichever Serve took it.                                   *)
NoneAfterStopped == [][stopped => workers' \subseteq workers]_vars

(* After Close, Serve returns, whatever long polls are running and without    *)
(* their timers.                                                              *)
ServeEnds == \A s \in Server : cancelled /\ serve[s] \notin {"idle", "refused"} ~> serve[s] = "returned"

(* Long polls cannot occupy every slot for good, though the decisions that    *)
(* would wake them are refused meanwhile: their timers free the slots.        *)
TimersRun == \A c \in Call : WF_vars(Timer(c))

FullDrains == TimersRun => []<>(Cardinality(slots) < Slots)

=============================================================================
