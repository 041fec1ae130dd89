------------------------------ MODULE HostProofs ------------------------------
(* Theorems about Host, for every number of slots, callers and Serve calls.  *)
EXTENDS Host, FiniteSetTheorems, TLAPS

Running == {"working", "waiting", "woken", "replied"}

(* Close is one step to what follows it: the context and the listener.        *)
ClosedListener ==
    /\ listening <=> ~cancelled
    /\ \A c \in Call : pc[c] = "dialled" => listening
    /\ \A s \in Server : serve[s] \in {"stopping", "draining", "returned"} => cancelled

(* One Serve at most has a loop.                                              *)
Looping(s) == serve[s] \notin {"idle", "refused"}

OneLoop ==
    /\ \A s \in Server : serve[s] # "idle" => serving
    /\ \A s, t \in Server : Looping(s) /\ Looping(t) => s = t

(* Where a connection is tells whether it is counted and has a slot.          *)
Counts ==
    /\ IsFiniteSet(slots)
    /\ \A s \in Server : serve[s] = "holding" =>
          pc[held[s]] = "receiving" /\ held[s] \notin workers
    /\ \A c \in Call :
          /\ pc[c] \in {"away", "dialled"} => c \notin workers
          /\ pc[c] = "receiving" =>
                c \in slots \/ \E s \in Server : serve[s] = "holding" /\ held[s] = c
          /\ pc[c] \in Running => c \in slots
          /\ pc[c] = "leaving" => c \in workers \ slots

(* From OnStopped on no loop admits, and one that returned had none to wait for. *)
Ended ==
    /\ stopped => serving /\ \A s \in Server : Looping(s) => serve[s] \in {"draining", "returned"}
    /\ \A s \in Server : serve[s] = "returned" => workers = {}

IInv == TypeOK /\ ClosedListener /\ OneLoop /\ Counts /\ Ended

-----------------------------------------------------------------------------
(* A call that goes on keeps its slot; a caller may dial while it may be heard. *)
Onward(c) ==
    \/ pc'[c] = pc[c]
    \/ c \in slots /\ pc[c] \in Running \cup {"receiving"} /\ pc'[c] \in Running
    \/ pc[c] = "away" /\ pc'[c] = "dialled" /\ listening

Place == {"away", "dialled", "receiving", "working", "waiting", "woken", "replied", "leaving"}

CallStep ==
    /\ UNCHANGED <<host, loop, slots, workers>>
    /\ pc' \in [Call -> Place]
    /\ \A c \in Call : Onward(c)
    /\ waits' \in [Call -> Occ] /\ pending' \subseteq Occ

(* Every step of a call but its last two is of that shape. *)
LEMMA StepOfCall ==
    ASSUME IInv, NEW c \in Call, NEW o \in Occ,
           Dial(c) \/ Receive(c) \/ Poll(c, o) \/ Decide(c, o) \/ Ask(c, o) \/ AtOnce(c)
           \/ Timer(c) \/ WaitCancelled(c) \/ PeerGone(c) \/ ReadAgain(c)
    PROVE  CallStep
<1> USE DEF IInv, TypeOK, Counts, CallStep, Onward, Place, Running, Goes
<1>1. CASE Dial(c)
  BY <1>1 DEF Dial
<1>2. CASE Receive(c)
  BY <1>2 DEF Receive
<1>3. CASE Poll(c, o)
  BY <1>3 DEF Poll
<1>4. CASE Decide(c, o)
  BY <1>4 DEF Decide
<1>5. CASE Ask(c, o)
  BY <1>5 DEF Ask
<1>6. CASE AtOnce(c)
  BY <1>6 DEF AtOnce
<1>7. CASE Timer(c)
  BY <1>7 DEF Timer
<1>8. CASE WaitCancelled(c)
  BY <1>8 DEF WaitCancelled
<1>9. CASE PeerGone(c)
  BY <1>9 DEF PeerGone
<1>10. CASE ReadAgain(c)
  BY <1>10 DEF ReadAgain
<1> QED
  BY <1>1, <1>2, <1>3, <1>4, <1>5, <1>6, <1>7, <1>8, <1>9, <1>10

LEMMA CallStepPreserves == IInv /\ CallStep => IInv'
<1> SUFFICES ASSUME IInv, CallStep PROVE IInv'
  OBVIOUS
<1> USE DEF CallStep, Onward, Place, Running, host, loop
<1>1. TypeOK'
  BY DEF IInv, TypeOK, Counts
<1>2. ClosedListener'
  BY DEF IInv, TypeOK, ClosedListener
<1>3. OneLoop'
  BY DEF IInv, OneLoop, Looping
<1>4. Counts'
  BY DEF IInv, TypeOK, Counts
<1>5. Ended'
  BY DEF IInv, Ended, Looping
<1> QED
  BY <1>1, <1>2, <1>3, <1>4, <1>5 DEF IInv

LEMMA EnablePreserves ==
    ASSUME IInv, NEW f \in Feature, Enable(f)
    PROVE  IInv'
<1>1. TypeOK'
  BY DEF IInv, TypeOK, Counts, Enable, MayEnable, host, loop
<1>2. ClosedListener'
  BY DEF IInv, TypeOK, ClosedListener, Enable, MayEnable, host, loop
<1>3. OneLoop'
  BY DEF IInv, TypeOK, OneLoop, Looping, Enable, MayEnable, host, loop
<1>4. Counts'
  BY DEF IInv, TypeOK, OneLoop, Looping, Counts, Running, Enable, MayEnable, host, loop
<1>5. Ended'
  BY DEF IInv, TypeOK, OneLoop, Ended, Looping, Enable, MayEnable, host, loop
<1> QED
  BY <1>1, <1>2, <1>3, <1>4, <1>5 DEF IInv

LEMMA ClosePreserves ==
    ASSUME IInv, Close
    PROVE  IInv'
<1>1. TypeOK'
  BY DEF IInv, TypeOK, Counts, Close, CloseOnce, host, loop
<1>2. ClosedListener'
  BY DEF IInv, TypeOK, ClosedListener, Close, CloseOnce, host, loop
<1>3. OneLoop'
  BY DEF IInv, TypeOK, OneLoop, Looping, Close, CloseOnce, host, loop
<1>4. Counts'
  BY DEF IInv, TypeOK, OneLoop, Looping, Counts, Running, Close, CloseOnce, host, loop
<1>5. Ended'
  BY DEF IInv, TypeOK, OneLoop, Ended, Looping, Close, CloseOnce, host, loop
<1> QED
  BY <1>1, <1>2, <1>3, <1>4, <1>5 DEF IInv

LEMMA ServePreserves ==
    ASSUME IInv, NEW s \in Server, Serve(s)
    PROVE  IInv'
<1>1. TypeOK'
  BY DEF IInv, TypeOK, Counts, Serve, Second, host, loop
<1>2. ClosedListener'
  BY DEF IInv, TypeOK, ClosedListener, Serve, Second, host, loop
<1>3. OneLoop'
  BY DEF IInv, TypeOK, OneLoop, Looping, Serve, Second, host, loop
<1>4. Counts'
  BY DEF IInv, TypeOK, OneLoop, Looping, Counts, Running, Serve, Second, host, loop
<1>5. Ended'
  BY DEF IInv, TypeOK, OneLoop, Ended, Looping, Serve, Second, host, loop
<1> QED
  BY <1>1, <1>2, <1>3, <1>4, <1>5 DEF IInv

LEMMA AcceptPreserves ==
    ASSUME IInv, NEW s \in Server, NEW c \in Call, Accept(s, c)
    PROVE  IInv'
<1>1. TypeOK'
  BY DEF IInv, TypeOK, Counts, Accept, host, loop
<1>2. ClosedListener'
  BY DEF IInv, TypeOK, ClosedListener, Accept, host, loop
<1>3. OneLoop'
  BY DEF IInv, TypeOK, OneLoop, Looping, Accept, host, loop
<1>4. Counts'
  BY DEF IInv, TypeOK, OneLoop, Looping, Counts, Running, Accept, host, loop
<1>5. Ended'
  BY DEF IInv, TypeOK, OneLoop, Ended, Looping, Accept, host, loop
<1> QED
  BY <1>1, <1>2, <1>3, <1>4, <1>5 DEF IInv

LEMMA AdmitPreserves ==
    ASSUME IInv, NEW s \in Server, Admit(s)
    PROVE  IInv'
<1>1. TypeOK' /\ IsFiniteSet(slots')
  <2>1. IsFiniteSet(slots) /\ held[s] \in Call /\ held[s] \notin slots
    BY DEF IInv, TypeOK, Counts, Admit
  <2>2. /\ IsFiniteSet(slots \cup {held[s]})
        /\ Cardinality(slots \cup {held[s]}) = Cardinality(slots) + 1
        /\ Cardinality(slots) \in Nat
    BY <2>1, FS_AddElement, FS_CardinalityType
  <2>3. CASE FreeSlot /\ slots' = slots \cup {held[s]} /\ workers' = Counted(held[s]) /\ UNCHANGED pc
    <3>1. Cardinality(slots') <= Slots
      BY <2>2, <2>3, SlotsAssumption DEF FreeSlot
    <3>2. QED
      BY <2>1, <2>2, <2>3, <3>1 DEF IInv, TypeOK, Counted, Admit, host
  <2>4. CASE pc' = [pc EXCEPT ![held[s]] = "away"] /\ UNCHANGED <<slots, workers>>
    BY <2>1, <2>4 DEF IInv, TypeOK, Counts, Admit, host
  <2> QED
    BY <2>3, <2>4 DEF Admit
<1>2. ClosedListener'
  BY DEF IInv, TypeOK, ClosedListener, Admit, FreeSlot, Counted, host, loop
<1>3. OneLoop'
  BY DEF IInv, TypeOK, OneLoop, Looping, Admit, FreeSlot, Counted, host, loop
<1>4. Counts'
  <2>1. \A t \in Server : serve'[t] # "holding"
    BY DEF IInv, TypeOK, OneLoop, Looping, Admit
  <2>2. \A c \in Call, t \in Server :
           serve[t] = "holding" /\ held[t] = c => c = held[s]
    BY DEF IInv, OneLoop, Looping, Admit
  <2>3. CASE FreeSlot /\ slots' = slots \cup {held[s]} /\ workers' = Counted(held[s]) /\ UNCHANGED pc
    BY <1>1, <2>1, <2>2, <2>3 DEF IInv, TypeOK, Counts, Running, Counted, Admit
  <2>4. CASE pc' = [pc EXCEPT ![held[s]] = "away"] /\ UNCHANGED <<slots, workers>>
    BY <1>1, <2>1, <2>2, <2>4 DEF IInv, TypeOK, Counts, Running, Admit
  <2> QED
    BY <2>3, <2>4 DEF Admit
<1>5. Ended'
  BY DEF IInv, TypeOK, OneLoop, Ended, Looping, Admit, FreeSlot, Counted, host, loop
<1> QED
  BY <1>1, <1>2, <1>3, <1>4, <1>5 DEF IInv

LEMMA AcceptFailsPreserves ==
    ASSUME IInv, NEW s \in Server, AcceptFails(s)
    PROVE  IInv'
<1>1. TypeOK'
  <2>1. CASE cancelled
    BY <2>1 DEF IInv, TypeOK, AcceptFails
  <2>2. CASE ~cancelled /\ CloseOnce
    <3>1. pc' \in [Call -> Place]
      BY <2>2 DEF IInv, TypeOK, CloseOnce, Place
    <3> QED
      BY <2>2, <3>1 DEF IInv, TypeOK, AcceptFails, CloseOnce, Place
  <2> QED
    BY <2>1, <2>2 DEF AcceptFails
<1>2. ClosedListener'
  BY DEF IInv, TypeOK, ClosedListener, AcceptFails, CloseOnce, host, loop
<1>3. OneLoop'
  BY DEF IInv, TypeOK, OneLoop, Looping, AcceptFails, CloseOnce, host, loop
<1>4. Counts'
  BY DEF IInv, TypeOK, OneLoop, Looping, Counts, Running, AcceptFails, CloseOnce, host, loop
<1>5. Ended'
  BY DEF IInv, TypeOK, OneLoop, Ended, Looping, AcceptFails, CloseOnce, host, loop
<1> QED
  BY <1>1, <1>2, <1>3, <1>4, <1>5 DEF IInv

LEMMA StoppedPreserves ==
    ASSUME IInv, NEW s \in Server, Stopped(s)
    PROVE  IInv'
<1>1. TypeOK'
  BY DEF IInv, TypeOK, Counts, Stopped, host, loop
<1>2. ClosedListener'
  BY DEF IInv, TypeOK, ClosedListener, Stopped, host, loop
<1>3. OneLoop'
  BY DEF IInv, TypeOK, OneLoop, Looping, Stopped, host, loop
<1>4. Counts'
  BY DEF IInv, TypeOK, OneLoop, Looping, Counts, Running, Stopped, host, loop
<1>5. Ended'
  BY DEF IInv, TypeOK, OneLoop, Ended, Looping, Stopped, host, loop
<1> QED
  BY <1>1, <1>2, <1>3, <1>4, <1>5 DEF IInv

LEMMA ReturnPreserves ==
    ASSUME IInv, NEW s \in Server, Return(s)
    PROVE  IInv'
<1>1. TypeOK'
  BY DEF IInv, TypeOK, Counts, Return, Drained, host, loop
<1>2. ClosedListener'
  BY DEF IInv, TypeOK, ClosedListener, Return, Drained, host, loop
<1>3. OneLoop'
  BY DEF IInv, TypeOK, OneLoop, Looping, Return, Drained, host, loop
<1>4. Counts'
  BY DEF IInv, TypeOK, OneLoop, Looping, Counts, Running, Return, Drained, host, loop
<1>5. Ended'
  BY DEF IInv, TypeOK, OneLoop, Ended, Looping, Return, Drained, host, loop
<1> QED
  BY <1>1, <1>2, <1>3, <1>4, <1>5 DEF IInv

LEMMA ReleaseSlotPreserves ==
    ASSUME IInv, NEW c \in Call, ReleaseSlot(c)
    PROVE  IInv'
<1>1. TypeOK' /\ IsFiniteSet(slots')
  <2>1. c \in slots /\ IsFiniteSet(slots)
    BY DEF IInv, Counts, Running, ReleaseSlot
  <2>2. /\ IsFiniteSet(slots \ {c})
        /\ Cardinality(slots \ {c}) = Cardinality(slots) - 1
        /\ Cardinality(slots) \in Nat
    BY <2>1, FS_RemoveElement, FS_CardinalityType
  <2>3. Cardinality(slots') <= Slots
    BY <2>2, SlotsAssumption DEF IInv, TypeOK, ReleaseSlot
  <2> QED
    BY <2>1, <2>2, <2>3 DEF IInv, TypeOK, Counts, Running, ReleaseSlot, Goes, host, loop
<1>2. ClosedListener'
  BY DEF IInv, TypeOK, ClosedListener, ReleaseSlot, Goes, host, loop
<1>3. OneLoop'
  BY DEF IInv, TypeOK, OneLoop, Looping, ReleaseSlot, Goes, host, loop
<1>4. Counts'
  BY <1>1 DEF IInv, TypeOK, Counts, Running, ReleaseSlot, Goes, host, loop
<1>5. Ended'
  BY DEF IInv, TypeOK, OneLoop, Ended, Looping, ReleaseSlot, Goes, host, loop
<1> QED
  BY <1>1, <1>2, <1>3, <1>4, <1>5 DEF IInv

LEMMA LeavePreserves ==
    ASSUME IInv, NEW c \in Call, Leave(c)
    PROVE  IInv'
<1>1. TypeOK'
  BY DEF IInv, TypeOK, Counts, Leave, Goes, host, loop
<1>2. ClosedListener'
  BY DEF IInv, TypeOK, ClosedListener, Leave, Goes, host, loop
<1>3. OneLoop'
  BY DEF IInv, TypeOK, OneLoop, Looping, Leave, Goes, host, loop
<1>4. Counts'
  BY DEF IInv, TypeOK, OneLoop, Looping, Counts, Running, Leave, Goes, host, loop
<1>5. Ended'
  BY DEF IInv, TypeOK, OneLoop, Ended, Looping, Leave, Goes, host, loop
<1> QED
  BY <1>1, <1>2, <1>3, <1>4, <1>5 DEF IInv

-----------------------------------------------------------------------------
(* The theorems. *)

LEMMA InitIInv == Init => IInv
<1> SUFFICES ASSUME Init PROVE IInv
  OBVIOUS
<1>1. IsFiniteSet(slots) /\ Cardinality(slots) = 0
  BY FS_EmptySet DEF Init
<1>2. Cardinality(slots) <= Slots
  BY <1>1, SlotsAssumption
<1>3. TypeOK
  <2> DEFINE At == {"idle", "refused", "accepting", "holding", "stopping", "draining", "returned"}
  <2>1. serve \in [Server -> At] /\ pc \in [Call -> Place]
    BY DEF Init, Place
  <2> QED
    BY <1>2, <2>1 DEF Init, TypeOK, Place
<1> QED
  BY <1>1, <1>3 DEF Init, IInv, ClosedListener, OneLoop, Looping, Counts, Running, Ended

LEMMA NextIInv == IInv /\ [Next]_vars => IInv'
<1> SUFFICES ASSUME IInv, [Next]_vars PROVE IInv'
  OBVIOUS
<1>1. ASSUME NEW f \in Feature, Enable(f) PROVE IInv'
  BY <1>1, EnablePreserves
<1>2. CASE Close
  BY <1>2, ClosePreserves
<1>3. ASSUME NEW s \in Server,
             Serve(s) \/ Admit(s) \/ AcceptFails(s) \/ Stopped(s) \/ Return(s)
      PROVE  IInv'
  BY <1>3, ServePreserves, AdmitPreserves, AcceptFailsPreserves, StoppedPreserves, ReturnPreserves
<1>4. ASSUME NEW s \in Server, NEW c \in Call, Accept(s, c) PROVE IInv'
  BY <1>4, AcceptPreserves
<1>5. ASSUME NEW c \in Call, Dial(c) \/ Step(c) \/ Timer(c) \/ PeerGone(c) PROVE IInv'
  <2>1. waits[c] \in Occ
    BY DEF IInv, TypeOK
  <2> QED
    BY <1>5, <2>1, StepOfCall, CallStepPreserves, ReleaseSlotPreserves, LeavePreserves DEF Step
<1>6. ASSUME NEW c \in Call, NEW o \in Occ, Poll(c, o) \/ Decide(c, o) \/ Ask(c, o) PROVE IInv'
  BY <1>6, StepOfCall, CallStepPreserves
<1>7. CASE UNCHANGED vars
  BY <1>7 DEF IInv, vars, TypeOK, ClosedListener, OneLoop, Looping, Counts, Running, Ended
<1> QED
  BY <1>1, <1>2, <1>3, <1>4, <1>5, <1>6, <1>7 DEF Next

(* The inductive invariant holds of every reachable state of the Host.        *)
THEOREM Invariance == Spec => []IInv
BY InitIInv, NextIInv, PTL DEF Spec

(* No more calls hold a slot than there are slots, for any number of them     *)
(* (Host.slots), and the goroutines beyond them have left theirs.             *)
THEOREM TypeCorrect == Spec => []TypeOK
<1>1. IInv => TypeOK
  BY DEF IInv
<1> QED
  BY <1>1, Invariance, PTL

(* When Serve returned, no call runs and none will: workers.Wait and the one   *)
(* Serve that has a loop leave nobody behind (host.go).                       *)
THEOREM ReturnsDrained == Spec => []ReturnedIsDrained
<1>1. IInv => ReturnedIsDrained
  <2> SUFFICES ASSUME IInv, NEW s \in Server, serve[s] = "returned"
               PROVE  slots = {} /\ \A c \in Call : pc[c] = "away"
    BY DEF ReturnedIsDrained
  <2>1. workers = {} /\ slots = {} /\ ~listening
    BY DEF IInv, TypeOK, ClosedListener, Ended
  <2>2. \A t \in Server : serve[t] # "holding"
    BY DEF IInv, OneLoop, Looping
  <2> QED
    BY <2>1, <2>2 DEF IInv, TypeOK, ClosedListener, Counts, Running
<1> QED
  BY <1>1, Invariance, PTL

(* After OnStopped no connection becomes a call, whichever Serve accepted it.  *)
THEOREM StoppedForGood == Spec => NoneAfterStopped
<1>1. IInv /\ [Next]_vars => [stopped => workers' \subseteq workers]_vars
  <2> SUFFICES ASSUME IInv, Next, stopped PROVE workers' \subseteq workers
    OBVIOUS
  <2>1. \A s \in Server : ~Admit(s)
    BY DEF IInv, Ended, Looping, Admit
  <2> QED
    BY <2>1 DEF Next, Enable, Close, Serve, AcceptFails, Stopped, Return, Accept, Dial, Step, Timer,
                PeerGone, Receive, AtOnce, WaitCancelled, ReadAgain, ReleaseSlot, Leave, Poll,
                Decide, Ask, host, loop
<1> QED
  BY <1>1, Invariance, PTL DEF Spec, NoneAfterStopped

=============================================================================
