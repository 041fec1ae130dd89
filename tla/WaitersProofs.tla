----------------------------- MODULE WaitersProofs -----------------------------
(***************************************************************************)
(* Theorems about Waiters, for any occurrences and any number of long polls  *)
(* of each, whether or not reads fail and the clock is set back.             *)
(*                                                                         *)
(* A closed channel speaks of the file at the moment it was closed, and the   *)
(* reader looks at the file later.  What makes the two agree is that what a   *)
(* channel was closed for stays over (Over) through every edit; a clock that  *)
(* is set back may undo it only if no edit has written it, and a read that    *)
(* fails may close a channel for what is pending: the history `doubted` has   *)
(* both.  A call that has read its occurrence has one that exists (Began), so *)
(* that the channel it makes tells the truth.                                *)
(***************************************************************************)
EXTENDS Waiters, TLAPS

Began == \A w \in Waiter : pc[w] # "idle" => durable[occ[w]] # "absent"

Over(i) == durable[i] \notin {"absent", "pending"}

(* Told over, and over unless the read or the clock was wrong. *)
OverOrDoubted(i) == Over(i) \/ i \in doubted

WokenOver == \A w \in Waiter : pc[w] = "woken" => OverOrDoubted(occ[w])

IInv == OpenIsUndecided /\ Began /\ WokenOver

-----------------------------------------------------------------------------
(* The edits. *)

(* What every edit that settles does to the file, L being what it decides or   *)
(* removes: an occurrence never begins again, what is collected is over, and   *)
(* no other occurrence changes but one that is admitted.                      *)
Edits(L) ==
    /\ durable' \in [Id -> {"absent", "pending", "due", "decided", "removed"}]
    /\ \A i \in Id : Over(i) => Over(i)'
    /\ \A i \in Id : durable[i] # "absent" => durable'[i] # "absent"
    /\ L \subseteq Id /\ \A i \in L : Over(i)'
    /\ \A i \in Id : durable[i] = "pending" => durable'[i] = "pending" \/ i \in L
    /\ \A i \in Id : durable[i] = "due" => i \in Due

LEMMA SettleFacts ==
    ASSUME TypeOK, NEW S \in SUBSET Id, SettleAll(S)
    PROVE  /\ decided' \in [Id -> {"none", "open", "closed"}]
           /\ pc' \in [Waiter -> {"idle", "read", "waiting", "woken", "timedout"}]
           /\ \A i \in Id : decided'[i] = IF i \in S THEN "none" ELSE decided[i]
           /\ \A w \in Waiter :
                 \/ pc'[w] = pc[w] /\ (pc[w] = "waiting" => occ[w] \notin S)
                 \/ pc[w] = "waiting" /\ pc'[w] = "woken" /\ occ[w] \in S
BY DEF TypeOK, SettleAll

(* Any edit keeps the invariant: whom it wakes waited for what is over, and    *)
(* if it does not panic nobody is left waiting for it.                        *)
LEMMA EditPreserves ==
    ASSUME IInv, NEW L, Edits(L), SettleAfterEdit(L), UNCHANGED <<occ, doubted>>
    PROVE  IInv'
<1>1. TypeOK /\ Due \subseteq Id /\ L \subseteq Id /\ \A i \in Due : Over(i)
  BY DEF IInv, OpenIsUndecided, Edits, Due, Over
<1>2. PICK S \in SUBSET (Due \cup L) :
         /\ SettleAll(S)
         /\ panicked' = TRUE \/ (S = Due \cup L /\ panicked' = panicked)
  BY <1>1 DEF SettleAfterEdit
<1>3. S \in SUBSET Id
  BY <1>1
<1>4. /\ decided' \in [Id -> {"none", "open", "closed"}]
      /\ pc' \in [Waiter -> {"idle", "read", "waiting", "woken", "timedout"}]
      /\ \A i \in Id : decided'[i] = IF i \in S THEN "none" ELSE decided[i]
      /\ \A w \in Waiter :
            \/ pc'[w] = pc[w] /\ (pc[w] = "waiting" => occ[w] \notin S)
            \/ pc[w] = "waiting" /\ pc'[w] = "woken" /\ occ[w] \in S
  BY <1>1, <1>2, <1>3, SettleFacts
<1>5. \A i \in S : Over(i)'
  BY <1>1, <1>2 DEF Edits
<1>6. TypeOK'
  BY <1>1, <1>2, <1>4 DEF TypeOK, Edits
<1>7. Began'
  BY <1>1, <1>4 DEF IInv, Began, Edits, TypeOK
<1>8. WokenOver'
  BY <1>1, <1>4, <1>5 DEF IInv, WokenOver, OverOrDoubted, Edits, TypeOK
<1>9. \A w \in Waiter : pc'[w] = "waiting" => decided'[occ'[w]] = "open" \/ panicked'
  BY <1>1, <1>2, <1>4 DEF IInv, OpenIsUndecided, TypeOK
<1>10. \A i \in Id : decided'[i] = "open" => durable'[i] \in {"pending", "due"} \/ panicked'
  <2> SUFFICES ASSUME NEW i \in Id, decided'[i] = "open", ~panicked'
               PROVE  durable'[i] \in {"pending", "due"}
    OBVIOUS
  <2>1. i \notin Due \cup L /\ durable[i] \in {"pending", "due"}
    BY <1>2, <1>4 DEF IInv, OpenIsUndecided
  <2> QED
    BY <2>1 DEF Edits
<1>11. \A i \in Id : decided'[i] = "closed" => OverOrDoubted(i)'
  BY <1>4 DEF IInv, OpenIsUndecided, Edits, Over, OverOrDoubted
<1> QED
  BY <1>6, <1>7, <1>8, <1>9, <1>10, <1>11 DEF IInv, OpenIsUndecided, Over, OverOrDoubted

(* Every edit of the model is one. *)
LEMMA EditsOf ==
    ASSUME TypeOK, NEW i \in Id
    PROVE  /\ Admit(i) => Edits({})
           /\ Answer(i) => Edits({i})
           /\ AnswerAgain(i) => Edits({i})
           /\ Retire(i) => Edits({i})
           /\ Release(i) => Edits({})
<1>1. /\ Persisted \in [Id -> {"absent", "pending", "due", "decided", "removed"}]
      /\ \A j \in Id : Persisted[j] = IF durable[j] = "due" THEN "removed" ELSE durable[j]
      /\ \A j \in Id : durable[j] = "due" => j \in Due
  BY DEF TypeOK, Persisted, Due
<1>2. ASSUME NEW v \in {"pending", "decided", "removed"}, durable' = [Persisted EXCEPT ![i] = v]
      PROVE  /\ durable' \in [Id -> {"absent", "pending", "due", "decided", "removed"}]
             /\ durable'[i] = v
             /\ \A j \in Id \ {i} : durable'[j] = IF durable[j] = "due" THEN "removed" ELSE durable[j]
  BY <1>1, <1>2
<1>3. Admit(i) => Edits({})
  BY <1>1, <1>2 DEF Admit, Edits, Over
<1>4. Answer(i) => Edits({i})
  BY <1>1, <1>2 DEF Answer, Edits, Over
<1>5. AnswerAgain(i) => Edits({i})
  BY <1>1 DEF AnswerAgain, Edits, Over, TypeOK
<1>6. Retire(i) => Edits({i})
  BY <1>1, <1>2 DEF Retire, Edits, Over
<1>7. Release(i) => Edits({})
  BY <1>1, <1>2 DEF Release, Edits, Over
<1> QED
  BY <1>3, <1>4, <1>5, <1>6, <1>7

LEMMA OtherEditEdits ==
    ASSUME TypeOK, OtherEdit
    PROVE  Edits({})
<1>1. /\ Persisted \in [Id -> {"absent", "pending", "due", "decided", "removed"}]
      /\ \A j \in Id : Persisted[j] = IF durable[j] = "due" THEN "removed" ELSE durable[j]
      /\ \A j \in Id : durable[j] = "due" => j \in Due
  BY DEF TypeOK, Persisted, Due
<1>2. CASE durable' = Persisted
  BY <1>1, <1>2 DEF Edits, Over
<1>3. CASE durable' = durable
  BY <1>1, <1>3 DEF Edits, Over, TypeOK
<1> QED
  BY <1>2, <1>3 DEF OtherEdit

-----------------------------------------------------------------------------
(* The long polls. *)

(* The read and the channel agree: what Subscribe finds open is undecided, and *)
(* what it finds or makes closed is over, or the read failed and `doubted`    *)
(* says so.                                                                   *)
LEMMA SubscribePreserves ==
    ASSUME IInv, NEW w \in Waiter, Subscribe(w)
    PROVE  IInv'
<1> DEFINE i == occ[w]
<1>1. TypeOK /\ pc[w] = "read" /\ i \in Id /\ durable[i] # "absent"
  BY DEF IInv, OpenIsUndecided, TypeOK, Began, Subscribe
<1>2. PICK ok \in BOOLEAN :
         /\ decided' = [decided EXCEPT ![i] = Channel(i, ok)]
         /\ pc' = [pc EXCEPT ![w] = IF Channel(i, ok) = "open" THEN "waiting" ELSE "woken"]
         /\ doubted' = doubted \cup {j \in {i} : ~ok /\ decided[j] = "none" /\ durable[j] = "pending"}
         /\ UNCHANGED <<durable, occ, panicked>>
  BY WaitersAssumption DEF Subscribe
<1> DEFINE c == Channel(i, ok)
<1>3. /\ c \in {"open", "closed"}
      /\ c = "open" => durable[i] \in {"pending", "due"} \/ panicked
      /\ c = "closed" => OverOrDoubted(i)'
      /\ doubted \subseteq doubted' /\ doubted' \subseteq Id
  <2>1. doubted \subseteq doubted' /\ doubted' \subseteq Id
    BY <1>1, <1>2 DEF TypeOK
  <2>2. c \in {"open", "closed"} /\ (c = "open" => durable[i] \in {"pending", "due"} \/ panicked)
    <3>1. CASE decided[i] # "none"
      BY <1>1, <1>2, <3>1 DEF IInv, OpenIsUndecided, TypeOK, Channel
    <3>2. CASE decided[i] = "none"
      BY <1>1, <1>2, <3>2 DEF Channel, ReadsPending
    <3> QED
      BY <3>1, <3>2
  <2>3. ASSUME c = "closed"
        PROVE  OverOrDoubted(i)'
    <3>1. CASE decided[i] = "closed"
      BY <1>1, <1>2, <2>1, <3>1 DEF IInv, OpenIsUndecided, Over, OverOrDoubted
    <3>2. CASE decided[i] = "none"
      <4>1. ~ok \/ durable[i] # "pending"
        BY <2>3, <3>2 DEF Channel, ReadsPending
      <4>2. durable'[i] = "pending" => i \in doubted'
        BY <1>2, <3>2, <4>1
      <4> QED
        BY <1>1, <1>2, <4>2 DEF Over, OverOrDoubted
    <3> QED
      BY <1>1, <2>3, <3>1, <3>2 DEF TypeOK, Channel
  <2> QED
    BY <2>1, <2>2, <2>3
<1> HIDE DEF i
<1>4. /\ decided' \in [Id -> {"none", "open", "closed"}] /\ decided'[i] = c
      /\ \A j \in Id \ {i} : decided'[j] = decided[j]
  BY <1>1, <1>2, <1>3 DEF TypeOK
<1>5. /\ pc' \in [Waiter -> {"idle", "read", "waiting", "woken", "timedout"}]
      /\ pc'[w] = IF c = "open" THEN "waiting" ELSE "woken"
      /\ \A v \in Waiter \ {w} : pc'[v] = pc[v]
  BY <1>1, <1>2, <1>3 DEF TypeOK
<1>6. TypeOK' /\ Began'
  BY <1>1, <1>2, <1>3, <1>4, <1>5 DEF IInv, TypeOK, Began, i
<1>7. WokenOver'
  BY <1>2, <1>3, <1>5 DEF IInv, WokenOver, Over, OverOrDoubted, i
<1>8. \A v \in Waiter : pc'[v] = "waiting" => decided'[occ'[v]] = "open" \/ panicked'
  <2>1. decided[i] = "open" => c = "open"
    BY <1>2 DEF Channel
  <2>2. \A j \in Id : decided[j] = "open" => decided'[j] = "open"
    BY <1>4, <2>1
  <2> QED
    BY <1>1, <1>2, <1>3, <1>4, <1>5, <2>2 DEF IInv, OpenIsUndecided, TypeOK, i
<1>9. \A j \in Id : decided'[j] = "open" => durable'[j] \in {"pending", "due"} \/ panicked'
  BY <1>1, <1>2, <1>3, <1>4 DEF IInv, OpenIsUndecided
<1>10. ASSUME NEW j \in Id, decided'[j] = "closed"
       PROVE  durable'[j] \notin {"absent", "pending"} \/ j \in doubted'
  <2>1. CASE j = i
    BY <1>2, <1>3, <1>4, <1>10, <2>1 DEF Over, OverOrDoubted, i
  <2>2. CASE j # i
    BY <1>2, <1>3, <1>4, <1>10, <2>2 DEF IInv, OpenIsUndecided
  <2> QED
    BY <2>1, <2>2
<1> QED
  BY <1>6, <1>7, <1>8, <1>9, <1>10 DEF IInv, OpenIsUndecided

(* A call that goes on without its channel. *)
LEMMA PollPreserves ==
    ASSUME IInv, NEW w \in Waiter, TimeOut(w) \/ Reply(w) \/ Disconnect(w) \/ \E i \in Id : Observe(w, i)
    PROVE  IInv'
<1>1. TypeOK /\ UNCHANGED <<durable, decided, panicked, doubted>>
  BY DEF IInv, OpenIsUndecided, TimeOut, Reply, Disconnect, Observe
<1>2. /\ TypeOK' /\ pc'[w] \in {"idle", "read", "timedout"}
      /\ \A v \in Waiter \ {w} : pc'[v] = pc[v] /\ occ'[v] = occ[v]
      /\ pc'[w] # "idle" => durable[occ'[w]] # "absent"
  BY DEF IInv, OpenIsUndecided, Began, TypeOK, TimeOut, Reply, Disconnect, Observe
<1>3. Began' /\ WokenOver'
  BY <1>1, <1>2 DEF IInv, Began, WokenOver, Over, OverOrDoubted
<1> QED
  BY <1>1, <1>2, <1>3 DEF IInv, OpenIsUndecided

LEMMA ElapsePreserves ==
    ASSUME IInv, NEW i \in Id, Elapse(i)
    PROVE  IInv'
<1>1. /\ TypeOK /\ durable[i] = "pending" /\ UNCHANGED <<decided, pc, occ, panicked, doubted>>
      /\ durable' \in [Id -> {"absent", "pending", "due", "decided", "removed"}]
      /\ durable'[i] = "due" /\ \A j \in Id \ {i} : durable'[j] = durable[j]
  BY DEF IInv, OpenIsUndecided, TypeOK, Elapse
<1>2. TypeOK' /\ Began' /\ WokenOver'
  BY <1>1 DEF IInv, TypeOK, Began, WokenOver, Over, OverOrDoubted
<1> QED
  BY <1>1, <1>2 DEF IInv, OpenIsUndecided

(* A clock that is set back undoes a lapse; whoever was told of it is doubted. *)
LEMMA SetBackPreserves ==
    ASSUME IInv, NEW S \in SUBSET Due, SetBack(S)
    PROVE  IInv'
<1>1. /\ TypeOK /\ S \in SUBSET Id /\ UNCHANGED <<decided, pc, occ, panicked>>
      /\ durable' \in [Id -> {"absent", "pending", "due", "decided", "removed"}]
      /\ \A j \in Id : durable'[j] = IF j \in S THEN "pending" ELSE durable[j]
      /\ doubted \subseteq doubted' /\ doubted' \subseteq Id
      /\ \A j \in S : durable[j] = "due" /\ (ToldOver(j) => j \in doubted')
  BY DEF IInv, OpenIsUndecided, TypeOK, SetBack, Due
<1>2. TypeOK' /\ Began'
  BY <1>1 DEF IInv, TypeOK, Began
<1>3. WokenOver'
  BY <1>1 DEF IInv, WokenOver, Over, OverOrDoubted, ToldOver, TypeOK
<1>4. \A j \in Id : decided'[j] = "closed" => durable'[j] \notin {"absent", "pending"} \/ j \in doubted'
  BY <1>1 DEF IInv, OpenIsUndecided, ToldOver
<1> QED
  BY <1>1, <1>2, <1>3, <1>4 DEF IInv, OpenIsUndecided

LEMMA RestartPreserves ==
    ASSUME IInv, Restart
    PROVE  IInv'
BY DEF IInv, OpenIsUndecided, TypeOK, Began, WokenOver, Over, OverOrDoubted, Restart

-----------------------------------------------------------------------------
(* The theorems. *)

LEMMA NextIInv ==
    ASSUME IInv, [Next]_vars
    PROVE  IInv'
<1>1. TypeOK
  BY DEF IInv, OpenIsUndecided
<1>2. ASSUME NEW i \in Id, Admit(i) \/ Answer(i) \/ AnswerAgain(i) \/ Retire(i) \/ Release(i)
      PROVE  IInv'
  <2>1. \E L \in SUBSET Id : Edits(L) /\ SettleAfterEdit(L) /\ UNCHANGED <<occ, doubted>>
    BY <1>1, <1>2, EditsOf DEF Admit, Answer, AnswerAgain, Retire, Release
  <2> QED
    BY <2>1, EditPreserves
<1>3. CASE OtherEdit
  BY <1>1, <1>3, OtherEditEdits, EditPreserves DEF OtherEdit
<1>4. CASE UNCHANGED vars
  BY <1>4 DEF vars, IInv, OpenIsUndecided, TypeOK, Began, WokenOver, Over, OverOrDoubted
<1> QED
  BY <1>2, <1>3, <1>4, SubscribePreserves, PollPreserves, ElapsePreserves, SetBackPreserves,
     RestartPreserves DEF Next

LEMMA InitIInv == Init => IInv
BY DEF Init, IInv, OpenIsUndecided, TypeOK, Began, WokenOver, Over, OverOrDoubted

(* The inductive invariant holds of every reachable state: what a channel was  *)
(* closed for is over, or the clock or a failed read is known to have undone  *)
(* it (Decided, Book.settle, changeApplication).                              *)
THEOREM Invariance == Spec => []IInv
<1>1. IInv /\ [Next]_vars => IInv'
  BY NextIInv
<1> QED
  BY <1>1, InitIInv, PTL DEF Spec

(* A long poll that its channel woke reads an outcome, never `pending`, for    *)
(* any number of polls, unless Decided could not read the file or the clock    *)
(* was set back before the lapse that woke it was written: an edit never makes *)
(* an occurrence pending again (Book.Decided, receiver.Observe).              *)
THEOREM WokenReadsOutcome == Spec => []WokenIsSettled
<1>1. IInv => WokenIsSettled
  BY DEF IInv, OpenIsUndecided, TypeOK, WokenOver, WokenIsSettled, Over, OverOrDoubted
<1> QED
  BY <1>1, Invariance, PTL

(* No decision falls between the read that found the occurrence pending and    *)
(* the wait: settle closes every channel of what is over, unless an edit       *)
(* panicked first; and a channel kept closed is of an occurrence that is over, *)
(* or that a failed read or the clock closed it for (Book.settle, Decided).    *)
THEOREM NoLostWakeup == Spec => []OpenIsUndecided
<1>1. IInv => OpenIsUndecided
  BY DEF IInv
<1> QED
  BY <1>1, Invariance, PTL

-----------------------------------------------------------------------------
(* Who is left waiting. *)

(* The part of OpenIsUndecided that speaks of open channels, which does not    *)
(* rest on what closed ones say.                                             *)
Held ==
    /\ TypeOK
    /\ \A w \in Waiter : pc[w] = "waiting" => decided[occ[w]] = "open" \/ panicked
    /\ \A i \in Id : decided[i] = "open" => durable[i] \in {"pending", "due"} \/ panicked

LEMMA EditHeld ==
    ASSUME Held, NEW L, Edits(L), SettleAfterEdit(L), UNCHANGED <<occ, doubted>>
    PROVE  Held'
<1>1. TypeOK /\ Due \subseteq Id /\ L \subseteq Id
  BY DEF Held, Edits, Due
<1>2. PICK S \in SUBSET (Due \cup L) :
         /\ SettleAll(S)
         /\ panicked' = TRUE \/ (S = Due \cup L /\ panicked' = panicked)
  BY <1>1 DEF SettleAfterEdit
<1>3. S \in SUBSET Id
  BY <1>1
<1>4. /\ decided' \in [Id -> {"none", "open", "closed"}]
      /\ pc' \in [Waiter -> {"idle", "read", "waiting", "woken", "timedout"}]
      /\ \A i \in Id : decided'[i] = IF i \in S THEN "none" ELSE decided[i]
      /\ \A w \in Waiter :
            \/ pc'[w] = pc[w] /\ (pc[w] = "waiting" => occ[w] \notin S)
            \/ pc[w] = "waiting" /\ pc'[w] = "woken" /\ occ[w] \in S
  BY <1>1, <1>2, <1>3, SettleFacts
<1>5. TypeOK'
  BY <1>1, <1>2, <1>4 DEF TypeOK, Edits
<1>6. \A w \in Waiter : pc'[w] = "waiting" => decided'[occ'[w]] = "open" \/ panicked'
  BY <1>1, <1>2, <1>4 DEF Held, TypeOK
<1>7. ASSUME NEW i \in Id, decided'[i] = "open", ~panicked'
      PROVE  durable'[i] \in {"pending", "due"}
  <2>1. i \notin Due \cup L /\ durable[i] \in {"pending", "due"}
    BY <1>2, <1>4, <1>7 DEF Held
  <2> QED
    BY <2>1 DEF Edits
<1> QED
  BY <1>5, <1>6, <1>7 DEF Held

(* A channel is made open for what was read as pending, and for nothing else.  *)
LEMMA SubscribeHeld ==
    ASSUME Held, NEW w \in Waiter, Subscribe(w)
    PROVE  Held'
<1> DEFINE i == occ[w]
<1>1. TypeOK /\ i \in Id
  BY DEF Held, TypeOK
<1>2. PICK ok \in BOOLEAN :
         /\ decided' = [decided EXCEPT ![i] = Channel(i, ok)]
         /\ pc' = [pc EXCEPT ![w] = IF Channel(i, ok) = "open" THEN "waiting" ELSE "woken"]
         /\ doubted' = doubted \cup {j \in {i} : ~ok /\ decided[j] = "none" /\ durable[j] = "pending"}
         /\ UNCHANGED <<durable, occ, panicked>>
  BY WaitersAssumption DEF Subscribe
<1> DEFINE c == Channel(i, ok)
<1>3. /\ c \in {"open", "closed"}
      /\ c = "open" => durable[i] \in {"pending", "due"} \/ panicked
  <2>1. CASE decided[i] # "none"
    BY <1>1, <1>2, <2>1 DEF Held, TypeOK, Channel
  <2>2. CASE decided[i] = "none"
    BY <1>1, <1>2, <2>2 DEF Channel, ReadsPending
  <2> QED
    BY <2>1, <2>2
<1> HIDE DEF i
<1>4. /\ decided' \in [Id -> {"none", "open", "closed"}] /\ decided'[i] = c
      /\ \A j \in Id \ {i} : decided'[j] = decided[j]
  BY <1>1, <1>2, <1>3 DEF TypeOK
<1>5. /\ pc' \in [Waiter -> {"idle", "read", "waiting", "woken", "timedout"}]
      /\ pc'[w] = IF c = "open" THEN "waiting" ELSE "woken"
      /\ \A v \in Waiter \ {w} : pc'[v] = pc[v]
  BY <1>1, <1>2, <1>3 DEF TypeOK
<1>6. TypeOK'
  BY <1>1, <1>2, <1>4, <1>5 DEF TypeOK, i
<1>7. \A v \in Waiter : pc'[v] = "waiting" => decided'[occ'[v]] = "open" \/ panicked'
  <2>1. \A j \in Id : decided[j] = "open" => decided'[j] = "open"
    BY <1>2, <1>4 DEF Channel
  <2> QED
    BY <1>1, <1>2, <1>3, <1>4, <1>5, <2>1 DEF Held, TypeOK, i
<1>8. \A j \in Id : decided'[j] = "open" => durable'[j] \in {"pending", "due"} \/ panicked'
  BY <1>1, <1>2, <1>3, <1>4 DEF Held
<1> QED
  BY <1>6, <1>7, <1>8 DEF Held

LEMMA StepHeld ==
    ASSUME Held, [Next]_vars
    PROVE  Held'
<1>1. TypeOK
  BY DEF Held
<1>2. ASSUME NEW i \in Id, Admit(i) \/ Answer(i) \/ AnswerAgain(i) \/ Retire(i) \/ Release(i)
      PROVE  Held'
  <2>1. \E L \in SUBSET Id : Edits(L) /\ SettleAfterEdit(L) /\ UNCHANGED <<occ, doubted>>
    BY <1>1, <1>2, EditsOf DEF Admit, Answer, AnswerAgain, Retire, Release
  <2> QED
    BY <2>1, EditHeld
<1>3. CASE OtherEdit
  BY <1>1, <1>3, OtherEditEdits, EditHeld DEF OtherEdit
<1>4. ASSUME NEW i \in Id, Elapse(i)
      PROVE  Held'
  BY <1>4 DEF Held, TypeOK, Elapse
<1>8. ASSUME NEW S \in SUBSET Due, SetBack(S)
      PROVE  Held'
  <2>1. TypeOK'
    BY <1>1, <1>8 DEF TypeOK, SetBack, Due
  <2>2. /\ UNCHANGED <<decided, pc, occ, panicked>>
        /\ \A j \in Id : durable[j] \in {"pending", "due"} => durable'[j] \in {"pending", "due"}
    BY <1>8 DEF SetBack
  <2> QED
    BY <2>1, <2>2 DEF Held
<1>5. ASSUME NEW w \in Waiter, TimeOut(w) \/ Reply(w) \/ Disconnect(w) \/ \E i \in Id : Observe(w, i)
      PROVE  Held'
  BY <1>5 DEF Held, TypeOK, TimeOut, Reply, Disconnect, Observe
<1>6. CASE Restart
  BY <1>6 DEF Held, TypeOK, Restart
<1>7. CASE UNCHANGED vars
  BY <1>7 DEF vars, Held, TypeOK
<1> QED
  BY <1>2, <1>3, <1>4, <1>5, <1>6, <1>7, <1>8, SubscribeHeld DEF Next

(* Whether or not the file can be read: nobody waits for a question, choice or *)
(* notification that is over, unless an edit panicked on a channel that was     *)
(* closed already. That is what WaitersReleased says, with its one exception   *)
(* (changeApplication, Book.settle).                                         *)
THEOREM ReleasedUnlessPanicked == Spec => [](WaitersReleased \/ panicked)
<1>1. Init => Held
  BY DEF Init, Held, TypeOK
<1>2. Held /\ [Next]_vars => Held'
  BY StepHeld
<1>3. Held => WaitersReleased \/ panicked
  BY DEF Held, TypeOK, WaitersReleased
<1> QED
  BY <1>1, <1>2, <1>3, PTL DEF Spec

=============================================================================
