--------------------------- MODULE PermissionsProofs ---------------------------
(* Theorems about Permissions, for any calls, keys, effects and responders.  *)
EXTENDS Permissions, TLAPS

(* Who holds the Book, and for what record.                                   *)
Locked ==
    /\ \A c \in Call : req[c].at = "admitting" <=> mu # None /\ mu.by = c
    /\ pin # None <=> mu # None /\ mu.by = "operator"
    /\ mu # None /\ mu.by = "owner" => mu.id \in TypedPending

(* The record whose rule is being written is the one that was read.           *)
Pinned ==
    pin # None => Completable(pin.id)

(* What an evaluation is worth: while it is current, the rules say what it     *)
(* says; when it was not rechecked for the last time, a listing is due.       *)
CurrentOf(c) ==
    /\ req[c].at # "idle" => req[c].key \in Key /\ req[c].effect \in Typed
    /\ req[c].at # "idle" /\ req[c].outcome = "open" /\ req[c].fresh
          => verdict[req[c].effect] = "open"
    /\ req[c].at \in {"asking", "admitting"} => req[c].outcome = "open"
    /\ req[c].at = "admitting" => due \/ verdict[req[c].effect] = "open"

Current == \A c \in Call : CurrentOf(c)

(* A key is told the answer of the occurrence it names.                       *)
ToldNamed == \A k \in told : named[k] # None /\ named[k] \in Answered

(* A responder's first allow is one call's, and its rule is not yet written.   *)
Owes(a) == resp[a].at = "effect" /\ resp[a].firstAllow

Owed ==
    /\ \A a \in Reply : resp[a].at = "effect" => resp[a].id \in 1..issued /\ resp[a].effect \in FirstUse
    /\ \A a \in Reply : Owes(a) /\ resp[a].id \in Retained =>
          /\ asks[resp[a].id].option = "allow"
          /\ asks[resp[a].id].by = "responder"
          /\ asks[resp[a].id].written = 0
    /\ \A a, b \in Reply : Owes(a) /\ Owes(b) /\ resp[a].id = resp[b].id => a = b

IInv == TypeOK /\ Locked /\ Pinned /\ Current /\ ToldNamed /\ Owed /\ NoneStranded /\ WrittenOnce

Requests == [at : {"idle", "prepared", "asking", "admitting"},
             key : Key \cup {None}, effect : Typed \cup {None},
             outcome : Verdict, fresh : BOOLEAN]

Answers == [at : {"idle", "asking", "effect"}, id : ID \cup {None},
            effect : FirstUse \cup {None}, firstAllow : BOOLEAN]

Pins == [id : ID, effect : Effect, fresh : BOOLEAN]

-----------------------------------------------------------------------------
(* The rules. *)

(* A commit overtakes what was evaluated and changes nothing else of it.      *)
LEMMA CommitFacts ==
    ASSUME TypeOK, NEW e \in Effect, NEW v \in Verdict, Commit(e, v)
    PROVE  /\ verdict' \in [Effect -> Verdict] /\ due' = TRUE
           /\ req' \in [Call -> Requests]
           /\ \A c \in Call :
                 /\ req'[c].at = req[c].at /\ req'[c].key = req[c].key
                 /\ req'[c].effect = req[c].effect /\ req'[c].outcome = req[c].outcome
                 /\ req[c].at # "idle" /\ req[c].outcome = "open" => ~req'[c].fresh
<1>1. verdict' \in [Effect -> Verdict] /\ due' = TRUE
  BY DEF TypeOK, Commit
<1>2. req \in [Call -> Requests]
  BY DEF TypeOK, Requests
<1> DEFINE new(c) == [req[c] EXCEPT !.fresh = FALSE]
<1>3. ASSUME NEW c \in Call
      PROVE  /\ new(c) \in Requests /\ new(c).at = req[c].at /\ new(c).key = req[c].key
             /\ new(c).effect = req[c].effect /\ new(c).outcome = req[c].outcome
             /\ ~new(c).fresh
  BY <1>2 DEF Requests
<1>4. req' = [c \in Call |-> IF req[c].outcome = "decided" \/ req[c].at = "idle"
                             THEN req[c] ELSE new(c)]
  BY DEF Commit
<1> HIDE DEF new
<1> QED
  BY <1>1, <1>2, <1>3, <1>4

LEMMA OvertakenFacts ==
    ASSUME TypeOK, Overtaken
    PROVE  /\ pin' \in Pins \cup {None}
           /\ pin' = None <=> pin = None
           /\ pin # None => pin'.id = pin.id /\ pin'.effect = pin.effect
<1>1. pin \in Pins \cup {None}
  BY DEF TypeOK, Pins
<1>2. CASE pin # None
  <2>1. pin' = [pin EXCEPT !.fresh = FALSE]
    BY <1>2 DEF Overtaken
  <2>2. pin' \in Pins /\ pin'.id = pin.id /\ pin'.effect = pin.effect
    BY <1>1, <1>2, <2>1 DEF Pins
  <2> QED
    BY <1>2, <2>2, NoneAssumption DEF Pins
<1>3. CASE pin = None
  BY <1>3 DEF Overtaken
<1> QED
  BY <1>2, <1>3

(* The receipt is all that Write changes. *)
LEMMA WriteFacts ==
    ASSUME TypeOK, NEW i \in ID, Write(i), i \in Retained => asks[i].written < 2
    PROVE  /\ asks' \in [ID -> Record \cup {None}]
           /\ \A j \in ID : asks'[j] = None <=> asks[j] = None
           /\ \A j \in Retained :
                 /\ asks'[j].effect = asks[j].effect /\ asks'[j].option = asks[j].option
                 /\ asks'[j].by = asks[j].by
                 /\ asks'[j].written = IF j = i THEN asks[j].written + 1 ELSE asks[j].written
<1>1. asks \in [ID -> Record \cup {None}]
  BY DEF TypeOK
<1>2. CASE i \in Retained
  <2>1. asks' = [asks EXCEPT ![i].written = @ + 1]
    BY <1>2 DEF Write
  <2>2. asks[i] \in Record /\ asks[i].written \in 0..2 /\ asks[i].written + 1 \in 0..2
    BY <1>1, <1>2 DEF Retained, Record
  <2>3. /\ asks'[i] \in Record /\ asks'[i].effect = asks[i].effect
        /\ asks'[i].option = asks[i].option /\ asks'[i].by = asks[i].by
        /\ asks'[i].written = asks[i].written + 1
    BY <1>1, <2>1, <2>2 DEF Record
  <2>4. asks' \in [ID -> Record \cup {None}] /\ \A j \in ID \ {i} : asks'[j] = asks[j]
    BY <1>1, <2>1, <2>2, <2>3
  <2> QED
    BY <1>2, <2>3, <2>4, NoneAssumption DEF Retained
<1>3. CASE i \notin Retained
  BY <1>1, <1>3 DEF Write, Retained
<1> QED
  BY <1>2, <1>3

LEMMA RestTypes == Idle \in Requests /\ Quiet \in Answers
BY DEF Idle, Quiet, Requests, Answers, Verdict

-----------------------------------------------------------------------------
(* The records. *)

(* A new occurrence is pending and no one's before. *)
LEMMA NewFacts ==
    ASSUME TypeOK, NEW e \in Effect, New(e)
    PROVE  /\ asks' \in [ID -> Record \cup {None}] /\ issued' \in 0..MaxIssued
           /\ issued + 1 \in ID \ Retained /\ issued' = issued + 1
           /\ Retained' = Retained \cup {issued + 1} /\ Retained' \subseteq 1..issued'
           /\ Pending' = Pending \cup {issued + 1}
           /\ \A j \in Retained : asks'[j] = asks[j]
           /\ asks'[issued + 1].effect = e /\ asks'[issued + 1].written = 0
<1> DEFINE new == [effect |-> e, option |-> None, by |-> None, written |-> 0]
<1>1. /\ asks \in [ID -> Record \cup {None}] /\ issued \in 0..MaxIssued /\ Retained \subseteq 1..issued
      /\ issued < MaxIssued /\ issued' = issued + 1 /\ asks' = [asks EXCEPT ![issued + 1] = new]
  BY DEF TypeOK, New
<1>2. issued + 1 \in ID \ Retained /\ issued' \in 0..MaxIssued
  BY <1>1, PermissionsAssumption DEF ID
<1>3. new \in Record /\ new.option = None /\ new.effect = e /\ new.written = 0
  BY DEF Record
<1> HIDE DEF new
<1>4. asks'[issued + 1] = new /\ \A j \in ID \ {issued + 1} : asks'[j] = asks[j]
  BY <1>1, <1>2
<1>5. Retained' = Retained \cup {issued + 1} /\ Pending' = Pending \cup {issued + 1}
  BY <1>2, <1>3, <1>4, NoneAssumption DEF Retained, Pending
<1>6. asks' \in [ID -> Record \cup {None}] /\ Retained' \subseteq 1..issued'
  BY <1>1, <1>2, <1>3, <1>5
<1> QED
  BY <1>1, <1>2, <1>3, <1>4, <1>5, <1>6 DEF Retained

(* An answer fills in the record and changes no other. *)
LEMMA AnswerFacts ==
    ASSUME TypeOK, NEW i \in Pending, NEW option \in Options, NEW by \in {"operator", "responder"},
           asks' = [asks EXCEPT ![i].option = option, ![i].by = by]
    PROVE  /\ asks' \in [ID -> Record \cup {None}]
           /\ Retained' = Retained /\ Pending' = Pending \ {i}
           /\ \A j \in Retained : j # i => asks'[j] = asks[j]
           /\ asks'[i].effect = asks[i].effect /\ asks'[i].option = option /\ asks'[i].by = by
           /\ asks'[i].written = asks[i].written
<1>1. asks \in [ID -> Record \cup {None}] /\ i \in ID /\ asks[i] \in Record
  BY DEF TypeOK, Pending, Retained
<1> DEFINE b == [asks[i] EXCEPT !.option = option, !.by = by]
<1>2. /\ b \in Record /\ b.effect = asks[i].effect /\ b.option = option /\ b.by = by
      /\ b.written = asks[i].written
  BY <1>1 DEF Record
<1>3. asks' = [asks EXCEPT ![i] = b]
  BY <1>1
<1> HIDE DEF b
<1>4. asks'[i] = b /\ \A j \in ID : j # i => asks'[j] = asks[j]
  BY <1>1, <1>3
<1>5. asks' \in [ID -> Record \cup {None}]
  BY <1>1, <1>2, <1>3
<1>6. b # None /\ b.option # None
  BY <1>2, NoneAssumption
<1> QED
  BY <1>1, <1>2, <1>4, <1>5, <1>6 DEF Retained, Pending

LEMMA RemoveFacts ==
    ASSUME TypeOK, NEW i \in ID, asks' = [asks EXCEPT ![i] = None]
    PROVE  /\ asks' \in [ID -> Record \cup {None}]
           /\ Retained' = Retained \ {i} /\ Pending' = Pending \ {i}
           /\ \A j \in Retained' : asks'[j] = asks[j]
BY DEF TypeOK, Retained, Pending

(* No responder owes the rule of an occurrence that is new.                   *)
LEMMA NewIsNobodys ==
    ASSUME TypeOK, Owed, NEW e \in Effect, New(e), UNCHANGED resp
    PROVE  Owed'
<1>1. /\ issued \in 0..MaxIssued /\ issued' = issued + 1 /\ Retained' = Retained \cup {issued + 1}
      /\ \A j \in Retained : asks'[j] = asks[j]
  BY NewFacts DEF TypeOK
<1>2. \A a \in Reply : Owes(a) => resp[a].id # issued + 1 /\ resp[a].id \in 1..issued'
  BY <1>1 DEF Owed, Owes
<1>3. \A a \in Reply : resp[a].at = "effect" => resp[a].id \in 1..issued' /\ resp[a].effect \in FirstUse
  BY <1>1 DEF Owed
<1> QED
  BY <1>1, <1>2, <1>3 DEF Owed, Owes

-----------------------------------------------------------------------------
(* The calls of Request. *)

LEMMA GoesFacts ==
    ASSUME TypeOK, NEW c \in Call, NEW at \in {"asking", "admitting"},
           req' = [req EXCEPT ![c].at = at]
    PROVE  /\ req' \in [Call -> Requests]
           /\ \A d \in Call \ {c} : req'[d] = req[d]
           /\ req'[c].at = at /\ req'[c].key = req[c].key /\ req'[c].effect = req[c].effect
           /\ req'[c].outcome = req[c].outcome /\ req'[c].fresh = req[c].fresh
<1>1. req \in [Call -> Requests]
  BY DEF TypeOK, Requests
<1> DEFINE b == [req[c] EXCEPT !.at = at]
<1>2. /\ b \in Requests /\ b.at = at /\ b.key = req[c].key /\ b.effect = req[c].effect
      /\ b.outcome = req[c].outcome /\ b.fresh = req[c].fresh
  BY <1>1 DEF Requests
<1>3. req' = [req EXCEPT ![c] = b]
  BY <1>1
<1> HIDE DEF b
<1> QED
  BY <1>1, <1>2, <1>3

LEMMA EndFacts ==
    ASSUME TypeOK, NEW c \in Call, End(c)
    PROVE  /\ req' \in [Call -> Requests]
           /\ \A d \in Call \ {c} : req'[d] = req[d]
           /\ req'[c].at = "idle"
<1>1. req \in [Call -> Requests] /\ Idle \in Requests /\ Idle.at = "idle"
  BY RestTypes DEF TypeOK, Requests, Idle
<1> QED
  BY <1>1 DEF End

-----------------------------------------------------------------------------
(* What an action that leaves it alone preserves. *)

LEMMA RecordsStand ==
    ASSUME IInv, UNCHANGED <<asks, named, issued, resp, told>>
    PROVE  ToldNamed' /\ Owed' /\ WrittenOnce'
BY DEF IInv, ToldNamed, Owed, Owes, WrittenOnce, Answered, Pending, Retained

LEMMA HolderStands ==
    ASSUME IInv, UNCHANGED <<asks, mu, pin>>, \A c \in Call : req'[c].at = "admitting" <=> req[c].at = "admitting"
    PROVE  Locked' /\ Pinned'
BY DEF IInv, Locked, Pinned, Completable, TypedPending, Answered, Pending, Retained

LEMMA RulesStand ==
    ASSUME IInv, UNCHANGED <<asks, verdict, due, pass>>
    PROVE  NoneStranded'
BY DEF IInv, NoneStranded, TypedPending, Pending, Retained

LEMMA CallsStand ==
    ASSUME IInv, UNCHANGED <<verdict, due, req>>
    PROVE  Current'
BY DEF IInv, Current, CurrentOf

LEMMA CallEnds ==
    ASSUME IInv, NEW c \in Call, End(c), UNCHANGED <<verdict, due>>
    PROVE  Current'
BY EndFacts DEF IInv, Current, CurrentOf

-----------------------------------------------------------------------------
(* One lemma for each action. *)

LEMMA ChangeRulePreserves ==
    ASSUME IInv, NEW e \in Effect, NEW v \in Verdict, ChangeRule(e, v)
    PROVE  IInv'
<1>1. TypeOK /\ Commit(e, v) /\ Overtaken /\ UNCHANGED <<asks, named, issued, mu, pass, resp, told>>
  BY DEF IInv, ChangeRule, book
<1>2. TypeOK'
  BY <1>1, CommitFacts, OvertakenFacts DEF TypeOK, Requests, Pins, Retained
<1>3. Locked' /\ Pinned'
  BY <1>1, CommitFacts, OvertakenFacts
     DEF IInv, Locked, Pinned, Completable, TypedPending, Answered, Pending, Retained
<1>4. Current'
  BY <1>1, CommitFacts DEF IInv, Current, CurrentOf
<1>5. NoneStranded'
  BY <1>1, CommitFacts DEF NoneStranded
<1> QED
  BY <1>1, <1>2, <1>3, <1>4, <1>5, RecordsStand DEF IInv

LEMMA PreparePreserves ==
    ASSUME IInv, NEW c \in Call, NEW k \in Key, NEW e \in Typed, Prepare(c, k, e)
    PROVE  IInv'
<1> DEFINE new == [at |-> "prepared", key |-> k, effect |-> e,
                   outcome |-> verdict[e], fresh |-> TRUE]
<1>1. /\ TypeOK /\ req[c].at = "idle" /\ req' = [req EXCEPT ![c] = new]
      /\ UNCHANGED <<asks, named, issued, mu, pin, verdict, due, pass, resp, told>>
  BY DEF IInv, Prepare, book, lock, rules
<1>2. req \in [Call -> Requests] /\ new \in Requests /\ new.at = "prepared"
  BY <1>1 DEF TypeOK, Requests, Effect
<1>3. req' \in [Call -> Requests] /\ req'[c] = new /\ \A d \in Call \ {c} : req'[d] = req[d]
  BY <1>1, <1>2
<1>4. TypeOK'
  BY <1>1, <1>3 DEF TypeOK, Requests, Retained
<1>5. Current'
  BY <1>1, <1>3 DEF IInv, Current, CurrentOf
<1>6. Locked' /\ Pinned'
  BY <1>1, <1>3, HolderStands
<1> QED
  BY <1>1, <1>4, <1>5, <1>6, RecordsStand, RulesStand DEF IInv

LEMMA AbandonPreserves ==
    ASSUME IInv, NEW c \in Call, Abandon(c)
    PROVE  IInv'
<1>1. /\ TypeOK /\ req[c].at \in {"prepared", "asking"} /\ End(c)
      /\ UNCHANGED <<asks, named, issued, mu, pin, verdict, due, pass, resp, told>>
  BY DEF IInv, Abandon, book, lock, rules
<1>2. TypeOK'
  BY <1>1, EndFacts DEF TypeOK, Requests, Retained
<1>3. Locked' /\ Pinned'
  BY <1>1, EndFacts, HolderStands
<1> QED
  BY <1>1, <1>2, <1>3, CallEnds, RecordsStand, RulesStand DEF IInv

LEMMA ReplayPreserves ==
    ASSUME IInv, NEW c \in Call, Replay(c)
    PROVE  IInv'
<1>1. TypeOK /\ req[c].at = "prepared" /\ req[c].key \in Key
  BY DEF IInv, Current, CurrentOf, Replay
<1>2. End(c) \/ (req[c].outcome = "open" /\ req' = [req EXCEPT ![c].at = "asking"])
  BY Zenon DEF Replay
<1>3. /\ req' \in [Call -> Requests] /\ \A d \in Call \ {c} : req'[d] = req[d]
      /\ req'[c].at \in {"idle", "asking"}
  BY <1>1, <1>2, EndFacts, GoesFacts
<1>4. told' \subseteq told \cup {req[c].key}
  BY <1>1 DEF Replay, ReportNamed, Report
<1>5. UNCHANGED <<asks, named, issued, mu, pin, verdict, due, pass, resp>>
  BY DEF Replay, book, lock, rules
<1>6. TypeOK'
  BY <1>1, <1>3, <1>4, <1>5 DEF TypeOK, Requests, Retained
<1>7. Locked' /\ Pinned'
  BY <1>1, <1>3, <1>5 DEF IInv, Locked, Pinned, Completable, TypedPending, Answered, Pending, Retained
<1>8. Current'
  <2>1. ASSUME NEW d \in Call \ {c} PROVE CurrentOf(d)'
    BY <1>3, <1>5 DEF IInv, Current, CurrentOf
  <2>2. CurrentOf(c)'
    BY <1>1, <1>2, <1>5, EndFacts, GoesFacts DEF IInv, Current, CurrentOf
  <2> QED
    BY <2>1, <2>2 DEF Current
<1>9. ToldNamed'
  <2>1. \/ Replays(c) /\ Report(req[c].key, named[req[c].key])
        \/ told' \subseteq told
    BY DEF Replay, ReportNamed
  <2> QED
    BY <1>1, <1>5, <2>1 DEF IInv, ToldNamed, Replays, Report, Answered, Pending, Retained
<1>10. Owed' /\ NoneStranded' /\ WrittenOnce'
  BY <1>5 DEF IInv, Owed, Owes, NoneStranded, WrittenOnce, TypedPending, Pending, Retained
<1> QED
  BY <1>6, <1>7, <1>8, <1>9, <1>10 DEF IInv


LEMMA LockAskPreserves ==
    ASSUME IInv, NEW c \in Call, LockAsk(c)
    PROVE  IInv'
<1>1. TypeOK /\ req[c].at = "asking" /\ mu = None /\ 1 \in ID
  BY PermissionsAssumption DEF IInv, LockAsk, Free, ID
<1>2. UNCHANGED <<asks, named, issued, pin, verdict, due, pass, resp, told>>
  BY DEF LockAsk, book, rules
<1>3. Owed' /\ NoneStranded' /\ WrittenOnce' /\ ToldNamed' /\ Pinned'
  BY <1>2 DEF IInv, Owed, Owes, NoneStranded, WrittenOnce, ToldNamed, Pinned, Completable,
              TypedPending, Answered, Pending, Retained
<1>4. CASE End(c) /\ UNCHANGED mu
  <2>1. TypeOK'
    BY <1>1, <1>2, <1>4, EndFacts DEF TypeOK, Requests, Retained
  <2>2. Locked' /\ Current'
    BY <1>1, <1>2, <1>4, EndFacts
       DEF IInv, Locked, Current, CurrentOf, TypedPending, Pending, Retained
  <2> QED
    BY <1>3, <2>1, <2>2 DEF IInv
<1>5. CASE /\ Recheck(c)
           /\ req' = [req EXCEPT ![c].at = "admitting"]
           /\ mu' = [by |-> c, id |-> 1]
  <2>1. /\ mu' \in [by : Call \cup {"owner", "operator", "responder"}, id : ID]
        /\ mu' # None /\ mu'.by = c /\ c \notin {"owner", "operator", "responder"}
    <3>1. mu' \in [by : Call \cup {"owner", "operator", "responder"}, id : ID] /\ mu'.by = c
      BY <1>1, <1>5
    <3> QED
      BY <3>1, NoneAssumption, PermissionsAssumption
  <2>2. TypeOK'
    BY <1>1, <1>2, <1>5, <2>1, GoesFacts DEF TypeOK, Requests, Retained
  <2>3. Locked'
    BY <1>1, <1>2, <1>5, <2>1, GoesFacts DEF IInv, Locked
  <2>4. ASSUME NEW d \in Call \ {c} PROVE CurrentOf(d)'
    BY <1>1, <1>2, <1>5, GoesFacts DEF IInv, Current, CurrentOf
  <2>5. CurrentOf(c)'
    BY <1>1, <1>2, <1>5, GoesFacts DEF IInv, Current, CurrentOf, Recheck
  <2> QED
    BY <1>3, <2>2, <2>3, <2>4, <2>5 DEF IInv, Current
<1> QED
  BY <1>4, <1>5 DEF LockAsk


LEMMA AdmitPreserves ==
    ASSUME IInv, NEW c \in Call, Admit(c)
    PROVE  IInv'
<1> DEFINE k == req[c].key
           e == req[c].effect
           shared(i) == IF asks[i].effect = e
                        THEN named' = [named EXCEPT ![k] = i] /\ Report(k, i)
                        ELSE UNCHANGED <<named, told>>
<1>1. /\ TypeOK /\ req[c].at = "admitting" /\ k \in Key /\ e \in Typed /\ e \in Effect
      /\ due \/ verdict[e] = "open"
      /\ mu # None /\ mu.by = c /\ pin = None
  BY PermissionsAssumption DEF IInv, Locked, Current, CurrentOf, Admit, Effect
<1>2. /\ End(c) /\ mu' = None /\ UNCHANGED <<pin, verdict, due, pass, resp>>
  BY DEF Admit, rules
<1>3. /\ req' \in [Call -> Requests] /\ \A d \in Call \ {c} : req'[d] = req[d]
      /\ req'[c].at = "idle"
  BY <1>1, <1>2, EndFacts
<1>4. Locked'
  BY <1>1, <1>2, <1>3 DEF IInv, Locked
<1>5. Pinned' /\ Current'
  BY <1>1, <1>2, <1>3 DEF IInv, Pinned, Current, CurrentOf
<1>6. CASE New(e) /\ named' = [named EXCEPT ![k] = issued + 1] /\ UNCHANGED told /\ ~MustFind(c)
  <2>0. New(e) /\ k \notin told
    BY <1>6 DEF IInv, ToldNamed, MustFind, Replays
  <2> HIDE DEF k, e
  <2>1. /\ asks' \in [ID -> Record \cup {None}] /\ issued' \in 0..MaxIssued
        /\ issued + 1 \in ID \ Retained /\ issued' = issued + 1
        /\ Retained' = Retained \cup {issued + 1} /\ Retained' \subseteq 1..issued'
        /\ Pending' = Pending \cup {issued + 1}
        /\ \A j \in Retained : asks'[j] = asks[j]
        /\ asks'[issued + 1].effect = e /\ asks'[issued + 1].written = 0
    BY <1>1, <2>0, NewFacts
  <2>2. TypeOK'
    BY <1>1, <1>2, <1>3, <1>6, <2>1 DEF TypeOK, Requests
  <2>3. ToldNamed'
    BY <1>1, <1>6, <2>0, <2>1 DEF IInv, TypeOK, ToldNamed, Answered
  <2>4. NoneStranded'
    BY <1>1, <1>2, <2>1 DEF IInv, NoneStranded, TypedPending, Pending
  <2>5. WrittenOnce'
    BY <2>1 DEF IInv, WrittenOnce
  <2>6. Owed'
    BY <1>1, <1>2, <2>0, NewIsNobodys DEF IInv
  <2> QED
    BY <1>4, <1>5, <2>2, <2>3, <2>4, <2>5, <2>6 DEF IInv
<1>7. CASE UNCHANGED <<asks, issued>> /\ ((\E i \in Found(c) : shared(i)) \/ UNCHANGED <<named, told>>)
  <2>1. Found(c) \subseteq Retained /\ (named[k] # None => Found(c) = {named[k]})
    BY <1>1 DEF TypeOK, Found, Replays, Shareable, OfEffect
  <2> HIDE DEF k, e
  <2>2. UNCHANGED <<named, told>> \/ \E i \in Retained :
           /\ asks[i].effect = e /\ (named[k] # None => i = named[k])
           /\ named' = [named EXCEPT ![k] = i] /\ Report(k, i)
    BY <1>7, <2>1
  <2>3. ASSUME UNCHANGED <<named, told>>
        PROVE  TypeOK' /\ ToldNamed'
    <3>1. TypeOK'
      BY <1>1, <1>2, <1>3, <1>7, <2>3 DEF TypeOK, Requests, Retained
    <3>2. ToldNamed'
      BY <1>7, <2>3 DEF IInv, ToldNamed, Answered, Pending, Retained
    <3> QED
      BY <3>1, <3>2
  <2>4. ASSUME NEW i \in Retained, asks[i].effect = e, named[k] # None => i = named[k],
               named' = [named EXCEPT ![k] = i], Report(k, i)
        PROVE  TypeOK' /\ ToldNamed'
    <3>1. /\ i \in ID /\ named' \in [Key -> ID \cup {None}] /\ named'[k] = i
          /\ \A l \in Key \ {k} : named'[l] = named[l]
      BY <1>1, <2>4 DEF TypeOK, Retained
    <3>2. TypeOK'
      BY <1>1, <1>2, <1>3, <1>7, <2>4, <3>1 DEF TypeOK, Requests, Report, Retained
    <3>3. Answered' = Answered /\ told \subseteq Key
      BY <1>1, <1>7 DEF TypeOK, Answered, Pending, Retained
    <3>4. ToldNamed'
      BY <2>4, <3>1, <3>3, NoneAssumption DEF IInv, ToldNamed, Report
    <3> QED
      BY <3>2, <3>4
  <2>5. NoneStranded' /\ WrittenOnce' /\ Owed'
    BY <1>2, <1>7 DEF IInv, NoneStranded, WrittenOnce, Owed, Owes, TypedPending, Pending, Retained
  <2> QED
    BY <1>4, <1>5, <2>2, <2>3, <2>4, <2>5 DEF IInv
<1> QED
  BY <1>6, <1>7 DEF Admit, book

LEMMA ObservePreserves ==
    ASSUME IInv, NEW k \in Key, Observe(k)
    PROVE  IInv'
<1>1. /\ TypeOK /\ named[k] # None /\ Report(k, named[k])
      /\ UNCHANGED <<asks, named, issued, mu, pin, verdict, due, pass, req, resp>>
  BY DEF IInv, Observe, book, lock, rules
<1>2. TypeOK'
  BY <1>1 DEF TypeOK, Report, Retained
<1>3. ToldNamed'
  BY <1>1 DEF IInv, ToldNamed, Report, Answered, Pending, Retained
<1>4. Owed' /\ WrittenOnce'
  BY <1>1 DEF IInv, Owed, Owes, WrittenOnce, Retained
<1> QED
  BY <1>1, <1>2, <1>3, <1>4, CallsStand, HolderStands, RulesStand DEF IInv

LEMMA ListPreserves ==
    ASSUME IInv, List
    PROVE  IInv'
<1>1. /\ TypeOK /\ mu = None /\ pass' = TypedPending /\ due' = FALSE
      /\ UNCHANGED <<asks, named, issued, mu, pin, verdict, req, resp, told>>
  BY DEF IInv, List, Free, book, lock
<1>2. TypeOK'
  BY <1>1 DEF TypeOK, TypedPending, Pending, Retained
<1>3. Current'
  BY <1>1 DEF IInv, Locked, Current, CurrentOf
<1>4. NoneStranded'
  BY <1>1 DEF NoneStranded, TypedPending, Pending, Retained
<1> QED
  BY <1>1, <1>2, <1>3, <1>4, HolderStands, RecordsStand DEF IInv

LEMMA LockSettledPreserves ==
    ASSUME IInv, NEW i \in ID, LockSettled(i)
    PROVE  IInv'
<1>1. /\ TypeOK /\ mu = None
      /\ UNCHANGED <<asks, named, issued, pin, verdict, due, req, resp, told>>
  BY DEF IInv, LockSettled, Free, book, rules
<1>2. Pinned' /\ Current' /\ ToldNamed' /\ Owed' /\ WrittenOnce'
  BY <1>1 DEF IInv, Pinned, Completable, Current, CurrentOf, ToldNamed, Owed, Owes, WrittenOnce,
              Answered, Pending, Retained
<1>3. CASE Settled(i) /\ mu' = [by |-> "owner", id |-> i] /\ UNCHANGED pass
  <2>1. /\ mu' \in [by : Call \cup {"owner", "operator", "responder"}, id : ID] /\ mu' # None
        /\ mu'.by = "owner" /\ mu'.id = i /\ "owner" \notin Call
    <3>1. mu' \in [by : Call \cup {"owner", "operator", "responder"}, id : ID] /\ mu'.by = "owner"
      BY <1>3
    <3> QED
      BY <1>3, <3>1, NoneAssumption, PermissionsAssumption
  <2>2. TypeOK'
    BY <1>1, <1>3, <2>1 DEF TypeOK, Retained
  <2>3. Locked' /\ NoneStranded'
    BY <1>1, <1>3, <2>1 DEF IInv, Locked, NoneStranded, Settled, TypedPending, Pending, Retained
  <2> QED
    BY <1>2, <2>2, <2>3 DEF IInv
<1>4. CASE ~Settled(i) /\ pass' = pass \ {i} /\ UNCHANGED mu
  <2>1. TypeOK'
    BY <1>1, <1>4 DEF TypeOK, Retained
  <2>2. Locked' /\ NoneStranded'
    BY <1>1, <1>4 DEF IInv, Locked, NoneStranded, Settled, TypedPending, Pending, Retained
  <2> QED
    BY <1>2, <2>1, <2>2 DEF IInv
<1> QED
  BY <1>3, <1>4 DEF LockSettled

LEMMA WithdrawPreserves ==
    ASSUME IInv, Withdraw
    PROVE  IInv'
<1> DEFINE i == mu.id
<1>1. /\ TypeOK /\ mu # None /\ mu.by = "owner" /\ i \in TypedPending
      /\ asks' = [asks EXCEPT ![i] = None] /\ named' = NamesWithout(i)
      /\ pass' = pass \ {i} /\ mu' = None
      /\ UNCHANGED <<issued, pin, verdict, due, req, resp, told>>
  BY DEF IInv, Locked, Withdraw, Free, rules
<1>2. i \in Pending /\ i \in Retained /\ i \in ID
  BY <1>1 DEF TypedPending, Pending, Retained
<1>3. pin = None /\ \A c \in Call : req[c].at # "admitting"
  BY <1>1, PermissionsAssumption DEF IInv, Locked
<1> HIDE DEF i
<1>4. /\ asks' \in [ID -> Record \cup {None}] /\ Retained' = Retained \ {i}
      /\ Pending' = Pending \ {i} /\ \A j \in Retained' : asks'[j] = asks[j]
  BY <1>1, <1>2, RemoveFacts
<1>5. TypeOK'
  BY <1>1, <1>3, <1>4 DEF TypeOK, NamesWithout
<1>6. Locked' /\ Pinned'
  BY <1>1, <1>3 DEF Locked, Pinned
<1>7. Current'
  BY <1>1, CallsStand
<1>8. ToldNamed'
  BY <1>1, <1>2, <1>4 DEF IInv, TypeOK, ToldNamed, Answered, NamesWithout
<1>9. Owed'
  BY <1>1, <1>4 DEF IInv, Owed, Owes
<1>10. NoneStranded' /\ WrittenOnce'
  BY <1>1, <1>4 DEF IInv, NoneStranded, WrittenOnce, TypedPending, Pending
<1> QED
  BY <1>5, <1>6, <1>7, <1>8, <1>9, <1>10 DEF IInv

LEMMA OperatorAnswerPreserves ==
    ASSUME IInv, NEW i \in ID, NEW option \in Options, OperatorAnswer(i, option)
    PROVE  IInv'
<1>1. /\ TypeOK /\ mu = None /\ i \in Pending
      /\ asks' = [asks EXCEPT ![i].option = option, ![i].by = "operator"]
      /\ UNCHANGED <<named, issued, mu, pin, verdict, due, pass, req, resp, told>>
  BY DEF IInv, OperatorAnswer, Free, lock, rules
<1>2. /\ asks' \in [ID -> Record \cup {None}] /\ Retained' = Retained /\ Pending' = Pending \ {i}
      /\ \A j \in Retained : j # i => asks'[j] = asks[j]
      /\ asks'[i].effect = asks[i].effect /\ asks'[i].option = option
      /\ asks'[i].written = asks[i].written
  BY <1>1, AnswerFacts
<1>3. i \in Retained /\ asks[i].option = None /\ asks[i].written = 0
  <2>1. i \in Retained /\ asks[i].option = None /\ asks[i] \in Record
    BY <1>1 DEF TypeOK, Pending, Retained
  <2>2. asks[i].written <= 0 /\ asks[i].written \in 0..2
    BY <2>1, NoneAssumption DEF IInv, WrittenOnce, Record, Options
  <2> QED
    BY <2>1, <2>2
<1>4. TypeOK'
  BY <1>1, <1>2, <1>3 DEF TypeOK
<1>5. Locked' /\ Pinned'
  BY <1>1 DEF IInv, Locked, Pinned
<1>6. Current'
  BY <1>1 DEF IInv, Current, CurrentOf
<1>7. ToldNamed' /\ WrittenOnce'
  <2>1. ToldNamed'
    BY <1>1, <1>2 DEF IInv, ToldNamed, Answered
  <2>2. asks'[i].written <= IF asks'[i].option = "allow" THEN 1 ELSE 0
    BY <1>2, <1>3
  <2>3. WrittenOnce'
    BY <1>2, <2>2 DEF IInv, WrittenOnce
  <2> QED
    BY <2>1, <2>3
<1>8. NoneStranded'
  BY <1>1, <1>2, <1>3 DEF IInv, NoneStranded, TypedPending, Pending
<1>9. \A a \in Reply : Owes(a) => resp[a].id # i
  BY <1>3, NoneAssumption DEF IInv, Owed, Options
<1>10. Owed'
  <2>1. \A a \in Reply : (Owes(a)' <=> Owes(a))
    BY <1>1 DEF Owes
  <2>2. \A a \in Reply : Owes(a) /\ resp[a].id \in Retained => asks'[resp[a].id] = asks[resp[a].id]
    BY <1>2, <1>9
  <2>3. ASSUME NEW a \in Reply, Owes(a)', resp'[a].id \in Retained'
        PROVE  /\ asks'[resp'[a].id].option = "allow" /\ asks'[resp'[a].id].by = "responder"
               /\ asks'[resp'[a].id].written = 0
    <3>1. resp'[a].id = resp[a].id /\ Owes(a) /\ resp[a].id \in Retained
      BY <1>1, <1>2, <2>1, <2>3
    <3>2. asks'[resp[a].id] = asks[resp[a].id]
      BY <2>2, <3>1
    <3> QED
      BY <3>1, <3>2 DEF IInv, Owed
  <2>4. \A a, b \in Reply : Owes(a)' /\ Owes(b)' /\ resp'[a].id = resp'[b].id => a = b
    BY <1>1, <2>1 DEF IInv, Owed
  <2>5. \A a \in Reply : resp'[a].at = "effect" => resp'[a].id \in 1..issued' /\ resp'[a].effect \in FirstUse
    BY <1>1 DEF IInv, Owed
  <2> QED
    BY <2>3, <2>4, <2>5 DEF Owed
<1> QED
  BY <1>4, <1>5, <1>6, <1>7, <1>8, <1>10 DEF IInv

(* Retire and Release remove a first-use question, which no request names.     *)
LEMMA FirstUseRemoved ==
    ASSUME IInv, NEW i \in Retained, asks[i].effect \in FirstUse, mu = None,
           asks' = [asks EXCEPT ![i] = None],
           UNCHANGED <<named, issued, mu, pin, verdict, due, pass, req, resp, told>>
    PROVE  IInv'
<1>1. TypeOK /\ i \in ID /\ asks[i].effect \notin Typed
  BY PermissionsAssumption DEF IInv, Retained
<1>2. /\ asks' \in [ID -> Record \cup {None}] /\ Retained' = Retained \ {i}
      /\ Pending' = Pending \ {i} /\ \A j \in Retained' : asks'[j] = asks[j]
  BY <1>1, RemoveFacts
<1>3. \A k \in Key : named[k] # i
  BY <1>1, NoneAssumption DEF TypeOK
<1>4. TypeOK'
  BY <1>1, <1>2, <1>3 DEF TypeOK
<1>5. Locked' /\ Pinned'
  BY DEF IInv, Locked, Pinned
<1>6. Current'
  BY CallsStand
<1>7. ToldNamed'
  BY <1>2, <1>3 DEF IInv, TypeOK, ToldNamed, Answered
<1>8. Owed'
  BY <1>2 DEF IInv, Owed, Owes
<1>9. NoneStranded' /\ WrittenOnce'
  BY <1>2 DEF IInv, NoneStranded, WrittenOnce, TypedPending
<1> QED
  BY <1>4, <1>5, <1>6, <1>7, <1>8, <1>9 DEF IInv

LEMMA RetirePreserves ==
    ASSUME IInv, NEW i \in ID, Retire(i)
    PROVE  IInv'
BY FirstUseRemoved DEF Retire, Free, lock, rules

LEMMA ReleasePreserves ==
    ASSUME IInv, NEW i \in ID, Release(i)
    PROVE  IInv'
BY FirstUseRemoved DEF Release, Free, Answered, lock, rules

LEMMA PinPreserves ==
    ASSUME IInv, NEW i \in ID, Pin(i)
    PROVE  IInv'
<1>1. /\ TypeOK /\ mu = None /\ pin = None /\ Completable(i)
      /\ mu' = [by |-> "operator", id |-> i]
      /\ pin' = [id |-> i, effect |-> asks[i].effect, fresh |-> TRUE]
      /\ UNCHANGED <<asks, named, issued, verdict, due, pass, req, resp, told>>
  BY DEF IInv, Pin, PinLocked, Free, book, rules
<1>2. asks[i].effect \in Effect
  BY <1>1 DEF TypeOK, Completable, Answered, Retained, Record
<1>3. /\ mu' \in [by : Call \cup {"owner", "operator", "responder"}, id : ID] /\ mu' # None
      /\ pin' \in Pins /\ pin' # None
      /\ mu'.by = "operator" /\ pin'.id = i /\ "operator" \notin Call
  <2>1. mu' \in [by : Call \cup {"owner", "operator", "responder"}, id : ID] /\ mu'.by = "operator"
    BY <1>1
  <2>2. pin' \in Pins /\ pin'.id = i
    BY <1>1, <1>2 DEF Pins
  <2> QED
    BY <2>1, <2>2, NoneAssumption, PermissionsAssumption DEF Pins
<1>4. TypeOK'
  BY <1>1, <1>3 DEF TypeOK, Pins, Retained
<1>5. Locked' /\ Pinned'
  BY <1>1, <1>3 DEF IInv, Locked, Pinned, Completable, Answered, Pending, Retained
<1>6. Current' /\ ToldNamed' /\ Owed' /\ NoneStranded' /\ WrittenOnce'
  BY <1>1 DEF IInv, Current, CurrentOf, ToldNamed, Owed, Owes, NoneStranded, WrittenOnce,
              TypedPending, Answered, Pending, Retained
<1> QED
  BY <1>4, <1>5, <1>6 DEF IInv

LEMMA CompletePreserves ==
    ASSUME IInv, Complete
    PROVE  IInv'
<1> DEFINE i == pin.id
<1>1. /\ TypeOK /\ pin # None /\ pin.effect \in Effect /\ i \in ID /\ Completable(i)
      /\ mu # None /\ mu.by = "operator" /\ pin' = None /\ mu' = None
      /\ UNCHANGED <<named, issued, pass, resp, told>>
  BY DEF IInv, TypeOK, Locked, Pinned, Complete
<1>2. \A c \in Call : req[c].at # "admitting"
  BY <1>1, PermissionsAssumption DEF IInv, Locked
<1> HIDE DEF i
<1>3. CASE Commit(pin.effect, "decided") /\ Write(i)
  <2>1. i \in Retained /\ asks[i].written = 0 /\ asks[i].option = "allow" /\ asks[i].by = "operator"
    BY <1>1 DEF Completable, Answered
  <2>2. "decided" \in Verdict
    BY DEF Verdict
  <2>3. /\ asks' \in [ID -> Record \cup {None}] /\ \A j \in ID : asks'[j] = None <=> asks[j] = None
        /\ \A j \in Retained :
              /\ asks'[j].effect = asks[j].effect /\ asks'[j].option = asks[j].option
              /\ asks'[j].by = asks[j].by
              /\ asks'[j].written = IF j = i THEN asks[j].written + 1 ELSE asks[j].written
    BY <1>1, <1>3, <2>1, WriteFacts
  <2>4. Retained' = Retained /\ Pending' = Pending /\ Answered' = Answered
    BY <2>3 DEF Retained, Pending, Answered
  <2>5. /\ verdict' \in [Effect -> Verdict] /\ due' = TRUE /\ req' \in [Call -> Requests]
        /\ \A c \in Call :
              /\ req'[c].at = req[c].at /\ req'[c].key = req[c].key
              /\ req'[c].effect = req[c].effect /\ req'[c].outcome = req[c].outcome
              /\ req[c].at # "idle" /\ req[c].outcome = "open" => ~req'[c].fresh
    BY <1>1, <1>3, <2>2, CommitFacts
  <2>6. TypeOK'
    BY <1>1, <2>3, <2>4, <2>5 DEF TypeOK, Requests
  <2>7. Locked' /\ Pinned'
    BY <1>1, <1>2, <2>5 DEF Locked, Pinned
  <2>8. Current'
    BY <1>2, <2>5 DEF IInv, Current, CurrentOf
  <2>9. ToldNamed' /\ NoneStranded'
    BY <1>1, <2>4, <2>5 DEF IInv, ToldNamed, NoneStranded
  <2>10. Owed'
    BY <1>1, <2>1, <2>3, <2>4 DEF IInv, Owed, Owes
  <2>11. WrittenOnce'
    BY <2>1, <2>3, <2>4 DEF IInv, WrittenOnce
  <2> QED
    BY <2>6, <2>7, <2>8, <2>9, <2>10, <2>11 DEF IInv
<1>4. CASE UNCHANGED <<verdict, due, req, asks>>
  <2>1. TypeOK'
    BY <1>1, <1>4 DEF TypeOK, Retained
  <2>2. Locked' /\ Pinned'
    BY <1>1, <1>2, <1>4 DEF Locked, Pinned
  <2> QED
    BY <1>1, <1>4, <2>1, <2>2, RecordsStand, RulesStand, CallsStand DEF IInv
<1> QED
  BY <1>3, <1>4 DEF Complete, i

LEMMA AskFirstUsePreserves ==
    ASSUME IInv, NEW e \in FirstUse, AskFirstUse(e)
    PROVE  IInv'
<1>1. /\ TypeOK /\ New(e) /\ e \in Effect /\ e \notin Typed /\ mu = None
      /\ UNCHANGED <<named, mu, pin, verdict, due, pass, req, resp, told>>
  BY PermissionsAssumption DEF IInv, AskFirstUse, Effect, Free, lock, rules
<1>2. /\ asks' \in [ID -> Record \cup {None}] /\ issued' \in 0..MaxIssued
      /\ issued + 1 \in ID \ Retained /\ issued' = issued + 1
      /\ Retained' = Retained \cup {issued + 1} /\ Retained' \subseteq 1..issued'
      /\ Pending' = Pending \cup {issued + 1}
      /\ \A j \in Retained : asks'[j] = asks[j]
      /\ asks'[issued + 1].effect = e /\ asks'[issued + 1].written = 0
  BY <1>1, NewFacts
<1>3. TypeOK'
  BY <1>1, <1>2 DEF TypeOK
<1>4. Locked' /\ Pinned'
  BY <1>1 DEF IInv, Locked, Pinned
<1>5. ToldNamed'
  BY <1>1, <1>2 DEF IInv, TypeOK, ToldNamed, Answered
<1>6. Owed'
  BY <1>1, NewIsNobodys DEF IInv
<1>7. NoneStranded' /\ WrittenOnce'
  BY <1>1, <1>2 DEF IInv, NoneStranded, WrittenOnce, TypedPending, Pending
<1> QED
  BY <1>1, <1>3, <1>4, <1>5, <1>6, <1>7, CallsStand DEF IInv

LEMMA AnswerPreserves ==
    ASSUME IInv, NEW a \in Reply, NEW i \in ID, NEW option \in Options, Answer(a, i, option)
    PROVE  IInv'
<1>1. /\ TypeOK /\ resp[a].at = "idle" /\ mu = None /\ mu' = None /\ i \in Retained
      /\ UNCHANGED <<named, issued, pin, verdict, due, pass, req, told>>
  BY DEF IInv, Answer, Free, Unlocked, rules
<1>2. /\ resp \in [Reply -> Answers] /\ asks[i] \in Record
      /\ (i \in Pending <=> asks[i].option = None)
  BY <1>1 DEF TypeOK, Answers, Pending, Retained
<1>3. Locked' /\ Pinned'
  BY <1>1 DEF IInv, Locked, Pinned
<1>4. CASE resp' = [resp EXCEPT ![a].at = "asking"] /\ UNCHANGED asks
  <2>1. /\ resp' \in [Reply -> Answers] /\ resp'[a].at = "asking"
        /\ \A b \in Reply \ {a} : resp'[b] = resp[b]
    <3> DEFINE new == [resp[a] EXCEPT !.at = "asking"]
    <3>1. new \in Answers /\ new.at = "asking"
      BY <1>2 DEF Answers
    <3>2. resp' = [resp EXCEPT ![a] = new]
      BY <1>4
    <3> HIDE DEF new
    <3> QED
      BY <1>2, <3>1, <3>2
  <2>2. TypeOK'
    BY <1>1, <1>4, <2>1 DEF TypeOK, Answers, Retained
  <2>3. Owed'
    BY <1>1, <1>4, <2>1 DEF IInv, Owed, Owes, Retained
  <2>4. ToldNamed' /\ WrittenOnce'
    BY <1>1, <1>4 DEF IInv, ToldNamed, WrittenOnce, Answered, Pending, Retained
  <2> QED
    BY <1>1, <1>3, <1>4, <2>2, <2>3, <2>4, RulesStand, CallsStand DEF IInv
<1> DEFINE new == [at |-> "effect", id |-> i, effect |-> asks[i].effect,
                   firstAllow |-> i \in Pending /\ option = "allow"]
<1>5. CASE /\ resp' = [resp EXCEPT ![a] = new]
           /\ asks[i].effect \in FirstUse
           /\ asks' = IF i \in Pending
                      THEN [asks EXCEPT ![i].option = option, ![i].by = "responder"]
                      ELSE asks
  <2>1. /\ resp' \in [Reply -> Answers] /\ resp'[a] = new
        /\ \A b \in Reply \ {a} : resp'[b] = resp[b]
    BY <1>2, <1>5 DEF Answers
  <2>2. /\ asks' \in [ID -> Record \cup {None}] /\ Retained' = Retained
        /\ Pending' = Pending \ {i}
        /\ \A j \in Retained : j # i => asks'[j] = asks[j]
        /\ asks'[i].effect = asks[i].effect /\ asks'[i].written = asks[i].written
        /\ (i \notin Pending => asks'[i] = asks[i])
        /\ (i \in Pending => asks'[i].option = option /\ asks'[i].by = "responder")
    <3>1. CASE i \in Pending
      BY <1>1, <1>5, <3>1, AnswerFacts
    <3>2. CASE i \notin Pending
      BY <1>1, <1>5, <3>2 DEF TypeOK, Retained, Pending
    <3> QED
      BY <3>1, <3>2
  <2>3. i \in 1..issued /\ (i \in Pending => asks[i].written = 0)
    <3>1. i \in 1..issued /\ asks[i].written \in 0..2
      BY <1>1, <1>2 DEF TypeOK, Record
    <3>2. i \in Pending => asks[i].written <= 0
      BY <1>1, <1>2, NoneAssumption DEF IInv, WrittenOnce, Options
    <3> QED
      BY <3>1, <3>2
  <2>4. TypeOK'
    BY <1>1, <2>1, <2>2 DEF TypeOK, Answers
  <2>5. ToldNamed' /\ NoneStranded'
    <3>1. Answered \subseteq Answered'
      BY <2>2 DEF Answered
    <3>2. TypedPending' \subseteq TypedPending /\ \A j \in TypedPending' : asks'[j].effect = asks[j].effect
      BY <2>2 DEF TypedPending, Pending
    <3> QED
      BY <1>1, <3>1, <3>2 DEF IInv, ToldNamed, NoneStranded
  <2>6. WrittenOnce'
    <3>1. \A j \in Retained : j # i =>
             asks'[j].written <= IF asks'[j].option = "allow" THEN 1 ELSE 0
      BY <2>2 DEF IInv, WrittenOnce
    <3>2. asks'[i].written <= IF asks'[i].option = "allow" THEN 1 ELSE 0
      BY <1>1, <2>2, <2>3 DEF IInv, WrittenOnce
    <3> QED
      BY <2>2, <3>1, <3>2 DEF WrittenOnce
  <2>7. Owed'
    <3>1. \A b \in Reply : Owes(b) /\ resp[b].id \in Retained => i \notin Pending \/ resp[b].id # i
      BY <1>2, NoneAssumption DEF IInv, Owed, Options
    <3>2. \A b \in Reply \ {a} :
             /\ Owes(b)' <=> Owes(b)
             /\ Owes(b) /\ resp[b].id \in Retained => asks'[resp[b].id] = asks[resp[b].id]
      BY <2>1, <2>2, <3>1 DEF Owes
    <3>3. /\ resp'[a].id = i /\ resp'[a].effect \in FirstUse
          /\ Owes(a)' <=> i \in Pending /\ option = "allow"
      BY <1>5, <2>1 DEF Owes
    <3>4. \A b \in Reply : resp'[b].at = "effect" => resp'[b].id \in 1..issued' /\ resp'[b].effect \in FirstUse
      BY <1>1, <2>1, <2>3, <3>3 DEF IInv, Owed
    <3>5. \A b \in Reply : Owes(b)' /\ resp'[b].id \in Retained' =>
             /\ asks'[resp'[b].id].option = "allow" /\ asks'[resp'[b].id].by = "responder"
             /\ asks'[resp'[b].id].written = 0
      BY <2>1, <2>2, <2>3, <3>2, <3>3 DEF IInv, Owed
    <3>6. \A b, d \in Reply : Owes(b)' /\ Owes(d)' /\ resp'[b].id = resp'[d].id => b = d
      BY <1>1, <2>1, <3>1, <3>2, <3>3 DEF IInv, Owed
    <3> QED
      BY <3>4, <3>5, <3>6 DEF Owed
  <2> QED
    BY <1>1, <1>3, <2>4, <2>5, <2>6, <2>7, CallsStand DEF IInv
<1> QED
  BY <1>4, <1>5 DEF Answer, MayAnswer, WasPending

LEMMA ApplyEffectPreserves ==
    ASSUME IInv, NEW a \in Reply, ApplyEffect(a)
    PROVE  IInv'
<1> DEFINE i == resp[a].id
           e == resp[a].effect
<1>1. /\ TypeOK /\ resp[a].at = "effect" /\ i \in 1..issued /\ i \in ID /\ e \in Effect
      /\ resp' = [resp EXCEPT ![a] = Quiet]
      /\ UNCHANGED <<named, issued, mu, pass, told>>
  <2>1. TypeOK /\ resp[a].at = "effect" /\ i \in 1..issued /\ e \in FirstUse
    BY DEF IInv, Owed, ApplyEffect
  <2>2. i \in ID /\ e \in Effect
    BY <2>1, PermissionsAssumption DEF TypeOK, ID, Effect
  <2> QED
    BY <2>1, <2>2 DEF ApplyEffect
<1>2. /\ resp' \in [Reply -> Answers] /\ resp'[a].at = "idle"
      /\ \A b \in Reply \ {a} : resp'[b] = resp[b]
  BY <1>1, RestTypes DEF TypeOK, Answers, Quiet
<1> HIDE DEF i, e
<1>3. CASE UNCHANGED <<verdict, due, req, pin, asks>>
  <2>1. TypeOK'
    BY <1>1, <1>2, <1>3 DEF TypeOK, Answers, Retained
  <2>2. Owed'
    BY <1>1, <1>2, <1>3 DEF IInv, Owed, Owes, Retained
  <2>3. ToldNamed' /\ WrittenOnce'
    BY <1>1, <1>3 DEF IInv, ToldNamed, WrittenOnce, Answered, Pending, Retained
  <2> QED
    BY <1>1, <1>3, <2>1, <2>2, <2>3, HolderStands, RulesStand, CallsStand DEF IInv
<1>4. CASE resp[a].firstAllow /\ Commit(e, "decided") /\ Overtaken /\ Write(i)
  <2>1. /\ Owes(a)
        /\ i \in Retained => /\ asks[i].option = "allow" /\ asks[i].by = "responder"
                             /\ asks[i].written = 0
    BY <1>1, <1>4 DEF IInv, Owed, Owes, i
  <2>2. "decided" \in Verdict
    BY DEF Verdict
  <2>3. /\ asks' \in [ID -> Record \cup {None}] /\ \A j \in ID : asks'[j] = None <=> asks[j] = None
        /\ \A j \in Retained :
              /\ asks'[j].effect = asks[j].effect /\ asks'[j].option = asks[j].option
              /\ asks'[j].by = asks[j].by
              /\ asks'[j].written = IF j = i THEN asks[j].written + 1 ELSE asks[j].written
    BY <1>1, <1>4, <2>1, WriteFacts
  <2>4. /\ Retained' = Retained /\ Pending' = Pending /\ Answered' = Answered
        /\ TypedPending' = TypedPending
    BY <2>3 DEF Retained, Pending, Answered, TypedPending
  <2>5. /\ verdict' \in [Effect -> Verdict] /\ due' = TRUE /\ req' \in [Call -> Requests]
        /\ \A c \in Call :
              /\ req'[c].at = req[c].at /\ req'[c].key = req[c].key
              /\ req'[c].effect = req[c].effect /\ req'[c].outcome = req[c].outcome
              /\ req[c].at # "idle" /\ req[c].outcome = "open" => ~req'[c].fresh
    BY <1>1, <1>4, <2>2, CommitFacts
  <2>6. /\ pin' \in Pins \cup {None} /\ (pin' = None <=> pin = None)
        /\ pin # None => pin'.id = pin.id
    BY <1>1, <1>4, OvertakenFacts
  <2>7. TypeOK'
    BY <1>1, <1>2, <2>3, <2>4, <2>5, <2>6 DEF TypeOK, Requests, Answers, Pins
  <2>8. Locked'
    BY <1>1, <2>4, <2>5, <2>6 DEF IInv, Locked
  <2>9. Pinned'
    <3>1. ASSUME pin # None PROVE Completable(pin.id)'
      <4>1. Completable(pin.id) /\ pin.id # i /\ pin'.id = pin.id
        BY <2>1, <2>6, <3>1 DEF IInv, Pinned, Completable, Answered
      <4> QED
        BY <2>3, <2>4, <4>1 DEF Completable, Answered
    <3> QED
      BY <2>6, <3>1 DEF Pinned
  <2>10. Current'
    BY <2>5 DEF IInv, Current, CurrentOf
  <2>11. ToldNamed' /\ NoneStranded'
    BY <1>1, <2>4, <2>5 DEF IInv, ToldNamed, NoneStranded
  <2>12. Owed'
    <3>1. \A b \in Reply : Owes(b)' => b # a /\ Owes(b) /\ resp[b].id # i
      BY <1>1, <1>2, <2>1 DEF IInv, Owed, Owes, i
    <3>2. \A b \in Reply : resp'[b].at = "effect" => resp'[b].id \in 1..issued' /\ resp'[b].effect \in FirstUse
      BY <1>1, <1>2 DEF IInv, Owed
    <3>3. \A b \in Reply : Owes(b)' /\ resp'[b].id \in Retained' =>
             /\ asks'[resp'[b].id].option = "allow" /\ asks'[resp'[b].id].by = "responder"
             /\ asks'[resp'[b].id].written = 0
      BY <1>2, <2>3, <2>4, <3>1 DEF IInv, Owed
    <3>4. \A b, d \in Reply : Owes(b)' /\ Owes(d)' /\ resp'[b].id = resp'[d].id => b = d
      BY <1>2, <3>1 DEF IInv, Owed
    <3> QED
      BY <3>2, <3>3, <3>4 DEF Owed
  <2>13. WrittenOnce'
    BY <2>1, <2>3, <2>4 DEF IInv, WrittenOnce
  <2> QED
    BY <2>7, <2>8, <2>9, <2>10, <2>11, <2>12, <2>13 DEF IInv
<1> QED
  BY <1>3, <1>4 DEF ApplyEffect, WritesRule, i, e

LEMMA AskAnsweringPreserves ==
    ASSUME IInv, NEW a \in Reply, AskAnswering(a)
    PROVE  IInv'
<1>1. /\ TypeOK /\ resp' = [resp EXCEPT ![a] = Quiet]
      /\ UNCHANGED <<asks, named, issued, mu, pin, verdict, due, pass, req, told>>
  BY DEF IInv, AskAnswering, book, lock, rules
<1>2. /\ resp' \in [Reply -> Answers] /\ resp'[a].at = "idle"
      /\ \A b \in Reply \ {a} : resp'[b] = resp[b]
  BY <1>1, RestTypes DEF TypeOK, Answers, Quiet
<1>3. TypeOK'
  BY <1>1, <1>2 DEF TypeOK, Answers, Retained
<1>4. Owed'
  BY <1>1, <1>2 DEF IInv, Owed, Owes, Retained
<1>5. ToldNamed' /\ WrittenOnce'
  BY <1>1 DEF IInv, ToldNamed, WrittenOnce, Answered, Pending, Retained
<1> QED
  BY <1>1, <1>3, <1>4, <1>5, HolderStands, RulesStand, CallsStand DEF IInv

LEMMA RestartPreserves ==
    ASSUME IInv, Restart
    PROVE  IInv'
<1>1. /\ TypeOK /\ mu' = None /\ pin' = None /\ due' = TRUE /\ pass' = {}
      /\ req' = [c \in Call |-> Idle] /\ resp' = [b \in Reply |-> Quiet]
      /\ UNCHANGED <<asks, named, issued, verdict, told>>
  BY DEF IInv, Restart, book
<1>2. /\ req' \in [Call -> Requests] /\ resp' \in [Reply -> Answers]
      /\ \A c \in Call : req'[c].at = "idle"
      /\ \A b \in Reply : resp'[b].at = "idle"
  BY <1>1, RestTypes DEF Idle, Quiet
<1>3. TypeOK'
  BY <1>1, <1>2 DEF TypeOK, Requests, Answers, Retained
<1>4. Locked' /\ Pinned' /\ Current' /\ Owed' /\ NoneStranded'
  BY <1>1, <1>2 DEF Locked, Pinned, Current, CurrentOf, Owed, Owes, NoneStranded
<1>5. ToldNamed' /\ WrittenOnce'
  BY <1>1 DEF IInv, ToldNamed, WrittenOnce, Answered, Pending, Retained
<1> QED
  BY <1>3, <1>4, <1>5 DEF IInv

-----------------------------------------------------------------------------
(* The invariant holds initially and every step keeps it. *)

LEMMA InitIInv == Init => IInv
<1> SUFFICES ASSUME Init PROVE IInv
  OBVIOUS
<1>1. Retained = {} /\ \A c \in Call : req[c] = Idle
  BY DEF Init, Retained
<1>2. TypeOK
  BY <1>1, RestTypes, PermissionsAssumption DEF Init, TypeOK, Requests, Answers, Verdict
<1>3. Locked /\ Pinned /\ Current
  BY <1>1 DEF Init, Locked, Pinned, Current, CurrentOf, Idle
<1>4. ToldNamed /\ Owed /\ NoneStranded /\ WrittenOnce
  BY <1>1 DEF Init, ToldNamed, Owed, Owes, Quiet, NoneStranded, WrittenOnce, TypedPending, Pending
<1> QED
  BY <1>2, <1>3, <1>4 DEF IInv

LEMMA NextIInv == IInv /\ [Next]_vars => IInv'
<1> SUFFICES ASSUME IInv, [Next]_vars PROVE IInv'
  OBVIOUS
<1>1. CASE \/ \E e \in Effect, v \in Verdict : ChangeRule(e, v)
           \/ \E c \in Call, k \in Key, e \in Typed : Prepare(c, k, e)
           \/ \E c \in Call : Abandon(c) \/ Replay(c) \/ LockAsk(c) \/ Admit(c)
  BY <1>1, ChangeRulePreserves, PreparePreserves, AbandonPreserves, ReplayPreserves,
     LockAskPreserves, AdmitPreserves
<1>2. CASE \/ \E k \in Key : Observe(k)
           \/ List \/ Withdraw \/ Complete \/ Restart
           \/ \E i \in ID : LockSettled(i) \/ Retire(i) \/ Pin(i) \/ Release(i)
  BY <1>2, ObservePreserves, ListPreserves, WithdrawPreserves, CompletePreserves, RestartPreserves,
     LockSettledPreserves, RetirePreserves, PinPreserves, ReleasePreserves
<1>3. CASE \/ \E i \in ID, option \in Options : OperatorAnswer(i, option)
           \/ \E e \in FirstUse : AskFirstUse(e)
           \/ \E a \in Reply, i \in ID, option \in Options : Answer(a, i, option)
           \/ \E a \in Reply : ApplyEffect(a) \/ AskAnswering(a)
  BY <1>3, OperatorAnswerPreserves, AskFirstUsePreserves, AnswerPreserves, ApplyEffectPreserves,
     AskAnsweringPreserves
<1>4. CASE UNCHANGED vars
  BY <1>4, RecordsStand, HolderStands, RulesStand, CallsStand DEF vars, IInv, TypeOK, Retained
<1> QED
  BY <1>1, <1>2, <1>3, <1>4 DEF Next

(* The inductive invariant holds of every reachable state.                    *)
THEOREM Invariance == Spec => []IInv
BY InitIInv, NextIInv, PTL DEF Spec

(* Every request key names a retained typed occurrence, for any number of     *)
(* calls, keys and effects: a program's own request is never gone             *)
(* (ObserveTypedPermission).                                                 *)
THEOREM TypeCorrect == Spec => []TypeOK
<1>1. IInv => TypeOK
  BY DEF IInv
<1> QED
  BY <1>1, Invariance, PTL

(* No pending request the rules have settled is left behind: the recheck of     *)
(* the evaluated revision inside the edit (askTypedPermission) and the         *)
(* listing that follows every commit see to it.                               *)
THEOREM NoneLeftBehind == Spec => []NoneStranded
<1>1. IInv => NoneStranded
  BY DEF IInv
<1> QED
  BY <1>1, Invariance, PTL

(* No answer writes its rule twice and no refusal writes one, whoever answers: *)
(* operator, responder, or both with calls that overlap.                      *)
THEOREM RuleWrittenOnce == Spec => []WrittenOnce
<1>1. IInv => WrittenOnce
  BY DEF IInv
<1> QED
  BY <1>1, Invariance, PTL

-----------------------------------------------------------------------------
(* What a step may never do. *)

(* A step removes pending requests and first-use questions only, and what it    *)
(* leaves of an answered record is its answer.                                *)
RecordKept(i) ==
    IF asks'[i] = None
    THEN i \in TypedPending \/ asks[i].effect \in FirstUse
    ELSE /\ asks'[i].effect = asks[i].effect
         /\ asks[i].option # None => asks'[i].option = asks[i].option

LEMMA StepKeepsRecords ==
    ASSUME IInv, Next, NEW i \in Retained
    PROVE  RecordKept(i)
<1>1. TypeOK /\ asks \in [ID -> Record \cup {None}] /\ i \in ID /\ asks[i] # None
  BY DEF IInv, TypeOK, Retained
<1>2. CASE UNCHANGED asks
  BY <1>1, <1>2 DEF RecordKept
<1>3. ASSUME NEW e \in Effect, New(e) PROVE RecordKept(i)
  BY <1>1, <1>3, NewFacts DEF RecordKept
<1>4. CASE Withdraw
  BY <1>1, <1>4 DEF IInv, Locked, Withdraw, Free, RecordKept
<1>5. ASSUME NEW j \in ID, Retire(j) \/ Release(j) PROVE RecordKept(i)
  BY <1>1, <1>5 DEF Retire, Release, RecordKept
<1>6. ASSUME NEW j \in Pending, NEW option \in Options, NEW by \in {"operator", "responder"},
             asks' = [asks EXCEPT ![j].option = option, ![j].by = by]
      PROVE  RecordKept(i)
  <2>1. asks[j].option = None
    BY DEF Pending
  <2> QED
    BY <1>1, <1>6, <2>1, AnswerFacts DEF RecordKept, Retained
<1>7. ASSUME NEW j \in ID, Write(j), j \in Retained => asks[j].written < 2
      PROVE  RecordKept(i)
  BY <1>1, <1>7, WriteFacts DEF RecordKept
<1>8. CASE Complete
  <2>1. pin.id \in ID /\ (Write(pin.id) \/ UNCHANGED asks)
    BY <1>8 DEF IInv, TypeOK, Complete
  <2>2. asks[pin.id].written = 0
    BY <1>8 DEF IInv, Pinned, Completable, Complete
  <2> QED
    BY <1>2, <1>7, <2>1, <2>2
<1>9. ASSUME NEW a \in Reply, ApplyEffect(a) PROVE RecordKept(i)
  <2>1. CASE UNCHANGED asks
    BY <1>2, <2>1
  <2>2. CASE resp[a].firstAllow /\ Write(resp[a].id)
    <3>1. resp[a].id \in 1..issued /\ Owes(a)
      BY <1>9, <2>2 DEF IInv, Owed, Owes, ApplyEffect
    <3>2. resp[a].id \in ID
      BY <1>1, <3>1, PermissionsAssumption DEF TypeOK, ID
    <3>3. resp[a].id \in Retained => asks[resp[a].id].written = 0
      BY <3>1 DEF IInv, Owed
    <3> QED
      BY <1>7, <2>2, <3>2, <3>3
  <2> QED
    BY <1>9, <2>1, <2>2 DEF ApplyEffect, WritesRule
<1>10. ASSUME NEW a \in Reply, NEW j \in ID, NEW option \in Options, Answer(a, j, option)
       PROVE  RecordKept(i)
  <2>1. \/ UNCHANGED asks
        \/ j \in Pending /\ asks' = [asks EXCEPT ![j].option = option, ![j].by = "responder"]
    BY <1>10, Zenon DEF Answer
  <2> QED
    BY <1>2, <1>6, <2>1
<1>11. ASSUME NEW c \in Call, Admit(c) PROVE RecordKept(i)
  <2>1. UNCHANGED asks \/ New(req[c].effect)
    BY <1>11 DEF Admit, book
  <2>2. req[c].effect \in Effect
    BY <1>11 DEF IInv, Current, CurrentOf, Admit, Effect
  <2> QED
    BY <1>2, <1>3, <2>1, <2>2
<1>12. ASSUME NEW e \in FirstUse, AskFirstUse(e) PROVE RecordKept(i)
  BY <1>3, <1>12 DEF AskFirstUse, Effect
<1>13. ASSUME NEW j \in ID, NEW option \in Options, OperatorAnswer(j, option) PROVE RecordKept(i)
  BY <1>6, <1>13 DEF OperatorAnswer
<1>14. CASE \/ \E e \in Effect, v \in Verdict : ChangeRule(e, v)
            \/ \E c \in Call, k \in Key, e \in Typed : Prepare(c, k, e)
            \/ \E c \in Call : Abandon(c) \/ Replay(c) \/ LockAsk(c)
            \/ \E k \in Key : Observe(k)
            \/ List \/ Restart
            \/ \E j \in ID : LockSettled(j) \/ Pin(j)
            \/ \E a \in Reply : AskAnswering(a)
  BY <1>2, <1>14 DEF ChangeRule, Prepare, Abandon, Replay, LockAsk, Observe, List, Restart,
                     LockSettled, Pin, AskAnswering, book
<1> QED
  BY <1>4, <1>5, <1>8, <1>9, <1>10, <1>11, <1>12, <1>13, <1>14 DEF Next

(* An answer to a typed request stays: the withdrawal asks inside its edit     *)
(* whether the request is pending still (WithdrawSettledPermission), and no    *)
(* record is answered twice.                                                  *)
THEOREM AnswersStay == Spec => AnswerKept
<1>1. IInv /\ [Next]_vars =>
         [\A i \in Answered : asks[i].effect \in Typed =>
             asks'[i] # None /\ asks'[i].option = asks[i].option]_vars
  <2> SUFFICES ASSUME IInv, Next, NEW i \in Answered, asks[i].effect \in Typed
               PROVE  asks'[i] # None /\ asks'[i].option = asks[i].option
    OBVIOUS
  <2>1. i \in Retained /\ asks[i].option # None /\ i \notin TypedPending
    BY DEF Answered, TypedPending, Pending
  <2> QED
    BY <2>1, StepKeepsRecords, PermissionsAssumption DEF RecordKept
<1> QED
  BY <1>1, Invariance, PTL DEF Spec, AnswerKept

(* A key that was told an answer is never told otherwise: a recorded            *)
(* occurrence is replayed whatever the rules say now, an answered one is not   *)
(* withdrawn, and a key keeps the occurrence it named.                        *)
THEOREM RepliesStand == Spec => ReplyStands
<1>1. IInv /\ [Next]_vars => [told \subseteq told']_vars
  <2> SUFFICES ASSUME IInv, Next PROVE told \subseteq told'
    OBVIOUS
  <2>1. ASSUME NEW k \in Key, Report(k, named[k]) PROVE told \subseteq told'
    BY <2>1 DEF IInv, ToldNamed, Report
  <2>2. ASSUME NEW k \in Key, named[k] = None, told \ {k} \subseteq told' PROVE told \subseteq told'
    BY <2>2 DEF IInv, ToldNamed
  <2>3. ASSUME NEW c \in Call, Replay(c) PROVE told \subseteq told'
    <3>1. req[c].key \in Key
      BY <2>3 DEF IInv, Current, CurrentOf, Replay
    <3>2. \/ Report(req[c].key, named[req[c].key]) \/ UNCHANGED told
          \/ ~Replays(c) /\ told' = told \ {req[c].key}
      BY <2>3 DEF Replay, ReportNamed
    <3> QED
      BY <2>1, <2>2, <3>1, <3>2 DEF Replays
  <2>4. ASSUME NEW c \in Call, Admit(c) PROVE told \subseteq told'
    <3>1. req[c].key \in Key
      BY <2>4 DEF IInv, Current, CurrentOf, Admit
    <3>2. UNCHANGED told \/ \E i \in Found(c) : Report(req[c].key, i)
      BY <2>4 DEF Admit
    <3>3. ASSUME NEW i \in Found(c), Report(req[c].key, i), ~Replays(c) PROVE told \subseteq told'
      <4>1. told \ {req[c].key} \subseteq told'
        BY <3>3 DEF Report
      <4> QED
        BY <2>2, <3>1, <3>3, <4>1 DEF Replays
    <3>4. ASSUME NEW i \in Found(c), Report(req[c].key, i), Replays(c) PROVE told \subseteq told'
      BY <2>1, <3>1, <3>4 DEF Found
    <3> QED
      BY <3>2, <3>3, <3>4
  <2>5. ASSUME NEW k \in Key, Observe(k) PROVE told \subseteq told'
    BY <2>1, <2>5 DEF Observe
  <2> QED
    BY <2>3, <2>4, <2>5 DEF Next, ChangeRule, Prepare, Abandon, LockAsk, List, Withdraw, Complete,
       Restart, LockSettled, Retire, Pin, Release, OperatorAnswer, AskFirstUse, Answer,
       ApplyEffect, AskAnswering
<1> QED
  BY <1>1, Invariance, PTL DEF Spec, ReplyStands

(* The rule of an operator's allow is written while the answer is retained:    *)
(* the edit that pins the record holds the Book until the rule is written      *)
(* (WithApplicationRecordContext), so that no retirement comes between.        *)
THEOREM RuleOfARetainedAllow == Spec => CompletedIsRetained
<1>1. IInv /\ [Next]_vars =>
         [pin # None /\ pin' = None /\ verdict' # verdict =>
             /\ pin.id \in Answered
             /\ asks[pin.id].option = "allow" /\ asks'[pin.id].written = 1]_vars
  <2> SUFFICES ASSUME IInv, Next, pin # None, pin' = None, verdict' # verdict
               PROVE  /\ pin.id \in Answered
                      /\ asks[pin.id].option = "allow" /\ asks'[pin.id].written = 1
    OBVIOUS
  <2>1. /\ TypeOK /\ pin.id \in ID /\ pin.id \in Answered /\ pin.id \in Retained
        /\ asks[pin.id].option = "allow" /\ asks[pin.id].written = 0
    BY DEF IInv, TypeOK, Pinned, Completable, Answered
  <2>2. \A e \in Effect, v \in Verdict : ~ChangeRule(e, v)
    BY <2>1, OvertakenFacts DEF ChangeRule
  <2>3. \A a \in Reply : ~ApplyEffect(a)
    BY <2>1, OvertakenFacts DEF ApplyEffect
  <2>4. Complete
    BY <2>2, <2>3 DEF Next, Prepare, Abandon, Replay, LockAsk, Admit, Observe, List, Withdraw,
       Restart, LockSettled, Retire, Pin, Release, OperatorAnswer, AskFirstUse, Answer,
       AskAnswering, rules
  <2>5. Write(pin.id)
    BY <2>4 DEF Complete
  <2>6. asks'[pin.id].written = asks[pin.id].written + 1
    BY <2>1, <2>5, WriteFacts
  <2> QED
    BY <2>1, <2>6
<1> QED
  BY <1>1, Invariance, PTL DEF Spec, CompletedIsRetained

=============================================================================
