-------------------------- MODULE QuestionContract --------------------------
(* What the catalogue and typed-permission questions of the Book promise     *)
(* their requesters and the person: one edit ends the questions whose time   *)
(* has passed and then makes at most one move.                               *)

CONSTANTS
    Name,       \* a requester scope with one of its request keys
    ID,         \* occurrences
    Option      \* what a person may answer

VARIABLES
    named,      \* the occurrence each admitted name stands for
    status      \* "unasked", "open", an answer, "dismissed" or "dropped"

vars == <<named, status>>

Init ==
    /\ named = {}
    /\ status = [i \in ID |-> "unasked"]

(* The names and statuses left when the occurrences D are dropped: a name of *)
(* a dropped occurrence admits a new one.                                    *)
Without(D) == {n \in named : n.id \notin D}

Dropping(D) == [i \in ID |-> IF i \in D THEN "dropped" ELSE status[i]]

Move(D, names, i, to) ==
    /\ named' = Without(D) \cup names
    /\ status' = [Dropping(D) EXCEPT ![i] = to]

Free(D, x) == \A n \in Without(D) : n.name # x

(* A new question, asked under a name that stands for none.                  *)
Ask(D, x, i) ==
    /\ Free(D, x) /\ status[i] = "unasked"
    /\ Move(D, {[name |-> x, id |-> i]}, i, "open")

(* A further name for a question that is open or answered.                   *)
Share(D, x, i) ==
    /\ Free(D, x) /\ status[i] \in Option \cup {"open"} /\ i \notin D
    /\ Move(D, {[name |-> x, id |-> i]}, i, status[i])

(* The first answer stands.                                                  *)
Answer(D, i, option) ==
    /\ status[i] = "open" /\ i \notin D
    /\ Move(D, {}, i, option)

(* An answer is released by its requester's runtime, names and all.          *)
Release(D, i) ==
    /\ status[i] \in Option
    /\ named' = Without(D \cup {i})
    /\ status' = Dropping(D \cup {i})

(* A dismissed question keeps its names, for good.                           *)
Dismiss(D, S) ==
    /\ \A i \in S : status[i] \in Option \cup {"open"} /\ i \notin D
    /\ named' = Without(D)
    /\ status' = [i \in ID |-> IF i \in S THEN "dismissed" ELSE Dropping(D)[i]]

(* D: the open questions that expire or are withdrawn.                       *)
Next ==
    \E D \in SUBSET {i \in ID : status[i] = "open"} :
        \/ named' = Without(D) /\ status' = Dropping(D)
        \/ \E i \in ID :
              \/ \E x \in Name : Ask(D, x, i) \/ Share(D, x, i)
              \/ \E option \in Option : Answer(D, i, option)
              \/ Release(D, i)
        \/ \E S \in SUBSET ID : Dismiss(D, S)

Spec == Init /\ [][Next]_vars

-----------------------------------------------------------------------------
(* What follows from it. *)

(* A name stands for one occurrence, which is open, answered or dismissed; and *)
(* what is open or answered has a name.                                       *)
NamesStand ==
    /\ \A m, n \in named : m.name = n.name => m = n
    /\ \A n \in named : n.id \in ID /\ status[n.id] \in Option \cup {"open", "dismissed"}
    /\ \A i \in ID : status[i] \in Option \cup {"open"} => \E n \in named : n.id = i

(* How an occurrence may go on. *)
Follows(s, t) ==
    \/ t = s
    \/ s = "unasked" /\ t = "open"
    \/ s = "open" /\ t \in Option \cup {"dismissed", "dropped"}
    \/ s \in Option /\ t \in {"dismissed", "dropped"}

(* The first answer of an occurrence is its only one, what is over stays over, *)
(* and a name is freed only with all the names of an occurrence that is        *)
(* dropped: the name of a dismissed one never asks again.                     *)
Onward ==
    /\ \A i \in ID : Follows(status[i], status'[i])
    /\ \A n \in named \ named' :
          status'[n.id] = "dropped" /\ \A m \in named' : m.id # n.id

AnsweredOnce == [][Onward]_vars

=============================================================================
