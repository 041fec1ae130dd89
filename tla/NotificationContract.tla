------------------------ MODULE NotificationContract ------------------------
(***************************************************************************)
(* What a notification promises the program that posts it and the person it  *)
(* is for, free of how the service stores it (CONTRACT.md ASK-N1..N6).  One   *)
(* occurrence per reference and one service time that never goes back; one    *)
(* result at most, and none after the expiry; what the person does needs it   *)
(* shown; and what is taken away without them is taken by its own program:    *)
(* withdrawn, replaced by its tag, or displaced because there was no room.    *)
(* NotificationBook implements it.                                           *)
(***************************************************************************)
EXTENDS Integers, FiniteSets

CONSTANTS
    Ref,            \* references, each with its program's scope
    Owner,          \* the program of each
    ReplayUntil,    \* the replay deadline that is part of a reference
    Request,        \* the requests a program can make of a reference
    Action,         \* the actions they offer
    None,           \* no request, tag, action or result
    MaxLive         \* how many notifications of a program are shown at once

VARIABLES
    time,           \* the service time the promises are made at
    status          \* what the service owes a caller of each reference

vars == <<time, status>>

Live == {"scheduled", "posted"}

Ended == {"acted", "dismissed", "withdrawn"}

Unknown == [is |-> "unknown", req |-> None, result |-> None]
Expired == [is |-> "expired", req |-> None, result |-> None]

Aged(s, r, t) ==
    IF t >= ReplayUntil[r] \/ (s.is \in Live /\ t >= s.req.expires) THEN Expired ELSE s

AgedStatus(t) == [r \in Ref |-> Aged(status[r], r, t)]

(* Time passes to t, the references in W are withdrawn and the others age.    *)
Left(W, t) ==
    [r \in Ref |-> IF r \in W
                   THEN [status[r] EXCEPT !.is = "withdrawn",
                                          !.result = [action |-> None, at |-> t]]
                   ELSE Aged(status[r], r, t)]

LiveOf(p) == {r \in Ref : Owner[r] = p /\ status[r].is \in Live}

(* What is still live at t.  What expires at t may be withdrawn instead.       *)
Still(S, t) == {r \in S : AgedStatus(t)[r] = status[r]}

(* What a request replaces: the notifications of its tag. *)
Replaced(q, t) ==
    LET same == {r \in LiveOf(Owner[q.ref]) : q.tag # None /\ status[r].req.tag = q.tag}
    IN  {T \in SUBSET same : Still(same, t) \subseteq T}

(* What one more shown notification of p displaces, of those not in T: one of   *)
(* them if there was no room, and none if there is.                           *)
Displaced(p, T, t) ==
    LET shown == {r \in LiveOf(p) \ T : status[r].is = "posted"}
    IN  {D \in SUBSET shown :
            \/ D = {} /\ Cardinality(Still(shown, t)) < MaxLive
            \/ Cardinality(D) = 1 /\ Cardinality(shown) >= MaxLive}

-----------------------------------------------------------------------------

Init ==
    /\ time = 0
    /\ status = [r \in Ref |-> Unknown]

Forward == time' \in Int /\ time' >= time

Age == Forward /\ status' = AgedStatus(time')

(* A program posts, or has its notification held until its operation ends.    *)
Post(q) ==
    /\ Forward /\ time' < q.expires
    /\ AgedStatus(time')[q.ref] = Unknown
    /\ \E T \in Replaced(q, time') :
       \E D \in IF q.delivery = "now" THEN Displaced(Owner[q.ref], T, time') ELSE {{}} :
          status' = [Left(T \cup D, time') EXCEPT ![q.ref] =
                        [is |-> IF q.delivery = "now" THEN "posted" ELSE "scheduled",
                         req |-> q, result |-> None]]

(* The operation ended. *)
Deliver(r) ==
    /\ Forward /\ AgedStatus(time')[r].is = "scheduled"
    /\ \E D \in Displaced(Owner[r], {}, time') :
          status' = [Left(D, time') EXCEPT ![r].is = "posted"]

(* The person acts on what was shown or dismisses it; the program withdraws it. *)
Finish(r, to, action) ==
    /\ Forward /\ AgedStatus(time')[r].is \in Live
    /\ IF to = "acted"
       THEN status[r].is = "posted" /\ action \in status[r].req.actions
       ELSE action = None
    /\ status' = [AgedStatus(time') EXCEPT
                     ![r].is = to, ![r].result = [action |-> action, at |-> time']]

(* The person turns a program off: all it has live goes. *)
Silence(p) ==
    /\ Forward
    /\ status' = Left(Still(LiveOf(p), time'), time')

(* The program has the result and says so. *)
Acknowledge(r) ==
    /\ Forward /\ AgedStatus(time')[r].is \in Ended
    /\ status' = [AgedStatus(time') EXCEPT ![r].is = "gone"]

Next ==
    \/ Age
    \/ \E q \in Request : Post(q)
    \/ \E r \in Ref : Deliver(r) \/ Acknowledge(r)
    \/ \E r \in Ref, to \in Ended, action \in Action \cup {None} : Finish(r, to, action)
    \/ \E r \in Ref : Silence(Owner[r])

Spec == Init /\ [][Next]_vars

-----------------------------------------------------------------------------
(* What follows from it. *)

(* A result fits the request it is for: the person's came before its expiry    *)
(* and is an action it offered, or none; what is live has not reached it.     *)
Fits(s, r, t) ==
    /\ s.is \in Live \cup Ended => s.req \in Request /\ s.req.ref = r
    /\ s.is \in Live => t < s.req.expires
    /\ s.is \in Ended => s.result.at <= t
    /\ s.is \in {"acted", "dismissed"} => s.result.at < s.req.expires
    /\ s.is = "acted" => s.result.action \in s.req.actions
    /\ s.is \in {"dismissed", "withdrawn"} => s.result.action = None

ResultFits == \A r \in Ref : Fits(status[r], r, time)

ShownOf(p) == {r \in Ref : Owner[r] = p /\ status[r].is = "posted"}

(* No program has more shown than it may, or two live under one tag.          *)
WithinBounds ==
    /\ \A r \in Ref : IsFiniteSet(ShownOf(Owner[r])) /\ Cardinality(ShownOf(Owner[r])) <= MaxLive
    /\ \A r, s \in Ref :
          /\ status[r].is \in Live /\ status[s].is \in Live
          /\ Owner[r] = Owner[s] /\ status[r].req.tag = status[s].req.tag
          /\ status[r].req.tag # None
          => r = s

(* What a caller is owed after s may be t. *)
Follows(s, t) ==
    /\ s.is # "unknown" => t.is # "unknown"
    /\ s = Expired => t = Expired
    /\ s.is \in Ended \cup {"gone"} =>
          \/ t = Expired
          \/ t.req = s.req /\ t.result = s.result /\ t.is \in {s.is, "gone"}
    /\ s.is = "posted" => t.is # "scheduled"

(* One result per reference, which stands until it is acknowledged or the      *)
(* replay deadline passes; and service time that never goes back.             *)
Onward == time' >= time /\ \A r \in Ref : Follows(status[r], status'[r])

EndsOnce == [][Onward]_vars

=============================================================================
