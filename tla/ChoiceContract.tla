--------------------------- MODULE ChoiceContract ---------------------------
(***************************************************************************)
(* What an ordinary choice promises the application that asks it, free of  *)
(* how the service stores it (CONTRACT.md ASK-W5, ASK-A9, ASK-P4).  One    *)
(* occurrence per immutable reference, one service time that never goes    *)
(* back, one decision per occurrence, and nothing after the replay         *)
(* deadline.  ChoiceBook implements it.                                    *)
(***************************************************************************)
EXTENDS Integers

CONSTANTS
    Ref,            \* the immutable references, each with its owner's scope
    ReplayUntil,    \* the replay deadline that is part of a reference
    Request,        \* the requests an application can make of a reference
    Option,         \* the option IDs of the requests
    Program,        \* the programs that may decide
    None            \* no request, no answer, no option

VARIABLES
    time,           \* the service time the promises are made at
    status          \* what the service owes a caller of each reference

vars == <<time, status>>

Answers == [option : Option \cup {None}, at : Int, by : Program]

Status == [is     : {"unknown", "pending", "answered", "dismissed", "expired", "gone"},
           req    : Request \cup {None},
           answer : Answers \cup {None}]

Unknown == [is |-> "unknown", req |-> None, answer |-> None]
Expired == [is |-> "expired", req |-> None, answer |-> None]

(* What becomes of a status when the service time reaches t. *)
Aged(s, r, t) ==
    IF t >= ReplayUntil[r] \/ (s.is = "pending" /\ t >= s.req.pendingUntil)
    THEN Expired
    ELSE s

(* What one call at time t may make of a status that time has already aged. *)
Successors(s, r, t) ==
    IF t >= ReplayUntil[r] THEN {}
    ELSE CASE s.is = "unknown" ->
                {[is |-> "pending", req |-> q, answer |-> None] :
                    q \in {p \in Request : p.ref = r /\ t < p.pendingUntil}}
           [] s.is = "pending" ->
                {[is |-> IF d.option = None THEN "dismissed" ELSE "answered",
                  req |-> s.req, answer |-> d] :
                    d \in [option : s.req.options \cup {None}, at : {t}, by : Program]}
           [] s.is \in {"answered", "dismissed"} -> {[s EXCEPT !.is = "gone"]}
           [] OTHER -> {}

AgedStatus(t) == [r \in Ref |-> Aged(status[r], r, t)]

-----------------------------------------------------------------------------

Init ==
    /\ time = 0
    /\ status = [r \in Ref |-> Unknown]

(* Time passes: nothing is decided. *)
Age ==
    /\ time' \in Int
    /\ time' >= time
    /\ status' = AgedStatus(time')

(* One reference is admitted, decided or acknowledged; the others age. *)
Advance(r) ==
    /\ time' \in Int
    /\ time' >= time
    /\ \E s \in Successors(AgedStatus(time')[r], r, time') :
          status' = [AgedStatus(time') EXCEPT ![r] = s]

Next == Age \/ \E r \in Ref : Advance(r)

Spec == Init /\ [][Next]_vars

-----------------------------------------------------------------------------
(* What follows from it. *)

Decided == {"answered", "dismissed", "gone"}

(* A decision was made for the request that was admitted, on one of its        *)
(* options, before its deadline; and what is pending has not reached it.      *)
InTime(s, r, t) ==
    /\ s.is \in {"pending"} \cup Decided => s.req \in Request /\ s.req.ref = r
    /\ s.is = "pending" => t < s.req.pendingUntil
    /\ s.is \in Decided =>
          /\ s.answer.at <= t /\ s.answer.at < s.req.pendingUntil
          /\ s.answer.option \in s.req.options \cup {None}
    /\ s.is = "answered" => s.answer.option # None
    /\ s.is = "dismissed" => s.answer.option = None

DecidedInTime == \A r \in Ref : InTime(status[r], r, time)

(* What a caller of r is owed after s may be t: nothing becomes unknown again, *)
(* an expired reference stays so, and a decision stays the decision until its  *)
(* acknowledgement, which keeps it, and the replay deadline.                  *)
Follows(s, t) ==
    /\ s.is # "unknown" => t.is # "unknown"
    /\ s = Expired => t = Expired
    /\ s.is \in Decided =>
          \/ t = Expired
          \/ t.req = s.req /\ t.answer = s.answer /\ t.is \in {s.is, "gone"}

(* One decision per reference, and service time that never goes back.         *)
Onward == time' >= time /\ \A r \in Ref : Follows(status[r], status'[r])

DecidedOnce == [][Onward]_vars

=============================================================================
