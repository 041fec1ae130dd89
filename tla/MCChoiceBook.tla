---------------------------- MODULE MCChoiceBook ----------------------------
(* ChoiceBook with two references, one deciding program and a catalogue      *)
(* question, whose answers fill an audit of two entries.                     *)
EXTENDS ChoiceBook, TLC

CONSTANTS r1, r2, yes, no, p1, k1

(* Two references, whose replay deadlines differ. *)
MCReplay == r1 :> 4 @@ r2 :> 2

(* r1 may be asked with two contents, one of them shared in part with an     *)
(* assistant; r2 is pending until its replay deadline.                       *)
MCRequests ==
    {[ref |-> r1, pendingUntil |-> 3, options |-> {yes, no}, shared |-> {yes}],
     [ref |-> r1, pendingUntil |-> 4, options |-> {yes}, shared |-> {}],
     [ref |-> r2, pendingUntil |-> 2, options |-> {no}, shared |-> {}]}

MCClock == 0..4

=============================================================================
