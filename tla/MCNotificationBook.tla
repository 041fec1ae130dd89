------------------------- MODULE MCNotificationBook -------------------------
(* Two programs, each with room for one posted notification: one has a tagged *)
(* or untagged notification posted at once and one that its operation's end     *)
(* posts, the other one posted at once with the same tag.                     *)
EXTENDS NotificationBook, TLC

CONSTANTS n1, n2, n3, open, tagged, p1, p2

MCOwner == n1 :> p1 @@ n2 :> p1 @@ n3 :> p2

MCReplay == n1 :> 4 @@ n2 :> 5 @@ n3 :> 3

MCRequests ==
    {[ref |-> n1, tag |-> None, delivery |-> "now", expires |-> 2, actions |-> {}],
     [ref |-> n1, tag |-> tagged, delivery |-> "now", expires |-> 4, actions |-> {open}],
     [ref |-> n2, tag |-> tagged, delivery |-> "operation_end", expires |-> 4, actions |-> {open}],
     [ref |-> n2, tag |-> None, delivery |-> "operation_end", expires |-> 4, actions |-> {}],
     [ref |-> n3, tag |-> tagged, delivery |-> "now", expires |-> 2, actions |-> {}]}

MCClock == 0..4
=============================================================================
