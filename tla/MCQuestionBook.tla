--------------------------- MODULE MCQuestionBook ---------------------------
(* A program asks for one permission effect under two keys, each with a      *)
(* purpose of its own, and a catalogue question under both; the runtime asks  *)
(* one that is bound to it.                                                  *)
EXTENDS QuestionBook

MCScope == {"s1", "s2"}
MCKey == {"k1", "k2"}
MCContent == {"allowX", "allowXwhy", "trust", "elevate"}
MCTyped == {"allowX", "allowXwhy"}
MCBound == {"elevate"}
MCEffect == [c \in MCTyped |-> "X"]
MCOption == {"always", "allow", "refuse"}
MCOffered == [c \in MCContent |-> IF c = "trust" THEN {"always", "refuse"}
                                  ELSE IF c = "elevate" THEN {"refuse"} ELSE {"allow", "refuse"}]

Asks(s, k, C) == {[scope |-> s, key |-> k, content |-> c] : c \in C}
MCAsking ==
    Asks("s1", "k1", {"allowX", "trust"}) \cup Asks("s1", "k2", {"allowXwhy", "trust"})
    \cup Asks("s2", "k1", {"elevate"})
=============================================================================
