----------------------------- MODULE MCWaiters -----------------------------
(* Waiters with a question, a choice and two calls that may wait for either. *)
EXTENDS Waiters, TLC

CONSTANTS i1, i2, w1, w2

Symmetry == Permutations({w1, w2})

=============================================================================
