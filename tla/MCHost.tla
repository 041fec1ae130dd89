------------------------------- MODULE MCHost -------------------------------
(* Host with two slots, three connections, one occurrence and two attempts   *)
(* to Serve.  No symmetry: the run checks liveness.                          *)
EXTENDS Host

=============================================================================
