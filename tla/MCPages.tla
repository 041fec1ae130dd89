------------------------------- MODULE MCPages -------------------------------
(* Pages with one caller, three records of two notifications and two questions, *)
(* and one restart.                                                          *)
EXTENDS Pages

=============================================================================
