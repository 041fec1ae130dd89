---------------------------- MODULE MCPermissions ----------------------------
(* Permissions with two calls of Request under one key, one responder's call, *)
(* one typed and one first-use effect, and two occurrences.                   *)
EXTENDS Permissions

=============================================================================
