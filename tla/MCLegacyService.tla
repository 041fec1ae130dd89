--------------------------- MODULE MCLegacyService ---------------------------
(* Two connections, two questions and two records: one question may be asked *)
(* again after an answer that is not kept, or the two wait side by side.     *)
EXTENDS LegacyService

=============================================================================
