--------------------------- MODULE MCChimeSettings ---------------------------
(* ChimeSettings with two of the six fields of UserData, in their order.  *)
EXTENDS ChimeSettings

MCFields == <<"keeper", "lat">>

=============================================================================
