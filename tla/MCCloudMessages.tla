--------------------------- MODULE MCCloudMessages ---------------------------
(* CloudMessages with names of one and two segments, one beginning another.  *)
EXTENDS CloudMessages

MCSystem == <<"spark">>
MCNames  == {MCSystem, <<"chime">>, <<"chime", "hall">>}

=============================================================================
