------------------------- MODULE MCEEPROMEmulation -------------------------
(* EEPROMEmulation with interchangeable values: it compares them and moves  *)
(* them, and tells none from another.  For runs without liveness.           *)
EXTENDS EEPROMEmulation, TLC

Symmetry == Permutations(Values)

=============================================================================
