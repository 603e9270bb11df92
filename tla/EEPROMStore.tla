---------------------------- MODULE EEPROMStore ----------------------------
(***************************************************************************)
(* What the EEPROM emulation promises its callers (EEPROM.read, .write,    *)
(* .put): a map from virtual addresses to bytes in which each write takes  *)
(* effect at one instant or not at all, and which power cuts leave alone.  *)
(*                                                                         *)
(* pending holds the writes that were asked for and may still take effect: *)
(* normally the one in progress, after a power cut the one whose fate is   *)
(* settled only when the pages are repaired.                               *)
(***************************************************************************)
EXTENDS Naturals

CONSTANTS Addresses,  \* virtual addresses of the variables
          Values,     \* bytes a variable can hold
          Unset       \* what a variable that was never written reads as

VARIABLES store, pending

Write == [addr : Addresses, data : Values]

StoreTypeOK ==
    /\ store \in [Addresses -> Values \cup {Unset}]
    /\ pending \in SUBSET Write

StoreInit ==
    /\ store = [a \in Addresses |-> Unset]
    /\ pending = {}

\* A caller asks for a write.
Begin(w) ==
    /\ pending' = pending \cup {w}
    /\ UNCHANGED store

\* A pending write takes effect, on its own variable and on nothing else.
Commit(w) ==
    /\ w \in pending
    /\ store' = [store EXCEPT ![w.addr] = w.data]
    /\ pending' \in SUBSET (pending \ {w})

\* Pending writes are given up: a failed call, or a power cut.
Drop ==
    /\ pending' \in SUBSET pending
    /\ UNCHANGED store

StoreNext ==
    \/ \E w \in Write : Begin(w) \/ Commit(w)
    \/ Drop

StoreSpec == StoreInit /\ [][StoreNext]_<<store, pending>>

=============================================================================
