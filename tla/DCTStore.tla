------------------------------ MODULE DCTStore ------------------------------
(***************************************************************************)
(* What the store of the device's configuration promises (dct_read_app_data *)
(* and dct_write_app_data): an array of words of which one call changes one *)
(* stretch, at one instant or not at all, and certainly if it reports      *)
(* success.  Besides, a word may be set to zero in place.                  *)
(***************************************************************************)
EXTENDS Naturals

CONSTANTS Words, Values, Erased, Zero

VARIABLES cell,    \* the words, as a read finds them
          asked,   \* the word and the value of the running write
          result   \* of the last write

storeVars == <<cell, asked, result>>

Nothing == [word |-> 0, value |-> Erased]
Quiet == asked = Nothing

Written == [cell EXCEPT ![asked.word] = asked.value]

StoreInit ==
    /\ cell = [w \in Words |-> Erased]
    /\ asked = Nothing /\ result = "none"

Ask(word, value) ==
    /\ Quiet /\ asked' = [word |-> word, value |-> value]
    /\ result' = "none"
    /\ UNCHANGED cell

Commit == ~Quiet /\ cell' = Written /\ UNCHANGED <<asked, result>>

Succeed ==
    /\ ~Quiet /\ cell' = Written
    /\ asked' = Nothing /\ result' = "ok"

Fail ==
    /\ ~Quiet /\ asked' = Nothing
    /\ result' = "failed"
    /\ UNCHANGED cell

\* Nobody waits for the result, or the power went.
Forget == asked' = Nothing /\ result' = "none" /\ UNCHANGED cell

Clear(word) ==
    /\ Quiet /\ cell' = [cell EXCEPT ![word] = Zero]
    /\ UNCHANGED <<asked, result>>

StoreNext ==
    \/ Commit \/ Succeed \/ Fail \/ Forget
    \/ \E word \in Words, value \in Values : Ask(word, value)
    \/ \E word \in Words : Clear(word)

StoreSpec == StoreInit /\ [][StoreNext]_storeVars

=============================================================================
