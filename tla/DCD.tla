--------------------------------- MODULE DCD ---------------------------------
(***************************************************************************)
(* The configuration store of the firmware (services/inc/dcd.h over        *)
(* dcd_flash_impl.h): rewritable storage in two flash sectors, each with a *)
(* header of two words.  A write copies the valid sector into the other    *)
(* one, with the change, seals that, and then clears the seal of the first.*)
(* The power may go, and a flash operation may fail, at every step; an     *)
(* erase that is cut leaves any mixture of what was there and blanks.      *)
(***************************************************************************)
EXTENDS Integers

CONSTANTS Size,    \* words of a sector, without its header
          Values,  \* of a word
          Erased,  \* the word after an erase
          Zero     \* the word with all bits programmed

Parameters == Size \in Nat \ {0} /\ Erased \in Values /\ Zero \in Values

VARIABLES sector,  \* the two sectors: watermark, seal, data
          call,    \* the running call: its next flash operation, and its arguments
          result   \* of the last write

dcdVars == <<sector, call, result>>

Words == 1 .. Size
Sectors == {0, 1}
Seals == {"erased", "valid", "cleared"}

Idle == [step |-> "idle", current |-> 0, word |-> 0, value |-> Erased, at |-> 1]

Formatting == {"format", "formatMark", "formatSeal"}
Writing == {"erase", "fill", "mark", "seal", "drop"}

DCDTypeOK ==
    /\ sector \in [Sectors -> [mark : BOOLEAN, seal : Seals, data : [Words -> Values]]]
    /\ call \in [step : Formatting \cup Writing \cup {"idle"}, current : Sectors,
                 word : Words \cup {0}, value : Values, at : 1 .. Size + 1]
    /\ call.step \in Writing => call.word \in Words
    /\ result \in {"none", "ok", "failed"}

Blank == [mark |-> FALSE, seal |-> "erased", data |-> [w \in Words |-> Erased]]

DCDInit ==
    /\ sector = [s \in Sectors |-> Blank]
    /\ call = Idle
    /\ result = "none"

-----------------------------------------------------------------------------
\* isValid, isInitialized, and currentSector, which prefers the second.
Valid(s) == sector[s].mark /\ sector[s].seal = "valid"
IsInitialized == Valid(1) \/ Valid(0)
Current == IF Valid(1) THEN 1 ELSE 0
Alternate(s) == 1 - s

Step(name) == call.step = name
GoOn(name) == call' = [call EXCEPT !.step = name]

\* currentSector, which every read and write begins with, formats the first sector
\* when none is valid; it does not look at errors.
InitializeSector ==
    /\ Step("idle") /\ ~IsInitialized
    /\ GoOn("format")
    /\ UNCHANGED <<sector, result>>

FormatErase(ok) ==
    /\ Step("format") /\ GoOn("formatMark")
    /\ sector' = IF ok THEN [sector EXCEPT ![0] = Blank] ELSE sector
    /\ UNCHANGED result

FormatMark(ok) ==
    /\ Step("formatMark") /\ GoOn("formatSeal")
    /\ sector' = [sector EXCEPT ![0].mark = @ \/ ok]
    /\ UNCHANGED result

FormatSeal(ok) ==
    /\ Step("formatSeal") /\ GoOn(IF call.word = 0 THEN "idle" ELSE "erase")
    /\ sector' = IF ok THEN [sector EXCEPT ![0].seal = "valid"] ELSE sector
    /\ UNCHANGED result

-----------------------------------------------------------------------------
(* write.                                                                   *)

New == Alternate(call.current)

Write(word, value) ==
    /\ Step("idle")
    /\ call' = [step |-> IF IsInitialized THEN "erase" ELSE "format",
                current |-> Current, word |-> word, value |-> value, at |-> 1]
    /\ result' = "none"
    /\ UNCHANGED sector

EraseNew ==
    /\ Step("erase") /\ GoOn("fill")
    /\ sector' = [sector EXCEPT ![New] = Blank]
    /\ UNCHANGED result

\* What stands in the new sector at a word: what is before and behind the data is
\* copied.
NewWord(w) == IF w = call.word THEN call.value ELSE sector[call.current].data[w]

FillNew ==
    /\ Step("fill")
    /\ sector' = [sector EXCEPT ![New].data[call.at] = NewWord(call.at)]
    /\ call' = [call EXCEPT !.at = @ + 1, !.step = IF call.at = Size THEN "mark" ELSE @]
    /\ UNCHANGED result

MarkNew ==
    /\ Step("mark") /\ GoOn("seal")
    /\ sector' = [sector EXCEPT ![New].mark = TRUE]
    /\ UNCHANGED result

SealNew ==
    /\ Step("seal") /\ GoOn("drop")
    /\ sector' = [sector EXCEPT ![New].seal = "valid"]
    /\ UNCHANGED result

DropOld ==
    /\ Step("drop") /\ call' = Idle
    /\ sector' = [sector EXCEPT ![call.current].mark = TRUE, ![call.current].seal = "cleared"]
    /\ result' = "ok"

\* An operation fails: the call returns its error at once.
WriteFails ==
    /\ call.step \in Writing
    /\ call' = Idle /\ result' = "failed"
    /\ UNCHANGED sector

DCDProceeds ==
    \/ FormatErase(TRUE) \/ FormatMark(TRUE) \/ FormatSeal(TRUE)
    \/ EraseNew \/ FillNew \/ MarkNew \/ SealNew \/ DropOld

FlashError ==
    FormatErase(FALSE) \/ FormatMark(FALSE) \/ FormatSeal(FALSE) \/ WriteFails

-----------------------------------------------------------------------------
\* FLASH_UpdateModules and others program zeros straight into the valid sector.
ZeroInPlace(word) ==
    /\ Step("idle") /\ IsInitialized
    /\ sector' = [sector EXCEPT ![Current].data[word] = Zero]
    /\ UNCHANGED <<call, result>>

\* After a reset nobody waits for the result.
DCDReset == Step("idle") /\ result' = "none" /\ UNCHANGED <<sector, call>>

\* An erase that was cut short.
HalfErased(old) ==
    {[mark |-> mark, seal |-> seal, data |-> [w \in Words |->
         IF w \in blank THEN Erased ELSE old.data[w]]] :
            mark \in {old.mark, FALSE}, seal \in {old.seal, "erased"},
            blank \in SUBSET Words}

DCDPowerLoss ==
    /\ call' = Idle
    /\ IF Step("erase")
       THEN \E half \in HalfErased(sector[New]) : sector' = [sector EXCEPT ![New] = half]
       ELSE UNCHANGED sector
    /\ result' = "none"

DCDNext ==
    \/ InitializeSector \/ DCDProceeds \/ FlashError \/ DCDPowerLoss \/ DCDReset
    \/ \E word \in Words, value \in Values : Write(word, value)
    \/ \E word \in Words : ZeroInPlace(word)

DCDSpec == DCDInit /\ [][DCDNext]_dcdVars

-----------------------------------------------------------------------------
\* What a read finds.
Content ==
    IF IsInitialized THEN sector[Current].data ELSE [w \in Words |-> Erased]

Asked == [word |-> call.word, value |-> call.value]

Store == INSTANCE DCTStore WITH cell <- Content, asked <- Asked

\* A write takes effect at one instant or not at all, whatever is cut or fails, and
\* a failed one never takes effect later.
ImplementsDCT == Store!StoreSpec

=============================================================================
