-------------------------- MODULE EEPROMEmulation --------------------------
(***************************************************************************)
(* The EEPROM that netChimes keeps its settings in, emulated in two flash  *)
(* pages (hal/src/stm32f2xx/eeprom_hal.c).                                 *)
(*                                                                         *)
(* A page is a status word and an append-only log of slots, each a data    *)
(* halfword followed by the virtual address it belongs to; a variable's    *)
(* value is in its last complete slot.  A full page is copied, last values *)
(* only, into the other page.  One step is one flash operation (program a  *)
(* halfword, erase a sector), so the power may go between any two.  The    *)
(* label pc names the operation the running call makes next.               *)
(***************************************************************************)
EXTENDS Integers, Sequences, FiniteSets, FiniteSetsExt

CONSTANTS N,             \* number of variables (EEPROM_SIZE)
          SlotsPerPage,  \* slots of a page after its status word
          Values,        \* bytes a variable can hold
          Unset,         \* the answer for a variable that was never written
          LossPoints,    \* where the power may be cut, see LossPoint
          FlashMayFail   \* can a flash operation report an error

Addresses == 0 .. N - 1
Pages     == {0, 1}

\* PAGE_SIZE / 4 - 1 = 2 * EEPROM_SIZE - 1: 4095 slots for 2048 variables.
ASSUME SizeAssumption    == N \in Nat \ {0, 1} /\ SlotsPerPage = 2 * N - 1
ASSUME ValuesAssumption  == Unset \notin Values
ASSUME FailureAssumption ==
    /\ LossPoints \subseteq {"elsewhere", "resume", "bothValid"}
    /\ FlashMayFail \in BOOLEAN

ERASED       == "ERASED"
RECEIVE_DATA == "RECEIVE_DATA"
VALID_PAGE   == "VALID_PAGE"
NoPage       == -1       \* NO_VALID_PAGE
Blank        == -1       \* an address halfword that is still 0xFFFF

VARIABLES header,  \* status word of each page
          log,     \* slots programmed in each page, in order
          pc,      \* next flash operation of the running call
          call,    \* the call that runs, or ran last
          status,  \* what that call returned
          arg,     \* the write the caller asked for
          var,     \* the variable being programmed
          new,     \* the page being filled or kept
          cursor   \* next virtual address the copy loop looks at

vars == <<header, log, pc, call, status, arg, var, new, cursor>>

Write == [addr : Addresses, data : Values]
Slot  == [addr : Addresses \cup {Blank}, data : Values]

TypeOK ==
    /\ header \in [Pages -> {ERASED, RECEIVE_DATA, VALID_PAGE}]
    /\ log \in [Pages -> Seq(Slot)]
    /\ pc \in {"off", "idle", "data", "addr", "receive", "copy", "eraseOld",
               "validate", "resumeMark", "resumeErase", "tidy",
               "format0", "formatMark", "format1"}
    /\ call \in {"init", "write", "transfer"}
    /\ status \in {"FLASH_COMPLETE", "PAGE_FULL", "NO_VALID_PAGE", "FLASH_ERROR"}
    /\ arg \in Write
    /\ var \in Write
    /\ new \in Pages
    /\ cursor \in 0 .. N

-----------------------------------------------------------------------------
(* Flash: erasing sets every bit, programming can only clear bits.  0xFFFF, *)
(* 0xEEEE and 0x0000 are written in that order and never go back.           *)

Other(p) == 1 - p

Programmed(old, s) == IF old = VALID_PAGE THEN VALID_PAGE ELSE s

MarkPage(p, s) == header' = [header EXCEPT ![p] = Programmed(@, s)]

ErasePage(p) ==
    /\ header' = [header EXCEPT ![p] = ERASED]
    /\ log'    = [log EXCEPT ![p] = <<>>]

-----------------------------------------------------------------------------
(* EEPROM_FindValidPage and EEPROM_ReadVariable.                            *)

ReadPage ==
    IF header[0] = VALID_PAGE THEN 0
    ELSE IF header[1] = VALID_PAGE THEN 1
    ELSE NoPage

WritePage ==
    IF header[1] = VALID_PAGE
    THEN IF header[0] = RECEIVE_DATA THEN 0 ELSE 1
    ELSE IF header[0] = VALID_PAGE
    THEN IF header[1] = RECEIVE_DATA THEN 1 ELSE 0
    ELSE NoPage

\* The slots of page p that hold variable a.
SlotsOf(p, a) == {i \in DOMAIN log[p] : log[p][i].addr = a}

\* The scan from the end of page p for variable a.
LastIn(p, a) ==
    IF SlotsOf(p, a) = {} THEN Unset ELSE log[p][Max(SlotsOf(p, a))].data

ReadVariable(a) == IF ReadPage = NoPage THEN Unset ELSE LastIn(ReadPage, a)

\* The first variable slot of page p: Init reads its address at page + 6.
FirstAddress(p) == IF log[p] = <<>> THEN Blank ELSE log[p][1].addr

\* Mutants: one of the two loops forgets to leave out the written variable.
SkippedInTransfer(a) == call # "init" /\ a = arg.addr
SkippedInInit(a)     == call = "init" /\ a = FirstAddress(new)

\* The copy loops leave out the variable the interrupted or running write set.
Skipped(a) == IF call = "init" THEN a = FirstAddress(new) ELSE a = arg.addr

\* Mutant: the loop copies what was not found.
ToCopyFoundOrNot == {a \in cursor .. N - 1 : ~Skipped(a)}
ToCopy == {a \in cursor .. N - 1 : ~Skipped(a) /\ SlotsOf(ReadPage, a) # {}}

-----------------------------------------------------------------------------
Init ==
    /\ header = [p \in Pages |-> ERASED]
    /\ log = [p \in Pages |-> <<>>]
    /\ pc = "off"
    /\ call = "init"
    /\ status = "FLASH_COMPLETE"
    /\ arg \in Write
    /\ var = arg
    /\ new = 0
    /\ cursor = 0

Return(s) == pc' = "idle" /\ status' = s

-----------------------------------------------------------------------------
(* EEPROM_Init: what the two status words call for.                         *)

\* p alone is valid: erase the other page once more.
InitTidy(p) ==
    /\ header[p] = VALID_PAGE /\ header[Other(p)] = ERASED
    /\ new' = p /\ pc' = "tidy"

\* Mutant: an unfinished transfer is taken for an invalid state.
InitFinishFormats(p) ==
    /\ header[p] = RECEIVE_DATA /\ header[Other(p)] = ERASED
    /\ new' = 0 /\ pc' = "format0"

\* The power went after the old page was erased: p holds everything.
InitFinish(p) ==
    /\ header[p] = RECEIVE_DATA /\ header[Other(p)] = ERASED
    /\ new' = p /\ pc' = "eraseOld"

\* Mutant: an unfinished copy is taken for a finished one.
InitResumeErases(p) ==
    /\ header[p] = RECEIVE_DATA /\ header[Other(p)] = VALID_PAGE
    /\ new' = p /\ pc' = "eraseOld"

\* The power went during the copy into p: copy again.
InitResume(p) ==
    /\ header[p] = RECEIVE_DATA /\ header[Other(p)] = VALID_PAGE
    /\ new' = p /\ pc' = "copy"

\* Any other pair of status words.
InitFormat ==
    /\ header[0] = header[1]
    /\ new' = 0 /\ pc' = "format0"

PowerUp ==
    /\ pc = "off"
    /\ \/ \E p \in Pages : InitTidy(p) \/ InitFinish(p) \/ InitResume(p)
       \/ InitFormat
    /\ call' = "init"
    /\ status' = "FLASH_COMPLETE"
    /\ cursor' = 0
    /\ UNCHANGED <<header, log, arg, var>>

\* EEPROM_Format.
Format0 ==
    /\ pc = "format0"
    /\ ErasePage(0)
    /\ pc' = "formatMark"
    /\ UNCHANGED <<call, status, arg, var, new, cursor>>

FormatMark ==
    /\ pc = "formatMark"
    /\ MarkPage(0, VALID_PAGE)
    /\ pc' = "format1"
    /\ UNCHANGED <<log, call, status, arg, var, new, cursor>>

Format1 ==
    /\ pc = "format1"
    /\ ErasePage(1)
    /\ Return("FLASH_COMPLETE")
    /\ UNCHANGED <<call, arg, var, new, cursor>>

Tidy ==
    /\ pc = "tidy"
    /\ ErasePage(Other(new))
    /\ Return("FLASH_COMPLETE")
    /\ UNCHANGED <<call, arg, var, new, cursor>>

-----------------------------------------------------------------------------
(* EEPROM_WriteVariable, with EEPROM_VerifyPageFullWriteVariable, which the *)
(* copy loops call too.                                                     *)

WriteVariable(w) ==
    /\ pc = "idle"
    /\ arg' = w
    /\ var' = w
    /\ call' = "write"
    /\ pc' = "data"
    /\ UNCHANGED <<header, log, status, new, cursor>>

HasRoom == WritePage # NoPage /\ Len(log[WritePage]) < SlotsPerPage

ProgramData ==
    /\ pc = "data"
    /\ HasRoom
    /\ log' = [log EXCEPT ![WritePage] =
                    Append(@, [addr |-> Blank, data |-> var.data])]
    /\ pc' = "addr"
    /\ UNCHANGED <<header, call, status, arg, var, new, cursor>>

ProgramAddress ==
    /\ pc = "addr"
    /\ log' = [log EXCEPT ![WritePage][Len(log[WritePage])].addr = var.addr]
    /\ IF call = "write" THEN Return("FLASH_COMPLETE")
                         ELSE pc' = "copy" /\ UNCHANGED status
    /\ UNCHANGED <<header, call, arg, var, new, cursor>>

\* Mutant: a full page is reported and not transferred.
PageFullReported ==
    /\ pc = "data"
    /\ WritePage # NoPage /\ ~HasRoom
    /\ Return("PAGE_FULL")
    /\ UNCHANGED <<header, log, call, arg, var, new, cursor>>

PageFull ==
    /\ pc = "data"
    /\ WritePage # NoPage /\ ~HasRoom
    /\ IF call = "write"
       THEN /\ call' = "transfer"
            /\ new' = Other(ReadPage)
            /\ pc' = "receive"
            /\ UNCHANGED status
       ELSE /\ Return("PAGE_FULL")
            /\ UNCHANGED <<call, new>>
    /\ UNCHANGED <<header, log, arg, var, cursor>>

NoValidPage ==
    /\ pc = "data"
    /\ WritePage = NoPage
    /\ Return("NO_VALID_PAGE")
    /\ UNCHANGED <<header, log, call, arg, var, new, cursor>>

-----------------------------------------------------------------------------
(* EEPROM_PageTransfer and the two copy loops of EEPROM_Init.               *)

\* Mutant: the copy loop starts at the second variable.
MarkReceiveOffByOne ==
    /\ pc = "receive"
    /\ MarkPage(new, RECEIVE_DATA)
    /\ cursor' = 1
    /\ pc' = "data"
    /\ UNCHANGED <<log, call, status, arg, var, new>>

MarkReceive ==
    /\ pc = "receive"
    /\ MarkPage(new, RECEIVE_DATA)
    /\ cursor' = 0
    /\ pc' = "data"
    /\ UNCHANGED <<log, call, status, arg, var, new>>

CopyNext ==
    /\ pc = "copy"
    /\ ToCopy # {}
    /\ LET a == Min(ToCopy)
       IN  /\ var' = [addr |-> a, data |-> ReadVariable(a)]
           /\ cursor' = a + 1
    /\ pc' = "data"
    /\ UNCHANGED <<header, log, call, status, arg, new>>

\* Mutant: the copy loop may be left before every variable is copied.
CopyDoneEarly ==
    /\ pc = "copy"
    /\ pc' = IF call = "init" THEN "resumeMark" ELSE "eraseOld"
    /\ UNCHANGED <<header, log, call, status, arg, var, new, cursor>>

CopyDone ==
    /\ pc = "copy"
    /\ ToCopy = {}
    /\ pc' = IF call = "init" THEN "resumeMark" ELSE "eraseOld"
    /\ UNCHANGED <<header, log, call, status, arg, var, new, cursor>>

\* The order of PageTransfer, and of Init when the old page is gone already.
EraseOld ==
    /\ pc = "eraseOld"
    /\ ErasePage(Other(new))
    /\ pc' = "validate"
    /\ UNCHANGED <<call, status, arg, var, new, cursor>>

Validate ==
    /\ pc = "validate"
    /\ MarkPage(new, VALID_PAGE)
    /\ Return("FLASH_COMPLETE")
    /\ UNCHANGED <<log, call, arg, var, new, cursor>>

\* Mutant: Init leaves the old page valid.
ResumeMarkOnly ==
    /\ pc = "resumeMark"
    /\ MarkPage(new, VALID_PAGE)
    /\ Return("FLASH_COMPLETE")
    /\ UNCHANGED <<log, call, arg, var, new, cursor>>

\* The order of Init after its own copy loop: first valid, then erase.
ResumeMark ==
    /\ pc = "resumeMark"
    /\ MarkPage(new, VALID_PAGE)
    /\ pc' = "resumeErase"
    /\ UNCHANGED <<log, call, status, arg, var, new, cursor>>

ResumeErase ==
    /\ pc = "resumeErase"
    /\ ErasePage(Other(new))
    /\ Return("FLASH_COMPLETE")
    /\ UNCHANGED <<call, arg, var, new, cursor>>

-----------------------------------------------------------------------------
(* The environment.  LossPoint classes the moments at which the power may   *)
(* be cut or the flash may report an error, so that a run can say which of  *)
(* them it looks at.                                                        *)

LossPoint ==
    CASE pc = "resumeErase" -> "bothValid"
      [] call = "init" /\ pc \in {"copy", "data", "addr", "resumeMark"} -> "resume"
      [] OTHER -> "elsewhere"

PowerLoss ==
    /\ pc # "off"
    /\ LossPoint \in LossPoints
    /\ pc' = "off"
    /\ UNCHANGED <<header, log, call, status, arg, var, new, cursor>>

\* An operation that does not return FLASH_COMPLETE ends the whole call.
FlashError ==
    /\ FlashMayFail
    /\ LossPoint \in LossPoints
    /\ pc \notin {"off", "idle", "copy"}
    /\ pc = "data" => HasRoom
    /\ Return("FLASH_ERROR")
    /\ UNCHANGED <<header, log, call, arg, var, new, cursor>>

Step ==
    \/ Format0 \/ FormatMark \/ Format1 \/ Tidy
    \/ ProgramData \/ ProgramAddress \/ PageFull \/ NoValidPage
    \/ MarkReceive \/ CopyNext \/ CopyDone \/ EraseOld \/ Validate
    \/ ResumeMark \/ ResumeErase

Next ==
    \/ PowerUp
    \/ \E w \in Write : WriteVariable(w)
    \/ Step
    \/ PowerLoss
    \/ FlashError

\* A call that runs goes on; nothing says that power returns or callers come.
Spec == Init /\ [][Next]_vars /\ WF_vars(Step)

-----------------------------------------------------------------------------
(* What the flash holds, whatever the power did.                            *)

\* The page recovery starts from: the valid one, else the one that was filled
\* before the old page was erased.
LivePage ==
    IF ReadPage # NoPage THEN ReadPage
    ELSE IF \E p \in Pages : header[p] = RECEIVE_DATA
    THEN CHOOSE p \in Pages : header[p] = RECEIVE_DATA
    ELSE NoPage

Store == [a \in Addresses |->
            IF LivePage = NoPage THEN Unset ELSE LastIn(LivePage, a)]

Changes(w) == Store[w.addr] # w.data

\* The write at the head of a page being filled takes effect when that page
\* becomes the one that is read.
Filling(p) == /\ LivePage # p
              /\ \/ header[p] = RECEIVE_DATA
                 \/ pc = "resumeErase" /\ p = new

HeadWrite == {log[p][1] : p \in {q \in Pages : Filling(q) /\ FirstAddress(q) # Blank}}

RunningWrite ==
    IF call \in {"write", "transfer"} /\ pc \notin {"off", "idle"} THEN {arg} ELSE {}

Pending == {w \in HeadWrite \cup RunningWrite : Changes(w)}

Promise == INSTANCE EEPROMStore WITH store <- Store, pending <- Pending

\* Across every flash operation, power cut and repair the emulation behaves as
\* a map whose entries change one at a time, each by a write somebody asked for.
ImplementsStore == Promise!StoreSpec

\* No power cut and no repair at boot makes a variable that was written read as
\* never written again: EEPROM_Init's promise to restore the pages.
VariablesSurvive ==
    [][\A a \in Addresses : Store[a] # Unset => Store'[a] # Unset]_vars

\* Once EEPROM_Init has returned the pages are in a state that can be worked
\* with: one valid page to read and write, the other one erased.
KnownGood ==
    pc = "idle" => \E p \in Pages : /\ header[p] = VALID_PAGE
                                    /\ header[Other(p)] = ERASED
                                    /\ log[Other(p)] = <<>>

\* EEPROM_Format is never run on pages that hold variables: whatever pair of
\* status words a power cut leaves, one of the three repairs above knows it.
FormatsOnlyBlank ==
    pc = "format0" => \A p \in Pages : header[p] = ERASED

\* A write that returned FLASH_COMPLETE is what the next read returns, even when
\* it had to move the whole page.
CompletedWriteIsRead ==
    pc = "idle" /\ call \in {"write", "transfer"} /\ status = "FLASH_COMPLETE"
        => ReadVariable(arg.addr) = arg.data

\* The page that receives a transfer never fills up before it is complete, even
\* if the transfer was cut short and its slots are spent on a second copy.
TransferFits ==
    pc = "data" /\ (call \in {"init", "transfer"}) => HasRoom

\* Before the old page is erased the new one can stand in for it: it answers
\* every variable as the old one does, except the one being written.
CopyComplete ==
    pc = "eraseOld" /\ call = "transfer" =>
        \A a \in Addresses \ {arg.addr} :
            LastIn(new, a) = LastIn(Other(new), a)

\* A write call comes to its end, and then the variable has the value it wrote,
\* unless the power went first.
WriteTakesEffect ==
    \A w \in Write : (pc = "data" /\ call = "write" /\ arg = w)
        ~> (pc = "off" \/ (pc = "idle" /\ Store[w.addr] = w.data))

=============================================================================
