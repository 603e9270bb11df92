---------------------------- MODULE EEPROMProofs ----------------------------
(***************************************************************************)
(* Theorems about EEPROMEmulation, for any number of variables and any set *)
(* of bytes.                                                               *)
(***************************************************************************)
EXTENDS EEPROMEmulation, WellFoundedInduction, TLAPS

-----------------------------------------------------------------------------
(* Lemmas about sets of numbers and about logs of slots.                    *)

\* A set of naturals that is not empty has a least element.
LEMMA LeastExists ==
    ASSUME NEW S, S \subseteq Nat, S # {}
    PROVE  \E m \in S : \A x \in S : m <= x
<1>1. PICK m \in S : \A x \in S : ~(<<x, m>> \in OpToRel(<, Nat))
  BY NatLessThanWellFounded, WFMin
<1>2. \A x \in S : ~(x < m)
  BY <1>1 DEF OpToRel
<1> QED
  BY <1>2

\* A set of naturals with an upper bound has a greatest element.
LEMMA GreatestExists ==
    ASSUME NEW n \in Nat, NEW S, S \subseteq 0 .. n, S # {}
    PROVE  \E m \in S : \A x \in S : m >= x
<1> DEFINE U == {k \in Nat : \A x \in S : x <= k}
<1>1. n \in U
  OBVIOUS
<1>2. PICK m \in U : \A k \in U : m <= k
  BY <1>1, LeastExists
<1>3. m \in S
  <2> SUFFICES ASSUME m \notin S PROVE FALSE
    OBVIOUS
  <2>1. PICK s \in S : TRUE
    OBVIOUS
  <2>2. m - 1 \in Nat /\ \A x \in S : x <= m - 1
    BY <2>1, <1>2
  <2> QED
    BY <2>2, <1>2
<1> QED
  BY <1>2, <1>3

LEMMA MinOfSet ==
    ASSUME NEW S, S \subseteq Nat, S # {}
    PROVE  Min(S) \in S /\ \A x \in S : Min(S) <= x
BY LeastExists DEF Min

LEMMA MaxOfSet ==
    ASSUME NEW n \in Nat, NEW S, S \subseteq 0 .. n, S # {}
    PROVE  Max(S) \in S /\ \A x \in S : x <= Max(S)
<1>1. Max(S) \in S /\ \A x \in S : Max(S) >= x
  BY GreatestExists DEF Max
<1> QED
  BY <1>1

\* Programming the data halfword of the next slot.
LEMMA AppendSlot ==
    ASSUME NEW s \in Seq(Slot), NEW d \in Values
    PROVE  LET t == Append(s, [addr |-> Blank, data |-> d])
           IN  /\ t \in Seq(Slot) /\ Len(t) = Len(s) + 1 /\ t # <<>>
               /\ s # <<>> => t[1] = s[1]
<1> DEFINE e == [addr |-> Blank, data |-> d]
<1>1. e \in Slot
  BY DEF Slot, Blank
<1> HIDE DEF e
<1>2. Append(s, e) \in Seq(Slot) /\ Len(Append(s, e)) = Len(s) + 1
  BY <1>1
<1>3. Append(s, e) # <<>>
  <2>1. Len(Append(s, e)) # 0
    BY <1>2
  <2>2. Len(<<>>) = 0
    OBVIOUS
  <2> QED
    BY <2>1, <2>2
<1>4. ASSUME s # <<>> PROVE Append(s, e)[1] = s[1]
  <2>1. 1 \in 1 .. Len(s)
    BY <1>4
  <2> QED
    BY <1>1, <2>1
<1> QED
  BY <1>2, <1>3, <1>4 DEF e

\* Programming the address halfword of a slot.
LEMMA SetAddress ==
    ASSUME NEW s \in Seq(Slot), NEW i \in 1 .. Len(s), NEW a \in Addresses
    PROVE  LET t == [s EXCEPT ![i].addr = a]
           IN  /\ t \in Seq(Slot) /\ Len(t) = Len(s) /\ t # <<>>
               /\ t[1].addr = IF i = 1 THEN a ELSE s[1].addr
<1> DEFINE t == [s EXCEPT ![i].addr = a]
<1>1. t = [s EXCEPT ![i] = [s[i] EXCEPT !.addr = a]]
  OBVIOUS
<1>2. s[i] \in Slot
  OBVIOUS
<1>3. [s[i] EXCEPT !.addr = a] \in Slot
  BY <1>2 DEF Slot
<1>4. t \in Seq(Slot) /\ Len(t) = Len(s)
  BY <1>1, <1>3
<1>5. t # <<>>
  BY <1>4
<1>6. t[1].addr = IF i = 1 THEN a ELSE s[1].addr
  <2>1. 1 \in DOMAIN s /\ s[1] \in Slot /\ DOMAIN s = 1 .. Len(s)
    OBVIOUS
  <2> HIDE DEF t
  <2>2. CASE i = 1
    <3>1. t[1] = [s[1] EXCEPT !.addr = a]
      BY <1>1, <2>1, <2>2
    <3> QED
      BY <2>1, <2>2, <3>1 DEF Slot
  <2>3. CASE i # 1
    <3>1. t[1] = s[1]
      BY <1>1, <2>1, <2>3
    <3> QED
      BY <2>3, <3>1
  <2> QED
    BY <2>2, <2>3
<1> QED
  BY <1>4, <1>5, <1>6

-----------------------------------------------------------------------------
(* Type correctness.  The copy loops read from a page that is there: while  *)
(* one runs the page it reads is marked valid.                              *)

CopySource ==
    /\ pc = "addr" => WritePage \in Pages /\ log[WritePage] # <<>>
    /\ pc \in {"receive", "copy"} => header[Other(new)] = VALID_PAGE
    /\ pc \in {"data", "addr"} /\ call \in {"init", "transfer"}
           => header[Other(new)] = VALID_PAGE

TypeInv == TypeOK /\ CopySource

USE DEF Pages, ERASED, RECEIVE_DATA, VALID_PAGE, NoPage

\* A variable the scan finds has a byte for its value.
LEMMA LastInValue ==
    ASSUME TypeOK, NEW p \in Pages, NEW a \in Addresses, SlotsOf(p, a) # {}
    PROVE  LastIn(p, a) \in Values
<1>1. log[p] \in Seq(Slot) /\ Len(log[p]) \in Nat
  BY DEF TypeOK
<1>2. SlotsOf(p, a) \subseteq 0 .. Len(log[p])
  BY <1>1 DEF SlotsOf
<1>3. Max(SlotsOf(p, a)) \in SlotsOf(p, a)
  BY <1>1, <1>2, MaxOfSet
<1>4. Max(SlotsOf(p, a)) \in DOMAIN log[p]
  BY <1>3 DEF SlotsOf
<1>5. \A i \in DOMAIN log[p] : log[p][i] \in Slot
  BY <1>1
<1>6. log[p][Max(SlotsOf(p, a))].data \in Values
  BY <1>4, <1>5 DEF Slot
<1> QED
  BY <1>6 DEF LastIn

\* Erasing a page and marking a page keep the flash well typed.
LEMMA EraseType ==
    ASSUME TypeOK, NEW p \in Pages, ErasePage(p)
    PROVE  /\ header' \in [Pages -> {ERASED, RECEIVE_DATA, VALID_PAGE}]
           /\ log' \in [Pages -> Seq(Slot)]
<1>1. <<>> \in Seq(Slot)
  OBVIOUS
<1>2. log' \in [Pages -> Seq(Slot)]
  BY <1>1 DEF ErasePage, TypeOK
<1> QED
  BY <1>2 DEF ErasePage, TypeOK

LEMMA InitType == Init => TypeInv
<1> SUFFICES ASSUME Init PROVE TypeInv
  OBVIOUS
<1>1. 0 \in 0 .. N
  BY SizeAssumption
<1> QED
  BY <1>1 DEF Init, TypeInv, TypeOK, CopySource

LEMMA NextType == TypeInv /\ [Next]_vars => TypeInv'
<1> SUFFICES ASSUME TypeInv, [Next]_vars PROVE TypeInv'
  OBVIOUS
<1> USE DEF TypeInv
<1>1. CASE PowerUp
  BY <1>1, SizeAssumption DEF PowerUp, InitTidy, InitFinish, InitResume, InitFormat,
        TypeOK, CopySource, Other
<1>2. ASSUME NEW w \in Write, WriteVariable(w) PROVE TypeInv'
  BY <1>2 DEF WriteVariable, TypeOK, CopySource
<1>3. CASE Format0 \/ Format1 \/ FormatMark
  <2>1. CASE Format0
    BY <2>1, EraseType DEF Format0, TypeOK, CopySource
  <2>2. CASE FormatMark
    BY <2>2 DEF FormatMark, MarkPage, Programmed, TypeOK, CopySource
  <2>3. CASE Format1
    BY <2>3, EraseType DEF Format1, Return, TypeOK, CopySource
  <2> QED
    BY <1>3, <2>1, <2>2, <2>3
<1>4. CASE Tidy \/ EraseOld \/ ResumeErase
  <2>1. Other(new) \in Pages
    BY DEF Other, TypeOK
  <2>2. ErasePage(Other(new))
    BY <1>4 DEF Tidy, EraseOld, ResumeErase
  <2>3. /\ header' \in [Pages -> {ERASED, RECEIVE_DATA, VALID_PAGE}]
        /\ log' \in [Pages -> Seq(Slot)]
    BY <2>1, <2>2, EraseType
  <2> QED
    BY <1>4, <2>3 DEF Tidy, EraseOld, ResumeErase, Return, TypeOK, CopySource
<1>5. CASE Validate \/ ResumeMark
  BY <1>5 DEF Validate, ResumeMark, MarkPage, Programmed, Return, TypeOK, CopySource
<1>6. CASE ProgramData
  <2>1. WritePage \in Pages /\ WritePage' = WritePage
    BY <1>6 DEF ProgramData, HasRoom, WritePage
  <2>2. log[WritePage] \in Seq(Slot) /\ var.data \in Values
    BY <2>1 DEF TypeOK, Write
  <2>3. /\ Append(log[WritePage], [addr |-> Blank, data |-> var.data]) \in Seq(Slot)
        /\ Append(log[WritePage], [addr |-> Blank, data |-> var.data]) # <<>>
    BY <2>2, AppendSlot
  <2>4. log' = [log EXCEPT ![WritePage] =
                    Append(log[WritePage], [addr |-> Blank, data |-> var.data])]
    BY <1>6 DEF ProgramData
  <2>5. log' \in [Pages -> Seq(Slot)]
    BY <2>1, <2>3, <2>4 DEF TypeOK
  <2>6. log'[WritePage] # <<>>
    BY <2>1, <2>3, <2>4 DEF TypeOK
  <2> QED
    BY <1>6, <2>1, <2>5, <2>6 DEF ProgramData, TypeOK, CopySource, Other
<1>7. CASE ProgramAddress
  <2> DEFINE p == WritePage
  <2>1. p \in Pages /\ log[p] # <<>> /\ log[p] \in Seq(Slot) /\ var.addr \in Addresses
    BY <1>7 DEF ProgramAddress, CopySource, TypeOK, Write
  <2>2. Len(log[p]) \in 1 .. Len(log[p])
    BY <2>1
  <2>3. [log[p] EXCEPT ![Len(log[p])].addr = var.addr] \in Seq(Slot)
    BY <2>1, <2>2, SetAddress
  <2>4. log' = [log EXCEPT ![p] = [log[p] EXCEPT ![Len(log[p])].addr = var.addr]]
    BY <1>7 DEF ProgramAddress
  <2>5. log' \in [Pages -> Seq(Slot)]
    BY <2>1, <2>3, <2>4 DEF TypeOK
  <2> QED
    BY <1>7, <2>5 DEF ProgramAddress, Return, TypeOK, CopySource, Other
<1>8. CASE PageFull \/ NoValidPage
  BY <1>8 DEF PageFull, NoValidPage, ReadPage, WritePage, NoPage, Return, TypeOK, CopySource, Other
<1>9. CASE MarkReceive
  BY <1>9, SizeAssumption DEF MarkReceive, MarkPage, Programmed, TypeOK, CopySource, Other
<1>10. CASE CopyNext
  <2> DEFINE a == Min(ToCopy)
  <2>1. ReadPage \in Pages /\ N \in Nat /\ cursor \in Nat
    BY <1>10, SizeAssumption DEF CopyNext, CopySource, ReadPage, TypeOK, Other
  <2>2. ToCopy \subseteq Nat /\ ToCopy # {}
    BY <1>10, <2>1 DEF CopyNext, ToCopy
  <2>3. a \in ToCopy
    BY <2>2, MinOfSet
  <2>4. a \in Addresses /\ a + 1 \in 0 .. N /\ SlotsOf(ReadPage, a) # {}
    BY <2>1, <2>3 DEF ToCopy, Addresses
  <2>5. ReadVariable(a) \in Values
    BY <2>1, <2>4, LastInValue DEF ReadVariable
  <2>6. var' \in Write /\ cursor' \in 0 .. N
    BY <1>10, <2>4, <2>5 DEF CopyNext, Write
  <2> QED
    BY <1>10, <2>6 DEF CopyNext, TypeOK, CopySource, Other
<1>11. CASE CopyDone
  BY <1>11 DEF CopyDone, TypeOK, CopySource
<1>12. CASE PowerLoss \/ FlashError
  BY <1>12 DEF PowerLoss, FlashError, Return, TypeOK, CopySource
<1>13. CASE UNCHANGED vars
  BY <1>13 DEF vars, TypeOK, CopySource, WritePage, Other
<1> QED
  BY <1>1, <1>2, <1>3, <1>4, <1>5, <1>6, <1>7, <1>8, <1>9, <1>10, <1>11, <1>12, <1>13
     DEF Next, Step

\* Every state the emulation reaches is well typed; in particular every slot in
\* flash holds a byte and an address, and the copy loops only ever copy bytes.
THEOREM TypeCorrect == Spec => []TypeOK
<1>1. Spec => []TypeInv
  BY InitType, NextType, PTL DEF Spec
<1> QED
  BY <1>1, PTL DEF TypeInv

-----------------------------------------------------------------------------
(* The status words.  As long as the power is not cut while both pages are  *)
(* marked valid, the pair of status words tells which call was interrupted: *)
(* two equal ones are met only on blank flash.                              *)

StatusWords ==
    /\ header[0] = header[1] => header[0] = ERASED \/ pc = "resumeErase"
    /\ pc \in {"format0", "formatMark"} => \A p \in Pages : header[p] = ERASED
    /\ pc = "format1" => header[0] = VALID_PAGE /\ header[1] = ERASED
    /\ pc = "tidy" => header[new] = VALID_PAGE /\ header[Other(new)] = ERASED
    /\ pc = "receive" => header[new] # VALID_PAGE
    /\ pc \in {"data", "addr"} /\ call \in {"init", "transfer"}
           => header[new] = RECEIVE_DATA
    /\ pc \in {"copy", "eraseOld", "validate", "resumeMark"}
           => header[new] = RECEIVE_DATA
    /\ pc \in {"resumeMark", "resumeErase"} => header[Other(new)] = VALID_PAGE
    /\ pc = "resumeErase" => header[new] = VALID_PAGE
    /\ pc = "validate" => header[Other(new)] = ERASED

StatusInv == TypeInv /\ StatusWords

LEMMA InitStatus == Init => StatusInv
<1>1. Init => StatusWords
  BY DEF Init, StatusWords
<1> QED
  BY <1>1, InitType DEF StatusInv

LEMMA NextStatus ==
    ASSUME "bothValid" \notin LossPoints
    PROVE  StatusInv /\ [Next]_vars => StatusInv'
<1> SUFFICES ASSUME StatusInv, [Next]_vars PROVE StatusWords'
  BY NextType DEF StatusInv
<1> USE DEF StatusInv, TypeInv, Other
<1>1. CASE PowerUp
  BY <1>1 DEF PowerUp, InitTidy, InitFinish, InitResume, InitFormat, TypeOK, StatusWords
<1>2. ASSUME NEW w \in Write, WriteVariable(w) PROVE StatusWords'
  BY <1>2 DEF WriteVariable, TypeOK, StatusWords
<1>3. CASE Format0 \/ FormatMark \/ Format1 \/ Tidy \/ EraseOld \/ ResumeErase
  BY <1>3 DEF Format0, FormatMark, Format1, Tidy, EraseOld, ResumeErase, ErasePage,
        MarkPage, Programmed, Return, TypeOK, StatusWords
<1>4. CASE MarkReceive \/ Validate \/ ResumeMark
  BY <1>4 DEF MarkReceive, Validate, ResumeMark, MarkPage, Programmed, Return,
        TypeOK, CopySource, StatusWords
<1>5. CASE ProgramData \/ ProgramAddress \/ NoValidPage
  BY <1>5 DEF ProgramData, ProgramAddress, NoValidPage, Return, TypeOK, StatusWords
<1>6. CASE PageFull
  BY <1>6 DEF PageFull, ReadPage, WritePage, NoPage, Return, TypeOK, StatusWords
<1>7. CASE CopyNext \/ CopyDone
  BY <1>7 DEF CopyNext, CopyDone, TypeOK, CopySource, StatusWords
<1>8. CASE PowerLoss \/ FlashError
  BY <1>8 DEF PowerLoss, FlashError, LossPoint, Return, TypeOK, StatusWords
<1>9. CASE UNCHANGED vars
  BY <1>9 DEF vars, StatusWords
<1> QED
  BY <1>1, <1>2, <1>3, <1>4, <1>5, <1>6, <1>7, <1>8, <1>9 DEF Next, Step

\* EEPROM_Format is never run on pages that hold variables, however often the
\* power is cut and whatever flash operations fail, unless it is cut (or the
\* erase fails) while EEPROM_Init has both pages marked valid.
THEOREM FormatIsSafe ==
    ASSUME "bothValid" \notin LossPoints
    PROVE  Spec => []FormatsOnlyBlank
<1>1. Spec => []StatusInv
  BY InitStatus, NextStatus, PTL DEF Spec
<1>2. StatusInv => FormatsOnlyBlank
  BY DEF StatusInv, StatusWords, FormatsOnlyBlank
<1> QED
  BY <1>1, <1>2, PTL

-----------------------------------------------------------------------------
(* Room in the receiving page.  A transfer puts down each variable at most  *)
(* once: at most N slots, so one that is cut short leaves at most N of the  *)
(* 2N - 1.  Starting over costs at most N - 1 more, because the variable at *)
(* the head of the page is left out, or, when the cut came before its       *)
(* address was programmed, N more after a single torn slot.                 *)

Used     == Len(log[new])
First    == FirstAddress(new)
Below(a) == IF a < cursor THEN 1 ELSE 0

GoodPages == \E p \in Pages : header[p] = VALID_PAGE /\ header[Other(p)] = ERASED

BlankPages == \A p \in Pages : header[p] = ERASED => log[p] = <<>>

Settled ==
    /\ pc \in {"idle", "receive"} \/ (pc \in {"data", "addr"} /\ call = "write")
           => GoodPages
    /\ pc = "receive" => call = "transfer"
    /\ pc \in {"copy", "eraseOld"} => call # "write"
    /\ pc = "resumeMark" => call = "init"
    /\ pc = "eraseOld" /\ call = "init" => header[Other(new)] = ERASED
    /\ pc = "receive" \/ (pc = "data" /\ call = "write") => var = arg

TransferRoom ==
    call = "transfer" =>
        /\ pc = "data" => /\ Used <= cursor - Below(arg.addr)
                          /\ \/ Used = 0 /\ var = arg
                             \/ Used > 0 /\ First = arg.addr
        /\ pc = "addr" => /\ Used <= cursor + 1 - Below(arg.addr)
                          /\ \/ Used = 1 /\ var = arg
                             \/ Used > 1 /\ First = arg.addr
        /\ pc = "copy" => /\ Used <= cursor + 1 - Below(arg.addr)
                          /\ Used > 0 /\ First = arg.addr
        /\ pc = "eraseOld" => Used <= N /\ Used > 0 /\ First = arg.addr

ResumeRoom ==
    call = "init" =>
        /\ pc = "data" => \/ Used <= cursor
                          \/ /\ First \in Addresses
                             /\ Used <= N + cursor - 1 - Below(First)
        /\ pc = "addr" => \/ Used <= cursor + 1
                          \/ /\ First \in Addresses /\ Used > 1
                             /\ Used <= N + cursor - Below(First)
        /\ pc = "copy" => \/ Used <= cursor + 1
                          \/ /\ First \in Addresses
                             /\ Used <= N + cursor - Below(First)

CutRoom ==
    pc = "off" =>
        \A p \in Pages : header[p] = RECEIVE_DATA /\ header[Other(p)] = VALID_PAGE =>
            \/ Len(log[p]) <= 1
            \/ Len(log[p]) <= N /\ FirstAddress(p) \in Addresses

RoomInv ==
    /\ StatusInv
    /\ BlankPages /\ Settled
    /\ TransferRoom /\ ResumeRoom /\ CutRoom

\* The cases these theorems are about: calls are cut short only by power cuts,
\* and none of the cuts falls into a copy that EEPROM_Init makes.
BootsInPeace == ~FlashMayFail /\ LossPoints = {"elsewhere"}

LEMMA InitRoom == Init => RoomInv
<1> SUFFICES ASSUME Init PROVE RoomInv
  OBVIOUS
<1>1. StatusInv
  BY InitStatus
<1>2. BlankPages /\ Settled /\ TransferRoom /\ ResumeRoom /\ CutRoom
  BY DEF Init, BlankPages, Settled, TransferRoom, ResumeRoom, CutRoom
<1> QED
  BY <1>1, <1>2 DEF RoomInv

\* While variables are put into the receiving page, that is the page written to.
LEMMA FillingPage ==
    ASSUME StatusInv, pc \in {"data", "addr"}, call \in {"init", "transfer"}
    PROVE  WritePage = new /\ new \in Pages
BY DEF StatusInv, StatusWords, TypeInv, TypeOK, CopySource, WritePage, Other

\* While a plain write is made, the page written to is the valid one.
LEMMA PlainPage ==
    ASSUME StatusInv, GoodPages
    PROVE  WritePage \in Pages /\ ReadPage = WritePage /\ header[WritePage] = VALID_PAGE
BY DEF StatusInv, StatusWords, TypeInv, TypeOK, WritePage, ReadPage, GoodPages, Other

LEMMA CountTransfer ==
    ASSUME NEW n \in Nat, n >= 2, NEW c \in 0 .. n, NEW a \in 0 .. n - 1, NEW u \in Nat,
           u <= c - (IF a < c THEN 1 ELSE 0)
    PROVE  u < 2 * n - 1
OBVIOUS

LEMMA CountResume ==
    ASSUME NEW n \in Nat, n >= 2, NEW c \in 0 .. n, NEW u \in Nat, NEW f,
           u <= c \/ (f \in 0 .. n - 1 /\ u <= n + c - 1 - (IF f < c THEN 1 ELSE 0))
    PROVE  u < 2 * n - 1
OBVIOUS

LEMMA CountAtMost ==
    ASSUME NEW n \in Nat, NEW c \in 0 .. n, NEW a \in 0 .. n - 1, NEW u \in Nat,
           \/ u <= c - (IF a < c THEN 1 ELSE 0)
           \/ u <= c + 1 - (IF a < c THEN 1 ELSE 0)
    PROVE  u <= n
OBVIOUS

LEMMA SlotsLeft ==
    ASSUME RoomInv, pc = "data", call \in {"init", "transfer"}
    PROVE  HasRoom
<1>1. WritePage = new /\ new \in Pages
  BY FillingPage DEF RoomInv
<1>2. /\ Len(log[new]) \in Nat /\ cursor \in 0 .. N /\ N \in Nat /\ N >= 2
      /\ arg.addr \in 0 .. N - 1 /\ SlotsPerPage = 2 * N - 1
  BY <1>1, SizeAssumption DEF RoomInv, StatusInv, TypeInv, TypeOK, Write, Addresses
<1>3. CASE call = "transfer"
  <2>1. Used <= cursor - Below(arg.addr)
    BY <1>3 DEF RoomInv, TransferRoom
  <2>2. Len(log[new]) < SlotsPerPage
    BY <1>2, <2>1, CountTransfer DEF Used, Below
  <2> QED
    BY <1>1, <2>2 DEF HasRoom
<1>4. CASE call = "init"
  <2>1. \/ Used <= cursor
        \/ /\ First \in 0 .. N - 1
           /\ Used <= N + cursor - 1 - Below(First)
    BY <1>4 DEF RoomInv, ResumeRoom, Addresses
  <2>2. Len(log[new]) < SlotsPerPage
    BY <1>2, <2>1, CountResume DEF Used, Below
  <2> QED
    BY <1>1, <2>2 DEF HasRoom
<1> QED
  BY <1>3, <1>4

\* What the two halves of programming a slot do to the page written to.
LEMMA DataSlot ==
    ASSUME TypeOK, WritePage \in Pages, ProgramData
    PROVE  LET p == WritePage
           IN  /\ log' = [log EXCEPT ![p] = log'[p]]
               /\ Len(log'[p]) = Len(log[p]) + 1 /\ log'[p] # <<>>
               /\ log[p] # <<>> => log'[p][1] = log[p][1]
<1> DEFINE p == WritePage
           e == [addr |-> Blank, data |-> var.data]
<1>1. log[p] \in Seq(Slot) /\ var.data \in Values
  BY DEF TypeOK, Write
<1>2. log' = [log EXCEPT ![p] = Append(log[p], e)]
  BY DEF ProgramData
<1>3. log'[p] = Append(log[p], e)
  BY <1>2 DEF TypeOK
<1> QED
  BY ZenonT(40), <1>1, <1>2, <1>3, AppendSlot

LEMMA AddressSlot ==
    ASSUME TypeOK, CopySource, ProgramAddress
    PROVE  LET p == WritePage
           IN  /\ p \in Pages /\ log[p] # <<>>
               /\ log' = [log EXCEPT ![p] = log'[p]]
               /\ Len(log'[p]) = Len(log[p]) /\ log'[p] # <<>>
               /\ log'[p][1].addr = IF Len(log[p]) = 1 THEN var.addr ELSE log[p][1].addr
<1> DEFINE p == WritePage
           t == [log[p] EXCEPT ![Len(log[p])].addr = var.addr]
<1>1. p \in Pages /\ log[p] # <<>> /\ log[p] \in Seq(Slot) /\ var.addr \in Addresses
  BY DEF ProgramAddress, CopySource, TypeOK, Write
<1>2. Len(log[p]) \in 1 .. Len(log[p])
  BY <1>1
<1>3. log' = [log EXCEPT ![p] = t]
  BY DEF ProgramAddress
<1>4. log'[p] = t
  BY <1>1, <1>3 DEF TypeOK
<1>5. /\ Len(t) = Len(log[p]) /\ t # <<>>
      /\ t[1].addr = IF Len(log[p]) = 1 THEN var.addr ELSE log[p][1].addr
  BY <1>1, <1>2, SetAddress
<1> HIDE DEF t
<1> QED
  BY <1>1, <1>3, <1>4, <1>5

LEMMA NextRoom ==
    ASSUME BootsInPeace
    PROVE  RoomInv /\ [Next]_vars => RoomInv'
<1> SUFFICES ASSUME RoomInv, [Next]_vars PROVE RoomInv'
  OBVIOUS
<1>a. StatusInv' /\ StatusInv
  BY NextStatus DEF RoomInv, BootsInPeace
<1>b. TypeOK /\ CopySource /\ StatusWords /\ new \in Pages /\ Other(new) \in Pages
  BY <1>a DEF StatusInv, TypeInv, TypeOK, Other
<1>c. /\ \A p \in Pages : log[p] \in Seq(Slot) /\ Len(log[p]) \in Nat
      /\ \A p \in Pages : log[p] = <<>> <=> Len(log[p]) = 0
  BY <1>b DEF TypeOK
<1>d. N \in Nat /\ N >= 2 /\ cursor \in 0 .. N /\ arg.addr \in 0 .. N - 1
  BY <1>b, SizeAssumption DEF TypeOK, Write, Addresses
<1> DEFINE Goal == BlankPages' /\ Settled' /\ TransferRoom' /\ ResumeRoom' /\ CutRoom'
<1> SUFFICES Goal
  BY <1>a DEF RoomInv
<1> USE DEF RoomInv
<1>1. CASE PowerUp
  <2>1. BlankPages' /\ Settled' /\ TransferRoom' /\ CutRoom'
    BY <1>1 DEF PowerUp, InitTidy, InitFinish, InitResume, InitFormat,
          BlankPages, Settled, TransferRoom, CutRoom
  <2>2. ASSUME pc' = "copy" PROVE ResumeRoom'
    <3>1. PICK p \in Pages : InitResume(p)
      BY <1>1, <2>2 DEF PowerUp, InitTidy, InitFinish, InitResume, InitFormat
    <3>2. new' = p /\ cursor' = 0 /\ log' = log
      BY <1>1, <3>1 DEF PowerUp, InitResume
    <3>3. Len(log[p]) <= 1 \/ (Len(log[p]) <= N /\ FirstAddress(p) \in Addresses)
      BY <1>1, <3>1 DEF PowerUp, InitResume, CutRoom
    <3>4. Used' = Len(log[p]) /\ First' = FirstAddress(p)
      BY <3>2 DEF Used, First, FirstAddress
    <3>5. First' \in Addresses => Below(First)' = 0
      BY <3>2 DEF Below, Addresses
    <3> QED
      BY <2>2, <1>c, <1>d, <3>2, <3>3, <3>4, <3>5 DEF ResumeRoom
  <2>3. ASSUME pc' # "copy" PROVE ResumeRoom'
    BY <1>1, <2>3 DEF PowerUp, InitTidy, InitFinish, InitResume, InitFormat, ResumeRoom
  <2> QED
    BY <2>1, <2>2, <2>3
<1>2. ASSUME NEW w \in Write, WriteVariable(w) PROVE Goal
  BY <1>2 DEF WriteVariable, BlankPages, Settled, GoodPages, TransferRoom, ResumeRoom, CutRoom
<1>3. CASE Format0 \/ Format1 \/ Tidy \/ ResumeErase
  <2>1. BlankPages'
    BY <1>3, <1>b DEF Format0, Format1, Tidy, ResumeErase, ErasePage, TypeOK, BlankPages
  <2>2. Settled'
    BY SMTT(30), <1>3, <1>b DEF Format0, Format1, Tidy, ResumeErase, ErasePage, Return,
          StatusWords, TypeOK, Settled, GoodPages, Other
  <2> QED
    BY <1>3, <2>1, <2>2 DEF Format0, Format1, Tidy, ResumeErase, Return,
          TransferRoom, ResumeRoom, CutRoom
<1>4. CASE FormatMark \/ Validate \/ ResumeMark
  BY <1>4, <1>b DEF FormatMark, Validate, ResumeMark, MarkPage, Programmed, Return,
        StatusWords, TypeOK, BlankPages, Settled, GoodPages, TransferRoom, ResumeRoom,
        CutRoom, Other
<1>5. CASE EraseOld
  BY <1>5, <1>b DEF EraseOld, ErasePage, TypeOK, BlankPages, Settled, TransferRoom,
        ResumeRoom, CutRoom
<1>6. CASE PageFull
  <2>1. call = "write" /\ GoodPages
    BY <1>6, SlotsLeft, <1>b DEF PageFull, TypeOK, Settled
  <2> QED
    BY <1>6, <2>1 DEF PageFull, BlankPages, Settled, GoodPages, TransferRoom,
          ResumeRoom, CutRoom, ReadPage
<1>7. CASE NoValidPage
  BY <1>7, <1>a, <1>b, SlotsLeft, PlainPage DEF NoValidPage, HasRoom, TypeOK, Settled
<1>8. CASE MarkReceive
  <2>1. header[new] = ERASED /\ call = "transfer" /\ var = arg
    BY <1>8, <1>b DEF MarkReceive, StatusWords, CopySource, TypeOK, Settled, GoodPages, Other
  <2>2. Used' = 0 /\ Below(arg.addr)' = 0
    BY <1>8, <1>b, <1>c, <1>d, <2>1 DEF MarkReceive, BlankPages, Used, Below
  <2>3. BlankPages'
    BY <1>8, <1>b DEF MarkReceive, MarkPage, Programmed, TypeOK, BlankPages
  <2> QED
    BY <1>8, <2>1, <2>2, <2>3 DEF MarkReceive, Settled, TransferRoom, ResumeRoom, CutRoom
<1>9. CASE ProgramData
  <2>1. WritePage \in Pages /\ pc = "data" /\ pc' = "addr"
    BY <1>9 DEF ProgramData, HasRoom, WritePage
  <2>2. UNCHANGED <<header, call, arg, var, new, cursor>>
    BY <1>9 DEF ProgramData
  <2> DEFINE p == WritePage
  <2>3. /\ log' = [log EXCEPT ![p] = log'[p]]
        /\ Len(log'[p]) = Len(log[p]) + 1 /\ log'[p] # <<>>
        /\ log[p] # <<>> => log'[p][1] = log[p][1]
    BY <1>9, <1>b, <2>1, DataSlot
  <2>4. CASE call = "write"
    <3>1. header[p] = VALID_PAGE
      BY <1>a, <2>1, <2>4, PlainPage DEF Settled
    <3>2. BlankPages'
      BY <1>b, <2>1, <2>2, <2>3, <3>1 DEF BlankPages, TypeOK
    <3> QED
      BY <2>1, <2>2, <2>4, <3>2 DEF Settled, GoodPages, TransferRoom, ResumeRoom, CutRoom
  <2>5. CASE call \in {"init", "transfer"}
    <3>1. p = new /\ header[new] = RECEIVE_DATA
      BY <1>a, <1>b, <2>1, <2>5, FillingPage DEF StatusWords
    <3>2. BlankPages'
      BY <1>b, <2>1, <2>2, <2>3, <3>1 DEF BlankPages, TypeOK
    <3>3. /\ Used' = Used + 1 /\ Used \in Nat
          /\ Used > 0 => First' = First
          /\ First \in Addresses => Used > 0
      BY <1>b, <1>c, <2>2, <2>3, <3>1 DEF Used, First, FirstAddress, Addresses, Blank
    <3>4. TransferRoom'
      BY <1>d, <2>1, <2>2, <3>3 DEF TransferRoom, Below
    <3>5. ResumeRoom'
      <4>1. SUFFICES ASSUME call = "init"
                     PROVE  \/ Used' <= cursor + 1
                            \/ /\ First' \in Addresses /\ Used' > 1
                               /\ Used' <= N + cursor - Below(First')
        BY <2>1, <2>2 DEF ResumeRoom, Below
      <4>2. \/ Used <= cursor
            \/ First \in Addresses /\ Used <= N + cursor - 1 - Below(First)
        BY <2>1, <4>1 DEF ResumeRoom
      <4> QED
        BY <1>d, <3>3, <4>2 DEF Below, Addresses
    <3> QED
      BY <2>1, <2>2, <2>5, <3>2, <3>4, <3>5 DEF Settled, CutRoom
  <2> QED
    BY <1>b, <2>4, <2>5 DEF TypeOK
<1>10. CASE ProgramAddress
  <2>1. UNCHANGED <<header, call, arg, var, new, cursor>> /\ pc = "addr"
    BY <1>10 DEF ProgramAddress
  <2> DEFINE p == WritePage
  <2>3. /\ p \in Pages /\ log[p] # <<>>
        /\ log' = [log EXCEPT ![p] = log'[p]]
        /\ Len(log'[p]) = Len(log[p]) /\ log'[p] # <<>>
        /\ log'[p][1].addr = IF Len(log[p]) = 1 THEN var.addr ELSE log[p][1].addr
    BY <1>10, <1>b, AddressSlot
  <2>4. CASE call = "write"
    <3>1. BlankPages'
      BY <1>b, <2>1, <2>3 DEF BlankPages, TypeOK
    <3>2. pc' = "idle"
      BY <1>10, <2>4 DEF ProgramAddress, Return
    <3> QED
      BY <2>1, <2>4, <3>1, <3>2 DEF Settled, GoodPages, TransferRoom, ResumeRoom, CutRoom
  <2>5. CASE call \in {"init", "transfer"}
    <3>1. p = new
      BY <1>a, <2>1, <2>5, FillingPage
    <3>2. BlankPages'
      BY <1>b, <2>1, <2>3 DEF BlankPages, TypeOK
    <3>3. pc' = "copy"
      BY <1>10, <2>5 DEF ProgramAddress
    <3>4. /\ Used' = Used /\ Used > 0 /\ Used \in Nat
          /\ First' = IF Used = 1 THEN var.addr ELSE First
      BY <1>b, <1>c, <2>1, <2>3, <3>1 DEF Used, First, FirstAddress
    <3>5. TransferRoom'
      BY <1>d, <2>1, <3>3, <3>4 DEF TransferRoom, Below
    <3>6. ResumeRoom'
      <4>1. SUFFICES ASSUME call = "init"
                     PROVE  \/ Used' <= cursor + 1
                            \/ /\ First' \in Addresses
                               /\ Used' <= N + cursor - Below(First')
        BY <2>1, <3>3 DEF ResumeRoom, Below
      <4>2. \/ Used <= cursor + 1
            \/ /\ First \in Addresses /\ Used > 1
               /\ Used <= N + cursor - Below(First)
        BY <2>1, <4>1 DEF ResumeRoom
      <4> QED
        BY <1>d, <3>4, <4>2
    <3> QED
      BY <2>1, <2>5, <3>2, <3>3, <3>5, <3>6 DEF Settled, CutRoom
  <2> QED
    BY <1>b, <2>4, <2>5 DEF TypeOK
<1>11. CASE CopyNext
  <2> DEFINE a == Min(ToCopy)
  <2>1. ToCopy \subseteq Nat /\ ToCopy # {}
    BY <1>11, <1>d DEF CopyNext, ToCopy
  <2>2. a \in ToCopy
    BY <2>1, MinOfSet
  <2>3. a \in cursor .. N - 1 /\ ~Skipped(a) /\ a \in Nat
    BY <2>1, <2>2 DEF ToCopy
  <2>4. cursor' = a + 1 /\ pc = "copy" /\ pc' = "data"
        /\ UNCHANGED <<header, log, call, arg, new>>
    BY <1>11 DEF CopyNext
  <2> HIDE DEF a
  <2>5. Used' = Used /\ First' = First /\ Used \in Nat
    BY <1>b, <1>c, <2>4 DEF Used, First, FirstAddress
  <2>6. call # "write"
    BY <2>4 DEF Settled
  <2>7. TransferRoom'
    <3>1. SUFFICES ASSUME call = "transfer"
                   PROVE  /\ Used' <= cursor' - Below(arg.addr)'
                          /\ Used' > 0 /\ First' = arg.addr'
      BY <2>4 DEF TransferRoom
    <3>2. /\ Used <= cursor + 1 - Below(arg.addr)
          /\ Used > 0 /\ First = arg.addr
      BY <2>4, <3>1 DEF TransferRoom
    <3>3. a # arg.addr
      BY <2>3, <3>1 DEF Skipped
    <3> QED
      BY <1>d, <2>3, <2>4, <2>5, <3>2, <3>3 DEF Below
  <2>8. ResumeRoom'
    BY <1>d, <2>3, <2>4, <2>5 DEF ResumeRoom, Below, Skipped, First, Addresses
  <2> QED
    BY <2>4, <2>6, <2>7, <2>8 DEF BlankPages, Settled, CutRoom
<1>12. CASE CopyDone
  <2>1. TransferRoom'
    <3>1. SUFFICES ASSUME call = "transfer"
                   PROVE  Used <= N /\ Used > 0 /\ First = arg.addr
      BY <1>12 DEF CopyDone, TransferRoom, Used, First, FirstAddress
    <3>2. /\ Used <= cursor + 1 - Below(arg.addr)
          /\ Used > 0 /\ First = arg.addr
      BY <1>12, <3>1 DEF CopyDone, TransferRoom
    <3>3. Used \in Nat
      BY <1>b, <1>c DEF Used
    <3> QED
      BY <1>d, <3>2, <3>3 DEF Below
  <2> QED
    BY <1>12, <2>1 DEF CopyDone, BlankPages, Settled, ResumeRoom, CutRoom
<1>13. CASE PowerLoss
  <2>1. pc' = "off" /\ UNCHANGED <<header, log, call, arg, var, new, cursor>>
    BY <1>13 DEF PowerLoss
  <2>2. CutRoom'
    <3> SUFFICES ASSUME NEW p \in Pages, header[p] = RECEIVE_DATA,
                        header[Other(p)] = VALID_PAGE
                 PROVE  \/ Len(log[p]) <= 1
                        \/ Len(log[p]) <= N /\ FirstAddress(p) \in Addresses
      BY <2>1 DEF CutRoom, FirstAddress, Other
    <3>1. ~GoodPages
      BY <1>b DEF GoodPages, Other
    <3>2. CASE pc = "off"
      BY <1>13, <3>2 DEF PowerLoss
    <3>3. CASE pc \notin {"off", "data", "addr", "copy", "eraseOld"}
      BY <1>13, <1>b, <3>1, <3>3 DEF PowerLoss, LossPoint, BootsInPeace, Settled,
            StatusWords, TypeOK, Other
    <3>4. CASE pc \in {"data", "addr", "copy", "eraseOld"}
      <4>1. call = "transfer"
        BY <1>13, <1>b, <3>1, <3>4 DEF PowerLoss, LossPoint, BootsInPeace, Settled,
              StatusWords, TypeOK, Other
      <4>2. new = p
        BY <1>b, <3>4, <4>1 DEF StatusWords, CopySource, TypeOK, Other
      <4>3. Used = Len(log[p]) /\ First = FirstAddress(p) /\ Used \in Nat
        BY <1>c, <4>2 DEF Used, First
      <4>4. arg.addr \in Addresses
        BY <1>b DEF TypeOK, Write
      <4>5. \/ Used <= 1
            \/ Used <= N /\ First = arg.addr
        <5>1. CASE pc = "eraseOld"
          BY <4>1, <5>1 DEF TransferRoom
        <5>2. CASE pc = "data"
          <6>1. Used <= cursor - Below(arg.addr) /\ (Used = 0 \/ First = arg.addr)
            BY <4>1, <5>2 DEF TransferRoom
          <6>2. Used <= N
            BY <1>d, <4>3, <6>1, CountAtMost DEF Below
          <6>3. CASE First = arg.addr
            BY <6>2, <6>3
          <6>4. CASE Used = 0 \/ Used = 1
            BY <6>4
          <6> QED
            BY <6>1, <6>3, <6>4
        <5>3. CASE pc \in {"addr", "copy"}
          <6>1. /\ Used <= cursor + 1 - Below(arg.addr)
                /\ Used = 1 \/ First = arg.addr
            BY <4>1, <5>3 DEF TransferRoom
          <6>2. Used <= N
            BY <1>d, <4>3, <6>1, CountAtMost DEF Below
          <6>3. CASE First = arg.addr
            BY <6>2, <6>3
          <6>4. CASE Used = 0 \/ Used = 1
            BY <6>4
          <6> QED
            BY <6>1, <6>3, <6>4
        <5> QED
          BY <3>4, <5>1, <5>2, <5>3
      <4> QED
        BY <4>3, <4>4, <4>5
    <3> QED
      BY <3>2, <3>3, <3>4
  <2> QED
    BY <2>1, <2>2 DEF BlankPages, Settled, TransferRoom, ResumeRoom
<1>14. CASE FlashError
  BY <1>14 DEF FlashError, BootsInPeace
<1>15. CASE UNCHANGED vars
  BY <1>15 DEF vars, BlankPages, Settled, GoodPages, TransferRoom, ResumeRoom, CutRoom,
        Used, First, Below, FirstAddress
<1> QED
  BY <1>1, <1>2, <1>3, <1>4, <1>5, <1>6, <1>7, <1>8, <1>9, <1>10, <1>11, <1>12, <1>13,
     <1>14, <1>15 DEF Next, Step

\* With power cuts anywhere except while EEPROM_Init copies a page, the page that
\* receives a transfer has room for every variable still to come, for any number
\* of variables: 2N - 1 slots are just enough for a transfer begun twice.
THEOREM TransferAlwaysFits == ASSUME BootsInPeace PROVE Spec => []TransferFits
<1>1. Spec => []RoomInv
  BY InitRoom, NextRoom, PTL DEF Spec
<1>2. RoomInv => TransferFits
  BY SlotsLeft DEF TransferFits
<1> QED
  BY <1>1, <1>2, PTL

\* Under the same conditions EEPROM_Init, and every write, leave one valid page
\* and one erased page.
THEOREM AlwaysKnownGood == ASSUME BootsInPeace PROVE Spec => []KnownGood
<1>1. Spec => []RoomInv
  BY InitRoom, NextRoom, PTL DEF Spec
<1>2. RoomInv => KnownGood
  BY DEF RoomInv, Settled, GoodPages, BlankPages, KnownGood, Other
<1> QED
  BY <1>1, <1>2, PTL

-----------------------------------------------------------------------------
(* What the slots say, whatever cuts there are, if no flash operation fails  *)
(* and none of the cuts comes while two pages are valid.                     *)

NoError == ~FlashMayFail /\ "bothValid" \notin LossPoints

\* The scans, of a log.
In(s, a)     == {i \in DOMAIN s : s[i].addr = a}
LastOf(s, a) == IF In(s, a) = {} THEN Unset ELSE s[Max(In(s, a))].data
HeadOf(s)    == IF s = <<>> THEN Blank ELSE s[1].addr

Receiving(p) == header[p] = RECEIVE_DATA /\ header[Other(p)] = VALID_PAGE

\* A copy into the page ended for lack of room, and Init returned.
Stuck == Receiving(new) /\ Len(log[new]) >= SlotsPerPage

Shape ==
    /\ pc \in {"idle", "receive"} \/ (pc = "data" /\ call = "write") => GoodPages \/ Stuck
    /\ pc = "addr" /\ call = "write" => GoodPages
    /\ pc = "receive" => call = "transfer"
    /\ pc = "receive" \/ (pc \in {"data", "addr"} /\ call = "write") => var = arg
    /\ pc \in {"copy", "eraseOld", "validate"} => call # "write"
    /\ pc \in {"resumeMark", "resumeErase", "tidy", "format0", "formatMark", "format1"}
           => call = "init"
    /\ pc = "eraseOld" => header[Other(new)] = IF call = "init" THEN ERASED ELSE VALID_PAGE

\* Every slot but the first of a page that receives is torn, or a copy.
Copies ==
    \A p \in Pages : Receiving(p) =>
        \A i \in 2 .. Len(log[p]) :
            \/ log[p][i].addr = Blank
            \/ /\ log[p][i].addr # HeadOf(log[p])
               /\ log[p][i].data = LastOf(log[Other(p)], log[p][i].addr)

\* The first slot of a transfer is the write it is made for.
HeadIsWrite == log[new] # <<>> /\ log[new][1] = arg

VarIsCopy == var.addr # HeadOf(log[new]) /\ var.data = LastOf(log[Other(new)], var.addr)

ToProgram ==
    /\ pc = "addr" => log[WritePage][Len(log[WritePage])] = [addr |-> Blank, data |-> var.data]
    /\ call = "transfer" =>
           /\ pc = "data" =>
                  \/ /\ cursor = 0 /\ var = arg
                     /\ log[new] = <<>> \/ Len(log[new]) >= SlotsPerPage
                  \/ HeadIsWrite /\ VarIsCopy
           /\ pc = "addr" =>
                  \/ cursor = 0 /\ var = arg /\ Len(log[new]) = 1
                  \/ HeadIsWrite /\ VarIsCopy /\ Len(log[new]) > 1
           /\ pc \in {"copy", "eraseOld"} => HeadIsWrite
    /\ call = "init" /\ pc \in {"data", "addr"} => VarIsCopy

\* The loop has passed a variable: it is copied, or on its way.
Progress ==
    pc \in {"copy", "data", "addr"} /\ call \in {"init", "transfer"} =>
        \A a \in Addresses :
            a < cursor /\ a # (IF call = "init" THEN HeadOf(log[new]) ELSE arg.addr)
                /\ In(log[Other(new)], a) # {}
            => In(log[new], a) # {} \/ (pc # "copy" /\ a = var.addr)

\* The new page can stand in for the old one.
StandsBy ==
    \A a \in Addresses :
        LastOf(log[new], a) = IF a = HeadOf(log[new]) THEN log[new][1].data
                                                      ELSE LastOf(log[Other(new)], a)

Standing ==
    pc \in {"resumeMark", "resumeErase"} \/ (pc = "eraseOld" /\ call = "transfer") => StandsBy

Told ==
    /\ pc = "validate" /\ call = "transfer" => LastOf(log[new], arg.addr) = arg.data
    /\ CompletedWriteIsRead

DataInv ==
    /\ StatusInv
    /\ BlankPages /\ Shape /\ Copies /\ ToProgram /\ Progress /\ Standing /\ Told

\* The scans find the same after the data halfword of a slot is programmed.
LEMMA BlankUnseen ==
    ASSUME NEW s \in Seq(Slot), NEW d \in Values, NEW a \in Addresses
    PROVE  LET t == Append(s, [addr |-> Blank, data |-> d])
           IN  In(t, a) = In(s, a) /\ LastOf(t, a) = LastOf(s, a)
<1> DEFINE e == [addr |-> Blank, data |-> d]
           t == Append(s, e)
<1>1. /\ Len(s) \in Nat /\ DOMAIN s = 1 .. Len(s) /\ DOMAIN t = 1 .. Len(s) + 1
      /\ \A i \in 1 .. Len(s) : t[i] = s[i]
      /\ t[Len(s) + 1] = e
  OBVIOUS
<1>2. e.addr # a
  BY SizeAssumption DEF Blank, Addresses
<1> HIDE DEF e, t
<1>3. In(t, a) = In(s, a)
  BY <1>1, <1>2 DEF In
<1>4. ASSUME In(s, a) # {} PROVE t[Max(In(s, a))] = s[Max(In(s, a))]
  <2>1. In(s, a) \subseteq 0 .. Len(s) /\ In(s, a) \subseteq DOMAIN s
    BY <1>1 DEF In
  <2>2. Max(In(s, a)) \in In(s, a)
    BY <1>1, <1>4, <2>1, MaxOfSet
  <2> QED
    BY <1>1, <2>1, <2>2
<1>5. LastOf(t, a) = LastOf(s, a)
  BY <1>3, <1>4 DEF LastOf
<1> QED
  BY <1>3, <1>5 DEF t, e

\* What a scan finds is the last slot with the address.
LEMMA LastFound ==
    ASSUME NEW s \in Seq(Slot), NEW a
    PROVE  /\ In(s, a) = {} => LastOf(s, a) = Unset
           /\ In(s, a) # {} =>
                  \E i \in DOMAIN s : /\ s[i].addr = a /\ LastOf(s, a) = s[i].data
                                      /\ \A j \in In(s, a) : j <= i
                                      /\ s[i].data \in Values
<1>1. ASSUME In(s, a) # {}
      PROVE  \E i \in DOMAIN s : /\ s[i].addr = a /\ LastOf(s, a) = s[i].data
                                 /\ \A j \in In(s, a) : j <= i
                                 /\ s[i].data \in Values
  <2>1. Len(s) \in Nat /\ In(s, a) \subseteq 0 .. Len(s)
    BY DEF In
  <2>2. Max(In(s, a)) \in In(s, a) /\ \A j \in In(s, a) : j <= Max(In(s, a))
    BY <1>1, <2>1, MaxOfSet
  <2> DEFINE i == Max(In(s, a))
  <2>3. i \in DOMAIN s /\ s[i].addr = a
    BY <2>2 DEF In
  <2>4. s[i] \in Slot
    BY <2>3
  <2>5. LastOf(s, a) = s[i].data
    BY <1>1 DEF LastOf
  <2>6. s[i].data \in Values
    BY <2>4 DEF Slot
  <2> HIDE DEF i
  <2>7. \A j \in In(s, a) : j <= i
    BY <2>2 DEF i
  <2> QED
    BY <2>3, <2>5, <2>6, <2>7
<1> QED
  BY <1>1 DEF LastOf

\* The greatest slot with an address decides.
LEMMA LastIsGreatest ==
    ASSUME NEW s \in Seq(Slot), NEW i \in DOMAIN s, \A j \in In(s, s[i].addr) : j <= i
    PROVE  LastOf(s, s[i].addr) = s[i].data /\ In(s, s[i].addr) # {}
<1>1. i \in In(s, s[i].addr)
  BY DEF In
<1>2. PICK k \in DOMAIN s : /\ s[k].addr = s[i].addr /\ LastOf(s, s[i].addr) = s[k].data
                            /\ \A j \in In(s, s[i].addr) : j <= k
  BY <1>1, LastFound
<1>3. k \in In(s, s[i].addr)
  BY <1>2 DEF In
<1>4. k <= i /\ i <= k /\ i \in Nat /\ k \in Nat
  BY <1>1, <1>2, <1>3
<1> QED
  BY <1>1, <1>2, <1>4

\* Programming the address of the last slot, which was torn.
LEMMA SlotDone ==
    ASSUME NEW s \in Seq(Slot), s # <<>>, s[Len(s)].addr = Blank, NEW b \in Addresses
    PROVE  LET t == [s EXCEPT ![Len(s)].addr = b]
           IN  /\ t \in Seq(Slot) /\ Len(t) = Len(s) /\ Len(s) \in Nat \ {0}
               /\ \A i \in 1 .. Len(s) - 1 : t[i] = s[i]
               /\ t[Len(s)] = [addr |-> b, data |-> s[Len(s)].data]
               /\ In(t, b) # {} /\ LastOf(t, b) = s[Len(s)].data
               /\ \A a \in Addresses \ {b} : In(t, a) = In(s, a) /\ LastOf(t, a) = LastOf(s, a)
<1> DEFINE n == Len(s)
           t == [s EXCEPT ![n].addr = b]
<1>1. n \in Nat \ {0} /\ n \in DOMAIN s /\ DOMAIN s = 1 .. n /\ s[n] \in Slot
  OBVIOUS
<1>2. t = [s EXCEPT ![n] = [s[n] EXCEPT !.addr = b]]
  OBVIOUS
<1>3. [s[n] EXCEPT !.addr = b] = [addr |-> b, data |-> s[n].data]
      /\ [s[n] EXCEPT !.addr = b] \in Slot
  BY <1>1 DEF Slot
<1>4. t \in Seq(Slot) /\ Len(t) = n /\ DOMAIN t = DOMAIN s
  BY <1>1, <1>2, <1>3
<1>5. \A i \in 1 .. n - 1 : t[i] = s[i]
  BY <1>1, <1>2
<1>6. t[n] = [addr |-> b, data |-> s[n].data]
  BY <1>1, <1>2, <1>3
<1>7. t[n].addr = b /\ t[n].data = s[n].data
  BY <1>6
<1> HIDE DEF t, n
<1>8. LastOf(t, b) = s[n].data /\ In(t, b) # {}
  <2>1. \A j \in In(t, b) : j <= n
    BY <1>1, <1>4 DEF In
  <2> QED
    BY <1>1, <1>4, <1>7, <2>1, LastIsGreatest
<1>9. ASSUME NEW a \in Addresses \ {b}
      PROVE  In(t, a) = In(s, a) /\ LastOf(t, a) = LastOf(s, a)
  <2>1. s[n].addr = Blank /\ Blank # a
    BY SizeAssumption DEF Blank, Addresses, n
  <2>2. In(t, a) = In(s, a)
    BY <1>1, <1>4, <1>5, <1>7, <2>1 DEF In
  <2>3. ASSUME In(s, a) # {} PROVE t[Max(In(s, a))] = s[Max(In(s, a))]
    <3>1. In(s, a) \subseteq 0 .. n /\ In(s, a) \subseteq 1 .. n - 1
      BY <1>1, <2>1 DEF In
    <3>2. Max(In(s, a)) \in In(s, a)
      BY <1>1, <2>3, <3>1, MaxOfSet
    <3> QED
      BY <1>5, <3>1, <3>2
  <2> QED
    BY <2>2, <2>3 DEF LastOf
<1> QED
  BY <1>1, <1>4, <1>5, <1>6, <1>8, <1>9 DEF t, n

\* A page all of whose slots but the first are torn or copies, and that has a slot
\* for every variable that is to be copied, can stand in for the other one.
LEMMA CopyStands ==
    ASSUME NEW s \in Seq(Slot), NEW o \in Seq(Slot),
           \A i \in 2 .. Len(s) :
               s[i].addr = Blank \/ (s[i].addr # HeadOf(s) /\ s[i].data = LastOf(o, s[i].addr)),
           \A a \in Addresses : a # HeadOf(s) /\ In(o, a) # {} => In(s, a) # {},
           NEW a \in Addresses
    PROVE  LastOf(s, a) = IF a = HeadOf(s) THEN s[1].data ELSE LastOf(o, a)
<1>1. Len(s) \in Nat /\ DOMAIN s = 1 .. Len(s) /\ Blank # a
  BY SizeAssumption DEF Blank, Addresses
<1>2. CASE a = HeadOf(s)
  <2>1. s # <<>> /\ s[1].addr = a /\ 1 \in DOMAIN s
    BY <1>1, <1>2 DEF HeadOf
  <2>2. \A j \in In(s, a) : j = 1
    BY <1>1, <1>2 DEF In
  <2>3. \A j \in In(s, s[1].addr) : j <= 1
    BY <2>1, <2>2
  <2> QED
    BY <1>2, <2>1, <2>3, LastIsGreatest
<1>3. CASE a # HeadOf(s)
  <2>1. CASE In(s, a) = {}
    <3>1. In(o, a) = {}
      BY <1>3, <2>1
    <3> QED
      BY <1>3, <2>1, <3>1, LastFound
  <2>2. CASE In(s, a) # {}
    <3>1. PICK i \in DOMAIN s : s[i].addr = a /\ LastOf(s, a) = s[i].data
      BY <2>2, LastFound
    <3>2. i # 1
      <4> SUFFICES ASSUME i = 1 PROVE FALSE
        OBVIOUS
      <4>1. s # <<>>
        BY <1>1, <3>1
      <4> QED
        BY <1>3, <3>1, <4>1 DEF HeadOf
    <3>3. i \in 2 .. Len(s)
      BY <1>1, <3>2
    <3> QED
      BY <1>1, <1>3, <3>1, <3>3
  <2> QED
    BY <2>1, <2>2
<1> QED
  BY <1>2, <1>3

LEMMA DataFacts ==
    ASSUME DataInv
    PROVE  /\ StatusInv /\ StatusWords /\ TypeOK /\ CopySource
           /\ new \in Pages /\ Other(new) \in Pages /\ Other(new) # new /\ Other(Other(new)) = new
           /\ \A p \in Pages : log[p] \in Seq(Slot) /\ Len(log[p]) \in Nat
           /\ arg \in Write /\ arg.addr \in Addresses /\ arg.data \in Values
           /\ var \in Write /\ var.addr \in Addresses /\ var.data \in Values
           /\ cursor \in 0 .. N /\ N \in Nat
<1>1. StatusInv /\ StatusWords /\ TypeOK /\ CopySource
  BY DEF DataInv, StatusInv, TypeInv
<1>2. new \in Pages /\ Other(new) \in Pages /\ Other(new) # new /\ Other(Other(new)) = new
  BY <1>1 DEF TypeOK, Other
<1>3. \A p \in Pages : log[p] \in Seq(Slot) /\ Len(log[p]) \in Nat
  BY <1>1 DEF TypeOK
<1>4. /\ arg \in Write /\ arg.addr \in Addresses /\ arg.data \in Values
      /\ var \in Write /\ var.addr \in Addresses /\ var.data \in Values
  BY <1>1 DEF TypeOK, Write
<1>5. cursor \in 0 .. N /\ N \in Nat
  BY <1>1, SizeAssumption DEF TypeOK
<1> QED
  BY <1>1, <1>2, <1>3, <1>4, <1>5

\* Steps that write nothing leave the copies as they are.
LEMMA SameFlash ==
    ASSUME DataInv, UNCHANGED <<header, log>>
    PROVE  BlankPages' /\ Copies'
  BY DEF DataInv, BlankPages, Copies, Receiving, Other

LEMMA PowerUpKeeps == ASSUME DataInv, PowerUp PROVE Shape' /\ ToProgram' /\ Progress' /\ Standing' /\ Told'
<1>1. /\ pc = "off" /\ call' = "init" /\ cursor' = 0
      /\ pc' \in {"tidy", "eraseOld", "copy", "format0"}
      /\ UNCHANGED <<header, log, arg, var>>
  BY DEF PowerUp, InitTidy, InitFinish, InitResume, InitFormat
<1>2. Shape'
  <2>1. pc' = "eraseOld" => header'[Other(new')] = ERASED
    BY DEF PowerUp, InitTidy, InitFinish, InitResume, InitFormat
  <2> QED
    BY <1>1, <2>1 DEF Shape, Other
<1>3. ToProgram' /\ Standing'
  BY <1>1 DEF ToProgram, Standing
<1>4. Progress'
  BY <1>1, SizeAssumption DEF Progress, Addresses
<1>5. Told'
  BY <1>1 DEF Told, CompletedWriteIsRead
<1> QED
  BY <1>2, <1>3, <1>4, <1>5

LEMMA WriteVariableKeeps ==
    ASSUME DataInv, NEW w \in Write, WriteVariable(w)
    PROVE  Shape' /\ ToProgram' /\ Progress' /\ Standing' /\ Told'
<1>1. /\ pc = "idle" /\ pc' = "data" /\ call' = "write" /\ var' = arg'
      /\ UNCHANGED <<header, log, new>>
  BY DEF WriteVariable
<1>2. GoodPages \/ Stuck
  BY <1>1 DEF DataInv, Shape
<1>3. Shape'
  BY <1>1, <1>2 DEF Shape, GoodPages, Stuck, Receiving, Other
<1>4. ToProgram' /\ Progress' /\ Standing' /\ Told'
  BY <1>1 DEF ToProgram, Progress, Standing, Told, CompletedWriteIsRead
<1> QED
  BY <1>3, <1>4

\* Erasing: the pages of EEPROM_Init, or the old page when the new one is complete.
LEMMA EraseKeeps ==
    ASSUME DataInv, Format0 \/ Format1 \/ Tidy \/ EraseOld \/ ResumeErase
    PROVE  /\ BlankPages' /\ Copies' /\ Shape' /\ ToProgram' /\ Progress' /\ Standing' /\ Told'
<1>1. PICK p \in Pages :
          /\ ErasePage(p) /\ UNCHANGED <<call, arg, var, new, cursor>>
          /\ \/ p = 0 /\ pc = "format0" /\ pc' = "formatMark"
             \/ p = 1 /\ pc = "format1" /\ pc' = "idle"
             \/ p = Other(new) /\ pc \in {"tidy", "resumeErase"} /\ pc' = "idle"
             \/ p = Other(new) /\ pc = "eraseOld" /\ pc' = "validate"
  BY DataFacts DEF Format0, Format1, Tidy, EraseOld, ResumeErase, Return
<1>2. /\ header' \in [Pages -> {ERASED, RECEIVE_DATA, VALID_PAGE}]
      /\ header'[p] = ERASED /\ header'[Other(p)] = header[Other(p)]
      /\ log'[p] = <<>> /\ log'[Other(p)] = log[Other(p)]
      /\ Other(p) \in Pages /\ \A q \in Pages : q = p \/ q = Other(p)
  <2>1. Other(p) \in Pages /\ Other(p) # p /\ \A q \in Pages : q = p \/ q = Other(p)
    BY DEF Other
  <2>2. header \in [Pages -> {ERASED, RECEIVE_DATA, VALID_PAGE}] /\ log \in [Pages -> Seq(Slot)]
    BY DataFacts DEF TypeOK
  <2> QED
    BY <1>1, <2>1, <2>2 DEF ErasePage
<1>3. BlankPages'
  <2> SUFFICES ASSUME NEW q \in Pages, header'[q] = ERASED PROVE log'[q] = <<>>
    BY DEF BlankPages
  <2>1. CASE q = p
    BY <1>2, <2>1
  <2>2. CASE q = Other(p)
    BY <1>2, <2>2 DEF DataInv, BlankPages
  <2> QED
    BY <1>2, <2>1, <2>2
<1>4. Copies'
  <2>1. \A q \in Pages : ~Receiving(q)'
    <3>1. Other(Other(p)) = p
      BY DEF Other
    <3>2. header'[p] # RECEIVE_DATA /\ header'[p] # VALID_PAGE
      BY <1>2
    <3> QED
      BY <1>2, <3>1, <3>2 DEF Receiving
  <2> QED
    BY <2>1 DEF Copies
<1>5. Shape'
  <2>1. pc' = "idle" => GoodPages'
    BY <1>1, <1>2, DataFacts DEF GoodPages, StatusWords, Other
  <2>2. /\ pc' \in {"formatMark", "idle", "validate"} /\ call' = call
        /\ pc \in {"format0", "format1", "tidy", "resumeErase"} => call = "init"
        /\ pc = "eraseOld" => call # "write"
    BY <1>1 DEF DataInv, Shape
  <2> QED
    BY <1>1, <2>1, <2>2 DEF Shape
<1>6. ToProgram' /\ Progress' /\ Standing'
  BY <1>1 DEF ToProgram, Progress, Standing
<1>7. Told'
  <2>1. pc' = "idle" => call' = "init"
    BY <1>1 DEF DataInv, Shape
  <2>2. ASSUME pc' = "validate", call' = "transfer" PROVE LastOf(log'[new'], arg'.addr) = arg'.data
    <3>1. /\ call = "transfer" /\ pc = "eraseOld" /\ p = Other(new) /\ new' = new /\ arg' = arg
      BY <1>1, <2>2
    <3>2. log'[new] = log[new]
      BY <1>2, <3>1, DataFacts
    <3>3. StandsBy /\ HeadIsWrite
      BY <3>1 DEF DataInv, Standing, ToProgram
    <3>4. HeadOf(log[new]) = arg.addr /\ log[new][1].data = arg.data
      BY <3>3 DEF HeadIsWrite, HeadOf
    <3>5. LastOf(log[new], arg.addr) = arg.data
      BY <3>3, <3>4, DataFacts DEF StandsBy
    <3> QED
      BY <3>1, <3>2, <3>5
  <2> QED
    BY <1>1, <2>1, <2>2 DEF Told, CompletedWriteIsRead
<1> QED
  BY <1>3, <1>4, <1>5, <1>6, <1>7

\* The status words.
LEMMA MarkKeeps ==
    ASSUME DataInv, FormatMark \/ MarkReceive \/ Validate \/ ResumeMark
    PROVE  /\ BlankPages' /\ Copies' /\ Shape' /\ ToProgram' /\ Progress' /\ Standing' /\ Told'
<1>1. CASE FormatMark
  <2>1. /\ header'[0] = VALID_PAGE /\ header'[1] = ERASED /\ header[1] = ERASED /\ pc' = "format1"
        /\ header[0] = ERASED /\ call' = call /\ call = "init"
        /\ log' = log /\ pc = "formatMark"
    BY <1>1, DataFacts DEF FormatMark, MarkPage, Programmed, StatusWords, TypeOK, DataInv, Shape
  <2>2. BlankPages' /\ Copies'
    BY <2>1 DEF BlankPages, Copies, Receiving, DataInv
  <2> QED
    BY <2>1, <2>2 DEF Shape, ToProgram, Progress, Standing, Told, CompletedWriteIsRead
<1>2. CASE MarkReceive
  <2>1. /\ pc = "receive" /\ pc' = "data" /\ cursor' = 0 /\ call = "transfer" /\ var = arg
        /\ header[new] # VALID_PAGE /\ header[Other(new)] = VALID_PAGE
        /\ (GoodPages \/ Stuck) /\ UNCHANGED <<log, call, arg, var, new>>
    BY <1>2, DataFacts DEF MarkReceive, DataInv, Shape, StatusWords, CopySource
  <2>2. header' = [header EXCEPT ![new] = RECEIVE_DATA]
    BY <1>2, <2>1 DEF MarkReceive, MarkPage, Programmed
  <2>3. log[new] = <<>> \/ (Receiving(new) /\ Len(log[new]) >= SlotsPerPage)
    <3>1. CASE Stuck
      BY <3>1 DEF Stuck
    <3>2. CASE GoodPages
      <4>1. header[new] = ERASED
        BY <2>1, <3>2, DataFacts DEF GoodPages, Other
      <4> QED
        BY <4>1, DataFacts DEF DataInv, BlankPages
    <3> QED
      BY <2>1, <3>1, <3>2
  <2>4. /\ header'[new] = RECEIVE_DATA /\ header'[Other(new)] = VALID_PAGE
        /\ \A q \in Pages : q = new \/ q = Other(new)
    BY <2>1, <2>2, DataFacts DEF TypeOK, Other
  <2>5. BlankPages'
    BY <2>1, <2>4 DEF BlankPages
  <2>6. Copies'
    <3> SUFFICES ASSUME NEW q \in Pages, Receiving(q)', NEW i \in 2 .. Len(log[q])
                 PROVE  \/ log[q][i].addr = Blank
                        \/ /\ log[q][i].addr # HeadOf(log[q])
                           /\ log[q][i].data = LastOf(log[Other(q)], log[q][i].addr)
      BY <2>1 DEF Copies, Other
    <3>1. q = new
      BY <2>4, DataFacts DEF Receiving
    <3>2. log[new] # <<>>
      BY <3>1
    <3> QED
      BY <2>3, <3>1, <3>2 DEF DataInv, Copies
  <2>7. ToProgram' /\ Shape'
    BY <2>1, <2>3 DEF ToProgram, Shape
  <2>8. Progress'
    BY <2>1, SizeAssumption DEF Progress, Addresses
  <2> QED
    BY <2>1, <2>5, <2>6, <2>7, <2>8 DEF Standing, Told, CompletedWriteIsRead
<1>3. CASE Validate
  <2>1. /\ pc = "validate" /\ pc' = "idle" /\ call # "write" /\ header[Other(new)] = ERASED
        /\ header[new] = RECEIVE_DATA /\ UNCHANGED <<log, call, arg, var, new, cursor>>
    BY <1>3, DataFacts DEF Validate, Return, DataInv, Shape, StatusWords
  <2>2. header' = [header EXCEPT ![new] = VALID_PAGE]
    BY <1>3, <2>1 DEF Validate, MarkPage, Programmed
  <2>3. header'[new] = VALID_PAGE /\ header'[Other(new)] = ERASED
        /\ \A q \in Pages : q = new \/ q = Other(new)
    BY <2>1, <2>2, DataFacts DEF TypeOK, Other
  <2>4. BlankPages'
    BY <2>1, <2>3 DEF BlankPages, DataInv
  <2>5. Copies'
    BY <2>3, DataFacts DEF Copies, Receiving
  <2>6. Shape'
    BY <2>1, <2>3, DataFacts DEF Shape, GoodPages
  <2>7. Told'
    <3>1. ReadPage' = new
      BY <2>3, DataFacts DEF ReadPage, Other
    <3>2. call = "transfer" => LastOf(log[new], arg.addr) = arg.data
      BY <2>1 DEF DataInv, Told
    <3>3. ReadVariable(arg.addr)' = LastOf(log[new], arg.addr)
      BY <2>1, <3>1, DataFacts DEF ReadVariable, LastIn, LastOf, SlotsOf, In
    <3> QED
      BY <2>1, <3>2, <3>3 DEF Told, CompletedWriteIsRead
  <2> QED
    BY <2>1, <2>4, <2>5, <2>6, <2>7 DEF ToProgram, Progress, Standing
<1>4. CASE ResumeMark
  <2>1. /\ pc = "resumeMark" /\ pc' = "resumeErase" /\ call = "init" /\ header[Other(new)] = VALID_PAGE
        /\ header[new] = RECEIVE_DATA /\ UNCHANGED <<log, call, arg, var, new, cursor>>
    BY <1>4, DataFacts DEF ResumeMark, DataInv, Shape, StatusWords
  <2>2. header' = [header EXCEPT ![new] = VALID_PAGE]
    BY <1>4, <2>1 DEF ResumeMark, MarkPage, Programmed
  <2>3. \A q \in Pages : header'[q] = VALID_PAGE
    BY <2>1, <2>2, DataFacts DEF TypeOK, Other
  <2>4. BlankPages' /\ Copies' /\ Shape'
    BY <2>1, <2>3 DEF BlankPages, Copies, Receiving, Shape
  <2>5. Standing'
    BY <2>1 DEF DataInv, Standing, StandsBy, Other
  <2> QED
    BY <2>1, <2>4, <2>5 DEF ToProgram, Progress, Told, CompletedWriteIsRead
<1> QED
  BY <1>1, <1>2, <1>3, <1>4

\* Which page is written: the valid one, or the one that receives.
LEMMA PageWritten ==
    ASSUME DataInv, pc \in {"data", "addr"}
    PROVE  /\ WritePage \in Pages
           /\ call = "write" /\ (pc = "addr" \/ HasRoom) => GoodPages /\ ReadPage = WritePage
                                                            /\ header[WritePage] = VALID_PAGE
           /\ call # "write" => WritePage = new /\ Receiving(new) /\ ReadPage = Other(new)
<1>1. CASE call = "write"
  <2>1. GoodPages \/ Stuck
    BY <1>1 DEF DataInv, Shape
  <2>2. ASSUME Stuck, ~GoodPages
        PROVE  WritePage \in Pages /\ ~HasRoom /\ pc = "data"
    <3>1. WritePage = new
      BY <2>2, DataFacts DEF Stuck, Receiving, WritePage, Other
    <3>2. Len(log[new]) >= SlotsPerPage /\ Len(log[new]) \in Nat /\ SlotsPerPage \in Nat
      BY <2>2, SizeAssumption, DataFacts DEF Stuck
    <3>3. ~HasRoom
      BY <3>1, <3>2 DEF HasRoom
    <3> QED
      BY <1>1, <2>2, <3>1, <3>3, DataFacts DEF DataInv, Shape
  <2>3. GoodPages => WritePage \in Pages /\ ReadPage = WritePage /\ header[WritePage] = VALID_PAGE
    BY DataFacts, PlainPage
  <2> QED
    BY <1>1, <2>1, <2>2, <2>3
<1>2. CASE call # "write"
  <2>1. call \in {"init", "transfer"}
    BY <1>2, DataFacts DEF TypeOK
  <2>2. WritePage = new
    BY <2>1, DataFacts, FillingPage
  <2>3. Receiving(new)
    BY <2>1, DataFacts DEF StatusWords, CopySource, Receiving
  <2>4. ReadPage = Other(new)
    BY <2>3, DataFacts DEF Receiving, ReadPage, Other
  <2> QED
    BY <1>2, <2>2, <2>3, <2>4, DataFacts
<1> QED
  BY <1>1, <1>2

\* The data halfword of a slot.
LEMMA ProgramDataKeeps ==
    ASSUME DataInv, ProgramData
    PROVE  /\ BlankPages' /\ Copies' /\ Shape' /\ ToProgram' /\ Progress' /\ Standing' /\ Told'
<1> DEFINE p == WritePage
           n == Len(log[p])
           t == Append(log[p], [addr |-> Blank, data |-> var.data])
<1>1. /\ pc = "data" /\ pc' = "addr" /\ HasRoom
      /\ UNCHANGED <<header, call, arg, var, new, cursor>>
      /\ log' = [log EXCEPT ![p] = t]
  BY DEF ProgramData
<1>2. /\ p \in Pages /\ log[p] \in Seq(Slot) /\ n \in Nat /\ var.data \in Values
      /\ n < SlotsPerPage /\ log \in [Pages -> Seq(Slot)]
  BY <1>1, PageWritten, DataFacts DEF HasRoom, TypeOK
<1>3. /\ log'[p] = t /\ \A q \in Pages : q # p => log'[q] = log[q]
  BY <1>1, <1>2
<1>4. /\ t \in Seq(Slot) /\ Len(t) = n + 1 /\ t # <<>>
      /\ \A i \in 1 .. n : t[i] = log[p][i]
      /\ t[n + 1] = [addr |-> Blank, data |-> var.data]
      /\ log[p] # <<>> => t[1] = log[p][1]
      /\ log[p] = <<>> => n = 0
  <2>1. [addr |-> Blank, data |-> var.data] \in Slot
    BY <1>2 DEF Slot, Blank
  <2> QED
    BY <1>2, <2>1, AppendSlot
<1>5. HeadOf(t) = HeadOf(log[p])
  <2>1. CASE log[p] = <<>>
    <3>1. t[1] = [addr |-> Blank, data |-> var.data]
      BY <1>4, <2>1
    <3> QED
      BY <1>4, <2>1, <3>1 DEF HeadOf
  <2>2. CASE log[p] # <<>>
    BY <1>4, <2>2 DEF HeadOf
  <2> QED
    BY <2>1, <2>2
<1>6. \A a \in Addresses : In(t, a) = In(log[p], a) /\ LastOf(t, a) = LastOf(log[p], a)
  BY <1>2, BlankUnseen
<1>7. WritePage' = p
  BY <1>1 DEF WritePage
<1> HIDE DEF t, p, n
<1>8. log'[p][Len(log'[p])] = [addr |-> Blank, data |-> var.data]
  BY <1>3, <1>4
<1>9. CASE call = "write"
  <2>1. GoodPages /\ header[p] = VALID_PAGE
    BY <1>1, <1>9, PageWritten DEF p
  <2>2. BlankPages'
    BY <1>1, <1>3, <2>1 DEF BlankPages, DataInv
  <2>3. Copies'
    BY <1>1, <2>1 DEF Copies, Receiving, GoodPages, Other
  <2>4. Shape'
    BY <1>1, <1>9, <2>1 DEF DataInv, Shape, GoodPages, Other
  <2>5. ToProgram'
    BY <1>1, <1>7, <1>8, <1>9 DEF ToProgram
  <2> QED
    BY <1>1, <1>9, <2>2, <2>3, <2>4, <2>5 DEF Progress, Standing, Told, CompletedWriteIsRead
<1>10. CASE call # "write"
  <2>1. p = new /\ Receiving(new) /\ call \in {"init", "transfer"}
    BY <1>1, <1>10, PageWritten, DataFacts DEF p, TypeOK
  <2>2. log'[Other(new)] = log[Other(new)] /\ log'[new] = t
    BY <1>3, <2>1, DataFacts
  <2>3. BlankPages'
    BY <1>1, <1>3, <2>1 DEF BlankPages, DataInv, Receiving
  <2>4. Copies'
    <3> SUFFICES ASSUME NEW q \in Pages, Receiving(q)', NEW i \in 2 .. Len(log'[q])
                 PROVE  \/ log'[q][i].addr = Blank
                        \/ /\ log'[q][i].addr # HeadOf(log'[q])
                           /\ log'[q][i].data = LastOf(log'[Other(q)], log'[q][i].addr)
      BY DEF Copies, Other
    <3>1. q = new
      BY <1>1, <2>1, DataFacts DEF Receiving, Other
    <3>2. i \in 2 .. n \/ i = n + 1
      BY <1>2, <1>4, <2>2, <3>1
    <3>3. CASE i = n + 1
      BY <1>4, <2>2, <3>1, <3>3
    <3>4. CASE i \in 2 .. n
      <4>1. log'[q][i] = log[q][i]
        BY <1>2, <1>4, <2>1, <2>2, <3>1, <3>4
      <4>2. \/ log[q][i].addr = Blank
            \/ /\ log[q][i].addr # HeadOf(log[q])
               /\ log[q][i].data = LastOf(log[Other(q)], log[q][i].addr)
        BY <2>1, <3>1, <3>4 DEF DataInv, Copies, n
      <4> QED
        BY <1>5, <2>1, <2>2, <3>1, <4>1, <4>2
    <3> QED
      BY <3>2, <3>3, <3>4
  <2>5. Shape'
    BY <1>1, <1>10 DEF Shape
  <2>6. VarIsCopy => VarIsCopy'
    BY <1>1, <1>5, <2>1, <2>2 DEF VarIsCopy, Other
  <2>7. ToProgram'
    <3>1. ASSUME call = "transfer"
          PROVE  \/ cursor' = 0 /\ var' = arg' /\ Len(log'[new']) = 1
                 \/ HeadIsWrite' /\ VarIsCopy' /\ Len(log'[new']) > 1
      <4>1. CASE cursor = 0 /\ var = arg /\ (log[new] = <<>> \/ Len(log[new]) >= SlotsPerPage)
        <5>1. log[new] = <<>> \/ n >= SlotsPerPage
          BY <2>1, <4>1 DEF n
        <5>2. SlotsPerPage \in Nat
          BY SizeAssumption
        <5>3. n = 0
          BY <1>2, <1>4, <2>1, <5>1, <5>2
        <5> QED
          BY <1>1, <1>4, <2>2, <4>1, <5>3
      <4>2. CASE HeadIsWrite /\ VarIsCopy
        <5>1. log[p] # <<>> /\ log[p] \in Seq(Slot) /\ n = Len(log[p])
          BY <1>2, <2>1, <4>2 DEF HeadIsWrite, n
        <5>2. n > 0
          BY <1>2, <5>1
        <5>3. HeadIsWrite'
          BY <1>1, <1>4, <2>1, <2>2, <4>2, <5>1 DEF HeadIsWrite
        <5> QED
          BY <1>1, <1>2, <1>4, <2>2, <2>6, <4>2, <5>2, <5>3
      <4> QED
        BY <1>1, <3>1, <4>1, <4>2 DEF DataInv, ToProgram
    <3>2. call = "init" => VarIsCopy'
      BY <1>1, <2>6 DEF DataInv, ToProgram
    <3> QED
      BY <1>1, <1>7, <1>8, <3>1, <3>2 DEF ToProgram
  <2>8. Progress'
    <3>1. \A a \in Addresses : In(t, a) = In(log[new], a)
      BY <1>6, <2>1
    <3> QED
      BY <1>1, <1>5, <2>1, <2>2, <3>1 DEF DataInv, Progress, Other
  <2> QED
    BY <1>1, <2>3, <2>4, <2>5, <2>7, <2>8 DEF Standing, Told, CompletedWriteIsRead
<1> QED
  BY <1>9, <1>10

\* Its address.
LEMMA AddressProgrammed ==
    ASSUME DataInv, ProgramAddress
    PROVE  /\ pc = "addr" /\ WritePage \in Pages /\ UNCHANGED <<header, call, arg, var, new, cursor>>
           /\ log[WritePage] # <<>> /\ Len(log[WritePage]) \in Nat \ {0}
           /\ log'[WritePage] \in Seq(Slot) /\ Len(log'[WritePage]) = Len(log[WritePage])
           /\ \A i \in 1 .. Len(log[WritePage]) - 1 : log'[WritePage][i] = log[WritePage][i]
           /\ log'[WritePage][Len(log[WritePage])] = var
           /\ In(log'[WritePage], var.addr) # {} /\ LastOf(log'[WritePage], var.addr) = var.data
           /\ \A a \in Addresses \ {var.addr} :
                  /\ In(log'[WritePage], a) = In(log[WritePage], a)
                  /\ LastOf(log'[WritePage], a) = LastOf(log[WritePage], a)
           /\ \A q \in Pages : q # WritePage => log'[q] = log[q]
<1> DEFINE p == WritePage
           s == log[p]
           t == [s EXCEPT ![Len(s)].addr = var.addr]
<1>1. pc = "addr" /\ UNCHANGED <<header, call, arg, var, new, cursor>>
      /\ log' = [log EXCEPT ![p] = t]
  BY DEF ProgramAddress
<1>2. p \in Pages /\ s # <<>> /\ s \in Seq(Slot) /\ var.addr \in Addresses
  BY <1>1, DataFacts DEF CopySource
<1>3. s[Len(s)] = [addr |-> Blank, data |-> var.data]
  BY <1>1 DEF DataInv, ToProgram
<1>4. log'[p] = t /\ \A q \in Pages : q # p => log'[q] = log[q]
  BY <1>1, <1>2, DataFacts DEF TypeOK
<1>5. s[Len(s)].addr = Blank /\ s[Len(s)].data = var.data
  BY <1>3
<1>6. var = [addr |-> var.addr, data |-> var.data]
  BY DataFacts DEF Write
<1> HIDE DEF s
<1>7. /\ t \in Seq(Slot) /\ Len(t) = Len(s) /\ Len(s) \in Nat \ {0}
      /\ \A i \in 1 .. Len(s) - 1 : t[i] = s[i]
      /\ t[Len(s)] = [addr |-> var.addr, data |-> s[Len(s)].data]
      /\ In(t, var.addr) # {} /\ LastOf(t, var.addr) = s[Len(s)].data
      /\ \A a \in Addresses \ {var.addr} : In(t, a) = In(s, a) /\ LastOf(t, a) = LastOf(s, a)
  BY <1>2, <1>5, SlotDone
<1> HIDE DEF t, p
<1>8. /\ Len(t) = Len(s) /\ t[Len(s)] = var /\ LastOf(t, var.addr) = var.data
  BY <1>5, <1>6, <1>7
<1> QED
  BY <1>1, <1>2, <1>4, <1>7, <1>8 DEF p, s

LEMMA ProgramAddressKeeps ==
    ASSUME DataInv, ProgramAddress
    PROVE  /\ BlankPages' /\ Copies' /\ Shape' /\ ToProgram' /\ Progress' /\ Standing' /\ Told'
<1> DEFINE p == WritePage
           s == log[p]
           t == log'[p]
           n == Len(s)
<1>1. /\ pc = "addr" /\ p \in Pages /\ UNCHANGED <<header, call, arg, var, new, cursor>>
      /\ s # <<>> /\ s \in Seq(Slot) /\ n \in Nat \ {0} /\ t \in Seq(Slot) /\ Len(t) = n
      /\ \A i \in 1 .. n - 1 : t[i] = s[i]
      /\ t[n] = var
      /\ In(t, var.addr) # {} /\ LastOf(t, var.addr) = var.data
      /\ \A a \in Addresses \ {var.addr} : In(t, a) = In(s, a) /\ LastOf(t, a) = LastOf(s, a)
      /\ \A q \in Pages : q # p => log'[q] = log[q]
  BY AddressProgrammed, DataFacts
<1>2. pc' = (IF call = "write" THEN "idle" ELSE "copy")
  BY DEF ProgramAddress, Return
<1>3. BlankPages'
  <2>1. header[p] # ERASED
    BY <1>1 DEF DataInv, BlankPages
  <2> QED
    BY <1>1, <2>1 DEF BlankPages, DataInv
<1>4. CASE call = "write"
  <2>1. GoodPages /\ ReadPage = p /\ var = arg
    BY <1>1, <1>4, PageWritten DEF DataInv, Shape
  <2>2. Copies'
    BY <1>1, <2>1 DEF Copies, Receiving, GoodPages, Other
  <2>3. Shape'
    BY <1>1, <1>2, <1>4, <2>1 DEF Shape, GoodPages, Other
  <2>4. Told'
    <3>1. ReadPage' = p /\ p # NoPage
      BY <1>1, <2>1 DEF ReadPage
    <3>2. ReadVariable(arg.addr)' = LastOf(t, arg.addr)
      BY <1>1, <3>1 DEF ReadVariable, LastIn, LastOf, SlotsOf, In
    <3> QED
      BY <1>1, <1>2, <1>4, <2>1, <3>2 DEF Told, CompletedWriteIsRead
  <2> QED
    BY <1>2, <1>3, <1>4, <2>2, <2>3, <2>4 DEF ToProgram, Progress, Standing
<1>5. CASE call # "write"
  <2>1. p = new /\ Receiving(new) /\ call \in {"init", "transfer"} /\ pc' = "copy"
    BY <1>1, <1>2, <1>5, PageWritten, DataFacts DEF TypeOK
  <2>2. log'[Other(new)] = log[Other(new)] /\ log'[new] = t /\ s = log[new]
    BY <1>1, <2>1, DataFacts
  <2>3. n > 1 => HeadOf(t) = HeadOf(s) /\ t[1] = s[1]
    <3>1. ASSUME n > 1 PROVE t[1] = s[1] /\ t # <<>>
      BY <1>1, <3>1
    <3> QED
      BY <1>1, <3>1 DEF HeadOf
  <2>4. n = 1 => HeadOf(t) = var.addr /\ t[1] = var /\ t # <<>>
    BY <1>1 DEF HeadOf
  <2>5. n > 1 => VarIsCopy
    BY <1>1, <2>1, <2>2 DEF DataInv, ToProgram
  <2> HIDE DEF s, t, n
  <2>6. Copies'
    <3> SUFFICES ASSUME NEW q \in Pages, Receiving(q)', NEW i \in 2 .. Len(log'[q])
                 PROVE  \/ log'[q][i].addr = Blank
                        \/ /\ log'[q][i].addr # HeadOf(log'[q])
                           /\ log'[q][i].data = LastOf(log'[Other(q)], log'[q][i].addr)
      BY DEF Copies, Other
    <3>1. q = new /\ log'[q] = t /\ log[q] = s /\ log'[Other(q)] = log[Other(new)]
      BY <1>1, <2>1, <2>2, DataFacts DEF Receiving, Other
    <3>2. i \in 2 .. n /\ n > 1 /\ (i \in 1 .. n - 1 \/ i = n)
      BY <1>1, <3>1
    <3>3. CASE i = n
      BY <1>1, <2>2, <2>3, <2>5, <3>1, <3>2, <3>3 DEF VarIsCopy
    <3>4. CASE i \in 1 .. n - 1
      <4>1. t[i] = s[i]
        BY <1>1, <3>4
      <4>2. \/ s[i].addr = Blank
            \/ s[i].addr # HeadOf(s) /\ s[i].data = LastOf(log[Other(new)], s[i].addr)
        BY <2>1, <3>1, <3>2 DEF DataInv, Copies, n
      <4> QED
        BY <2>3, <3>1, <3>2, <4>1, <4>2
    <3> QED
      BY <3>2, <3>3, <3>4
  <2>7. Shape' /\ Standing' /\ Told'
    BY <1>1, <2>1 DEF Shape, Standing, Told, CompletedWriteIsRead
  <2>8. ToProgram'
    <3>1. ASSUME call = "transfer" PROVE HeadIsWrite'
      <4>1. CASE cursor = 0 /\ var = arg /\ Len(log[new]) = 1
        BY <1>1, <2>2, <2>4, <4>1 DEF HeadIsWrite, n
      <4>2. CASE HeadIsWrite /\ VarIsCopy /\ Len(log[new]) > 1
        <5>1. n > 1 /\ t # <<>>
          BY <1>1, <2>2, <4>2 DEF n
        <5> QED
          BY <1>1, <2>2, <2>3, <4>2, <5>1 DEF HeadIsWrite
      <4> QED
        BY <1>1, <3>1, <4>1, <4>2 DEF DataInv, ToProgram
    <3> QED
      BY <1>1, <2>1, <3>1 DEF ToProgram
  <2>9. Progress'
    <3> SUFFICES ASSUME NEW a \in Addresses, a < cursor,
                        a # (IF call = "init" THEN HeadOf(t) ELSE arg.addr),
                        In(log[Other(new)], a) # {}
                 PROVE  In(t, a) # {}
      BY <1>1, <2>1, <2>2 DEF Progress, Other
    <3>1. CASE a = var.addr
      BY <1>1, <3>1
    <3>2. CASE a # var.addr
      <4>1. a # (IF call = "init" THEN HeadOf(s) ELSE arg.addr)
        <5>1. CASE n = 1
          <6>1. HeadOf(s) = Blank /\ Blank # a
            <7>1. s[n].addr = Blank
              BY <1>1 DEF DataInv, ToProgram, s, n
            <7> QED
              BY <1>1, <5>1, <7>1, SizeAssumption DEF HeadOf, Blank, Addresses
          <6> QED
            BY <6>1
        <5>2. CASE n # 1
          BY <1>1, <2>3, <5>2
        <5> QED
          BY <5>1, <5>2
      <4>2. In(s, a) # {}
        BY <1>1, <2>1, <2>2, <3>2, <4>1 DEF DataInv, Progress
      <4> QED
        BY <1>1, <3>2, <4>2
    <3> QED
      BY <3>1, <3>2
  <2> QED
    BY <1>3, <2>6, <2>7, <2>8, <2>9
<1> QED
  BY <1>4, <1>5

LEMMA PageFullKeeps ==
    ASSUME DataInv, PageFull
    PROVE  /\ BlankPages' /\ Copies' /\ Shape' /\ ToProgram' /\ Progress' /\ Standing' /\ Told'
<1>1. /\ pc = "data" /\ ~HasRoom /\ UNCHANGED <<header, log, arg, var, cursor>>
  BY DEF PageFull
<1>2. BlankPages' /\ Copies'
  BY <1>1, SameFlash
<1>3. CASE call = "write"
  <2>1. call' = "transfer" /\ new' = Other(ReadPage) /\ pc' = "receive"
    BY <1>3 DEF PageFull
  <2>2. (GoodPages \/ Stuck) /\ var = arg
    BY <1>1, <1>3 DEF DataInv, Shape
  <2>3. Stuck => new' = new
    BY <2>1, DataFacts DEF Stuck, Receiving, ReadPage, Other
  <2>4. (GoodPages \/ Stuck)'
    BY <1>1, <2>2, <2>3 DEF GoodPages, Stuck, Receiving, Other
  <2> QED
    BY <1>1, <1>2, <2>1, <2>2, <2>4 DEF Shape, ToProgram, Progress, Standing, Told,
       CompletedWriteIsRead
<1>4. CASE call # "write"
  <2>1. call' = call /\ new' = new /\ pc' = "idle" /\ status' = "PAGE_FULL"
    BY <1>4 DEF PageFull, Return
  <2>2. Stuck
    <3>1. WritePage = new /\ Receiving(new) /\ new # NoPage
      BY <1>1, <1>4, PageWritten, DataFacts
    <3>2. Len(log[new]) \in Nat /\ SlotsPerPage \in Nat
      BY SizeAssumption, DataFacts
    <3> QED
      BY <1>1, <3>1, <3>2 DEF HasRoom, Stuck
  <2>3. Stuck'
    BY <1>1, <2>1, <2>2 DEF Stuck, Receiving, Other
  <2> QED
    BY <1>1, <1>2, <2>1, <2>3 DEF Shape, ToProgram, Progress, Standing, Told,
       CompletedWriteIsRead
<1> QED
  BY <1>3, <1>4

LEMMA CopyNextKeeps ==
    ASSUME DataInv, CopyNext
    PROVE  /\ BlankPages' /\ Copies' /\ Shape' /\ ToProgram' /\ Progress' /\ Standing' /\ Told'
<1> DEFINE a == Min(ToCopy)
           o == Other(new)
<1>1. /\ pc = "copy" /\ pc' = "data" /\ ToCopy # {}
      /\ var' = [addr |-> a, data |-> ReadVariable(a)] /\ cursor' = a + 1
      /\ UNCHANGED <<header, log, call, status, arg, new>>
  BY DEF CopyNext
<1>2. BlankPages' /\ Copies'
  BY <1>1, SameFlash
<1>3. call \in {"init", "transfer"} /\ Receiving(new) /\ ReadPage = o
  <2>1. call \in {"init", "transfer"}
    BY <1>1, DataFacts DEF DataInv, Shape, TypeOK
  <2>2. Receiving(new)
    BY <1>1, DataFacts DEF StatusWords, CopySource, Receiving
  <2> QED
    BY <2>1, <2>2, DataFacts DEF Receiving, ReadPage, Other
<1>4. a \in ToCopy /\ \A x \in ToCopy : a <= x
  <2>1. ToCopy \subseteq Nat
    BY DataFacts DEF ToCopy
  <2> QED
    BY <1>1, <2>1, MinOfSet
<1>5. a \in cursor .. N - 1 /\ ~Skipped(a) /\ a \in Nat /\ a \in Addresses
  BY <1>4, DataFacts DEF ToCopy, Addresses
<1> HIDE DEF a
<1>6. \A x \in Addresses : Skipped(x) <=> x = (IF call = "init" THEN HeadOf(log[new]) ELSE arg.addr)
  BY <1>3 DEF Skipped, FirstAddress, HeadOf
<1>7. \A x \in Addresses : SlotsOf(o, x) = In(log[o], x)
  BY DEF SlotsOf, In
<1>8. VarIsCopy'
  <2>1. ReadVariable(a) = LastOf(log[o], a)
    BY <1>3, DataFacts DEF ReadVariable, LastIn, LastOf, SlotsOf, In
  <2>2. a # HeadOf(log[new])
    <3>1. CASE call = "init"
      BY <1>5, <1>6, <3>1
    <3>2. CASE call = "transfer"
      <4>1. HeadOf(log[new]) = arg.addr
        BY <1>1, <3>2 DEF DataInv, ToProgram, HeadIsWrite, HeadOf
      <4> QED
        BY <1>5, <1>6, <3>2, <4>1
    <3> QED
      BY <1>3, <3>1, <3>2
  <2> QED
    BY <1>1, <2>1, <2>2 DEF VarIsCopy, Other
<1>9. ToProgram'
  <2>1. call = "transfer" => HeadIsWrite'
    BY <1>1 DEF DataInv, ToProgram, HeadIsWrite
  <2> QED
    BY <1>1, <1>8, <2>1 DEF ToProgram
<1>10. Progress'
  <2> SUFFICES ASSUME NEW x \in Addresses, x < a + 1,
                      x # (IF call = "init" THEN HeadOf(log[new]) ELSE arg.addr),
                      In(log[o], x) # {}
               PROVE  In(log[new], x) # {} \/ x = a
    BY <1>1 DEF Progress, Other
  <2>1. x \in Nat /\ x \in 0 .. N - 1
    BY DataFacts DEF Addresses
  <2>2. CASE x < cursor
    BY <1>1, <1>3, <2>2 DEF DataInv, Progress
  <2>3. CASE ~(x < cursor)
    <3>1. x \in ToCopy
      BY <1>3, <1>6, <1>7, <2>1, <2>3, DataFacts DEF ToCopy
    <3> QED
      BY <1>4, <1>5, <2>1, <3>1
  <2> QED
    BY <2>2, <2>3
<1>11. Shape' /\ Standing' /\ Told'
  BY <1>1, <1>3 DEF Shape, Standing, Told, CompletedWriteIsRead
<1> QED
  BY <1>2, <1>9, <1>10, <1>11

LEMMA CopyDoneKeeps ==
    ASSUME DataInv, CopyDone
    PROVE  /\ BlankPages' /\ Copies' /\ Shape' /\ ToProgram' /\ Progress' /\ Standing' /\ Told'
<1> DEFINE o == Other(new)
<1>1. /\ pc = "copy" /\ pc' = (IF call = "init" THEN "resumeMark" ELSE "eraseOld") /\ ToCopy = {}
      /\ UNCHANGED <<header, log, call, status, arg, var, new, cursor>>
  BY DEF CopyDone
<1>2. BlankPages' /\ Copies'
  BY <1>1, SameFlash
<1>3. call \in {"init", "transfer"} /\ Receiving(new) /\ ReadPage = o
  <2>1. call \in {"init", "transfer"}
    BY <1>1, DataFacts DEF DataInv, Shape, TypeOK
  <2>2. Receiving(new)
    BY <1>1, DataFacts DEF StatusWords, CopySource, Receiving
  <2> QED
    BY <2>1, <2>2, DataFacts DEF Receiving, ReadPage, Other
<1>4. \A x \in Addresses : Skipped(x) <=> x = HeadOf(log[new])
  <2>1. call = "transfer" => HeadOf(log[new]) = arg.addr
    BY <1>1 DEF DataInv, ToProgram, HeadIsWrite, HeadOf
  <2> QED
    BY <1>3, <2>1 DEF Skipped, FirstAddress, HeadOf
<1>5. \A x \in Addresses : SlotsOf(o, x) = In(log[o], x)
  BY DEF SlotsOf, In
<1>6. ASSUME NEW x \in Addresses, x # HeadOf(log[new]), In(log[o], x) # {}
      PROVE  In(log[new], x) # {}
  <2>1. x \in Nat /\ x \in 0 .. N - 1
    BY DataFacts DEF Addresses
  <2>2. x < cursor
    <3> SUFFICES ASSUME ~(x < cursor) PROVE FALSE
      OBVIOUS
    <3>1. x \in ToCopy
      BY <1>3, <1>4, <1>5, <1>6, <2>1, DataFacts DEF ToCopy
    <3> QED
      BY <1>1, <3>1
  <2>3. x # (IF call = "init" THEN HeadOf(log[new]) ELSE arg.addr)
    <3>1. call = "transfer" => HeadOf(log[new]) = arg.addr
      BY <1>1 DEF DataInv, ToProgram, HeadIsWrite, HeadOf
    <3> QED
      BY <1>3, <1>6, <3>1
  <2> QED
    BY <1>1, <1>3, <1>6, <2>2, <2>3 DEF DataInv, Progress
<1>7. \A i \in 2 .. Len(log[new]) :
          \/ log[new][i].addr = Blank
          \/ /\ log[new][i].addr # HeadOf(log[new])
             /\ log[new][i].data = LastOf(log[o], log[new][i].addr)
  BY <1>3, DataFacts DEF DataInv, Copies
<1>8. StandsBy
  <2>1. log[new] \in Seq(Slot) /\ log[o] \in Seq(Slot)
    BY DataFacts
  <2> QED
    BY <1>6, <1>7, <2>1, CopyStands DEF StandsBy
<1>9. Standing'
  BY <1>1, <1>8 DEF Standing, StandsBy, Other
<1>10. ToProgram'
  BY <1>1 DEF DataInv, ToProgram, HeadIsWrite
<1>11. Shape'
  BY <1>1, <1>3 DEF Shape, Receiving, Other
<1>12. Progress' /\ Told'
  BY <1>1 DEF Progress, Told, CompletedWriteIsRead
<1> QED
  BY <1>2, <1>9, <1>10, <1>11, <1>12

LEMMA PowerLossKeeps ==
    ASSUME DataInv, PowerLoss
    PROVE  /\ BlankPages' /\ Copies' /\ Shape' /\ ToProgram' /\ Progress' /\ Standing' /\ Told'
<1>1. pc' = "off" /\ UNCHANGED <<header, log>>
  BY DEF PowerLoss
<1> QED
  BY <1>1, SameFlash DEF Shape, ToProgram, Progress, Standing, Told, CompletedWriteIsRead

LEMMA InitData == Init => DataInv
<1> SUFFICES ASSUME Init PROVE DataInv
  OBVIOUS
<1>1. StatusInv
  BY InitStatus
<1>2. BlankPages /\ Shape /\ Copies /\ ToProgram /\ Progress /\ Standing /\ Told
  BY DEF Init, BlankPages, Shape, Copies, Receiving, ToProgram, Progress, Standing, Told,
     CompletedWriteIsRead
<1> QED
  BY <1>1, <1>2 DEF DataInv

LEMMA NextData ==
    ASSUME NoError
    PROVE  DataInv /\ [Next]_vars => DataInv'
<1> SUFFICES ASSUME DataInv, [Next]_vars PROVE DataInv'
  OBVIOUS
<1>1. StatusInv'
  BY NextStatus DEF DataInv, NoError
<1> DEFINE Rest == BlankPages' /\ Copies' /\ Shape' /\ ToProgram' /\ Progress' /\ Standing' /\ Told'
<1>2. CASE PowerUp
  <2>1. UNCHANGED <<header, log>>
    BY <1>2 DEF PowerUp
  <2> QED
    BY <1>1, <1>2, <2>1, SameFlash, PowerUpKeeps DEF DataInv
<1>3. ASSUME NEW w \in Write, WriteVariable(w) PROVE DataInv'
  <2>1. UNCHANGED <<header, log>>
    BY <1>3 DEF WriteVariable
  <2> QED
    BY <1>1, <1>3, <2>1, SameFlash, WriteVariableKeeps DEF DataInv
<1>4. CASE Step
  <2>1. ~NoValidPage
    BY PageWritten DEF NoValidPage
  <2>2. Rest
    BY <1>4, <2>1, EraseKeeps, MarkKeeps, ProgramDataKeeps, ProgramAddressKeeps, PageFullKeeps,
       CopyNextKeeps, CopyDoneKeeps DEF Step
  <2> QED
    BY <1>1, <2>2 DEF DataInv
<1>5. CASE PowerLoss
  BY <1>1, <1>5, PowerLossKeeps DEF DataInv
<1>6. CASE FlashError
  BY <1>6 DEF FlashError, NoError
<1>7. CASE UNCHANGED vars
  <2>1. BlankPages' /\ Copies'
    BY <1>7, SameFlash DEF vars
  <2>2. Shape' /\ ToProgram' /\ Progress' /\ Standing'
    BY <1>7 DEF vars, DataInv, Shape, GoodPages, Stuck, Receiving, Other, ToProgram, HeadIsWrite,
       VarIsCopy, WritePage, Progress, Standing, StandsBy
  <2>3. Told'
    BY <1>7 DEF vars, DataInv, Told, CompletedWriteIsRead, ReadVariable, ReadPage, LastIn, SlotsOf
  <2> QED
    BY <1>1, <2>1, <2>2, <2>3 DEF DataInv
<1> QED
  BY <1>2, <1>3, <1>4, <1>5, <1>6, <1>7 DEF Next

LEMMA AlwaysData == ASSUME NoError PROVE Spec => []DataInv
  BY InitData, NextData, PTL DEF Spec

\* Before EEPROM_PageTransfer erases the old page, the new one answers every variable
\* as the old one does, but the one that is written; for any number of variables, and
\* however often power was cut in earlier transfers and repairs.
THEOREM CopyIsComplete == ASSUME NoError PROVE Spec => []CopyComplete
<1>1. DataInv => CopyComplete
  <2> SUFFICES ASSUME DataInv, pc = "eraseOld", call = "transfer", NEW a \in Addresses \ {arg.addr}
               PROVE  LastIn(new, a) = LastIn(Other(new), a)
    BY DEF CopyComplete
  <2>1. StandsBy /\ HeadOf(log[new]) = arg.addr
    BY DEF DataInv, Standing, ToProgram, HeadIsWrite, HeadOf
  <2>2. LastOf(log[new], a) = LastOf(log[Other(new)], a)
    BY <2>1 DEF StandsBy
  <2> QED
    BY <2>2 DEF LastIn, LastOf, SlotsOf, In
<1> QED
  BY <1>1, AlwaysData, PTL

\* A write that EEPROM_WriteVariable reports as done is what the next read returns.
THEOREM WrittenIsRead == ASSUME NoError PROVE Spec => []CompletedWriteIsRead
<1>1. DataInv => CompletedWriteIsRead
  BY DEF DataInv, Told
<1> QED
  BY <1>1, AlwaysData, PTL

-----------------------------------------------------------------------------
(* The refinement: what each flash operation does to the map that EEPROMStore *)
(* describes, and to the writes that may still take effect.                 *)

LiveOf(h) ==
    IF h[0] = VALID_PAGE THEN 0
    ELSE IF h[1] = VALID_PAGE THEN 1
    ELSE IF h[0] = RECEIVE_DATA THEN 0
    ELSE IF h[1] = RECEIVE_DATA THEN 1
    ELSE NoPage

StoreOf(h, l) ==
    [a \in Addresses |-> IF LiveOf(h) = NoPage THEN Unset ELSE LastOf(l[LiveOf(h)], a)]

\* The pages whose first slot is a write that has not taken effect.
FillsOf(h, s, n) ==
    {p \in Pages : \/ h[p] = RECEIVE_DATA /\ h[Other(p)] = VALID_PAGE
                   \/ s = "resumeErase" /\ n = 1 /\ p = 1}

HeadsOf(F, l) == {l[p][1] : p \in {q \in F : HeadOf(l[q]) # Blank}}

Asked == HeadWrite \cup RunningWrite

LEMMA LiveIs == ASSUME StatusInv PROVE LivePage = LiveOf(header)
<1>1. header \in [Pages -> {ERASED, RECEIVE_DATA, VALID_PAGE}] /\ StatusWords
  BY DEF StatusInv, TypeInv, TypeOK
<1>2. CASE header[0] = VALID_PAGE \/ header[1] = VALID_PAGE
  BY <1>2 DEF LivePage, LiveOf, ReadPage
<1>3. CASE header[0] # VALID_PAGE /\ header[1] # VALID_PAGE
  <2>1. ReadPage = NoPage
    BY <1>3 DEF ReadPage
  <2>2. pc # "resumeErase"
    BY <1>1, <1>3 DEF StatusWords, StatusInv, TypeInv, TypeOK
  <2>3. ~(header[0] = RECEIVE_DATA /\ header[1] = RECEIVE_DATA)
    BY <1>1, <2>2 DEF StatusWords
  <2> QED
    BY <1>3, <2>1, <2>3 DEF LivePage, LiveOf
<1> QED
  BY <1>2, <1>3

LEMMA FillsIs == ASSUME StatusInv, NEW p \in Pages PROVE Filling(p) <=> p \in FillsOf(header, pc, new)
<1>1. /\ header \in [Pages -> {ERASED, RECEIVE_DATA, VALID_PAGE}] /\ StatusWords /\ new \in Pages
  BY DEF StatusInv, TypeInv, TypeOK
<1>2. LivePage = LiveOf(header)
  BY LiveIs
<1>3. pc = "resumeErase" => header[0] = VALID_PAGE /\ header[1] = VALID_PAGE
  BY <1>1 DEF StatusWords, Other
<1>4. header[0] = RECEIVE_DATA /\ header[1] = RECEIVE_DATA => FALSE
  BY <1>1, <1>3 DEF StatusWords
<1> QED
  BY <1>1, <1>2, <1>3, <1>4 DEF Filling, FillsOf, LiveOf, Other

\* The two maps, now and after a step.
LEMMA Seen ==
    ASSUME StatusInv
    PROVE  /\ Store = StoreOf(header, log)
           /\ HeadWrite = HeadsOf(FillsOf(header, pc, new), log)
<1>1. Store = StoreOf(header, log)
  BY LiveIs DEF Store, StoreOf, LastIn, LastOf, SlotsOf, In
<1>2. \A p \in Pages : FirstAddress(p) = HeadOf(log[p])
  BY DEF FirstAddress, HeadOf
<1>3. {q \in Pages : Filling(q) /\ FirstAddress(q) # Blank}
          = {q \in FillsOf(header, pc, new) : HeadOf(log[q]) # Blank}
  BY <1>2, FillsIs DEF FillsOf
<1> QED
  BY <1>1, <1>3 DEF HeadWrite, HeadsOf

LEMMA SeenNext ==
    (StatusInv => /\ Store = StoreOf(header, log)
                  /\ HeadWrite = HeadsOf(FillsOf(header, pc, new), log))'
<1>1. StatusInv => /\ Store = StoreOf(header, log)
                   /\ HeadWrite = HeadsOf(FillsOf(header, pc, new), log)
  BY Seen
<1> QED
  BY <1>1, PTL

MapStep == [Promise!StoreNext]_<<Store, Pending>>

\* The map stays, and nothing is asked for that was not, or that would change it.
LEMMA Quietly ==
    ASSUME Store' = Store, \A w \in Asked' : w \in Asked \/ Store[w.addr] = w.data
    PROVE  MapStep
<1>1. Pending' \subseteq Pending
  BY DEF Pending, Asked, Changes
<1> QED
  BY <1>1 DEF MapStep, Promise!StoreNext, Promise!Drop

\* A write takes effect, and none is left.
LEMMA Committing ==
    ASSUME NEW w \in Write, w \in Asked, Asked' \subseteq {w},
           Store' = [Store EXCEPT ![w.addr] = w.data]
    PROVE  MapStep
<1>1. w.addr \in Addresses /\ DOMAIN Store = Addresses /\ Store = [a \in Addresses |-> Store[a]]
  BY DEF Write, Store
<1>2. Store'[w.addr] = w.data
  BY <1>1
<1>3. Pending' = {}
  BY <1>2 DEF Pending, Asked, Changes
<1>4. CASE Changes(w)
  <2>1. w \in Pending
    BY <1>4 DEF Pending, Asked
  <2>2. w \in Promise!Write
    BY DEF Write, Promise!Write
  <2>3. Promise!Commit(w)
    BY <1>3, <2>1 DEF Promise!Commit
  <2> QED
    BY <2>2, <2>3 DEF MapStep, Promise!StoreNext
<1>5. CASE ~Changes(w)
  <2>1. Store' = Store
    BY <1>1, <1>5 DEF Changes
  <2> QED
    BY <1>3, <2>1 DEF MapStep, Promise!StoreNext, Promise!Drop
<1> QED
  BY <1>4, <1>5


\* What the maps are, for each pair of status words.
LEMMA PagesShow ==
    ASSUME NEW h \in [Pages -> {ERASED, RECEIVE_DATA, VALID_PAGE}], NEW s, NEW n \in Pages, NEW p \in Pages
    PROVE  /\ h[p] = VALID_PAGE /\ h[Other(p)] # VALID_PAGE => LiveOf(h) = p
           /\ h[p] = RECEIVE_DATA /\ h[Other(p)] = ERASED => LiveOf(h) = p
           /\ s # "resumeErase" => FillsOf(h, s, n) =
                  {q \in Pages : h[q] = RECEIVE_DATA /\ h[Other(q)] = VALID_PAGE}
           /\ s # "resumeErase" /\ h[p] = VALID_PAGE /\ h[Other(p)] = RECEIVE_DATA
                  => FillsOf(h, s, n) = {Other(p)}
           /\ s # "resumeErase" /\ h[Other(p)] = ERASED => FillsOf(h, s, n) = {}
           /\ h[0] = VALID_PAGE /\ h[1] = VALID_PAGE /\ s = "resumeErase"
                  => LiveOf(h) = 0 /\ FillsOf(h, s, n) = IF n = 1 THEN {1} ELSE {}
           /\ h[0] = ERASED /\ h[1] = ERASED => LiveOf(h) = NoPage
<1>1. \A q \in Pages : Other(q) \in Pages /\ (q = 0 \/ q = 1) /\ Other(0) = 1 /\ Other(1) = 0
  BY DEF Other
<1>2. p = 0 \/ p = 1
  OBVIOUS
<1>3. /\ h[p] = VALID_PAGE /\ h[Other(p)] # VALID_PAGE => LiveOf(h) = p
      /\ h[p] = RECEIVE_DATA /\ h[Other(p)] = ERASED => LiveOf(h) = p
      /\ h[0] = ERASED /\ h[1] = ERASED => LiveOf(h) = NoPage
  BY <1>1, <1>2 DEF LiveOf
<1>4. /\ s # "resumeErase" => FillsOf(h, s, n) =
             {q \in Pages : h[q] = RECEIVE_DATA /\ h[Other(q)] = VALID_PAGE}
      /\ s # "resumeErase" /\ h[Other(p)] = ERASED => FillsOf(h, s, n) = {}
  BY <1>1, <1>2 DEF FillsOf
<1>5. ASSUME s # "resumeErase", h[p] = VALID_PAGE, h[Other(p)] = RECEIVE_DATA
      PROVE  FillsOf(h, s, n) = {Other(p)}
  BY <1>1, <1>2, <1>5 DEF FillsOf
<1>6. ASSUME h[0] = VALID_PAGE, h[1] = VALID_PAGE, s = "resumeErase"
      PROVE  LiveOf(h) = 0 /\ FillsOf(h, s, n) = IF n = 1 THEN {1} ELSE {}
  BY <1>1, <1>6 DEF FillsOf, LiveOf
<1> QED
  BY <1>3, <1>4, <1>5, <1>6

LEMMA HeadShows ==
    ASSUME NEW l, NEW p
    PROVE  /\ HeadsOf({}, l) = {}
           /\ HeadsOf({p}, l) = IF HeadOf(l[p]) = Blank THEN {} ELSE {l[p][1]}
  BY DEF HeadsOf

\* A step of the map's own: the status words and the slots are what they were.
LEMMA MapStill ==
    ASSUME StatusInv, StatusInv', UNCHANGED <<header, log>>,
           (pc # "resumeErase" /\ pc' # "resumeErase") \/ UNCHANGED <<pc, new>>
    PROVE  Store' = Store /\ HeadWrite' = HeadWrite
<1>1. FillsOf(header', pc', new') = FillsOf(header, pc, new)
  BY DEF FillsOf
<1>2. /\ Store = StoreOf(header, log) /\ Store' = StoreOf(header', log')
      /\ HeadWrite = HeadsOf(FillsOf(header, pc, new), log)
      /\ HeadWrite' = HeadsOf(FillsOf(header', pc', new'), log')
  BY Seen, SeenNext
<1> QED
  BY <1>1, <1>2

LEMMA NothingWritten ==
    ASSUME NoError, DataInv, DataInv',
           PowerUp \/ PageFull \/ CopyNext \/ CopyDone \/ PowerLoss \/ UNCHANGED vars
    PROVE  MapStep
<1>1. StatusInv /\ StatusInv'
  BY DEF DataInv
<1>2. /\ UNCHANGED <<header, log>>
      /\ (pc # "resumeErase" /\ pc' # "resumeErase") \/ UNCHANGED <<pc, new>>
  <2>1. CASE PowerUp
    BY <2>1 DEF PowerUp, InitTidy, InitFinish, InitResume, InitFormat
  <2>2. CASE PageFull \/ CopyNext \/ CopyDone
    BY <2>2 DEF PageFull, CopyNext, CopyDone, Return
  <2>3. CASE PowerLoss
    BY <2>3 DEF PowerLoss, LossPoint, NoError
  <2>4. CASE UNCHANGED vars
    BY <2>4 DEF vars
  <2> QED
    BY <2>1, <2>2, <2>3, <2>4
<1>3. RunningWrite' \subseteq RunningWrite
  <2>1. CASE PowerUp
    BY <2>1 DEF PowerUp, RunningWrite
  <2>2. CASE PageFull
    BY <2>2 DEF PageFull, RunningWrite, Return
  <2>3. CASE CopyNext \/ CopyDone
    BY <2>3 DEF CopyNext, CopyDone, RunningWrite
  <2>4. CASE PowerLoss
    BY <2>4 DEF PowerLoss, RunningWrite
  <2>5. CASE UNCHANGED vars
    BY <2>5 DEF vars, RunningWrite
  <2> QED
    BY <2>1, <2>2, <2>3, <2>4, <2>5
<1>4. Store' = Store /\ HeadWrite' = HeadWrite
  BY <1>1, <1>2, MapStill
<1>5. \A w \in Asked' : w \in Asked
  BY <1>3, <1>4 DEF Asked
<1> QED
  BY <1>4, <1>5, Quietly

LEMMA AskedFor ==
    ASSUME DataInv, DataInv', NEW w \in Write, WriteVariable(w)
    PROVE  MapStep
<1>1. /\ pc = "idle" /\ pc' = "data" /\ call' = "write" /\ arg' = w /\ UNCHANGED <<header, log>>
  BY DEF WriteVariable
<1>2. Store' = Store /\ HeadWrite' = HeadWrite
  BY <1>1, MapStill DEF DataInv
<1>3. RunningWrite = {} /\ RunningWrite' = {w}
  BY <1>1 DEF RunningWrite
<1>4. CASE Changes(w)
  <2>1. Pending' = Pending \cup {w}
    BY <1>2, <1>3, <1>4 DEF Pending, Changes
  <2>2. w \in Promise!Write
    BY DEF Write, Promise!Write
  <2> QED
    BY <1>2, <2>1, <2>2 DEF MapStep, Promise!StoreNext, Promise!Begin
<1>5. CASE ~Changes(w)
  <2>1. \A x \in Asked' : x \in Asked \/ Store[x.addr] = x.data
    BY <1>2, <1>3, <1>5 DEF Asked, Changes
  <2> QED
    BY <1>2, <2>1, Quietly
<1> QED
  BY <1>4, <1>5

\* The page that is read stays, the writes at the heads stay or are gone.
LEMMA ReadAlike ==
    ASSUME DataInv, DataInv', NEW p \in Pages, LiveOf(header) = p, LiveOf(header') = p,
           \A a \in Addresses : LastOf(log'[p], a) = LastOf(log[p], a),
           HeadsOf(FillsOf(header', pc', new'), log') \subseteq HeadsOf(FillsOf(header, pc, new), log),
           RunningWrite' \subseteq RunningWrite
    PROVE  MapStep
<1>1. /\ Store = StoreOf(header, log) /\ Store' = StoreOf(header', log')
      /\ HeadWrite = HeadsOf(FillsOf(header, pc, new), log)
      /\ HeadWrite' = HeadsOf(FillsOf(header', pc', new'), log')
  BY Seen, SeenNext DEF DataInv
<1>2. Store' = Store
  BY <1>1 DEF StoreOf
<1>3. \A w \in Asked' : w \in Asked
  BY <1>1 DEF Asked
<1> QED
  BY <1>2, <1>3, Quietly

\* The page s that was filled takes the place of the one that was read: the write
\* at its head takes effect.
LEMMA HeadTakesEffect ==
    ASSUME DataInv, DataInv', NEW p \in Pages, NEW q \in Pages,
           LiveOf(header) = q, LiveOf(header') = p, log'[p] = log[p],
           FillsOf(header, pc, new) = {p}, FillsOf(header', pc', new') = {},
           \A a \in Addresses :
               LastOf(log[p], a) = IF a = HeadOf(log[p]) THEN log[p][1].data ELSE LastOf(log[q], a),
           RunningWrite' \subseteq HeadsOf({p}, log)
    PROVE  MapStep
<1>1. /\ Store = StoreOf(header, log) /\ Store' = StoreOf(header', log')
      /\ HeadWrite = HeadsOf({p}, log) /\ HeadWrite' = HeadsOf({}, log')
  BY Seen, SeenNext DEF DataInv
<1>2. /\ HeadWrite' = {} /\ HeadWrite = IF HeadOf(log[p]) = Blank THEN {} ELSE {log[p][1]}
  BY <1>1, HeadShows
<1>3. /\ Store = [a \in Addresses |-> LastOf(log[q], a)]
      /\ Store' = [a \in Addresses |-> LastOf(log[p], a)]
  BY <1>1 DEF StoreOf
<1>4. CASE HeadOf(log[p]) = Blank
  <2>1. \A a \in Addresses : a # Blank
    BY SizeAssumption DEF Addresses, Blank
  <2>2. Store' = Store
    BY <1>3, <1>4, <2>1
  <2>3. \A w \in Asked' : w \in Asked
    BY <1>1, <1>2, <1>4 DEF Asked
  <2> QED
    BY <2>2, <2>3, Quietly
<1>5. CASE HeadOf(log[p]) # Blank
  <2>1. log[p] # <<>> /\ log[p] \in Seq(Slot) /\ HeadOf(log[p]) = log[p][1].addr
    BY <1>5, DataFacts DEF HeadOf
  <2>2. log[p][1] \in Slot
    BY <2>1
  <2> DEFINE w == log[p][1]
  <2>3. w \in Write
    BY <1>5, <2>1, <2>2 DEF Slot, Write
  <2>4. w \in Asked /\ Asked' \subseteq {w}
    BY <1>1, <1>2, <1>5 DEF Asked
  <2>5. Store' = [Store EXCEPT ![w.addr] = w.data]
    BY <1>3, <2>1
  <2> HIDE DEF w
  <2> QED
    BY <2>3, <2>4, <2>5, Committing
<1> QED
  BY <1>4, <1>5

LEMMA FormatMaps ==
    ASSUME DataInv, DataInv', Format0 \/ FormatMark \/ Format1 \/ Tidy
    PROVE  MapStep
<1>1. /\ Store = StoreOf(header, log) /\ Store' = StoreOf(header', log')
      /\ HeadWrite' = HeadsOf(FillsOf(header', pc', new'), log')
  BY Seen, SeenNext DEF DataInv
<1>2. /\ header \in [Pages -> {ERASED, RECEIVE_DATA, VALID_PAGE}]
      /\ header' \in [Pages -> {ERASED, RECEIVE_DATA, VALID_PAGE}]
      /\ log \in [Pages -> Seq(Slot)] /\ new \in Pages /\ new' = new
  BY DataFacts DEF DataInv, StatusInv, TypeInv, TypeOK, Format0, FormatMark, Format1, Tidy
<1>3. RunningWrite' = {}
  <2>1. call = "init" /\ call' = call
    BY DEF DataInv, Shape, Format0, FormatMark, Format1, Tidy
  <2> QED
    BY <2>1 DEF RunningWrite
<1>4. Other(0) = 1 /\ Other(1) = 0
  BY DEF Other
<1>5. pc' # "resumeErase"
  BY DEF Format0, FormatMark, Format1, Tidy, Return
<1>6. CASE Format0
  <2>1. header[0] = ERASED /\ header[1] = ERASED /\ header' = header
    BY <1>2, <1>6, DataFacts DEF Format0, ErasePage, StatusWords
  <2>2. Store' = Store /\ FillsOf(header', pc', new') = {}
    BY <1>1, <1>2, <1>4, <1>5, <2>1, PagesShow DEF StoreOf
  <2>3. Asked' = {}
    BY <1>1, <1>3, <2>2, HeadShows DEF Asked
  <2> QED
    BY <2>2, <2>3, Quietly
<1>7. CASE FormatMark
  <2>1. /\ header[0] = ERASED /\ header[1] = ERASED /\ log' = log
        /\ header'[0] = VALID_PAGE /\ header'[1] = ERASED
    BY <1>2, <1>7, DataFacts DEF FormatMark, MarkPage, Programmed, StatusWords
  <2>2. log[0] = <<>>
    BY <2>1 DEF DataInv, BlankPages
  <2>3. \A a \in Addresses : LastOf(log[0], a) = Unset
    BY <2>2 DEF LastOf, In
  <2>4. LiveOf(header) = NoPage /\ LiveOf(header') = 0 /\ FillsOf(header', pc', new') = {}
    BY SMTT(30), <1>2, <1>4, <1>5, <2>1, PagesShow
  <2>5. Store' = Store
    BY <1>1, <2>1, <2>3, <2>4 DEF StoreOf
  <2>6. Asked' = {}
    BY <1>1, <1>3, <2>4, HeadShows DEF Asked
  <2> QED
    BY <2>5, <2>6, Quietly
<1>8. CASE Format1 \/ Tidy
  <2>1. PICK p \in Pages : header[p] = VALID_PAGE /\ header[Other(p)] = ERASED /\ ErasePage(Other(p))
    BY <1>2, <1>4, <1>8, DataFacts DEF Format1, Tidy, StatusWords
  <2>2. header' = header /\ log'[p] = log[p]
    BY <1>2, <2>1 DEF ErasePage, Other
  <2>3. LiveOf(header) = p /\ LiveOf(header') = p /\ FillsOf(header', pc', new') = {}
    BY <1>2, <1>5, <2>1, <2>2, PagesShow
  <2> QED
    BY <1>3, <2>2, <2>3, HeadShows, ReadAlike
<1> QED
  BY <1>6, <1>7, <1>8

LEMMA EraseMaps ==
    ASSUME DataInv, DataInv', EraseOld \/ Validate
    PROVE  MapStep
<1>1. /\ header \in [Pages -> {ERASED, RECEIVE_DATA, VALID_PAGE}]
      /\ header' \in [Pages -> {ERASED, RECEIVE_DATA, VALID_PAGE}]
      /\ log \in [Pages -> Seq(Slot)] /\ new \in Pages /\ new' = new
      /\ arg' = arg /\ call' = call
      /\ Other(new) \in Pages /\ Other(new) # new /\ Other(Other(new)) = new
  BY DataFacts DEF DataInv, StatusInv, TypeInv, TypeOK, EraseOld, Validate
<1>2. pc # "resumeErase" /\ pc' # "resumeErase" /\ header[new] = RECEIVE_DATA
  BY DataFacts DEF EraseOld, Validate, Return, StatusWords
<1>3. RunningWrite' \subseteq RunningWrite
  BY <1>1 DEF EraseOld, Validate, Return, RunningWrite
<1>4. CASE Validate \/ (EraseOld /\ header[Other(new)] = ERASED)
  <2>1. /\ header[Other(new)] = ERASED /\ header'[Other(new)] = ERASED
        /\ header'[new] \in {RECEIVE_DATA, VALID_PAGE} /\ log'[new] = log[new]
    BY <1>1, <1>2, <1>4, DataFacts DEF EraseOld, Validate, ErasePage, MarkPage, Programmed, StatusWords
  <2>2. LiveOf(header) = new /\ LiveOf(header') = new /\ FillsOf(header', pc', new') = {}
    BY <1>1, <1>2, <2>1, PagesShow
  <2> QED
    BY <1>1, <1>3, <2>1, <2>2, HeadShows, ReadAlike
<1>5. CASE EraseOld /\ header[Other(new)] # ERASED
  <2>1. call = "transfer" /\ header[Other(new)] = VALID_PAGE /\ pc = "eraseOld"
    BY <1>1, <1>5, DataFacts DEF EraseOld, DataInv, Shape, TypeOK
  <2>2. HeadIsWrite /\ StandsBy
    BY <2>1 DEF DataInv, ToProgram, Standing
  <2>3. /\ header'[Other(new)] = ERASED /\ header'[new] = RECEIVE_DATA /\ log'[new] = log[new]
    BY <1>1, <1>2, <1>5 DEF EraseOld, ErasePage
  <2>4. LiveOf(header) = Other(new) /\ FillsOf(header, pc, new) = {new}
    BY <1>1, <1>2, <2>1, PagesShow
  <2>5. LiveOf(header') = new /\ FillsOf(header', pc', new') = {}
    BY <1>1, <1>2, <2>3, PagesShow
  <2>6. HeadOf(log[new]) = arg.addr /\ arg.addr # Blank
    BY <2>2, SizeAssumption, DataFacts DEF HeadIsWrite, HeadOf, Addresses, Blank
  <2>7. RunningWrite' \subseteq HeadsOf({new}, log)
    BY <1>1, <2>2, <2>6, HeadShows DEF RunningWrite, HeadIsWrite
  <2> QED
    BY <1>1, <2>2, <2>3, <2>4, <2>5, <2>7, HeadTakesEffect DEF StandsBy
<1> QED
  BY <1>4, <1>5

LEMMA ResumeMaps ==
    ASSUME DataInv, DataInv', ResumeMark \/ ResumeErase
    PROVE  MapStep
<1>1. /\ header \in [Pages -> {ERASED, RECEIVE_DATA, VALID_PAGE}]
      /\ header' \in [Pages -> {ERASED, RECEIVE_DATA, VALID_PAGE}]
      /\ log \in [Pages -> Seq(Slot)] /\ new \in Pages /\ new' = new
      /\ Other(new) \in Pages /\ Other(new) # new /\ Other(Other(new)) = new
      /\ new = 1 => Other(new) = 0
      /\ new = 0 => Other(new) = 1
  BY DataFacts DEF DataInv, StatusInv, TypeInv, TypeOK, ResumeMark, ResumeErase, Other
<1>2. RunningWrite' = {}
  <2>1. call = "init" /\ call' = call
    BY DEF DataInv, Shape, ResumeMark, ResumeErase
  <2> QED
    BY <2>1 DEF RunningWrite
<1>3. StandsBy /\ header[Other(new)] = VALID_PAGE
  BY DataFacts DEF ResumeMark, ResumeErase, DataInv, Standing, StatusWords
<1>4. CASE ResumeMark
  <2>1. /\ header[new] = RECEIVE_DATA /\ header'[new] = VALID_PAGE /\ header'[Other(new)] = VALID_PAGE
        /\ pc = "resumeMark" /\ pc' = "resumeErase" /\ log' = log
    BY <1>1, <1>3, <1>4, DataFacts DEF ResumeMark, MarkPage, Programmed, StatusWords
  <2>2. LiveOf(header) = Other(new) /\ FillsOf(header, pc, new) = {new}
    BY SMTT(30), <1>1, <1>3, <2>1, PagesShow
  <2>3. header'[0] = VALID_PAGE /\ header'[1] = VALID_PAGE
    BY <1>1, <2>1
  <2>4. LiveOf(header') = 0 /\ FillsOf(header', pc', new') = IF new = 1 THEN {1} ELSE {}
    BY <1>1, <2>1, <2>3, PagesShow
  <2>5. CASE new = 0
    BY <1>1, <1>2, <1>3, <2>1, <2>2, <2>4, <2>5, HeadTakesEffect DEF StandsBy
  <2>6. CASE new = 1
    BY <1>1, <1>2, <2>1, <2>2, <2>4, <2>6, ReadAlike
  <2> QED
    BY <1>1, <2>5, <2>6
<1>5. CASE ResumeErase
  <2>1. /\ header[new] = VALID_PAGE /\ header'[new] = VALID_PAGE /\ header'[Other(new)] = ERASED
        /\ pc = "resumeErase" /\ pc' # "resumeErase" /\ log'[new] = log[new]
    BY <1>1, <1>5, DataFacts DEF ResumeErase, ErasePage, Return, StatusWords
  <2>2. header[0] = VALID_PAGE /\ header[1] = VALID_PAGE
    BY <1>1, <1>3, <2>1
  <2>3. LiveOf(header) = 0 /\ FillsOf(header, pc, new) = IF new = 1 THEN {1} ELSE {}
    BY <1>1, <2>1, <2>2, PagesShow
  <2>4. LiveOf(header') = new /\ FillsOf(header', pc', new') = {}
    BY <1>1, <2>1, PagesShow
  <2>5. CASE new = 1
    BY <1>1, <1>2, <1>3, <2>1, <2>3, <2>4, <2>5, HeadTakesEffect DEF StandsBy
  <2>6. CASE new = 0
    BY <1>1, <1>2, <2>1, <2>3, <2>4, <2>6, HeadShows, ReadAlike
  <2> QED
    BY <1>1, <2>5, <2>6
<1> QED
  BY <1>4, <1>5

LEMMA ReceiveMaps ==
    ASSUME DataInv, DataInv', MarkReceive
    PROVE  MapStep
<1>1. /\ header \in [Pages -> {ERASED, RECEIVE_DATA, VALID_PAGE}]
      /\ header' \in [Pages -> {ERASED, RECEIVE_DATA, VALID_PAGE}]
      /\ log' = log /\ new \in Pages /\ new' = new
      /\ Other(new) \in Pages /\ Other(new) # new /\ Other(Other(new)) = new
  BY DataFacts DEF DataInv, StatusInv, TypeInv, TypeOK, MarkReceive
<1>2. /\ header[new] # VALID_PAGE /\ header[Other(new)] = VALID_PAGE
      /\ header'[new] = RECEIVE_DATA /\ header'[Other(new)] = VALID_PAGE
      /\ pc = "receive" /\ pc' = "data"
  BY <1>1, DataFacts DEF MarkReceive, MarkPage, Programmed, StatusWords, CopySource
<1>3. LiveOf(header) = Other(new) /\ LiveOf(header') = Other(new)
      /\ FillsOf(header', pc', new') = {new}
  BY <1>1, <1>2, PagesShow
<1>4. HeadsOf({new}, log) \subseteq HeadsOf(FillsOf(header, pc, new), log)
  <2>1. CASE header[new] = ERASED
    <3>1. HeadOf(log[new]) = Blank
      BY <1>1, <2>1 DEF DataInv, BlankPages, HeadOf
    <3> QED
      BY <3>1, HeadShows
  <2>2. CASE header[new] = RECEIVE_DATA
    BY <1>1, <1>2, <2>2, PagesShow
  <2> QED
    BY <1>1, <1>2, <2>1, <2>2
<1>5. RunningWrite' \subseteq RunningWrite
  BY <1>2 DEF MarkReceive, RunningWrite
<1> QED
  BY <1>1, <1>3, <1>4, <1>5, ReadAlike

LEMMA ProgramDataMaps ==
    ASSUME DataInv, DataInv', ProgramData
    PROVE  MapStep
<1> DEFINE p == WritePage
           t == Append(log[p], [addr |-> Blank, data |-> var.data])
<1>1. /\ pc = "data" /\ pc' = "addr" /\ HasRoom
      /\ UNCHANGED <<header, call, arg, var, new, cursor>>
      /\ log' = [log EXCEPT ![p] = t]
  BY DEF ProgramData
<1>2. /\ p \in Pages /\ log[p] \in Seq(Slot) /\ var.data \in Values
      /\ header \in [Pages -> {ERASED, RECEIVE_DATA, VALID_PAGE}] /\ new \in Pages
      /\ Other(new) \in Pages /\ Other(new) # new /\ Other(Other(new)) = new
  BY <1>1, PageWritten, DataFacts DEF TypeOK
<1>3. log'[p] = t /\ \A q \in Pages : q # p => log'[q] = log[q]
  BY <1>1, <1>2, DataFacts DEF TypeOK
<1>4. \A a \in Addresses : LastOf(t, a) = LastOf(log[p], a)
  BY <1>2, BlankUnseen
<1>5. log[p] # <<>> => t # <<>> /\ t[1] = log[p][1]
  BY <1>2, AppendSlot
<1>6. log[p] = <<>> => HeadOf(t) = Blank
  BY DEF HeadOf
<1> HIDE DEF t
<1>7. RunningWrite' \subseteq RunningWrite
  BY <1>1 DEF RunningWrite
<1>8. CASE call = "write"
  <2>1. GoodPages /\ header[p] = VALID_PAGE
    BY <1>1, <1>8, PageWritten
  <2>2. header[Other(p)] = ERASED
    BY <1>2, <2>1 DEF GoodPages, Other
  <2>3. LiveOf(header) = p /\ FillsOf(header', pc', new') = {}
    BY <1>1, <1>2, <2>1, <2>2, PagesShow
  <2> QED
    BY <1>1, <1>2, <1>3, <1>4, <1>7, <2>3, HeadShows, ReadAlike
<1>9. CASE call # "write"
  <2>1. p = new /\ Receiving(new)
    BY <1>1, <1>9, PageWritten
  <2>2. LiveOf(header) = Other(new) /\ FillsOf(header, pc, new) = {new}
        /\ FillsOf(header', pc', new') = {new} /\ LiveOf(header') = Other(new)
    BY <1>1, <1>2, <2>1, PagesShow DEF Receiving
  <2>3. HeadsOf({new}, log') \subseteq HeadsOf({new}, log)
    BY <1>3, <1>5, <1>6, <2>1, HeadShows DEF HeadOf
  <2> QED
    BY <1>2, <1>3, <1>7, <2>1, <2>2, <2>3, ReadAlike
<1> QED
  BY <1>8, <1>9

LEMMA ProgramAddressMaps ==
    ASSUME DataInv, DataInv', ProgramAddress
    PROVE  MapStep
<1> DEFINE p == WritePage
           n == Len(log[p])
<1>1. /\ pc = "addr" /\ p \in Pages /\ UNCHANGED <<header, call, arg, var, new, cursor>>
      /\ n \in Nat \ {0} /\ log'[p] \in Seq(Slot) /\ Len(log'[p]) = n /\ log[p] # <<>>
      /\ \A i \in 1 .. n - 1 : log'[p][i] = log[p][i]
      /\ log'[p][n] = var
      /\ LastOf(log'[p], var.addr) = var.data
      /\ \A a \in Addresses \ {var.addr} : LastOf(log'[p], a) = LastOf(log[p], a)
      /\ \A q \in Pages : q # p => log'[q] = log[q]
  BY AddressProgrammed
<1>2. pc' = (IF call = "write" THEN "idle" ELSE "copy")
  BY DEF ProgramAddress, Return
<1>3. /\ header \in [Pages -> {ERASED, RECEIVE_DATA, VALID_PAGE}] /\ new \in Pages
      /\ Other(new) \in Pages /\ Other(new) # new /\ Other(Other(new)) = new
      /\ arg \in Write /\ var \in Write
      /\ header' \in [Pages -> {ERASED, RECEIVE_DATA, VALID_PAGE}] /\ header' = header /\ new' = new
      /\ pc # "resumeErase" /\ pc' # "resumeErase"
  BY <1>1, <1>2, DataFacts DEF TypeOK
<1> HIDE DEF p, n
<1>4. CASE call = "write"
  <2>1. GoodPages /\ header[p] = VALID_PAGE /\ var = arg
    BY <1>1, <1>4, PageWritten DEF p, DataInv, Shape
  <2>2. header[Other(p)] = ERASED
    BY <1>1, <2>1 DEF GoodPages, Other
  <2>3. LiveOf(header) = p /\ LiveOf(header') = p /\ FillsOf(header', pc', new') = {}
    BY <1>1, <1>3, <2>1, <2>2, PagesShow
  <2>4. /\ Store = StoreOf(header, log) /\ Store' = StoreOf(header', log')
        /\ HeadWrite' = HeadsOf({}, log')
    BY <2>3, Seen, SeenNext DEF DataInv
  <2>5. Store' = [Store EXCEPT ![arg.addr] = arg.data]
    <3>1. /\ Store = [a \in Addresses |-> LastOf(log[p], a)]
          /\ Store' = [a \in Addresses |-> LastOf(log'[p], a)]
      BY <1>1, <2>3, <2>4 DEF StoreOf
    <3> QED
      BY <1>1, <2>1, <3>1
  <2>6. arg \in Asked /\ Asked' \subseteq {arg}
    BY <1>1, <1>2, <1>4, <2>4, HeadShows DEF Asked, RunningWrite
  <2> QED
    BY <1>3, <2>5, <2>6, Committing
<1>5. CASE call # "write"
  <2>1. p = new /\ Receiving(new) /\ call \in {"init", "transfer"} /\ pc' = "copy"
    BY <1>1, <1>2, <1>5, PageWritten, DataFacts DEF p, TypeOK
  <2>2. LiveOf(header) = Other(new) /\ FillsOf(header, pc, new) = {new}
        /\ FillsOf(header', pc', new') = {new} /\ LiveOf(header') = Other(new)
    BY <1>3, <2>1, PagesShow DEF Receiving
  <2>3. log'[Other(new)] = log[Other(new)]
    BY <1>1, <1>3, <2>1
  <2>4. RunningWrite' = RunningWrite
    BY <1>1, <2>1 DEF RunningWrite
  <2>5. CASE n > 1
    <3>1. log'[p][1] = log[p][1] /\ log'[p] # <<>> /\ log[p] # <<>>
      BY <1>1, <2>5
    <3>2. HeadOf(log'[new]) = HeadOf(log[new]) /\ log'[new][1] = log[new][1]
      BY <2>1, <3>1 DEF HeadOf
    <3>3. HeadsOf({new}, log') = HeadsOf({new}, log)
      <4>1. HeadsOf({new}, log) = IF HeadOf(log[new]) = Blank THEN {} ELSE {log[new][1]}
        BY HeadShows
      <4>2. HeadsOf({new}, log') = IF HeadOf(log'[new]) = Blank THEN {} ELSE {log'[new][1]}
        BY HeadShows
      <4> QED
        BY <3>2, <4>1, <4>2
    <3> QED
      BY <1>3, <2>2, <2>3, <2>4, <3>3, ReadAlike
  <2>6. CASE n = 1
    <3>1. log'[p][1] = var
      BY <1>1, <2>6
    <3>2. /\ Store = StoreOf(header, log) /\ Store' = StoreOf(header', log')
          /\ HeadWrite' = HeadsOf({new}, log')
      BY <2>2, Seen, SeenNext DEF DataInv
    <3>3. Store' = Store /\ Store = [a \in Addresses |-> LastOf(log[Other(new)], a)]
      BY <1>3, <2>2, <2>3, <3>2 DEF StoreOf
    <3>4. HeadWrite' \subseteq {var}
      BY <2>1, <3>1, <3>2, HeadShows
    <3>5. CASE call = "transfer"
      <4>1. var = arg
        BY <1>1, <2>1, <2>6, <3>5 DEF DataInv, ToProgram, n
      <4>2. RunningWrite = {arg}
        BY <1>1, <3>5 DEF RunningWrite
      <4>3. \A w \in Asked' : w \in Asked
        BY <2>4, <3>4, <4>1, <4>2 DEF Asked
      <4> QED
        BY <3>3, <4>3, Quietly
    <3>6. CASE call = "init"
      <4>1. VarIsCopy
        BY <1>1, <3>6 DEF DataInv, ToProgram
      <4>2. Store[var.addr] = var.data
        BY <1>3, <3>3, <4>1 DEF VarIsCopy, Write
      <4>3. \A w \in Asked' : w \in Asked \/ Store[w.addr] = w.data
        BY <2>4, <3>4, <4>2 DEF Asked
      <4> QED
        BY <3>3, <4>3, Quietly
    <3> QED
      BY <2>1, <3>5, <3>6
  <2> QED
    BY <1>1, <2>5, <2>6
<1> QED
  BY <1>4, <1>5

LEMMA InitMaps == Init => Promise!StoreInit
<1> SUFFICES ASSUME Init PROVE Promise!StoreInit
  OBVIOUS
<1>1. /\ header[0] = ERASED /\ header[1] = ERASED /\ pc = "off" /\ new = 0
      /\ header \in [Pages -> {ERASED, RECEIVE_DATA, VALID_PAGE}]
  BY DEF Init
<1>2. StatusInv
  BY InitStatus
<1>3. LiveOf(header) = NoPage /\ FillsOf(header, pc, new) = {}
  BY <1>1, PagesShow DEF Other
<1>4. Store = [a \in Addresses |-> Unset] /\ HeadWrite = {}
  BY <1>2, <1>3, Seen, HeadShows DEF StoreOf
<1>5. RunningWrite = {}
  BY <1>1 DEF RunningWrite
<1> QED
  BY <1>4, <1>5 DEF Promise!StoreInit, Pending

LEMMA NextMaps ==
    ASSUME NoError
    PROVE  DataInv /\ DataInv' /\ [Next]_vars => MapStep
<1> SUFFICES ASSUME DataInv, DataInv', [Next]_vars PROVE MapStep
  OBVIOUS
<1>1. CASE PowerUp \/ PageFull \/ CopyNext \/ CopyDone \/ PowerLoss \/ UNCHANGED vars
  BY <1>1, NothingWritten
<1>2. ASSUME NEW w \in Write, WriteVariable(w) PROVE MapStep
  BY <1>2, AskedFor
<1>3. CASE Format0 \/ FormatMark \/ Format1 \/ Tidy
  BY <1>3, FormatMaps
<1>4. CASE EraseOld \/ Validate
  BY <1>4, EraseMaps
<1>5. CASE ResumeMark \/ ResumeErase
  BY <1>5, ResumeMaps
<1>6. CASE MarkReceive
  BY <1>6, ReceiveMaps
<1>7. CASE ProgramData
  BY <1>7, ProgramDataMaps
<1>8. CASE ProgramAddress
  BY <1>8, ProgramAddressMaps
<1>9. ~NoValidPage /\ ~FlashError
  BY PageWritten DEF NoValidPage, FlashError, NoError
<1> QED
  BY <1>1, <1>2, <1>3, <1>4, <1>5, <1>6, <1>7, <1>8, <1>9 DEF Next, Step

\* Across every flash operation, power cut and repair the pages behave as a map whose
\* entries change one at a time, each by a write that a caller of EEPROM_WriteVariable
\* asked for; for any number of variables.
THEOREM PagesImplementStore == ASSUME NoError PROVE Spec => ImplementsStore
<1>1. Spec => []DataInv
  BY AlwaysData
<1>2. DataInv /\ DataInv' /\ [Next]_vars => [Promise!StoreNext]_<<Store, Pending>>
  BY NextMaps DEF MapStep
<1>3. Init => Promise!StoreInit
  BY InitMaps
<1> QED
  BY <1>1, <1>2, <1>3, PTL DEF Spec, ImplementsStore, Promise!StoreSpec

\* No cut, and no repair at boot, makes a variable that was written read as if it had
\* never been: not EEPROM_Format, and not the erasing of the page it was in.
THEOREM WrittenVariablesSurvive == ASSUME NoError PROVE Spec => VariablesSurvive
<1>1. Spec => []DataInv
  BY AlwaysData
<1>2. DataInv /\ DataInv' /\ [Next]_vars
          => [\A a \in Addresses : Store[a] # Unset => Store'[a] # Unset]_vars
  <2> SUFFICES ASSUME DataInv, MapStep, NEW a \in Addresses, Store[a] # Unset
               PROVE  Store'[a] # Unset
    BY NextMaps
  <2>1. CASE \E w \in Promise!Write : Promise!Commit(w)
    <3>1. PICK w \in Promise!Write : Promise!Commit(w)
      BY <2>1
    <3>2. Store' = [Store EXCEPT ![w.addr] = w.data] /\ w.data \in Values
      BY <3>1 DEF Promise!Commit, Promise!Write
    <3>3. a \in DOMAIN Store
      BY DEF Store
    <3> QED
      BY <3>2, <3>3, ValuesAssumption
  <2>2. CASE Store' = Store
    BY <2>2
  <2> QED
    BY <2>1, <2>2 DEF MapStep, Promise!StoreNext, Promise!Begin, Promise!Drop
<1> QED
  BY <1>1, <1>2, PTL DEF Spec, VariablesSurvive
=============================================================================
