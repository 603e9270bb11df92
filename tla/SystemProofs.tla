---------------------------- MODULE SystemProofs ----------------------------
(***************************************************************************)
(* Two services of the system firmware that its other parts rest on.       *)
(*                                                                         *)
(* DCD implements DCTStore, for sectors of every size.  The invariant: a   *)
(* write works in the sector that reads do not look at, which holds, from  *)
(* the end of its copy on, exactly what the write has to leave; and before *)
(* the first sector is sealed nothing but blanks is read.                  *)
(*                                                                         *)
(* ActiveObject answers a function call at most once, for queues of every  *)
(* size.  The invariant: the calls go one way through the places where     *)
(* messages are kept, and each is in one place at a time.                  *)
(***************************************************************************)
EXTENDS DCD, ActiveObject, SequenceTheorems, TLAPS

BlankWords == [w \in Words |-> Erased]
Copied == {"mark", "seal", "drop"}

\* A call that does not run, or formats for a read, asks for nothing.
CallInv ==
    /\ Step("idle") => call = Idle
    /\ call.word = 0 => call.current = 0 /\ call.value = Erased /\ call.at = 1
    /\ call.step \in Formatting => ~Valid(1) /\ sector[0].data = BlankWords
    /\ call.step # "idle" /\ ~Step("drop") => call.current = Current
    /\ call.step \in Formatting \cup {"erase"} => call.at = 1
    /\ Step("fill") => call.at \in Words

\* What was never sealed is blank.
BlankInv == ~IsInitialized => sector[0].data = BlankWords

CopyInv ==
    /\ call.step \in {"fill", "mark", "seal"} => sector[New].seal = "erased"
    /\ Step("fill") => \A w \in Words : w < call.at => sector[New].data[w] = NewWord(w)
    /\ call.step \in Copied => \A w \in Words : sector[New].data[w] = NewWord(w)
    /\ call.step \in {"seal", "drop"} => sector[New].mark
    /\ Step("drop") => Valid(New) /\ (call.current = 1 => Valid(1))

DCDInv == DCDTypeOK /\ CallInv /\ BlankInv /\ CopyInv

Sector == [mark : BOOLEAN, seal : Seals, data : [Words -> Values]]
Call == [step : Formatting \cup Writing \cup {"idle"}, current : Sectors,
         word : Words \cup {0}, value : Values, at : 1 .. Size + 1]

\* A step of the store or none.
Stuttering == Content' = Content /\ Asked' = Asked /\ result' = result

LEMMA Typed ==
    ASSUME DCDTypeOK
    PROVE  /\ sector \in [Sectors -> Sector] /\ call \in Call
           /\ sector[0] \in Sector /\ sector[1] \in Sector
           /\ New \in Sectors /\ New # call.current /\ Current \in Sectors
           /\ call.current = 0 => New = 1
           /\ call.current = 1 => New = 0
  BY DEF DCDTypeOK, Sector, Call, New, Alternate, Current, Sectors

LEMMA BlankTyped == ASSUME Parameters PROVE Blank \in Sector /\ BlankWords \in [Words -> Values]
  BY DEF Parameters, Blank, BlankWords, Sector, Seals

\* Between two calls.
LEMMA IdleTyped ==
    ASSUME Parameters, sector' \in [Sectors -> Sector], call' = Idle,
           result' \in {"none", "ok", "failed"}
    PROVE  DCDTypeOK' /\ CallInv' /\ CopyInv' /\ Asked' = Store!Nothing
<1>1. Idle \in Call /\ Idle.step = "idle" /\ "idle" \notin Writing
  BY DEF Idle, Call, Parameters, Sectors, Writing
<1>2. DCDTypeOK'
  BY <1>1 DEF DCDTypeOK, Sector, Call
<1> QED
  BY <1>2 DEF CallInv, CopyInv, Idle, Step, Formatting, Copied, Asked, Store!Nothing

LEMMA InitInv == ASSUME Parameters, DCDInit PROVE DCDInv
<1>1. \A s \in Sectors : sector[s] = Blank
  BY DEF DCDInit
<1>2. ~Valid(0) /\ ~Valid(1)
  BY <1>1 DEF Valid, Blank, Sectors
<1>3. DCDTypeOK
  BY BlankTyped DEF DCDInit, DCDTypeOK, Idle, Sectors, Sector, Parameters, Writing
<1>4. BlankInv
  BY <1>1 DEF BlankInv, Blank, BlankWords, Sectors
<1>5. CallInv /\ CopyInv
  BY DEF DCDInit, Idle, CallInv, CopyInv, Step, Copied, Formatting
<1> QED
  BY <1>3, <1>4, <1>5 DEF DCDInv

\* What happens in the new sector, short of its seal, is not read.
NotSealed ==
    /\ sector'[New] \in Sector
    /\ sector'[New].mark /\ sector'[New].seal = "valid" => Valid(New)
    /\ sector' = [sector EXCEPT ![New] = sector'[New]]

LEMMA NotRead ==
    ASSUME DCDInv, call.current = Current, NotSealed
    PROVE  /\ Content' = Content /\ (IsInitialized' <=> IsInitialized)
           /\ sector' \in [Sectors -> Sector]
           /\ sector'[call.current] = sector[call.current]
           /\ Current' = Current /\ BlankInv'
<1> USE DEF NotSealed
<1>1. sector' \in [Sectors -> Sector] /\ sector'[call.current] = sector[call.current]
  BY Typed DEF DCDInv
<1>2. CASE call.current = 1
  <2>1. New = 0 /\ Valid(1) /\ Valid(1)'
    BY <1>1, <1>2, Typed DEF DCDInv, Current, Valid
  <2> QED
    BY <1>1, <1>2, <2>1 DEF Current, Content, IsInitialized, BlankInv
<1>3. CASE call.current = 0
  <2>1. New = 1 /\ ~Valid(1)
    BY <1>3, Typed DEF DCDInv, Current
  <2>2. ~Valid(1)' /\ (Valid(0)' <=> Valid(0))
    BY <1>1, <1>3, <2>1 DEF Valid
  <2> QED
    BY <1>1, <1>3, <2>1, <2>2
       DEF DCDInv, BlankInv, BlankWords, Current, Content, IsInitialized, Words
<1> QED
  BY <1>2, <1>3, Typed DEF DCDInv, Sectors

-----------------------------------------------------------------------------
(* Each step keeps the invariant, and is a step of the store or none.       *)

\* Formatting puts nothing into the first sector that is read as data.
FormatMove ==
    /\ call.step \in Formatting
    /\ sector'[0] \in Sector /\ sector'[0].data = BlankWords
    /\ sector' = [sector EXCEPT ![0] = sector'[0]]
    /\ call' = [call EXCEPT !.step = call'.step]
    /\ \/ call'.step \in {"formatMark", "formatSeal"}
       \/ call.word = 0 /\ call'.step = "idle"
       \/ call.word # 0 /\ call'.step = "erase"
    /\ UNCHANGED result

LEMMA FormatStep == ASSUME Parameters, DCDInv, FormatMove PROVE DCDInv' /\ Stuttering
<1> USE DEF FormatMove
<1>1. sector'[1] = sector[1]
  BY Typed DEF DCDInv, Sectors
<1>2. sector' \in [Sectors -> Sector]
  BY Typed DEF DCDInv, Sectors
<1>3. call' \in Call /\ call'.current = call.current /\ call'.word = call.word
      /\ call'.value = call.value /\ call'.at = call.at
  BY Typed DEF DCDInv, Call, Writing, Formatting
<1>4. ~Valid(1) /\ ~Valid(1)' /\ Current = 0 /\ Current' = 0 /\ call.current = 0
  BY <1>1 DEF DCDInv, CallInv, Valid, Current, Formatting, Step
<1>5. DCDTypeOK'
  BY <1>2, <1>3 DEF DCDInv, DCDTypeOK, Sector, Call, Writing
<1>6. BlankInv'
  BY <1>1 DEF BlankInv, BlankWords, Words
<1>7. CallInv'
  BY <1>1, <1>3, <1>4, Typed DEF DCDInv, CallInv, Idle, Step, Formatting, Call, BlankWords, Words
<1>8. CopyInv'
  BY DEF CopyInv, Copied, Step
<1>9. Content' = Content
  BY <1>1, <1>4 DEF DCDInv, CallInv, BlankInv, Content, IsInitialized, BlankWords
<1> QED
  BY <1>3, <1>5, <1>6, <1>7, <1>8, <1>9 DEF DCDInv, Stuttering, Asked

LEMMA Initializes == ASSUME Parameters, DCDInv, InitializeSector PROVE DCDInv' /\ Stuttering
<1>1. call = Idle /\ call' = [Idle EXCEPT !.step = "format"]
  BY DEF DCDInv, CallInv, InitializeSector, GoOn
<1>2. DCDTypeOK'
  BY <1>1, Typed DEF DCDInv, DCDTypeOK, InitializeSector, Idle, Writing, Formatting, Sectors, Parameters
<1>3. /\ sector' = sector /\ Valid(0)' = Valid(0) /\ Valid(1)' = Valid(1)
      /\ ~Valid(1) /\ Current = 0 /\ Current' = 0
  BY DEF InitializeSector, Valid, IsInitialized, Current
<1>4. CallInv' /\ BlankInv'
  BY <1>1, <1>3 DEF DCDInv, CallInv, BlankInv, InitializeSector, IsInitialized, Idle, Step,
     Formatting, BlankWords, Words
<1>5. CopyInv'
  BY <1>1 DEF CopyInv, Copied, Step, Idle
<1>6. Content' = Content
  BY <1>3 DEF Content, IsInitialized, Words
<1> QED
  BY <1>1, <1>2, <1>4, <1>5, <1>6 DEF DCDInv, Stuttering, Asked, Idle, InitializeSector

LEMMA Formats ==
    ASSUME Parameters, DCDInv, NEW ok \in BOOLEAN,
           FormatErase(ok) \/ FormatMark(ok) \/ FormatSeal(ok)
    PROVE  DCDInv' /\ Stuttering
<1>1. sector[0] \in Sector /\ (call.step \in Formatting => sector[0].data = BlankWords)
  BY Typed DEF DCDInv, CallInv
<1>2. CASE FormatErase(ok)
  <2>1. sector'[0] = IF ok THEN Blank ELSE sector[0]
    BY <1>2, Typed DEF DCDInv, FormatErase, Sectors
  <2>2. sector'[0] \in Sector /\ sector'[0].data = BlankWords
    BY <1>1, <1>2, <2>1, BlankTyped DEF FormatErase, Step, Formatting, Blank, BlankWords
  <2>3. sector' = [sector EXCEPT ![0] = sector'[0]]
    BY <1>2, <2>1, Typed DEF DCDInv, FormatErase
  <2> QED
    BY <1>2, <2>2, <2>3, FormatStep, Typed
       DEF FormatMove, FormatErase, Step, GoOn, Formatting, DCDInv, Call
<1>3. CASE FormatMark(ok)
  <2>1. sector'[0] = [sector[0] EXCEPT !.mark = @ \/ ok]
    BY <1>3, Typed DEF DCDInv, FormatMark, Sectors
  <2>2. sector'[0] \in Sector /\ sector'[0].data = BlankWords
    BY <1>1, <1>3, <2>1 DEF FormatMark, Step, Formatting, Sector
  <2>3. sector' = [sector EXCEPT ![0] = sector'[0]]
    BY <1>3, <2>1, Typed DEF DCDInv, FormatMark
  <2> QED
    BY <1>3, <2>2, <2>3, FormatStep, Typed
       DEF FormatMove, FormatMark, Step, GoOn, Formatting, DCDInv, Call
<1>4. CASE FormatSeal(ok)
  <2>1. sector'[0] = IF ok THEN [sector[0] EXCEPT !.seal = "valid"] ELSE sector[0]
    BY <1>4, Typed DEF DCDInv, FormatSeal, Sectors
  <2>2. sector'[0] \in Sector /\ sector'[0].data = BlankWords
    BY <1>1, <1>4, <2>1 DEF FormatSeal, Step, Formatting, Sector, Seals
  <2>3. sector' = [sector EXCEPT ![0] = sector'[0]]
    BY <1>4, <2>1, Typed DEF DCDInv, FormatSeal
  <2> QED
    BY <1>4, <2>2, <2>3, FormatStep, Typed
       DEF FormatMove, FormatSeal, Step, GoOn, Formatting, DCDInv, Call
<1> QED
  BY <1>2, <1>3, <1>4

\* A call is asked of an idle store.
LEMMA Writes ==
    ASSUME Parameters, DCDInv, NEW word \in Words, NEW value \in Values, Write(word, value)
    PROVE  DCDInv' /\ Store!Ask(word, value)
<1>1. call = Idle /\ sector' = sector
  BY DEF DCDInv, CallInv, Write
<1>2. /\ call'.step = (IF IsInitialized THEN "erase" ELSE "format") /\ call'.current = Current
      /\ call'.word = word /\ call'.value = value /\ call'.at = 1
  BY DEF Write
<1>3. call' \in Call /\ word # 0
  BY Typed DEF DCDInv, Write, Call, Formatting, Writing, Words, Parameters
<1>4. DCDTypeOK'
  BY <1>1, <1>2, <1>3 DEF DCDInv, DCDTypeOK, Write, Call
<1>5. Valid(0)' = Valid(0) /\ Valid(1)' = Valid(1) /\ Current' = Current
  BY <1>1 DEF Valid, Current
<1>6. CallInv' /\ BlankInv' /\ CopyInv'
  BY <1>1, <1>2, <1>3, <1>5 DEF DCDInv, CallInv, BlankInv, CopyInv, IsInitialized, BlankWords,
     Words, Step, Formatting, Copied
<1>7. Content' = Content
  BY <1>1, <1>5 DEF Content, IsInitialized
<1> QED
  BY <1>1, <1>2, <1>4, <1>6, <1>7 DEF DCDInv, Write, Store!Ask, Store!Quiet, Store!Nothing,
     Asked, Idle

-----------------------------------------------------------------------------
(* The copy.                                                                *)

\* A step of the copy short of the seal.
WorkMove ==
    /\ call.step \in {"erase", "fill", "mark"} /\ call'.step \in {"fill", "mark", "seal"}
    /\ call' \in Call /\ (call'.step = "fill" => call'.at \in Words)
    /\ call'.current = call.current /\ call'.word = call.word /\ call'.value = call.value
    /\ sector'[New] \in Sector /\ sector'[New].seal = "erased"
    /\ sector' = [sector EXCEPT ![New] = sector'[New]]
    /\ UNCHANGED result

LEMMA WorkStep ==
    ASSUME Parameters, DCDInv, WorkMove
    PROVE  /\ DCDTypeOK' /\ CallInv' /\ BlankInv' /\ Stuttering
           /\ New' = New /\ \A w \in Words : NewWord(w)' = NewWord(w)
<1> USE DEF WorkMove
<1>1. call.current = Current /\ call.word \in Words
  BY DEF DCDInv, CallInv, DCDTypeOK, Step, Writing
<1>2. NotSealed
  BY DEF NotSealed
<1>3. /\ call' \in Call /\ call'.word = call.word /\ call'.value = call.value
      /\ call'.current = call.current
  BY Typed DEF DCDInv, Call, Writing
<1>4. DCDTypeOK'
  BY <1>1, <1>2, <1>3, NotRead DEF DCDInv, DCDTypeOK, Sector, Call, Writing
<1>5. CallInv' /\ New' = New
  BY <1>1, <1>2, <1>3, NotRead DEF CallInv, New, Step, Formatting, Words
<1>6. \A w \in Words : NewWord(w)' = NewWord(w)
  BY <1>1, <1>2, <1>3, NotRead DEF NewWord
<1> QED
  BY <1>1, <1>2, <1>3, <1>4, <1>5, <1>6, NotRead DEF Stuttering, Asked

LEMMA Erases == ASSUME Parameters, DCDInv, EraseNew PROVE DCDInv' /\ Stuttering
<1>1. call.step = "erase" /\ call' = [call EXCEPT !.step = "fill"] /\ result' = result
  BY DEF EraseNew, Step, GoOn
<1>2. /\ call'.step = "fill" /\ call'.at = 1 /\ 1 \in Words
      /\ call' \in Call /\ call'.current = call.current
      /\ call'.word = call.word /\ call'.value = call.value
  BY <1>1, Typed DEF DCDInv, CallInv, Call, Words, Parameters, Writing
<1>3. sector'[New] = Blank /\ sector' = [sector EXCEPT ![New] = sector'[New]]
  <2>1. sector \in [Sectors -> Sector] /\ New \in Sectors /\ sector' = [sector EXCEPT ![New] = Blank]
    BY Typed DEF DCDInv, EraseNew
  <2> HIDE DEF New, Blank
  <2> QED
    BY <2>1
<1>4. WorkMove
  BY <1>1, <1>2, <1>3, BlankTyped DEF WorkMove, Blank, Words
<1>5. sector'[New'].seal = "erased" /\ \A w \in Words : ~(w < call'.at)
  BY <1>2, <1>3, <1>4, WorkStep DEF Blank, Words, Parameters
<1>6. CopyInv'
  BY <1>2, <1>5 DEF CopyInv, Step, Copied
<1> QED
  BY <1>4, <1>6, WorkStep DEF DCDInv

LEMMA Fills == ASSUME Parameters, DCDInv, FillNew PROVE DCDInv' /\ Stuttering
<1> DEFINE old == sector[New]
<1>1. /\ call.step = "fill" /\ call.at \in Words /\ call.at + 1 \in 1 .. Size + 1
      /\ old \in Sector /\ old.seal = "erased" /\ call.current \in Sectors
      /\ call.word \in Words /\ call.value \in Values /\ result' = result
  BY Typed DEF DCDInv, CallInv, CopyInv, DCDTypeOK, FillNew, Step, Words, Parameters, Call, Writing
<1>2. /\ call'.step = (IF call.at = Size THEN "mark" ELSE "fill") /\ call'.at = call.at + 1
      /\ call' \in Call /\ call'.current = call.current
      /\ call'.word = call.word /\ call'.value = call.value
  <2>1. call' = [[call EXCEPT !.at = call.at + 1] EXCEPT
                    !.step = IF call.at = Size THEN "mark" ELSE call.step]
    BY <1>1, Typed DEF DCDInv, FillNew, Call
  <2> QED
    BY <1>1, <2>1, Typed DEF DCDInv, Call, Writing
<1>3. NewWord(call.at) \in Values
  BY <1>1, Typed DEF DCDInv, NewWord, Sector
<1>4. sector'[New] = [old EXCEPT !.data[call.at] = NewWord(call.at)]
  BY <1>1, Typed DEF DCDInv, FillNew
<1>5. sector' = [sector EXCEPT ![New] = sector'[New]]
  BY <1>1, <1>4, Typed DEF DCDInv, FillNew
<1>6. /\ sector'[New] \in Sector /\ sector'[New].seal = "erased"
      /\ \A w \in Words : sector'[New].data[w] =
            IF w = call.at THEN NewWord(call.at) ELSE old.data[w]
  BY <1>1, <1>3, <1>4 DEF Sector
<1>7. WorkMove
  BY <1>1, <1>2, <1>5, <1>6 DEF WorkMove, Words, Parameters
<1>8. \A w \in Words : w < call.at + 1 => sector'[New].data[w] = NewWord(w)
  <2>1. SUFFICES ASSUME NEW w \in Words, w < call.at + 1
                 PROVE  sector'[New].data[w] = NewWord(w)
    OBVIOUS
  <2>2. w = call.at \/ w < call.at
    BY <1>1, <2>1 DEF Words
  <2> QED
    BY <1>1, <1>6, <2>2 DEF DCDInv, CopyInv, Step
<1>9. CopyInv'
  <2>1. \A w \in Words : w < call'.at => sector'[New'].data[w] = NewWord(w)'
    BY <1>2, <1>7, <1>8, WorkStep
  <2>2. call.at = Size => \A w \in Words : w < call.at + 1
    BY DEF Words, Parameters
  <2> QED
    BY <1>2, <1>6, <1>7, <2>1, <2>2, WorkStep DEF CopyInv, Step, Copied
<1> QED
  BY <1>7, <1>9, WorkStep DEF DCDInv

LEMMA Marks == ASSUME Parameters, DCDInv, MarkNew PROVE DCDInv' /\ Stuttering
<1>1. /\ call.step = "mark" /\ call' = [call EXCEPT !.step = "seal"] /\ result' = result
      /\ sector[New] \in Sector /\ sector[New].seal = "erased"
  BY Typed DEF DCDInv, CopyInv, MarkNew, Step, GoOn
<1>2. /\ call'.step = "seal" /\ call' \in Call /\ call'.current = call.current
      /\ call'.word = call.word /\ call'.value = call.value
  BY <1>1, Typed DEF DCDInv, Call, Writing
<1>3. /\ sector'[New] = [sector[New] EXCEPT !.mark = TRUE]
      /\ sector' = [sector EXCEPT ![New] = sector'[New]]
  BY <1>1, Typed DEF DCDInv, MarkNew
<1>4. /\ sector'[New] \in Sector /\ sector'[New].seal = "erased" /\ sector'[New].mark
      /\ sector'[New].data = sector[New].data
  BY <1>1, <1>3 DEF Sector
<1>5. WorkMove
  BY <1>1, <1>2, <1>3, <1>4 DEF WorkMove
<1>6. CopyInv'
  BY <1>1, <1>2, <1>4, <1>5, WorkStep DEF DCDInv, CopyInv, Step, Copied
<1> QED
  BY <1>5, <1>6, WorkStep DEF DCDInv

-----------------------------------------------------------------------------
(* The instant at which a write takes effect.                               *)

\* What the store holds when the write has taken effect.
LEMMA CopiedIsWritten ==
    ASSUME Parameters, DCDInv, call.step \in Copied,
           call.current = 0 => Content = sector[0].data,
           call.current = 1 => Content = sector[1].data
    PROVE  /\ sector[New].data = [Content EXCEPT ![call.word] = call.value]
           /\ call.word \in Words /\ ~Store!Quiet
           /\ Store!Written = sector[New].data
<1>1. call.word \in Words /\ call.word # 0
  BY DEF DCDInv, DCDTypeOK, Copied, Writing, Words
<1>2. sector[New].data \in [Words -> Values] /\ Content = sector[call.current].data
  BY Typed DEF DCDInv, Sector, Sectors, Call
<1>3. \A w \in Words : sector[New].data[w] = IF w = call.word THEN call.value ELSE Content[w]
  BY <1>2 DEF DCDInv, CopyInv, NewWord
<1>4. Content \in [Words -> Values]
  BY <1>2, Typed DEF DCDInv, Sector, Call, Sectors
<1> HIDE DEF Content
<1>5. sector[New].data = [Content EXCEPT ![call.word] = call.value]
  BY <1>1, <1>2, <1>3, <1>4
<1> QED
  BY <1>1, <1>5 DEF Store!Quiet, Store!Nothing, Store!Written, Asked

LEMMA SealTakesEffect ==
    ASSUME Parameters, DCDInv, SealNew
    PROVE  DCDInv' /\ (Stuttering \/ Store!Commit)
<1>1. /\ call.step = "seal" /\ call' = [call EXCEPT !.step = "drop"] /\ result' = result
      /\ call.current = Current /\ call.word \in Words
      /\ sector[New] \in Sector /\ sector[New].mark
  BY Typed DEF DCDInv, CallInv, CopyInv, DCDTypeOK, SealNew, Step, GoOn, Writing
<1>2. /\ call'.step = "drop" /\ call' \in Call /\ call'.current = call.current
      /\ call'.word = call.word /\ call'.value = call.value
  BY <1>1, Typed DEF DCDInv, Call, Writing
<1>3. /\ sector'[New] = [sector[New] EXCEPT !.seal = "valid"]
      /\ sector' \in [Sectors -> Sector] /\ sector'[call.current] = sector[call.current]
  <2>1. [sector[New] EXCEPT !.seal = "valid"] \in Sector
    BY <1>1 DEF Sector, Seals
  <2> QED
    BY <1>1, <2>1, Typed DEF DCDInv, SealNew
<1>4. sector'[New].mark /\ sector'[New].seal = "valid" /\ sector'[New].data = sector[New].data
  BY <1>1, <1>3 DEF Sector
<1>5. DCDTypeOK'
  BY <1>1, <1>2, <1>3 DEF DCDInv, DCDTypeOK, Sector, Call, Writing
<1>6. Valid(New)' /\ New' = New /\ IsInitialized'
  BY <1>2, <1>4, Typed DEF DCDInv, Valid, New, IsInitialized, Sectors
<1>7. call.current = 1 => Valid(1) /\ Valid(1)'
  BY <1>1, <1>3 DEF Current, Valid
<1>8. CallInv' /\ BlankInv'
  BY <1>1, <1>2, <1>6 DEF CallInv, BlankInv, Step, Formatting, Words
<1>9. CopyInv'
  <2>1. \A w \in Words : NewWord(w)' = NewWord(w) /\ sector'[New].data[w] = NewWord(w)
    BY <1>1, <1>2, <1>3, <1>4 DEF DCDInv, CopyInv, NewWord, Copied
  <2> QED
    BY <1>2, <1>4, <1>6, <1>7, <2>1 DEF CopyInv, Step
<1>10. CASE call.current = 1
  <2>1. sector'[1] = sector[1]
    BY <1>3, <1>10
  <2> QED
    BY <1>1, <1>2, <1>7, <1>5, <1>8, <1>9, <1>10, <2>1
       DEF Stuttering, Content, Current, IsInitialized, Asked, DCDInv
<1>11. CASE call.current = 0
  <2>1. Content = sector[0].data
    BY <1>1, <1>11 DEF DCDInv, BlankInv, BlankWords, Content, Current
  <2>2. Content' = sector[New].data
    BY <1>4, <1>6, <1>11, Typed DEF DCDInv, Content, Current
  <2> QED
    BY <1>1, <1>2, <1>11, <2>1, <2>2, CopiedIsWritten, <1>5, <1>8, <1>9
       DEF DCDInv, Copied, Store!Commit, Asked
<1> QED
  BY <1>5, <1>8, <1>9, <1>10, <1>11, Typed DEF DCDInv, Call, Sectors

LEMMA Drops == ASSUME Parameters, DCDInv, DropOld PROVE DCDInv' /\ Store!Succeed
<1>1. /\ call.step = "drop" /\ call' = Idle /\ result' = "ok" /\ call.current \in Sectors
      /\ Valid(New) /\ (call.current = 1 => Valid(1)) /\ IsInitialized
  BY Typed DEF DCDInv, CopyInv, DropOld, Step, Call, IsInitialized, Sectors
<1> DEFINE old == [sector[call.current] EXCEPT !.mark = TRUE, !.seal = "cleared"]
<1>2. old \in Sector /\ old.seal = "cleared"
  BY <1>1, Typed DEF DCDInv, Sector, Seals, Sectors
<1>3. sector'[call.current] = old /\ sector'[New] = sector[New]
      /\ sector' \in [Sectors -> Sector]
  BY <1>1, <1>2, Typed DEF DCDInv, DropOld
<1>4. \A s \in Sectors : Valid(s)' <=> s = New
  <2>1. sector'[call.current].seal = "cleared" /\ sector'[New].mark /\ sector'[New].seal = "valid"
    BY <1>1, <1>2, <1>3 DEF Valid
  <2> QED
    BY <2>1, <1>1, Typed DEF DCDInv, Valid, Sectors
<1>5. DCDInv' /\ Asked' = Store!Nothing
  BY <1>1, <1>3, <1>4, IdleTyped, Typed DEF DCDInv, BlankInv, IsInitialized, Sectors
<1>6. call.word \in Words /\ call.word # 0 /\ ~Store!Quiet
  BY <1>1 DEF DCDInv, DCDTypeOK, Writing, Words, Store!Quiet, Store!Nothing, Asked
<1>7. Content' = Store!Written
  <2>1. CASE call.current = 0
    <3>1. ~Valid(0)' /\ Valid(1) /\ Valid(1)' /\ sector'[1] = sector[1] /\ New = 1
      BY <1>1, <1>3, <1>4, <2>1, Typed DEF DCDInv, Sectors
    <3>2. Content = sector[1].data /\ Content' = sector[1].data
      BY <3>1 DEF Content, IsInitialized, Current
    <3>3. sector[1].data \in [Words -> Values] /\ sector[1].data[call.word] = call.value
      BY <1>1, <1>6, <3>1, Typed DEF DCDInv, CopyInv, Copied, NewWord, Sector
    <3> HIDE DEF Content
    <3>4. [Content EXCEPT ![call.word] = call.value] = Content
      BY <1>6, <3>2, <3>3
    <3> QED
      BY <3>2, <3>4 DEF Store!Written, Asked
  <2>2. CASE call.current = 1
    <3>1. Valid(1) /\ Valid(0)' /\ ~Valid(1)' /\ sector'[0] = sector[0] /\ New = 0
      BY <1>1, <1>3, <1>4, <2>2, Typed DEF DCDInv, Sectors
    <3>2. Content = sector[1].data /\ Content' = sector[0].data
      BY <3>1 DEF Content, IsInitialized, Current
    <3> QED
      BY <1>1, <2>2, <3>1, <3>2, CopiedIsWritten DEF Copied
  <2> QED
    BY <1>1, <2>1, <2>2 DEF Sectors
<1> QED
  BY <1>1, <1>5, <1>6, <1>7 DEF Store!Succeed

-----------------------------------------------------------------------------
(* Failures, cuts, and the word that is cleared in place.                   *)

LEMMA Fails == ASSUME Parameters, DCDInv, WriteFails PROVE DCDInv' /\ Store!Fail
<1>1. /\ call.step \in Writing /\ call' = Idle /\ result' = "failed" /\ sector' = sector
      /\ call.word # 0
  BY DEF DCDInv, DCDTypeOK, WriteFails, Words
<1>2. DCDInv' /\ Asked' = Store!Nothing
  BY <1>1, IdleTyped, Typed
     DEF DCDInv, BlankInv, BlankWords, Words, IsInitialized, Valid
<1>3. Content' = Content
  BY <1>1 DEF Content, IsInitialized, Current, Valid, Words
<1> QED
  BY <1>1, <1>2, <1>3 DEF Store!Fail, Store!Quiet, Store!Nothing, Asked

LEMMA Zeroes ==
    ASSUME Parameters, DCDInv, NEW word \in Words, ZeroInPlace(word)
    PROVE  DCDInv' /\ Store!Clear(word)
<1>1. /\ call = Idle /\ call' = Idle /\ result' = result /\ IsInitialized
      /\ Current \in Sectors /\ sector[Current] \in Sector /\ Zero \in Values
      /\ result \in {"none", "ok", "failed"}
  BY Typed DEF DCDInv, CallInv, ZeroInPlace, DCDTypeOK, Parameters, Sectors
<1> DEFINE zeroed == [sector[Current] EXCEPT !.data = [@ EXCEPT ![word] = Zero]]
<1>2. /\ zeroed \in Sector /\ zeroed.mark = sector[Current].mark
      /\ zeroed.seal = sector[Current].seal
      /\ zeroed.data = [sector[Current].data EXCEPT ![word] = Zero]
  BY <1>1 DEF Sector
<1>3. sector' = [sector EXCEPT ![Current] = zeroed]
  BY <1>1, Typed DEF DCDInv, ZeroInPlace
<1> HIDE DEF zeroed
<1>4. /\ sector' \in [Sectors -> Sector] /\ sector'[Current] = zeroed
      /\ \A s \in Sectors : s # Current => sector'[s] = sector[s]
  BY <1>1, <1>2, <1>3, Typed DEF DCDInv
<1>5. Valid(0)' = Valid(0) /\ Valid(1)' = Valid(1)
  BY <1>1, <1>2, <1>4 DEF Valid, Sectors
<1>6. IsInitialized' /\ Current' = Current
  BY <1>1, <1>5 DEF IsInitialized, Current
<1>7. DCDInv' /\ Asked' = Store!Nothing /\ Asked = Store!Nothing
  BY <1>1, <1>4, <1>6, IdleTyped DEF DCDInv, BlankInv, Asked, Idle, Store!Nothing
<1>8. Content' = [Content EXCEPT ![word] = Zero]
  BY <1>1, <1>2, <1>4, <1>6 DEF Content
<1> QED
  BY <1>1, <1>7, <1>8 DEF Store!Clear, Store!Quiet

LEMMA Resets == ASSUME Parameters, DCDInv, DCDReset PROVE DCDInv' /\ Store!Forget
<1>1. call = Idle /\ call' = Idle /\ result' = "none" /\ sector' = sector
  BY DEF DCDInv, CallInv, DCDReset
<1>2. DCDInv' /\ Asked' = Store!Nothing
  BY <1>1, IdleTyped, Typed DEF DCDInv, BlankInv, BlankWords, Words, IsInitialized, Valid
<1>3. Content' = Content
  BY <1>1 DEF Content, IsInitialized, Current, Valid, Words
<1> QED
  BY <1>1, <1>2, <1>3 DEF Store!Forget

LEMMA Cuts == ASSUME Parameters, DCDInv, DCDPowerLoss PROVE DCDInv' /\ Store!Forget
<1>1. call' = Idle /\ result' = "none"
  BY DEF DCDPowerLoss
<1>2. CASE ~Step("erase")
  <2>1. sector' = sector
    BY <1>2 DEF DCDPowerLoss
  <2>2. DCDInv' /\ Asked' = Store!Nothing
    BY <1>1, <2>1, IdleTyped, Typed DEF DCDInv, BlankInv, BlankWords, Words, IsInitialized, Valid
  <2>3. Content' = Content
    BY <2>1 DEF Content, IsInitialized, Current, Valid, Words
  <2> QED
    BY <1>1, <2>2, <2>3 DEF Store!Forget
<1>3. CASE Step("erase")
  <2>1. PICK half \in HalfErased(sector[New]) : sector' = [sector EXCEPT ![New] = half]
    BY <1>3 DEF DCDPowerLoss
  <2>2. half \in Sector /\ (half.mark /\ half.seal = "valid" => Valid(New))
    <3>1. PICK mark \in {sector[New].mark, FALSE}, seal \in {sector[New].seal, "erased"},
               blank \in SUBSET Words :
             half = [mark |-> mark, seal |-> seal, data |-> [w \in Words |->
                        IF w \in blank THEN Erased ELSE sector[New].data[w]]]
      BY DEF HalfErased
    <3>2. sector[New] \in Sector
      BY Typed DEF DCDInv
    <3>3. half.data \in [Words -> Values]
      BY <3>1, <3>2 DEF Sector, Parameters
    <3> QED
      BY <3>1, <3>2, <3>3 DEF Sector, Seals, Valid
  <2>3. sector'[New] = half
    BY <2>1, Typed DEF DCDInv
  <2>4. NotSealed /\ call.current = Current
    BY <1>3, <2>1, <2>2, <2>3 DEF NotSealed, DCDInv, CallInv, Step
  <2>5. DCDInv' /\ Asked' = Store!Nothing
    BY <1>1, <2>4, NotRead, IdleTyped DEF DCDInv
  <2> QED
    BY <1>1, <2>4, <2>5, NotRead DEF Store!Forget
<1> QED
  BY <1>2, <1>3

-----------------------------------------------------------------------------
(* The specification.                                                       *)

LEMMA StepRefines ==
    ASSUME Parameters, DCDInv, DCDNext
    PROVE  DCDInv' /\ (Stuttering \/ Store!StoreNext)
<1>1. CASE InitializeSector
  BY <1>1, Initializes
<1>2. CASE DCDProceeds
  <2>1. CASE FormatErase(TRUE) \/ FormatMark(TRUE) \/ FormatSeal(TRUE)
    BY <2>1, Formats
  <2>2. CASE EraseNew \/ FillNew \/ MarkNew
    BY <2>2, Erases, Fills, Marks
  <2>3. CASE SealNew \/ DropOld
    BY <2>3, SealTakesEffect, Drops DEF Store!StoreNext
  <2> QED
    BY <1>2, <2>1, <2>2, <2>3 DEF DCDProceeds
<1>3. CASE FlashError
  <2>1. CASE FormatErase(FALSE) \/ FormatMark(FALSE) \/ FormatSeal(FALSE)
    BY <2>1, Formats
  <2>2. CASE WriteFails
    BY <2>2, Fails DEF Store!StoreNext
  <2> QED
    BY <1>3, <2>1, <2>2 DEF FlashError
<1>4. CASE DCDPowerLoss \/ DCDReset
  BY <1>4, Cuts, Resets DEF Store!StoreNext
<1>5. CASE \E word \in Words, value \in Values : Write(word, value)
  BY <1>5, Writes DEF Store!StoreNext
<1>6. CASE \E word \in Words : ZeroInPlace(word)
  BY <1>6, Zeroes DEF Store!StoreNext
<1> QED
  BY <1>1, <1>2, <1>3, <1>4, <1>5, <1>6 DEF DCDNext

LEMMA Unchanged ==
    ASSUME DCDInv, UNCHANGED dcdVars
    PROVE  DCDInv' /\ Stuttering
  BY DEF dcdVars, DCDInv, DCDTypeOK, CallInv, BlankInv, CopyInv, Stuttering, Content, Asked,
     BlankWords, Words, IsInitialized, Current, Valid, New, NewWord, Alternate, Step

LEMMA InitRefines == ASSUME Parameters, DCDInit PROVE Store!StoreInit
<1>1. ~Valid(0) /\ ~Valid(1)
  BY DEF DCDInit, Valid, Blank, Sectors
<1> QED
  BY <1>1 DEF DCDInit, Store!StoreInit, Content, IsInitialized, Asked, Idle, Store!Nothing

\* Whatever is cut or fails at whatever step, the two sectors behave, for sectors of every
\* size, as an array of which a write changes one stretch at one instant or not at all, and
\* in any case before it reports success (the steps of writeSector are those of dcd.h).
THEOREM DCDImplementsDCT == ASSUME Parameters PROVE DCDSpec => ImplementsDCT
<1>1. DCDInit => DCDInv /\ Store!StoreInit
  BY InitInv, InitRefines
<1>2. DCDInv /\ [DCDNext]_dcdVars => DCDInv' /\ [Store!StoreNext]_Store!storeVars
  BY StepRefines, Unchanged DEF Stuttering, Store!storeVars
<1> QED
  BY <1>1, <1>2, PTL DEF DCDSpec, ImplementsDCT, Store!StoreSpec

-----------------------------------------------------------------------------
(* The queues between the system's thread and the application's.            *)

\* What can go through the queue of t; a result is always that of some call.
Letters(t) == {m \in MessageFor(t) : m.kind = "result" => m.of # 0}

QueuesOK ==
    /\ queue \in [Threads -> Seq(Message)]
    /\ \A t \in Threads : queue[t] \in Seq(Letters(t)) /\ Len(queue[t]) <= QueueSize

StacksOK ==
    /\ stack \in [Threads -> Seq(Message)]
    /\ \A t \in Threads : stack[t] \in Seq(Letters(t))
    /\ Len(stack["system"]) <= 1

PuttingOK ==
    /\ putting \in [Threads -> Message \cup {None}]
    /\ \A t \in Threads : putting[t] \in Letters(Other(t)) \cup {None}

NumbersOK ==
    /\ waiting \in 0 .. MaxMade /\ buffer \in 0 .. MaxMade /\ made \in 0 .. MaxMade
    /\ lost \subseteq Ids
    /\ answers \in Seq([of : Ids, by : Threads])

ThreadsTyped == QueuesOK /\ StacksOK /\ PuttingOK /\ NumbersOK

\* The function call that a message is about: it is the call, or its result.
About(m) == IF m.kind = "call" THEN m.id ELSE IF m.kind = "result" THEN m.of ELSE 0

CallsOf(m) == {About(m)} \ {0}
CallsIn(s) == {About(s[i]) : i \in DOMAIN s} \ {0}
Answered(s) == {s[i].of : i \in DOMAIN s}

\* No two messages of a sequence are about one call.
Distinct(s) == \A i, j \in DOMAIN s : About(s[i]) # 0 /\ About(s[i]) = About(s[j]) => i = j

\* The way of a function call: from the cloud to the application, and with its
\* result back, until it is answered.
Way == << CallsOf(putting["system"]), CallsIn(queue["app"]), CallsIn(stack["app"]),
          CallsOf(putting["app"]), CallsIn(queue["system"]), CallsIn(stack["system"]),
          Answered(answers) >>

Apart(w, n) ==
    /\ \A j, k \in 1 .. 7 : j # k => w[j] \cap w[k] = {}
    /\ \A k \in 1 .. 7 : w[k] \subseteq 1 .. n

OnePlace ==
    /\ Apart(Way, made)
    /\ \A t \in Threads : Distinct(queue[t]) /\ Distinct(stack[t])

OnceInv == ThreadsTyped /\ OnePlace /\ AnsweredOnce

-----------------------------------------------------------------------------
(* Sequences of messages, and the calls they are about.                     *)

LEMMA Appended ==
    ASSUME NEW S, NEW s \in Seq(S), NEW e \in S
    PROVE  /\ Append(s, e) \in Seq(S) /\ Len(Append(s, e)) = Len(s) + 1 /\ Len(s) \in Nat
           /\ \A i \in 1 .. Len(s) : Append(s, e)[i] = s[i]
           /\ Append(s, e)[Len(s) + 1] = e
  OBVIOUS

LEMMA Tailed ==
    ASSUME NEW S, NEW s \in Seq(S), s # <<>>
    PROVE  /\ Len(s) \in Nat \ {0} /\ Head(s) = s[1] /\ Head(s) \in S
           /\ Tail(s) \in Seq(S) /\ Len(Tail(s)) = Len(s) - 1
           /\ \A i \in 1 .. Len(s) - 1 : Tail(s)[i] = s[i + 1]
  OBVIOUS

LEMMA Popped ==
    ASSUME NEW S, NEW s \in Seq(S), s # <<>>
    PROVE  /\ Len(s) \in Nat \ {0} /\ Last(s) = s[Len(s)] /\ Last(s) \in S
           /\ Front(s) \in Seq(S) /\ Len(Front(s)) = Len(s) - 1
           /\ \A i \in 1 .. Len(s) - 1 : Front(s)[i] = s[i]
<1>1. Len(s) \in Nat \ {0}
  OBVIOUS
<1>2. Last(s) = s[Len(s)] /\ Last(s) \in S
  BY <1>1 DEF Last
<1>3. \A i \in 1 .. Len(s) - 1 : s[i] \in S
  BY <1>1
<1>4. /\ SubSeq(s, 1, Len(s) - 1) \in Seq(S)
      /\ Len(SubSeq(s, 1, Len(s) - 1)) = IF 1 <= Len(s) - 1 THEN (Len(s) - 1) - 1 + 1 ELSE 0
      /\ \A i \in 1 .. (Len(s) - 1) - 1 + 1 : SubSeq(s, 1, Len(s) - 1)[i] = s[1 + i - 1]
  BY <1>1, <1>3, SubSeqProperties
<1>5. ASSUME NEW n \in Nat \ {0} PROVE (IF 1 <= n - 1 THEN (n - 1) - 1 + 1 ELSE 0) = n - 1
  OBVIOUS
<1>6. Front(s) \in Seq(S) /\ Len(Front(s)) = Len(s) - 1
  BY <1>1, <1>4, <1>5 DEF Front
<1>7. \A i \in 1 .. Len(s) - 1 : Front(s)[i] = s[i]
  BY <1>1, <1>4 DEF Front
<1> QED
  BY <1>1, <1>2, <1>6, <1>7

LEMMA AppendCalls ==
    ASSUME NEW S, NEW s \in Seq(S), NEW e \in S
    PROVE  /\ CallsIn(Append(s, e)) = CallsIn(s) \cup CallsOf(e)
           /\ Distinct(s) /\ CallsOf(e) \cap CallsIn(s) = {} => Distinct(Append(s, e))
<1> DEFINE t == Append(s, e)
           n == Len(s)
<1>1. /\ n \in Nat /\ DOMAIN s = 1 .. n /\ DOMAIN t = 1 .. n + 1
      /\ \A i \in 1 .. n : t[i] = s[i]
      /\ t[n + 1] = e
  BY Appended
<1> HIDE DEF t, n
<1>2. CallsIn(t) = CallsIn(s) \cup CallsOf(e)
  BY <1>1 DEF CallsIn, CallsOf
<1>3. ASSUME Distinct(s), CallsOf(e) \cap CallsIn(s) = {} PROVE Distinct(t)
  <2>1. \A i \in 1 .. n : About(s[i]) # About(e) \/ About(e) = 0
    BY <1>1, <1>3 DEF CallsIn, CallsOf
  <2> QED
    BY <1>1, <1>3, <2>1 DEF Distinct
<1> QED
  BY <1>2, <1>3 DEF t

LEMMA TailCalls ==
    ASSUME NEW S, NEW s \in Seq(S), s # <<>>
    PROVE  /\ CallsIn(Tail(s)) \subseteq CallsIn(s) /\ CallsOf(Head(s)) \subseteq CallsIn(s)
           /\ Distinct(s) => Distinct(Tail(s)) /\ CallsIn(Tail(s)) \cap CallsOf(Head(s)) = {}
<1> DEFINE t == Tail(s)
           n == Len(s)
<1>1. /\ n \in Nat \ {0} /\ DOMAIN s = 1 .. n /\ DOMAIN t = 1 .. n - 1 /\ Head(s) = s[1]
      /\ \A i \in 1 .. n - 1 : t[i] = s[i + 1] /\ i + 1 \in 1 .. n /\ i + 1 # 1
  BY Tailed
<1> HIDE DEF t, n
<1>2. CallsIn(t) \subseteq CallsIn(s) /\ CallsOf(Head(s)) \subseteq CallsIn(s)
  BY <1>1 DEF CallsIn, CallsOf
<1>3. ASSUME Distinct(s) PROVE Distinct(t) /\ CallsIn(t) \cap CallsOf(Head(s)) = {}
  <2>1. Distinct(t)
    <3> SUFFICES ASSUME NEW i \in 1 .. n - 1, NEW j \in 1 .. n - 1,
                        About(t[i]) # 0, About(t[i]) = About(t[j])
                 PROVE  i = j
      BY <1>1 DEF Distinct
    <3>1. i + 1 = j + 1
      BY <1>1, <1>3 DEF Distinct
    <3> QED
      BY <1>1, <3>1
  <2>2. \A i \in 1 .. n - 1 : About(t[i]) # About(s[1]) \/ About(s[1]) = 0
    BY <1>1, <1>3 DEF Distinct
  <2> QED
    BY <1>1, <2>1, <2>2 DEF CallsIn, CallsOf
<1> QED
  BY <1>2, <1>3 DEF t

LEMMA FrontCalls ==
    ASSUME NEW S, NEW s \in Seq(S), s # <<>>
    PROVE  /\ CallsIn(Front(s)) \subseteq CallsIn(s) /\ CallsOf(Last(s)) \subseteq CallsIn(s)
           /\ Distinct(s) => Distinct(Front(s)) /\ CallsIn(Front(s)) \cap CallsOf(Last(s)) = {}
<1> DEFINE t == Front(s)
           n == Len(s)
<1>1. /\ n \in Nat \ {0} /\ DOMAIN s = 1 .. n /\ DOMAIN t = 1 .. n - 1 /\ Last(s) = s[n]
      /\ \A i \in 1 .. n - 1 : t[i] = s[i] /\ i \in 1 .. n /\ i # n
  <2>1. /\ n \in Nat \ {0} /\ Last(s) = s[n] /\ t \in Seq(S) /\ Len(t) = n - 1
        /\ \A i \in 1 .. n - 1 : t[i] = s[i]
    BY Popped
  <2> HIDE DEF t
  <2> QED
    BY <2>1
<1> HIDE DEF t, n
<1>2. CallsIn(t) \subseteq CallsIn(s) /\ CallsOf(Last(s)) \subseteq CallsIn(s)
  BY <1>1 DEF CallsIn, CallsOf
<1>3. ASSUME Distinct(s) PROVE Distinct(t) /\ CallsIn(t) \cap CallsOf(Last(s)) = {}
  <2>1. Distinct(t)
    BY <1>1, <1>3 DEF Distinct
  <2>2. \A i \in 1 .. n - 1 : About(t[i]) # About(s[n]) \/ About(s[n]) = 0
    BY <1>1, <1>3 DEF Distinct
  <2> QED
    BY <1>1, <2>1, <2>2 DEF CallsIn, CallsOf
<1> QED
  BY <1>2, <1>3 DEF t

-----------------------------------------------------------------------------
(* What a step does to the way, and to a queue, a stack, a message put.      *)

\* Calls X go on from the j-th place of the way to the k-th; some may be lost.
Moves(w, v, j, k, X) ==
    /\ X \subseteq w[j] /\ v[j] \subseteq w[j] \ X /\ v[k] \subseteq w[k] \cup X
    /\ \A i \in 1 .. 7 : i # j /\ i # k => v[i] \subseteq w[i]

LEMMA MovesOn ==
    ASSUME NEW w, NEW v, NEW n, Apart(w, n),
           NEW j \in 1 .. 7, NEW k \in 1 .. 7, j # k, NEW X, Moves(w, v, j, k, X)
    PROVE  Apart(v, n)
<1> USE DEF Moves
<1>1. \A i \in 1 .. 7 : v[i] \subseteq 1 .. n
  BY DEF Apart
<1>2. ASSUME NEW a \in 1 .. 7, NEW b \in 1 .. 7, a # b PROVE v[a] \cap v[b] = {}
  <2> SUFFICES ASSUME NEW x, x \in v[a], x \in v[b] PROVE FALSE
    OBVIOUS
  <2>1. \A i \in 1 .. 7 : i # k => v[i] \subseteq w[i]
    OBVIOUS
  <2>2. \A i \in 1 .. 7 : i # j => x \notin w[i] \/ x \notin w[j]
    BY DEF Apart
  <2>3. x \notin w[a] \/ x \notin w[b]
    BY <1>2 DEF Apart
  <2>4. CASE a = k
    BY <1>2, <2>1, <2>2, <2>3, <2>4
  <2>5. CASE b = k
    BY <1>2, <2>1, <2>2, <2>3, <2>5
  <2> QED
    BY <2>1, <2>3, <2>4, <2>5
<1> QED
  BY <1>1, <1>2 DEF Apart

LEMMA ComesIn ==
    ASSUME NEW w, NEW v, NEW n \in Nat, Apart(w, n),
           v[1] \subseteq {n + 1}, \A i \in 2 .. 7 : v[i] \subseteq w[i]
    PROVE  Apart(v, n + 1)
<1>1. n + 1 \notin 1 .. n /\ \A i \in 1 .. n : i \in 1 .. n + 1
  OBVIOUS
<1>2. \A i \in 1 .. 7 : i = 1 \/ i \in 2 .. 7
  OBVIOUS
<1>3. \A i \in 1 .. 7 : v[i] \subseteq 1 .. n + 1
  BY <1>1, <1>2 DEF Apart
<1>4. \A i \in 2 .. 7 : n + 1 \notin v[i]
  BY <1>1 DEF Apart
<1>5. ASSUME NEW a \in 1 .. 7, NEW b \in 1 .. 7, a # b PROVE v[a] \cap v[b] = {}
  BY <1>2, <1>4, <1>5 DEF Apart
<1> QED
  BY <1>3, <1>5 DEF Apart

LEMMA Shrinks ==
    ASSUME NEW w, NEW v, NEW n \in Nat, NEW m \in Nat, n <= m, Apart(w, n),
           \A i \in 1 .. 7 : v[i] \subseteq w[i]
    PROVE  Apart(v, m)
<1>1. \A i \in 1 .. n : i \in 1 .. m
  OBVIOUS
<1> QED
  BY <1>1 DEF Apart

LEMMA WayIs ==
    /\ Way[1] = CallsOf(putting["system"]) /\ Way[2] = CallsIn(queue["app"])
    /\ Way[3] = CallsIn(stack["app"]) /\ Way[4] = CallsOf(putting["app"])
    /\ Way[5] = CallsIn(queue["system"]) /\ Way[6] = CallsIn(stack["system"])
    /\ Way[7] = Answered(answers)
  BY DEF Way

LEMMA WayNext ==
    /\ Way'[1] = CallsOf(putting'["system"]) /\ Way'[2] = CallsIn(queue'["app"])
    /\ Way'[3] = CallsIn(stack'["app"]) /\ Way'[4] = CallsOf(putting'["app"])
    /\ Way'[5] = CallsIn(queue'["system"]) /\ Way'[6] = CallsIn(stack'["system"])
    /\ Way'[7] = Answered(answers')
  BY DEF Way

LEMMA Seven == \A i \in 1 .. 7 : i = 1 \/ i = 2 \/ i = 3 \/ i = 4 \/ i = 5 \/ i = 6 \/ i = 7
  OBVIOUS

LEMMA Kinds ==
    ASSUME NEW t \in Threads
    PROVE  /\ Other(t) \in Threads /\ Other(t) # t /\ Other(Other(t)) = t
           /\ None \notin Message /\ CallsOf(None) = {}
           /\ Letters(t) \subseteq Message
           /\ Letters("app") = {m \in Message : m.kind \in ForApp}
           /\ Letters("system") = {m \in Message : /\ m.kind \in ForSystem
                                                   /\ m.kind = "result" => m.of # 0}
<1>1. Other(t) \in Threads /\ Other(t) # t /\ Other(Other(t)) = t
  BY DEF Threads, Other
<1>2. None \notin Message /\ CallsOf(None) = {}
  BY DEF None, Message, ForApp, ForSystem, CallsOf, About
<1>3. /\ Letters(t) \subseteq Message
      /\ Letters("app") = {m \in Message : m.kind \in ForApp}
      /\ Letters("system") = {m \in Message : /\ m.kind \in ForSystem
                                              /\ m.kind = "result" => m.of # 0}
  BY DEF Letters, MessageFor, ForApp, ForSystem
<1> QED
  BY <1>1, <1>2, <1>3

LEMMA MoreLetters ==
    ASSUME NEW t \in Threads, NEW s \in Seq(Letters(t))
    PROVE  s \in Seq(Message) /\ s \in Seq(MessageFor(t))
<1>1. Letters(t) \subseteq Message /\ Letters(t) \subseteq MessageFor(t)
  BY Kinds DEF Letters
<1> QED
  BY <1>1

LEMMA TypedIs == ASSUME ThreadsTyped PROVE TypeOK
<1>1. \A t \in Threads : queue[t] \in Seq(MessageFor(t)) /\ stack[t] \in Seq(MessageFor(t))
  BY MoreLetters DEF ThreadsTyped, QueuesOK, StacksOK
<1>2. \A t \in Threads : putting[t] \in MessageFor(Other(t)) \cup {None}
  BY DEF ThreadsTyped, PuttingOK, Letters
<1> QED
  BY <1>1, <1>2 DEF ThreadsTyped, TypeOK, QueuesOK, StacksOK, PuttingOK, NumbersOK

\* What a step does to a queue, a stack, a message that is put.
LEMMA QueueTyped ==
    ASSUME QueuesOK, NEW t \in Threads, NEW s \in Seq(Letters(t)), Len(s) <= QueueSize,
           queue' = [queue EXCEPT ![t] = s]
    PROVE  QueuesOK' /\ queue'[t] = s /\ queue'[Other(t)] = queue[Other(t)]
  BY MoreLetters, Kinds DEF QueuesOK

LEMMA StackTyped ==
    ASSUME StacksOK, NEW t \in Threads, NEW s \in Seq(Letters(t)), t = "system" => Len(s) <= 1,
           stack' = [stack EXCEPT ![t] = s]
    PROVE  StacksOK' /\ stack'[t] = s /\ stack'[Other(t)] = stack[Other(t)]
<1>1. /\ stack'[t] = s /\ \A u \in Threads : u # t => stack'[u] = stack[u]
      /\ stack' \in [Threads -> Seq(Message)] /\ Other(t) \in Threads /\ Other(t) # t
  BY MoreLetters, Kinds DEF StacksOK
<1>2. Len(stack'["system"]) <= 1
  BY <1>1 DEF StacksOK, Threads
<1> QED
  BY <1>1, <1>2 DEF StacksOK

LEMMA PutTyped ==
    ASSUME PuttingOK, NumbersOK, NEW t \in Threads, NEW kind, NEW of \in 0 .. MaxMade, Put(t, kind, of),
           kind \in IF t = "system" THEN ForApp ELSE ForSystem, kind = "result" => of # 0
    PROVE  /\ PuttingOK' /\ made' = made + 1 /\ made' \in Ids /\ made \in Nat /\ made' \in 0 .. MaxMade
           /\ putting'[Other(t)] = putting[Other(t)]
           /\ CallsOf(putting'[t]) = IF kind = "call" THEN {made'} ELSE IF kind = "result" THEN {of} ELSE {}
<1> DEFINE m == [kind |-> kind, id |-> made', of |-> of]
<1>1. made' = made + 1 /\ made' \in Ids /\ made \in Nat /\ made' \in 0 .. MaxMade
  BY BoundAssumption DEF Put, NumbersOK, Ids
<1>2. m \in Message /\ m.kind = kind /\ m.of = of /\ m.id = made'
  BY <1>1, Kinds DEF Message, ForApp, ForSystem
<1>3. putting' = [putting EXCEPT ![t] = m]
  BY DEF Put
<1> HIDE DEF m
<1>4. m \in Letters(Other(t))
  BY <1>2, Kinds DEF Threads, Other
<1>5. putting'[t] = m /\ \A u \in Threads : u # t => putting'[u] = putting[u]
  BY <1>3 DEF PuttingOK
<1>6. PuttingOK'
  BY <1>2, <1>3, <1>4, <1>5 DEF PuttingOK
<1>7. CallsOf(m) = IF kind = "call" THEN {made'} ELSE IF kind = "result" THEN {of} ELSE {}
  BY <1>1, <1>2 DEF CallsOf, About, Ids
<1> QED
  BY <1>1, <1>5, <1>6, <1>7, Kinds

LEMMA CallsKept ==
    ASSUME UNCHANGED <<queue, stack>>, OnePlace
    PROVE  \A t \in Threads : Distinct(queue[t])' /\ Distinct(stack[t])'
  BY DEF OnePlace

-----------------------------------------------------------------------------
(* The steps of the two threads.                                            *)

\* Something new is put by the system.
LEMMA SystemPuts ==
    ASSUME OnceInv, NEW kind \in ForApp, Put("system", kind, 0), putting["system"] = None,
           buffer' \in 0 .. MaxMade, UNCHANGED <<queue, stack, waiting, lost, answers>>
    PROVE  OnceInv'
<1>1. /\ PuttingOK' /\ made' = made + 1 /\ made \in Nat /\ made' \in 0 .. MaxMade
      /\ putting'["app"] = putting["app"] /\ CallsOf(putting'["system"]) \subseteq {made'}
  <2>1. /\ 0 \in 0 .. MaxMade /\ kind # "result" /\ "system" \in Threads /\ Other("system") = "app"
        /\ PuttingOK /\ NumbersOK
    BY BoundAssumption DEF ForApp, Threads, Other, OnceInv, ThreadsTyped
  <2> QED
    BY <2>1, PutTyped
<1>2. ThreadsTyped'
  BY <1>1 DEF OnceInv, ThreadsTyped, QueuesOK, StacksOK, NumbersOK
<1>3. Way'[1] \subseteq {made + 1} /\ \A i \in 2 .. 7 : Way'[i] \subseteq Way[i]
  BY <1>1, WayIs, WayNext, Seven
<1>4. Apart(Way', made')
  BY <1>1, <1>3, ComesIn DEF OnceInv, OnePlace
<1>5. OnePlace'
  BY <1>4, CallsKept DEF OnceInv, OnePlace
<1> QED
  BY <1>2, <1>5 DEF OnceInv, AnsweredOnce

LEMMA Arrive ==
    ASSUME OnceInv, EventArrives \/ CallArrives \/ Notify
    PROVE  OnceInv'
<1>1. PICK kind \in ForApp : Put("system", kind, 0)
  BY DEF EventArrives, CallArrives, Notify, ForApp
<1>2. putting["system"] = None /\ UNCHANGED <<queue, stack, waiting, lost, answers>>
  BY DEF EventArrives, CallArrives, Notify, InBackground, Blocked
<1>3. buffer' \in 0 .. MaxMade
  <2>1. made' \in 0 .. MaxMade /\ 0 \in 0 .. MaxMade
    <3>1. /\ 0 \in 0 .. MaxMade /\ kind # "result" /\ "system" \in Threads
          /\ PuttingOK /\ NumbersOK
      BY BoundAssumption DEF ForApp, Threads, OnceInv, ThreadsTyped
    <3> QED
      BY <1>1, <3>1, PutTyped
  <2> QED
    BY <2>1 DEF EventArrives, CallArrives, Notify, OnceInv, ThreadsTyped, NumbersOK
<1> QED
  BY <1>1, <1>2, <1>3, SystemPuts

LEMMA ApplicationCalls ==
    ASSUME OnceInv, CallAsync \/ CallSync
    PROVE  OnceInv'
<1>1. PICK kind \in {"async", "sync"} : Put("app", kind, 0)
  BY DEF CallAsync, CallSync
<1>2. UNCHANGED <<queue, stack, waiting, buffer, lost, answers>>
  BY DEF CallAsync, CallSync
<1>3. /\ PuttingOK' /\ made' = made + 1 /\ made \in Nat /\ made' \in 0 .. MaxMade
      /\ putting'["system"] = putting["system"] /\ CallsOf(putting'["app"]) = {}
  <2>1. /\ 0 \in 0 .. MaxMade /\ kind # "result" /\ kind # "call" /\ kind \in ForSystem
        /\ "app" \in Threads /\ Other("app") = "system" /\ PuttingOK /\ NumbersOK
    BY BoundAssumption DEF ForSystem, Threads, Other, OnceInv, ThreadsTyped
  <2> QED
    BY <1>1, <2>1, PutTyped
<1>4. ThreadsTyped'
  BY <1>2, <1>3 DEF OnceInv, ThreadsTyped, QueuesOK, StacksOK, NumbersOK
<1>5. \A i \in 1 .. 7 : Way'[i] \subseteq Way[i]
  BY <1>2, <1>3, WayIs, WayNext, Seven
<1>6. Apart(Way', made')
  BY <1>3, <1>5, Shrinks DEF OnceInv, OnePlace
<1>7. OnePlace'
  BY <1>2, <1>6, CallsKept DEF OnceInv, OnePlace
<1> QED
  BY <1>2, <1>4, <1>7 DEF OnceInv, AnsweredOnce

LEMMA TrafficPasses ==
    ASSUME OnceInv, OtherTraffic \/ UNCHANGED vars
    PROVE  OnceInv'
<1>1. /\ UNCHANGED <<queue, stack, putting, waiting, made, lost, answers>>
      /\ buffer' = 0 \/ buffer' = buffer
  BY DEF OtherTraffic, vars
<1>2. ThreadsTyped'
  BY <1>1, BoundAssumption DEF OnceInv, ThreadsTyped, QueuesOK, StacksOK, PuttingOK, NumbersOK
<1>3. OnePlace'
  BY <1>1 DEF OnceInv, OnePlace, Apart, Way
<1> QED
  BY <1>1, <1>2, <1>3 DEF OnceInv, AnsweredOnce

\* The end of put, with room or without.
LEMMA PutEnds ==
    ASSUME OnceInv, NEW t \in Threads, Enqueue(t) \/ PutTimesOut(t)
    PROVE  /\ PuttingOK' /\ NumbersOK' /\ UNCHANGED <<stack, buffer, made, answers>>
           /\ putting[t] \in Letters(Other(t)) /\ CallsOf(putting'[t]) = {}
           /\ putting'[Other(t)] = putting[Other(t)]
<1>1. /\ putting[t] # None /\ putting' = [putting EXCEPT ![t] = None]
      /\ waiting' \in {waiting, putting[t].id} /\ lost' \in {lost, lost \cup {putting[t].id}}
      /\ UNCHANGED <<stack, buffer, made, answers>>
  BY DEF Enqueue, PutTimesOut, PutReturns
<1>2. putting[t] \in Letters(Other(t)) /\ putting[t].id \in Ids
  BY <1>1, Kinds DEF OnceInv, ThreadsTyped, PuttingOK, Message
<1>3. /\ putting'[t] = None /\ \A u \in Threads : u # t => putting'[u] = putting[u]
      /\ putting' \in [Threads -> Message \cup {None}]
  BY <1>1 DEF OnceInv, ThreadsTyped, PuttingOK
<1>4. PuttingOK'
  BY <1>3 DEF OnceInv, ThreadsTyped, PuttingOK
<1>5. NumbersOK'
  BY <1>1, <1>2, BoundAssumption DEF OnceInv, ThreadsTyped, NumbersOK, Ids
<1> QED
  BY <1>1, <1>2, <1>3, <1>4, <1>5, Kinds

LEMMA Dropped ==
    ASSUME OnceInv, NEW t \in Threads, PutTimesOut(t)
    PROVE  OnceInv'
<1>1. queue' = queue
  BY DEF PutTimesOut
<1>2. ThreadsTyped'
  BY <1>1, PutEnds DEF OnceInv, ThreadsTyped, QueuesOK, StacksOK
<1>3. \A i \in 1 .. 7 : Way'[i] \subseteq Way[i]
  <2>1. /\ CallsOf(putting'["app"]) \subseteq CallsOf(putting["app"])
        /\ CallsOf(putting'["system"]) \subseteq CallsOf(putting["system"])
    BY PutEnds DEF Threads, Other
  <2> QED
    BY <1>1, <2>1, PutEnds, WayIs, WayNext, Seven
<1>4. Apart(Way', made')
  <2>1. made \in Nat /\ made' = made /\ made <= made /\ Apart(Way, made)
    BY PutEnds DEF OnceInv, OnePlace, ThreadsTyped, NumbersOK
  <2> QED
    BY <1>3, <2>1, Shrinks
<1>5. OnePlace'
  BY <1>1, <1>4, CallsKept, PutEnds DEF OnceInv, OnePlace
<1> QED
  BY <1>2, <1>5, PutEnds DEF OnceInv, AnsweredOnce

LEMMA Enqueued ==
    ASSUME OnceInv, NEW t \in Threads, Enqueue(t)
    PROVE  OnceInv'
<1> DEFINE u == Other(t)
           m == putting[t]
           s == Append(queue[u], m)
<1>1. u \in Threads /\ m \in Letters(u) /\ queue[u] \in Seq(Letters(u)) /\ Len(queue[u]) < QueueSize
      /\ queue' = [queue EXCEPT ![u] = s] /\ Other(u) = t
  BY Kinds, PutEnds DEF Enqueue, OnceInv, ThreadsTyped, QueuesOK
<1>2. s \in Seq(Letters(u)) /\ Len(s) <= QueueSize
  BY <1>1, Appended, SizeAssumption
<1>3. /\ CallsIn(s) = CallsIn(queue[u]) \cup CallsOf(m)
      /\ Distinct(queue[u]) /\ CallsOf(m) \cap CallsIn(queue[u]) = {} => Distinct(s)
  BY <1>1, AppendCalls
<1> HIDE DEF s
<1>4. QueuesOK' /\ queue'[u] = s /\ queue'[t] = queue[t]
  BY <1>1, <1>2, QueueTyped DEF OnceInv, ThreadsTyped
<1>5. ThreadsTyped'
  BY <1>4, PutEnds DEF OnceInv, ThreadsTyped, StacksOK
<1>6. made \in Nat /\ made' = made /\ Apart(Way, made)
  BY PutEnds DEF OnceInv, ThreadsTyped, NumbersOK, OnePlace
<1>7. t = "system" => Apart(Way', made') /\ CallsOf(m) \cap CallsIn(queue[u]) = {}
  <2> SUFFICES ASSUME t = "system" PROVE Apart(Way', made') /\ CallsOf(m) \cap CallsIn(queue[u]) = {}
    OBVIOUS
  <2>1. Moves(Way, Way', 1, 2, CallsOf(m))
    <3>1. /\ Way'[1] = {} /\ Way'[2] \subseteq Way[2] \cup CallsOf(m) /\ CallsOf(m) = Way[1]
          /\ \A i \in 1 .. 7 : i # 1 /\ i # 2 => Way'[i] \subseteq Way[i]
      BY <1>3, <1>4, PutEnds, WayIs, WayNext, Seven DEF Other
    <3> QED
      BY <3>1 DEF Moves
  <2>2. Apart(Way', made')
    <3>1. 1 \in 1 .. 7 /\ 2 \in 1 .. 7 /\ 1 # 2
      OBVIOUS
    <3> QED
      BY <1>6, <2>1, <3>1, MovesOn
  <2>3. CallsOf(m) \cap CallsIn(queue[u]) = {}
    BY <1>6, WayIs DEF Apart, Other
  <2> QED
    BY <2>2, <2>3
<1>8. t = "app" => Apart(Way', made') /\ CallsOf(m) \cap CallsIn(queue[u]) = {}
  <2> SUFFICES ASSUME t = "app" PROVE Apart(Way', made') /\ CallsOf(m) \cap CallsIn(queue[u]) = {}
    OBVIOUS
  <2>1. Moves(Way, Way', 4, 5, CallsOf(m))
    <3>1. /\ Way'[4] = {} /\ Way'[5] \subseteq Way[5] \cup CallsOf(m) /\ CallsOf(m) = Way[4]
          /\ \A i \in 1 .. 7 : i # 4 /\ i # 5 => Way'[i] \subseteq Way[i]
      BY <1>3, <1>4, PutEnds, WayIs, WayNext, Seven DEF Other
    <3> QED
      BY <3>1 DEF Moves
  <2>2. Apart(Way', made')
    <3>1. 4 \in 1 .. 7 /\ 5 \in 1 .. 7 /\ 4 # 5
      OBVIOUS
    <3> QED
      BY <1>6, <2>1, <3>1, MovesOn
  <2>3. CallsOf(m) \cap CallsIn(queue[u]) = {}
    BY <1>6, WayIs DEF Apart, Other
  <2> QED
    BY <2>2, <2>3
<1>9. Apart(Way', made') /\ CallsOf(m) \cap CallsIn(queue[u]) = {}
  BY <1>7, <1>8 DEF Threads
<1>10. OnePlace'
  <2>1. Distinct(queue'[u]) /\ Distinct(queue'[t]) /\ \A x \in Threads : x = u \/ x = t
    BY <1>1, <1>3, <1>4, <1>9 DEF OnceInv, OnePlace, Threads, Other
  <2> QED
    BY <1>9, <2>1, PutEnds DEF OnceInv, OnePlace
<1> QED
  BY <1>5, <1>10, PutEnds DEF OnceInv, AnsweredOnce

LEMMA Taken ==
    ASSUME OnceInv, NEW t \in Threads, Take(t)
    PROVE  OnceInv'
<1> DEFINE q == queue[t]
           m == Head(q)
           s == Append(stack[t], m)
<1>1. /\ q # <<>> /\ q \in Seq(Letters(t)) /\ stack[t] \in Seq(Letters(t)) /\ Len(q) <= QueueSize
      /\ queue' = [queue EXCEPT ![t] = Tail(q)] /\ stack' = [stack EXCEPT ![t] = s]
      /\ t = "system" => stack[t] = <<>>
      /\ UNCHANGED <<putting, waiting, buffer, made, lost, answers>>
      /\ Distinct(q) /\ Distinct(stack[t])
  BY DEF Take, OnceInv, ThreadsTyped, QueuesOK, StacksOK, OnePlace
<1>2. /\ m \in Letters(t) /\ Tail(q) \in Seq(Letters(t)) /\ Len(Tail(q)) <= QueueSize
      /\ s \in Seq(Letters(t))
      /\ t = "system" => Len(s) <= 1
  <2>1. m \in Letters(t) /\ Tail(q) \in Seq(Letters(t)) /\ Len(Tail(q)) <= Len(q) - 1 /\ Len(q) \in Nat
    BY <1>1, Tailed
  <2>2. s \in Seq(Letters(t)) /\ Len(s) = Len(stack[t]) + 1
    BY <1>1, <2>1, Appended
  <2>3. Len(Tail(q)) \in Nat /\ Len(<<>>) = 0
    BY <2>1
  <2> QED
    BY <1>1, <2>1, <2>2, <2>3, SizeAssumption
<1>3. /\ CallsIn(Tail(q)) \subseteq CallsIn(q) \ CallsOf(m) /\ CallsOf(m) \subseteq CallsIn(q)
      /\ Distinct(Tail(q))
  BY <1>1, TailCalls
<1>4. /\ CallsIn(s) = CallsIn(stack[t]) \cup CallsOf(m)
      /\ CallsOf(m) \cap CallsIn(stack[t]) = {} => Distinct(s)
  BY <1>1, <1>2, AppendCalls
<1> HIDE DEF s, m
<1>5. QueuesOK' /\ queue'[t] = Tail(q) /\ queue'[Other(t)] = queue[Other(t)]
  BY <1>1, <1>2, QueueTyped DEF OnceInv, ThreadsTyped
<1>6. StacksOK' /\ stack'[t] = s /\ stack'[Other(t)] = stack[Other(t)]
  BY <1>1, <1>2, StackTyped DEF OnceInv, ThreadsTyped
<1>7. ThreadsTyped'
  BY <1>1, <1>5, <1>6 DEF OnceInv, ThreadsTyped, PuttingOK, NumbersOK
<1>8. t = "system" => Moves(Way, Way', 5, 6, CallsOf(m))
  <2> SUFFICES ASSUME t = "system" PROVE Moves(Way, Way', 5, 6, CallsOf(m))
    OBVIOUS
  <2>1. \A i \in 1 .. 7 : i # 5 /\ i # 6 => Way'[i] \subseteq Way[i]
    BY <1>1, <1>5, <1>6, WayIs, WayNext, Seven DEF Other
  <2>2. Way'[5] \subseteq Way[5] \ CallsOf(m) /\ CallsOf(m) \subseteq Way[5] /\ Way'[6] \subseteq Way[6] \cup CallsOf(m)
    BY <1>3, <1>4, <1>5, <1>6, WayIs, WayNext
  <2> QED
    BY <2>1, <2>2 DEF Moves
<1>9. t = "app" => Moves(Way, Way', 2, 3, CallsOf(m))
  <2> SUFFICES ASSUME t = "app" PROVE Moves(Way, Way', 2, 3, CallsOf(m))
    OBVIOUS
  <2>1. \A i \in 1 .. 7 : i # 2 /\ i # 3 => Way'[i] \subseteq Way[i]
    BY <1>1, <1>5, <1>6, WayIs, WayNext, Seven DEF Other
  <2>2. Way'[2] \subseteq Way[2] \ CallsOf(m) /\ CallsOf(m) \subseteq Way[2] /\ Way'[3] \subseteq Way[3] \cup CallsOf(m)
    BY <1>3, <1>4, <1>5, <1>6, WayIs, WayNext
  <2> QED
    BY <2>1, <2>2 DEF Moves
<1>10. Apart(Way, made) /\ made' = made
  BY <1>1 DEF OnceInv, OnePlace
<1>11. Apart(Way', made')
  <2>1. 5 \in 1 .. 7 /\ 6 \in 1 .. 7 /\ 5 # 6 /\ 2 \in 1 .. 7 /\ 3 \in 1 .. 7 /\ 2 # 3
    OBVIOUS
  <2>2. CASE t = "system"
    BY <1>8, <1>10, <2>1, <2>2, MovesOn
  <2>3. CASE t = "app"
    BY <1>9, <1>10, <2>1, <2>3, MovesOn
  <2> QED
    BY <2>2, <2>3 DEF Threads
<1>12. CallsIn(q) \cap CallsIn(stack[t]) = {}
  BY <1>10, WayIs DEF Apart, Threads
<1>13. OnePlace'
  <2>1. Distinct(s)
    BY <1>3, <1>4, <1>12
  <2>2. \A u \in Threads : u = t \/ u = Other(t)
    BY DEF Threads, Other
  <2> QED
    BY <1>3, <1>5, <1>6, <1>11, <2>1, <2>2, Kinds DEF OnceInv, OnePlace
<1> QED
  BY <1>1, <1>7, <1>13 DEF OnceInv, AnsweredOnce

\* What t was executing has come to its end.
LEMMA Returned ==
    ASSUME OnceInv, NEW t \in Threads, Returns(t), stack[t] # <<>>
    PROVE  /\ StacksOK' /\ Top(t) \in Letters(t) /\ stack'[Other(t)] = stack[Other(t)]
           /\ CallsIn(stack'[t]) \subseteq CallsIn(stack[t]) \ CallsOf(Top(t))
           /\ CallsOf(Top(t)) \subseteq CallsIn(stack[t])
           /\ \A u \in Threads : Distinct(stack'[u])
<1> DEFINE s == Front(stack[t])
<1>1. /\ stack[t] \in Seq(Letters(t)) /\ Distinct(stack[t]) /\ stack' = [stack EXCEPT ![t] = s]
      /\ t = "system" => Len(stack[t]) <= 1
  BY DEF Returns, OnceInv, ThreadsTyped, StacksOK, OnePlace
<1>2. /\ s \in Seq(Letters(t)) /\ Top(t) = Last(stack[t]) /\ Top(t) \in Letters(t)
      /\ t = "system" => Len(s) <= 1
  BY <1>1, Popped DEF Top
<1>3. /\ CallsIn(s) \subseteq CallsIn(stack[t]) \ CallsOf(Top(t))
      /\ CallsOf(Top(t)) \subseteq CallsIn(stack[t]) /\ Distinct(s)
  BY <1>1, <1>2, FrontCalls
<1> HIDE DEF s
<1>4. StacksOK' /\ stack'[t] = s /\ stack'[Other(t)] = stack[Other(t)]
  BY <1>1, <1>2, StackTyped DEF OnceInv, ThreadsTyped
<1>5. \A u \in Threads : u = t \/ u = Other(t)
  BY DEF Threads, Other
<1>6. \A u \in Threads : Distinct(stack'[u])
  BY <1>3, <1>4, <1>5, Kinds DEF OnceInv, OnePlace
<1> QED
  BY <1>2, <1>3, <1>4, <1>6

LEMMA PlainEnds ==
    ASSUME OnceInv, AsyncEnds \/ SyncEnds \/ HandlerEnds
    PROVE  OnceInv'
<1>1. PICK t \in Threads : Returns(t) /\ stack[t] # <<>>
  BY DEF AsyncEnds, SyncEnds, HandlerEnds, Executing, Threads
<1>2. UNCHANGED <<queue, putting, buffer, made, lost, answers>> /\ waiting' \in {0, waiting}
  BY DEF AsyncEnds, SyncEnds, HandlerEnds
<1>3. /\ StacksOK' /\ stack'[Other(t)] = stack[Other(t)] /\ CallsIn(stack'[t]) \subseteq CallsIn(stack[t])
      /\ \A u \in Threads : Distinct(stack'[u])
  BY <1>1, Returned
<1>4. ThreadsTyped'
  BY <1>2, <1>3, BoundAssumption DEF OnceInv, ThreadsTyped, QueuesOK, PuttingOK, NumbersOK
<1>5. \A i \in 1 .. 7 : Way'[i] \subseteq Way[i]
  <2>1. \A u \in Threads : CallsIn(stack'[u]) \subseteq CallsIn(stack[u])
    BY <1>3 DEF Threads, Other
  <2>2. "app" \in Threads /\ "system" \in Threads
    BY DEF Threads
  <2> QED
    BY <1>2, <2>1, <2>2, WayIs, WayNext, Seven
<1>6. Apart(Way', made')
  <2>1. made \in Nat /\ made' = made /\ made <= made /\ Apart(Way, made)
    BY <1>2 DEF OnceInv, OnePlace, ThreadsTyped, NumbersOK
  <2> QED
    BY <1>5, <2>1, Shrinks
<1>7. OnePlace'
  BY <1>2, <1>3, <1>6 DEF OnceInv, OnePlace
<1> QED
  BY <1>2, <1>4, <1>7 DEF OnceInv, AnsweredOnce

LEMMA FunctionReturns ==
    ASSUME OnceInv, FunctionEnds
    PROVE  OnceInv'
<1> DEFINE id == Top("app").id
<1>1. /\ Returns("app") /\ stack["app"] # <<>> /\ Top("app").kind = "call" /\ Put("app", "result", id)
      /\ putting["app"] = None /\ UNCHANGED <<queue, waiting, buffer, lost, answers>>
      /\ "app" \in Threads /\ Other("app") = "system"
  BY DEF FunctionEnds, Executing, Blocked, Threads, Other
<1>2. /\ StacksOK' /\ Top("app") \in Letters("app") /\ stack'["system"] = stack["system"]
      /\ CallsIn(stack'["app"]) \subseteq CallsIn(stack["app"]) \ CallsOf(Top("app"))
      /\ CallsOf(Top("app")) \subseteq CallsIn(stack["app"])
      /\ \A u \in Threads : Distinct(stack'[u])
  BY <1>1, Returned
<1>3. id \in Ids /\ id # 0 /\ id \in 0 .. MaxMade /\ CallsOf(Top("app")) = {id}
  <2>1. id \in Ids
    BY <1>1, <1>2, Kinds DEF Message
  <2> QED
    BY <1>1, <2>1, BoundAssumption DEF Ids, CallsOf, About
<1> HIDE DEF id
<1>4. /\ PuttingOK' /\ made' = made + 1 /\ made \in Nat /\ made' \in 0 .. MaxMade
      /\ putting'["system"] = putting["system"] /\ CallsOf(putting'["app"]) = {id}
  <2>1. "result" \in ForSystem /\ "result" # "call" /\ PuttingOK /\ NumbersOK
    BY DEF ForSystem, OnceInv, ThreadsTyped
  <2> QED
    BY <1>1, <1>3, <2>1, PutTyped
<1>5. ThreadsTyped'
  BY <1>1, <1>2, <1>4 DEF OnceInv, ThreadsTyped, QueuesOK, NumbersOK
<1>6. Moves(Way, Way', 3, 4, {id})
  <2>1. \A i \in 1 .. 7 : i # 3 /\ i # 4 => Way'[i] \subseteq Way[i]
    BY <1>1, <1>2, <1>4, WayIs, WayNext, Seven
  <2>2. Way'[3] \subseteq Way[3] \ {id} /\ {id} \subseteq Way[3] /\ Way'[4] \subseteq Way[4] \cup {id}
    BY <1>2, <1>3, <1>4, WayIs, WayNext
  <2> QED
    BY <2>1, <2>2 DEF Moves
<1>7. Apart(Way', made)
  <2>1. 3 \in 1 .. 7 /\ 4 \in 1 .. 7 /\ 3 # 4 /\ Apart(Way, made)
    BY DEF OnceInv, OnePlace
  <2> QED
    BY <1>6, <2>1, MovesOn
<1>8. Apart(Way', made')
  BY <1>4, <1>7, Shrinks
<1>9. OnePlace'
  BY <1>1, <1>2, <1>8 DEF OnceInv, OnePlace
<1> QED
  BY <1>1, <1>5, <1>9 DEF OnceInv, AnsweredOnce

LEMMA ResultReturns ==
    ASSUME OnceInv, ResultEnds
    PROVE  OnceInv'
<1> DEFINE id == Top("system").of
           a == [of |-> id, by |-> "system"]
           n == Len(answers)
<1>1. /\ Returns("system") /\ stack["system"] # <<>> /\ Top("system").kind = "result"
      /\ answers' = Append(answers, a) /\ buffer' = 0
      /\ UNCHANGED <<queue, putting, waiting, made, lost>>
      /\ "system" \in Threads /\ Other("system") = "app"
  BY DEF ResultEnds, Executing, Threads, Other
<1>2. /\ StacksOK' /\ Top("system") \in Letters("system") /\ stack'["app"] = stack["app"]
      /\ CallsIn(stack'["system"]) \subseteq CallsIn(stack["system"]) \ CallsOf(Top("system"))
      /\ CallsOf(Top("system")) \subseteq CallsIn(stack["system"])
      /\ \A u \in Threads : Distinct(stack'[u])
  BY <1>1, Returned
<1>3. id \in Ids /\ CallsOf(Top("system")) = {id}
  <2>1. id \in 0 .. MaxMade /\ id # 0
    BY <1>1, <1>2, Kinds DEF Message
  <2> QED
    BY <1>1, <2>1, BoundAssumption DEF Ids, CallsOf, About
<1>4. a \in [of : Ids, by : Threads] /\ a.of = id /\ a.by = "system"
  BY <1>1, <1>3
<1> HIDE DEF id, a
<1>5. /\ answers' \in Seq([of : Ids, by : Threads]) /\ n \in Nat
      /\ DOMAIN answers = 1 .. n /\ DOMAIN answers' = 1 .. n + 1
      /\ \A i \in 1 .. n : answers'[i] = answers[i]
      /\ answers'[n + 1] = a
  BY <1>1, <1>4, Appended DEF OnceInv, ThreadsTyped, NumbersOK
<1> HIDE DEF n
<1>6. ThreadsTyped'
  BY <1>1, <1>2, <1>5, BoundAssumption DEF OnceInv, ThreadsTyped, QueuesOK, PuttingOK, NumbersOK
<1>7. Answered(answers') \subseteq Answered(answers) \cup {id}
  BY <1>4, <1>5 DEF Answered
<1>8. Moves(Way, Way', 6, 7, {id})
  <2>1. \A i \in 1 .. 7 : i # 6 /\ i # 7 => Way'[i] \subseteq Way[i]
    BY <1>1, <1>2, WayIs, WayNext, Seven
  <2>2. Way'[6] \subseteq Way[6] \ {id} /\ {id} \subseteq Way[6] /\ Way'[7] \subseteq Way[7] \cup {id}
    BY <1>2, <1>3, <1>7, WayIs, WayNext
  <2> QED
    BY <2>1, <2>2 DEF Moves
<1>9. Apart(Way, made)
  BY DEF OnceInv, OnePlace
<1>10. Apart(Way', made')
  <2>1. 6 \in 1 .. 7 /\ 7 \in 1 .. 7 /\ 6 # 7
    OBVIOUS
  <2> QED
    BY <1>1, <1>8, <1>9, <2>1, MovesOn
<1>11. OnePlace'
  BY <1>1, <1>2, <1>10 DEF OnceInv, OnePlace
<1>12. \A i \in 1 .. n : answers[i].of # id
  <2>1. id \in Way[6] /\ Way[7] = Answered(answers)
    BY <1>2, <1>3, WayIs
  <2>2. id \notin Answered(answers)
    BY <1>9, <2>1 DEF Apart
  <2> QED
    BY <1>5, <2>2 DEF Answered
<1>13. AnsweredOnce'
  BY <1>4, <1>5, <1>12 DEF OnceInv, AnsweredOnce
<1> QED
  BY <1>6, <1>11, <1>13 DEF OnceInv

LEMMA InitOnce == Init => OnceInv
<1> SUFFICES ASSUME Init PROVE OnceInv
  OBVIOUS
<1>1. ThreadsTyped
  <2>1. \A t \in Threads : <<>> \in Seq(Letters(t)) /\ Len(<<>>) = 0 /\ <<>> \in Seq(Message)
    OBVIOUS
  <2> QED
    BY <2>1, BoundAssumption, SizeAssumption DEF Init, ThreadsTyped, QueuesOK, StacksOK, PuttingOK, NumbersOK, Threads
<1>2. CallsIn(<<>>) = {} /\ Answered(<<>>) = {} /\ Distinct(<<>>)
  BY DEF CallsIn, Answered, Distinct
<1>3. \A k \in 1 .. 7 : Way[k] = {}
  BY <1>2, Kinds, WayIs, Seven DEF Init, Threads
<1>4. OnePlace
  BY <1>2, <1>3 DEF OnePlace, Apart, Init
<1> QED
  BY <1>1, <1>4 DEF OnceInv, AnsweredOnce, Init

LEMMA NextOnce == OnceInv /\ [Next]_vars => OnceInv'
<1> SUFFICES ASSUME OnceInv, [Next]_vars PROVE OnceInv'
  OBVIOUS
<1>1. "app" \in Threads /\ "system" \in Threads
  BY DEF Threads
<1>2. CASE System
  BY <1>1, <1>2, Enqueued, Dropped, Taken, PlainEnds, ResultReturns DEF System
<1>3. CASE Application
  BY <1>1, <1>3, Enqueued, Dropped, Taken, PlainEnds, FunctionReturns DEF Application
<1> QED
  BY <1>2, <1>3, Arrive, ApplicationCalls, TrafficPasses DEF Next

\* Queues, stacks and promises keep their types and bounds, the thread of the system
\* executes one call at a time; for queues of every size.
THEOREM ThreadsTypeCorrect == Spec => []TypeOK
<1>1. OnceInv => TypeOK
  BY TypedIs DEF OnceInv
<1> QED
  BY <1>1, InitOnce, NextOnce, PTL DEF Spec

\* A function call from the cloud is answered at most once, and by the system's
\* thread, whatever the two threads put, process, drop and nest.
THEOREM CallIsAnsweredOnce == Spec => []AnsweredOnce
<1>1. OnceInv => AnsweredOnce
  BY DEF OnceInv
<1> QED
  BY <1>1, InitOnce, NextOnce, PTL DEF Spec

=============================================================================
