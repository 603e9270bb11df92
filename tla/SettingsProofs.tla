--------------------------- MODULE SettingsProofs ---------------------------
(***************************************************************************)
(* What was saved is what the sensor works with, and nothing else changes   *)
(* what is saved, for every set of fields and of texts.  The invariant says *)
(* at each place of the program how the copy in RAM differs from the one in *)
(* the EEPROM, and, while the copy is being written, up to where.           *)
(***************************************************************************)
EXTENDS ChimeSettings, TLAPS

Starting == {"setup", "askingIP", "gotIP", "askingGeoData", "gotGeoData"}

\* A user types, a long text is cut on its way to the EEPROM.
Cut == \A f \in Names : stored[f] \notin Long

\* Since it was promised, the field has been kept.
Kept(f) == promised[f] # "none" => stored[f] = ToCharArray(promised[f])

\* The copy in RAM of a field that nobody has typed: the stored one, or what the
\* menu knows how to turn back into it.
Faithful(f) ==
    /\ ~(f \in AutoFields /\ autoSet[f]) => chime[f] = stored[f]
    /\ f \in AutoFields /\ autoSet[f] => stored[f] = "auto"

Promised == pc # "write" => \A f \in Names : Kept(f)

\* In setup the copy in RAM is the stored one, and so it is once a reset during
\* setup has been written.
Loaded ==
    /\ pc \in Starting => chime = stored
    /\ (pc \in Starting \cup {"loop"} \/ (pc = "write" /\ back # "exit")) => typed = None
    /\ (pc \in Starting \/ (pc = "write" /\ back \in Starting)) =>
           \A f \in AutoFields : ~autoSet[f]

InUse ==
    pc \in {"menu", "loop"} =>
        \A f \in Names :
            /\ typed[f] = "none" => Faithful(f)
            /\ typed[f] # "none" => chime[f] = typed[f] /\ (f \in AutoFields => ~autoSet[f])

\* writeUserData is at "field": the fields before it are stored.  The menu writes
\* what was typed, and of the rest what is stored already.
WriteInv ==
    pc = "write" =>
        /\ \A i \in 1 .. field - 1 : stored[Fields[i]] = ToCharArray(chime[Fields[i]])
        /\ writer = "reset" => chime = Default
        /\ writer = "menu" =>
               /\ back = "exit"
               /\ \A f \in Names :
                      IF typed[f] = "none"
                      THEN stored[f] = ToCharArray(chime[f]) /\ Kept(f)
                      ELSE chime[f] = typed[f]

\* A request: what it has read of the answer is a part of it that has come, and an
\* error says that more has come than the buffer holds.
Request ==
    http.receiving =>
        /\ http.length \in Lengths
        /\ http.sent <= http.length
        /\ End <= http.sent
        /\ http.error => http.sent - http.from > Capacity

IInv == TypeOK /\ Cut /\ Promised /\ Loaded /\ InUse /\ WriteInv /\ Request

-----------------------------------------------------------------------------
(* Data.                                                                    *)

\* A word fits every field, and what a field holds is never too long for it.
LEMMA Texted ==
    /\ Words \subseteq Value /\ Texts \subseteq Value
    /\ \A v \in Words : v \notin Texts /\ v \notin Long /\ ToCharArray(v) = v
    /\ \A v \in Value : ToCharArray(v) \in Value /\ ToCharArray(v) \notin Long
    /\ \A v \in Value : v \notin Long => ToCharArray(v) = v
    /\ \A v \in Value : ToCharArray(v) = "auto" => v = "auto"
    /\ {"auto", "default", "erased", "cut", "torn", "located", "noise", "none"} \subseteq Words
  BY TextsAssumption DEF Words, Value, ToCharArray

LEMMA Positions ==
    /\ Len(Fields) \in Nat
    /\ \A i \in 1 .. Len(Fields) : Fields[i] \in Names
    /\ \A f \in Names : \E i \in 1 .. Len(Fields) : f = Fields[i]
    /\ \A i, j \in 1 .. Len(Fields) : Fields[i] = Fields[j] => i = j
    /\ AutoFields \subseteq Names
  BY FieldsAssumption DEF Names, ToSet, IsInjective

LEMMA Defaults ==
    /\ Default \in [Names -> Value] /\ None \in [Names -> Value]
    /\ \A f \in Names : None[f] = "none" /\ Default[f] \in {"auto", "default"}
    /\ \A f \in AutoFields : Default[f] = "auto"
    /\ \A f \in Names : Default[f] \notin Long /\ ToCharArray(Default[f]) = Default[f]
  BY Texted, Positions DEF Default, None

LEMMA Sizes ==
    /\ Header \in Nat \ {0} /\ Capacity \in Nat \ {0} /\ 0 \in 0 .. Capacity
    /\ Lengths \subseteq Nat /\ \A n \in Lengths : n \in Nat /\ n > Header
  BY HttpAssumption

LEMMA Counted ==
    ASSUME HttpTypeOK
    PROVE  /\ http.sent \in Nat /\ http.from \in Nat /\ http.length \in Nat
           /\ http.read \in 0 .. Capacity /\ http.read \in Nat /\ End \in Nat
           /\ http.length \in Lengths => http.length > Header
           /\ http.receiving \in BOOLEAN /\ http.error \in BOOLEAN
<1>1. /\ http.sent \in Nat /\ http.from \in Nat /\ http.read \in 0 .. Capacity
      /\ http.length \in Lengths \cup {0}
      /\ http.receiving \in BOOLEAN /\ http.error \in BOOLEAN
  BY DEF HttpTypeOK
<1>2. http.length \in Nat /\ (http.length \in Lengths => http.length > Header)
  <2>1. CASE http.length = 0
    BY <2>1, Sizes
  <2>2. CASE http.length \in Lengths
    BY <2>2, Sizes
  <2> QED
    BY <1>1, <2>1, <2>2
<1>3. http.read \in Nat /\ End \in Nat
  BY <1>1, Sizes DEF End
<1> QED
  BY <1>1, <1>2, <1>3

LEMMA HttpTyped ==
    ASSUME HttpTypeOK, http' = HttpIdle, body' \in [text : Bodies \cup {""}, whole : BOOLEAN]
    PROVE  HttpTypeOK' /\ Request'
<1>1. http' \in [receiving : BOOLEAN, answer : Bodies \cup {""}, length : Lengths \cup {0},
                 sent : Nat, from : Nat, read : 0 .. Capacity, error : BOOLEAN]
  BY Sizes DEF HttpIdle
<1>2. http'.receiving = FALSE
  BY DEF HttpIdle
<1> QED
  BY <1>1, <1>2 DEF HttpTypeOK, Request

-----------------------------------------------------------------------------
(* The steps of a request.                                                  *)

LEMMA RequestSentKeeps ==
    ASSUME HttpTypeOK, NEW answer \in Bodies, RequestSent(answer)
    PROVE  HttpTypeOK' /\ Request'
<1>4. PICK length \in Lengths : \E early \in 0 .. length :
          http' = [receiving |-> TRUE, answer |-> answer, length |-> length,
                   sent |-> early, from |-> early, read |-> 0, error |-> FALSE]
  BY DEF RequestSent
<1>1. PICK early \in 0 .. length :
          http' = [receiving |-> TRUE, answer |-> answer, length |-> length,
                   sent |-> early, from |-> early, read |-> 0, error |-> FALSE]
  BY <1>4
<1>2. length \in Nat /\ early \in Nat /\ early <= length
  BY Sizes
<1>3. HttpTypeOK'
  BY <1>1, <1>2, Sizes DEF HttpTypeOK, RequestSent
<1> QED
  BY <1>1, <1>2, <1>3 DEF Request, End

LEMMA ServerSendsKeeps == ASSUME HttpTypeOK, Request, ServerSends PROVE HttpTypeOK' /\ Request'
<1>1. PICK n \in http.sent + 1 .. http.length : http' = [http EXCEPT !.sent = n]
  BY DEF ServerSends
<1>2. http.length \in Nat /\ http.sent \in Nat /\ http.from \in Nat /\ http.read \in Nat
  BY Counted
<1>3. n \in Nat /\ n > http.sent /\ n <= http.length
  BY <1>2
<1>4. HttpTypeOK'
  BY <1>1, <1>3 DEF HttpTypeOK, ServerSends
<1> QED
  <2>1. /\ http'.sent = n /\ http'.from = http.from /\ http'.read = http.read
        /\ http'.length = http.length /\ http'.error = http.error
    BY <1>1 DEF HttpTypeOK
  <2>2. /\ http.length \in Lengths /\ End <= http.sent
        /\ http.error => http.sent - http.from > Capacity
    BY DEF Request, ServerSends
  <2> QED
    BY <1>2, <1>3, <1>4, <2>1, <2>2, Sizes DEF Request, End

LEMMA ReadKeeps == ASSUME HttpTypeOK, Request, Read PROVE HttpTypeOK' /\ Request'
<1> DEFINE room == Capacity - http.read
           some == http.sent - End
           more == IF some > room THEN room ELSE some
<1>1. /\ http.sent \in Nat /\ http.from \in Nat /\ http.read \in 0 .. Capacity
      /\ Capacity \in Nat /\ End = http.from + http.read /\ End < http.sent
  BY Counted, Sizes DEF Read, End
<1>2. /\ http.read + more \in 0 .. Capacity /\ End + more <= http.sent
      /\ (some > room) \in BOOLEAN
      /\ some > room => http.sent - http.from > Capacity
  BY <1>1
<1>3. http' = [http EXCEPT !.read = http.read + more, !.error = some > room]
  BY DEF Read
<1>5. UNCHANGED body /\ http.receiving
  BY DEF Read
<1> HIDE DEF more, some, room
<1>4. HttpTypeOK'
  BY <1>2, <1>3, <1>5 DEF HttpTypeOK
<1>8. /\ http.length \in Lengths /\ http.length \in Nat /\ http.sent <= http.length
  BY <1>5, Sizes DEF Request
<1>6. http'.read = http.read + more /\ http'.error = (some > room)
      /\ http'.sent = http.sent /\ http'.from = http.from /\ http'.length = http.length
  BY <1>3 DEF HttpTypeOK
<1>7. more \in Int
  BY <1>1 DEF more, some, room
<1>9. http'.sent <= http'.length /\ http'.from + http'.read <= http'.sent
  BY <1>1, <1>2, <1>6, <1>7, <1>8
<1> QED
  BY <1>2, <1>4, <1>6, <1>8, <1>9 DEF Request, End

LEMMA RequestEndsKeeps == ASSUME HttpTypeOK, RequestEnds PROVE HttpTypeOK' /\ Request'
<1>1. body' \in [text : Bodies \cup {""}, whole : BOOLEAN]
  BY DEF HttpTypeOK, RequestEnds, Parse
<1> QED
  BY <1>1, HttpTyped DEF RequestEnds

-----------------------------------------------------------------------------
(* The program's steps.                                                     *)

LEMMA StartKeeps == ASSUME IInv, Start PROVE IInv'
<1> USE DEF IInv, Start
<1>1. HttpTypeOK' /\ Request'
  BY HttpTyped DEF TypeOK, HttpTypeOK, Request, End, NoBody
<1>2. TypeOK'
  BY <1>1, Texted, Positions, Defaults DEF TypeOK
<1>3. Cut'
  BY Texted, Positions, Defaults DEF Cut, TypeOK
<1>4. Promised'
  BY Texted, Positions, Defaults DEF Promised, Kept, TypeOK, WriteInv, Loaded
<1>5. Loaded'
  BY Texted, Positions, Defaults DEF Loaded, Starting, TypeOK, InUse, WriteInv, Faithful
<1>6. InUse'
  BY Texted, Positions, Defaults DEF InUse, Faithful, TypeOK, Loaded, Starting, WriteInv
<1>7. WriteInv'
  BY Texted, Positions, Defaults DEF WriteInv, Kept, TypeOK, Promised, InUse, Faithful, Loaded, Cut
<1> QED
  BY <1>1, <1>2, <1>3, <1>4, <1>5, <1>6, <1>7

LEMMA GetIPKeeps == ASSUME IInv, GetIP PROVE IInv'
<1> USE DEF IInv, GetIP, local
<1>1. HttpTypeOK' /\ Request'
  BY RequestSentKeeps, BodiesAssumption DEF TypeOK, HttpTypeOK, Request, End, NotConnected, httpVars
<1>2. TypeOK'
  BY <1>1, Texted, Positions, Defaults DEF TypeOK
<1>3. Cut'
  BY Texted, Positions, Defaults DEF Cut, TypeOK
<1>4. Promised'
  BY Texted, Positions, Defaults DEF Promised, Kept, TypeOK, WriteInv, Loaded
<1>5. Loaded'
  BY Texted, Positions, Defaults DEF Loaded, Starting, TypeOK, InUse, WriteInv, Faithful
<1>6. InUse'
  BY Texted, Positions, Defaults DEF InUse, Faithful, TypeOK, Loaded, Starting, WriteInv
<1>7. WriteInv'
  BY Texted, Positions, Defaults DEF WriteInv, Kept, TypeOK, Promised, InUse, Faithful, Loaded, Cut
<1> QED
  BY <1>1, <1>2, <1>3, <1>4, <1>5, <1>6, <1>7

LEMMA GetGeoDataKeeps == ASSUME IInv, GetGeoData PROVE IInv'
<1> USE DEF IInv, GetGeoData, local
<1>1. HttpTypeOK' /\ Request'
  BY RequestSentKeeps, BodiesAssumption DEF TypeOK, HttpTypeOK, Request, End, NotConnected, httpVars
<1>2. TypeOK'
  BY <1>1, Texted, Positions, Defaults DEF TypeOK
<1>3. Cut'
  BY Texted, Positions, Defaults DEF Cut, TypeOK
<1>4. Promised'
  BY Texted, Positions, Defaults DEF Promised, Kept, TypeOK, WriteInv, Loaded
<1>5. Loaded'
  BY Texted, Positions, Defaults DEF Loaded, Starting, TypeOK, InUse, WriteInv, Faithful
<1>6. InUse'
  BY Texted, Positions, Defaults DEF InUse, Faithful, TypeOK, Loaded, Starting, WriteInv
<1>7. WriteInv'
  BY Texted, Positions, Defaults DEF WriteInv, Kept, TypeOK, Promised, InUse, Faithful, Loaded, Cut
<1> QED
  BY <1>1, <1>2, <1>3, <1>4, <1>5, <1>6, <1>7

LEMMA ReceiveKeeps == ASSUME IInv, Receive PROVE IInv'
<1> USE DEF IInv, Receive, local, Asking
<1>1. HttpTypeOK' /\ Request'
  BY ReadKeeps DEF TypeOK
<1>2. TypeOK'
  BY <1>1, Texted, Positions, Defaults DEF TypeOK
<1>3. Cut'
  BY Texted, Positions, Defaults DEF Cut, TypeOK
<1>4. Promised'
  BY Texted, Positions, Defaults DEF Promised, Kept, TypeOK, WriteInv, Loaded
<1>5. Loaded'
  BY Texted, Positions, Defaults DEF Loaded, Starting, TypeOK, InUse, WriteInv, Faithful
<1>6. InUse'
  BY Texted, Positions, Defaults DEF InUse, Faithful, TypeOK, Loaded, Starting, WriteInv
<1>7. WriteInv'
  BY Texted, Positions, Defaults DEF WriteInv, Kept, TypeOK, Promised, InUse, Faithful, Loaded, Cut
<1> QED
  BY <1>1, <1>2, <1>3, <1>4, <1>5, <1>6, <1>7

LEMMA ReceivedKeeps == ASSUME IInv, Received PROVE IInv'
<1> USE DEF IInv, Received, local, Asking
<1>1. HttpTypeOK' /\ Request'
  BY RequestEndsKeeps DEF TypeOK
<1>2. TypeOK'
  BY <1>1, Texted, Positions, Defaults DEF TypeOK
<1>3. Cut'
  BY Texted, Positions, Defaults DEF Cut, TypeOK
<1>4. Promised'
  BY Texted, Positions, Defaults DEF Promised, Kept, TypeOK, WriteInv, Loaded
<1>5. Loaded'
  BY Texted, Positions, Defaults DEF Loaded, Starting, TypeOK, InUse, WriteInv, Faithful
<1>6. InUse'
  BY Texted, Positions, Defaults DEF InUse, Faithful, TypeOK, Loaded, Starting, WriteInv
<1>7. WriteInv'
  BY Texted, Positions, Defaults DEF WriteInv, Kept, TypeOK, Promised, InUse, Faithful, Loaded, Cut
<1> QED
  BY <1>1, <1>2, <1>3, <1>4, <1>5, <1>6, <1>7

LEMMA ServerKeeps == ASSUME IInv, Server PROVE IInv'
<1> USE DEF IInv, Server, local
<1>1. HttpTypeOK' /\ Request'
  BY ServerSendsKeeps DEF TypeOK
<1>2. TypeOK'
  BY <1>1, Texted, Positions, Defaults DEF TypeOK
<1>3. Cut'
  BY Texted, Positions, Defaults DEF Cut, TypeOK
<1>4. Promised'
  BY Texted, Positions, Defaults DEF Promised, Kept, TypeOK, WriteInv, Loaded
<1>5. Loaded'
  BY Texted, Positions, Defaults DEF Loaded, Starting, TypeOK, InUse, WriteInv, Faithful
<1>6. InUse'
  BY Texted, Positions, Defaults DEF InUse, Faithful, TypeOK, Loaded, Starting, WriteInv
<1>7. WriteInv'
  BY Texted, Positions, Defaults DEF WriteInv, Kept, TypeOK, Promised, InUse, Faithful, Loaded, Cut
<1> QED
  BY <1>1, <1>2, <1>3, <1>4, <1>5, <1>6, <1>7

LEMMA LocateKeeps == ASSUME IInv, Locate PROVE IInv'
<1> USE DEF IInv, Locate, Located, Missed
<1>1. HttpTypeOK' /\ Request'
  BY DEF TypeOK, HttpTypeOK, Request, End
<1>2. TypeOK'
  BY <1>1, Texted, Positions, Defaults DEF TypeOK
<1>3. Cut'
  BY Texted, Positions, Defaults DEF Cut, TypeOK
<1>4. Promised'
  BY Texted, Positions, Defaults DEF Promised, Kept, TypeOK, WriteInv, Loaded
<1>5. Loaded'
  BY Texted, Positions, Defaults DEF Loaded, Starting, TypeOK, InUse, WriteInv, Faithful
<1>6. InUse'
  <2>1. typed = None /\ (\A f \in AutoFields : ~autoSet[f]) /\ chime = stored
    BY DEF Loaded, Starting
  <2>2. \A f \in Names : typed'[f] = "none" /\ stored'[f] = stored[f] /\ stored[f] \in Value
    BY <2>1, Defaults DEF TypeOK
  <2>3. \A f \in AutoFields : autoSet'[f] = (stored[f] = "auto")
    BY <2>1
  <2>4. \A f \in Names : ~(f \in AutoFields /\ stored[f] = "auto") => chime'[f] = stored[f]
    BY <2>1
  <2>5. \A f \in Names : Faithful(f)'
    BY <2>2, <2>3, <2>4 DEF Faithful
  <2> QED
    BY <2>2, <2>5 DEF InUse
<1>7. WriteInv'
  BY Texted, Positions, Defaults DEF WriteInv, Kept, TypeOK, Promised, InUse, Faithful, Loaded, Cut
<1> QED
  BY <1>1, <1>2, <1>3, <1>4, <1>5, <1>6, <1>7

LEMMA SaveKeeps == ASSUME IInv, Save PROVE IInv'
<1> USE DEF IInv, Save
<1>1. HttpTypeOK' /\ Request'
  BY DEF TypeOK, HttpTypeOK, Request, End
<1>2. TypeOK'
  <2>1. chime' \in [Names -> Value]
    BY Texted, Positions DEF TypeOK
  <2>2. field' \in 1 .. Len(Fields) + 1
    BY Positions
  <2> QED
    BY <1>1, <2>1, <2>2 DEF TypeOK
<1>3. Cut'
  BY Texted, Positions, Defaults DEF Cut, TypeOK
<1>4. Promised'
  BY Texted, Positions, Defaults DEF Promised, Kept, TypeOK, WriteInv, Loaded
<1>5. Loaded'
  BY Texted, Positions, Defaults DEF Loaded, Starting, TypeOK, InUse, WriteInv, Faithful
<1>6. InUse'
  BY Texted, Positions, Defaults DEF InUse, Faithful, TypeOK, Loaded, Starting, WriteInv
<1>7. WriteInv'
  BY Texted, Positions, Defaults DEF WriteInv, Kept, TypeOK, Promised, InUse, Faithful, Loaded, Cut
<1> QED
  BY <1>1, <1>2, <1>3, <1>4, <1>5, <1>6, <1>7

LEMMA LeaveKeeps == ASSUME IInv, Leave PROVE IInv'
<1> USE DEF IInv, Leave
<1>1. HttpTypeOK' /\ Request'
  BY DEF TypeOK, HttpTypeOK, Request, End
<1>2. TypeOK'
  BY <1>1, Texted, Positions, Defaults DEF TypeOK
<1>3. Cut'
  BY Texted, Positions, Defaults DEF Cut, TypeOK
<1>4. Promised'
  BY Texted, Positions, Defaults DEF Promised, Kept, TypeOK, WriteInv, Loaded
<1>5. Loaded'
  BY Texted, Positions, Defaults DEF Loaded, Starting, TypeOK, InUse, WriteInv, Faithful
<1>6. InUse'
  BY Texted, Positions, Defaults DEF InUse, Faithful, TypeOK, Loaded, Starting, WriteInv
<1>7. WriteInv'
  BY Texted, Positions, Defaults DEF WriteInv, Kept, TypeOK, Promised, InUse, Faithful, Loaded, Cut
<1> QED
  BY <1>1, <1>2, <1>3, <1>4, <1>5, <1>6, <1>7

LEMMA ResetSensorKeeps == ASSUME IInv, ResetSensor PROVE IInv'
<1> USE DEF IInv, ResetSensor, CloudServed
<1>1. HttpTypeOK' /\ Request'
  BY DEF TypeOK, HttpTypeOK, Request, End
<1>2. TypeOK'
  BY <1>1, Texted, Positions, Defaults DEF TypeOK
<1>3. Cut'
  BY Texted, Positions, Defaults DEF Cut, TypeOK
<1>4. Promised'
  BY Texted, Positions, Defaults DEF Promised, Kept, TypeOK, WriteInv, Loaded
<1>5. Loaded'
  BY Texted, Positions, Defaults DEF Loaded, Starting, TypeOK, InUse, WriteInv, Faithful
<1>6. InUse'
  BY Texted, Positions, Defaults DEF InUse, Faithful, TypeOK, Loaded, Starting, WriteInv
<1>7. WriteInv'
  BY Texted, Positions, Defaults DEF WriteInv, Kept, TypeOK, Promised, InUse, Faithful, Loaded, Cut
<1> QED
  BY <1>1, <1>2, <1>3, <1>4, <1>5, <1>6, <1>7

LEMMA RebootSensorKeeps == ASSUME IInv, RebootSensor PROVE IInv'
<1> USE DEF IInv, RebootSensor, CloudServed
<1>1. HttpTypeOK' /\ Request'
  BY HttpTyped DEF TypeOK, HttpTypeOK
<1>2. TypeOK'
  BY <1>1, Texted, Positions, Defaults DEF TypeOK
<1>3. Cut'
  BY Texted, Positions, Defaults DEF Cut, TypeOK
<1>4. Promised'
  BY Texted, Positions, Defaults DEF Promised, Kept, TypeOK, WriteInv, Loaded
<1>5. Loaded'
  BY Texted, Positions, Defaults DEF Loaded, Starting, TypeOK, InUse, WriteInv, Faithful
<1>6. InUse'
  BY Texted, Positions, Defaults DEF InUse, Faithful, TypeOK, Loaded, Starting, WriteInv
<1>7. WriteInv'
  BY Texted, Positions, Defaults DEF WriteInv, Kept, TypeOK, Promised, InUse, Faithful, Loaded, Cut
<1> QED
  BY <1>1, <1>2, <1>3, <1>4, <1>5, <1>6, <1>7

LEMMA WriteFieldKeeps == ASSUME IInv, WriteField PROVE IInv'
<1> USE DEF IInv, WriteField, Writing
<1>1. HttpTypeOK' /\ Request'
  BY DEF TypeOK, HttpTypeOK, Request, End
<1>2. TypeOK'
  BY <1>1, Texted, Positions, Defaults DEF TypeOK
<1>3. Cut'
  BY Texted, Positions, Defaults DEF Cut, TypeOK
<1>4. Promised'
  BY Texted, Positions, Defaults DEF Promised, Kept, TypeOK, WriteInv, Loaded
<1>5. Loaded'
  BY Texted, Positions, Defaults DEF Loaded, Starting, TypeOK, InUse, WriteInv, Faithful
<1>6. InUse'
  BY Texted, Positions, Defaults DEF InUse, Faithful, TypeOK, Loaded, Starting, WriteInv
<1>7. WriteInv'
  BY Texted, Positions, Defaults DEF WriteInv, Kept, TypeOK, Promised, InUse, Faithful, Loaded, Cut
<1> QED
  BY <1>1, <1>2, <1>3, <1>4, <1>5, <1>6, <1>7

LEMMA WriteDoneKeeps == ASSUME IInv, WriteDone PROVE IInv'
<1> USE DEF IInv, WriteDone
<1>1. HttpTypeOK' /\ Request'
  BY DEF TypeOK, HttpTypeOK, Request, End
<1>2. TypeOK'
  BY <1>1, Texted, Positions, Defaults DEF TypeOK
<1>3. Cut'
  BY Texted, Positions, Defaults DEF Cut, TypeOK
<1>4. Promised'
  BY Texted, Positions, Defaults DEF Promised, Kept, TypeOK, WriteInv, Loaded
<1>5. Loaded'
  BY Texted, Positions, Defaults DEF Loaded, Starting, TypeOK, InUse, WriteInv, Faithful
<1>6. InUse'
  BY Texted, Positions, Defaults DEF InUse, Faithful, TypeOK, Loaded, Starting, WriteInv
<1>7. WriteInv'
  BY Texted, Positions, Defaults DEF WriteInv, Kept, TypeOK, Promised, InUse, Faithful, Loaded, Cut
<1> QED
  BY <1>1, <1>2, <1>3, <1>4, <1>5, <1>6, <1>7

LEMMA RestartKeeps == ASSUME IInv, Restart PROVE IInv'
<1> USE DEF IInv, Restart
<1>1. HttpTypeOK' /\ Request'
  BY DEF TypeOK, HttpTypeOK, Request, End
<1>2. TypeOK'
  BY <1>1, Texted, Positions, Defaults DEF TypeOK
<1>3. Cut'
  BY Texted, Positions, Defaults DEF Cut, TypeOK
<1>4. Promised'
  BY Texted, Positions, Defaults DEF Promised, Kept, TypeOK, WriteInv, Loaded
<1>5. Loaded'
  BY Texted, Positions, Defaults DEF Loaded, Starting, TypeOK, InUse, WriteInv, Faithful
<1>6. InUse'
  BY Texted, Positions, Defaults DEF InUse, Faithful, TypeOK, Loaded, Starting, WriteInv
<1>7. WriteInv'
  BY Texted, Positions, Defaults DEF WriteInv, Kept, TypeOK, Promised, InUse, Faithful, Loaded, Cut
<1> QED
  BY <1>1, <1>2, <1>3, <1>4, <1>5, <1>6, <1>7

LEMMA PowerLossKeeps == ASSUME IInv, PowerLoss PROVE IInv'
<1> USE DEF IInv, PowerLoss, InDoubt, Writing
<1>1. HttpTypeOK' /\ Request'
  BY HttpTyped DEF TypeOK, HttpTypeOK
<1>2. TypeOK'
  <2>1. "torn" \in Value /\ "none" \in Value
    BY Texted
  <2>2. stored' \in [Names -> Value]
    BY <2>1, Positions DEF TypeOK
  <2>3. promised' \in [Names -> Value]
    BY <2>1 DEF TypeOK
  <2> QED
    BY <1>1, <2>2, <2>3 DEF TypeOK
<1>3. Cut'
  <2>1. "torn" \notin Long /\ stored \in [Names -> Value] /\ \A f \in Names : stored[f] \notin Long
    BY Texted DEF Cut, TypeOK
  <2>2. CASE UNCHANGED stored
    BY <2>1, <2>2 DEF Cut
  <2>3. CASE stored' = [stored EXCEPT ![Writing] = "torn"]
    <3>1. \A f \in Names : stored'[f] = stored[f] \/ stored'[f] = "torn"
      BY <2>1, <2>3
    <3> QED
      BY <2>1, <3>1 DEF Cut
  <2> QED
    BY <2>2, <2>3
<1>4. Promised'
  BY Texted, Positions, Defaults DEF Promised, Kept, TypeOK, WriteInv, Loaded
<1>5. Loaded'
  BY Texted, Positions, Defaults DEF Loaded, Starting, TypeOK, InUse, WriteInv, Faithful
<1>6. InUse'
  BY Texted, Positions, Defaults DEF InUse, Faithful, TypeOK, Loaded, Starting, WriteInv
<1>7. WriteInv'
  BY Texted, Positions, Defaults DEF WriteInv, Kept, TypeOK, Promised, InUse, Faithful, Loaded, Cut
<1> QED
  BY <1>1, <1>2, <1>3, <1>4, <1>5, <1>6, <1>7

LEMMA ChangeKeeps == ASSUME IInv, NEW f \in Names, NEW text \in Texts \cup {"auto"}, Change(f, text) PROVE IInv'
<1> USE DEF IInv, Change
<1>1. HttpTypeOK' /\ Request'
  BY DEF TypeOK, HttpTypeOK, Request, End
<1>2. TypeOK'
  BY <1>1, Texted, Positions, Defaults DEF TypeOK
<1>3. Cut'
  BY Texted, Positions, Defaults DEF Cut, TypeOK
<1>4. Promised'
  BY Texted, Positions, Defaults DEF Promised, Kept, TypeOK, WriteInv, Loaded
<1>5. Loaded'
  BY Texted, Positions, Defaults DEF Loaded, Starting, TypeOK, InUse, WriteInv, Faithful
<1>6. InUse'
  BY ZenonT(40), Texted, Positions, Defaults DEF InUse, Faithful, TypeOK, Loaded, Starting, WriteInv
<1>7. WriteInv'
  BY Texted, Positions, Defaults DEF WriteInv, Kept, TypeOK, Promised, InUse, Faithful, Loaded, Cut
<1> QED
  BY <1>1, <1>2, <1>3, <1>4, <1>5, <1>6, <1>7

-----------------------------------------------------------------------------
LEMMA InitKeeps == Init => IInv
<1> SUFFICES ASSUME Init PROVE IInv
  OBVIOUS
<1> USE DEF Init
<1>1. HttpTypeOK /\ Request
  BY Sizes DEF HttpTypeOK, HttpIdle, NoBody, Request
<1>2. TypeOK
  <2>1. stored \in [Names -> Value]
    BY Texted, Defaults
  <2>2. field \in 1 .. Len(Fields) + 1
    BY Positions
  <2> QED
    BY <1>1, <2>1, <2>2, Defaults DEF TypeOK
<1>3. Cut /\ Promised
  BY Texted, Positions, Defaults DEF Cut, Promised, Kept
<1>4. Loaded /\ InUse /\ WriteInv
  BY DEF Loaded, InUse, WriteInv, Starting
<1> QED
  BY <1>1, <1>2, <1>3, <1>4 DEF IInv

LEMMA Step == IInv /\ [Next]_vars => IInv'
<1> SUFFICES ASSUME IInv, [Next]_vars PROVE IInv'
  OBVIOUS
<1>1. CASE UNCHANGED vars
  <2>4. HttpTypeOK' /\ Request'
    BY <1>1 DEF vars, IInv, TypeOK, HttpTypeOK, Request, End
  <2>1. TypeOK'
    BY <1>1, <2>4 DEF vars, IInv, TypeOK
  <2>2. Cut' /\ Promised' /\ Loaded'
    BY <1>1 DEF vars, IInv, Cut, Promised, Kept, Loaded
  <2>3. InUse' /\ WriteInv'
    BY <1>1 DEF vars, IInv, InUse, Faithful, WriteInv, Kept
  <2> QED
    BY <2>1, <2>2, <2>3, <2>4 DEF IInv
<1>2. CASE Next
  BY <1>2, StartKeeps, GetIPKeeps, GetGeoDataKeeps, ReceiveKeeps, ReceivedKeeps, ServerKeeps,
     LocateKeeps, ChangeKeeps, SaveKeeps, LeaveKeeps, ResetSensorKeeps, RebootSensorKeeps,
     WriteFieldKeeps, WriteDoneKeeps, RestartKeeps, PowerLossKeeps DEF Next
<1> QED
  BY <1>1, <1>2

LEMMA Always == Spec => []IInv
  BY InitKeeps, Step, PTL DEF Spec

\* The copies in RAM and in the EEPROM, the flags of the menu and the request have
\* their types, for every number of fields and every size of an answer.
THEOREM TypeCorrect == Spec => []TypeOK
<1>1. IInv => TypeOK
  BY DEF IInv
<1> QED
  BY <1>1, Always, PTL

\* The sensor works with what was saved last, after however many restarts, resets,
\* requests that failed and power cuts.
THEOREM SavedIsAlwaysRestored == Spec => []SavedIsRestored
<1>1. IInv => SavedIsRestored
  <2> SUFFICES ASSUME IInv, pc \in {"menu", "loop"}, NEW f \in Names,
                      promised[f] # "none", typed[f] = "none"
               PROVE  \/ chime[f] = ToCharArray(promised[f])
                      \/ f \in AutoFields /\ promised[f] = "auto" /\ autoSet[f]
    BY DEF SavedIsRestored
  <2>1. stored[f] = ToCharArray(promised[f]) /\ promised[f] \in Value
    BY DEF IInv, Promised, Kept, TypeOK
  <2>2. Faithful(f)
    BY DEF IInv, InUse
  <2> QED
    BY <2>1, <2>2, Texted DEF Faithful
<1> QED
  BY <1>1, Always, PTL

\* Neither a write of the menu nor a power cut in it changes a field that the user
\* left alone.
THEOREM OnlyTheUserEverChanges == Spec => OnlyTheUserChanges
<1>1. IInv /\ [Next]_vars =>
          [\A f \in Names : stored'[f] # stored[f] => writer = "reset" \/ typed[f] # "none"]_vars
  <2> SUFFICES ASSUME IInv, Next, NEW f \in Names, stored'[f] # stored[f],
                      writer # "reset", typed[f] = "none"
               PROVE  FALSE
    OBVIOUS
  <2>1. writer = "menu" /\ stored \in [Names -> Value] /\ chime \in [Names -> Value]
    BY DEF IInv, TypeOK
  <2>2. pc = "write" => stored[f] = ToCharArray(chime[f])
    BY <2>1 DEF IInv, WriteInv
  <2>3. field <= Len(Fields) => Writing \in Names
    <3>1. field \in 1 .. Len(Fields) + 1
      BY DEF IInv, TypeOK
    <3> QED
      BY <3>1, Positions DEF Writing
  <2>4. CASE WriteField
    BY <2>1, <2>2, <2>3, <2>4 DEF WriteField
  <2>5. CASE PowerLoss
    BY <2>1, <2>2, <2>3, <2>5 DEF PowerLoss
  <2>6. CASE ~WriteField /\ ~PowerLoss
    BY <2>6 DEF Next, Start, GetIP, GetGeoData, Receive, Received, Server, Locate, Change, Save,
                Leave, ResetSensor, RebootSensor, WriteDone, Restart, local
  <2> QED
    BY <2>4, <2>5, <2>6
<1> QED
  BY <1>1, Always, PTL DEF Spec, OnlyTheUserChanges

\* An answer that comes in full and fits the buffer is what setup() works with, for
\* every size of the header, of the answer and of the buffer.
THEOREM AnswerIsAlwaysWhole == Spec => AnswerIsWhole
<1>1. IInv /\ [Next]_vars =>
          [Asking /\ pc' \in {"gotIP", "gotGeoData"}
           /\ http.sent = http.length /\ http.from < Header
           /\ http.length - http.from <= Capacity
                => body' = [text |-> http.answer, whole |-> TRUE]]_vars
  <2> SUFFICES ASSUME IInv, Next, Asking, pc' \in {"gotIP", "gotGeoData"},
                      http.sent = http.length, http.from < Header,
                      http.length - http.from <= Capacity
               PROVE  body' = [text |-> http.answer, whole |-> TRUE]
    OBVIOUS
  <2>1. Received
    BY DEF Next, Start, GetIP, GetGeoData, Receive, Server, Locate, Change, Save, Leave, local,
           ResetSensor, RebootSensor, WriteField, WriteDone, Restart, PowerLoss, Asking
  <2>2. http.length \in Lengths /\ End \in Int /\ (http.error => http.sent - http.from > Capacity)
    BY <2>1, Counted DEF IInv, Request, Received, RequestEnds, TypeOK
  <2>3. ~http.error /\ End = http.length /\ End > Header
    BY <2>1, <2>2, Counted, Sizes DEF Received, RequestEnds, IInv, TypeOK
  <2>4. End >= Header /\ End # Header
    BY <2>2, <2>3, Sizes
  <2> QED
    BY <2>1, <2>3, <2>4 DEF Received, RequestEnds, Parse
<1> QED
  BY <1>1, Always, PTL DEF Spec, AnswerIsWhole

=============================================================================

