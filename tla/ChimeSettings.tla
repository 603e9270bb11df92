---------------------------- MODULE ChimeSettings ----------------------------
(***************************************************************************)
(* The settings of a netChimes sensor, from the EEPROM through setup(), the *)
(* serial menu and the cloud function "reset", back to the EEPROM          *)
(* (netChimes2.cpp, with EEPROM.get and EEPROM.put of the firmware), and    *)
(* the two requests of setup() that locate the sensor (HttpClient).        *)
(*                                                                         *)
(* City, latitude and longitude may hold the word "auto": setup() then     *)
(* replaces it in RAM by what the geolocation service says, and the menu   *)
(* must put the word back before it saves.  The cloud is served whenever   *)
(* the program delays, and the power may go at any time.                   *)
(***************************************************************************)
EXTENDS HttpClient, Sequences, SequencesExt

CONSTANTS Fields,       \* the fields of UserData, in the order they are stored
          AutoFields,   \* those that may be "auto": city, latitude, longitude
          Texts,        \* what a user types
          Long          \* the texts within a prompt's limit, beyond the field's

\* What a field may hold that no user has typed: the word "auto", which he may,
\* but which is shorter than every field, and what else the program puts there.
Words == {
    "auto",     \* the word
    "default",  \* the text resetSensor puts where "auto" has no place
    "erased",   \* bytes 0xFF
    "cut",      \* the first characters of a long text
    "torn",     \* part of one value, part of another
    "located",  \* taken from the answer of the geolocation service
    "noise",    \* cut from an answer that has no such entry
    "none" }

Value == Texts \cup Words

ASSUME FieldsAssumption ==
    /\ Fields \in Seq(ToSet(Fields)) /\ IsInjective(Fields)
    /\ AutoFields \subseteq ToSet(Fields)
ASSUME TextsAssumption  == Long \subseteq Texts /\ Texts \cap Words = {}
ASSUME BodiesAssumption == {"ip", "location", "refusal"} \subseteq Bodies

Names == ToSet(Fields)

VARIABLES stored,   \* the copy of each field in the EEPROM
          chime,    \* chimeKeeper, chimeCity, chimeLat, ...
          autoSet,  \* cityAutoSet, latAutoSet, lonAutoSet
          menu,     \* userInputFlag
          pc,       \* where the program is
          writer,   \* who called writeUserData, or called it last
          back,     \* where the program goes on after it
          field,    \* position of the field EEPROM.put writes next
          typed,    \* history: what the user typed since the program started
          promised  \* history: what the user or the cloud was told is saved

vars == <<stored, chime, autoSet, menu, http, body, pc, writer, back, field, typed, promised>>

TypeOK ==
    /\ stored \in [Names -> Value] /\ chime \in [Names -> Value]
    /\ autoSet \in [AutoFields -> BOOLEAN]
    /\ menu \in BOOLEAN
    /\ HttpTypeOK
    /\ pc \in {"off", "setup", "askingIP", "gotIP", "askingGeoData", "gotGeoData",
               "menu", "loop", "exit", "write"}
    /\ writer \in {"menu", "reset"}
    /\ back \in {"setup", "askingIP", "gotIP", "askingGeoData", "gotGeoData",
                 "loop", "exit"}
    /\ field \in 1 .. Len(Fields) + 1
    /\ typed \in [Names -> Value] /\ promised \in [Names -> Value]

None == [f \in Names |-> "none"]

\* What resetSensor assigns.
Default == [f \in Names |-> IF f \in AutoFields THEN "auto" ELSE "default"]

Init ==
    /\ stored \in {[f \in Names |-> "erased"], Default}
    /\ chime = Default
    /\ autoSet = [f \in AutoFields |-> FALSE]
    /\ menu = FALSE
    /\ http = HttpIdle /\ body = NoBody
    /\ pc = "off"
    /\ writer = "menu"
    /\ back = "exit"
    /\ field = 1
    /\ typed = None
    /\ promised = None

-----------------------------------------------------------------------------
(* setup().                                                                 *)

\* EEPROM.get replaces the initial values of userData, whatever it reads; the
\* third hall sensor chooses the menu.
Start ==
    /\ pc = "off"
    /\ chime' = stored
    /\ autoSet' = [f \in AutoFields |-> FALSE]
    /\ menu' \in BOOLEAN
    /\ body' = NoBody
    /\ typed' = None
    /\ pc' = "setup"
    /\ UNCHANGED <<stored, http, writer, back, field, promised>>

local == <<stored, chime, autoSet, menu, writer, back, field, typed, promised>>

\* getIP
GetIP ==
    /\ pc = "setup"
    /\ \/ RequestSent("ip") /\ pc' = "askingIP"
       \/ NotConnected /\ pc' = "gotIP"
    /\ UNCHANGED local

\* getGeoData asks where "the IP address" is, which may be any text or none.
GetGeoData ==
    /\ pc = "gotIP"
    /\ \/ /\ RequestSent("location") \/ (body # [text |-> "ip", whole |-> TRUE]
                                          /\ RequestSent("refusal"))
          /\ pc' = "askingGeoData"
       \/ NotConnected /\ pc' = "gotGeoData"
    /\ UNCHANGED local

Asking == pc \in {"askingIP", "askingGeoData"}

Receive == Asking /\ Read /\ UNCHANGED <<local, pc>>

Received ==
    /\ Asking /\ RequestEnds
    /\ pc' = IF pc = "askingIP" THEN "gotIP" ELSE "gotGeoData"
    /\ UNCHANGED local

Server == ServerSends /\ UNCHANGED <<local, pc>>

\* getLat, getLon and getCity cut between two keys, found or not: the fields
\* that get something else than their part of a location.
Missed ==
    IF body.text # "location" THEN {AutoFields}
    ELSE IF body.whole THEN {{}} ELSE SUBSET AutoFields

Located(missed) ==
    [f \in Names |->
        IF f \in AutoFields /\ chime[f] = "auto"
        THEN IF f \in missed THEN "noise" ELSE "located"
        ELSE chime[f]]

\* Mutant: setup does not note that it has replaced the word.
LocateUnnoted ==
    /\ pc = "gotGeoData"
    /\ \E missed \in Missed : chime' = Located(missed)
    /\ pc' = IF menu THEN "menu" ELSE "loop"
    /\ UNCHANGED <<stored, autoSet, menu, http, body, writer, back, field, typed, promised>>

\* The end of setup(), after delay(5000).
Locate ==
    /\ pc = "gotGeoData"
    /\ \E missed \in Missed : chime' = Located(missed)
    /\ autoSet' = [f \in AutoFields |-> autoSet[f] \/ chime[f] = "auto"]
    /\ pc' = IF menu THEN "menu" ELSE "loop"
    /\ UNCHANGED <<stored, menu, http, body, writer, back, field, typed, promised>>

-----------------------------------------------------------------------------
(* The menu in loop().                                                      *)

\* Mutant: a typed position is still taken for an automatic one.
ChangeKeepingAuto(f, text) ==
    /\ pc = "menu"
    /\ chime' = [chime EXCEPT ![f] = text]
    /\ typed' = [typed EXCEPT ![f] = text]
    /\ UNCHANGED <<stored, autoSet, menu, http, body, pc, writer, back, field, promised>>

\* Choices 1 to 6: changeKeeper, changeCity, changeLat, ...
Change(f, text) ==
    /\ pc = "menu"
    /\ chime' = [chime EXCEPT ![f] = text]
    /\ autoSet' = [g \in AutoFields |-> g # f /\ autoSet[g]]
    /\ typed' = [typed EXCEPT ![f] = text]
    /\ UNCHANGED <<stored, menu, http, body, pc, writer, back, field, promised>>

\* Choice 7: don't write the value pulled from auto, write the state "auto".
Save ==
    /\ pc = "menu"
    /\ chime' = [f \in Names |->
                    IF f \in AutoFields /\ autoSet[f] THEN "auto" ELSE chime[f]]
    /\ menu' = FALSE
    /\ pc' = "write" /\ writer' = "menu" /\ back' = "exit" /\ field' = 1
    /\ UNCHANGED <<stored, autoSet, http, body, typed, promised>>

\* Choice 8.
Leave ==
    /\ pc = "menu"
    /\ menu' = FALSE
    /\ pc' = "exit"
    /\ UNCHANGED <<stored, chime, autoSet, http, body, writer, back, field, typed, promised>>

-----------------------------------------------------------------------------
(* The cloud functions: called by the system where the program delays, in   *)
(* the requests and delays of setup(), between and after strikes, and       *)
(* before the restart that ends the menu; not while the menu waits.         *)

\* Mutant: Particle.process() in the menu's loop.
CloudServedInMenu == pc \notin {"off", "write"}

CloudServed == pc \notin {"off", "write", "menu"}

\* resetSensor("reset"); its System.reset() comes after the return.
ResetSensor ==
    /\ CloudServed
    /\ chime' = Default
    /\ pc' = "write" /\ writer' = "reset" /\ back' = pc /\ field' = 1
    /\ UNCHANGED <<stored, autoSet, menu, http, body, typed, promised>>

\* rebootSensor("reboot").
RebootSensor ==
    /\ CloudServed
    /\ pc' = "off" /\ http' = HttpIdle
    /\ UNCHANGED <<stored, chime, autoSet, menu, body, writer, back, field, typed, promised>>

-----------------------------------------------------------------------------
(* writeUserData.                                                           *)

\* toCharArray into a field of fixed length, less than the prompts allow.
ToCharArray(v) == IF v \in Long THEN "cut" ELSE v

Writing == Fields[field]

WriteField ==
    /\ pc = "write" /\ field <= Len(Fields)
    /\ stored' = [stored EXCEPT ![Writing] = ToCharArray(chime[Writing])]
    /\ field' = field + 1
    /\ UNCHANGED <<chime, autoSet, menu, http, body, pc, writer, back, typed, promised>>

\* What a caller may count on when the write has returned.
WriteDone ==
    /\ pc = "write" /\ field > Len(Fields)
    /\ pc' = back
    /\ promised' = IF writer = "reset" THEN Default
                   ELSE [f \in Names |->
                            IF typed[f] = "none" THEN promised[f] ELSE typed[f]]
    /\ UNCHANGED <<stored, chime, autoSet, menu, http, body, writer, back, field, typed>>

\* System.reset() at the end of the menu.
Restart ==
    /\ pc = "exit"
    /\ pc' = "off"
    /\ UNCHANGED <<stored, chime, autoSet, menu, http, body, writer, back, field, typed, promised>>

\* Fields the running write is about to change.
InDoubt == IF writer = "reset" THEN Names ELSE {f \in Names : typed[f] # "none"}

\* A byte that is the same is not written, so that only a field that changes
\* can be torn.
PowerLoss ==
    /\ pc # "off"
    /\ pc' = "off" /\ http' = HttpIdle
    /\ IF pc = "write"
       THEN /\ promised' = [f \in Names |-> IF f \in InDoubt THEN "none" ELSE promised[f]]
            /\ \/ UNCHANGED stored
               \/ /\ field <= Len(Fields)
                  /\ stored[Writing] # ToCharArray(chime[Writing])
                  /\ stored' = [stored EXCEPT ![Writing] = "torn"]
       ELSE UNCHANGED <<stored, promised>>
    /\ UNCHANGED <<chime, autoSet, menu, body, writer, back, field, typed>>

Next ==
    \/ Start \/ GetIP \/ GetGeoData \/ Receive \/ Received \/ Server \/ Locate
    \/ \E f \in Names, text \in Texts \cup {"auto"} : Change(f, text)
    \/ Save \/ Leave
    \/ ResetSensor \/ RebootSensor
    \/ WriteField \/ WriteDone \/ Restart
    \/ PowerLoss

Spec == Init /\ [][Next]_vars

-----------------------------------------------------------------------------
\* A field in the EEPROM changes only because the user typed it and chose to
\* save, or because the cloud reset the sensor: saving one field, with the
\* others read, located and written back, never replaces another, and a power
\* cut never tears one that the user left alone.
OnlyTheUserChanges ==
    [][\A f \in Names : stored'[f] # stored[f] =>
            writer = "reset" \/ typed[f] # "none"]_vars

\* What was saved is what the sensor works with ever after, across restarts and
\* power cuts, until something else is saved: the text itself, as much of it as
\* the field takes, or, for "auto", a position looked up anew.
SavedIsRestored ==
    pc \in {"menu", "loop"} =>
        \A f \in Names : promised[f] # "none" /\ typed[f] = "none" =>
            \/ chime[f] = ToCharArray(promised[f])
            \/ f \in AutoFields /\ promised[f] = "auto" /\ autoSet[f]

\* What setup() works with after a request is what the server said, all of it, if
\* it came in full and fits the buffer: in however many pieces it came, whatever
\* the cloud asked of the sensor between two of them, and whether or not the
\* server has closed by then.  Only flush() can lose it, with the end of the
\* header; what the request before has left never shows through.
AnswerIsWhole ==
    [][Asking /\ pc' \in {"gotIP", "gotGeoData"}
       /\ http.sent = http.length /\ http.from < Header
       /\ http.length - http.from <= Capacity
            => body' = [text |-> http.answer, whole |-> TRUE]]_vars

=============================================================================
