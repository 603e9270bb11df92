----------------------------- MODULE FlashProofs -----------------------------
(***************************************************************************)
(* The bootloader never starts what a power cut left of the system, for    *)
(* every number of entries and every set of images.  The invariant: while  *)
(* the system's area is torn, an entry that the bootloader will accept is  *)
(* before it, and the system does not run.                                 *)
(***************************************************************************)
EXTENDS FlashModules, TLAPS

\* What the bootloader is at fits what it does; the system writes entries in "end" only.
Placed ==
    /\ pc \in {"boot", "factory", "restored"} => slot = FlagWord
    /\ pc \in {"erase", "copy"} /\ slot # FlagWord =>
           slot \in Slots /\ cell[slot] \in Images /\ Checks(cell[slot])
    /\ pc = "installed" => slot \in Slots
    /\ pc = "slots" => slot # FlagWord
    /\ pc # "end" => asked.word \in {0, FlagWord}

\* The scratch area holds an image or a part of one, and changes only when none waits in it.
Received ==
    /\ scratch # BlankRegion =>
           scratch.image \in Images /\ scratch.state \in {"torn", "whole"}
    /\ pc \in {"begin", "prepare", "receive", "end"} => accepted = None
    /\ pc = "end" => scratch.state = "whole"

Repairs(w) ==
    w \in Slots /\ cell[w] \in Images /\ ModuleOf[cell[w]] = "system" /\ Checks(cell[w])

Ahead(w) ==
    /\ pc \in {"slots", "erase", "copy"} => slot <= w
    /\ pc = "installed" => slot < w

Torn == area["system"].state = "torn"
Repairable == Torn => \E w \in Slots : Repairs(w) /\ Ahead(w)

IInv == TypeOK /\ Placed /\ Received /\ RunsWhole /\ Repairable

-----------------------------------------------------------------------------
(* Data.                                                                    *)

LEMMA Regions ==
    /\ BlankRegion \in Region /\ BlankRegion.state = "blank" /\ None \notin Images
    /\ \A how \in {"torn", "bad", "lost"} : Broken(how) \in Region /\ Broken(how).state = how
    /\ \A image \in Images \cup {None, Shipped} :
           /\ Part(image) \in Region /\ Part(image).state = "torn" /\ Part(image).image = image
           /\ Whole(image) \in Region /\ Whole(image).state = "whole" /\ Whole(image).image = image
  BY ImagesAssumption DEF BlankRegion, Broken, Part, Whole, Region, None

LEMMA Store ==
    /\ Words = 1 .. Size /\ Size \in Nat /\ FlagWord \in Words /\ FlagWord = 1
    /\ Slots \subseteq Words /\ FlagWord \notin Slots /\ 0 \notin Words /\ Slots = 2 .. Size
    /\ Images \subseteq Values /\ {Requested, Erased, Zero} \subseteq Values
    /\ Erased \notin Images /\ Zero \notin Images /\ Requested \notin Images
  BY SizeAssumption, ImagesAssumption DEF FlagWord, Slots

LEMMA Image ==
    ASSUME TypeOK, Received, scratch.state = "whole"
    PROVE  scratch.image \in Images /\ scratch = Whole(scratch.image) /\ scratch.image # None
  BY ImagesAssumption DEF TypeOK, Received, Region, Whole, BlankRegion, Broken

-----------------------------------------------------------------------------
(* Steps that leave the areas alone.                                        *)

LEMMA StartEraseKeeps == ASSUME IInv, StartErase PROVE IInv'
<1> USE DEF StartErase, regions, storeVars, Ask, Quiet, Nothing, Forget, Goto
<1>1. UNCHANGED <<area, scratch, cell>>
  OBVIOUS
<1>2. TypeOK'
  BY Store DEF IInv, Placed, Received, TypeOK, Running, Booting, None
<1>3. Placed'
  BY <1>1, Store DEF IInv, Placed, TypeOK, Checks, Running
<1>4. Received'
  BY <1>1 DEF IInv, Received, Running
<1>5. RunsWhole'
  BY <1>1 DEF IInv, RunsWhole, Running, TypeOK, Region, HasHeader, Repairable
<1>6. Repairable'
  BY <1>1, Store DEF IInv, Repairable, Torn, Repairs, Ahead, Checks, Placed, TypeOK, Running
<1> QED
  BY <1>2, <1>3, <1>4, <1>5, <1>6 DEF IInv

LEMMA EndRefusedKeeps == ASSUME IInv, EndRefused PROVE IInv'
<1> USE DEF EndRefused, regions, storeVars, Ask, Quiet, Nothing, Forget, Goto
<1>1. UNCHANGED <<area, scratch, cell>>
  OBVIOUS
<1>2. TypeOK'
  BY Store DEF IInv, Placed, Received, TypeOK, Running, Booting, None
<1>3. Placed'
  BY <1>1, Store DEF IInv, Placed, TypeOK, Checks, Running
<1>4. Received'
  BY <1>1 DEF IInv, Received, Running
<1>5. RunsWhole'
  BY <1>1 DEF IInv, RunsWhole, Running, TypeOK, Region, HasHeader, Repairable
<1>6. Repairable'
  BY <1>1, Store DEF IInv, Repairable, Torn, Repairs, Ahead, Checks, Placed, TypeOK, Running
<1> QED
  BY <1>2, <1>3, <1>4, <1>5, <1>6 DEF IInv

LEMMA RequestFactoryKeeps == ASSUME IInv, RequestFactory PROVE IInv'
<1> USE DEF RequestFactory, AskFactoryReset, regions, storeVars, Ask, Quiet, Nothing, Forget, Goto
<1>1. UNCHANGED <<area, scratch, cell>>
  OBVIOUS
<1>2. TypeOK'
  BY Store DEF IInv, Placed, Received, TypeOK, Running, Booting, None
<1>3. Placed'
  BY <1>1, Store DEF IInv, Placed, TypeOK, Checks, Running
<1>4. Received'
  BY <1>1 DEF IInv, Received, Running
<1>5. RunsWhole'
  BY <1>1 DEF IInv, RunsWhole, Running, TypeOK, Region, HasHeader, Repairable
<1>6. Repairable'
  BY <1>1, Store DEF IInv, Repairable, Torn, Repairs, Ahead, Checks, Placed, TypeOK, Running
<1> QED
  BY <1>2, <1>3, <1>4, <1>5, <1>6 DEF IInv

LEMMA BeginKeeps == ASSUME IInv, Begin PROVE IInv'
<1> USE DEF Begin, regions, storeVars, Ask, Quiet, Nothing, Forget, Goto
<1>1. UNCHANGED <<area, scratch, cell>>
  OBVIOUS
<1>2. TypeOK'
  BY Store DEF IInv, Placed, Received, TypeOK, Running, Booting, None
<1>3. Placed'
  BY <1>1, Store DEF IInv, Placed, TypeOK, Checks, Running
<1>4. Received'
  BY <1>1 DEF IInv, Received, Running
<1>5. RunsWhole'
  BY <1>1 DEF IInv, RunsWhole, Running, TypeOK, Region, HasHeader, Repairable
<1>6. Repairable'
  BY <1>1, Store DEF IInv, Repairable, Torn, Repairs, Ahead, Checks, Placed, TypeOK, Running
<1> QED
  BY <1>2, <1>3, <1>4, <1>5, <1>6 DEF IInv

LEMMA BootKeeps == ASSUME IInv, Boot PROVE IInv'
<1> USE DEF Boot, regions, storeVars, Ask, Quiet, Nothing, Forget, Goto
<1>1. UNCHANGED <<area, scratch, cell>>
  OBVIOUS
<1>2. TypeOK'
  BY Store DEF IInv, Placed, Received, TypeOK, Running, Booting, None
<1>3. Placed'
  BY <1>1, Store DEF IInv, Placed, TypeOK, Checks, Running
<1>4. Received'
  BY <1>1 DEF IInv, Received, Running
<1>5. RunsWhole'
  BY <1>1 DEF IInv, RunsWhole, Running, TypeOK, Region, HasHeader, Repairable
<1>6. Repairable'
  BY <1>1, Store DEF IInv, Repairable, Torn, Repairs, Ahead, Checks, Placed, TypeOK, Running
<1> QED
  BY <1>2, <1>3, <1>4, <1>5, <1>6 DEF IInv

LEMMA ButtonFactoryKeeps == ASSUME IInv, ButtonFactory PROVE IInv'
<1> USE DEF ButtonFactory, regions, storeVars, Ask, Quiet, Nothing, Forget, Goto
<1>1. UNCHANGED <<area, scratch, cell>>
  OBVIOUS
<1>2. TypeOK'
  BY Store DEF IInv, Placed, Received, TypeOK, Running, Booting, None
<1>3. Placed'
  BY <1>1, Store DEF IInv, Placed, TypeOK, Checks, Running
<1>4. Received'
  BY <1>1 DEF IInv, Received, Running
<1>5. RunsWhole'
  BY <1>1 DEF IInv, RunsWhole, Running, TypeOK, Region, HasHeader, Repairable
<1>6. Repairable'
  BY <1>1, Store DEF IInv, Repairable, Torn, Repairs, Ahead, Checks, Placed, TypeOK, Running
<1> QED
  BY <1>2, <1>3, <1>4, <1>5, <1>6 DEF IInv

LEMMA StartFactoryKeeps == ASSUME IInv, StartFactory PROVE IInv'
<1> USE DEF StartFactory, regions, storeVars, Ask, Quiet, Nothing, Forget, Goto
<1>1. UNCHANGED <<area, scratch, cell>>
  OBVIOUS
<1>2. TypeOK'
  BY Store DEF IInv, Placed, Received, TypeOK, Running, Booting, None
<1>3. Placed'
  BY <1>1, Store DEF IInv, Placed, TypeOK, Checks, Running
<1>4. Received'
  BY <1>1 DEF IInv, Received, Running
<1>5. RunsWhole'
  BY <1>1 DEF IInv, RunsWhole, Running, TypeOK, Region, HasHeader, Repairable
<1>6. Repairable'
  BY <1>1, Store DEF IInv, Repairable, Torn, Repairs, Ahead, Checks, Placed, TypeOK, Running
<1> QED
  BY <1>2, <1>3, <1>4, <1>5, <1>6 DEF IInv

LEMMA RefuseFactoryKeeps == ASSUME IInv, RefuseFactory PROVE IInv'
<1> USE DEF RefuseFactory, ForgetFactory, regions, storeVars, Ask, Quiet, Nothing, Forget, Goto
<1>1. UNCHANGED <<area, scratch, cell>>
  OBVIOUS
<1>2. TypeOK'
  BY Store DEF IInv, Placed, Received, TypeOK, Running, Booting, None
<1>3. Placed'
  BY <1>1, Store DEF IInv, Placed, TypeOK, Checks, Running
<1>4. Received'
  BY <1>1 DEF IInv, Received, Running
<1>5. RunsWhole'
  BY <1>1 DEF IInv, RunsWhole, Running, TypeOK, Region, HasHeader, Repairable
<1>6. Repairable'
  BY <1>1, Store DEF IInv, Repairable, Torn, Repairs, Ahead, Checks, Placed, TypeOK, Running
<1> QED
  BY <1>2, <1>3, <1>4, <1>5, <1>6 DEF IInv

LEMMA FinishUpdateKeeps == ASSUME IInv, FinishUpdate PROVE IInv'
<1> USE DEF FinishUpdate, regions, storeVars, Ask, Quiet, Nothing, Forget, Goto
<1>1. UNCHANGED <<area, scratch, cell>>
  OBVIOUS
<1>2. TypeOK'
  BY Store DEF IInv, Placed, Received, TypeOK, Running, Booting, None
<1>3. Placed'
  BY <1>1, Store DEF IInv, Placed, TypeOK, Checks, Running
<1>4. Received'
  BY <1>1 DEF IInv, Received, Running
<1>5. RunsWhole'
  BY <1>1 DEF IInv, RunsWhole, Running, TypeOK, Region, HasHeader, Repairable
<1>6. Repairable'
  BY <1>1, Store DEF IInv, Repairable, Torn, Repairs, Ahead, Checks, Placed, TypeOK, Running
<1> QED
  BY <1>2, <1>3, <1>4, <1>5, <1>6 DEF IInv

LEMMA SkipSlotKeeps == ASSUME IInv, SkipSlot PROVE IInv'
<1> USE DEF SkipSlot, regions, storeVars, Ask, Quiet, Nothing, Forget, Goto
<1>1. UNCHANGED <<area, scratch, cell>>
  OBVIOUS
<1>2. TypeOK'
  BY Store DEF IInv, Placed, Received, TypeOK, Running, Booting, None
<1>3. Placed'
  BY <1>1, Store DEF IInv, Placed, TypeOK, Checks, Running
<1>4. Received'
  BY <1>1 DEF IInv, Received, Running
<1>5. RunsWhole'
  BY <1>1 DEF IInv, RunsWhole, Running, TypeOK, Region, HasHeader, Repairable
<1>6. Repairable'
  BY <1>1, Store DEF IInv, Repairable, Torn, Repairs, Ahead, Checks, Placed, TypeOK, Running
<1> QED
  BY <1>2, <1>3, <1>4, <1>5, <1>6 DEF IInv

LEMMA StartSlotKeeps == ASSUME IInv, StartSlot PROVE IInv'
<1> USE DEF StartSlot, AtEntry, regions, storeVars, Ask, Quiet, Nothing, Forget, Goto
<1>1. UNCHANGED <<area, scratch, cell>>
  OBVIOUS
<1>2. TypeOK'
  BY Store DEF IInv, Placed, Received, TypeOK, Running, Booting, None
<1>3. Placed'
  BY <1>1, Store DEF IInv, Placed, TypeOK, Checks, Running
<1>4. Received'
  BY <1>1 DEF IInv, Received, Running
<1>5. RunsWhole'
  BY <1>1 DEF IInv, RunsWhole, Running, TypeOK, Region, HasHeader, Repairable
<1>6. Repairable'
  BY <1>1, Store DEF IInv, Repairable, Torn, Repairs, Ahead, Checks, Placed, TypeOK, Running
<1> QED
  BY <1>2, <1>3, <1>4, <1>5, <1>6 DEF IInv

LEMMA RefuseSlotKeeps == ASSUME IInv, RefuseSlot PROVE IInv'
<1> USE DEF RefuseSlot, AtEntry, regions, storeVars, Ask, Quiet, Nothing, Forget, Goto
<1>1. UNCHANGED <<area, scratch, cell>>
  OBVIOUS
<1>2. TypeOK'
  BY Store DEF IInv, Placed, Received, TypeOK, Running, Booting, None
<1>3. Placed'
  BY <1>1, Store DEF IInv, Placed, TypeOK, Checks, Running
<1>4. Received'
  BY <1>1 DEF IInv, Received, Running
<1>5. RunsWhole'
  BY <1>1 DEF IInv, RunsWhole, Running, TypeOK, Region, HasHeader, Repairable
<1>6. Repairable'
  BY <1>1, Store DEF IInv, Repairable, Torn, Repairs, Ahead, Checks, Placed, TypeOK, Running
<1> QED
  BY <1>2, <1>3, <1>4, <1>5, <1>6 DEF IInv

LEMMA ValidateKeeps == ASSUME IInv, Validate PROVE IInv'
<1> USE DEF Validate, AskFactoryReset, regions, storeVars, Ask, Quiet, Nothing, Forget, Goto
<1>1. UNCHANGED <<area, scratch, cell>>
  OBVIOUS
<1>2. TypeOK'
  BY Store DEF IInv, Placed, Received, TypeOK, Running, Booting, None
<1>3. Placed'
  BY <1>1, Store DEF IInv, Placed, TypeOK, Checks, Running
<1>4. Received'
  BY <1>1 DEF IInv, Received, Running
<1>5. RunsWhole'
  BY <1>1 DEF IInv, RunsWhole, Running, TypeOK, Region, HasHeader, Repairable
<1>6. Repairable'
  BY <1>1, Store DEF IInv, Repairable, Torn, Repairs, Ahead, Checks, Placed, TypeOK, Running
<1> QED
  BY <1>2, <1>3, <1>4, <1>5, <1>6 DEF IInv

LEMMA StoreFailsKeeps == ASSUME IInv, StoreFails PROVE IInv'
<1> USE DEF StoreFails, Fail, ownVars, regions, storeVars, Ask, Quiet, Nothing, Forget, Goto
<1>1. UNCHANGED <<area, scratch, cell>>
  OBVIOUS
<1>2. TypeOK'
  BY Store DEF IInv, Placed, Received, TypeOK, Running, Booting, None
<1>3. Placed'
  BY <1>1, Store DEF IInv, Placed, TypeOK, Checks, Running
<1>4. Received'
  BY <1>1 DEF IInv, Received, Running
<1>5. RunsWhole'
  BY <1>1 DEF IInv, RunsWhole, Running, TypeOK, Region, HasHeader, Repairable
<1>6. Repairable'
  BY <1>1, Store DEF IInv, Repairable, Torn, Repairs, Ahead, Checks, Placed, TypeOK, Running
<1> QED
  BY <1>2, <1>3, <1>4, <1>5, <1>6 DEF IInv

LEMMA BecomeCalmKeeps == ASSUME IInv, BecomeCalm PROVE IInv'
<1> USE DEF BecomeCalm, regions, storeVars, Ask, Quiet, Nothing, Forget, Goto
<1>1. UNCHANGED <<area, scratch, cell>>
  OBVIOUS
<1>2. TypeOK'
  BY Store DEF IInv, Placed, Received, TypeOK, Running, Booting, None
<1>3. Placed'
  BY <1>1, Store DEF IInv, Placed, TypeOK, Checks, Running
<1>4. Received'
  BY <1>1 DEF IInv, Received, Running
<1>5. RunsWhole'
  BY <1>1 DEF IInv, RunsWhole, Running, TypeOK, Region, HasHeader, Repairable
<1>6. Repairable'
  BY <1>1, Store DEF IInv, Repairable, Torn, Repairs, Ahead, Checks, Placed, TypeOK, Running
<1> QED
  BY <1>2, <1>3, <1>4, <1>5, <1>6 DEF IInv

LEMMA AcceptedKeeps == ASSUME IInv, Accepted PROVE IInv'
<1> USE DEF Accepted, regions, storeVars, Ask, Quiet, Nothing, Forget, Goto
<1>1. UNCHANGED <<area, scratch, cell, factory, apart, calm>> /\ asked' = Nothing
  OBVIOUS
<1>2. TypeOK'
  <2>1. pending' \in BOOLEAN
    OBVIOUS
  <2>2. /\ pc' \in Running \cup Booting /\ pc' \notin {"erase", "copy"} /\ slot' \in 1 .. Size + 1
        /\ result' \in {"none", "ok", "failed"} /\ asked' \in [word : Words \cup {0}, value : Values]
    BY Store DEF IInv, TypeOK, Running, Booting
  <2>3. accepted' \in Images \cup {None} /\ (accepted' # None => scratch' = Whole(accepted'))
    BY <1>1, Image, Store DEF IInv, TypeOK, Received
  <2> QED
    BY <1>1, <2>1, <2>2, <2>3 DEF IInv, TypeOK
<1>3. Placed'
  BY <1>1, Store DEF IInv, Placed, TypeOK, Checks, Running
<1>4. Received'
  BY <1>1 DEF IInv, Received, Running
<1>5. RunsWhole'
  BY <1>1 DEF IInv, RunsWhole, Running, TypeOK, Region, HasHeader, Repairable
<1>6. Repairable'
  BY <1>1, Store DEF IInv, Repairable, Torn, Repairs, Ahead, Checks, Placed, TypeOK, Running
<1> QED
  BY <1>2, <1>3, <1>4, <1>5, <1>6 DEF IInv

LEMMA ResetKeeps == ASSUME IInv, Reset PROVE IInv'
<1> USE DEF Reset, Restart, regions, storeVars, Ask, Quiet, Nothing, Forget, Goto
<1>1. UNCHANGED <<area, scratch, cell, factory, apart, calm>> /\ asked' = Nothing
  OBVIOUS
<1>2. TypeOK'
  <2>1. pending' \in BOOLEAN
    OBVIOUS
  <2>2. /\ pc' \in Running \cup Booting /\ pc' \notin {"erase", "copy"} /\ slot' \in 1 .. Size + 1
        /\ result' \in {"none", "ok", "failed"} /\ asked' \in [word : Words \cup {0}, value : Values]
    BY Store DEF IInv, TypeOK, Running, Booting
  <2>3. accepted' \in Images \cup {None} /\ (accepted' # None => scratch' = Whole(accepted'))
    BY <1>1, Store DEF IInv, TypeOK, Received
  <2> QED
    BY <1>1, <2>1, <2>2, <2>3 DEF IInv, TypeOK
<1>3. Placed'
  BY <1>1, Store DEF IInv, Placed, TypeOK, Checks, Running
<1>4. Received'
  BY <1>1 DEF IInv, Received, Running
<1>5. RunsWhole'
  BY <1>1 DEF IInv, RunsWhole, Running, TypeOK, Region, HasHeader, Repairable
<1>6. Repairable'
  BY <1>1, Store DEF IInv, Repairable, Torn, Repairs, Ahead, Checks, Placed, TypeOK, Running
<1> QED
  BY <1>2, <1>3, <1>4, <1>5, <1>6 DEF IInv

LEMMA RebootKeeps == ASSUME IInv, Reboot PROVE IInv'
<1> USE DEF Reboot, Restart, regions, storeVars, Ask, Quiet, Nothing, Forget, Goto
<1>1. UNCHANGED <<area, scratch, cell, factory, apart, calm>> /\ asked' = Nothing
  OBVIOUS
<1>2. TypeOK'
  <2>1. pending' \in BOOLEAN
    OBVIOUS
  <2>2. /\ pc' \in Running \cup Booting /\ pc' \notin {"erase", "copy"} /\ slot' \in 1 .. Size + 1
        /\ result' \in {"none", "ok", "failed"} /\ asked' \in [word : Words \cup {0}, value : Values]
    BY Store DEF IInv, TypeOK, Running, Booting
  <2>3. accepted' \in Images \cup {None} /\ (accepted' # None => scratch' = Whole(accepted'))
    BY <1>1, Store DEF IInv, TypeOK, Received
  <2> QED
    BY <1>1, <2>1, <2>2, <2>3 DEF IInv, TypeOK
<1>3. Placed'
  BY <1>1, Store DEF IInv, Placed, TypeOK, Checks, Running
<1>4. Received'
  BY <1>1 DEF IInv, Received, Running
<1>5. RunsWhole'
  BY <1>1 DEF IInv, RunsWhole, Running, TypeOK, Region, HasHeader, Repairable
<1>6. Repairable'
  BY <1>1, Store DEF IInv, Repairable, Torn, Repairs, Ahead, Checks, Placed, TypeOK, Running
<1> QED
  BY <1>2, <1>3, <1>4, <1>5, <1>6 DEF IInv

LEMMA EndKeeps == ASSUME IInv, End PROVE IInv'
<1>1. PICK w \in Slots : Ask(w, scratch.image)
  BY DEF End
<1> USE DEF regions, storeVars, Ask, Goto
<1>2. /\ UNCHANGED <<area, scratch, cell, factory, apart, slot, pending, accepted, calm>>
      /\ pc' = "end" /\ pc = "receive" /\ scratch.state = "whole" /\ result' = "none"
      /\ asked' = [word |-> w, value |-> scratch.image]
  BY <1>1 DEF End
<1>3. TypeOK'
  BY <1>2, Image, Store DEF IInv, TypeOK, Running
<1>4. Placed' /\ Received'
  BY <1>2, Store DEF IInv, Placed, Received
<1>5. RunsWhole' /\ Repairable'
  BY <1>2, Store DEF IInv, RunsWhole, Repairable, Torn, Running
<1> QED
  BY <1>3, <1>4, <1>5 DEF IInv

LEMMA JumpKeeps == ASSUME IInv, Jump PROVE IInv'
<1> USE DEF Jump, Goto, regions, storeVars
<1>1. UNCHANGED <<area, scratch, cell, asked>> /\ pc = "slots" /\ slot > Size
  OBVIOUS
<1>2. TypeOK'
  BY Store DEF IInv, TypeOK, Booting
<1>3. Placed' /\ Received'
  BY <1>1, Store DEF IInv, Placed, Received
<1>4. ~Torn
  BY <1>1, Store DEF IInv, Repairable, Ahead, TypeOK
<1>5. RunsWhole'
  BY <1>1, <1>4 DEF IInv, RunsWhole, Torn, HasHeader, TypeOK, Region, Modules, Running
<1>6. Repairable'
  BY <1>1, <1>4 DEF Repairable, Torn
<1> QED
  BY <1>2, <1>3, <1>5, <1>6 DEF IInv

-----------------------------------------------------------------------------
(* Images come: only while the system runs, which is whole then.            *)

LEMMA ReceivingKeeps ==
    ASSUME IInv, pc \in {"prepare", "receive"}, pc' \in {"prepare", "receive"},
           UNCHANGED <<storeVars, area, apart, slot, pending, accepted, calm>>,
           factory' \in Region, scratch' \in Region,
           scratch' # BlankRegion =>
               scratch'.image \in Images /\ scratch'.state \in {"torn", "whole"}
    PROVE  IInv'
<1> USE DEF storeVars
<1>1. accepted = None /\ area["system"].state \in {"whole", "bad"}
  BY DEF IInv, Received, RunsWhole, Running
<1>2. TypeOK'
  BY <1>1 DEF IInv, TypeOK, Running
<1>3. Placed' /\ Received'
  BY <1>1 DEF IInv, Placed, Received
<1>4. RunsWhole' /\ Repairable'
  BY <1>1 DEF RunsWhole, Repairable, Torn
<1> QED
  BY <1>2, <1>3, <1>4 DEF IInv

LEMMA Receives ==
    ASSUME IInv, EraseScratch \/ ReceiveRest \/ \E image \in Images : ReceiveSome(image)
    PROVE  IInv'
<1>1. CASE EraseScratch
  <2>1. factory' \in Region
    BY <1>1, Regions DEF EraseScratch, IInv, TypeOK
  <2> QED
    BY <1>1, <2>1, Regions, ReceivingKeeps DEF EraseScratch, Goto
<1>2. CASE ReceiveRest
  <2>1. scratch # BlankRegion /\ scratch.image \in Images
    BY <1>2, Regions DEF ReceiveRest, IInv, Received
  <2> QED
    BY <1>2, <2>1, Regions, ReceivingKeeps DEF ReceiveRest, IInv, TypeOK
<1>3. CASE \E image \in Images : ReceiveSome(image)
  BY <1>3, Regions, ReceivingKeeps DEF ReceiveSome, IInv, TypeOK
<1> QED
  BY <1>1, <1>2, <1>3

-----------------------------------------------------------------------------
(* The bootloader copies.                                                   *)

\* What it copies into: the system's module from an entry that passed its check.
LEMMA AtTarget ==
    ASSUME IInv, pc \in {"erase", "copy"}
    PROVE  /\ Target \in Modules /\ Source \in Region
           /\ Target = "system" => slot # FlagWord /\ Repairs(slot)
           /\ \A new \in Region : [area EXCEPT ![Target] = new] \in [Modules -> Region]
           /\ \A new \in Region, m \in Modules :
                  [area EXCEPT ![Target] = new][m] = IF m = Target THEN new ELSE area[m]
  BY ImagesAssumption DEF IInv, TypeOK, Placed, Target, Source, Factory, Repairs, Modules

\* A step of the copy that does not leave the entry.
LEMMA CopyingKeeps ==
    ASSUME IInv, pc \in {"erase", "copy"}, pc' = "copy",
           NEW new \in Region, area' = [area EXCEPT ![Target] = new],
           UNCHANGED <<storeVars, regions, slot, pending, accepted, calm>>
    PROVE  IInv'
<1> USE DEF storeVars, regions
<1>1. area' \in [Modules -> Region] /\ area'["system"] =
          IF Target = "system" THEN new ELSE area["system"]
  BY AtTarget DEF Modules
<1>2. TypeOK'
  BY <1>1 DEF IInv, TypeOK, Booting
<1>3. Placed' /\ Received'
  BY DEF IInv, Placed, Received, Checks
<1>4. RunsWhole'
  BY DEF RunsWhole, Running
<1>5. Repairable'
  <2>1. CASE Target = "system"
    <3>1. slot \in Slots /\ Repairs(slot)' /\ Ahead(slot)'
      BY <2>1, AtTarget, Store DEF Repairs, Ahead, Checks
    <3> QED
      BY <3>1 DEF Repairable
  <2>2. CASE Target # "system"
    BY <1>1, <2>2 DEF IInv, Repairable, Torn, Repairs, Ahead, Checks
  <2> QED
    BY <2>1, <2>2
<1> QED
  BY <1>2, <1>3, <1>4, <1>5 DEF IInv

LEMMA Copies == ASSUME IInv, EraseArea \/ CopySome PROVE IInv'
  BY CopyingKeeps, Regions DEF EraseArea, CopySome, Goto

\* The copy ends, well or not.
LEMMA LeavingKeeps ==
    ASSUME IInv, pc \in {"erase", "copy"},
           NEW new \in Region, area' = [area EXCEPT ![Target] = new],
           new.state # "torn", UNCHANGED <<cell, regions, slot, pending, calm>>,
           \/ slot # FlagWord /\ pc' = "installed" /\ UNCHANGED <<asked, result>>
           \/ slot = FlagWord /\ pc' \in {"restored", "reboot", "dfu"}
                  /\ asked' \in [word : {0, FlagWord}, value : Values]
                  /\ result' \in {"none", "ok", "failed"},
           accepted' = accepted \/ accepted' = None
    PROVE  IInv'
<1> USE DEF regions
<1>1. area' \in [Modules -> Region] /\ area'["system"] =
          IF Target = "system" THEN new ELSE area["system"]
  BY AtTarget DEF Modules
<1>2. TypeOK'
  BY <1>1, Store DEF IInv, TypeOK, Booting
<1>3. Placed'
  BY Store DEF IInv, Placed
<1>4. Received' /\ RunsWhole'
  BY DEF IInv, Received, RunsWhole, Running
<1>5. Repairable'
  <2>1. CASE Target = "system"
    BY <1>1, <2>1 DEF Repairable, Torn
  <2>2. CASE Target # "system"
    <3>1. \A w \in Slots : Repairs(w) /\ Ahead(w) => Repairs(w)' /\ Ahead(w)'
      BY <2>2, Store DEF IInv, Placed, TypeOK, Repairs, Ahead, Checks, Target
    <3> QED
      BY <1>1, <2>2, <3>1 DEF IInv, Repairable, Torn
  <2> QED
    BY <2>1, <2>2
<1> QED
  BY <1>2, <1>3, <1>4, <1>5 DEF IInv

LEMMA CopyRestKeeps == ASSUME IInv, CopyRest PROVE IInv'
<1>1. Whole(Source.image) \in Region /\ Whole(Source.image).state = "whole"
  BY AtTarget, Regions DEF CopyRest, Region
<1>2. asked \in [word : {0, FlagWord}, value : Values] /\ result \in {"none", "ok", "failed"}
  BY DEF CopyRest, IInv, TypeOK, Placed
<1> QED
  BY <1>1, <1>2, LeavingKeeps DEF CopyRest, Goto, storeVars

LEMMA CopyFailsKeeps == ASSUME IInv, CopyFails PROVE IInv'
<1> DEFINE new == Broken(IF HasHeader(area[Target]) THEN "bad" ELSE "lost")
<1>1. new \in Region /\ new.state # "torn" /\ area' = [area EXCEPT ![Target] = new]
  BY Regions DEF CopyFails
<1> HIDE DEF new
<1> QED
  <2>1. /\ pc \in {"erase", "copy"} /\ accepted' = None
        /\ UNCHANGED <<cell, regions, slot, pending, calm>>
    BY DEF CopyFails, ForgetFactory, Ask, storeVars
  <2>2. CASE slot = FlagWord
    <3>1. pc' \in {"reboot", "dfu"} /\ result' = "none"
          /\ asked' = [word |-> FlagWord, value |-> Erased]
      BY <2>2 DEF CopyFails, ForgetFactory, Ask, Goto
    <3>2. asked' \in [word : {0, FlagWord}, value : Values]
      BY <3>1, Store
    <3> QED
      BY <1>1, <2>1, <2>2, <3>1, <3>2, LeavingKeeps
  <2>3. CASE slot # FlagWord
    <3>1. pc' = "installed" /\ UNCHANGED <<asked, result>>
      BY <2>3 DEF CopyFails, Goto, storeVars
    <3> QED
      BY <1>1, <2>1, <2>3, <3>1, LeavingKeeps
  <2> QED
    BY <2>2, <2>3

-----------------------------------------------------------------------------
(* The store changes, and the power goes.                                   *)

\* A change of the store that no entry before the bootloader is touched by.
LEMMA StoreKeeps ==
    ASSUME IInv, UNCHANGED <<area, scratch>>,
           cell' \in [Words -> Values],
           \A w \in Slots : Repairs(w) /\ Ahead(w) => cell'[w] = cell[w] /\ Ahead(w)'
    PROVE  Repairable'
  BY Store DEF IInv, Repairable, Torn, Repairs, Checks

LEMMA StoreProceedsKeeps == ASSUME IInv, StoreProceeds PROVE IInv'
<1> USE DEF StoreProceeds, Commit, Succeed, ownVars, regions
<1>1. /\ cell' = [cell EXCEPT ![asked.word] = asked.value] /\ asked' \in {asked, Nothing}
      /\ result' \in {result, "ok"} /\ UNCHANGED ownVars
  BY DEF Written
<1>2. /\ cell' \in [Words -> Values] /\ \A w \in Words : w # asked.word => cell'[w] = cell[w]
  BY <1>1 DEF IInv, TypeOK
<1>3. asked' \in [word : Words \cup {0}, value : Values]
  BY <1>1, Store DEF IInv, TypeOK, Nothing
<1>4. pc # "end" => \A w \in Slots : cell'[w] = cell[w]
  BY <1>2, Store DEF IInv, Placed
<1>5. TypeOK'
  BY <1>1, <1>2, <1>3, <1>4, Store DEF IInv, TypeOK, Placed
<1>6. Placed'
  BY <1>1, <1>4, Store DEF IInv, Placed, Checks, Nothing
<1>7. Received' /\ RunsWhole'
  BY <1>1 DEF IInv, Received, RunsWhole
<1>8. Repairable'
  <2>1. CASE pc = "end"
    BY <1>1, <2>1 DEF IInv, RunsWhole, Repairable, Torn, Running
  <2>2. CASE pc # "end"
    BY <1>1, <1>2, <1>4, <2>2, StoreKeeps DEF Ahead
  <2> QED
    BY <2>1, <2>2
<1> QED
  BY <1>5, <1>6, <1>7, <1>8 DEF IInv

LEMMA ClearSlotKeeps == ASSUME IInv, ClearSlot PROVE IInv'
<1> USE DEF ClearSlot, Clear, Goto, regions
<1>1. /\ cell' = [cell EXCEPT ![slot] = Zero] /\ slot' = slot + 1 /\ pc' = "slots"
      /\ slot \in Slots /\ pc = "installed"
      /\ UNCHANGED <<area, scratch, factory, apart, asked, result, pending, accepted, calm>>
  BY DEF IInv, Placed
<1>2. /\ cell' \in [Words -> Values] /\ \A w \in Words : w # slot => cell'[w] = cell[w]
  BY <1>1, Store DEF IInv, TypeOK
<1>3. TypeOK'
  BY <1>1, <1>2, Store DEF IInv, TypeOK, Booting
<1>4. Placed' /\ Received' /\ RunsWhole'
  BY <1>1, Store DEF IInv, Placed, Received, RunsWhole, Running
<1>5. Repairable'
  BY <1>1, <1>2, StoreKeeps, Store DEF Ahead
<1> QED
  BY <1>3, <1>4, <1>5 DEF IInv

\* What a cut leaves of an erase.
LEMMA Cut ==
    ASSUME NEW region \in Region, NEW remains \in Region, remains.state = "torn",
           NEW cut \in CutErase(region, remains)
    PROVE  cut \in Region /\ cut \in {region, remains, BlankRegion}
  BY Regions DEF CutErase

LEMMA PowerLossKeeps == ASSUME IInv, PowerLoss PROVE IInv'
<1> USE DEF PowerLoss, Forget
<1>1. /\ cell' = cell /\ asked' = Nothing /\ result' = "none" /\ pc' = "boot" /\ slot' = FlagWord
      /\ apart' = apart /\ accepted' = accepted /\ calm' = calm
  OBVIOUS
<1>2. pending' \in BOOLEAN
  OBVIOUS
<1>3. asked' \in [word : Words \cup {0}, value : Values] /\ asked'.word = 0
  BY <1>1, Store DEF Nothing
<1>4. factory' \in Region
  BY Regions, ImagesAssumption DEF IInv, TypeOK, CutErase, Region, Part
<1>5. /\ scratch' \in Region /\ (pc # "prepare" => scratch' = scratch)
      /\ scratch' # BlankRegion =>
             scratch'.image \in Images /\ scratch'.state \in {"torn", "whole"}
  <2>1. CASE pc = "prepare"
    <3>1. scratch' \in {scratch, Part(scratch.image), BlankRegion}
          /\ (scratch' # BlankRegion => HasHeader(scratch))
      BY <2>1 DEF CutErase
    <3>2. HasHeader(scratch) => scratch # BlankRegion
      BY Regions DEF HasHeader
    <3> QED
      BY <2>1, <3>1, <3>2, Regions DEF IInv, TypeOK, Received
  <2>2. CASE pc # "prepare"
    BY <2>2 DEF IInv, TypeOK, Received
  <2> QED
    BY <2>1, <2>2
<1>6. /\ area' \in [Modules -> Region]
      /\ area'["system"].state = "torn" =>
             Torn \/ (pc = "erase" /\ Target = "system")
  <2>1. CASE pc = "erase"
    <3>1. PICK cut \in CutErase(area[Target], Broken("torn")) :
              area' = [area EXCEPT ![Target] = cut]
      BY <2>1
    <3>2. cut \in Region
      BY <2>1, AtTarget, Regions, Cut DEF IInv, TypeOK
    <3> QED
      BY <2>1, <3>1, <3>2, AtTarget DEF Torn, Modules
  <2>2. CASE pc # "erase"
    BY <2>2 DEF IInv, TypeOK, Torn
  <2> QED
    BY <2>1, <2>2
<1>7. TypeOK'
  BY <1>1, <1>2, <1>3, <1>4, <1>5, <1>6, Store DEF IInv, TypeOK, Received, Booting
<1>8. Placed' /\ Received' /\ RunsWhole'
  BY <1>1, <1>3, <1>5 DEF Placed, Received, RunsWhole, Running
<1>9. Repairable'
  <2>1. SUFFICES ASSUME Torn' PROVE \E w \in Slots : Repairs(w)' /\ Ahead(w)'
    BY DEF Repairable
  <2>2. PICK w \in Slots : Repairs(w)
    BY <1>6, <2>1, AtTarget DEF IInv, Repairable, Torn, Repairs
  <2>3. pc # "prepare"
    BY <1>6, <2>1 DEF IInv, RunsWhole, Running, Torn
  <2> QED
    BY <1>1, <1>5, <2>2, <2>3 DEF Repairs, Checks, Ahead
<1> QED
  BY <1>7, <1>8, <1>9 DEF IInv

-----------------------------------------------------------------------------
(* The specification.                                                       *)

LEMMA InitInv == ASSUME Init PROVE IInv
<1>1. /\ area["system"] = Whole(Shipped) /\ area \in [Modules -> Region]
      /\ scratch = BlankRegion /\ pc = "boot" /\ slot = FlagWord /\ accepted = None
      /\ asked = Nothing /\ result = "none" /\ cell = [w \in Words |-> Erased]
  BY Regions DEF Init, StoreInit, Modules
<1>2. pending \in BOOLEAN /\ calm \in BOOLEAN /\ apart \in BOOLEAN
  BY DEF Init
<1>3. factory \in Region
  BY Regions DEF Init
<1>4. TypeOK
  BY <1>1, <1>2, <1>3, Regions, Store DEF TypeOK, Nothing, Booting
<1>5. Placed /\ Received /\ RunsWhole /\ Repairable
  BY <1>1, Regions DEF Placed, Received, RunsWhole, Running, Repairable, Torn, Nothing
<1> QED
  BY <1>4, <1>5 DEF IInv

LEMMA NextKeeps == ASSUME IInv, Next PROVE IInv'
<1>1. CASE System
  BY <1>1, StartEraseKeeps, Receives, EndKeeps, EndRefusedKeeps, AcceptedKeeps, ResetKeeps,
     RebootKeeps DEF System
<1>2. CASE Bootloader
  BY <1>2, BootKeeps, StartFactoryKeeps, RefuseFactoryKeeps, FinishUpdateKeeps, SkipSlotKeeps,
     StartSlotKeeps, RefuseSlotKeeps, Copies, CopyRestKeeps, ClearSlotKeeps, JumpKeeps,
     ValidateKeeps DEF Bootloader
<1>3. CASE Disturbance
  BY <1>3, BeginKeeps, RequestFactoryKeeps, ButtonFactoryKeeps, PowerLossKeeps,
     StoreFailsKeeps, CopyFailsKeeps, Receives DEF Disturbance
<1> QED
  BY <1>1, <1>2, <1>3, StoreProceedsKeeps, BecomeCalmKeeps DEF Next

LEMMA StutterKeeps == ASSUME IInv, UNCHANGED vars PROVE IInv'
<1> USE DEF vars, storeVars, ownVars, regions
<1>1. TypeOK' /\ Placed' /\ Received'
  BY DEF IInv, TypeOK, Placed, Received, Checks
<1>2. RunsWhole' /\ Repairable'
  BY DEF IInv, RunsWhole, Repairable, Torn, Repairs, Ahead, Checks
<1> QED
  BY <1>1, <1>2 DEF IInv

LEMMA Inductive == Spec => []IInv
<1>1. Init => IInv
  BY InitInv
<1>2. IInv /\ [Next]_vars => IInv'
  BY NextKeeps, StutterKeeps
<1> QED
  BY <1>1, <1>2, PTL DEF Spec

\* The bootloader, the system, and the flash between them keep their types: an entry that is
\* copied is one, and an image that was accepted stays where it was received.
THEOREM TypeCorrect == Spec => []TypeOK
<1>1. IInv => TypeOK
  BY DEF IInv
<1> QED
  BY <1>1, Inductive, PTL

\* Whenever the power goes and whatever fails, the system never runs from what a cut left of
\* it, for every number of entries and every set of images.
THEOREM NeverRunsTorn == Spec => []RunsWhole
<1>1. IInv => RunsWhole
  BY DEF IInv
<1> QED
  BY <1>1, Inductive, PTL

=============================================================================
