---------------------------- MODULE FlashModules ----------------------------
(***************************************************************************)
(* How a received image is installed (flash_mal.c, ota_flash_hal_stm32f2xx *)
(* .cpp, bootloader/src/main.c).  The image waits in a scratch area; an    *)
(* entry in the configuration store, a word of DCTStore, tells the         *)
(* bootloader where it goes.  At the next start the bootloader checks it,  *)
(* copies it and clears the entry, so that a copy that is cut is repeated. *)
(* A factory reset is asked for with a word of the same store, or with the *)
(* button.                                                                 *)
(*                                                                         *)
(* The first word of the store is Factory_Reset_SysFlag, the others are    *)
(* flash_modules[1..]: an image in one of them stands for an entry, made   *)
(* from that image, with the magic number.                                 *)
(***************************************************************************)
EXTENDS DCTStore

CONSTANTS Size,      \* words of the store: the flag and the entries
          Images,    \* that the server may send
          ModuleOf,  \* the module an image is for
          LengthOf,  \* and its length
          Requested  \* the value 0xAAAA of Factory_Reset_SysFlag

Modules == {"system", "user"}
FlagWord == 1
Slots == 2 .. Size
None == "none"      \* no image
Shipped == "shipped" \* the image the device left the factory with

ASSUME SizeAssumption == Size \in Nat \ {0} /\ Words = 1 .. Size
ASSUME ImagesAssumption ==
    /\ ModuleOf \in [Images -> Modules] /\ LengthOf \in [Images -> Nat]
    /\ Values = Images \cup {Requested, Erased, Zero}
    /\ {Requested, Erased, Zero, None, Shipped} \cap Images = {}

VARIABLES area,      \* where each module runs from
          scratch,   \* where images are received
          factory,   \* where the factory image is, on a device that has it apart
          apart,     \* whether it has: the Photon has, the Electron has not
          pc,        \* what the processor does
          slot,      \* the entry that the bootloader is at; FlagWord in a factory reset
          pending,   \* SYSTEM_FLAG_RESET_PENDING
          accepted,  \* history: the image that was accepted, and waits for its installation
          calm       \* from now on nothing is cut, fails or is asked for

ownVars == <<area, scratch, factory, apart, pc, slot, pending, accepted, calm>>
vars == <<storeVars, ownVars>>
regions == <<scratch, factory, apart>>

\* What an area holds: "torn" is what a power cut left, or a part of a copy or a transfer,
\* "bad" or "lost" what a flash operation that failed left, with a header or without one.
Region == [image : Images \cup {None, Shipped}, state : {"blank", "torn", "bad", "lost", "whole"}]
Broken(how) == [image |-> None, state |-> how]
BlankRegion == Broken("blank")
Part(image) == [image |-> image, state |-> "torn"]
Whole(image) == [image |-> image, state |-> "whole"]

Running == {"run", "begin", "prepare", "receive", "end"}
Booting == {"boot", "factory", "slots", "erase", "copy", "installed", "restored",
            "validate", "reboot", "dfu"}

TypeOK ==
    /\ cell \in [Words -> Values] /\ result \in {"none", "ok", "failed"}
    /\ asked \in [word : Words \cup {0}, value : Values]
    /\ area \in [Modules -> Region] /\ scratch \in Region /\ factory \in Region
    /\ apart \in BOOLEAN
    /\ pc \in Running \cup Booting /\ slot \in 1 .. Size + 1
    /\ pending \in BOOLEAN /\ calm \in BOOLEAN
    /\ accepted \in Images \cup {None}
    /\ pc \in {"erase", "copy"} => slot = FlagWord \/ cell[slot] \in Images
    /\ accepted # None => scratch = Whole(accepted)

Init ==
    /\ StoreInit
    /\ area \in {[system |-> Whole(Shipped), user |-> u] : u \in {Whole(Shipped), BlankRegion}}
    /\ scratch = BlankRegion
    /\ apart \in BOOLEAN /\ factory = IF apart THEN Whole(Shipped) ELSE BlankRegion
    /\ pc = "boot" /\ slot = FlagWord
    /\ pending = FALSE /\ accepted = None /\ calm = FALSE

-----------------------------------------------------------------------------
(* The system: HAL_FLASH_Begin, Update and End.                             *)

HasHeader(region) == region.state \notin {"blank", "lost"}

\* FLASH_isUserModuleInfoValid of the factory image.
UserHeader(region) ==
    \/ region.image = Shipped
    \/ region.image \in Images /\ ModuleOf[region.image] = "user"

Goto(there) == pc' = there

\* The image that a factory reset restores (INTERNAL_FLASH_FAC_ADDRESS).
Factory == IF apart THEN factory ELSE scratch

\* FLASH_Begin saves the system flags, whatever they are, and erases.
Begin ==
    /\ pc \in {"run", "receive"} /\ Ask(FlagWord, cell[FlagWord]) /\ Goto("begin")
    /\ accepted' = None
    /\ UNCHANGED <<area, regions, slot, pending, calm>>

StartErase ==
    /\ pc = "begin" /\ Quiet /\ Forget /\ Goto("prepare")
    /\ UNCHANGED <<area, regions, slot, pending, accepted, calm>>

\* The Photon's factory image lies in the second half of the scratch area.
EraseScratch ==
    /\ pc = "prepare" /\ Goto("receive")
    /\ scratch' = BlankRegion
    /\ IF apart THEN factory' \in {factory, BlankRegion} ELSE UNCHANGED factory
    /\ UNCHANGED <<storeVars, area, apart, slot, pending, accepted, calm>>

ReceiveSome(image) ==
    /\ pc = "receive" /\ scratch = BlankRegion
    /\ scratch' = Part(image)
    /\ UNCHANGED <<storeVars, area, factory, apart, pc, slot, pending, accepted, calm>>

ReceiveRest ==
    /\ pc = "receive" /\ scratch.state = "torn"
    /\ scratch' = Whole(scratch.image)
    /\ UNCHANGED <<storeVars, area, factory, apart, pc, slot, pending, accepted, calm>>

FreeSlots == {w \in Slots : cell[w] \notin Images}
NextSlot(w) == w \in FreeSlots /\ \A v \in FreeSlots : w <= v

\* HAL_FLASH_End: fetch_module checks the CRC, FLASH_AddToNextAvailableModulesSlot
\* writes the entry.
End ==
    /\ pc = "receive" /\ scratch.state = "whole"
    /\ \E w \in Slots : NextSlot(w) /\ Ask(w, scratch.image)
    /\ Goto("end")
    /\ UNCHANGED <<area, regions, slot, pending, accepted, calm>>

\* The transfer was given up, or is not complete, needs a module that the device does not
\* have, or finds no free entry.
EndRefused ==
    /\ pc = "receive" /\ Goto("run")
    /\ UNCHANGED <<storeVars, area, regions, slot, pending, accepted, calm>>

\* The result of the write is not looked at: Spark_Finish_Firmware_Update asks for a
\* reset in any case.
Accepted ==
    /\ pc = "end" /\ Goto("run")
    /\ pending' = TRUE
    /\ accepted' = IF result = "ok" THEN scratch.image ELSE accepted
    /\ Quiet /\ Forget /\ UNCHANGED <<area, regions, slot, calm>>

Restart ==
    /\ Quiet /\ Forget
    /\ pc' = "boot" /\ slot' = FlagWord /\ pending' = FALSE
    /\ UNCHANGED <<area, regions, accepted, calm>>

\* system_shutdown_if_needed, when the application lets it.
Reset == pc \in {"run", "receive"} /\ pending /\ Restart

\* HAL_Core_Factory_Reset.
AskFactoryReset ==
    /\ Ask(FlagWord, Requested) /\ Goto("reboot")
    /\ UNCHANGED <<area, regions, slot, pending, accepted, calm>>

RequestFactory == pc = "run" /\ AskFactoryReset

Reboot == pc = "reboot" /\ Restart

-----------------------------------------------------------------------------
(* The bootloader: main.                                                    *)

\* FLASH_CheckCopyMemory, for an entry made from an image.
Checks(entry) ==
    /\ scratch.state = "whole"
    /\ ModuleOf[entry] = ModuleOf[scratch.image] /\ LengthOf[entry] >= LengthOf[scratch.image]

\* FLASH_IsFactoryResetAvailable: the entry has room for any image of the user's.
FactoryAvailable == Factory.state = "whole" /\ UserHeader(Factory)

\* Mutant: the loop begins at the second entry.
BootAtSecond ==
    /\ pc = "boot" /\ Quiet
    /\ IF cell[FlagWord] = Requested
       THEN Goto("factory") /\ UNCHANGED slot
       ELSE Goto("slots") /\ slot' = FlagWord + 2
    /\ UNCHANGED <<storeVars, area, regions, pending, accepted, calm>>

Boot ==
    /\ pc = "boot" /\ Quiet
    /\ IF cell[FlagWord] = Requested
       THEN Goto("factory") /\ UNCHANGED slot
       ELSE Goto("slots") /\ slot' = FlagWord + 1
    /\ UNCHANGED <<storeVars, area, regions, pending, accepted, calm>>

\* Held long enough, the button asks for a factory reset, or, if there is no image, for
\* the DFU mode.
ButtonFactory ==
    /\ pc = "boot" /\ Quiet
    /\ Goto(IF FactoryAvailable THEN "factory" ELSE "dfu")
    /\ UNCHANGED <<storeVars, area, regions, slot, pending, accepted, calm>>

StartFactory ==
    /\ pc = "factory" /\ FactoryAvailable /\ Goto("erase")
    /\ UNCHANGED <<storeVars, area, regions, slot, pending, accepted, calm>>

\* FACTORY_Flash_Reset fails: the flag is cleared, and the device starts again if it can.
\* Mutant: a failure does not clear the flag.
RetryFactory ==
    /\ Ask(FlagWord, cell[FlagWord])
    /\ Goto(IF HasHeader(area["system"]) THEN "reboot" ELSE "dfu")

ForgetFactory ==
    /\ Ask(FlagWord, Erased)
    /\ Goto(IF HasHeader(area["system"]) THEN "reboot" ELSE "dfu")

RefuseFactory ==
    /\ pc = "factory" /\ ~FactoryAvailable /\ ForgetFactory
    /\ UNCHANGED <<area, regions, slot, pending, accepted, calm>>

\* Finish_Update clears the flag as well.
FinishUpdate ==
    /\ pc = "restored" /\ Ask(FlagWord, Erased) /\ Goto("reboot")
    /\ UNCHANGED <<area, regions, slot, pending, accepted, calm>>

-----------------------------------------------------------------------------
(* FLASH_UpdateModules and FLASH_CopyMemory.                                *)

AtEntry == pc = "slots" /\ slot \in Slots /\ cell[slot] \in Images

\* Mutant: the index advances twice.
SkipTwo ==
    /\ pc = "slots" /\ slot \in Slots /\ cell[slot] \notin Images
    /\ slot' = slot + 2
    /\ UNCHANGED <<storeVars, area, regions, pc, pending, accepted, calm>>

SkipSlot ==
    /\ pc = "slots" /\ slot \in Slots /\ cell[slot] \notin Images
    /\ slot' = slot + 1
    /\ UNCHANGED <<storeVars, area, regions, pc, pending, accepted, calm>>

StartSlot ==
    /\ AtEntry /\ Checks(cell[slot]) /\ Goto("erase")
    /\ UNCHANGED <<storeVars, area, regions, slot, pending, accepted, calm>>

RefuseSlot ==
    /\ AtEntry /\ ~Checks(cell[slot]) /\ Goto("installed")
    /\ UNCHANGED <<storeVars, area, regions, slot, pending, accepted, calm>>

Target == IF slot = FlagWord THEN "user" ELSE ModuleOf[cell[slot]]
Source == IF slot = FlagWord THEN Factory ELSE scratch

EraseArea ==
    /\ pc = "erase" /\ Goto("copy")
    /\ area' = [area EXCEPT ![Target] = BlankRegion]
    /\ UNCHANGED <<storeVars, regions, slot, pending, accepted, calm>>

CopySome ==
    /\ pc = "copy" /\ area[Target] = BlankRegion
    /\ area' = [area EXCEPT ![Target] = Broken("torn")]
    /\ UNCHANGED <<storeVars, regions, pc, slot, pending, accepted, calm>>

\* Mutant: the copy ends one word early.
CopyTooLittle ==
    /\ pc = "copy" /\ area[Target] = Broken("torn")
    /\ Goto(IF slot = FlagWord THEN "restored" ELSE "installed")
    /\ UNCHANGED <<storeVars, area, regions, slot, pending, accepted, calm>>

CopyRest ==
    /\ pc = "copy" /\ area[Target] = Broken("torn")
    /\ Goto(IF slot = FlagWord THEN "restored" ELSE "installed")
    /\ area' = [area EXCEPT ![Target] = Whole(Source.image)]
    /\ accepted' = IF Source.image = accepted THEN None ELSE accepted
    /\ UNCHANGED <<storeVars, regions, slot, pending, calm>>

\* Whether or not it was copied.
ClearSlot ==
    /\ pc = "installed" /\ Clear(slot)
    /\ Goto("slots") /\ slot' = slot + 1
    /\ UNCHANGED <<area, regions, pending, accepted, calm>>

\* A flash operation reports an error.  FLASH_UpdateModules does not look at it.
CopyFails ==
    /\ pc \in {"erase", "copy"}
    /\ area' = [area EXCEPT ![Target] = Broken(IF HasHeader(@) THEN "bad" ELSE "lost")]
    /\ IF slot = FlagWord
       THEN ForgetFactory
       ELSE Goto("installed") /\ UNCHANGED storeVars
    /\ accepted' = None
    /\ UNCHANGED <<regions, slot, pending, calm>>

-----------------------------------------------------------------------------
(* The jump, and HAL_Core_Validate_User_Module.                             *)

Jump ==
    /\ pc = "slots" /\ slot > Size
    /\ slot' = FlagWord
    /\ Goto(IF HasHeader(area["system"]) THEN "validate" ELSE "factory")
    /\ UNCHANGED <<storeVars, area, regions, pending, accepted, calm>>

\* With a header, right or wrong, or without a factory image the system runs, with the
\* user's module or without it.
Validate ==
    /\ pc = "validate" /\ Quiet
    /\ IF ~HasHeader(area["user"]) /\ UserHeader(Factory)
       THEN AskFactoryReset
       ELSE Goto("run") /\ UNCHANGED <<storeVars, area, regions, slot, pending, accepted, calm>>


-----------------------------------------------------------------------------
(* What happens at any time.                                                *)

StoreProceeds == (Commit \/ Succeed) /\ UNCHANGED ownVars
StoreFails == Fail /\ UNCHANGED ownVars

\* An erase that is cut takes the header or leaves it, with what remains.
CutErase(region, remains) ==
    IF HasHeader(region) THEN {region, remains, BlankRegion} ELSE {BlankRegion}

PowerLoss ==
    /\ Forget
    /\ pc' = "boot" /\ slot' = FlagWord /\ pending' = FALSE
    /\ IF pc = "erase"
       THEN \E cut \in CutErase(area[Target], Broken("torn")) :
                area' = [area EXCEPT ![Target] = cut]
       ELSE UNCHANGED area
    /\ IF pc = "prepare"
       THEN /\ scratch' \in CutErase(scratch, Part(scratch.image))
            /\ IF apart /\ scratch' = BlankRegion
               THEN factory' \in CutErase(factory, Part(factory.image)) \cup {factory}
               ELSE UNCHANGED factory
       ELSE UNCHANGED <<scratch, factory>>
    /\ UNCHANGED <<apart, accepted, calm>>

BecomeCalm == ~calm /\ calm' = TRUE /\ UNCHANGED <<storeVars, area, regions, pc, slot, pending, accepted>>

System ==
    \/ StartErase \/ EraseScratch \/ ReceiveRest \/ End \/ EndRefused \/ Accepted
    \/ Reset \/ Reboot

Bootloader ==
    \/ Boot \/ StartFactory \/ RefuseFactory \/ FinishUpdate
    \/ SkipSlot \/ StartSlot \/ RefuseSlot \/ EraseArea \/ CopySome \/ CopyRest \/ ClearSlot
    \/ Jump \/ Validate

Disturbance ==
    /\ ~calm
    /\ \/ Begin \/ RequestFactory \/ ButtonFactory \/ PowerLoss \/ StoreFails \/ CopyFails
       \/ \E image \in Images : ReceiveSome(image)

Next == System \/ Bootloader \/ StoreProceeds \/ Disturbance \/ BecomeCalm

\* The processor goes on; the transfer need not, and the application may forbid the
\* reset until the device is calm.
Fairness ==
    /\ WF_vars(Bootloader) /\ WF_vars(Succeed /\ UNCHANGED ownVars)
    /\ WF_vars(StartErase \/ EraseScratch \/ Accepted \/ Reboot)
    /\ WF_vars(calm /\ Reset)

Spec == Init /\ [][Next]_vars /\ Fairness

-----------------------------------------------------------------------------
\* The system never runs from what a power cut left of it.  "bad" is what a flash
\* operation that reported an error left, whether or not a cut came before it.
RunsWhole == pc \in Running \cup {"validate"} => area["system"].state \in {"whole", "bad"}

\* An update whose entry was written is installed, however often the power goes,
\* unless the device is left in the DFU mode.
UpdateInstalled ==
    \A image \in Images :
        (calm /\ accepted = image) ~> pc = "dfu" \/ area[ModuleOf[image]] = Whole(image)

\* The device comes up again, unless it has no user's module and a part of one where the
\* factory image should be, which is taken for that image and cannot be restored; or a
\* flash operation failed and left no system, for which the user's module is restored.
Trapped ==
    \/ ~HasHeader(area["user"]) /\ UserHeader(Factory) /\ Factory.state # "whole"
    \/ area["system"].state = "lost"
ComesUp == (calm /\ ~Trapped) ~> pc \in Running \cup {"dfu"}

=============================================================================
