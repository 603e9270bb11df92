--------------------------- MODULE MCFlashModules ---------------------------
EXTENDS FlashModules
MCModuleOf == [image \in Images |-> IF image = "s" THEN "system" ELSE "user"]
MCLengthOf == [image \in Images |-> IF image = "v" THEN 2 ELSE 1]
=============================================================================
