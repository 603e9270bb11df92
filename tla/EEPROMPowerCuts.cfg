\* Two variables of two values; the power may go at any step of a write, of a
\* transfer and of the repairs, but not while Init copies.
SPECIFICATION Spec
CONSTANTS
    N = 2
    SlotsPerPage = 3
    Values = {v1, v2}
    Unset = Unset
    LossPoints = {"elsewhere"}
    FlashMayFail = FALSE
INVARIANTS
    TypeOK
    KnownGood
    TransferFits
    CopyComplete
PROPERTIES
    WriteTakesEffect
