\* Power cuts also while EEPROM_Init copies a page, as often as one likes.
CONSTANTS
    N = 2
    SlotsPerPage = 3
    Values = {v1, v2}
    Unset = Unset
    LossPoints = {"elsewhere", "resume"}
    FlashMayFail = FALSE
SPECIFICATION Spec
SYMMETRY Symmetry
INVARIANTS CompletedWriteIsRead
PROPERTIES ImplementsStore
