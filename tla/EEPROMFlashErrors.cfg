\* Flash operations may fail, and power cuts.
CONSTANTS
    N = 2
    SlotsPerPage = 3
    Values = {v1}
    Unset = Unset
    LossPoints = {"elsewhere", "resume"}
    FlashMayFail = TRUE
SPECIFICATION Spec
INVARIANT FormatsOnlyBlank
PROPERTY VariablesSurvive
