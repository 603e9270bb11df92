\* A power cut between marking the new page valid and erasing the old one.
CONSTANTS
    N = 2
    SlotsPerPage = 3
    Values = {v1, v2}
    Unset = Unset
    LossPoints = {"elsewhere", "bothValid"}
    FlashMayFail = FALSE
SPECIFICATION Spec
PROPERTY VariablesSurvive
