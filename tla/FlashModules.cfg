\* One image of the system, two of the user's, the second longer; two entries.
CONSTANTS
    Size = 3
    Words = {1, 2, 3}
    Values = {"erased", "zero", "requested", "s", "u", "v"}
    Erased = "erased"
    Zero = "zero"
    Requested = "requested"
    Images = {"s", "u", "v"}
    ModuleOf <- MCModuleOf
    LengthOf <- MCLengthOf
SPECIFICATION Spec
INVARIANTS TypeOK RunsWhole
PROPERTIES UpdateInstalled ComesUp
CHECK_DEADLOCK FALSE
