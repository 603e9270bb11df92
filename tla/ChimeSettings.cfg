\* A name and a latitude, a short text and a long one; requests that fail, answers
\* of four units, two of them header, and of five, which the buffer does not
\* hold; cloud resets, power cuts.
CONSTANTS
    Fields <- MCFields
    AutoFields = {"lat"}
    Texts = {t1, t2}
    Long = {t2}
    Header = 2
    Lengths = {4, 5}
    Capacity = 4
    Bodies = {"ip", "location", "refusal"}
SPECIFICATION Spec
INVARIANTS TypeOK SavedIsRestored
PROPERTIES OnlyTheUserChanges AnswerIsWhole
