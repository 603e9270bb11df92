SPECIFICATION Spec
CONSTANT OffAnytime = FALSE
INVARIANTS TypeOK FailuresReset NeverStranded
PROPERTY Reconnects
