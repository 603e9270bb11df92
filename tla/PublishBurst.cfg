\* Any publisher; gaps longer than the overflow of millis().
CONSTANTS
    Window = 2
    Wrap = 5
    MaxGap = 5
SPECIFICATION LimiterSpec
INVARIANTS LimiterTypeOK BurstBound
