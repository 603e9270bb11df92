\* Two sensors; the debounce is exactly half the window.
CONSTANTS
    Window = 4
    BounceDelay = 2
    MaxGap = 5
    Wrap = 21
    Sensors = 2
SPECIFICATION Spec
INVARIANTS TypeOK NeverLimited
PROPERTY SentInFull
