\* A system handler and one of the application, calls within calls, and a
\* second connection.
CONSTANTS
    Names <- MCNames
    System <- MCSystem
    Apps = {"bell"}
    Slots = 2
    Tokens = 2
    MaxMessages = 2
    MaxDepth = 3
    MaxSessions = 2
SPECIFICATION Spec
INVARIANTS TypeOK KnownToServer ResultMatchesCall
PROPERTIES EveryListenerHears CallsAnswered
CHECK_DEADLOCK FALSE
