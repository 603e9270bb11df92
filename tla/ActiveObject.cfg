\* Queues of two, five messages.
CONSTANTS
    QueueSize = 2
    MaxMade = 5
    MaxDepth = 2
SPECIFICATION Spec
INVARIANTS TypeOK AnsweredOnce
PROPERTIES SystemServes SyncCallReturns
CHECK_DEADLOCK FALSE
