SPECIFICATION Spec
CONSTANTS
    Scale = 4
    Half = 40
    PageSize = 2
    Now = 6
    MaxQueue = 2
    Older <- MCOlder
    Incoming <- MCIncoming
    Own <- MCOwn
CHECK_DEADLOCK FALSE
INVARIANTS TypeOK SeenKept ArrivalSeen
