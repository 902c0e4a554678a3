SPECIFICATION SystemSpec
CONSTANTS
    Job = {j1}
    NoJob = NoJob
    NoPacket = NoPacket
    Packet <- MCPacket
    Malformed <- MCMalformed
    Scale = 1
    Half = 64
    PageSize = 2
    Now = 0
    Older = {}
    Incoming = {}
    Own <- MCOwn
    MaxQueue = 1
CHECK_DEADLOCK FALSE
INVARIANTS StoredIsSeen
