SPECIFICATION FairSpec
CONSTANTS
    Job = {j1, j2}
    NoJob = NoJob
    NoPacket = NoPacket
    Packet <- MCPacket
    Malformed <- MCMalformed
CHECK_DEADLOCK FALSE
INVARIANTS NothingVanishes FirstSessionKeeps TokensKept
PROPERTIES ImplementsInbox EventCovers QueueDrains UnreadEnds
