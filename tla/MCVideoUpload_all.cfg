SPECIFICATION FairSpec
CONSTANTS
    Video = {v1, v2}
    Removable = {v1}
    CanLogout = TRUE
CHECK_DEADLOCK FALSE
INVARIANTS StartComes DoingEnds
PROPERTIES SuccessIsKept Settled
