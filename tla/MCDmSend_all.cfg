SPECIFICATION FairSpec
CONSTANTS
    Msg = {m1, m2}
    Call = {c1, c2}
    NoCall = NoCall
    NoDialog = NoDialog
INVARIANTS
    SpinnerAttended
    FirstJobGuarded
PROPERTIES
    SuccessIsFinal
    DeletedStaysDeleted
    SpinnerSettles
