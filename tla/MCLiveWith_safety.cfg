SPECIFICATION CallSpec
CONSTANTS
    Host = host
    Me = me
    Other = {a, b}
    NoList = NoList
    Empty = Empty
    MaxCall = 4
    MaxDelayed = 1
SYMMETRY OtherSymmetry
INVARIANTS CallTypeOK WindowsInOrder ScreenIsCurrent ShownIsSending
CHECK_DEADLOCK FALSE
