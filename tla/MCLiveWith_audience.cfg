SPECIFICATION CallSpec
CONSTANTS
    Host = host
    Me = me
    Other = {a, b}
    NoList = NoList
    Empty = Empty
    MaxCall = 4
    MaxDelayed = 1
SYMMETRY OtherSymmetry
INVARIANT HungUpIsAudience
CHECK_DEADLOCK FALSE
