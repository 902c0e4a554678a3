SPECIFICATION FairSpec
CONSTANTS
    b1 = b1
    b2 = b2
    s1 = s1
    s2 = s2
    s3 = s3
    Gift = {b1, b2, s1, s2, s3}
    Special = {b1, b2}
    Weight <- MCWeight
    None = None
INVARIANTS Attended TakenByCard ByWeight
PROPERTIES GiftComes
CHECK_DEADLOCK FALSE
