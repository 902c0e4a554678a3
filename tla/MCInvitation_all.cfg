SPECIFICATION Spec
CONSTANTS
    Invite = {i1, i2}
    None = None
PROPERTIES TimeHidesOwn AgreedStands InviteAnswered
