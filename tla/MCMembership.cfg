CONSTANTS
    a = a
    b = b
    c = c
    i1 = i1
    i2 = i2
    s1 = s1
    s2 = s2
    Users <- MCUsers
    Creator = a
    Joined <- MCJoined
    Registered <- MCRegistered
    Ids <- MCIds
    Slots <- MCSlots
    Link = link
    NoId = none
    MaxCalls = 4
SPECIFICATION MembershipSpec
INVARIANT MembershipTypeOK
INVARIANT MailsWorkOnce
INVARIANT OwnerIsOne
PROPERTY DeadInvitationsAdmitNobody
SYMMETRY MCSymmetry
CHECK_DEADLOCK FALSE
