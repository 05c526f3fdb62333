SPECIFICATION Spec
CONSTANTS
    Orgs = {"o1", "o2"}
    Invs = {"i1", "i2"}
    Users = {"u1", "u2", "u3"}
    Coros = {c1, c2}
    Slugs = {"s"}
    Suffix <- MCSuffix
    Emails = {"e3"}
    Email <- MCEmail
    Roles = {"owner", "member"}
    MaxMembers = 2
    MaxInvites = 1
    Seeds <- MCSeeds
    FirstOrg = "o1"
    MaxFlows = 3
INVARIANT MembershipSound
INVARIANT InvitationsSound
SYMMETRY MCSymmetry
CHECK_DEADLOCK FALSE
