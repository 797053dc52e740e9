SPECIFICATION CollabSpec
CONSTANTS
    Users = {boss, u1}
    Owner = boss
    Chats = {c1, c2}
    Names = {1, 2}
    MaxGroups = 2
    MaxUpdates = 2
    MaxUpsets = 1
SYMMETRY Symmetry
CHECK_DEADLOCK FALSE
INVARIANTS GroupsKnowTheirAgent NoPhantomGroups PurposeIsKept
PROPERTIES SetupByExecutives
