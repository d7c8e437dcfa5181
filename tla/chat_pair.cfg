SPECIFICATION FairSpec
CONSTANTS
    ann = ann
    bob = bob
    Members <- MCMembers
    Screens = {1, 2, 3}
    Owner <- MCOwner
    ChatIds = {1, 2}
    NoChat = 0
    MaxComing = 1
    Sizes <- MCSizes
    MsgIds = {m1}
    Events = {"kill", "error", "reject", "swipe"}
CHECK_DEADLOCK FALSE
INVARIANTS
    TypeOK
    ChatsAddedUnknowing
    FreshScreensMeet
PROPERTIES
    ImplementsMailbox
    SnapshotKeepsThread
    ReachesReader
