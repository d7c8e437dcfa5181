SPECIFICATION FairSpec
CHECK_DEADLOCK FALSE
CONSTANTS
    me = me
    ann = ann
    bob = bob
    c1 = c1
    c2 = c2
    c3 = c3
    Me = me
    Others = {ann, bob}
    Chats <- MCChats
    With <- MCWith
    Loads = {l1, l2}
    Cells = {x1, x2}
    NoChat = NoChat
    NoUser = NoUser
    MaxUnderWay = 2
    Events = {"error"}
INVARIANTS
    TypeOK
    RosterComplete
    RowsNamed
PROPERTIES
    RosterShown
