SPECIFICATION FairSpec
CONSTANTS
    ann = ann
    bob = bob
    org = org
    phone = phone
    tablet = tablet
    NoOrder = NoOrder
    Members <- MCMembers
    Devices = {phone}
    AuthUser <- OnePhone
    ThisUser <- OnePhone
    Organizer = org
    Capacity = 4
    Price = 2
    OrderIds = {o1, o2}
    Picks = {1, 2, 3}
    Events = {"load", "start"}
INVARIANTS
    TypeOK
    PickedWithinAllowance
PROPERTIES
    PaidGetsTicket
    ImplementsLedger
