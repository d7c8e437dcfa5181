SPECIFICATION Spec
CONSTANTS
    ann = ann
    bob = bob
    org = org
    phone = phone
    tablet = tablet
    NoOrder = NoOrder
    Members <- MCMembers
    Devices <- MCDevices
    AuthUser <- OneMember
    ThisUser <- OneMember
    Organizer = org
    Capacity = 4
    Price = 2
    OrderIds = {o1, o2}
    Picks = {3}
    Events = {"kill", "reject"}
SYMMETRY OrderSymmetry
INVARIANTS
    TicketsPaidFor
    SerialLimit
    SerialBookingIds
