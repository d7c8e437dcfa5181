SPECIFICATION Spec
CONSTANTS
    ann = ann
    bob = bob
    org = org
    phone = phone
    tablet = tablet
    NoOrder = NoOrder
    Members <- MCMembers
    Devices = {phone}
    AuthUser <- OnePhone
    ThisUser <- OnePhone
    Organizer = org
    Capacity = 9
    Price = 2
    OrderIds = {o1, o2}
    Picks = {3}
    Events = {}
INVARIANT MemberLimit
