SPECIFICATION Spec
CONSTANTS
    ann = ann
    bob = bob
    phone = phone
    tablet = tablet
    NoPayment = NoPayment
    Members <- MCMembers
    Devices <- MCDevices
    AuthUser <- TwoMembers
    Price = 750
    PaymentIds = {p1, p2}
    MaxAsks = 1
    Events = {"kill", "error"}
SYMMETRY PaymentSymmetry
INVARIANTS
    TypeOK
    ReviewersPaid
    EarnedBounded
    SerialEarnings
    PaidScreenRemembers
