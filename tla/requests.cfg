SPECIFICATION Spec
CONSTANTS
    Devices = {phone, tablet}
    RequestIds = {1, 2}
    NoRequest = NoRequest
    MaxRefused = 2
    Events = {"kill", "error"}
SYMMETRY DashboardSymmetry
INVARIANTS
    TypeOK
    AcceptedNotLost
    AcceptedOnce
    RowsStay
