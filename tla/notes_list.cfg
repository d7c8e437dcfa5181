SPECIFICATION FairSpec
CONSTANTS
    NoteIds = {n1, n2}
    NoNote = NoNote
    PurchaseIds = {1, 2}
    Loads = {1, 2, 3}
    Searches <- MCSearches
    Events = {"error"}
    Deletable = {n2}
INVARIANTS
    TypeOK
    ListsDisjoint
    BoughtAreListed
PROPERTIES
    BoughtStayListed
    LoadsEnd
