SPECIFICATION Spec
CONSTANTS
    NoteIds = {n1, n2}
    NoNote = NoNote
    PurchaseIds = {1, 2}
    Loads = {1, 2}
    Deletable = {}
    Searches <- MCSearches
    Events = {}
INVARIANT AllNotesLoad
