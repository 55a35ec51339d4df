CONSTANTS
    a = a
    b = b
    NONE = NONE
    Names <- MCNames
    DefaultName = b
    MaxCluster = 4
    Slots = 2
    MaxRows = 3
    PathMax = 1
    NoteMax = 1
    Texts <- MCTexts
    Initial <- MCInitial
    MaxOps = 3
SPECIFICATION ExplorerSpec
INVARIANTS
    ExplorerTypeOK
    
PROPERTIES
    PathFollows
    
