CONSTANTS
    MaxCluster = 5
    SLOTS = 2
    n1 = n1
    n2 = n2
    a = a
    b = b
    Names <- MCNames
    Values = {a, b}
    Texts <- MCTexts
    Zero = zero
    Deleted = deleted
    Orphan = orphan
    MaxOps = 3
SPECIFICATION Spec
INVARIANTS
    NoCrossLinks
    FilesApart
    FilesReadBack
