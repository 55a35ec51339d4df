CONSTANTS
    MaxCluster = 4
    SLOTS = 1
    n1 = n1
    n2 = n2
    a = a
    b = b
    Names <- MCNames
    Values = {a, b}
    Texts <- MCLongTexts
    Zero = zero
    Deleted = deleted
    Orphan = orphan
    MaxOps = 4
SPECIFICATION FairSpec
INVARIANTS
    NamesAreUnique
    NothingLeaks
PROPERTY OperationsReturn
