CONSTANTS
    MaxLba = 2
    DISK_CACHE_LINES = 2
    Data = {zero, a}
    Zero = zero
SPECIFICATION Spec
INVARIANTS
    LinesMirrorDisk
    ReadsAreExplained
    AcknowledgedIsDurable
