CONSTANTS
    W = 5
    H = 2
    LINE_MAX = 4
    HIST_MAX = 2
    Chars <- MCChars
    Commands <- MCCommands
    Dirs <- MCDirs
    CdArgs <- MCCdArgs
SPECIFICATION Spec
INVARIANTS
    TypeOK
    
    RecallIsRecent
    
