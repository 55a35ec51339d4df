CONSTANTS
    WinType <- MCWinType
    Icons <- MCIcons
SPECIFICATION Spec
INVARIANTS
    TypeOK
    FocusIsVisible
PROPERTIES
    ChangesAreRepainted
