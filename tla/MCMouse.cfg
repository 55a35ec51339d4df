CONSTANTS
    Width = 6
    Height = 3
    Buttons = {1}
    Moves <- MCMoves
    MouseWireMax = 6
    MaxLost = 2
SPECIFICATION MouseSpec
INVARIANTS
    FollowsTheHand
    ResyncsAfterCalm
