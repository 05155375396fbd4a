CONSTANTS
    Item <- MCItem
    BufferLen = 2
    MaxItems = 5
SPECIFICATION FairSpec
INVARIANTS
    IInv
    WindowExact
    NothingLost
PROPERTIES
    ImplementsWindow
