SPECIFICATION Spec
CONSTANTS
    va = va
    vb = vb
    passkey = passkey
    new = new
    phrase = phrase
    None = None
    OtherPath = OtherPath
    Elsewhere = Elsewhere
    StartIsSeen = FALSE
    Vaults = {va, vb}
    CustodyKeys = {passkey, new}
    RecoveryKeys = {phrase}
    Timelocks = {1, 2, 3}
    Defaults <- MCDefaults
    Lines <- MCLines
    NextLayouts <- MCLayouts
    MaxLine = 3
    Purses <- MCPurses
    Asks = {va}
    Typings <- MCTypings
    PageSize = 1
    MaxPages = 3
    MaxParents = 2
    MaxWalk = 3
    MaxCoins = 4
INVARIANT
    LocatedIsOwn
