SPECIFICATION Spec
CONSTANTS
    va = va
    vb = vb
    aa = aa
    ab = ab
    gui = gui
    cli = cli
    passkey = passkey
    new = new
    phrase = phrase
    spare = spare
    None = None
    OtherPath = OtherPath
    StartIsSeen = FALSE
    Vaults = {va, vb}
    Addresses = {aa}
    Locates <- MCLocates
    Guis = {gui}
    Clis = {cli}
    CustodyKeys = {passkey, new}
    RecoveryKeys = {phrase, spare}
    Timelocks = {1, 2, 3}
    Defaults <- MCDefaults
    Lines <- OldLines
    NextLayouts <- Longer
    Phrases = {phrase}
    Secs = {2}
    MaxLine = 3
INVARIANTS
    TypeOK
    PreparedWasOnChain
    VerifiedWasOnChain
    UnchangedVaultPrepares
SYMMETRY MCSymmetry
CONSTRAINT MCOneMoves
