SPECIFICATION Spec
CONSTANTS
    va = va
    vb = vb
    aa = aa
    ab = ab
    gui = gui
    cli = cli
    passkey = passkey
    new = new
    phrase = phrase
    spare = spare
    None = None
    OtherPath = OtherPath
    StartIsSeen = TRUE
    Vaults = {va}
    Addresses = {aa}
    Locates <- MCLocates
    Guis = {}
    Clis = {cli}
    CustodyKeys = {passkey, new}
    RecoveryKeys = {phrase, spare}
    Timelocks = {1, 2, 3}
    Defaults <- MCDefaults
    Lines <- NewLine
    NextLayouts <- Rekeyed
    Phrases = {phrase}
    Secs = {}
    MaxLine = 4
INVARIANTS
    SavedCustodyIsCustody
