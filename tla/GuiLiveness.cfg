SPECIFICATION WizardFairSpec
CONSTANTS
    va = va
    vb = vb
    gui = gui
    cli = cli
    here = here
    there = there
    passkey = passkey
    new = new
    old = old
    spare = spare
    gen1 = gen1
    gen2 = gen2
    AutoPhrase = AutoPhrase
    Keep = Keep
    Elsewhere = Elsewhere
    Vaults = {va, vb}
    Procs = {gui}
    Guis = {gui}
    Dirs = {here, there}
    DirOf <- OwnDir
    CustodyKeys = {passkey, new}
    RecoveryKeys <- MCRecoveryKeys
    GeneratedKeys = {gen1}
    Timelocks = {1, 2}
    Amount <- OneUnit
    FirstLayout <- MCFirstLayout
    OwnerLayouts <- JustLonger
    Requests <- OneRequest
    Retry = "same"
    AtomicWrites = TRUE
    MaxFaults = 1
    MaxAge = 2
    MaxSeq = 3
INVARIANTS
    FinishesShownVault
    FinishFilesMatchChain
PROPERTIES
    WaitMovesOn
