SPECIFICATION WizardSpec
CONSTANTS
    va = va
    vb = vb
    gui = gui
    cli = cli
    here = here
    there = there
    passkey = passkey
    new = new
    old = old
    spare = spare
    gen1 = gen1
    gen2 = gen2
    AutoPhrase = AutoPhrase
    Keep = Keep
    Elsewhere = Elsewhere
    Vaults = {va}
    Procs = {gui, cli}
    Guis = {gui}
    Dirs = {here}
    DirOf <- SameDir
    CustodyKeys = {passkey, new}
    RecoveryKeys <- MCRecoveryKeys
    GeneratedKeys = {gen1}
    Timelocks = {1, 2}
    Amount <- OneUnit
    FirstLayout <- MCFirstLayout
    OwnerLayouts <- JustLonger
    Requests <- ThreeRequests
    Retry = "wait"
    AtomicWrites = FALSE
    MaxFaults = 1
    MaxAge = 2
    MaxSeq = 4
INVARIANT
    WaitIsOfTakenStart
