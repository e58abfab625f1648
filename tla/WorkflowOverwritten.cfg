SPECIFICATION Spec
CONSTANTS
    va = va
    gui = gui
    cli = cli
    here = here
    passkey = passkey
    new = new
    phrase = phrase
    spare = spare
    gen1 = gen1
    gen2 = gen2
    AutoPhrase = AutoPhrase
    Keep = Keep
    Vaults = {va}
    Procs = {gui}
    Dirs = {here}
    DirOf <- SameDir
    CustodyKeys = {passkey, new}
    RecoveryKeys <- MCRecoveryKeys
    GeneratedKeys = {gen1, gen2}
    Timelocks = {1, 2}
    Amount <- OneUnit
    FirstLayout <- MCFirstLayout
    OwnerLayouts <- MCOwnerLayouts
    Requests <- GeneratedRequests
    Retry = "any"
    AtomicWrites = TRUE
    MaxFaults = 1
    MaxAge = 2
    MaxSeq = 3
INVARIANTS
    FinishFilesMatchChain
