-------------------------- MODULE MCRecoveryWorkflow --------------------------
(***************************************************************************)
(* Small instances of RecoveryWorkflow for TLC: one vault, one or two      *)
(* processes, an owner who can lengthen the clawback window under the same *)
(* keys, and users who supply the new recovery phrase or let the tool      *)
(* generate it.                                                            *)
(***************************************************************************)
EXTENDS RecoveryWorkflow, TLC

CONSTANTS
    va,                \* the vault
    gui, cli,          \* processes
    here,              \* the directory of its files
    passkey, new,      \* custody keys
    phrase, spare,     \* recovery keys the user holds
    gen1, gen2         \* recovery keys the tool generates

MCRecoveryKeys == {phrase, spare, gen1, gen2}

Old    == [custody |-> passkey, recovery |-> phrase, timelock |-> 1]
Longer == [custody |-> passkey, recovery |-> phrase, timelock |-> 2]

MCOwnerLayouts == {Old, Longer}
MCFirstLayout  == [v \in Vaults |-> Old]

OneUnit == [v \in Vaults |-> 1]

SameDir == [v \in Vaults |-> here]

Supplied == [phrase |-> phrase, custody |-> new, recovery |-> spare, timelock |-> Keep]
Shorten  == [phrase |-> phrase, custody |-> new, recovery |-> spare, timelock |-> 1]
Generate == [phrase |-> phrase, custody |-> new, recovery |-> AutoPhrase,  timelock |-> Keep]
Again    == [phrase |-> spare,  custody |-> new, recovery |-> spare, timelock |-> Keep]

SuppliedRequests  == {Supplied, Shorten, Again}
GeneratedRequests == {Generate}
=============================================================================
