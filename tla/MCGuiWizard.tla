------------------------------ MODULE MCGuiWizard ------------------------------
(***************************************************************************)
(* Small instances of GuiWizard: one window, one process of the CLI, one   *)
(* or two vaults, each with a directory of its own or all in one.          *)
(***************************************************************************)
EXTENDS GuiWizard

CONSTANTS
    va, vb,            \* vaults
    gui, cli,          \* processes
    here, there,       \* directories
    passkey, new,      \* custody keys
    old, spare,        \* recovery keys the user holds
    gen1, gen2         \* recovery keys the tool generates

MCRecoveryKeys == {old, spare, gen1, gen2}

Old    == [custody |-> passkey, recovery |-> old, timelock |-> 1]
Longer == [custody |-> passkey, recovery |-> old, timelock |-> 2]

JustLonger == {Longer}

MCFirstLayout == [v \in Vaults |-> IF v = va THEN Old ELSE Longer]

OneUnit == [v \in Vaults |-> 1]

OwnDir == [v \in Vaults |-> IF v = va THEN here ELSE there]

SameDir == [v \in Vaults |-> here]

Supplied == [phrase |-> old, custody |-> new, recovery |-> spare, timelock |-> Keep]
Generate == [phrase |-> old, custody |-> new, recovery |-> AutoPhrase, timelock |-> Keep]

\* Made under a phrase that is not that of the first layout.
Again    == [phrase |-> spare, custody |-> new, recovery |-> spare, timelock |-> Keep]

OneRequest    == {Supplied}
TwoRequests   == {Generate, Again}
ThreeRequests == {Supplied, Generate, Again}
=============================================================================
