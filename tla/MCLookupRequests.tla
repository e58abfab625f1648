---------------------------- MODULE MCLookupRequests ----------------------------
(***************************************************************************)
(* Small instances of LookupRequests: a vault that is looked up, another   *)
(* vault and another wallet that pay to it, and an owner who moves on.     *)
(***************************************************************************)
EXTENDS LookupRequests

CONSTANTS
    va, vb,       \* vaults
    passkey, new, \* custody keys
    phrase        \* the recovery key

Of(custody, secs) == [custody |-> custody, recovery |-> phrase, timelock |-> secs]

MCDefaults == <<1, 2>>

Launched == [puzzle |-> Ready(Of(passkey, 1)), how |-> "launch", memo |-> TRUE]
Sent     == [puzzle |-> Ready(Of(passkey, 1)), how |-> "custody", memo |-> FALSE]

Started  == [puzzle |-> InRecovery(Of(passkey, 1), Of(new, 3), 1), how |-> "start",
             memo |-> FALSE]

\* A vault that used its custody once, and one that never did.
MCLines   == {<<Launched, Sent>>, <<Launched, Started>>}
MCLayouts == {Of(new, 3)}

Paid(owner, parent, cat) == [owner |-> owner, parent |-> parent, odd |-> FALSE, cat |-> cat]

\* An address that has spent, one that has not and may be paid by a wallet that
\* another vault paid, and one that has only CATs.
MCPurses ==
    {<<Paid(va, 0, FALSE), Paid(vb, 0, FALSE), Paid(Elsewhere, 1, FALSE)>>,
     <<Paid(va, 0, FALSE), Paid(vb, 0, FALSE), Paid(Elsewhere, 2, FALSE)>>,
     <<Paid(Elsewhere, 0, FALSE), Paid(va, 0, TRUE), Paid(vb, 0, TRUE)>>}

MCTypings == {{}, {3}}
=============================================================================
