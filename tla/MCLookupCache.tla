----------------------------- MODULE MCLookupCache -----------------------------
(***************************************************************************)
(* Small instances of LookupCache: one GUI and one CLI process, an owner   *)
(* who changes the clawback window or the custody key, a recovery that is  *)
(* entered and left, and users who type a right or a wrong clawback.       *)
(***************************************************************************)
EXTENDS LookupCache, TLC

CONSTANTS
    va, vb,       \* vaults
    aa, ab,       \* their addresses
    gui, cli,     \* processes
    passkey, new, \* custody keys
    phrase, spare \* recovery keys

Of(custody, secs) == [custody |-> custody, recovery |-> phrase, timelock |-> secs]

\* A lookup of aa may also take the vault that sent to it.
MCLocates == [a \in Addresses |-> IF a = aa THEN Vaults ELSE {vb}]

\* In the instance with one address its two vaults are alike.
MCSymmetry == Permutations({va, vb})

MCDefaults == <<1, 2>>

Launched(layout)     == [puzzle |-> Ready(layout), how |-> "launch", memo |-> FALSE]
Sent(layout)         == [puzzle |-> Ready(layout), how |-> "custody", memo |-> FALSE]
Started(layout, post) ==
    [puzzle |-> InRecovery(layout, post, 1), how |-> "start", memo |-> FALSE]

Used(layout)         == <<Launched(layout), Sent(layout)>>
Waiting(layout, post) == <<Launched(layout), Started(layout, post)>>

OldLines   == {Used(Of(passkey, 1)), Waiting(Of(passkey, 1), Of(new, 2))}
OldLine    == {Used(Of(passkey, 1))}
NewLine    == {<<Launched(Of(passkey, 1))>>}

\* One of the vaults has moved on or is in a recovery, either of them.
MCOneMoves == \E v \in Vaults : line[v] \in OldLine

Longer  == {Of(passkey, 2)}
Rekeyed == {Of(new, 2)}
=============================================================================
