------------------------------ MODULE VaultPuzzle ------------------------------
(***************************************************************************)
(* What a vault coin commits to, after src/src/vault.rs.  A vault is a     *)
(* 1-of-2 of a custody path and a recovery path; hashes are injective, so  *)
(* a puzzle hash is modelled by the record of what is hashed.  The         *)
(* launcher id is curried in as well: a puzzle is always that of a named   *)
(* vault, and the modules keep it beside the puzzle.                       *)
(***************************************************************************)
EXTENDS Naturals

CONSTANTS
    Vaults,        \* launcher ids
    CustodyKeys,   \* custody paths (a key or a hash)
    RecoveryKeys,  \* recovery public keys, one per phrase
    Timelocks      \* clawback timelocks

\* A vault config: what the tool calls the public layout of a vault.
Layout == [custody : CustodyKeys, recovery : RecoveryKeys, timelock : Timelocks]

\* READY commits to the custody path, the recovery key and the timelock.
Ready(layout) == [state |-> "READY", layout |-> layout]

\* RECOVERY commits to the custody path, which can still claw back, to the
\* timelock, and to the one output a finish may create: a layout and an
\* amount.  The old recovery key is no longer in it.
InRecovery(layout, post, amount) ==
    [state    |-> "RECOVERY",
     custody  |-> layout.custody,
     timelock |-> layout.timelock,
     post     |-> post,
     amount   |-> amount]

Puzzle ==
    [state : {"READY"}, layout : Layout]
        \cup [state : {"RECOVERY"}, custody : CustodyKeys, timelock : Timelocks,
              post : Layout, amount : Nat]
=============================================================================
