---------------------------- MODULE DelayedRecovery ----------------------------
(***************************************************************************)
(* What delayed recovery promises the owner of a vault, with no coins, no  *)
(* mempool, no files and no processes: a vault changes hands only by its   *)
(* custody key, or by a recovery that somebody holding the recovery key    *)
(* asked for, that commits to exactly what was asked, and that left the    *)
(* custody holder the whole clawback window to undo it.                    *)
(***************************************************************************)
EXTENDS Naturals

CONSTANTS
    Vaults, CustodyKeys, RecoveryKeys, Timelocks, FirstLayout, OwnerLayouts,
    MaxAge,     \* bound: as in VaultSingleton
    Requests,   \* what an owner can ask for
    AutoPhrase, \* "generate a recovery phrase for me"
    Keep        \* "keep the clawback timelock"

VARIABLES
    layout,   \* layout[v]: the layout whose keys govern v
    pending,  \* pending[v]: {} or the layout a started recovery commits to
    age,      \* age[v]: ticks since layout[v] or pending[v] last changed
    asked     \* asked[v]: the requests made for v

vars == <<layout, pending, age, asked>>

Layout == [custody : CustodyKeys, recovery : RecoveryKeys, timelock : Timelocks]

\* A layout answers a request made when the vault was governed by current.
Answers(post, req, current) ==
    /\ post.custody = req.custody
    /\ req.recovery # AutoPhrase => post.recovery = req.recovery
    /\ post.timelock = IF req.timelock = Keep THEN current.timelock ELSE req.timelock

Init ==
    /\ layout  = FirstLayout
    /\ pending = [v \in Vaults |-> {}]
    /\ age     = [v \in Vaults |-> 0]
    /\ asked   = [v \in Vaults |-> {}]

Ask(v, req) ==
    /\ asked' = [asked EXCEPT ![v] = @ \cup {req}]
    /\ UNCHANGED <<layout, pending, age>>

Start(v, req, post) ==
    /\ pending[v] = {}
    /\ req \in asked[v]
    /\ req.phrase = layout[v].recovery
    /\ Answers(post, req, layout[v])
    /\ pending' = [pending EXCEPT ![v] = {post}]
    /\ age'     = [age EXCEPT ![v] = 0]
    /\ UNCHANGED <<layout, asked>>

Finish(v, post) ==
    /\ pending[v] = {post}
    /\ age[v] >= layout[v].timelock
    /\ layout'  = [layout EXCEPT ![v] = post]
    /\ pending' = [pending EXCEPT ![v] = {}]
    /\ age'     = [age EXCEPT ![v] = 0]
    /\ UNCHANGED asked

Custody(v, next) ==
    /\ layout'  = [layout EXCEPT ![v] = next]
    /\ pending' = [pending EXCEPT ![v] = {}]
    /\ age'     = [age EXCEPT ![v] = 0]
    /\ UNCHANGED asked

Tick ==
    /\ age' = [v \in Vaults |-> IF age[v] < MaxAge THEN age[v] + 1 ELSE age[v]]
    /\ UNCHANGED <<layout, pending, asked>>

Next ==
    \/ Tick
    \/ \E v \in Vaults :
        \/ \E req \in Requests : Ask(v, req)
        \/ \E req \in Requests, post \in Layout : Start(v, req, post)
        \/ \E post \in Layout : Finish(v, post)
        \/ \E next \in OwnerLayouts : Custody(v, next)

Spec == Init /\ [][Next]_vars
=============================================================================
