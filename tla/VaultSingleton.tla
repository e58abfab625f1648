---------------------------- MODULE VaultSingleton ----------------------------
(***************************************************************************)
(* The vault singletons as the tool meets them: one unspent coin per       *)
(* vault, its age, and the spend of it the network holds.  What a coin can *)
(* become is fixed by the puzzle the tool hashes; when it becomes that is  *)
(* up to the network, and to whoever holds the custody key.                *)
(***************************************************************************)
EXTENDS VaultPuzzle

CONSTANTS
    Amount,        \* Amount[v]: the odd amount of the singleton of v
    FirstLayout,   \* FirstLayout[v]: the layout v was launched with
    OwnerLayouts,  \* layouts the custody holder may move a vault to
    MaxAge,        \* bound: ages from this on are not told apart
    MaxSeq         \* bound: coins of one singleton

ASSUME VaultAssumption ==
    /\ Timelocks \subseteq Nat
    /\ MaxAge \in Nat
    /\ \A t \in Timelocks : t <= MaxAge
    /\ MaxSeq \in Nat
    /\ Amount \in [Vaults -> Nat]
    /\ FirstLayout \in [Vaults -> Layout]
    /\ OwnerLayouts \subseteq Layout

VARIABLES
    coin,  \* coin[v]: the unspent coin, a serial number and its puzzle
    age,   \* age[v]: ticks since that coin was confirmed
    pool,  \* pool[v]: the spends of that coin the network holds (one at most)
    past,  \* past[v]: every layout v has been READY with (history)
    last   \* last[v]: the one it was READY with last (history)

chainVars == <<coin, age, pool, past, last>>

-----------------------------------------------------------------------------
(* A start is signed for one coin by a recovery key; a finish needs no     *)
(* signature.  Both name the layout they commit to.                        *)
StartSpend(seq, post, signer) ==
    [kind |-> "start", seq |-> seq, post |-> post, signer |-> signer]

FinishSpend(seq, post) == [kind |-> "finish", seq |-> seq, post |-> post]

Spend ==
    [kind : {"start"}, seq : Nat, post : Layout, signer : RecoveryKeys]
        \cup [kind : {"finish"}, seq : Nat, post : Layout]

-----------------------------------------------------------------------------

IsReady(v)    == coin[v].puzzle.state = "READY"
IsRecovery(v) == coin[v].puzzle.state = "RECOVERY"

Matured(v) == age[v] >= coin[v].puzzle.timelock

\* The puzzle of the current coin runs with spend s, timelock aside.
Runs(v, s) ==
    /\ s.seq = coin[v].seq
    /\ \/ /\ s.kind = "start"
          /\ IsReady(v)
          /\ s.signer = coin[v].puzzle.layout.recovery
       \/ /\ s.kind = "finish"
          /\ IsRecovery(v)
          /\ s.post = coin[v].puzzle.post

\* A node takes a spend it already holds, and refuses a second one of a coin.
Accepts(v, s) ==
    /\ Runs(v, s)
    /\ s.kind = "finish" => Matured(v)
    /\ pool[v] \subseteq {s}

NewCoin(v, puzzle) ==
    /\ coin' = [coin EXCEPT ![v] = [seq |-> coin[v].seq + 1, puzzle |-> puzzle]]
    /\ age'  = [age EXCEPT ![v] = 0]
    /\ pool' = [pool EXCEPT ![v] = {}]

BecomesReady(v, layout) ==
    /\ NewCoin(v, Ready(layout))
    /\ past' = [past EXCEPT ![v] = @ \cup {layout}]
    /\ last' = [last EXCEPT ![v] = layout]

-----------------------------------------------------------------------------
(* Steps of the network and of the custody holder.                         *)

ConfirmStart(v) ==
    \E s \in pool[v] :
        /\ s.kind = "start"
        /\ coin[v].seq + 2 <= MaxSeq
        /\ NewCoin(v, InRecovery(coin[v].puzzle.layout, s.post, Amount[v]))
        /\ UNCHANGED <<past, last>>

\* The mutant a timelock missing from the finish output would give.
ConfirmFinishEarly(v) ==
    \E s \in pool[v] :
        /\ s.kind = "finish"
        /\ BecomesReady(v, s.post)

ConfirmFinish(v) ==
    \E s \in pool[v] :
        /\ s.kind = "finish"
        /\ Matured(v)
        /\ BecomesReady(v, s.post)

\* The custody path spends either state: a send, a rekey, or a clawback.
CustodySpend(v) ==
    \E layout \in OwnerLayouts :
        /\ coin[v].seq + 2 <= MaxSeq
        /\ BecomesReady(v, layout)

\* Zero-fee spends are the first to leave a full mempool.
Evict(v) ==
    /\ pool[v] # {}
    /\ pool' = [pool EXCEPT ![v] = {}]
    /\ UNCHANGED <<coin, age, past, last>>

Tick ==
    /\ \E v \in Vaults : age[v] < MaxAge
    /\ age' = [v \in Vaults |-> IF age[v] < MaxAge THEN age[v] + 1 ELSE age[v]]
    /\ UNCHANGED <<coin, pool, past, last>>

ChainInit ==
    /\ coin = [v \in Vaults |-> [seq |-> 1, puzzle |-> Ready(FirstLayout[v])]]
    /\ age  = [v \in Vaults |-> 0]
    /\ pool = [v \in Vaults |-> {}]
    /\ past = [v \in Vaults |-> {FirstLayout[v]}]
    /\ last = FirstLayout

ChainTypeOK ==
    /\ coin \in [Vaults -> [seq : Nat, puzzle : Puzzle]]
    /\ age \in [Vaults -> Nat]
    /\ pool \in [Vaults -> SUBSET Spend]
    /\ past \in [Vaults -> SUBSET Layout]
    /\ last \in [Vaults -> Layout]

=============================================================================
