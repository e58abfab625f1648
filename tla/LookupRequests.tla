----------------------------- MODULE LookupRequests -----------------------------
(***************************************************************************)
(* One lookup, request by request: locate.rs finds the vault that receives *)
(* at an address, chain.rs walks its coins to the unspent one, and the     *)
(* lookup of workflow.rs reads the hint or a custody spend, while money    *)
(* arrives at addresses and vaults move on.  A request may fail, which     *)
(* ends the lookup with an error, or be answered with nothing, after which *)
(* the lookup mostly goes on with less.                                    *)
(*                                                                         *)
(* A coin at an address is locked by a puzzle that names its vault once it *)
(* is revealed, which is when it is spent.  Coins of other wallets name    *)
(* nobody.  A CAT is found by its hint, not by its puzzle hash.            *)
(***************************************************************************)
EXTENDS VaultLine, FiniteSets

CONSTANTS
    Elsewhere,   \* the owner of coins that are no vault's
    Purses,      \* the ledgers there may be at first
    Asks,        \* the addresses asked for, each by its vault
    Typings,     \* the clawbacks typed with them
    PageSize,    \* coins in one page of an answer
    MaxPages,    \* pages read at most
    MaxParents,  \* parents walked at most
    MaxWalk,     \* coins of a vault walked at most
    MaxCoins     \* bound: coins at addresses

Owners == Vaults \cup {Elsewhere}

Coin == [owner : Owners, parent : Nat, odd : BOOLEAN, cat : BOOLEAN]

ASSUME RequestsAssumption ==
    /\ Elsewhere \notin Vaults
    /\ Purses \subseteq Seq(Coin)
    /\ Asks \subseteq Vaults
    /\ Typings \subseteq SUBSET Timelocks
    /\ {PageSize, MaxPages, MaxParents, MaxWalk, MaxCoins} \subseteq Nat \ {0}

VARIABLES
    coins,  \* the coins at addresses, oldest first; a parent is an index, or 0
    op      \* the lookup

vars == <<line, coins, op>>

Idle == [pc |-> "idle"]

(* Of the coins at the address, seen are those read so far and taken for   *)
(* spent are those a page said are.  History: missed, what was answered    *)
(* with nothing, and began, how long each line was and whether the address *)
(* had a spent coin.                                                       *)
Asking ==
    [pc      : {"exact", "hinted", "walk", "hint", "custody", "answered"},
     ask     : Asks,
     typed   : Typings,
     seen    : SUBSET Nat,
     spent   : SUBSET Nat,
     pages   : Nat,
     located : SUBSET Vaults,
     at      : Nat,                   \* the coin the walk has reached
     back    : Nat,                   \* the spent coin to read next
     answer  : SUBSET Lookup,
     missed  : SUBSET Misses,
     began   : [length : [Vaults -> Nat], used : BOOLEAN]]

TypeOK ==
    /\ line \in [Vaults -> Seq(Link)]
    /\ coins \in Seq(Coin)
    /\ op \in {Idle} \cup Asking
    /\ op.pc \in {"walk", "hint", "custody"} => Cardinality(op.located) = 1
    /\ op.pc \in {"hint", "custody"} => \A v \in op.located : op.at \in DOMAIN line[v]

Become(step) == op' = step /\ UNCHANGED <<line, coins>>

-----------------------------------------------------------------------------
(* The ledger of addresses.  The parent of a coin was spent to make it.    *)

IsSpent(c) == \E d \in DOMAIN coins : coins[d].parent = c

AtAddress(v, cat) == {c \in DOMAIN coins : coins[c].owner = v /\ coins[c].cat = cat}

Pay(c, owner, odd) ==
    /\ Len(coins) < MaxCoins
    /\ ~IsSpent(c)
    /\ coins' = Append(coins, [owner |-> owner, parent |-> c, odd |-> odd, cat |-> coins[c].cat])
    /\ UNCHANGED <<line, op>>

-----------------------------------------------------------------------------
(* launcher_from_puzzle_hash.                                              *)

\* What the spend of a coin reveals, unless the node has lost it; 0 is a coin
\* that it does not know.
Revealed(c, lost) == IF c = 0 \/ c \in lost THEN {} ELSE {coins[c].owner} \cap Vaults

\* The parents of c, nearest first, as far as they are walked.  (When a record
\* is lost the walk ends: so are all those before it.)
Parents(c) ==
    LET up[n \in 0..MaxParents] ==
            IF n = 0 THEN c ELSE IF up[n - 1] = 0 THEN 0 ELSE coins[up[n - 1]].parent
    IN  [n \in 1..MaxParents |-> up[n]]

\* The first parent that reveals a vault; only that of an odd coin, which a
\* singleton is, may be further up than its parent.
FromParents(c, lost) ==
    LET parents == Parents(c)
    IN  UNION {Revealed(parents[n], lost) :
            n \in {n \in DOMAIN parents :
                    /\ n = 1 \/ coins[c].odd
                    /\ \A m \in 1..(n - 1) : Revealed(parents[m], lost) = {}}}

\* A mutant: parents are asked before spends.
LauncherFromParentsFirst(seen, spent, lost) ==
    LET sent  == UNION {FromParents(c, lost) : c \in seen \ spent}
        given == UNION {Revealed(c, lost) : c \in spent}
    IN  IF sent # {} THEN sent ELSE given

\* launcher_from_records: a node returns coins in any order, so one of these.
LauncherFrom(seen, spent, lost) ==
    LET given == UNION {Revealed(c, lost) : c \in spent}
        sent  == UNION {FromParents(c, lost) : c \in seen \ spent}
    IN  IF given # {} THEN given ELSE sent

-----------------------------------------------------------------------------
(* The requests of a lookup, in their order.                               *)

Ask(v, typed) ==
    /\ op = Idle
    /\ Become([pc |-> "exact", ask |-> v, typed |-> typed, seen |-> {}, spent |-> {},
               pages |-> 0, located |-> {}, at |-> 0, back |-> 0, answer |-> {},
               missed |-> {},
               began |-> [length |-> [u \in Vaults |-> Len(line[u])],
                          used   |-> \E c \in AtAddress(v, FALSE) : IsSpent(c)]])

\* The coins of the next page, in the order of the ledger.
Page ==
    LET rest == AtAddress(op.ask, FALSE) \ op.seen
    IN  {c \in rest : Cardinality({d \in rest : d < c}) < PageSize}

\* A launcher is found from the coins read, or the lookup goes on at next.
Locate(seen, spent, missed, next) ==
    \E lost \in SUBSET DOMAIN coins :
        LET launchers == LauncherFrom(seen, spent, lost)
            less      == missed \cup (IF lost = {} THEN {} ELSE {"coin"})
        IN  \/ \E v \in launchers :
                  Become([op EXCEPT !.pc = "walk", !.located = {v}, !.missed = less])
            \/ launchers = {} /\ Become([op EXCEPT !.pc = next, !.missed = less])

(* find_coins_by_puzzle_hash, a page at a time.  An answer without a list   *)
(* is an empty last page, one that is truncated but has no cursor a last    *)
(* page.  (An empty page with a cursor is as if its coins told nothing,     *)
(* which is in Locate.)                                                     *)
FindExact ==
    /\ op.pc = "exact"
    /\ LET seen      == op.seen \cup Page
           spent     == op.spent \cup {c \in Page : IsSpent(c)}
           truncated == AtAddress(op.ask, FALSE) \ seen # {}
       IN  \/ /\ truncated /\ op.pages + 1 < MaxPages
              /\ Become([op EXCEPT !.seen = seen, !.spent = spent, !.pages = @ + 1])
           \/ /\ ~(truncated /\ op.pages + 1 < MaxPages)
              /\ Locate(seen, spent, {}, "hinted")
           \/ truncated /\ Locate(seen, spent, {"coin"}, "hinted")
           \/ Locate(op.seen, op.spent, {"coin"}, "hinted")

\* find_coins_by_hint: one page, and to its errors an empty list is the answer.
FindHinted ==
    /\ op.pc = "hinted"
    /\ \E seen \in SUBSET AtAddress(op.ask, TRUE) :
        Locate(seen, {c \in seen : IsSpent(c)}, op.missed, "answered")

\* A mutant: the walk takes a coin that was unspent for spent.
WalkPastUnspent ==
    /\ op.pc = "walk"
    /\ op.at < MaxWalk
    /\ \E v \in op.located :
        LET child == op.at + 1
        IN  Become([op EXCEPT !.at = child, !.back = child - 1,
                              !.pc = IF child <= Len(line[v]) THEN "walk" ELSE "hint"])

\* walk_singleton_chain: the child of the coin it has reached.
Walk ==
    /\ op.pc = "walk"
    /\ op.at < MaxWalk
    /\ \E v \in op.located :
        LET child == op.at + 1
        IN  Become([op EXCEPT !.at = child, !.back = child - 1,
                              !.pc = IF child < Len(line[v]) THEN "walk" ELSE "hint"])

Walked(v) == SubSeq(line[v], 1, op.at)

\* A mutant: the memo is that of the newest coin there is by then.
ReadHintNewest ==
    /\ op.pc = "hint"
    /\ \E v \in op.located :
        LET hinted == HintedBy(line[v], op.typed \cup Common)
        IN  IF hinted # {} THEN Become([op EXCEPT !.pc = "answered", !.answer = hinted])
            ELSE Become([op EXCEPT !.pc = "custody"])

\* hinted_config_from_parent: the memo that made the coin the walk ended at.
\* Without the record of the parent, or its spend, there is none.
ReadHint ==
    /\ op.pc = "hint"
    /\ \/ \E v \in op.located :
            LET hinted == HintedBy(Walked(v), op.typed \cup Common)
            IN  IF hinted # {} THEN Become([op EXCEPT !.pc = "answered", !.answer = hinted])
                ELSE Become([op EXCEPT !.pc = "custody"])
       \/ Become([op EXCEPT !.pc = "custody", !.missed = @ \cup {"memo"}])

Found(v, now) ==
    [kind      |-> "found",
     custody   |-> CustodyRead(Walked(v), op.back),
     current   |-> line[v][now].puzzle,
     ancestors |-> {line[v][i].puzzle : i \in 1..(op.at - 1)},
     guess     |-> Unknown]

\* A mutant: the unspent coin is asked for once more, after the walk.
ReadSpendAndCoin ==
    /\ op.pc = "custody"
    /\ op.back > 0
    /\ \E v \in op.located :
        IF op.back \in CustodySpends(Walked(v))
        THEN Become([op EXCEPT !.pc = "answered", !.answer = {Found(v, Len(line[v]))}])
        ELSE Become([op EXCEPT !.back = @ - 1])

\* The spends of the walk, newest first, to the first that used custody; one
\* that the node does not answer is passed over.
ReadSpend ==
    /\ op.pc = "custody"
    /\ op.back > 0
    /\ \/ \E v \in op.located :
            IF op.back \in CustodySpends(Walked(v))
            THEN Become([op EXCEPT !.pc = "answered", !.answer = {Found(v, op.at)}])
            ELSE Become([op EXCEPT !.back = @ - 1])
       \/ Become([op EXCEPT !.back = @ - 1, !.missed = @ \cup {"spend"}])

\* classify_lookup: no spend, or none by custody.
NoCustody ==
    /\ op.pc = "custody"
    /\ op.back = 0
    /\ Become([op EXCEPT !.pc = "answered"])

\* A request fails, or the walk is too long: an error, or the answer is used.
Return == op # Idle /\ Become(Idle)

-----------------------------------------------------------------------------

Init ==
    /\ LineInit
    /\ coins \in Purses
    /\ op = Idle

Next ==
    \/ \E v \in Vaults : LineStep(v) /\ UNCHANGED <<coins, op>>
    \/ \E c \in DOMAIN coins, owner \in Owners, odd \in BOOLEAN : Pay(c, owner, odd)
    \/ \E v \in Asks, typed \in Typings : Ask(v, typed)
    \/ FindExact
    \/ FindHinted
    \/ Walk
    \/ ReadHint
    \/ ReadSpend
    \/ NoCustody
    \/ Return

Spec == Init /\ [][Next]_vars

-----------------------------------------------------------------------------
(* Properties.                                                             *)

\* An address with a spent coin is resolved to its own vault, whoever pays to
\* it before or during the lookup, as long as the node answers for its coins.
SpentAddressLocates ==
    (op # Idle /\ op.pc # "exact" /\ op.began.used /\ "coin" \notin op.missed) =>
        op.located = {op.ask}

\* A lookup answers what one moment between its first request and its last
\* would have answered, although the vault may have moved on in between: all
\* that was there, but for the memo or the spends a node did not answer.
AnswerIsOfSomeMoment ==
    op.pc = "answered" =>
        IF op.located = {} THEN op.answer = {}
        ELSE \E v \in op.located : \E n \in op.began.length[v]..Len(line[v]) :
                op.answer \in LookupAnswers(SubSeq(line[v], 1, n), op.typed, op.missed)

\* What a lookup has settled: nothing before its walk reaches the unspent coin
\* or it finds no vault.  What it reads later is of the coins it has seen.
Settled ==
    IF op = Idle THEN Idle
    ELSE IF op.pc \in {"exact", "hinted", "walk"}
    THEN [pc |-> "asked", ask |-> op.ask, typed |-> op.typed, sure |-> op.began.used,
          missed |-> op.missed]
    ELSE IF op.pc \in {"hint", "custody"}
    THEN [pc |-> "seen", ask |-> op.ask, typed |-> op.typed, missed |-> op.missed,
          of |-> op.located, coins |-> {Walked(v) : v \in op.located}]
    ELSE [pc |-> "answered", ask |-> op.ask, of |-> op.located, answer |-> op.answer]

Used == {v \in Vaults : \E c \in AtAddress(v, FALSE) : IsSpent(c)}

Atomic ==
    INSTANCE AtomicLookup WITH Answers <- LookupAnswers, used <- Used, lookup <- Settled

\* A lookup of many requests is the one of a single moment: the moment when it
\* settles.
RefinesAtomic == Atomic!Spec

\* What the documents say and the code does not keep to: the launcher found is
\* that of the vault that receives at the address, and an address that never
\* spent yields none but its own.
LocatedIsOwn == op # Idle => op.located \subseteq {op.ask}
=============================================================================
