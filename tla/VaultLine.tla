------------------------------- MODULE VaultLine -------------------------------
(***************************************************************************)
(* The coins of each vault, oldest first, and how a vault moves on while   *)
(* commands look at it.  A coin that was made stays as it was made: only   *)
(* the end of a line is news.                                              *)
(***************************************************************************)
EXTENDS Discover

CONSTANTS
    Lines,        \* what a vault can have been through at first
    NextLayouts,  \* layouts a spend can move a vault to
    MaxLine       \* bound: coins of one vault

\* A spend of a coin that made the next one, and a line of such spends.
SpentTo(before, link) ==
    \/ link.how = "custody" /\ link.puzzle.state = "READY"
    \/ /\ link.how = "start"
       /\ before.state = "READY"
       /\ link.puzzle.state = "RECOVERY"
    \/ /\ link.how = "finish"
       /\ before.state = "RECOVERY"
       /\ link.puzzle = Ready(before.post)

Lived(coins) ==
    /\ coins # <<>>
    /\ coins[1].how = "launch" /\ coins[1].puzzle.state = "READY"
    /\ \A i \in 2..Len(coins) : SpentTo(coins[i - 1].puzzle, coins[i])

ASSUME LineAssumption ==
    /\ Lines \subseteq Seq(Link)
    /\ \A old \in Lines : Lived(old)
    /\ NextLayouts \subseteq Layout
    /\ MaxLine \in Nat

VARIABLE line  \* line[v]: the coins of v so far, see Discover

Newest(v) == line[v][Len(line[v])].puzzle

Extend(v, link) ==
    /\ Len(line[v]) < MaxLine
    /\ line' = [line EXCEPT ![v] = Append(@, link)]

CustodySpend(v, layout, memo) ==
    Extend(v, [puzzle |-> Ready(layout), how |-> "custody", memo |-> memo])

EnterRecovery(v, post) ==
    /\ Newest(v).state = "READY"
    /\ Extend(v, [puzzle |-> InRecovery(Newest(v).layout, post, 1), how |-> "start",
                  memo |-> FALSE])

LeaveRecovery(v) ==
    /\ Newest(v).state = "RECOVERY"
    /\ Extend(v, [puzzle |-> Ready(Newest(v).post), how |-> "finish", memo |-> FALSE])

LineInit == line \in [Vaults -> Lines]

LineStep(v) ==
    \/ \E layout \in NextLayouts, memo \in BOOLEAN : CustodySpend(v, layout, memo)
    \/ \E post \in NextLayouts : EnterRecovery(v, post)
    \/ LeaveRecovery(v)

-----------------------------------------------------------------------------

\* The layouts v has been READY with.
Past(v) == {line[v][i].puzzle.layout :
                i \in {i \in DOMAIN line[v] : line[v][i].puzzle.state = "READY"}}
=============================================================================
