----------------------------- MODULE AtomicLookup -----------------------------
(***************************************************************************)
(* What a lookup promises whoever types an address, with no requests, no   *)
(* pages and no walk: at one moment between question and answer it looks   *)
(* at the coins of one vault, all at once, and answers what they say.  When *)
(* a coin at the address had been spent before the question, that vault is *)
(* the one of the address.                                                 *)
(*                                                                         *)
(* Nodes may miss what they are asked for, and the lookup is told.  When it *)
(* is a coin of the address, any vault may be looked at, or none; when it   *)
(* is something of the vault, the answer says less of that same moment.    *)
(***************************************************************************)
EXTENDS Naturals, Sequences

CONSTANTS
    Vaults, Asks, Typings,
    Misses,          \* what can be missed; "coin" is a coin at the address
    Answers(_, _, _) \* what the coins of a vault may say, given what was typed
                     \* and what was missed

VARIABLES
    line,   \* line[v]: the coins of v so far
    used,   \* the vaults with a spent coin at their address
    lookup  \* the lookup: what is asked, what is seen, and what is answered

vars == <<line, used, lookup>>

Idle == [pc |-> "idle"]

Init == lookup = Idle

\* Coins are made and spent, none is unmade.
World ==
    /\ \A v \in Vaults :
        /\ Len(line[v]) <= Len(line'[v])
        /\ \A i \in 1..Len(line[v]) : line'[v][i] = line[v][i]
    /\ used \subseteq used'
    /\ UNCHANGED lookup

Step(stage) == lookup' = stage /\ UNCHANGED <<line, used>>

Ask(v, typed) ==
    /\ lookup = Idle
    /\ Step([pc |-> "asked", ask |-> v, typed |-> typed, sure |-> v \in used, missed |-> {}])

Miss(what) ==
    /\ lookup.pc \in {"asked", "seen"}
    /\ Step([lookup EXCEPT !.missed = @ \cup {what}])

\* The vault is certain.
Sure == lookup.sure /\ "coin" \notin lookup.missed

\* The one moment.
Look(v) ==
    /\ lookup.pc = "asked"
    /\ Sure => v = lookup.ask
    /\ Step([pc |-> "seen", ask |-> lookup.ask, typed |-> lookup.typed,
             missed |-> lookup.missed, of |-> {v}, coins |-> {line[v]}])

\* No vault is found.
LookNowhere ==
    /\ lookup.pc = "asked"
    /\ ~Sure
    /\ Step([pc |-> "answered", ask |-> lookup.ask, of |-> {}, answer |-> {}])

\* The answer is of what was seen then.
Answer ==
    /\ lookup.pc = "seen"
    /\ \E coins \in lookup.coins :
        \E answer \in Answers(coins, lookup.typed, lookup.missed) :
            Step([pc |-> "answered", ask |-> lookup.ask, of |-> lookup.of, answer |-> answer])

\* The answer is used, or the lookup ends with an error.
Return == lookup # Idle /\ Step(Idle)

Next ==
    \/ World
    \/ \E v \in Asks, typed \in Typings : Ask(v, typed)
    \/ \E what \in Misses : Miss(what)
    \/ \E v \in Vaults : Look(v)
    \/ LookNowhere
    \/ Answer
    \/ Return

Spec == Init /\ [][Next]_vars
=============================================================================
