-------------------------------- MODULE Discover --------------------------------
(***************************************************************************)
(* What a lookup reads off the line of coins of a vault, and the layout a  *)
(* start rebuilds from it: src/src/discover.rs, and the classification at  *)
(* the end of workflow.rs's lookup.                                        *)
(*                                                                         *)
(* A line is the sequence of coins of one singleton, oldest first.  Each   *)
(* has its puzzle, how the coin before it was spent to make it, and        *)
(* whether that spend carried the Cloud Wallet memo.                       *)
(***************************************************************************)
EXTENDS VaultPuzzle, Sequences

CONSTANTS
    Defaults,    \* DEFAULT_TIMELOCK_CANDIDATES, in the order they are tried
    OtherPath,   \* a custody path no key has: the hash of a recovery path
    StartIsSeen, \* a start spend is told from a custody spend (see below)
    None         \* an argument that was not given

ASSUME DiscoverAssumption ==
    /\ Timelocks \subseteq Nat
    /\ Defaults \in Seq(Timelocks)
    /\ OtherPath \notin CustodyKeys
    /\ StartIsSeen \in BOOLEAN
    /\ None \notin RecoveryKeys \cup Timelocks

Common == {Defaults[i] : i \in DOMAIN Defaults}

Link == [puzzle : Puzzle, how : {"launch", "custody", "start", "finish"}, memo : BOOLEAN]

-----------------------------------------------------------------------------
(* Clawback guesses.                                                       *)

Unknown     == [kind |-> "unknown"]
Hint(secs)  == [kind |-> "hint", secs |-> secs]
Known(secs) == [kind |-> "known", secs |-> secs]

ClawbackGuess == {Unknown} \cup [kind : {"hint", "known"}, secs : Timelocks]

\* What a lookup knows of a vault: VaultLookup.
Custodies == CustodyKeys \cup {OtherPath}

HintedFacts == [kind : {"hinted"}, layout : Layout]

FoundFacts == [kind : {"found"}, custody : Custodies, current : Puzzle,
               ancestors : SUBSET Puzzle, guess : ClawbackGuess]

Lookup == HintedFacts \cup FoundFacts

WithTyped(guess, typed) == IF typed = None THEN guess ELSE Known(typed)

\* The entries of a list that are not secs, in their order.
Without(list, secs) ==
    LET kept[n \in 0..Len(list)] ==
            IF n = 0 THEN <<>>
            ELSE IF list[n] = secs THEN kept[n - 1]
            ELSE Append(kept[n - 1], list[n])
    IN  kept[Len(list)]

\* A mutant: a hint is tried alone, as a known value is.
CandidatesHintAlone(guess) ==
    CASE guess.kind = "unknown" -> Defaults
      [] OTHER                  -> <<guess.secs>>

Candidates(guess) ==
    CASE guess.kind = "unknown" -> Defaults
      [] guess.kind = "known"   -> <<guess.secs>>
      [] guess.kind = "hint"    ->
            <<guess.secs>> \o Without(Defaults, guess.secs)

-----------------------------------------------------------------------------
(* Lookup.                                                                 *)

(* member_looks_like_recovery wants the 1-of-2 restriction among the       *)
(* delegated puzzle validators of the path that was spent.  The recovery   *)
(* path of a RECOVERY coin, which a finish spends, never has it.  That of  *)
(* a READY coin has it inside one validator which enforces all wrappers    *)
(* (the driver library builds it); StartIsSeen says whether the test finds *)
(* it there.                                                               *)
ReadAsCustody ==
    {"custody", "finish"} \cup (IF StartIsSeen THEN {} ELSE {"start"})

CustodyOf(puzzle) ==
    IF puzzle.state = "READY" THEN puzzle.layout.custody ELSE puzzle.custody

\* The spent coins whose spend reads as a custody spend, newest first wins.
CustodySpends(line) ==
    {i \in 1..(Len(line) - 1) : line[i + 1].how \in ReadAsCustody}

CustodyRead(line, i) ==
    IF line[i + 1].how = "custody" THEN CustodyOf(line[i].puzzle) ELSE OtherPath

\* hinted_config_from_parent: the memo that made the current coin, when the
\* layout in it hashes to that coin and its timelock can be recognised.
HintedBy(line, candidates) ==
    LET now == line[Len(line)]
    IN  IF /\ now.memo
           /\ now.puzzle.state = "READY"
           /\ now.puzzle.layout.timelock \in candidates
        THEN {[kind |-> "hinted", layout |-> now.puzzle.layout]}
        ELSE {}

\* The newest custody spend but for those of lost, which no node answered.
FoundFrom(line, lost) ==
    LET read == CustodySpends(line) \ lost
    IN  {[kind      |-> "found",
          custody   |-> CustodyRead(line, i),
          current   |-> line[Len(line)].puzzle,
          ancestors |-> {line[j].puzzle : j \in 1..(Len(line) - 1)},
          guess     |-> Unknown] :
            i \in {i \in read : \A j \in read : j <= i}}

\* The kinds of request that a node answers with nothing: for a coin at the
\* address, for the spend with the memo, for a custody spend.
Misses == {"coin", "memo", "spend"}

\* What lookup can answer when requests in missed came to nothing.  {} stands
\* for the two gaps, SingletonNeverSpent and NoCustodySpend.
LookupAnswers(line, extra, missed) ==
    LET hinted == HintedBy(line, extra \cup Common)
    IN  IF "memo" \notin missed /\ hinted # {} THEN {hinted}
        ELSE IF "spend" \notin missed THEN {FoundFrom(line, {})}
        ELSE {FoundFrom(line, lost) : lost \in SUBSET CustodySpends(line)}

-----------------------------------------------------------------------------
(* The layout of a start.                                                  *)

ReconstructConfig(found, words, secs) ==
    [custody |-> found.custody, recovery |-> words, timelock |-> secs]

Matches(found, layout) ==
    Ready(layout) \in {found.current} \cup found.ancestors

\* A mutant: a value the user typed is believed.
ReconstructTrusting(found, words, guess) ==
    LET tried    == Candidates(guess)
        layout(i) == ReconstructConfig(found, words, tried[i])
    IN  {layout(i) : i \in
            {i \in DOMAIN tried : guess.kind = "known" \/ Matches(found, layout(i))}}

\* The first candidate that matches the coin or an ancestor: one or none.
Reconstruct(found, words, guess) ==
    LET tried    == Candidates(guess)
        layout(i) == ReconstructConfig(found, words, tried[i])
    IN  {layout(i) : i \in
            {i \in DOMAIN tried :
                /\ Matches(found, layout(i))
                /\ \A j \in 1..(i - 1) : ~Matches(found, layout(j))}}

\* The phrase must be one of the hint; a typed clawback must agree with it.
ConfirmHinted(layout, words, typed) ==
    /\ words # None => words = layout.recovery
    /\ typed # None => typed = layout.timelock

\* A mutant: a check with nothing typed saves what is in the field, nothing.
CheckClawbackAlways(found, words, typed) ==
    IF words = None THEN {Hint(typed)}
    ELSE {Known(layout.timelock) :
            layout \in Reconstruct(found, words, WithTyped(Unknown, typed))}

\* The guess to save after a check of the clawback: one or none.
CheckClawback(found, words, typed) ==
    IF words = None
    THEN IF typed = None THEN {} ELSE {Hint(typed)}
    ELSE {Known(layout.timelock) :
            layout \in Reconstruct(found, words, WithTyped(Unknown, typed))}
=============================================================================
