--------------------------- MODULE LookupCacheProofs ---------------------------
(***************************************************************************)
(* Theorems about LookupCache, for any number of vaults, addresses,        *)
(* processes and clawbacks, and lines of any length: every layout that a   *)
(* start is prepared with, and every clawback saved as verified, was one   *)
(* of the vault a lookup found for the address, be it always the same one  *)
(* or not.                                                                 *)
(***************************************************************************)
EXTENDS LookupCache, VaultLineProofs

-----------------------------------------------------------------------------
(* Lookups, guesses and reconstructions.                                   *)

\* What a lookup of v says is of v.
Good(v, lookup) ==
    /\ lookup.kind = "hinted" => lookup.layout \in Past(v)
    /\ lookup.kind = "found" =>
            /\ {lookup.current} \cup lookup.ancestors \subseteq Puzzles(v)
            /\ lookup.custody \in CustodyPaths(v)
    /\ GuessOf(lookup).kind = "known" =>
            \E layout \in Past(v) : layout.timelock = GuessOf(lookup).secs

LEMMA SecsType ==
    ASSUME NEW lookup \in Lookup
    PROVE  SecsOf(lookup) \in Timelocks \cup {None}
<1>1. CASE lookup \in HintedFacts
  BY <1>1, GuessTypes DEF HintedFacts, Layout, SecsOf, GuessOf
<1>2. CASE lookup \in FoundFacts
  BY <1>2, GuessTypes DEF FoundFacts, SecsOf, GuessOf
<1> QED
  BY <1>1, <1>2 DEF Lookup

\* What the walk down a line answers.
LEMMA LookupAnswersGood ==
    ASSUME LinesType, NEW v \in Vaults, NEW extra, NEW missed,
           NEW answers \in LookupAnswers(line[v], extra, missed), NEW result \in answers
    PROVE  result \in Lookup /\ Good(v, result)
<1> DEFINE n == Len(line[v])
           now == line[v][n]
<1>1. n \in Nat /\ n >= 1 /\ DOMAIN line[v] = 1..n /\ n \in 1..n
  BY LinkOf
<1>2. \A i \in 1..n : line[v][i].puzzle \in Puzzle /\ line[v][i].puzzle \in Puzzles(v)
  BY <1>1, LinkOf DEF Link, Puzzles
<1>3. CASE result \in HintedBy(line[v], extra \cup Common)
  <2>1. /\ now.puzzle.state = "READY"
        /\ result = [kind |-> "hinted", layout |-> now.puzzle.layout]
    BY <1>3 DEF HintedBy
  <2>2. now.puzzle.layout \in Layout /\ now.puzzle = Ready(now.puzzle.layout)
    BY <1>1, <1>2, <2>1, ReadyPuzzle
  <2>3. now.puzzle.layout \in Past(v)
    BY <1>1, <2>1 DEF Past
  <2> HIDE DEF now
  <2>4. result \in Lookup
    BY <2>1, <2>2 DEF Lookup, HintedFacts
  <2>5. GuessOf(result) = Known(now.puzzle.layout.timelock)
    BY <2>1 DEF GuessOf
  <2>6. Good(v, result)
    BY <2>1, <2>3, <2>5 DEF Good, Known
  <2> QED
    BY <2>4, <2>6
<1>4. CASE \E lost : result \in FoundFrom(line[v], lost)
  <2>1. PICK i \in CustodySpends(line[v]) :
            result = [kind      |-> "found",
                      custody   |-> CustodyRead(line[v], i),
                      current   |-> now.puzzle,
                      ancestors |-> {line[v][j].puzzle : j \in 1..(n - 1)},
                      guess     |-> Unknown]
    BY <1>4 DEF FoundFrom
  <2>2. i \in 1..n
    BY <1>1 DEF CustodySpends
  <2>3. CustodyRead(line[v], i) \in Custodies
    <3>1. CustodyOf(line[v][i].puzzle) \in CustodyKeys
      BY <1>2, <2>2 DEF CustodyOf, Puzzle, Layout
    <3> QED
      BY <3>1 DEF CustodyRead, Custodies
  <2>8. CustodyRead(line[v], i) \in CustodyPaths(v)
    BY DEF CustodyPaths
  <2>4. /\ now.puzzle \in Puzzle \cap Puzzles(v)
        /\ {line[v][j].puzzle : j \in 1..(n - 1)} \subseteq Puzzle \cap Puzzles(v)
    BY <1>1, <1>2
  <2> HIDE DEF now, n
  <2>5. result \in Lookup
    BY <2>1, <2>3, <2>4, GuessTypes DEF Lookup, FoundFacts
  <2>6. GuessOf(result) = Unknown
    BY <2>1 DEF GuessOf
  <2>7. Good(v, result)
    BY <2>1, <2>4, <2>6, <2>8 DEF Good, Unknown
  <2> QED
    BY <2>5, <2>7
<1> QED
  BY <1>3, <1>4 DEF LookupAnswers

\* A layout that is rebuilt matches a coin of the line, so it is of the vault.
LEMMA ReconstructGood ==
    ASSUME LinesType, NEW v \in Vaults, NEW found \in FoundFacts, Good(v, found),
           NEW words, NEW guess, NEW layout \in Reconstruct(found, words, guess)
    PROVE  /\ layout \in Layout
           /\ layout \in Past(v)
           /\ layout.recovery = words
<1>1. PICK secs :
          /\ layout = ReconstructConfig(found, words, secs)
          /\ Matches(found, layout)
  BY DEF Reconstruct
<1>2. Ready(layout) \in Puzzles(v)
  BY <1>1 DEF Matches, Good, FoundFacts
<1>3. layout \in Layout
  BY <1>2, PuzzlesType, ReadyLayout
<1>4. layout.recovery = words
  BY <1>1 DEF ReconstructConfig
<1> QED
  BY <1>2, <1>3, <1>4, PastOfPuzzle

\* A clawback that a check with a phrase verifies governed the vault once.
LEMMA CheckGood ==
    ASSUME LinesType, NEW v \in Vaults, NEW found \in FoundFacts, Good(v, found),
           NEW words, NEW typed \in Timelocks \cup {None},
           NEW guess \in CheckClawback(found, words, typed)
    PROVE  /\ guess \in ClawbackGuess
           /\ guess.kind = "known" =>
                /\ guess.secs \in Timelocks
                /\ \E layout \in Past(v) : layout.timelock = guess.secs
<1>1. CASE words = None
  <2>1. typed \in Timelocks /\ guess = Hint(typed)
    BY <1>1 DEF CheckClawback
  <2> QED
    BY <2>1, GuessTypes DEF Hint
<1>2. CASE words # None
  <2>1. PICK layout \in Reconstruct(found, words, WithTyped(Unknown, typed)) :
            guess = Known(layout.timelock)
    BY <1>2 DEF CheckClawback
  <2>2. layout \in Layout /\ layout \in Past(v)
    BY ReconstructGood
  <2>3. layout.timelock \in Timelocks
    BY <2>2 DEF Layout
  <2> QED
    BY <2>1, <2>2, <2>3, GuessTypes DEF Known
<1> QED
  BY <1>1, <1>2

-----------------------------------------------------------------------------
(* Entries.                                                                *)

GoodEntry(e) == e.vault \in Locates[e.address] /\ Good(e.vault, e.lookup)

GoodEntries == {e \in Entry : GoodEntry(e)}

\* What a file or a memory holds: one entry or none.
GoodStores == {entries \in SUBSET GoodEntries : \A one, other \in entries : one = other}

\* A saved guess is typed or verified; a hinted lookup has no place for one.
LEMMA SaveGuess ==
    ASSUME NEW e \in GoodEntries, NEW guess \in ClawbackGuess,
           guess.kind = "known" => \E layout \in Past(e.vault) : layout.timelock = guess.secs
    PROVE  [e EXCEPT !.lookup.guess = guess] \in GoodEntries
<1>1. e \in Entry /\ GoodEntry(e)
  BY DEF GoodEntries
<1> DEFINE lookup == [e.lookup EXCEPT !.guess = guess]
<1>2. [e EXCEPT !.lookup.guess = guess]
        = [address |-> e.address, vault |-> e.vault, lookup |-> lookup]
  BY <1>1 DEF Entry
<1>3. lookup \in Lookup /\ Good(e.vault, lookup)
  <2>1. CASE e.lookup \in HintedFacts
    <3>1. lookup = e.lookup
      BY <2>1 DEF HintedFacts
    <3> QED
      BY <1>1, <3>1 DEF Entry, GoodEntry
  <2>2. CASE e.lookup \in FoundFacts
    <3>1. lookup \in FoundFacts
      BY <2>2 DEF FoundFacts
    <3>2. /\ lookup.kind = "found"
          /\ lookup.current = e.lookup.current
          /\ lookup.ancestors = e.lookup.ancestors
          /\ lookup.custody = e.lookup.custody
          /\ lookup.guess = guess
      BY <2>2 DEF FoundFacts
    <3>3. GuessOf(lookup) = guess
      BY <3>2 DEF GuessOf
    <3>4. e.lookup.kind = "found"
      BY <2>2 DEF FoundFacts
    <3> HIDE DEF lookup
    <3> QED
      BY <1>1, <3>1, <3>2, <3>3, <3>4 DEF GoodEntry, Good, Lookup
  <2> QED
    BY <1>1, <2>1, <2>2 DEF Entry, Lookup
<1> HIDE DEF lookup
<1> QED
  BY <1>1, <1>2, <1>3 DEF GoodEntries, Entry, GoodEntry

LEMMA EntryOf ==
    ASSUME NEW address \in Addresses, NEW v \in Locates[address],
           NEW lookup \in Lookup, Good(v, lookup)
    PROVE  [address |-> address, vault |-> v, lookup |-> lookup] \in GoodEntries
<1>1. v \in Vaults
  BY CacheAssumption
<1> QED
  BY <1>1 DEF GoodEntries, GoodEntry, Entry

\* A lookup that is saved is good, with the guess it may take over.
LEMMA StoredGood ==
    ASSUME NEW entries \in SUBSET GoodEntries, NEW address \in Addresses,
           NEW v \in Locates[address], NEW result \in Lookup, Good(v, result)
    PROVE  EntryToStore(entries, address, v, result) \in GoodEntries
<1> DEFINE saved == Matching(entries, address)
           entry == EntryToStore(entries, address, v, result)
<1>1. CASE ~(result.kind = "found" /\ saved # {})
  <2>1. entry = [address |-> address, vault |-> v, lookup |-> result]
    BY <1>1 DEF EntryToStore
  <2> QED
    BY <2>1, EntryOf
<1>2. CASE result.kind = "found" /\ saved # {}
  <2>1. PICK e \in saved : entry = [address |-> address, vault |-> v,
                                    lookup |-> ReplaceFound(e, v, result)]
    BY <1>2 DEF EntryToStore
  <2>2. e \in Entry /\ GoodEntry(e)
    BY <2>1 DEF Matching, GoodEntries
  <2>3. result \in FoundFacts
    BY <1>2 DEF Lookup, HintedFacts
  <2>4. PICK guess \in ClawbackGuess :
            /\ ReplaceFound(e, v, result) = [result EXCEPT !.guess = guess]
            /\ guess.kind = "known" => \E layout \in Past(v) : layout.timelock = guess.secs
    <3>1. CASE e.lookup.kind = "found" /\ e.vault = v
      <4>1. e.lookup \in FoundFacts
        BY <2>2, <3>1 DEF Entry, Lookup, HintedFacts
      <4>2. e.lookup.guess \in ClawbackGuess /\ GuessOf(e.lookup) = e.lookup.guess
        BY <3>1, <4>1 DEF FoundFacts, GuessOf
      <4> QED
        BY <2>2, <3>1, <4>2 DEF ReplaceFound, GoodEntry, Good
    <3>2. CASE ~(e.lookup.kind = "found" /\ e.vault = v)
      BY <3>2, GuessTypes DEF ReplaceFound, Unknown
    <3> QED
      BY <3>1, <3>2
  <2> DEFINE lookup == [result EXCEPT !.guess = guess]
  <2>5. lookup \in FoundFacts
    BY <2>3 DEF FoundFacts
  <2>6. /\ lookup.kind = "found"
        /\ lookup.current = result.current
        /\ lookup.ancestors = result.ancestors
        /\ lookup.custody = result.custody
        /\ lookup.guess = guess
    BY <2>3 DEF FoundFacts
  <2>7. lookup \in Lookup /\ Good(v, lookup)
    <3> HIDE DEF lookup
    <3>1. GuessOf(lookup) = guess
      BY <2>6 DEF GuessOf
    <3> QED
      BY <1>2, <2>4, <2>5, <2>6, <3>1 DEF Good, Lookup
  <2>8. entry = [address |-> address, vault |-> v, lookup |-> lookup]
    BY <2>1, <2>4
  <2> HIDE DEF lookup
  <2> QED
    BY <2>7, <2>8, EntryOf
<1> QED
  BY <1>1, <1>2

-----------------------------------------------------------------------------
(* The invariant: whatever is saved, held or answered is good.             *)

\* A start has a phrase.
GoodStages ==
    {stage \in {Idle} \cup Stage :
        /\ stage.pc \in {"open", "persist", "check"} =>
                /\ stage.vault \in Locates[stage.cmd.address]
                /\ Good(stage.vault, stage.result)
        /\ stage # Idle => (stage.cmd.does = "start" => stage.cmd.words # None)
        /\ stage.pc = "prepare" => stage.cmd.does = "start"}

GoodStarts ==
    {made \in [address : Addresses, words : RecoveryKeys \cup {None},
               vault : Vaults, layout : Layout] :
        /\ made.vault \in Locates[made.address]
        /\ made.layout \in Past(made.vault)
        /\ made.words = made.layout.recovery}

\* A check is of the vault of the entry its guess will be saved on.
ChecksOwnEntry(stage, entries) ==
    stage.pc = "check" =>
        \A e \in Matching(entries, stage.cmd.address) : e.vault = stage.vault

CheckInv == \A p \in Procs : ChecksOwnEntry(op[p], mem[p])

CacheInv ==
    /\ LinesType
    /\ LinesLived
    /\ file \in GoodStores
    /\ mem \in [Procs -> GoodStores]
    /\ screen \in [Procs -> {"closed", "lookup", "start"}]
    /\ field \in [Procs -> Timelocks \cup {None}]
    /\ op \in [Procs -> GoodStages]
    /\ prepared \in SUBSET GoodStarts
    /\ CheckInv

LEMMA GoodStays ==
    ASSUME Grows
    PROVE  /\ GoodStores \subseteq GoodStores'
           /\ GoodStages \subseteq GoodStages'
           /\ GoodStarts \subseteq GoodStarts'
<1>1. ASSUME NEW v \in Vaults, NEW lookup, Good(v, lookup)
      PROVE  Good(v, lookup)'
  BY <1>1 DEF Grows, Good
<1>3. GoodEntries \subseteq GoodEntries'
  BY <1>1 DEF GoodEntries, GoodEntry, Entry
<1>4. GoodStages \subseteq GoodStages'
  <2> SUFFICES ASSUME NEW stage \in GoodStages PROVE stage \in GoodStages'
    OBVIOUS
  <2>1. stage.pc \in {"open", "persist", "check"} => stage.vault \in Vaults
    BY DEF GoodStages, Stage, Idle
  <2> QED
    BY <1>1, <2>1 DEF GoodStages
<1>5. GoodStarts \subseteq GoodStarts'
  BY DEF GoodStarts, Grows
<1>6. GoodStores \subseteq GoodStores'
  BY <1>3 DEF GoodStores
<1> QED
  BY <1>4, <1>5, <1>6

LEMMA StepGood ==
    ASSUME UNCHANGED line, LinesType, LinesLived,
           file' \in GoodStores,
           mem' \in [Procs -> GoodStores],
           screen' \in [Procs -> {"closed", "lookup", "start"}],
           field' \in [Procs -> Timelocks \cup {None}],
           op' \in [Procs -> GoodStages],
           prepared' \in SUBSET GoodStarts,
           CheckInv'
    PROVE  CacheInv'
<1>1. Grows
  BY DEF Grows, Past, Puzzles, CustodyPaths
<1>2. LinesType' /\ LinesLived'
  BY DEF LinesType, LinesLived
<1>3. /\ GoodStores \subseteq GoodStores'
      /\ GoodStages \subseteq GoodStages'
      /\ GoodStarts \subseteq GoodStarts'
  BY <1>1, GoodStays
<1> QED
  BY <1>2, <1>3 DEF CacheInv

-----------------------------------------------------------------------------
(* Steps of a process.                                                     *)

\* A step of p leaves the others as they are.
Alone(p) == \A q \in Procs \ {p} : op'[q] = op[q] /\ mem'[q] = mem[q]

LEMMA ChecksStay ==
    ASSUME CacheInv, NEW p \in Procs, Alone(p), ChecksOwnEntry(op'[p], mem'[p])
    PROVE  CheckInv'
<1> SUFFICES ASSUME NEW q \in Procs PROVE ChecksOwnEntry(op'[q], mem'[q])
  BY DEF CheckInv
<1>1. CASE q = p
  BY <1>1
<1>2. CASE q # p
  BY <1>2 DEF Alone, CacheInv, CheckInv
<1> QED
  BY <1>1, <1>2

LEMMA BecomeGood ==
    ASSUME CacheInv, NEW p \in Procs, NEW stage \in GoodStages, Become(p, stage)
    PROVE  /\ op' \in [Procs -> GoodStages]
           /\ op'[p] = stage
           /\ \A q \in Procs \ {p} : op'[q] = op[q]
BY DEF CacheInv, Become

LEMMA IdleGood == Idle \in GoodStages /\ Idle.pc # "check"
BY DEF GoodStages, Idle

LEMMA FieldGood ==
    ASSUME CacheInv, NEW p \in Procs, NEW secs \in Timelocks \cup {None}, SetField(p, secs)
    PROVE  field' \in [Procs -> Timelocks \cup {None}]
BY DEF CacheInv, SetField

LEMMA HoldGood ==
    ASSUME CacheInv, NEW p \in Procs, NEW entries \in GoodStores, Hold(p, entries)
    PROVE  /\ mem' \in [Procs -> GoodStores]
           /\ mem'[p] \subseteq entries
           /\ \A q \in Procs \ {p} : mem'[q] = mem[q]
<1> DEFINE left == IF p \in Clis /\ op'[p] = Idle THEN {} ELSE entries
<1>1. left \in GoodStores /\ left \subseteq entries
  BY DEF GoodStores
<1>2. mem' = [mem EXCEPT ![p] = left]
  BY DEF Hold
<1> HIDE DEF left
<1> QED
  BY <1>1, <1>2 DEF CacheInv

LEMMA StoreGood ==
    ASSUME CacheInv, NEW p \in Procs, NEW entry \in GoodEntries, Store(p, entry)
    PROVE  /\ file' \in GoodStores
           /\ mem' \in [Procs -> GoodStores]
           /\ mem'[p] \subseteq {entry}
           /\ \A q \in Procs \ {p} : mem'[q] = mem[q]
<1>1. {entry} \in GoodStores
  BY DEF GoodStores
<1> QED
  BY <1>1, HoldGood DEF Store

\* The stages and the entry of a process, taken apart.
LEMMA StageGood ==
    ASSUME CacheInv, NEW p \in Procs
    PROVE  /\ op[p].pc \in {"look", "prepare"} =>
                op[p] \in [pc : {"look", "prepare"}, cmd : Command]
           /\ op[p].pc \in {"open", "persist", "check"} =>
                /\ op[p] \in [pc : {"open", "persist", "check"}, cmd : Command,
                              vault : Vaults, result : Lookup]
                /\ op[p].vault \in Locates[op[p].cmd.address]
                /\ Good(op[p].vault, op[p].result)
           /\ op[p].pc # "idle" => (op[p].cmd.does = "start" => op[p].cmd.words # None)
           /\ op[p].pc = "prepare" => op[p].cmd.does = "start"
           /\ mem[p] \in GoodStores /\ mem[p] \subseteq GoodEntries
<1>1. op[p] \in GoodStages
  BY DEF CacheInv
<1>2. mem[p] \in GoodStores /\ mem[p] \subseteq GoodEntries
  BY DEF CacheInv, GoodStores
<1> QED
  BY <1>1, <1>2 DEF GoodStages, Stage, Idle

LEMMA WindowSteps ==
    ASSUME CacheInv, NEW p \in Procs,
           Launch(p) \/ ResetToLookup(p) \/ \E secs \in Secs \cup {None} : Type(p, secs)
    PROVE  CacheInv'
<1> USE DEF CacheInv
<1>0. ASSUME UNCHANGED op, op[p] = Idle,
             mem' = [mem EXCEPT ![p] = file] \/ UNCHANGED mem
      PROVE  CheckInv'
  <2>1. Alone(p)
    BY <1>0 DEF Alone
  <2>2. ChecksOwnEntry(op'[p], mem'[p])
    BY <1>0, IdleGood DEF ChecksOwnEntry
  <2> QED
    BY <2>1, <2>2, ChecksStay
<1>1. CASE Launch(p)
  <2>1. \E secs \in Timelocks \cup {None} : SetField(p, secs)
    <3>1. CASE file = {}
      BY <1>1, <3>1 DEF Launch
    <3>2. CASE file # {}
      <4>1. PICK e \in file : SetField(p, SecsOf(e.lookup))
        BY <1>1, <3>2 DEF Launch
      <4>2. e.lookup \in Lookup
        BY DEF GoodStores, GoodEntries, Entry
      <4> QED
        BY <4>1, <4>2, SecsType
    <3> QED
      BY <3>1, <3>2
  <2>2. field' \in [Procs -> Timelocks \cup {None}]
    BY <2>1, FieldGood
  <2>3. /\ screen' \in [Procs -> {"closed", "lookup", "start"}]
        /\ mem' \in [Procs -> GoodStores]
    BY <1>1 DEF Launch, Show
  <2>4. CheckInv'
    BY <1>0, <1>1 DEF Launch
  <2> QED
    BY <1>1, <2>2, <2>3, <2>4, StepGood DEF Launch
<1>2. CASE ResetToLookup(p)
  <2>1. field' \in [Procs -> Timelocks \cup {None}]
    BY <1>2, FieldGood DEF ResetToLookup
  <2>2. screen' \in [Procs -> {"closed", "lookup", "start"}]
    BY <1>2 DEF ResetToLookup, Show
  <2>3. CheckInv'
    BY <1>0, <1>2 DEF ResetToLookup
  <2> QED
    BY <1>2, <2>1, <2>2, <2>3, StepGood DEF ResetToLookup
<1>3. CASE \E secs \in Secs \cup {None} : Type(p, secs)
  <2>1. PICK secs \in Secs \cup {None} : Type(p, secs)
    BY <1>3
  <2>2. field' \in [Procs -> Timelocks \cup {None}]
    BY <2>1, CacheAssumption, FieldGood DEF Type
  <2>3. CheckInv'
    BY <1>0, <2>1 DEF Type
  <2> QED
    BY <2>1, <2>2, <2>3, StepGood DEF Type
<1> QED
  BY <1>1, <1>2, <1>3

LEMMA CommandType == Commands \subseteq Command
BY CacheAssumption DEF Commands, Command

LEMMA CommandSteps ==
    ASSUME CacheInv, NEW p \in Procs, NEW cmd \in Commands, Click(p, cmd) \/ Run(p, cmd)
    PROVE  CacheInv'
<1> USE DEF CacheInv
<1>1. cmd \in Command
  BY CommandType
<1>2. /\ cmd.does = "lookup" => [pc |-> "look", cmd |-> cmd] \in GoodStages
      /\ (cmd.does = "start" /\ cmd.words # None) =>
            /\ [pc |-> "look", cmd |-> cmd] \in GoodStages
            /\ [pc |-> "prepare", cmd |-> cmd] \in GoodStages
  BY <1>1 DEF GoodStages, Stage
<1>3. prepared' \in SUBSET GoodStarts
  BY DEF Click, Run
<1>4. CASE Click(p, cmd)
  <2>1. CASE ClickCheck(p, cmd)
    <3>1. PICK e \in Matching(mem[p], cmd.address) :
              Become(p, [pc |-> "check", cmd |-> cmd, vault |-> e.vault, result |-> e.lookup])
      BY <2>1 DEF ClickCheck
    <3>2. e \in mem[p] /\ e \in GoodEntries /\ e.address = cmd.address
      BY <3>1, StageGood DEF Matching
    <3>3. /\ e.vault \in Vaults /\ e.vault \in Locates[cmd.address]
          /\ e.lookup \in Lookup /\ Good(e.vault, e.lookup)
      BY <3>2 DEF GoodEntries, GoodEntry, Entry
    <3> DEFINE stage == [pc |-> "check", cmd |-> cmd, vault |-> e.vault, result |-> e.lookup]
    <3>4. stage \in GoodStages
      BY <1>1, <2>1, <3>3 DEF GoodStages, Stage, ClickCheck
    <3>5. \A other \in Matching(mem[p], cmd.address) : other.vault = e.vault
      BY <3>2, StageGood DEF Matching, GoodStores
    <3>6. ChecksOwnEntry(stage, mem[p])
      BY <3>5 DEF ChecksOwnEntry
    <3> HIDE DEF stage
    <3>7. Become(p, stage)
      BY <3>1 DEF stage
    <3>8. /\ op' \in [Procs -> GoodStages]
          /\ op'[p] = stage
          /\ Alone(p)
      BY <1>4, <3>4, <3>7, BecomeGood DEF Click, Alone
    <3>9. CheckInv'
      BY <1>4, <3>6, <3>8, ChecksStay DEF Click
    <3> QED
      BY <1>3, <1>4, <3>8, <3>9, StepGood DEF Click
  <2>2. CASE ClickLookup(p, cmd) \/ ClickStart(p, cmd)
    <3>1. /\ op' \in [Procs -> GoodStages]
          /\ op'[p].pc # "check"
          /\ Alone(p)
      BY <1>2, <1>4, <2>2, BecomeGood DEF ClickLookup, ClickStart, Click, Alone
    <3>2. CheckInv'
      BY <3>1, ChecksStay DEF ChecksOwnEntry
    <3> QED
      BY <1>3, <1>4, <3>1, <3>2, StepGood DEF Click
  <2> QED
    BY <1>4, <2>1, <2>2 DEF Click
<1>5. CASE Run(p, cmd)
  <2>1. PICK pc \in {"look", "prepare"} :
            /\ Become(p, [pc |-> pc, cmd |-> cmd])
            /\ [pc |-> pc, cmd |-> cmd] \in GoodStages
    BY <1>2, <1>5 DEF Run
  <2>2. /\ op' \in [Procs -> GoodStages]
        /\ op'[p] = [pc |-> pc, cmd |-> cmd]
        /\ \A q \in Procs \ {p} : op'[q] = op[q]
    BY <2>1, BecomeGood
  <2>3. /\ mem' \in [Procs -> GoodStores]
        /\ \A q \in Procs \ {p} : mem'[q] = mem[q]
    BY <1>5 DEF Run
  <2>4. CheckInv'
    BY <2>2, <2>3, ChecksStay DEF ChecksOwnEntry, Alone
  <2> QED
    BY <1>3, <1>5, <2>2, <2>3, <2>4, StepGood DEF Run
<1> QED
  BY <1>4, <1>5

LEMMA LookSteps ==
    ASSUME CacheInv, NEW p \in Procs, Open(p) \/ Look(p)
    PROVE  CacheInv'
<1> USE DEF CacheInv
<1>1. CASE Open(p)
  <2> DEFINE stage == [op[p] EXCEPT !.pc = "persist"]
  <2>1. /\ op[p] \in [pc : {"open", "persist", "check"}, cmd : Command,
                      vault : Vaults, result : Lookup]
        /\ op[p].vault \in Locates[op[p].cmd.address]
        /\ Good(op[p].vault, op[p].result)
        /\ op[p].cmd.does = "start" => op[p].cmd.words # None
    BY <1>1, StageGood DEF Open
  <2>2. /\ stage \in [pc : {"open", "persist", "check"}, cmd : Command,
                      vault : Vaults, result : Lookup]
        /\ stage.cmd = op[p].cmd /\ stage.vault = op[p].vault
        /\ stage.result = op[p].result /\ stage.pc = "persist"
    BY <2>1
  <2>3. Become(p, stage)
    BY <1>1 DEF Open
  <2> HIDE DEF stage
  <2>4. stage \in GoodStages
    BY <2>1, <2>2 DEF GoodStages, Stage
  <2>5. /\ op' \in [Procs -> GoodStages]
        /\ op'[p] = stage
        /\ \A q \in Procs \ {p} : op'[q] = op[q]
    BY <2>3, <2>4, BecomeGood
  <2>6. /\ mem' \in [Procs -> GoodStores]
        /\ \A q \in Procs \ {p} : mem'[q] = mem[q]
    BY <1>1 DEF Open
  <2>7. CheckInv'
    BY <2>2, <2>5, <2>6, ChecksStay DEF ChecksOwnEntry, Alone
  <2> QED
    BY <1>1, <2>5, <2>6, <2>7, StepGood DEF Open
<1>2. CASE Look(p)
  <2> DEFINE cmd == op[p].cmd
             Found(v, result, pc) ==
                [pc |-> pc, cmd |-> cmd, vault |-> v, result |-> result]
  <2>1. /\ op[p] \in [pc : {"look", "prepare"}, cmd : Command]
        /\ op[p].cmd.does = "start" => op[p].cmd.words # None
    BY <1>2, StageGood DEF Look
  <2>2. cmd \in Command /\ Locates[cmd.address] \subseteq Vaults
    BY <2>1, CacheAssumption DEF Command
  <2>3. \/ Become(p, Idle)
        \/ \E v \in Locates[cmd.address], missed \in SUBSET {"memo", "spend"} :
           \E answers \in LookupAnswers(line[v], Typed(cmd), missed) :
           \E result \in answers, pc \in {"open", "persist"} : Become(p, Found(v, result, pc))
    BY <1>2 DEF Look
  <2>4. ASSUME NEW v \in Locates[cmd.address], NEW missed \in SUBSET {"memo", "spend"},
               NEW answers \in LookupAnswers(line[v], Typed(cmd), missed),
               NEW result \in answers, NEW pc \in {"open", "persist"}
        PROVE  Found(v, result, pc) \in GoodStages
    <3>1. v \in Vaults /\ result \in Lookup /\ Good(v, result)
      BY <2>2, LookupAnswersGood
    <3> QED
      BY <2>1, <2>2, <3>1 DEF GoodStages, Stage
  <2>5. PICK stage \in GoodStages : Become(p, stage) /\ stage.pc # "check"
    <3>1. CASE Become(p, Idle)
      BY <3>1, IdleGood
    <3>2. CASE ~Become(p, Idle)
      <4>1. PICK v \in Locates[cmd.address], missed \in SUBSET {"memo", "spend"} :
                \E answers \in LookupAnswers(line[v], Typed(cmd), missed) :
                \E result \in answers, pc \in {"open", "persist"} :
                    Become(p, Found(v, result, pc))
        BY <2>3, <3>2
      <4>2. PICK answers \in LookupAnswers(line[v], Typed(cmd), missed) :
                \E result \in answers, pc \in {"open", "persist"} :
                    Become(p, Found(v, result, pc))
        BY <4>1
      <4>3. PICK result \in answers, pc \in {"open", "persist"} :
                Become(p, Found(v, result, pc))
        BY <4>2
      <4>4. Found(v, result, pc) \in GoodStages
        BY <2>4
      <4>5. Found(v, result, pc).pc # "check"
        OBVIOUS
      <4> QED
        BY <4>3, <4>4, <4>5
    <3> QED
      BY <3>1, <3>2
  <2>6. /\ op' \in [Procs -> GoodStages]
        /\ op'[p] = stage
        /\ \A q \in Procs \ {p} : op'[q] = op[q]
    BY <2>5, BecomeGood
  <2>7. /\ mem' \in [Procs -> GoodStores]
        /\ \A q \in Procs \ {p} : mem'[q] = mem[q]
    BY <1>2, StageGood, HoldGood DEF Look
  <2>8. CheckInv'
    BY <2>5, <2>6, <2>7, ChecksStay DEF ChecksOwnEntry, Alone
  <2> QED
    BY <1>2, <2>6, <2>7, <2>8, StepGood DEF Look
<1> QED
  BY <1>1, <1>2

LEMMA PersistStep ==
    ASSUME CacheInv, NEW p \in Procs, Persist(p)
    PROVE  CacheInv'
<1> USE DEF CacheInv
<1> DEFINE cmd == op[p].cmd
           v == op[p].vault
           entry == EntryToStore(mem[p], cmd.address, v, op[p].result)
           check == [op[p] EXCEPT !.pc = "check"]
<1>1. /\ op[p] \in [pc : {"open", "persist", "check"}, cmd : Command,
                    vault : Vaults, result : Lookup]
      /\ v \in Locates[cmd.address]
      /\ Good(v, op[p].result)
      /\ mem[p] \subseteq GoodEntries
      /\ cmd.does = "start" => cmd.words # None
  BY StageGood DEF Persist
<1>2. cmd \in Command /\ cmd.address \in Addresses /\ op[p].result \in Lookup
  BY <1>1 DEF Command
<1>3. entry \in GoodEntries /\ entry.vault = v
  BY <1>1, <1>2, StoredGood DEF EntryToStore
<1>4. /\ file' \in GoodStores
      /\ mem' \in [Procs -> GoodStores]
      /\ mem'[p] \subseteq {entry}
      /\ \A q \in Procs \ {p} : mem'[q] = mem[q]
  <2>1. Store(p, entry)
    BY DEF Persist
  <2> HIDE DEF entry
  <2> QED
    BY <1>3, <2>1, StoreGood
<1>5. screen' \in [Procs -> {"closed", "lookup", "start"}]
  BY DEF Persist, Show
<1>6. field' \in [Procs -> Timelocks \cup {None}]
  <2>1. SetField(p, SecsOf(op[p].result)) \/ UNCHANGED field
    BY DEF Persist
  <2> QED
    BY <1>2, <2>1, SecsType, FieldGood
<1>7. PICK stage \in GoodStages : Become(p, stage) /\ (stage.pc = "check" => stage.vault = v)
  <2>1. \/ Become(p, Idle)
        \/ cmd.does = "start" /\ Become(p, [pc |-> "prepare", cmd |-> cmd])
        \/ Become(p, check)
    BY DEF Persist
  <2>2. cmd.does = "start" => [pc |-> "prepare", cmd |-> cmd] \in GoodStages
    BY <1>1, <1>2 DEF GoodStages, Stage
  <2>3. /\ check \in [pc : {"open", "persist", "check"}, cmd : Command,
                      vault : Vaults, result : Lookup]
        /\ check.cmd = cmd /\ check.vault = v /\ check.result = op[p].result
        /\ check.pc = "check"
    BY <1>1
  <2> HIDE DEF check
  <2>4. check \in GoodStages
    BY <1>1, <2>3 DEF GoodStages, Stage
  <2> QED
    BY <2>1, <2>2, <2>3, <2>4, IdleGood
<1>8. /\ op' \in [Procs -> GoodStages]
      /\ op'[p] = stage
      /\ \A q \in Procs \ {p} : op'[q] = op[q]
  BY <1>7, BecomeGood
<1> HIDE DEF entry, v
<1>9. CheckInv'
  <2>1. ChecksOwnEntry(op'[p], mem'[p])
    BY <1>3, <1>4, <1>7, <1>8 DEF ChecksOwnEntry, Matching
  <2> QED
    BY <1>4, <1>8, <2>1, ChecksStay DEF Alone
<1>10. UNCHANGED <<line, prepared>>
  BY DEF Persist
<1> QED
  BY <1>4, <1>5, <1>6, <1>8, <1>9, <1>10, StepGood

\* A guess is saved on an entry of the vault it was found for.
LEMMA PersistGuessGood ==
    ASSUME CacheInv, NEW p \in Procs, NEW address \in Addresses, NEW guess \in ClawbackGuess,
           guess.kind = "known" =>
                \A e \in Matching(mem[p], address) :
                    \E layout \in Past(e.vault) : layout.timelock = guess.secs,
           PersistGuess(p, address, guess)
    PROVE  /\ file' \in GoodStores
           /\ mem' \in [Procs -> GoodStores]
           /\ \A q \in Procs \ {p} : mem'[q] = mem[q]
<1>1. PICK e \in Matching(mem[p], address) : Store(p, [e EXCEPT !.lookup.guess = guess])
  BY DEF PersistGuess
<1>2. e \in GoodEntries
  BY StageGood DEF Matching
<1> DEFINE entry == [e EXCEPT !.lookup.guess = guess]
<1>3. entry \in GoodEntries
  BY <1>2, SaveGuess
<1> HIDE DEF entry
<1>4. Store(p, entry)
  BY <1>1 DEF entry
<1> QED
  BY <1>3, <1>4, StoreGood

\* The last step of a command.
LEMMA IdleChecks ==
    ASSUME CacheInv, NEW p \in Procs, Become(p, Idle),
           \A q \in Procs \ {p} : mem'[q] = mem[q]
    PROVE  op' \in [Procs -> GoodStages] /\ CheckInv'
<1>1. /\ op' \in [Procs -> GoodStages]
      /\ op'[p] = Idle
      /\ \A q \in Procs \ {p} : op'[q] = op[q]
  BY BecomeGood, IdleGood
<1>2. ChecksOwnEntry(op'[p], mem'[p])
  BY <1>1, IdleGood DEF ChecksOwnEntry
<1> QED
  BY <1>1, <1>2, ChecksStay DEF Alone

LEMMA CheckStep ==
    ASSUME CacheInv, NEW p \in Procs, Check(p)
    PROVE  CacheInv'
<1> USE DEF CacheInv
<1> DEFINE cmd == op[p].cmd
           v == op[p].vault
           result == op[p].result
           guesses == IF result.kind = "hinted" THEN {}
                      ELSE CheckClawback(result, cmd.words, cmd.typed)
<1>1. /\ op[p] \in [pc : {"open", "persist", "check"}, cmd : Command,
                    vault : Vaults, result : Lookup]
      /\ Good(v, result)
      /\ mem[p] \in GoodStores
  BY StageGood DEF Check
<1>2. /\ cmd.address \in Addresses
      /\ cmd.typed \in Timelocks \cup {None}
      /\ result \in Lookup
      /\ v \in Vaults
  BY <1>1 DEF Command
<1>3. ASSUME NEW guess \in guesses
      PROVE  /\ guess \in ClawbackGuess
             /\ guess.kind = "known" =>
                    /\ guess.secs \in Timelocks
                    /\ \A e \in Matching(mem[p], cmd.address) :
                            \E layout \in Past(e.vault) : layout.timelock = guess.secs
  <2>1. result \in FoundFacts
    BY <1>2, <1>3 DEF Lookup, HintedFacts
  <2>2. guess \in CheckClawback(result, cmd.words, cmd.typed)
    BY <1>3
  <2>3. \A e \in Matching(mem[p], cmd.address) : e.vault = v
    BY DEF Check, CheckInv, ChecksOwnEntry
  <2>4. /\ guess \in ClawbackGuess
        /\ guess.kind = "known" =>
                /\ guess.secs \in Timelocks
                /\ \E layout \in Past(v) : layout.timelock = guess.secs
    BY <1>1, <1>2, <2>1, <2>2, CheckGood
  <2> QED
    BY <2>3, <2>4
<1>4. /\ file' \in GoodStores
      /\ mem' \in [Procs -> GoodStores]
      /\ \A q \in Procs \ {p} : mem'[q] = mem[q]
  <2>1. \/ \E guess \in guesses : PersistGuess(p, cmd.address, guess)
        \/ Hold(p, mem[p]) /\ UNCHANGED file
    BY DEF Check
  <2>2. CASE \E guess \in guesses : PersistGuess(p, cmd.address, guess)
    BY <1>2, <1>3, <2>2, PersistGuessGood
  <2>3. CASE Hold(p, mem[p]) /\ UNCHANGED file
    BY <1>1, <2>3, HoldGood
  <2> QED
    BY <2>1, <2>2, <2>3
<1>5. field' \in [Procs -> Timelocks \cup {None}]
  <2>1. \/ \E guess \in guesses : guess.kind = "known" /\ SetField(p, guess.secs)
        \/ result.kind = "hinted" /\ SetField(p, result.layout.timelock)
        \/ UNCHANGED field
    BY DEF Check
  <2>2. result.kind = "hinted" => result.layout.timelock \in Timelocks
    BY <1>2 DEF Lookup, HintedFacts, FoundFacts, Layout
  <2> QED
    BY <1>3, <2>1, <2>2, FieldGood
<1>6. op' \in [Procs -> GoodStages] /\ CheckInv'
  BY <1>4, IdleChecks DEF Check
<1>7. UNCHANGED <<line, screen, prepared>>
  BY DEF Check
<1> QED
  BY <1>4, <1>5, <1>6, <1>7, StepGood

LEMMA PrepareStep ==
    ASSUME CacheInv, NEW p \in Procs, Prepare(p)
    PROVE  CacheInv'
<1> USE DEF CacheInv
<1> DEFINE cmd == op[p].cmd
           Made(v, layout) ==
                [address |-> cmd.address, words |-> cmd.words, vault |-> v, layout |-> layout]
           Nothing == /\ prepared' = {}
                      /\ Hold(p, mem[p])
                      /\ UNCHANGED <<file, field>>
<1>1. /\ cmd \in Command
      /\ cmd.words # None
      /\ mem[p] \in GoodStores
  BY StageGood DEF Prepare
<1>2. PICK e \in Matching(mem[p], cmd.address) :
        LET layouts == IF e.lookup.kind = "hinted"
                       THEN {l \in {e.lookup.layout} : ConfirmHinted(l, cmd.words, cmd.typed)}
                       ELSE Reconstruct(e.lookup, cmd.words,
                                        WithTyped(e.lookup.guess, cmd.typed))
        IN  \/ /\ layouts = {}
               /\ prepared' = {}
               /\ Hold(p, mem[p])
               /\ UNCHANGED <<file, field>>
            \/ \E layout \in layouts :
               /\ prepared' = {Made(e.vault, layout)}
               /\ IF p \in Guis THEN SetField(p, layout.timelock) ELSE UNCHANGED field
               /\ IF e.lookup.kind = "hinted" THEN Hold(p, mem[p]) /\ UNCHANGED file
                  ELSE PersistGuess(p, cmd.address, Known(layout.timelock))
  BY DEF Prepare
<1>3. /\ e \in GoodEntries /\ e.address = cmd.address
      /\ \A other \in Matching(mem[p], cmd.address) : other.vault = e.vault
  BY StageGood DEF Matching, GoodStores
<1>4. /\ e.vault \in Locates[cmd.address] /\ Good(e.vault, e.lookup)
      /\ e.lookup \in Lookup /\ e.vault \in Vaults
      /\ cmd.address \in Addresses
  BY <1>3 DEF GoodEntries, GoodEntry, Entry
<1>5. Become(p, Idle) /\ UNCHANGED <<line, screen>>
  BY DEF Prepare
<1>6. CASE Nothing
  <2>1. /\ mem' \in [Procs -> GoodStores]
        /\ \A q \in Procs \ {p} : mem'[q] = mem[q]
    BY <1>1, <1>6, HoldGood
  <2>2. op' \in [Procs -> GoodStages] /\ CheckInv'
    BY <1>5, <2>1, IdleChecks
  <2> QED
    BY <1>5, <1>6, <2>1, <2>2, StepGood
<1>7. ASSUME NEW layout \in Layout, layout \in Past(e.vault),
             layout.recovery = cmd.words,
             prepared' = {Made(e.vault, layout)},
             SetField(p, layout.timelock) \/ UNCHANGED field,
             \/ Hold(p, mem[p]) /\ UNCHANGED file
             \/ PersistGuess(p, cmd.address, Known(layout.timelock))
      PROVE  CacheInv'
  <2>1. layout.timelock \in Timelocks
    BY <1>7 DEF Layout
  <2>2. Made(e.vault, layout) \in GoodStarts
    BY <1>1, <1>4, <1>7 DEF GoodStarts, Command
  <2>3. prepared' \in SUBSET GoodStarts
    BY <1>7, <2>2
  <2>4. field' \in [Procs -> Timelocks \cup {None}]
    BY <1>7, <2>1, FieldGood
  <2>5. /\ file' \in GoodStores
        /\ mem' \in [Procs -> GoodStores]
        /\ \A q \in Procs \ {p} : mem'[q] = mem[q]
    <3>1. CASE Hold(p, mem[p]) /\ UNCHANGED file
      BY <1>1, <3>1, HoldGood
    <3>2. CASE PersistGuess(p, cmd.address, Known(layout.timelock))
      <4>1. /\ Known(layout.timelock) \in ClawbackGuess
            /\ Known(layout.timelock).secs = layout.timelock
        BY <2>1, GuessTypes DEF Known
      <4>2. \A other \in Matching(mem[p], cmd.address) :
                \E past \in Past(other.vault) : past.timelock = Known(layout.timelock).secs
        BY <1>3, <1>7, <4>1
      <4> QED
        BY <1>4, <3>2, <4>1, <4>2, PersistGuessGood
    <3> QED
      BY <1>7, <3>1, <3>2
  <2>6. op' \in [Procs -> GoodStages] /\ CheckInv'
    BY <1>5, <2>5, IdleChecks
  <2> QED
    BY <1>5, <2>3, <2>4, <2>5, <2>6, StepGood
<1>8. CASE e.lookup.kind = "hinted" /\ ~Nothing
  <2>1. /\ ConfirmHinted(e.lookup.layout, cmd.words, cmd.typed)
        /\ prepared' = {Made(e.vault, e.lookup.layout)}
        /\ SetField(p, e.lookup.layout.timelock) \/ UNCHANGED field
        /\ Hold(p, mem[p]) /\ UNCHANGED file
    BY <1>2, <1>8
  <2>2. /\ e.lookup.layout \in Layout
        /\ e.lookup.layout \in Past(e.vault)
    BY <1>4, <1>8 DEF Good, Lookup, HintedFacts, FoundFacts
  <2>3. e.lookup.layout.recovery = cmd.words
    BY <1>1, <2>1 DEF ConfirmHinted
  <2> QED
    BY <1>7, <2>1, <2>2, <2>3
<1>9. CASE e.lookup.kind # "hinted" /\ ~Nothing
  <2>1. PICK layout \in Reconstruct(e.lookup, cmd.words, WithTyped(e.lookup.guess, cmd.typed)) :
            /\ prepared' = {Made(e.vault, layout)}
            /\ SetField(p, layout.timelock) \/ UNCHANGED field
            /\ PersistGuess(p, cmd.address, Known(layout.timelock))
    BY <1>2, <1>9
  <2>2. e.lookup \in FoundFacts
    BY <1>4, <1>9 DEF Lookup, HintedFacts
  <2>3. layout \in Layout /\ layout \in Past(e.vault) /\ layout.recovery = cmd.words
    BY <1>4, <2>2, ReconstructGood
  <2> QED
    BY <1>7, <2>1, <2>3
<1> QED
  BY <1>6, <1>8, <1>9

LEMMA EndSteps ==
    ASSUME CacheInv, NEW p \in Procs, Fail(p) \/ Die(p)
    PROVE  CacheInv'
<1> USE DEF CacheInv
<1>1. CASE Fail(p)
  <2>1. /\ mem' \in [Procs -> GoodStores]
        /\ \A q \in Procs \ {p} : mem'[q] = mem[q]
    BY <1>1, StageGood, HoldGood DEF Fail
  <2>2. op' \in [Procs -> GoodStages] /\ CheckInv'
    BY <1>1, <2>1, IdleChecks DEF Fail
  <2> QED
    BY <1>1, <2>1, <2>2, StepGood DEF Fail
<1>2. CASE Die(p)
  <2>1. field' \in [Procs -> Timelocks \cup {None}]
    BY <1>2, FieldGood DEF Die
  <2>2. /\ file' \in GoodStores
        /\ mem' \in [Procs -> GoodStores]
        /\ \A q \in Procs \ {p} : mem'[q] = mem[q]
        /\ screen' \in [Procs -> {"closed", "lookup", "start"}]
        /\ UNCHANGED <<line, prepared>>
    BY <1>2 DEF Die, Show, GoodStores
  <2>3. op' \in [Procs -> GoodStages] /\ CheckInv'
    BY <1>2, <2>2, IdleChecks DEF Die
  <2> QED
    BY <2>1, <2>2, <2>3, StepGood
<1> QED
  BY <1>1, <1>2

LEMMA NextGood == CacheInv /\ [Next]_vars => CacheInv'
<1> SUFFICES ASSUME CacheInv, [Next]_vars PROVE CacheInv'
  OBVIOUS
<1>1. CASE UNCHANGED vars
  BY <1>1, StepGood DEF vars, CacheInv, CheckInv
<1>2. CASE /\ \E v \in Vaults : LineStep(v)
           /\ UNCHANGED <<file, mem, screen, field, op, prepared>>
  <2>1. LinesType' /\ LinesLived' /\ Grows
    BY <1>2, LineStepGood, LineStepLived DEF CacheInv
  <2> QED
    BY <1>2, <2>1, GoodStays DEF CacheInv, CheckInv
<1>3. CASE \E p \in Procs : ProcStep(p)
  BY <1>3, WindowSteps, CommandSteps, LookSteps, PersistStep, CheckStep, PrepareStep, EndSteps
     DEF ProcStep
<1> QED
  BY <1>1, <1>2, <1>3 DEF Next

LEMMA CacheInvHolds == Spec => []CacheInv
<1>1. Init => CacheInv
  <2> SUFFICES ASSUME Init PROVE CacheInv
    OBVIOUS
  <2>1. LinesType /\ LinesLived
    BY LineAssumption DEF Init, LineInit, LinesType, LinesLived, Lived
  <2> QED
    BY <2>1, IdleGood DEF Init, CacheInv, CheckInv, ChecksOwnEntry, GoodStores
<1> QED
  BY <1>1, NextGood, PTL DEF Spec

-----------------------------------------------------------------------------

\* Every variable keeps its type: in particular no save puts a guess where a
\* lookup has none, and no answer is of an address it was not asked for.
THEOREM CacheTypeCorrect == Spec => []TypeOK
<1>1. CacheInv => TypeOK
  <2> SUFFICES ASSUME CacheInv PROVE TypeOK
    OBVIOUS
  <2>1. GoodEntries \subseteq Entry /\ GoodStages \subseteq {Idle} \cup Stage
    BY DEF GoodEntries, GoodStages
  <2>2. GoodStarts \subseteq [address : Addresses, words : RecoveryKeys \cup {None},
                            vault : Vaults, layout : Layout]
    BY DEF GoodStarts
  <2>3. GoodStores \subseteq SUBSET Entry
    BY <2>1 DEF GoodStores
  <2> QED
    BY <2>1, <2>2, <2>3 DEF CacheInv, LinesType, TypeOK
<1> QED
  BY <1>1, CacheInvHolds, PTL

\* A start is prepared with a layout that one vault has had, a vault which a
\* lookup of the address typed has found, under the phrase that was typed:
\* however many vaults the lookups of the address have found, however checks,
\* crashes and other processes have left the cache, and wherever the vaults
\* have moved.
THEOREM PreparedLayoutsCorrect == Spec => []PreparedWasOnChain
<1>1. CacheInv => PreparedWasOnChain
  BY DEF CacheInv, GoodStarts, PreparedWasOnChain
<1> QED
  BY <1>1, CacheInvHolds, PTL

\* A clawback on disk that counts as verified governed the vault of its entry,
\* and not only another vault that a lookup of the address had found before.
THEOREM VerifiedClawbacksCorrect == Spec => []VerifiedWasOnChain
<1>1. CacheInv => VerifiedWasOnChain
  BY DEF CacheInv, GoodStores, GoodEntries, GoodEntry, Good, VerifiedWasOnChain
<1> QED
  BY <1>1, CacheInvHolds, PTL
-----------------------------------------------------------------------------
(* A vault that never changed.                                             *)

\* Its puzzle is READY, it was only ever spent by custody, and the path read
\* off any such spend is its own.
LEMMA OneLayoutReads ==
    ASSUME LinesType, LinesLived, NEW v \in Vaults, OneLayout(v)
    PROVE  LET layout == line[v][1].puzzle.layout
           IN  /\ layout \in Layout
               /\ Puzzles(v) = {Ready(layout)}
               /\ Past(v) = {layout}
               /\ CustodyPaths(v) \subseteq {layout.custody}
<1> DEFINE n == Len(line[v])
           first == line[v][1].puzzle
           layout == first.layout
<1>1. /\ n \in Nat /\ n >= 1 /\ DOMAIN line[v] = 1..n
      /\ \A i \in 1..n : line[v][i] \in Link /\ line[v][i].puzzle = first
  BY LinkOf DEF OneLayout
<1>2. Lived(line[v])
  BY DEF LinesLived
<1>3. first \in Puzzle /\ first.state = "READY"
  BY <1>1, <1>2 DEF Lived, Link
<1>4. layout \in Layout /\ first = Ready(layout)
  BY <1>3, ReadyPuzzle
<1> HIDE DEF first
<1>5. Puzzles(v) = {Ready(layout)}
  BY <1>1, <1>4 DEF Puzzles
<1>6. Past(v) = {layout}
  BY <1>1, <1>3 DEF Past
<1>7. ASSUME NEW i \in CustodySpends(line[v])
      PROVE  CustodyRead(line[v], i) = layout.custody
  <2>1. i \in 1..n /\ i + 1 \in 2..n /\ i + 1 \in 1..n /\ (i + 1) - 1 = i
    BY <1>1 DEF CustodySpends
  <2>2. line[v][i].puzzle = first /\ line[v][i + 1].puzzle = first
    BY <1>1, <2>1
  <2>3. SpentTo(first, line[v][i + 1])
    BY <1>2, <2>1, <2>2 DEF Lived
  <2>4. line[v][i + 1].how = "custody"
    BY <1>3, <2>2, <2>3 DEF SpentTo
  <2>5. CustodyOf(line[v][i].puzzle) = layout.custody
    BY <1>3, <2>2 DEF CustodyOf
  <2> QED
    BY <2>4, <2>5 DEF CustodyRead
<1>8. CustodyPaths(v) \subseteq {layout.custody}
  BY <1>7 DEF CustodyPaths
<1> QED
  BY <1>4, <1>5, <1>6, <1>8 DEF first

\* Whatever was saved for a vault that never changed, a start finds its layout.
LEMMA UnchangedEntryPrepares ==
    ASSUME LinesType, LinesLived, NEW e \in GoodEntries, OneLayout(e.vault),
           e.lookup.kind = "found", line[e.vault][1].puzzle.layout.timelock \in Common
    PROVE  LET layout == line[e.vault][1].puzzle.layout
           IN  Reconstruct(e.lookup, layout.recovery, e.lookup.guess) = {layout}
<1> DEFINE v == e.vault
           layout == line[v][1].puzzle.layout
           found == e.lookup
           guess == found.guess
<1>1. v \in Vaults /\ found \in FoundFacts /\ Good(v, found)
  BY DEF GoodEntries, GoodEntry, Entry, Lookup, HintedFacts
<1>2. /\ layout \in Layout
      /\ Puzzles(v) = {Ready(layout)}
      /\ Past(v) = {layout}
      /\ CustodyPaths(v) \subseteq {layout.custody}
  BY <1>1, OneLayoutReads
<1>3. layout.timelock \in Common
  OBVIOUS
<1> HIDE DEF layout
<1>4. guess \in ClawbackGuess /\ GuessOf(found) = guess
  BY <1>1 DEF FoundFacts, GuessOf
<1>5. layout.timelock \in Tried(guess)
  <2>1. CASE guess.kind = "known"
    <3>1. guess.secs = layout.timelock
      BY <1>1, <1>2, <1>4, <2>1 DEF Good
    <3> QED
      BY <2>1, <3>1 DEF Tried
  <2>2. CASE guess.kind # "known"
    BY <1>3, <2>2 DEF Tried
  <2> QED
    BY <2>1, <2>2
<1>6. /\ found.custody = layout.custody
      /\ {found.current} \cup found.ancestors \subseteq {Ready(layout)}
  BY <1>1, <1>2 DEF Good
<1>7. Matches(found, layout)
  BY <1>6 DEF Matches
<1>8. ASSUME NEW other \in Layout, Matches(found, other) PROVE other = layout
  <2>1. Ready(other) = Ready(layout)
    BY <1>6, <1>8 DEF Matches
  <2> QED
    BY <2>1 DEF Ready
<1>9. Reconstruct(found, layout.recovery, guess) = {layout}
  BY <1>2, <1>4, <1>5, <1>6, <1>7, <1>8, ReconstructRebuilds
<1> QED
  BY <1>9 DEF layout

\* A vault that never changed layout and has a usual clawback can be started
\* from whatever was saved of it: no hint, no verified value, no other process
\* and no crash leaves an entry its phrase cannot open.
THEOREM UnchangedVaultsPrepare == Spec => []UnchangedVaultPrepares
<1>1. CacheInv => UnchangedVaultPrepares
  BY UnchangedEntryPrepares DEF CacheInv, GoodStores, UnchangedVaultPrepares
<1> QED
  BY <1>1, CacheInvHolds, PTL
-----------------------------------------------------------------------------
(* How far what the documents say of the cache is true.                    *)

OnlyCustodySpends(v) ==
    \A i \in DOMAIN line[v] : line[v][i].how \in {"launch", "custody"}

SavedCustodyIsCustodyUnlessRecovered ==
    \A e \in file :
        e.lookup.kind = "found" /\ OnlyCustodySpends(e.vault) =>
            e.lookup.custody \in {CustodyOf(line[e.vault][i].puzzle) : i \in DOMAIN line[e.vault]}

\* The custody path saved is one the vault has had, unless the vault has been
\* in recovery: only the spend of a start or a finish is ever misread.
THEOREM SavedCustodyCorrect == Spec => []SavedCustodyIsCustodyUnlessRecovered
<1>1. ASSUME CacheInv PROVE SavedCustodyIsCustodyUnlessRecovered
  <2> SUFFICES ASSUME NEW e \in file, e.lookup.kind = "found", OnlyCustodySpends(e.vault)
               PROVE  e.lookup.custody \in
                        {CustodyOf(line[e.vault][i].puzzle) : i \in DOMAIN line[e.vault]}
    BY DEF SavedCustodyIsCustodyUnlessRecovered
  <2> DEFINE v == e.vault
  <2>1. v \in Vaults /\ e.lookup.custody \in CustodyPaths(v) /\ LinesType
    BY <1>1 DEF CacheInv, GoodStores, GoodEntries, GoodEntry, Good, Entry
  <2>2. PICK i \in CustodySpends(line[v]) : e.lookup.custody = CustodyRead(line[v], i)
    BY <2>1 DEF CustodyPaths
  <2>3. /\ i \in DOMAIN line[v] /\ i + 1 \in DOMAIN line[v]
        /\ line[v][i + 1].how \in ReadAsCustody
    BY <2>1, <2>2, LinkOf DEF CustodySpends
  <2>4. line[v][i + 1].how = "custody"
    BY <2>3 DEF OnlyCustodySpends, ReadAsCustody
  <2> QED
    BY <2>2, <2>3, <2>4 DEF CustodyRead
<1> QED
  BY <1>1, CacheInvHolds, PTL

\* No two layouts of v have the custody path and the phrase in common.
Told(v) ==
    \A one, other \in Past(v) :
        one.custody = other.custody /\ one.recovery = other.recovery => one = other

RebuiltMatchesSingletonWhenTold ==
    \A e \in file :
        FreshReady(e) /\ e.lookup.guess = Unknown /\ Told(e.vault) =>
            Reconstruct(e.lookup, Newest(e.vault).layout.recovery, Unknown)
                = {Newest(e.vault).layout}

\* A fresh lookup of a READY vault rebuilds the layout of the current coin,
\* unless the vault has changed nothing but its clawback window: then alone
\* can the layout of an ancestor be taken for it.
THEOREM FreshLookupsRebuild == Spec => []RebuiltMatchesSingletonWhenTold
<1>1. ASSUME CacheInv PROVE RebuiltMatchesSingletonWhenTold
  <2> SUFFICES ASSUME NEW e \in file, FreshReady(e), e.lookup.guess = Unknown, Told(e.vault)
               PROVE  Reconstruct(e.lookup, Newest(e.vault).layout.recovery, Unknown)
                        = {Newest(e.vault).layout}
    BY DEF RebuiltMatchesSingletonWhenTold
  <2> DEFINE v == e.vault
             now == Newest(v)
             layout == now.layout
             found == e.lookup
  <2>1. /\ v \in Vaults /\ found \in FoundFacts /\ Good(v, found) /\ LinesType
        /\ found.kind = "found"
    BY <1>1 DEF CacheInv, GoodStores, GoodEntries, GoodEntry, Entry, Lookup, HintedFacts, FreshReady
  <2>2. /\ now.state = "READY" /\ found.current = now
        /\ found.custody = layout.custody /\ layout.timelock \in Common
    BY DEF FreshReady
  <2>3. now \in Puzzle /\ now \in Puzzles(v)
    BY <2>1, LinkOf DEF Newest, Link, Puzzles
  <2>4. layout \in Layout /\ now = Ready(layout)
    BY <2>2, <2>3, ReadyPuzzle
  <2>5. layout \in Past(v)
    BY <2>3, <2>4, PastOfPuzzle
  <2> HIDE DEF now
  <2>6. Matches(found, layout)
    BY <2>2, <2>4 DEF Matches
  <2>7. ASSUME NEW other \in Layout, Matches(found, other),
               other.custody = layout.custody, other.recovery = layout.recovery
        PROVE  other = layout
    <3>1. Ready(other) \in Puzzles(v)
      BY <2>1, <2>7 DEF Matches, Good
    <3>2. other \in Past(v)
      BY <3>1, PastOfPuzzle
    <3> QED
      BY <2>5, <2>7, <3>2 DEF Told
  <2>8. Unknown \in ClawbackGuess /\ layout.timelock \in Tried(Unknown)
    BY <2>2, GuessTypes DEF Tried, Unknown
  <2>9. Reconstruct(found, layout.recovery, Unknown) = {layout}
    BY <2>2, <2>4, <2>6, <2>7, <2>8, ReconstructRebuilds
  <2> QED
    BY <2>9 DEF now
<1> QED
  BY <1>1, CacheInvHolds, PTL
=============================================================================
