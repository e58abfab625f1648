---------------------------- MODULE VaultLineProofs ----------------------------
(***************************************************************************)
(* What holds of the lines of vaults, of any length: of which type they    *)
(* are, and that what was once read off a line stays as it was.            *)
(***************************************************************************)
EXTENDS VaultLine, DiscoverProofs

-----------------------------------------------------------------------------
(* What a line says of its vault.                                          *)

LinesType == line \in [Vaults -> Seq(Link)] /\ \A v \in Vaults : line[v] # <<>>

LinesLived == \A v \in Vaults : Lived(line[v])

\* Every puzzle v has had.
Puzzles(v) == {line[v][i].puzzle : i \in DOMAIN line[v]}

\* Every custody path a lookup can have read off v.
CustodyPaths(v) == {CustodyRead(line[v], i) : i \in CustodySpends(line[v])}

LEMMA LinkOf ==
    ASSUME LinesType, NEW v \in Vaults
    PROVE  /\ Len(line[v]) \in Nat /\ Len(line[v]) >= 1
           /\ DOMAIN line[v] = 1..Len(line[v])
           /\ \A i \in 1..Len(line[v]) : line[v][i] \in Link
<1>1. line[v] \in Seq(Link) /\ line[v] # <<>>
  BY DEF LinesType
<1> QED
  BY <1>1

LEMMA ReadyPuzzle ==
    ASSUME NEW puzzle \in Puzzle, puzzle.state = "READY"
    PROVE  puzzle.layout \in Layout /\ puzzle = Ready(puzzle.layout)
BY DEF Puzzle, Ready

LEMMA ReadyLayout ==
    ASSUME NEW layout, Ready(layout) \in Puzzle
    PROVE  layout \in Layout
<1>1. Ready(layout).state = "READY" /\ Ready(layout).layout = layout
  BY DEF Ready
<1> QED
  BY <1>1, ReadyPuzzle

LEMMA PuzzlesType ==
    ASSUME LinesType, NEW v \in Vaults
    PROVE  Puzzles(v) \subseteq Puzzle
BY LinkOf DEF Puzzles, Link

\* A layout is in the past of v when its READY puzzle is.
LEMMA PastOfPuzzle ==
    ASSUME NEW v, NEW layout, Ready(layout) \in Puzzles(v)
    PROVE  layout \in Past(v)
<1>1. PICK i \in DOMAIN line[v] : line[v][i].puzzle = Ready(layout)
  BY DEF Puzzles
<1>2. Ready(layout).state = "READY" /\ Ready(layout).layout = layout
  BY DEF Ready
<1> QED
  BY <1>1, <1>2 DEF Past

LEMMA GuessTypes ==
    /\ Unknown \in ClawbackGuess
    /\ \A secs \in Timelocks : Hint(secs) \in ClawbackGuess /\ Known(secs) \in ClawbackGuess
    /\ \A guess \in ClawbackGuess : guess # Unknown => guess.secs \in Timelocks
BY DEF ClawbackGuess, Unknown, Hint, Known

-----------------------------------------------------------------------------
(* A vault moves on.                                                       *)

\* What was once true of a line stays true.
Grows ==
    \A v \in Vaults :
        /\ Past(v) \subseteq Past(v)'
        /\ Puzzles(v) \subseteq Puzzles(v)'
        /\ CustodyPaths(v) \subseteq CustodyPaths(v)'

\* A line only gets longer.
Kept ==
    \A v \in Vaults :
        /\ Len(line[v]) <= Len(line[v])'
        /\ \A i \in 1..Len(line[v]) : line[v][i]' = line[v][i]

LEMMA ExtendGood ==
    ASSUME LinesType, NEW v \in Vaults, NEW link \in Link, Extend(v, link)
    PROVE  LinesType' /\ Grows /\ Kept
<1>1. line' = [line EXCEPT ![v] = Append(line[v], link)]
  BY DEF Extend
<1>2. line[v] \in Seq(Link)
  BY DEF LinesType
<1>3. Append(line[v], link) \in Seq(Link) /\ Append(line[v], link) # <<>>
  BY <1>2
<1>4. LinesType'
  BY <1>1, <1>3 DEF LinesType
<1>5. ASSUME NEW w \in Vaults
      PROVE  /\ DOMAIN line[w] \subseteq DOMAIN line'[w]
             /\ Len(line[w]) <= Len(line'[w])
             /\ \A i \in DOMAIN line[w] : line'[w][i] = line[w][i]
  <2>1. CASE w = v
    BY <1>1, <1>2, <2>1 DEF LinesType
  <2>2. CASE w # v
    BY <1>1, <2>2 DEF LinesType
  <2> QED
    BY <2>1, <2>2
<1>6. Grows
  <2>1. \A w \in Vaults : Past(w) \subseteq Past(w)' /\ Puzzles(w) \subseteq Puzzles(w)'
    BY <1>5 DEF Past, Puzzles
  <2>2. ASSUME NEW w \in Vaults, NEW i \in CustodySpends(line[w])
        PROVE  /\ i \in CustodySpends(line'[w])
               /\ CustodyRead(line'[w], i) = CustodyRead(line[w], i)
    <3>1. /\ i \in 1..(Len(line[w]) - 1) /\ line[w][i + 1].how \in ReadAsCustody
          /\ Len(line[w]) \in Nat /\ DOMAIN line[w] = 1..Len(line[w])
          /\ Len(line'[w]) \in Nat /\ Len(line[w]) <= Len(line'[w])
      BY <1>4, <1>5, LinkOf DEF CustodySpends, LinesType
    <3>2. i \in DOMAIN line[w] /\ i + 1 \in DOMAIN line[w] /\ i \in 1..(Len(line'[w]) - 1)
      BY <3>1
    <3>3. line'[w][i] = line[w][i] /\ line'[w][i + 1] = line[w][i + 1]
      BY <1>5, <3>2
    <3> QED
      BY <3>1, <3>2, <3>3 DEF CustodySpends, CustodyRead
  <2>3. \A w \in Vaults : CustodyPaths(w) \subseteq CustodyPaths(w)'
    BY <2>2 DEF CustodyPaths
  <2> QED
    BY <2>1, <2>3 DEF Grows
<1>7. Kept
  BY <1>5, LinkOf DEF Kept
<1> QED
  BY <1>4, <1>6, <1>7

LEMMA LineStepGood ==
    ASSUME LinesType, NEW v \in Vaults, LineStep(v)
    PROVE  LinesType' /\ Grows /\ Kept
<1>1. Newest(v) \in Puzzle
  BY LinkOf DEF Newest, Link
<1>2. ASSUME NEW puzzle \in Puzzle, NEW how \in {"custody", "start", "finish"},
             NEW memo \in BOOLEAN, Extend(v, [puzzle |-> puzzle, how |-> how, memo |-> memo])
      PROVE  LinesType' /\ Grows /\ Kept
  <2>1. [puzzle |-> puzzle, how |-> how, memo |-> memo] \in Link
    BY DEF Link
  <2> QED
    BY <1>2, <2>1, ExtendGood
<1>3. ASSUME NEW layout \in Layout
      PROVE  /\ Ready(layout) \in Puzzle
             /\ \A next \in Layout : InRecovery(layout, next, 1) \in Puzzle
  BY DEF Ready, InRecovery, Puzzle, Layout
<1>4. CASE \E layout \in NextLayouts, memo \in BOOLEAN : CustodySpend(v, layout, memo)
  BY <1>2, <1>3, <1>4, LineAssumption DEF CustodySpend
<1>5. CASE \E post \in NextLayouts : EnterRecovery(v, post)
  <2>1. Newest(v).layout \in Layout
    BY <1>1, <1>5, ReadyPuzzle DEF EnterRecovery
  <2> QED
    BY <1>2, <1>3, <1>5, <2>1, LineAssumption DEF EnterRecovery
<1>6. CASE LeaveRecovery(v)
  <2>1. Newest(v).post \in Layout
    BY <1>1, <1>6 DEF LeaveRecovery, Puzzle
  <2> QED
    BY <1>2, <1>3, <1>6, <2>1 DEF LeaveRecovery
<1> QED
  BY <1>4, <1>5, <1>6 DEF LineStep

\* Every coin of a line was made by a spend of the one before it.
LEMMA ExtendLived ==
    ASSUME LinesType, LinesLived, NEW v \in Vaults, NEW link,
           SpentTo(Newest(v), link), Extend(v, link)
    PROVE  LinesLived'
<1> DEFINE old == line[v]
           new == Append(old, link)
           n   == Len(old)
<1>1. line' = [line EXCEPT ![v] = new]
  BY DEF Extend
<1>2. old \in Seq(Link) /\ n \in Nat /\ n >= 1 /\ Lived(old)
  BY LinkOf DEF LinesType, LinesLived
<1>3. SpentTo(old[n].puzzle, link)
  BY DEF Newest
<1>4. /\ new # <<>> /\ Len(new) = n + 1 /\ new[n + 1] = link
      /\ \A i \in 1..n : new[i] = old[i]
  <2> HIDE DEF old
  <2> QED
    BY <1>2
<1> HIDE DEF new
<1>5. ASSUME NEW i \in 2..(n + 1) PROVE SpentTo(new[i - 1].puzzle, new[i])
  <2>1. CASE i = n + 1
    <3>1. i - 1 = n /\ n \in 1..n
      BY <1>2, <2>1
    <3> QED
      BY <1>3, <1>4, <2>1, <3>1
  <2>2. CASE i # n + 1
    <3>1. i \in 2..n /\ i \in 1..n /\ i - 1 \in 1..n
      BY <1>2, <2>2
    <3> QED
      BY <1>2, <1>4, <3>1 DEF Lived
  <2> QED
    BY <2>1, <2>2
<1>6. Lived(new)
  <2>1. new[1] = old[1]
    BY <1>2, <1>4
  <2> QED
    BY <1>2, <1>4, <1>5, <2>1 DEF Lived
<1>7. \A w \in Vaults : line'[w] = IF w = v THEN new ELSE line[w]
  BY <1>1 DEF LinesType
<1> QED
  BY <1>6, <1>7 DEF LinesLived

LEMMA LineStepLived ==
    ASSUME LinesType, LinesLived, NEW v \in Vaults, LineStep(v)
    PROVE  LinesLived'
<1>1. \A layout : Ready(layout).state = "READY"
  BY DEF Ready
<1>2. \A layout, post : InRecovery(layout, post, 1).state = "RECOVERY"
  BY DEF InRecovery
<1>3. CASE \E layout \in NextLayouts, memo \in BOOLEAN : CustodySpend(v, layout, memo)
  BY <1>1, <1>3, ExtendLived DEF CustodySpend, SpentTo
<1>4. CASE \E post \in NextLayouts : EnterRecovery(v, post)
  BY <1>2, <1>4, ExtendLived DEF EnterRecovery, SpentTo
<1>5. CASE LeaveRecovery(v)
  BY <1>5, ExtendLived DEF LeaveRecovery, SpentTo
<1> QED
  BY <1>3, <1>4, <1>5 DEF LineStep

\* The part of a line that was walked stays as it was.
LEMMA WalkedStays ==
    ASSUME LinesType, LinesType', Kept, NEW v \in Vaults, NEW n \in 0..Len(line[v])
    PROVE  SubSeq(line[v], 1, n)' = SubSeq(line[v], 1, n)
<1>1. /\ line[v] \in Seq(Link) /\ line'[v] \in Seq(Link)
      /\ Len(line[v]) <= Len(line'[v])
      /\ \A i \in 1..Len(line[v]) : line'[v][i] = line[v][i]
  BY DEF LinesType, Kept
<1> QED
  BY <1>1

-----------------------------------------------------------------------------
(* What a lookup answers is a lookup, whatever line it reads.              *)

LEMMA LookupAnswersType ==
    ASSUME NEW walked \in Seq(Link), walked # <<>>, NEW extra, NEW missed
    PROVE  /\ \A lost : FoundFrom(walked, lost) \subseteq Lookup
           /\ LookupAnswers(walked, extra, missed) \subseteq SUBSET Lookup
<1> DEFINE n == Len(walked)
           now == walked[n]
<1>1. n \in Nat /\ n >= 1 /\ n \in 1..n /\ \A i \in 1..n : walked[i].puzzle \in Puzzle
  <2>1. n \in Nat /\ n >= 1 /\ \A i \in 1..n : walked[i] \in Link
    OBVIOUS
  <2> HIDE DEF n
  <2> QED
    BY <2>1 DEF Link
<1>2. HintedBy(walked, extra \cup Common) \subseteq Lookup
  <2>1. ASSUME now.puzzle.state = "READY"
        PROVE  [kind |-> "hinted", layout |-> now.puzzle.layout] \in Lookup
    BY <1>1, <2>1, ReadyPuzzle DEF Lookup, HintedFacts
  <2> QED
    BY <2>1 DEF HintedBy
<1>3. ASSUME NEW i \in CustodySpends(walked)
      PROVE  [kind      |-> "found",
              custody   |-> CustodyRead(walked, i),
              current   |-> now.puzzle,
              ancestors |-> {walked[j].puzzle : j \in 1..(n - 1)},
              guess     |-> Unknown] \in Lookup
  <2>1. i \in 1..n
    BY <1>1 DEF CustodySpends
  <2>2. CustodyOf(walked[i].puzzle) \in CustodyKeys
    BY <1>1, <2>1 DEF CustodyOf, Puzzle, Layout
  <2>3. CustodyRead(walked, i) \in Custodies
    BY <2>2 DEF CustodyRead, Custodies
  <2>4. now.puzzle \in Puzzle /\ {walked[j].puzzle : j \in 1..(n - 1)} \subseteq Puzzle
    BY <1>1
  <2> HIDE DEF now, n
  <2> QED
    BY <2>3, <2>4, GuessTypes DEF Lookup, FoundFacts
<1>4. ASSUME NEW lost, NEW found \in FoundFrom(walked, lost)
      PROVE  found \in Lookup
  <2>1. PICK i \in CustodySpends(walked) :
            found = [kind      |-> "found",
                     custody   |-> CustodyRead(walked, i),
                     current   |-> now.puzzle,
                     ancestors |-> {walked[j].puzzle : j \in 1..(n - 1)},
                     guess     |-> Unknown]
    BY <1>4 DEF FoundFrom
  <2> QED
    BY <1>3, <2>1
<1> HIDE DEF n, now
<1>5. \A lost : FoundFrom(walked, lost) \subseteq Lookup
  BY <1>4
<1> QED
  BY <1>2, <1>5 DEF LookupAnswers
=============================================================================
