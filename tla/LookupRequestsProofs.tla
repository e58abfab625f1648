------------------------- MODULE LookupRequestsProofs -------------------------
(***************************************************************************)
(* Theorems about LookupRequests, for any number of vaults and coins, and  *)
(* lines of any length: what a lookup answers is what one moment would     *)
(* have answered, and a used address is resolved to its own vault.         *)
(***************************************************************************)
EXTENDS LookupRequests, VaultLineProofs, FiniteSetTheorems

-----------------------------------------------------------------------------
(* The invariant: how far a lookup has come with a vault it has located.   *)

\* The end of the walk was the newest coin at some moment since it began.
Reached(stage, v) == stage.at \in stage.began.length[v]..Len(line[v])

WalkedBy(stage, v) == SubSeq(line[v], 1, stage.at)

\* No hint, and no custody spend after the one to read next, unless the node
\* did not answer for it.
NoneSince(stage, v) ==
    /\ stage.back \in 0..(stage.at - 1)
    /\ "memo" \notin stage.missed => HintedBy(WalkedBy(stage, v), stage.typed \cup Common) = {}
    /\ "spend" \notin stage.missed =>
            \A i \in CustodySpends(WalkedBy(stage, v)) : i <= stage.back

Follows(stage, v) ==
    /\ stage.pc = "walk" => stage.at < Len(line[v])
    /\ stage.pc \in {"hint", "custody", "answered"} => Reached(stage, v)
    /\ stage.pc = "hint" => stage.back = stage.at - 1
    /\ stage.pc = "custody" => NoneSince(stage, v)
    /\ stage.pc = "answered" =>
            stage.answer \in LookupAnswers(WalkedBy(stage, v), stage.typed, stage.missed)

\* Before it has located a vault, a lookup has learnt nothing of any.
Asked(stage) ==
    /\ stage \in Asking
    /\ \A v \in Vaults : stage.began.length[v] \in 1..Len(line[v])
    /\ stage.pc \in {"exact", "hinted"} => stage.located = {} /\ stage.at = 0
    /\ stage.pc \in {"walk", "hint", "custody"} => \E v \in Vaults : stage.located = {v}
    /\ stage.pc = "exact" => stage.missed = {}
    /\ stage.pc \in {"hinted", "walk", "hint"} => stage.missed \subseteq {"coin"}
    /\ stage.pc # "answered" \/ stage.located = {} => stage.answer = {}
    /\ stage.pc = "answered" /\ stage.located # {} => \E v \in Vaults : stage.located = {v}

Sound(stage) == Asked(stage) /\ \A v \in stage.located : Follows(stage, v)

LookInv ==
    /\ LinesType
    /\ coins \in Seq(Coin)
    /\ op = Idle \/ Sound(op)

LEMMA AskingFields ==
    ASSUME NEW stage \in Asking
    PROVE  /\ stage # Idle
           /\ stage.pc \in {"exact", "hinted", "walk", "hint", "custody", "answered"}
           /\ stage.ask \in Asks /\ stage.ask \in Vaults
           /\ stage.typed \in Typings
           /\ stage.seen \in SUBSET Nat /\ stage.spent \in SUBSET Nat
           /\ stage.pages \in Nat /\ stage.at \in Nat /\ stage.back \in Nat
           /\ stage.located \in SUBSET Vaults
           /\ stage.answer \in SUBSET Lookup
           /\ stage.missed \in SUBSET Misses
           /\ stage.began \in [length : [Vaults -> Nat], used : BOOLEAN]
BY RequestsAssumption DEF Asking, Idle

LEMMA BusySound ==
    ASSUME LookInv, op.pc # "idle"
    PROVE  op \in Asking /\ Asked(op) /\ Sound(op) /\ op.located \subseteq Vaults
<1>1. op # Idle
  BY DEF Idle
<1>2. Sound(op)
  BY <1>1 DEF LookInv
<1> QED
  BY <1>2, AskingFields DEF Sound, Asked

LEMMA BecomeSound ==
    ASSUME LookInv, NEW stage, Become(stage), Sound(stage)
    PROVE  LookInv'
<1>1. op' = stage /\ UNCHANGED <<line, coins>>
  BY DEF Become
<1>2. Sound(stage)'
  BY <1>1 DEF Sound, Asked, Follows, Reached, WalkedBy, NoneSince
<1>3. LinesType'
  BY <1>1 DEF LookInv, LinesType
<1> QED
  BY <1>1, <1>2, <1>3 DEF LookInv, Sound, Asked, Follows, Reached, WalkedBy, NoneSince

-----------------------------------------------------------------------------
(* The world moves on.                                                     *)

\* A vault that moves on leaves what a lookup has walked.
LEMMA LineStepSound ==
    ASSUME LookInv, NEW v \in Vaults, LineStep(v), UNCHANGED <<coins, op>>
    PROVE  LookInv'
<1>1. LinesType' /\ Kept
  BY LineStepGood DEF LookInv
<1>2. ASSUME NEW w \in Vaults
      PROVE  /\ Len(line[w]) \in Nat /\ Len(line[w])' \in Nat
             /\ Len(line[w]) <= Len(line[w])'
  BY <1>1 DEF LookInv, LinesType, Kept
<1>3. ASSUME Sound(op) PROVE Sound(op)'
  <2>1. Asked(op) /\ op.located \in SUBSET Vaults /\ op.at \in Nat
        /\ op.began.length \in [Vaults -> Nat]
    BY <1>3, AskingFields DEF Sound, Asked
  <2>2. Asked(op)'
    <3>1. \A w \in Vaults : op.began.length[w] \in 1..Len(line[w])
      BY <2>1, Zenon DEF Asked
    <3>2. \A w \in Vaults : op.began.length[w] \in 1..Len(line[w])'
      BY <1>2, <2>1, <3>1
    <3>3. op' = op
      OBVIOUS
    <3> QED
      BY <2>1, <3>2, <3>3, Zenon DEF Asked
  <2>3. ASSUME NEW w \in op.located PROVE Follows(op, w)'
    <3>1. w \in Vaults /\ Follows(op, w)
      BY <1>3, <2>1, <2>3 DEF Sound
    <3>2. op.at \in 0..Len(line[w]) => WalkedBy(op, w)' = WalkedBy(op, w)
      BY <1>1, <3>1, WalkedStays DEF LookInv, WalkedBy
    <3>3. Reached(op, w) => Reached(op, w)' /\ op.at \in 0..Len(line[w])
      BY <1>2, <2>1, <3>1 DEF Reached
    <3>4. op.at < Len(line[w]) => (op.at < Len(line[w]))'
      BY <1>2, <2>1, <3>1
    <3>5. WalkedBy(op, w)' = WalkedBy(op, w) /\ NoneSince(op, w) => NoneSince(op, w)'
      BY DEF NoneSince
    <3>6. WalkedBy(op, w)' = WalkedBy(op, w) =>
            LookupAnswers(WalkedBy(op, w), op.typed, op.missed)'
                = LookupAnswers(WalkedBy(op, w), op.typed, op.missed)
      OBVIOUS
    <3> QED
      BY <3>1, <3>2, <3>3, <3>4, <3>5, <3>6 DEF Follows
  <2> QED
    BY <2>2, <2>3 DEF Sound
<1> QED
  BY <1>1, <1>3 DEF LookInv

LEMMA PaySound ==
    ASSUME LookInv, NEW c \in DOMAIN coins, NEW owner \in Owners, NEW odd \in BOOLEAN,
           Pay(c, owner, odd)
    PROVE  LookInv'
<1>1. coins \in Seq(Coin) /\ coins[c] \in Coin /\ c \in Nat
  BY DEF LookInv
<1>2. [owner |-> owner, parent |-> c, odd |-> odd, cat |-> coins[c].cat] \in Coin
  BY <1>1 DEF Coin
<1>3. coins' \in Seq(Coin) /\ UNCHANGED <<line, op>>
  BY <1>1, <1>2 DEF Pay
<1>4. LinesType'
  BY <1>3 DEF LookInv, LinesType
<1> QED
  BY <1>3, <1>4 DEF LookInv, Sound, Asked, Follows, Reached, WalkedBy, NoneSince

-----------------------------------------------------------------------------
(* The requests.                                                           *)

LEMMA LaunchersAreVaults ==
    ASSUME NEW seen, NEW spent, NEW lost
    PROVE  LauncherFrom(seen, spent, lost) \subseteq Vaults
<1>1. \A c : Revealed(c, lost) \subseteq Vaults
  BY DEF Revealed
<1>2. \A c : FromParents(c, lost) \subseteq Vaults
  BY <1>1 DEF FromParents
<1> QED
  BY <1>1, <1>2 DEF LauncherFrom

LEMMA CoinsAreNumbers ==
    ASSUME coins \in Seq(Coin)
    PROVE  /\ DOMAIN coins = 1..Len(coins)
           /\ DOMAIN coins \subseteq Nat
           /\ \A v, cat : AtAddress(v, cat) \subseteq DOMAIN coins
BY DEF AtAddress

LEMMA PageIsAtAddress == Page \subseteq AtAddress(op.ask, FALSE) \ op.seen
BY DEF Page

LEMMA AskSound ==
    ASSUME LookInv, NEW v \in Asks, NEW typed \in Typings, Ask(v, typed)
    PROVE  LookInv'
<1> DEFINE stage == [pc |-> "exact", ask |-> v, typed |-> typed, seen |-> {}, spent |-> {},
               pages |-> 0, located |-> {}, at |-> 0, back |-> 0, answer |-> {},
               missed |-> {},
               began |-> [length |-> [u \in Vaults |-> Len(line[u])],
                          used   |-> \E c \in AtAddress(v, FALSE) : IsSpent(c)]]
<1>1. Become(stage)
  BY DEF Ask
<1>2. \A u \in Vaults : Len(line[u]) \in Nat /\ Len(line[u]) >= 1
  BY LinkOf DEF LookInv
<1>3. stage \in Asking
  BY <1>2 DEF Asking
<1>4. /\ stage.pc = "exact" /\ stage.located = {} /\ stage.at = 0 /\ stage.answer = {}
      /\ stage.missed = {}
      /\ stage.began.length = [u \in Vaults |-> Len(line[u])]
  OBVIOUS
<1> HIDE DEF stage
<1>5. Sound(stage)
  BY <1>2, <1>3, <1>4 DEF Sound, Asked
<1> QED
  BY <1>1, <1>5, BecomeSound

LEMMA LocatedSound ==
    ASSUME LookInv, op.pc \in {"exact", "hinted"}, NEW v \in Vaults, NEW missed \in SUBSET {"coin"},
           Become([op EXCEPT !.pc = "walk", !.located = {v}, !.missed = missed])
    PROVE  LookInv'
<1> DEFINE stage == [op EXCEPT !.pc = "walk", !.located = {v}, !.missed = missed]
<1>1. op \in Asking /\ Asked(op)
  BY BusySound
<1>2. stage \in Asking
  BY <1>1 DEF Asking, Misses
<1>3. /\ stage.pc = "walk" /\ stage.located = {v} /\ stage.at = 0
      /\ stage.answer = {} /\ stage.began = op.began /\ stage.missed = missed
  BY <1>1 DEF Asking, Asked
<1>4. Len(line[v]) \in Nat /\ Len(line[v]) >= 1
  BY LinkOf DEF LookInv
<1> HIDE DEF stage
<1>5. Sound(stage)
  BY <1>1, <1>2, <1>3, <1>4 DEF Sound, Asked, Follows
<1> QED
  BY <1>5, BecomeSound DEF stage

\* Whatever has been read, and whatever the node has lost.
LEMMA LocateSound ==
    ASSUME LookInv, op.pc \in {"exact", "hinted"}, NEW next \in {"hinted", "answered"},
           NEW seen, NEW spent, NEW missed \in SUBSET {"coin"},
           Locate(seen, spent, missed, next)
    PROVE  LookInv'
<1>1. /\ op \in Asking /\ Asked(op) /\ op.located = {} /\ op.answer = {} /\ op.at = 0
  BY BusySound DEF Asked
<1>2. PICK lost \in SUBSET DOMAIN coins :
          LET less == missed \cup (IF lost = {} THEN {} ELSE {"coin"})
          IN  \/ \E v \in LauncherFrom(seen, spent, lost) :
                    Become([op EXCEPT !.pc = "walk", !.located = {v}, !.missed = less])
              \/ Become([op EXCEPT !.pc = next, !.missed = less])
  BY Zenon DEF Locate
<1> DEFINE less == missed \cup (IF lost = {} THEN {} ELSE {"coin"})
<1>3. less \in SUBSET {"coin"}
  OBVIOUS
<1>4. \/ \E v \in LauncherFrom(seen, spent, lost) :
            Become([op EXCEPT !.pc = "walk", !.located = {v}, !.missed = less])
      \/ Become([op EXCEPT !.pc = next, !.missed = less])
  BY <1>2
<1> HIDE DEF less
<1>5. CASE \E v \in LauncherFrom(seen, spent, lost) :
             Become([op EXCEPT !.pc = "walk", !.located = {v}, !.missed = less])
  BY <1>3, <1>5, LocatedSound, LaunchersAreVaults
<1>6. CASE Become([op EXCEPT !.pc = next, !.missed = less])
  <2> DEFINE stage == [op EXCEPT !.pc = next, !.missed = less]
  <2>1. stage \in Asking
    BY <1>1, <1>3 DEF Asking, Misses
  <2>2. /\ stage.pc = next /\ stage.located = {} /\ stage.at = 0
        /\ stage.answer = {} /\ stage.began = op.began /\ stage.missed = less
    BY <1>1 DEF Asking
  <2> HIDE DEF stage
  <2>3. Sound(stage)
    BY <1>1, <1>3, <2>1, <2>2 DEF Sound, Asked
  <2> QED
    BY <1>6, <2>3, BecomeSound DEF stage
<1> QED
  BY <1>4, <1>5, <1>6

LEMMA FindExactSound ==
    ASSUME LookInv, FindExact
    PROVE  LookInv'
<1> DEFINE seen  == op.seen \cup Page
           spent == op.spent \cup {c \in Page : IsSpent(c)}
<1>1. op \in Asking /\ Asked(op) /\ op.pc = "exact"
  <2>1. op.pc = "exact"
    BY DEF FindExact
  <2> QED
    BY <2>1, BusySound
<1>2. seen \in SUBSET Nat /\ spent \in SUBSET Nat
  BY <1>1, AskingFields, CoinsAreNumbers, PageIsAtAddress DEF LookInv
<1>3. \/ Become([op EXCEPT !.seen = seen, !.spent = spent, !.pages = @ + 1])
      \/ Locate(seen, spent, {}, "hinted")
      \/ Locate(seen, spent, {"coin"}, "hinted")
      \/ Locate(op.seen, op.spent, {"coin"}, "hinted")
  BY DEF FindExact
<1> HIDE DEF seen, spent
<1>4. CASE Become([op EXCEPT !.seen = seen, !.spent = spent, !.pages = @ + 1])
  <2> DEFINE stage == [op EXCEPT !.seen = seen, !.spent = spent, !.pages = @ + 1]
  <2>0. op.pages + 1 \in Nat
    BY <1>1, AskingFields
  <2>1. stage \in Asking
    BY <1>1, <1>2, <2>0 DEF Asking
  <2>2. /\ stage.pc = "exact" /\ stage.located = op.located /\ stage.at = op.at
        /\ stage.answer = op.answer /\ stage.began = op.began /\ stage.missed = op.missed
    BY <1>1 DEF Asking
  <2> HIDE DEF stage
  <2>3. Sound(stage)
    BY <1>1, <2>1, <2>2 DEF Sound, Asked
  <2> QED
    BY <1>4, <2>3, BecomeSound DEF stage
<1> QED
  BY <1>1, <1>3, <1>4, LocateSound

LEMMA FindHintedSound ==
    ASSUME LookInv, FindHinted
    PROVE  LookInv'
<1>1. op.pc = "hinted"
  BY DEF FindHinted
<1>2. op.missed \in SUBSET {"coin"}
  BY <1>1, BusySound DEF Asked
<1>3. PICK seen, spent : Locate(seen, spent, op.missed, "answered")
  BY DEF FindHinted
<1> QED
  BY <1>1, <1>2, <1>3, LocateSound

LEMMA WalkingType ==
    ASSUME NEW stage \in Asking, NEW at \in Nat, NEW back \in Nat, NEW pc \in {"walk", "hint"}
    PROVE  [stage EXCEPT !.at = at, !.back = back, !.pc = pc] \in Asking
BY DEF Asking

LEMMA WalkSound ==
    ASSUME LookInv, Walk
    PROVE  LookInv'
<1>1. op.pc = "walk"
  BY DEF Walk
<1>2. op \in Asking /\ Asked(op) /\ Sound(op) /\ op.located \subseteq Vaults
  BY <1>1, BusySound
<1> DEFINE Stage(v) ==
             [op EXCEPT !.at = op.at + 1, !.back = (op.at + 1) - 1,
                        !.pc = IF op.at + 1 < Len(line[v]) THEN "walk" ELSE "hint"]
<1>3. PICK v \in op.located : Become(Stage(v))
  <2>1. PICK v \in op.located :
          LET child == op.at + 1
          IN  Become([op EXCEPT !.at = child, !.back = child - 1,
                                !.pc = IF child < Len(line[v]) THEN "walk" ELSE "hint"])
    BY DEF Walk
  <2> QED
    BY <2>1
<1>4. v \in Vaults /\ op.located = {v} /\ op.at < Len(line[v])
  BY <1>1, <1>2, <1>3 DEF Sound, Asked, Follows
<1> DEFINE stage == Stage(v)
<1>5. op.at \in Nat /\ Len(line[v]) \in Nat
  BY <1>2, <1>4, AskingFields, LinkOf DEF LookInv
<1>6. stage \in Asking
  <2> DEFINE child == op.at + 1
             back  == child - 1
             pc    == IF child < Len(line[v]) THEN "walk" ELSE "hint"
  <2>1. child \in Nat /\ back \in Nat /\ pc \in {"walk", "hint"}
    BY <1>5
  <2>2. stage = [op EXCEPT !.at = child, !.back = back, !.pc = pc]
    OBVIOUS
  <2> HIDE DEF child, back, pc, stage
  <2> QED
    BY <1>2, <2>1, <2>2, WalkingType
<1>7. /\ stage.at = op.at + 1 /\ stage.back = op.at + 1 - 1 /\ stage.located = {v}
      /\ stage.answer = {} /\ stage.began = op.began /\ stage.missed = op.missed
      /\ stage.pc = IF op.at + 1 < Len(line[v]) THEN "walk" ELSE "hint"
  BY <1>1, <1>2, <1>4 DEF Asking, Asked
<1> HIDE DEF stage
<1>8. Asked(stage)
  <2>1. op.missed \subseteq {"coin"}
    BY <1>1, <1>2 DEF Asked
  <2>2. \A u \in Vaults : stage.began.length[u] \in 1..Len(line[u])
    BY <1>2, <1>7 DEF Asked
  <2>3. stage.pc \in {"walk", "hint"}
    BY <1>7
  <2> QED
    BY <1>4, <1>6, <1>7, <2>1, <2>2, <2>3, Zenon DEF Asked
<1>9. Follows(stage, v)
  <2>1. op.began.length[v] \in 1..Len(line[v])
    BY <1>2, <1>4 DEF Asked
  <2>2. CASE op.at + 1 < Len(line[v])
    <3>1. stage.pc = "walk" /\ stage.at < Len(line[v])
      BY <1>7, <2>2
    <3> QED
      BY <3>1 DEF Follows
  <2>3. CASE op.at + 1 = Len(line[v])
    <3>1. stage.pc = "hint" /\ stage.at = Len(line[v])
      BY <1>5, <1>7, <2>3
    <3>2. stage.back = stage.at - 1
      BY <1>5, <1>7
    <3>3. stage.began.length[v] \in 1..Len(line[v])
      BY <1>7, <2>1
    <3>4. Reached(stage, v)
      BY <1>5, <3>1, <3>3 DEF Reached
    <3> QED
      BY <3>1, <3>2, <3>4 DEF Follows
  <2> QED
    BY <1>4, <1>5, <2>2, <2>3
<1> QED
  BY <1>3, <1>7, <1>8, <1>9, BecomeSound DEF Sound, stage

\* The coins walked, once the walk has ended.
LEMMA WalkedType ==
    ASSUME LookInv, op.pc \in {"hint", "custody"}, NEW v \in op.located
    PROVE  /\ v \in Vaults /\ op.located = {v}
           /\ op.at \in 1..Len(line[v]) /\ Reached(op, v)
           /\ Walked(v) = WalkedBy(op, v)
           /\ Walked(v) \in Seq(Link) /\ Len(Walked(v)) = op.at /\ Walked(v) # <<>>
           /\ \A i \in 1..op.at : Walked(v)[i] = line[v][i]
<1>1. op \in Asking /\ Asked(op) /\ Sound(op) /\ op.located \subseteq Vaults
  BY BusySound
<1>2. v \in Vaults /\ op.located = {v} /\ Reached(op, v)
  BY <1>1 DEF Sound, Asked, Follows
<1>3. line[v] \in Seq(Link) /\ Len(line[v]) \in Nat
  BY <1>2 DEF LookInv, LinesType
<1>4. op.at \in 1..Len(line[v])
  <2>1. op.began.length[v] \in 1..Len(line[v]) /\ op.at \in Nat
    BY <1>1, <1>2, AskingFields DEF Asked
  <2> QED
    BY <1>2, <1>3, <2>1 DEF Reached
<1>5. /\ Walked(v) \in Seq(Link) /\ Len(Walked(v)) = op.at /\ Walked(v) # <<>>
      /\ \A i \in 1..op.at : Walked(v)[i] = line[v][i]
  BY <1>3, <1>4 DEF Walked
<1> QED
  BY <1>2, <1>4, <1>5 DEF Walked, WalkedBy

\* What is found once the spends newer than i are known, or lost.
LEMMA NewestCustody ==
    ASSUME NEW walked, NEW lost, NEW i \in CustodySpends(walked) \ lost,
           \A j \in CustodySpends(walked) \ lost : j <= i
    PROVE  FoundFrom(walked, lost) =
             {[kind      |-> "found",
               custody   |-> CustodyRead(walked, i),
               current   |-> walked[Len(walked)].puzzle,
               ancestors |-> {walked[j].puzzle : j \in 1..(Len(walked) - 1)},
               guess     |-> Unknown]}
<1> DEFINE read == CustodySpends(walked) \ lost
<1>1. {k \in read : \A j \in read : j <= k} = {i}
  <2>1. \A k \in read : k \in Int
    BY DEF CustodySpends
  <2> QED
    BY <2>1
<1> QED
  BY <1>1 DEF FoundFrom

\* A lookup ends with an answer of the coins it has walked.
LEMMA AnsweredSound ==
    ASSUME LookInv, op.pc \in {"hint", "custody"}, NEW v \in op.located,
           NEW answer \in LookupAnswers(Walked(v), op.typed, op.missed),
           Become([op EXCEPT !.pc = "answered", !.answer = answer])
    PROVE  LookInv'
<1> DEFINE stage == [op EXCEPT !.pc = "answered", !.answer = answer]
<1>1. op \in Asking /\ Asked(op) /\ Sound(op)
  BY BusySound
<1>2. v \in Vaults /\ op.located = {v} /\ Walked(v) = WalkedBy(op, v) /\ Reached(op, v)
  BY WalkedType
<1>3. answer \in SUBSET Lookup
  BY WalkedType, LookupAnswersType
<1>4. stage \in Asking
  BY <1>1, <1>3 DEF Asking
<1>5. /\ stage.pc = "answered" /\ stage.answer = answer /\ stage.located = {v}
      /\ stage.at = op.at /\ stage.began = op.began /\ stage.typed = op.typed
      /\ stage.missed = op.missed
  BY <1>1, <1>2 DEF Asking
<1> HIDE DEF stage
<1>6. Asked(stage)
  BY <1>1, <1>2, <1>4, <1>5 DEF Asked
<1>7. Follows(stage, v)
  BY <1>2, <1>5 DEF Follows, Reached, WalkedBy
<1> QED
  BY <1>5, <1>6, <1>7, BecomeSound DEF Sound, stage

\* There is no memo, or it was missed: the custody spends are read.
LEMMA NoHintSound ==
    ASSUME LookInv, op.pc = "hint", NEW v \in op.located,
           NEW missed \in SUBSET Misses, op.missed \subseteq missed,
           "memo" \in missed \/ HintedBy(Walked(v), op.typed \cup Common) = {},
           Become([op EXCEPT !.pc = "custody", !.missed = missed])
    PROVE  LookInv'
<1> DEFINE stage == [op EXCEPT !.pc = "custody", !.missed = missed]
<1>1. op \in Asking /\ Asked(op) /\ Sound(op)
  BY BusySound
<1>2. stage \in Asking
  BY <1>1 DEF Asking
<1>3. /\ stage.pc = "custody" /\ stage.located = op.located /\ stage.at = op.at
      /\ stage.back = op.back /\ stage.answer = {} /\ stage.began = op.began
      /\ stage.typed = op.typed /\ stage.missed = missed
  BY <1>1 DEF Asking, Asked
<1>4. /\ v \in Vaults /\ op.located = {v} /\ op.at \in 1..Len(line[v]) /\ Reached(op, v)
      /\ Walked(v) = WalkedBy(op, v) /\ Len(Walked(v)) = op.at
  BY WalkedType
<1>5. op.back = op.at - 1
  BY <1>1 DEF Sound, Follows
<1>6. \A i \in CustodySpends(Walked(v)) : i <= op.back
  BY <1>4, <1>5 DEF CustodySpends
<1>7. op.back \in 0..(op.at - 1)
  BY <1>4, <1>5
<1> HIDE DEF stage
<1>8. WalkedBy(stage, v) = Walked(v)
  BY <1>3, <1>4 DEF WalkedBy
<1>9. Follows(stage, v)
  BY <1>3, <1>4, <1>6, <1>7, <1>8 DEF Follows, NoneSince, Reached
<1>10. Asked(stage)
  BY <1>1, <1>2, <1>3, <1>4 DEF Asked
<1> QED
  BY <1>3, <1>4, <1>9, <1>10, BecomeSound DEF Sound, stage

LEMMA ReadHintSound ==
    ASSUME LookInv, ReadHint
    PROVE  LookInv'
<1>1. op.pc = "hint"
  BY DEF ReadHint
<1>2. op \in Asking /\ Asked(op) /\ op.missed \in SUBSET Misses
  BY <1>1, BusySound, AskingFields
<1>3. CASE \E v \in op.located :
              LET hinted == HintedBy(Walked(v), op.typed \cup Common)
              IN  IF hinted # {} THEN Become([op EXCEPT !.pc = "answered", !.answer = hinted])
                  ELSE Become([op EXCEPT !.pc = "custody"])
  <2> DEFINE Hinted(v) == HintedBy(Walked(v), op.typed \cup Common)
  <2>1. PICK v \in op.located :
          IF Hinted(v) # {} THEN Become([op EXCEPT !.pc = "answered", !.answer = Hinted(v)])
          ELSE Become([op EXCEPT !.pc = "custody"])
    BY <1>3
  <2>2. CASE Hinted(v) # {}
    <3>1. "memo" \notin op.missed
      BY <1>1, <1>2 DEF Asked
    <3>2. Hinted(v) \in LookupAnswers(Walked(v), op.typed, op.missed)
      BY <2>2, <3>1 DEF LookupAnswers
    <3> QED
      BY <1>1, <2>1, <2>2, <3>2, AnsweredSound
  <2>3. CASE Hinted(v) = {}
    <3>1. [op EXCEPT !.pc = "custody"] = [op EXCEPT !.pc = "custody", !.missed = op.missed]
      BY <1>2 DEF Asking
    <3> QED
      BY <1>1, <1>2, <2>1, <2>3, <3>1, NoHintSound
  <2> QED
    BY <2>2, <2>3
<1>4. CASE Become([op EXCEPT !.pc = "custody", !.missed = @ \cup {"memo"}])
  <2>1. op.missed \cup {"memo"} \in SUBSET Misses
    BY <1>2 DEF Misses
  <2>2. PICK v \in op.located : TRUE
    BY <1>1, <1>2 DEF Asked
  <2> QED
    BY <1>1, <1>4, <2>1, <2>2, NoHintSound
<1> QED
  BY <1>3, <1>4 DEF ReadHint

\* The spend reads as none by custody, or it was missed: the one before is next.
LEMMA PassedSound ==
    ASSUME LookInv, op.pc = "custody", op.back > 0, NEW v \in op.located,
           NEW missed \in SUBSET Misses, op.missed \subseteq missed,
           "spend" \in missed \/ op.back \notin CustodySpends(Walked(v)),
           Become([op EXCEPT !.back = op.back - 1, !.missed = missed])
    PROVE  LookInv'
<1> DEFINE back  == op.back - 1
           stage == [op EXCEPT !.back = back, !.missed = missed]
<1>1. op \in Asking /\ Asked(op) /\ Sound(op)
  BY BusySound
<1>2. /\ v \in Vaults /\ op.located = {v} /\ op.at \in 1..Len(line[v]) /\ Reached(op, v)
      /\ Walked(v) = WalkedBy(op, v) /\ Len(Walked(v)) = op.at
  BY WalkedType
<1>3. op.back \in 0..(op.at - 1) /\ op.back \in Nat /\ NoneSince(op, v)
  BY <1>1, <1>2, AskingFields DEF Sound, Follows, NoneSince
<1>4. back \in Nat /\ back \in 0..(op.at - 1)
  BY <1>2, <1>3
<1>5. "spend" \notin missed => \A i \in CustodySpends(Walked(v)) : i <= back
  <2>1. \A i \in CustodySpends(Walked(v)) : i \in Nat
    BY <1>2 DEF CustodySpends
  <2> QED
    BY <1>2, <1>3, <2>1 DEF NoneSince
<1>6. "memo" \notin missed => HintedBy(Walked(v), op.typed \cup Common) = {}
  BY <1>2, <1>3 DEF NoneSince
<1> HIDE DEF back
<1>7. stage \in Asking
  BY <1>1, <1>4 DEF Asking
<1>8. /\ stage.pc = "custody" /\ stage.located = {v} /\ stage.at = op.at
      /\ stage.back = back /\ stage.answer = {} /\ stage.began = op.began
      /\ stage.typed = op.typed /\ stage.missed = missed
  BY <1>1, <1>2 DEF Asking, Asked
<1> HIDE DEF stage
<1>9. Asked(stage)
  BY <1>1, <1>2, <1>7, <1>8 DEF Asked
<1>10. WalkedBy(stage, v) = Walked(v)
  BY <1>2, <1>8 DEF WalkedBy
<1>11. Follows(stage, v)
  BY <1>2, <1>4, <1>5, <1>6, <1>8, <1>10 DEF Follows, NoneSince, Reached
<1> QED
  BY <1>8, <1>9, <1>11, BecomeSound DEF Sound, stage, back

\* The newest custody spend but for those that were missed is an answer.
LEMMA FoundAnswers ==
    ASSUME LookInv, op.pc = "custody", NEW v \in op.located,
           op.back \in CustodySpends(Walked(v))
    PROVE  {Found(v, op.at)} \in LookupAnswers(Walked(v), op.typed, op.missed)
<1> DEFINE newer     == {j \in CustodySpends(Walked(v)) : j > op.back}
           current   == line[v][op.at].puzzle
           ancestors == {line[v][j].puzzle : j \in 1..(op.at - 1)}
           custody   == CustodyRead(Walked(v), op.back)
           found     == [kind |-> "found", custody |-> custody, current |-> current,
                         ancestors |-> ancestors, guess |-> Unknown]
<1>1. /\ v \in Vaults /\ Walked(v) = WalkedBy(op, v)
      /\ Len(Walked(v)) = op.at /\ op.at \in 1..Len(line[v])
      /\ \A i \in 1..op.at : Walked(v)[i] = line[v][i]
  BY WalkedType
<1>2. NoneSince(op, v)
  BY <1>1, BusySound DEF Sound, Follows
<1>3. \A i \in CustodySpends(Walked(v)) : i \in Nat
  BY <1>1 DEF CustodySpends
<1>4. op.back \in CustodySpends(Walked(v)) \ newer
      /\ \A j \in CustodySpends(Walked(v)) \ newer : j <= op.back
  BY <1>3
<1>5. /\ Walked(v)[Len(Walked(v))].puzzle = current
      /\ {Walked(v)[j].puzzle : j \in 1..(Len(Walked(v)) - 1)} = ancestors
  BY <1>1
<1>6. FoundFrom(Walked(v), newer) = {Found(v, op.at)}
  <2> HIDE DEF newer
  <2>1. FoundFrom(Walked(v), newer) =
          {[kind      |-> "found",
            custody   |-> CustodyRead(Walked(v), op.back),
            current   |-> Walked(v)[Len(Walked(v))].puzzle,
            ancestors |-> {Walked(v)[j].puzzle : j \in 1..(Len(Walked(v)) - 1)},
            guess     |-> Unknown]}
    BY <1>4, NewestCustody
  <2>2. FoundFrom(Walked(v), newer) = {found}
    BY <1>5, <2>1, Zenon
  <2>3. Found(v, op.at) = found
    BY DEF Found
  <2> QED
    BY <2>2, <2>3
<1>7. "spend" \notin op.missed => newer = {}
  BY <1>1, <1>2, <1>3 DEF NoneSince
<1>8. newer \in SUBSET CustodySpends(Walked(v))
  OBVIOUS
<1>9. "memo" \in op.missed \/ HintedBy(Walked(v), op.typed \cup Common) = {}
  BY <1>1, <1>2 DEF NoneSince
<1> HIDE DEF newer
<1> QED
  BY <1>6, <1>7, <1>8, <1>9 DEF LookupAnswers

LEMMA ReadSpendSound ==
    ASSUME LookInv, ReadSpend
    PROVE  LookInv'
<1>1. op.pc = "custody" /\ op.back > 0
  BY DEF ReadSpend
<1>2. op \in Asking /\ Asked(op) /\ op.missed \in SUBSET Misses
  BY <1>1, BusySound, AskingFields
<1>3. CASE \E v \in op.located :
              IF op.back \in CustodySpends(Walked(v))
              THEN Become([op EXCEPT !.pc = "answered", !.answer = {Found(v, op.at)}])
              ELSE Become([op EXCEPT !.back = @ - 1])
  <2>1. PICK v \in op.located :
          IF op.back \in CustodySpends(Walked(v))
          THEN Become([op EXCEPT !.pc = "answered", !.answer = {Found(v, op.at)}])
          ELSE Become([op EXCEPT !.back = @ - 1])
    BY <1>3
  <2>2. CASE op.back \in CustodySpends(Walked(v))
    BY <1>1, <2>1, <2>2, FoundAnswers, AnsweredSound
  <2>3. CASE op.back \notin CustodySpends(Walked(v))
    <3>1. [op EXCEPT !.back = @ - 1] = [op EXCEPT !.back = op.back - 1, !.missed = op.missed]
      BY <1>2 DEF Asking
    <3> QED
      BY <1>1, <1>2, <2>1, <2>3, <3>1, PassedSound
  <2> QED
    BY <2>2, <2>3
<1>4. CASE Become([op EXCEPT !.back = @ - 1, !.missed = @ \cup {"spend"}])
  <2>1. op.missed \cup {"spend"} \in SUBSET Misses
    BY <1>2 DEF Misses
  <2>2. PICK v \in op.located : TRUE
    BY <1>1, <1>2 DEF Asked
  <2> QED
    BY <1>1, <1>4, <2>1, <2>2, PassedSound
<1> QED
  BY <1>3, <1>4 DEF ReadSpend

LEMMA NoCustodySound ==
    ASSUME LookInv, NoCustody
    PROVE  LookInv'
<1>1. op.pc = "custody" /\ op.back = 0
  BY DEF NoCustody
<1>2. op \in Asking /\ Asked(op) /\ Sound(op) /\ op.answer = {}
  BY <1>1, BusySound DEF Asked
<1>3. PICK v \in op.located : TRUE
  BY <1>1, <1>2 DEF Asked
<1>4. Walked(v) = WalkedBy(op, v) /\ Len(Walked(v)) = op.at /\ op.at \in Nat
  BY <1>1, <1>2, WalkedType, AskingFields
<1>5. NoneSince(op, v)
  BY <1>1, <1>2 DEF Sound, Follows
<1>6. "spend" \notin op.missed => CustodySpends(Walked(v)) = {}
  BY <1>1, <1>4, <1>5 DEF NoneSince, CustodySpends
<1>7. FoundFrom(Walked(v), CustodySpends(Walked(v))) = {}
  BY DEF FoundFrom
<1>8. {} \in LookupAnswers(Walked(v), op.typed, op.missed)
  BY <1>4, <1>5, <1>6, <1>7 DEF LookupAnswers, NoneSince
<1>9. [op EXCEPT !.pc = "answered", !.answer = {}] = [op EXCEPT !.pc = "answered"]
  BY <1>2 DEF Asking
<1> QED
  BY <1>1, <1>8, <1>9, AnsweredSound DEF NoCustody

LEMMA NextSound == LookInv /\ [Next]_vars => LookInv'
<1> SUFFICES ASSUME LookInv, [Next]_vars PROVE LookInv'
  OBVIOUS
<1>1. CASE UNCHANGED vars
  BY <1>1 DEF vars, LookInv, LinesType, Sound, Asked, Follows, Reached, WalkedBy, NoneSince
<1>2. CASE \E v \in Vaults : LineStep(v) /\ UNCHANGED <<coins, op>>
  BY <1>2, LineStepSound
<1>3. CASE \E c \in DOMAIN coins, owner \in Owners, odd \in BOOLEAN : Pay(c, owner, odd)
  BY <1>3, PaySound
<1>4. CASE \E v \in Asks, typed \in Typings : Ask(v, typed)
  BY <1>4, AskSound
<1>5. CASE FindExact \/ FindHinted
  BY <1>5, FindExactSound, FindHintedSound
<1>6. CASE Walk \/ ReadHint \/ ReadSpend \/ NoCustody
  BY <1>6, WalkSound, ReadHintSound, ReadSpendSound, NoCustodySound
<1>7. CASE Return
  BY <1>7 DEF Return, Become, LookInv, LinesType
<1> QED
  BY <1>1, <1>2, <1>3, <1>4, <1>5, <1>6, <1>7 DEF Next

LEMMA LookInvHolds == Spec => []LookInv
<1>1. Init => LookInv
  BY LineAssumption, RequestsAssumption DEF Init, LineInit, LookInv, LinesType, Lived
<1> QED
  BY <1>1, NextSound, PTL DEF Spec

-----------------------------------------------------------------------------

\* Every variable keeps its type, and a walk is one of a single vault that has
\* not run past the coins there are.
THEOREM RequestsTypeCorrect == Spec => []TypeOK
<1>1. LookInv => TypeOK
  <2> SUFFICES ASSUME LookInv PROVE TypeOK
    OBVIOUS
  <2>1. op.pc \in {"walk", "hint", "custody"} => \E v \in Vaults : op.located = {v}
    BY BusySound DEF Asked
  <2>2. op.pc \in {"hint", "custody"} => \A v \in op.located : op.at \in DOMAIN line[v]
    BY WalkedType, LinkOf DEF LookInv
  <2>3. op \in {Idle} \cup Asking
    BY DEF LookInv, Sound, Asked
  <2>4. op.pc \in {"walk", "hint", "custody"} => Cardinality(op.located) = 1
    BY <2>1, FS_Singleton
  <2> QED
    BY <2>2, <2>3, <2>4 DEF TypeOK, LookInv, LinesType
<1> QED
  BY <1>1, LookInvHolds, PTL

\* However far a vault moves on during a lookup, the answer is one of the moment
\* at which the walk met the unspent coin: short of what a node did not answer,
\* and of no other moment.
THEOREM AnswersOfSomeMoment == Spec => []AnswerIsOfSomeMoment
<1>1. LookInv => AnswerIsOfSomeMoment
  <2> SUFFICES ASSUME LookInv, op.pc = "answered"
               PROVE  IF op.located = {} THEN op.answer = {}
                      ELSE \E v \in op.located : \E n \in op.began.length[v]..Len(line[v]) :
                              op.answer \in LookupAnswers(SubSeq(line[v], 1, n), op.typed, op.missed)
    BY DEF AnswerIsOfSomeMoment
  <2>1. Asked(op) /\ Sound(op)
    BY BusySound
  <2>2. CASE op.located = {}
    BY <2>1, <2>2 DEF Asked
  <2>3. CASE op.located # {}
    <3>1. PICK v \in op.located : Follows(op, v)
      BY <2>1, <2>3 DEF Sound
    <3> QED
      BY <2>3, <3>1 DEF Follows, Reached, WalkedBy
  <2> QED
    BY <2>2, <2>3
<1> QED
  BY <1>1, LookInvHolds, PTL

-----------------------------------------------------------------------------
(* Pages.                                                                  *)

\* The pages that are read hold all the coins that an address can have.
PagesSuffice ==
    /\ MaxCoins <= MaxPages * PageSize
    /\ \A purse \in Purses : Len(purse) <= MaxCoins

LEMMA AddressFinite ==
    ASSUME coins \in Seq(Coin), NEW S, S \subseteq AtAddress(op.ask, FALSE)
    PROVE  /\ S \subseteq Nat
           /\ IsFiniteSet(S)
           /\ Cardinality(S) \in Nat
           /\ Cardinality(S) <= Len(coins)
<1>1. Len(coins) \in Nat /\ S \subseteq 1..Len(coins)
  <2>1. S \subseteq DOMAIN coins
    BY Zenon DEF AtAddress
  <2> QED
    BY <2>1
<1>2. IsFiniteSet(1..Len(coins)) /\ Cardinality(1..Len(coins)) = Len(coins)
  <2>1. ASSUME NEW n \in Nat PROVE IsFiniteSet(1..n) /\ Cardinality(1..n) = n
    <3>1. 1 \in Int /\ n \in Int
      OBVIOUS
    <3>2. IsFiniteSet(1..n) /\ Cardinality(1..n) = IF 1 > n THEN 0 ELSE n - 1 + 1
      BY ONLY <3>1, FS_Interval
    <3> QED
      BY ONLY <3>2, n \in Nat
  <2> QED
    BY ONLY <1>1, <2>1
<1>3. IsFiniteSet(S) /\ Cardinality(S) <= Cardinality(1..Len(coins))
  <2> DEFINE all == 1..Len(coins)
  <2>1. IsFiniteSet(all) /\ S \in SUBSET all
    BY <1>1, <1>2
  <2> HIDE DEF all
  <2>2. IsFiniteSet(S) /\ Cardinality(S) <= Cardinality(all)
    BY ONLY <2>1, FS_Subset
  <2> QED
    BY <2>2 DEF all
<1>4. Cardinality(S) \in Nat
  BY <1>3, FS_CardinalityType
<1>5. S \subseteq Nat
  BY <1>1
<1> QED
  BY <1>2, <1>3, <1>4, <1>5

\* A page that leaves a coin for the next is full.
LEMMA PageFills ==
    ASSUME coins \in Seq(Coin), (AtAddress(op.ask, FALSE) \ op.seen) \ Page # {}
    PROVE  Cardinality(Page) >= PageSize
<1> DEFINE rest == AtAddress(op.ask, FALSE) \ op.seen
           Before(c) == {d \in rest : d < c}
<1>1. rest \subseteq Nat /\ Page \subseteq rest
  BY AddressFinite DEF Page
<1>2. PICK x \in rest \ Page : \A y \in rest \ Page : x <= y
  BY <1>1, LeastOf
<1>3. Before(x) \subseteq Page
  <2>1. SUFFICES ASSUME NEW d \in rest, d < x, d \notin Page PROVE FALSE
    OBVIOUS
  <2>2. x <= d
    BY <1>2, <2>1
  <2>3. d \in Nat /\ x \in Nat
    BY <1>1, <1>2
  <2> QED
    BY <2>1, <2>2, <2>3
<1>4. Cardinality(Before(x)) <= Cardinality(Page)
  <2>1. IsFiniteSet(Page)
    BY <1>1, AddressFinite
  <2> QED
    BY <1>3, <2>1, FS_Subset
<1>5. ~(Cardinality(Before(x)) < PageSize)
  BY <1>2 DEF Page
<1>6. Cardinality(Before(x)) \in Nat /\ Cardinality(Page) \in Nat /\ PageSize \in Nat
  BY <1>1, AddressFinite, RequestsAssumption
<1> QED
  BY <1>4, <1>5, <1>6

\* The coins read so far: the pages were full, and a coin that was spent when
\* the lookup began is taken for spent once it is read.
Counted(stage) ==
    stage.pc = "exact" =>
        /\ stage.seen \subseteq AtAddress(stage.ask, FALSE)
        /\ stage.spent \subseteq stage.seen
        /\ stage.pages < MaxPages
        /\ stage.pages * PageSize <= Cardinality(stage.seen)
        /\ stage.began.used =>
            \E c \in AtAddress(stage.ask, FALSE) :
                IsSpent(c) /\ (c \in stage.seen => c \in stage.spent)

LocatesOwn(stage) ==
    stage.pc # "exact" /\ stage.began.used /\ "coin" \notin stage.missed =>
        stage.located = {stage.ask}

PageInv ==
    /\ Len(coins) <= MaxCoins
    /\ op # Idle => Counted(op) /\ LocatesOwn(op)

LEMMA PageCounted ==
    ASSUME LookInv, PageInv, op.pc = "exact", AtAddress(op.ask, FALSE) \ (op.seen \cup Page) # {}
    PROVE  (op.pages + 1) * PageSize <= Cardinality(op.seen \cup Page)
<1>1. op \in Asking /\ coins \in Seq(Coin)
  BY BusySound DEF LookInv
<1>2. op.pages \in Nat /\ PageSize \in Nat
  BY <1>1, AskingFields, RequestsAssumption
<1>3. /\ op.seen \subseteq AtAddress(op.ask, FALSE)
      /\ op.pages * PageSize <= Cardinality(op.seen)
  BY <1>1, AskingFields DEF PageInv, Counted
<1>4. Page \subseteq AtAddress(op.ask, FALSE) /\ op.seen \cap Page = {}
  BY DEF Page
<1>5. Cardinality(Page) >= PageSize
  BY <1>1, PageFills
<1>6. /\ IsFiniteSet(op.seen) /\ Cardinality(op.seen) \in Nat
      /\ IsFiniteSet(Page) /\ Cardinality(Page) \in Nat
  BY <1>1, <1>3, <1>4, AddressFinite
<1>7. Cardinality(op.seen \cup Page) = Cardinality(op.seen) + Cardinality(Page)
  <2>1. Cardinality(op.seen \cap Page) = 0
    BY <1>4, FS_EmptySet
  <2>2. Cardinality(op.seen \cup Page)
            = Cardinality(op.seen) + Cardinality(Page) - Cardinality(op.seen \cap Page)
    BY <1>6, FS_Union
  <2> QED
    BY <1>6, <2>1, <2>2
<1>8. (op.pages + 1) * PageSize = op.pages * PageSize + PageSize /\ op.pages * PageSize \in Nat
  BY <1>2
<1> QED
  BY <1>2, <1>3, <1>5, <1>6, <1>7, <1>8

\* When no page is left to read, all coins have been.
LEMMA AllRead ==
    ASSUME PagesSuffice, LookInv, PageInv, op.pc = "exact",
           ~(AtAddress(op.ask, FALSE) \ (op.seen \cup Page) # {} /\ op.pages + 1 < MaxPages)
    PROVE  AtAddress(op.ask, FALSE) \subseteq op.seen \cup Page
<1> SUFFICES ASSUME AtAddress(op.ask, FALSE) \ (op.seen \cup Page) # {} PROVE FALSE
  OBVIOUS
<1> DEFINE all  == AtAddress(op.ask, FALSE)
           seen == op.seen \cup Page
<1>1. op \in Asking /\ coins \in Seq(Coin)
  BY BusySound DEF LookInv
<1>2. op.pages \in Nat /\ PageSize \in Nat /\ MaxPages \in Nat /\ MaxCoins \in Nat
  BY <1>1, AskingFields, RequestsAssumption
<1>3. op.pages + 1 = MaxPages
  <2>1. op.pages < MaxPages
    BY <1>1, AskingFields, Zenon DEF PageInv, Counted
  <2>2. ~(op.pages + 1 < MaxPages)
    BY Zenon
  <2> QED
    BY <1>2, <2>1, <2>2
<1>4. MaxPages * PageSize <= Cardinality(seen)
  BY <1>3, PageCounted
<1>5. seen \subseteq all
  BY <1>1, AskingFields DEF PageInv, Counted, Page
<1>6. /\ IsFiniteSet(all) /\ Cardinality(all) \in Nat /\ Cardinality(all) <= Len(coins)
      /\ Cardinality(seen) \in Nat
  BY <1>1, <1>5, AddressFinite
<1>7. Cardinality(seen) <= Cardinality(all) /\ (Cardinality(all) = Cardinality(seen) => all = seen)
  BY <1>5, <1>6, FS_Subset
<1>8. MaxPages * PageSize \in Nat /\ MaxCoins <= MaxPages * PageSize /\ Len(coins) <= MaxCoins
      /\ Len(coins) \in Nat
  BY <1>1, <1>2 DEF PagesSuffice, PageInv
<1> HIDE DEF all, seen
<1>9. all = seen
  BY <1>2, <1>4, <1>6, <1>7, <1>8
<1> QED
  BY <1>9 DEF all, seen

LEMMA BecomePaged ==
    ASSUME PageInv, NEW stage, Become(stage), Counted(stage), LocatesOwn(stage)
    PROVE  PageInv'
<1>1. op' = stage /\ coins' = coins
  BY DEF Become
<1>2. Counted(stage)' /\ LocatesOwn(stage)'
  BY <1>1 DEF Counted, LocatesOwn, AtAddress, IsSpent
<1> QED
  BY <1>1, <1>2 DEF PageInv, Counted, LocatesOwn

\* Coins that are paid to addresses leave those that were there.
LEMMA PayPaged ==
    ASSUME LookInv, PageInv, NEW c \in DOMAIN coins, NEW owner \in Owners, NEW odd \in BOOLEAN,
           Pay(c, owner, odd)
    PROVE  PageInv'
<1> DEFINE paid == [owner |-> owner, parent |-> c, odd |-> odd, cat |-> coins[c].cat]
<1>1. coins \in Seq(Coin) /\ coins' = Append(coins, paid) /\ Len(coins) < MaxCoins /\ op' = op
  BY DEF LookInv, Pay
<1> HIDE DEF paid
<1>2. /\ DOMAIN coins \subseteq DOMAIN coins'
      /\ \A d \in DOMAIN coins : coins'[d] = coins[d]
      /\ Len(coins') = Len(coins) + 1
  BY <1>1
<1>3. Len(coins') <= MaxCoins
  BY <1>1, <1>2, RequestsAssumption
<1>4. \A d : IsSpent(d) => IsSpent(d)'
  BY <1>2 DEF IsSpent
<1>5. ASSUME Counted(op) PROVE Counted(op)'
  <2> SUFFICES ASSUME op.pc = "exact"
               PROVE  /\ op.seen \subseteq AtAddress(op.ask, FALSE)'
                      /\ op.began.used =>
                          \E d \in AtAddress(op.ask, FALSE)' :
                              IsSpent(d)' /\ (d \in op.seen => d \in op.spent)
    BY <1>1, <1>5 DEF Counted
  <2>1. /\ op.seen \subseteq AtAddress(op.ask, FALSE)
        /\ op.began.used =>
            \E d \in AtAddress(op.ask, FALSE) : IsSpent(d) /\ (d \in op.seen => d \in op.spent)
    BY <1>5, Zenon DEF Counted
  <2>2. AtAddress(op.ask, FALSE) \subseteq AtAddress(op.ask, FALSE)'
    BY <1>1, <1>2 DEF AtAddress
  <2> QED
    BY <1>4, <2>1, <2>2, Zenon
<1>6. LocatesOwn(op) => LocatesOwn(op)'
  BY <1>1 DEF LocatesOwn
<1> QED
  BY <1>1, <1>3, <1>5, <1>6 DEF PageInv

LEMMA AskPaged ==
    ASSUME PageInv, NEW v \in Asks, NEW typed \in Typings, Ask(v, typed)
    PROVE  PageInv'
<1> DEFINE stage == [pc |-> "exact", ask |-> v, typed |-> typed, seen |-> {}, spent |-> {},
               pages |-> 0, located |-> {}, at |-> 0, back |-> 0, answer |-> {},
               missed |-> {},
               began |-> [length |-> [u \in Vaults |-> Len(line[u])],
                          used   |-> \E c \in AtAddress(v, FALSE) : IsSpent(c)]]
<1>1. Become(stage)
  BY DEF Ask
<1>2. /\ stage.pc = "exact" /\ stage.ask = v /\ stage.seen = {} /\ stage.spent = {}
      /\ stage.pages = 0
      /\ stage.began.used = \E c \in AtAddress(v, FALSE) : IsSpent(c)
  OBVIOUS
<1> HIDE DEF stage
<1>3. stage.pages < MaxPages /\ stage.pages * PageSize <= Cardinality(stage.seen)
  <2>1. Cardinality({}) = 0
    BY FS_EmptySet
  <2> QED
    BY <1>2, <2>1, RequestsAssumption
<1>4. Counted(stage)
  BY <1>2, <1>3, Zenon DEF Counted
<1> QED
  BY <1>1, <1>2, <1>4, BecomePaged DEF LocatesOwn

\* The spent coins at an address name its vault.
LEMMA SpentNameOwn ==
    ASSUME coins \in Seq(Coin), NEW v \in Vaults, NEW seen, NEW spent,
           spent \subseteq AtAddress(v, FALSE), spent # {}
    PROVE  LauncherFrom(seen, spent, {}) = {v}
<1>1. ASSUME NEW c \in spent PROVE Revealed(c, {}) = {v}
  <2>1. c \in DOMAIN coins /\ coins[c].owner = v
    BY <1>1 DEF AtAddress
  <2>2. c # 0
    BY <2>1
  <2> QED
    BY <2>1, <2>2 DEF Revealed
<1>2. UNION {Revealed(c, {}) : c \in spent} = {v}
  BY <1>1
<1> QED
  BY <1>2 DEF LauncherFrom

\* A launcher of the vault asked for, unless the node missed a coin.
LEMMA LocatePaged ==
    ASSUME LookInv, PageInv, op.pc \in {"exact", "hinted"}, NEW next, next # "exact",
           NEW seen, NEW spent, NEW missed,
           op.began.used /\ "coin" \notin missed => LauncherFrom(seen, spent, {}) = {op.ask},
           Locate(seen, spent, missed, next)
    PROVE  PageInv'
<1>1. op \in Asking
  BY BusySound
<1>2. PICK lost \in SUBSET DOMAIN coins :
          LET launchers == LauncherFrom(seen, spent, lost)
              less      == missed \cup (IF lost = {} THEN {} ELSE {"coin"})
          IN  \/ \E v \in launchers :
                    Become([op EXCEPT !.pc = "walk", !.located = {v}, !.missed = less])
              \/ launchers = {} /\ Become([op EXCEPT !.pc = next, !.missed = less])
  BY DEF Locate
<1> DEFINE launchers == LauncherFrom(seen, spent, lost)
           less      == missed \cup (IF lost = {} THEN {} ELSE {"coin"})
<1>3. op.began.used /\ "coin" \notin less => launchers = {op.ask}
  OBVIOUS
<1>4. \/ \E v \in launchers :
            Become([op EXCEPT !.pc = "walk", !.located = {v}, !.missed = less])
      \/ launchers = {} /\ Become([op EXCEPT !.pc = next, !.missed = less])
  BY <1>2
<1> HIDE DEF launchers, less
<1>5. CASE \E v \in launchers :
             Become([op EXCEPT !.pc = "walk", !.located = {v}, !.missed = less])
  <2>1. PICK v \in launchers :
              Become([op EXCEPT !.pc = "walk", !.located = {v}, !.missed = less])
    BY <1>5
  <2> DEFINE stage == [op EXCEPT !.pc = "walk", !.located = {v}, !.missed = less]
  <2>2. /\ stage.pc = "walk" /\ stage.ask = op.ask /\ stage.located = {v}
        /\ stage.began = op.began /\ stage.missed = less
    BY <1>1 DEF Asking
  <2> HIDE DEF stage
  <2>3. Counted(stage) /\ LocatesOwn(stage)
    BY <1>3, <2>1, <2>2 DEF Counted, LocatesOwn
  <2> QED
    BY <2>1, <2>3, BecomePaged DEF stage
<1>6. CASE launchers = {} /\ Become([op EXCEPT !.pc = next, !.missed = less])
  <2> DEFINE stage == [op EXCEPT !.pc = next, !.missed = less]
  <2>1. stage.pc = next /\ stage.began = op.began /\ stage.missed = less
    BY <1>1 DEF Asking
  <2> HIDE DEF stage
  <2>2. Counted(stage) /\ LocatesOwn(stage)
    BY <1>3, <1>6, <2>1 DEF Counted, LocatesOwn
  <2> QED
    BY <1>6, <2>2, BecomePaged DEF stage
<1> QED
  BY <1>4, <1>5, <1>6

LEMMA FindExactPaged ==
    ASSUME PagesSuffice, LookInv, PageInv, FindExact
    PROVE  PageInv'
<1> DEFINE seen  == op.seen \cup Page
           spent == op.spent \cup {c \in Page : IsSpent(c)}
           more  == AtAddress(op.ask, FALSE) \ seen # {} /\ op.pages + 1 < MaxPages
<1>1. op.pc = "exact" /\ op \in Asking /\ op.ask \in Vaults /\ op # Idle /\ coins \in Seq(Coin)
  <2>1. op.pc = "exact"
    BY DEF FindExact
  <2> QED
    BY <2>1, BusySound, AskingFields DEF LookInv
<1>2. /\ seen \subseteq AtAddress(op.ask, FALSE)
      /\ spent \subseteq seen
      /\ op.began.used =>
          \E c \in AtAddress(op.ask, FALSE) : IsSpent(c) /\ (c \in seen => c \in spent)
  BY <1>1 DEF PageInv, Counted, Page
<1>3. CASE more /\ Become([op EXCEPT !.seen = seen, !.spent = spent, !.pages = @ + 1])
  <2> DEFINE stage == [op EXCEPT !.seen = seen, !.spent = spent, !.pages = @ + 1]
  <2>1. Become(stage)
    BY <1>3
  <2>2. (op.pages + 1) * PageSize <= Cardinality(seen)
    BY <1>1, <1>3, PageCounted
  <2> HIDE DEF seen, spent
  <2>3. /\ stage.pc = "exact" /\ stage.ask = op.ask /\ stage.seen = seen /\ stage.spent = spent
        /\ stage.pages = op.pages + 1 /\ stage.began = op.began
    BY <1>1 DEF Asking
  <2> HIDE DEF stage
  <2>4. Counted(stage)
    BY <1>2, <1>3, <2>2, <2>3 DEF Counted
  <2> QED
    BY <2>1, <2>3, <2>4, BecomePaged DEF LocatesOwn
<1>4. CASE ~more /\ Locate(seen, spent, {}, "hinted")
  <2>1. AtAddress(op.ask, FALSE) \subseteq seen
    BY <1>1, <1>4, AllRead
  <2> HIDE DEF seen, spent
  <2>2. op.began.used => LauncherFrom(seen, spent, {}) = {op.ask}
    <3> SUFFICES ASSUME op.began.used PROVE LauncherFrom(seen, spent, {}) = {op.ask}
      OBVIOUS
    <3>1. spent # {} /\ spent \subseteq AtAddress(op.ask, FALSE)
      BY <1>2, <2>1
    <3> QED
      BY <1>1, <3>1, SpentNameOwn
  <2> QED
    BY <1>1, <1>4, <2>2, LocatePaged
<1>5. CASE Locate(seen, spent, {"coin"}, "hinted") \/ Locate(op.seen, op.spent, {"coin"}, "hinted")
  <2> HIDE DEF seen, spent
  <2> QED
    BY <1>1, <1>5, LocatePaged
<1> QED
  BY <1>3, <1>4, <1>5 DEF FindExact

\* Hints are asked for only at an address that had no spent coin, or of which
\* the node missed one.
LEMMA FindHintedPaged ==
    ASSUME LookInv, PageInv, FindHinted
    PROVE  PageInv'
<1>1. op.pc = "hinted"
  BY DEF FindHinted
<1>2. op \in Asking /\ op # Idle /\ op.located = {}
  BY <1>1, BusySound, AskingFields DEF Asked
<1>3. ~(op.began.used /\ "coin" \notin op.missed)
  BY <1>1, <1>2 DEF PageInv, LocatesOwn
<1>4. PICK seen, spent : Locate(seen, spent, op.missed, "answered")
  BY DEF FindHinted
<1> QED
  BY <1>1, <1>3, <1>4, LocatePaged

\* The later requests are about the vault that was located.
LEMMA LaterStagePaged ==
    ASSUME LookInv, PageInv, op.pc \in {"walk", "hint", "custody"},
           NEW stage, Become(stage), stage.pc # "exact", stage.ask = op.ask,
           stage.located = op.located, stage.began = op.began, op.missed \subseteq stage.missed
    PROVE  PageInv'
<1>1. op # Idle
  BY BusySound, AskingFields
<1>2. Counted(stage) /\ LocatesOwn(stage)
  BY <1>1 DEF PageInv, Counted, LocatesOwn
<1> QED
  BY <1>2, BecomePaged

LEMMA LaterPaged ==
    ASSUME LookInv, PageInv, Walk \/ ReadHint \/ ReadSpend \/ NoCustody
    PROVE  PageInv'
<1>1. op.pc \in {"walk", "hint", "custody"}
  BY DEF Walk, ReadHint, ReadSpend, NoCustody
<1>2. op \in Asking
  BY <1>1, BusySound
<1>3. CASE Walk
  <2>1. PICK at, back, pc : Become([op EXCEPT !.at = at, !.back = back, !.pc = pc])
                            /\ pc \in {"walk", "hint"}
    BY <1>3, Zenon DEF Walk
  <2> DEFINE stage == [op EXCEPT !.at = at, !.back = back, !.pc = pc]
  <2>2. /\ stage.pc # "exact" /\ stage.ask = op.ask /\ stage.located = op.located
        /\ stage.began = op.began /\ stage.missed = op.missed
    BY <1>2, <2>1 DEF Asking
  <2> HIDE DEF stage
  <2> QED
    BY <1>1, <2>1, <2>2, LaterStagePaged DEF stage
<1>4. ASSUME NEW answer, Become([op EXCEPT !.pc = "answered", !.answer = answer])
      PROVE  PageInv'
  <2> DEFINE stage == [op EXCEPT !.pc = "answered", !.answer = answer]
  <2>1. /\ stage.pc # "exact" /\ stage.ask = op.ask /\ stage.located = op.located
        /\ stage.began = op.began /\ stage.missed = op.missed
    BY <1>2 DEF Asking
  <2> HIDE DEF stage
  <2> QED
    BY <1>1, <1>4, <2>1, LaterStagePaged DEF stage
<1>5. ASSUME NEW pc \in {"custody", "answered"}, Become([op EXCEPT !.pc = pc])
      PROVE  PageInv'
  <2> DEFINE stage == [op EXCEPT !.pc = pc]
  <2>1. /\ stage.pc # "exact" /\ stage.ask = op.ask /\ stage.located = op.located
        /\ stage.began = op.began /\ stage.missed = op.missed
    BY <1>2 DEF Asking
  <2> HIDE DEF stage
  <2> QED
    BY <1>1, <1>5, <2>1, LaterStagePaged DEF stage
<1>6. CASE ReadHint
  <2>1. ASSUME Become([op EXCEPT !.pc = "custody", !.missed = @ \cup {"memo"}])
        PROVE  PageInv'
    <3> DEFINE stage == [op EXCEPT !.pc = "custody", !.missed = @ \cup {"memo"}]
    <3>1. /\ stage.pc # "exact" /\ stage.ask = op.ask /\ stage.located = op.located
          /\ stage.began = op.began /\ op.missed \subseteq stage.missed
      BY <1>2 DEF Asking
    <3> HIDE DEF stage
    <3> QED
      BY <1>1, <2>1, <3>1, LaterStagePaged DEF stage
  <2> QED
    BY <1>4, <1>5, <1>6, <2>1 DEF ReadHint
<1>7. CASE ReadSpend
  <2>1. ASSUME NEW missed, op.missed \subseteq missed, NEW back,
               Become([op EXCEPT !.back = back, !.missed = missed])
        PROVE  PageInv'
    <3> DEFINE stage == [op EXCEPT !.back = back, !.missed = missed]
    <3>1. /\ stage.pc = op.pc /\ stage.ask = op.ask /\ stage.located = op.located
          /\ stage.began = op.began /\ stage.missed = missed
      BY <1>2 DEF Asking
    <3> HIDE DEF stage
    <3> QED
      BY <1>1, <2>1, <3>1, LaterStagePaged DEF stage
  <2>2. [op EXCEPT !.back = @ - 1] = [op EXCEPT !.back = op.back - 1, !.missed = op.missed]
    BY <1>2 DEF Asking
  <2> QED
    BY <1>4, <1>7, <2>1, <2>2 DEF ReadSpend
<1>8. CASE NoCustody
  BY <1>5, <1>8 DEF NoCustody
<1> QED
  BY <1>3, <1>6, <1>7, <1>8

LEMMA NextPaged ==
    ASSUME PagesSuffice
    PROVE  LookInv /\ PageInv /\ [Next]_vars => PageInv'
<1> SUFFICES ASSUME LookInv, PageInv, [Next]_vars PROVE PageInv'
  OBVIOUS
<1>1. CASE UNCHANGED <<coins, op>>
  BY <1>1 DEF PageInv, Counted, LocatesOwn, AtAddress, IsSpent
<1>2. CASE \E c \in DOMAIN coins, owner \in Owners, odd \in BOOLEAN : Pay(c, owner, odd)
  BY <1>2, PayPaged
<1>3. CASE \E v \in Asks, typed \in Typings : Ask(v, typed)
  BY <1>3, AskPaged
<1>4. CASE FindExact \/ FindHinted
  BY <1>4, FindExactPaged, FindHintedPaged
<1>5. CASE Walk \/ ReadHint \/ ReadSpend \/ NoCustody
  BY <1>5, LaterPaged
<1>6. CASE Return
  BY <1>6 DEF Return, Become, PageInv
<1> QED
  BY <1>1, <1>2, <1>3, <1>4, <1>5, <1>6 DEF Next, vars

\* If the pages read can hold every coin an address may have, and the node
\* answers for the coins that are asked for, an address with a spent coin is
\* resolved to its own vault, whoever pays to it meanwhile.
THEOREM SpentAddressesLocate ==
    ASSUME PagesSuffice
    PROVE  Spec => []SpentAddressLocates
<1>1. Init => PageInv
  BY RequestsAssumption DEF Init, PageInv, PagesSuffice
<1>2. PageInv => SpentAddressLocates
  BY DEF PageInv, LocatesOwn, SpentAddressLocates
<1> QED
  BY <1>1, <1>2, NextPaged, LookInvHolds, PTL DEF Spec

=============================================================================
