------------------------ MODULE LookupRequestsRefinement ------------------------
(***************************************************************************)
(* A lookup, request by request, implements AtomicLookup: the single step  *)
(* that LookupCache takes it for.                                          *)
(***************************************************************************)
EXTENDS LookupRequestsProofs

-----------------------------------------------------------------------------
(* What a lookup has settled.                                              *)

\* Before the walk ends, it is the question.
LEMMA SettledQuestion ==
    ASSUME LookInv, op.pc \in {"exact", "hinted", "walk"}
    PROVE  Settled = [pc |-> "asked", ask |-> op.ask, typed |-> op.typed,
                      sure |-> op.began.used, missed |-> op.missed]
BY DEF Settled, Idle

\* Once it has, it is the coins walked.
LEMMA SettledSeen ==
    ASSUME LookInv, op.pc \in {"hint", "custody"}, NEW v, op.located = {v}
    PROVE  Settled = [pc |-> "seen", ask |-> op.ask, typed |-> op.typed, missed |-> op.missed,
                      of |-> {v}, coins |-> {Walked(v)}]
<1>1. {Walked(u) : u \in op.located} = {Walked(v)}
  OBVIOUS
<1> QED
  BY <1>1 DEF Settled, Idle

\* The same of every vault, and of the next state.
SettlesRight ==
    \A v \in Vaults :
        LookInv /\ op.pc \in {"hint", "custody"} /\ op.located = {v} =>
            Settled = [pc |-> "seen", ask |-> op.ask, typed |-> op.typed, missed |-> op.missed,
                       of |-> {v}, coins |-> {SubSeq(line[v], 1, op.at)}]

LEMMA SettledRight == SettlesRight /\ SettlesRight'
<1>1. SettlesRight
  BY SettledSeen DEF SettlesRight, Walked
<1> QED
  BY <1>1, PTL

LEMMA SettledKind ==
    ASSUME LookInv
    PROVE  /\ op = Idle => Settled = Idle
           /\ op # Idle => Settled.pc \in {"asked", "seen", "answered"}
BY DEF Settled

\* A page, a walk that goes on, and a spend that says nothing settle nothing.
LEMMA QuietAtomic ==
    ASSUME LookInv, UNCHANGED <<line, coins>>, Settled' = Settled
    PROVE  UNCHANGED Atomic!vars
BY DEF Atomic!vars, Used, AtAddress, IsSpent

LEMMA MissAtomic ==
    ASSUME LookInv, UNCHANGED <<line, coins>>, NEW what \in Misses,
           Settled.pc \in {"asked", "seen"},
           Settled' = [Settled EXCEPT !.missed = @ \cup {what}]
    PROVE  Atomic!Next
<1>1. UNCHANGED <<line, Used>>
  BY DEF Used, AtAddress, IsSpent
<1> QED
  BY <1>1 DEF Atomic!Next, Atomic!Miss, Atomic!Step

-----------------------------------------------------------------------------
(* Steps.                                                                  *)

LEMMA WorldAtomic ==
    ASSUME LookInv, NEW v \in Vaults, LineStep(v), UNCHANGED <<coins, op>>
    PROVE  Atomic!World
<1>1. Kept /\ LinesType /\ LinesType'
  BY LineStepGood DEF LookInv
<1>2. Used' = Used
  BY DEF Used, AtAddress, IsSpent
<1>3. Settled' = Settled
  <2>1. CASE op.pc \in {"hint", "custody"}
    <3>1. PICK u \in Vaults : op.located = {u}
      BY <2>1, BusySound DEF Asked
    <3>2. op.at \in 0..Len(line[u])
      BY <2>1, <3>1, WalkedType, LinkOf, <1>1
    <3>3. Walked(u)' = Walked(u)
      BY <1>1, <3>2, WalkedStays DEF Walked
    <3>4. {Walked(w) : w \in op.located}' = {Walked(w) : w \in op.located}
      BY <3>1, <3>3
    <3> QED
      BY <3>4 DEF Settled
  <2>2. CASE op.pc \notin {"hint", "custody"}
    <3>1. op = Idle \/ op.pc \in {"exact", "hinted", "walk", "answered"}
      BY <2>2, AskingFields DEF LookInv, Sound, Asked
    <3> QED
      BY <3>1 DEF Settled
  <2> QED
    BY <2>1, <2>2
<1> QED
  BY <1>1, <1>2, <1>3 DEF Atomic!World, Kept

\* A payment to an address leaves it used, and may make another so.
LEMMA PayAtomic ==
    ASSUME LookInv, NEW c \in DOMAIN coins, NEW owner, NEW odd, Pay(c, owner, odd)
    PROVE  Atomic!World
<1> DEFINE coin == [owner |-> owner, parent |-> c, odd |-> odd, cat |-> coins[c].cat]
<1>1. /\ coins \in Seq(Coin)
      /\ coins' = Append(coins, coin)
      /\ UNCHANGED <<line, op>>
  BY DEF LookInv, Pay
<1> HIDE DEF coin
<1>2. /\ DOMAIN coins \subseteq DOMAIN coins'
      /\ \A d \in DOMAIN coins : coins'[d] = coins[d]
  BY <1>1
<1>3. Used \subseteq Used'
  <2> SUFFICES ASSUME NEW v \in Vaults, NEW d \in AtAddress(v, FALSE), IsSpent(d)
               PROVE  v \in Used'
    BY DEF Used
  <2>1. d \in AtAddress(v, FALSE)'
    BY <1>2 DEF AtAddress
  <2>2. IsSpent(d)'
    BY <1>2 DEF IsSpent
  <2> QED
    BY <2>1, <2>2 DEF Used
<1>4. Settled' = Settled
  BY <1>1 DEF Settled, Walked
<1>5. \A v \in Vaults : Len(line[v]) \in Nat /\ Len(line'[v]) = Len(line[v]) /\ line'[v] = line[v]
  BY <1>1, LinkOf DEF LookInv
<1> QED
  BY <1>3, <1>4, <1>5 DEF Atomic!World

LEMMA AskAtomic ==
    ASSUME LookInv, NEW v \in Asks, NEW typed \in Typings, Ask(v, typed)
    PROVE  Atomic!Ask(v, typed)
<1>1. op = Idle /\ Settled = Idle
  BY DEF Ask, Settled
<1>2. UNCHANGED <<line, coins>>
  BY DEF Ask, Become
<1>3. /\ op'.pc = "exact" /\ op'.ask = v /\ op'.typed = typed
      /\ op'.missed = {}
      /\ op'.began.used = \E c \in AtAddress(v, FALSE) : IsSpent(c)
  BY DEF Ask, Become
<1> DEFINE spends == \E c \in AtAddress(v, FALSE) : IsSpent(c)
<1>4. op'.began.used = (v \in Used)
  <2>1. op'.began.used = spends
    BY <1>3
  <2>2. spends <=> v \in Used
    BY RequestsAssumption DEF Used
  <2> HIDE DEF spends
  <2>3. spends = (v \in Used)
    BY <2>2
  <2> QED
    BY <2>1, <2>3, Zenon
<1>5. Settled' = [pc |-> "asked", ask |-> v, typed |-> typed, sure |-> v \in Used, missed |-> {}]
  <2>1. Settled' = [pc |-> "asked", ask |-> op'.ask, typed |-> op'.typed, sure |-> op'.began.used,
                    missed |-> op'.missed]
    BY <1>3 DEF Settled, Idle
  <2> QED
    BY <1>3, <1>4, <2>1, Zenon
<1>6. UNCHANGED <<line, Used>>
  BY <1>2 DEF Used, AtAddress, IsSpent
<1> QED
  BY <1>1, <1>5, <1>6 DEF Atomic!Ask, Atomic!Step, Atomic!Idle, Idle

LEMMA LocateAtomic ==
    ASSUME LookInv, SpentAddressLocates, op.pc \in {"exact", "hinted"},
           NEW next \in {"hinted", "answered"}, next = "answered" => op.pc = "hinted",
           NEW seen, NEW spent, NEW missed,
           missed = op.missed \/ missed = op.missed \cup {"coin"},
           Locate(seen, spent, missed, next)
    PROVE  [Atomic!Next]_Atomic!vars
<1>1. op \in Asking /\ op # Idle /\ op.located = {} /\ op.answer = {}
  BY BusySound, AskingFields DEF Asked
<1>2. PICK lost \in SUBSET DOMAIN coins :
          LET less == missed \cup (IF lost = {} THEN {} ELSE {"coin"})
          IN  \/ \E v : Become([op EXCEPT !.pc = "walk", !.located = {v}, !.missed = less])
              \/ Become([op EXCEPT !.pc = next, !.missed = less])
  BY Zenon DEF Locate
<1> DEFINE less == missed \cup (IF lost = {} THEN {} ELSE {"coin"})
           asked(m) == [pc |-> "asked", ask |-> op.ask, typed |-> op.typed,
                        sure |-> op.began.used, missed |-> m]
<1>3. less = op.missed \/ less = op.missed \cup {"coin"}
  OBVIOUS
<1>4. \/ \E v : Become([op EXCEPT !.pc = "walk", !.located = {v}, !.missed = less])
      \/ Become([op EXCEPT !.pc = next, !.missed = less])
  BY <1>2
<1> HIDE DEF less
<1>5. Settled = asked(op.missed)
  BY SettledQuestion
<1>6. ASSUME op'.pc \in {"hinted", "walk"}, UNCHANGED <<line, coins>>,
             op'.ask = op.ask, op'.typed = op.typed, op'.began = op.began, op'.missed = less
      PROVE  [Atomic!Next]_Atomic!vars
  <2>1. Settled' = asked(less)
    BY <1>6 DEF Settled, Idle
  <2>2. CASE less = op.missed
    BY <1>5, <1>6, <2>1, <2>2, QuietAtomic
  <2>3. CASE less = op.missed \cup {"coin"}
    <3>1. asked(less) = [asked(op.missed) EXCEPT !.missed = @ \cup {"coin"}]
      BY <2>3
    <3>2. "coin" \in Misses
      BY DEF Misses
    <3>3. asked(op.missed).pc \in {"asked", "seen"}
      OBVIOUS
    <3> HIDE DEF asked
    <3>4. Settled' = [Settled EXCEPT !.missed = @ \cup {"coin"}]
      BY <1>5, <2>1, <3>1
    <3> QED
      BY <1>5, <1>6, <3>2, <3>3, <3>4, MissAtomic
  <2> QED
    BY <1>3, <2>2, <2>3
<1>7. CASE \E v : Become([op EXCEPT !.pc = "walk", !.located = {v}, !.missed = less])
  <2>1. /\ op'.pc = "walk" /\ UNCHANGED <<line, coins>> /\ op'.missed = less
        /\ op'.ask = op.ask /\ op'.typed = op.typed /\ op'.began = op.began
    BY <1>1, <1>7 DEF Asking, Become
  <2> QED
    BY <1>6, <2>1
<1>8. CASE Become([op EXCEPT !.pc = next, !.missed = less])
  <2>1. /\ op'.pc = next /\ UNCHANGED <<line, coins>> /\ op'.missed = less
        /\ op'.located = {} /\ op'.answer = {}
        /\ op'.ask = op.ask /\ op'.typed = op.typed /\ op'.began = op.began
    BY <1>1, <1>8 DEF Asking, Become
  <2>2. CASE next = "hinted"
    BY <1>6, <2>1, <2>2
  <2>3. CASE next = "answered"
    <3>1. Settled' = [pc |-> "answered", ask |-> op.ask, of |-> {}, answer |-> {}]
      BY <2>1, <2>3 DEF Settled, Idle
    <3>2. ~(op.began.used /\ "coin" \notin op.missed)
      BY <1>1, <2>3 DEF SpentAddressLocates
    <3>3. UNCHANGED <<line, Used>>
      BY <2>1 DEF Used, AtAddress, IsSpent
    <3>4. /\ Settled.pc = "asked" /\ Settled.ask = op.ask
          /\ Settled.sure = op.began.used /\ Settled.missed = op.missed
      BY <1>5
    <3> QED
      BY <3>1, <3>2, <3>3, <3>4
         DEF Atomic!Next, Atomic!LookNowhere, Atomic!Sure, Atomic!Step
  <2> QED
    BY <2>2, <2>3
<1> QED
  BY <1>4, <1>7, <1>8

LEMMA FindAtomic ==
    ASSUME LookInv, SpentAddressLocates, FindExact \/ FindHinted
    PROVE  [Atomic!Next]_Atomic!vars
<1>1. op.pc \in {"exact", "hinted"}
  BY DEF FindExact, FindHinted
<1>2. op \in Asking /\ Asked(op)
  BY <1>1, BusySound
<1>3. CASE FindExact
  <2>1. op.pc = "exact" /\ op.missed = {}
    BY <1>2, <1>3 DEF FindExact, Asked
  <2>2. \/ \E seen, spent : Become([op EXCEPT !.seen = seen, !.spent = spent, !.pages = @ + 1])
        \/ \E seen, spent : Locate(seen, spent, {}, "hinted")
        \/ \E seen, spent : Locate(seen, spent, {"coin"}, "hinted")
    BY <1>3 DEF FindExact
  <2>3. CASE \E seen, spent : Become([op EXCEPT !.seen = seen, !.spent = spent, !.pages = @ + 1])
    <3>1. /\ op'.pc = "exact" /\ op'.missed = op.missed /\ UNCHANGED <<line, coins>>
          /\ op'.ask = op.ask /\ op'.typed = op.typed /\ op'.began = op.began
      BY <1>2, <2>1, <2>3 DEF Asking, Become
    <3>2. Settled' = Settled
      BY <2>1, <3>1 DEF Settled, Idle
    <3> QED
      BY <3>1, <3>2, QuietAtomic
  <2> QED
    BY <1>1, <2>1, <2>2, <2>3, LocateAtomic
<1>4. CASE FindHinted
  <2>1. op.pc = "hinted" /\ \E seen, spent : Locate(seen, spent, op.missed, "answered")
    BY <1>4 DEF FindHinted
  <2> QED
    BY <2>1, LocateAtomic
<1> QED
  BY <1>3, <1>4

LEMMA WalkAtomic ==
    ASSUME LookInv, LookInv', SpentAddressLocates, Walk
    PROVE  [Atomic!Next]_Atomic!vars
<1>1. PICK v \in op.located :
          LET child == op.at + 1
          IN  op' = [op EXCEPT !.at = child, !.back = child - 1,
                               !.pc = IF child < Len(line[v]) THEN "walk" ELSE "hint"]
  BY Zenon DEF Walk, Become
<1>2. op.pc = "walk" /\ UNCHANGED <<line, coins>>
  BY <1>1 DEF Walk, Become
<1>3. /\ op \in Asking /\ op # Idle /\ op.located = {v} /\ v \in Vaults
      /\ op.at \in Nat /\ op.at < Len(line[v]) /\ Len(line[v]) \in Nat
      /\ line[v] \in Seq(Link)
  <2>1. op \in Asking /\ Sound(op) /\ op # Idle
    BY <1>2, BusySound, AskingFields
  <2>2. PICK u \in Vaults : op.located = {u}
    BY <1>2, <2>1 DEF Sound, Asked
  <2>3. Follows(op, v) /\ v = u
    BY <2>1, <2>2 DEF Sound
  <2> QED
    BY <1>2, <2>1, <2>2, <2>3, LinkOf, AskingFields DEF Follows, LookInv, LinesType
<1>4. Settled = [pc |-> "asked", ask |-> op.ask, typed |-> op.typed,
                 sure |-> op.began.used, missed |-> op.missed]
  BY <1>2, SettledQuestion
<1>5. /\ op'.ask = op.ask /\ op'.typed = op.typed /\ op'.began = op.began
      /\ op'.located = {v} /\ op'.at = op.at + 1 /\ op'.missed = op.missed
      /\ op'.pc = IF op.at + 1 < Len(line[v]) THEN "walk" ELSE "hint"
  BY <1>1, <1>3 DEF Asking
<1>6. CASE op.at + 1 < Len(line[v])
  <2>1. Settled' = Settled
    BY <1>2, <1>3, <1>5, <1>6 DEF Settled, Idle
  <2> QED
    BY <1>2, <2>1, QuietAtomic
<1>7. CASE ~(op.at + 1 < Len(line[v]))
  <2>1. op'.at = Len(line[v])
    BY <1>3, <1>5, <1>7
  <2>2. SubSeq(line[v], 1, op'.at) = line[v]
    BY <1>3, <2>1
  <2>3. op'.pc = "hint"
    BY <1>5, <1>7
  <2>4. Settled' = [pc |-> "seen", ask |-> op.ask, typed |-> op.typed, missed |-> op.missed,
                    of |-> {v}, coins |-> {line[v]}]
    <3>1. Settled' = [pc |-> "seen", ask |-> op'.ask, typed |-> op'.typed, missed |-> op'.missed,
                      of |-> {v}, coins |-> {SubSeq(line'[v], 1, op'.at)}]
      BY <1>3, <1>5, <2>3, SettledRight DEF SettlesRight
    <3> QED
      BY <1>2, <1>5, <2>2, <3>1
  <2>5. op.began.used /\ "coin" \notin op.missed => v = op.ask
    BY <1>2, <1>3 DEF SpentAddressLocates
  <2>6. UNCHANGED <<line, Used>>
    BY <1>2 DEF Used, AtAddress, IsSpent
  <2>7. Atomic!Look(v)
    BY <1>4, <2>4, <2>5, <2>6 DEF Atomic!Look, Atomic!Sure, Atomic!Step
  <2> QED
    BY <1>3, <2>7 DEF Atomic!Next
<1> QED
  BY <1>6, <1>7

\* What is read after the walk is of the coins that were seen.
LEMMA ReadAtomic ==
    ASSUME LookInv, LookInv', ReadHint \/ ReadSpend \/ NoCustody
    PROVE  [Atomic!Next]_Atomic!vars
<1>1. /\ op.pc \in {"hint", "custody"} /\ UNCHANGED <<line, coins>>
      /\ op \in Asking /\ Asked(op)
  <2>1. op.pc \in {"hint", "custody"} /\ UNCHANGED <<line, coins>>
    BY DEF ReadHint, ReadSpend, NoCustody, Become
  <2> QED
    BY <2>1, BusySound
<1>2. PICK v \in Vaults : op.located = {v}
  BY <1>1 DEF Asked
<1> DEFINE seen(m) == [pc |-> "seen", ask |-> op.ask, typed |-> op.typed, missed |-> m,
                       of |-> {v}, coins |-> {Walked(v)}]
<1>3. Settled = seen(op.missed)
  BY <1>1, <1>2, SettledSeen
<1>4. ASSUME op'.pc \in {"hint", "custody"}, op'.ask = op.ask, op'.typed = op.typed,
             op'.located = op.located, op'.at = op.at
      PROVE  Settled' = seen(op'.missed)
  <2>1. {Walked(u) : u \in op.located}' = {Walked(v)}
    BY <1>1, <1>2, <1>4 DEF Walked
  <2> QED
    BY <1>2, <1>4, <2>1 DEF Settled, Idle
<1>5. CASE \/ \E answer : op' = [op EXCEPT !.pc = "answered", !.answer = answer]
           \/ op' = [op EXCEPT !.pc = "answered"]
  <2>1. /\ op'.pc = "answered" /\ op'.ask = op.ask /\ op'.typed = op.typed
        /\ op'.located = {v} /\ op'.at = op.at /\ op'.missed = op.missed
    BY <1>1, <1>2, <1>5 DEF Asking
  <2>2. op'.answer \in LookupAnswers(Walked(v), op.typed, op.missed)
    <3>1. Sound(op)'
      BY <2>1 DEF LookInv, Idle
    <3>2. op'.answer \in LookupAnswers(SubSeq(line'[v], 1, op'.at), op'.typed, op'.missed)
      BY <2>1, <3>1 DEF Sound, Follows, WalkedBy
    <3> QED
      BY <1>1, <2>1, <3>2 DEF Walked
  <2>3. Settled' = [pc |-> "answered", ask |-> op.ask, of |-> {v}, answer |-> op'.answer]
    BY <2>1 DEF Settled, Idle
  <2>4. UNCHANGED <<line, Used>>
    BY <1>1 DEF Used, AtAddress, IsSpent
  <2>5. /\ Settled.pc = "seen" /\ Settled.ask = op.ask /\ Settled.typed = op.typed
        /\ Settled.missed = op.missed /\ Settled.of = {v} /\ Settled.coins = {Walked(v)}
    BY <1>3
  <2> QED
    BY <2>2, <2>3, <2>4, <2>5 DEF Atomic!Next, Atomic!Answer, Atomic!Step
<1>6. CASE \/ op.pc = "custody" /\ \E n : op' = [op EXCEPT !.back = n]
           \/ op' = [op EXCEPT !.pc = "custody"]
  <2>1. /\ op'.pc \in {"hint", "custody"} /\ op'.ask = op.ask /\ op'.typed = op.typed
        /\ op'.located = op.located /\ op'.at = op.at /\ op'.missed = op.missed
    BY <1>1, <1>6 DEF Asking
  <2> HIDE DEF seen
  <2> QED
    BY <1>1, <1>3, <1>4, <2>1, QuietAtomic
<1>7. ASSUME NEW what \in Misses,
             \/ op.pc = "custody" /\ \E n : op' = [op EXCEPT !.back = n, !.missed = @ \cup {what}]
             \/ op' = [op EXCEPT !.pc = "custody", !.missed = @ \cup {what}]
      PROVE  Atomic!Next
  <2>1. /\ op'.pc \in {"hint", "custody"} /\ op'.ask = op.ask /\ op'.typed = op.typed
        /\ op'.located = op.located /\ op'.at = op.at /\ op'.missed = op.missed \cup {what}
    BY <1>1, <1>7 DEF Asking
  <2>2. seen(op'.missed) = [seen(op.missed) EXCEPT !.missed = @ \cup {what}]
    BY <2>1
  <2>3. seen(op.missed).pc = "seen"
    OBVIOUS
  <2> HIDE DEF seen
  <2>4. Settled' = [Settled EXCEPT !.missed = @ \cup {what}]
    BY <1>3, <1>4, <2>1, <2>2
  <2> QED
    BY <1>1, <1>3, <2>3, <2>4, MissAtomic
<1>8. "memo" \in Misses /\ "spend" \in Misses
  BY DEF Misses
<1>9. CASE ReadHint
  <2>1. \/ \E answer : op' = [op EXCEPT !.pc = "answered", !.answer = answer]
        \/ op' = [op EXCEPT !.pc = "custody"]
        \/ op' = [op EXCEPT !.pc = "custody", !.missed = @ \cup {"memo"}]
    BY <1>9 DEF ReadHint, Become
  <2> QED
    BY <1>5, <1>6, <1>7, <1>8, <2>1
<1>10. CASE ReadSpend
  <2>1. op.pc = "custody"
    BY <1>10 DEF ReadSpend
  <2>2. \/ \E answer : op' = [op EXCEPT !.pc = "answered", !.answer = answer]
        \/ op' = [op EXCEPT !.back = @ - 1]
        \/ op' = [op EXCEPT !.back = @ - 1, !.missed = @ \cup {"spend"}]
    BY <1>10 DEF ReadSpend, Become
  <2> QED
    BY <1>5, <1>6, <1>7, <1>8, <2>1, <2>2
<1>11. CASE NoCustody
  BY <1>5, <1>11 DEF NoCustody, Become
<1> QED
  BY <1>9, <1>10, <1>11

LEMMA ReturnAtomic ==
    ASSUME LookInv, Return
    PROVE  Atomic!Return
<1>1. op # Idle /\ op' = Idle /\ UNCHANGED <<line, coins>>
  BY DEF Return, Become
<1>2. Settled' = Idle /\ Settled.pc \in {"asked", "seen", "answered"}
  BY <1>1, SettledKind DEF Settled
<1>3. UNCHANGED <<line, Used>>
  BY <1>1 DEF Used, AtAddress, IsSpent
<1> QED
  BY <1>2, <1>3 DEF Atomic!Return, Atomic!Step, Atomic!Idle, Idle

-----------------------------------------------------------------------------

LEMMA NextAtomic ==
    LookInv /\ LookInv' /\ SpentAddressLocates /\ [Next]_vars => [Atomic!Next]_Atomic!vars
<1> SUFFICES ASSUME LookInv, LookInv', SpentAddressLocates, [Next]_vars
             PROVE  [Atomic!Next]_Atomic!vars
  OBVIOUS
<1>1. CASE UNCHANGED vars
  <2>1. UNCHANGED <<line, coins>> /\ Settled' = Settled
    BY <1>1 DEF vars, Settled, Walked
  <2> QED
    BY <2>1, QuietAtomic
<1>2. CASE \E v \in Vaults : LineStep(v) /\ UNCHANGED <<coins, op>>
  BY <1>2, WorldAtomic DEF Atomic!Next
<1>3. CASE \E c \in DOMAIN coins, owner \in Owners, odd \in BOOLEAN : Pay(c, owner, odd)
  BY <1>3, PayAtomic DEF Atomic!Next
<1>4. CASE \E v \in Asks, typed \in Typings : Ask(v, typed)
  BY <1>4, AskAtomic DEF Atomic!Next
<1>5. CASE FindExact \/ FindHinted
  BY <1>5, FindAtomic
<1>6. CASE Walk
  BY <1>6, WalkAtomic
<1>7. CASE ReadHint \/ ReadSpend \/ NoCustody
  BY <1>7, ReadAtomic
<1>8. CASE Return
  BY <1>8, ReturnAtomic DEF Atomic!Next
<1> QED
  BY <1>1, <1>2, <1>3, <1>4, <1>5, <1>6, <1>7, <1>8 DEF Next

\* Where the pages read can hold the coins of an address, a lookup of any
\* number of requests is one look at the coins of one vault, at one moment,
\* whatever moves meanwhile and whatever the node does not answer: the vault is
\* that of a used address unless a coin there was missed, and the answer is one
\* of that moment, short of the memo or the spends that were missed.
THEOREM LooksAtOnce ==
    ASSUME PagesSuffice
    PROVE  Spec => RefinesAtomic
<1>1. Init => Atomic!Init
  BY DEF Init, Settled, Idle, Atomic!Init, Atomic!Idle
<1> QED
  BY <1>1, NextAtomic, LookInvHolds, SpentAddressesLocate, PTL
     DEF Spec, RefinesAtomic, Atomic!Spec
=============================================================================
