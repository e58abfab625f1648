----------------------------- MODULE DiscoverProofs -----------------------------
(***************************************************************************)
(* What the reconstruction of a layout finds, for any list of defaults and *)
(* any line: which clawbacks are tried, that at most one layout comes out, *)
(* and when that is the one of the vault.                                  *)
(***************************************************************************)
EXTENDS Discover, TLAPS, WellFoundedInduction

-----------------------------------------------------------------------------
(* Numbers.                                                                *)

LEMMA LeastOf ==
    ASSUME NEW T, T \subseteq Nat, T # {}
    PROVE  \E x \in T : \A y \in T : x <= y
<1>1. PICK x \in T : \A y \in T : ~ (<<y, x>> \in OpToRel(<, Nat))
  BY NatLessThanWellFounded, WFMin
<1>2. ASSUME NEW y \in T PROVE ~(y < x)
  <2>1. ASSUME y < x PROVE <<y, x>> \in OpToRel(<, Nat)
    BY <2>1, Zenon DEF OpToRel
  <2> QED
    BY <1>1, <2>1
<1> QED
  BY ONLY <1>2, T \subseteq Nat, x \in T

\* Induction: a set that holds 0, and with a number below m the next, has 0..m.
LEMMA UpTo ==
    ASSUME NEW m \in Nat, NEW S, 0 \in S, \A n \in 0..m : n \in S /\ n < m => n + 1 \in S
    PROVE  0..m \subseteq S
<1> DEFINE missing == {n \in 0..m : n \notin S}
<1> SUFFICES ASSUME missing # {} PROVE FALSE
  OBVIOUS
<1>1. missing \subseteq Nat
  OBVIOUS
<1> HIDE DEF missing
<1>2. PICK x \in missing : \A y \in missing : x <= y
  BY <1>1, LeastOf
<1>3. x \in 0..m /\ x \notin S /\ x # 0
  BY <1>2 DEF missing
<1>4. x - 1 \in 0..m /\ x - 1 < m /\ (x - 1) + 1 = x /\ ~(x <= x - 1)
  BY <1>3
<1>5. x - 1 \notin missing
  BY <1>2, <1>4
<1> QED
  BY <1>3, <1>4, <1>5 DEF missing

-----------------------------------------------------------------------------
(* The list without a number.                                              *)

\* The loop that builds the list, as a function of the entries seen.
Builds(kept, list, secs, m) ==
    kept = [n \in 0..m |->
                IF n = 0 THEN <<>>
                ELSE IF list[n] = secs THEN kept[n - 1]
                ELSE Append(kept[n - 1], list[n])]

LEMMA LoopRuns ==
    ASSUME NEW list, NEW secs, NEW m \in Nat
    PROVE  \E kept : Builds(kept, list, secs, m)
<1> DEFINE S == {n \in 0..m : \E kept : Builds(kept, list, secs, n)}
<1>1. 0 \in S
  <2>1. Builds([n \in 0..0 |-> <<>>], list, secs, 0)
    BY DEF Builds
  <2> QED
    BY <2>1
<1>2. ASSUME NEW n \in 0..m, n \in S, n < m PROVE n + 1 \in S
  <2>1. PICK kept : Builds(kept, list, secs, n)
    BY <1>2
  <2> DEFINE last == IF list[n + 1] = secs THEN kept[n] ELSE Append(kept[n], list[n + 1])
             next == [i \in 0..(n + 1) |-> IF i = n + 1 THEN last ELSE kept[i]]
  <2>2. \A i \in 0..n : kept[i] = IF i = 0 THEN <<>>
                                 ELSE IF list[i] = secs THEN kept[i - 1]
                                 ELSE Append(kept[i - 1], list[i])
    BY <2>1, Zenon DEF Builds
  <2>3. ASSUME NEW i \in 0..(n + 1)
        PROVE  next[i] = IF i = 0 THEN <<>>
                         ELSE IF list[i] = secs THEN next[i - 1]
                         ELSE Append(next[i - 1], list[i])
    <3>1. CASE i = n + 1
      <4>1. i # 0 /\ i - 1 = n /\ i - 1 \in 0..(n + 1) /\ i - 1 # n + 1
        BY <3>1
      <4>2. next[i] = last /\ next[i - 1] = kept[n]
        BY <3>1, <4>1
      <4> QED
        BY <3>1, <4>1, <4>2
    <3>2. CASE i = 0
      <4>1. next[0] = kept[0] /\ kept[0] = <<>>
        BY <2>2
      <4> QED
        BY <3>2, <4>1
    <3>3. CASE i \in 1..n
      <4>1. next[i] = kept[i] /\ next[i - 1] = kept[i - 1] /\ i # 0
        BY <3>3
      <4>2. kept[i] = IF list[i] = secs THEN kept[i - 1] ELSE Append(kept[i - 1], list[i])
        <5>1. i \in 0..n /\ i # 0
          BY <3>3
        <5> QED
          BY <2>2, <5>1
      <4> HIDE DEF next
      <4> QED
        BY <4>1, <4>2
    <3> QED
      BY <3>1, <3>2, <3>3
  <2>4. Builds(next, list, secs, n + 1)
    <3>1. next = [i \in 0..(n + 1) |-> next[i]]
      OBVIOUS
    <3> HIDE DEF next
    <3> QED
      BY <2>3, <3>1 DEF Builds
  <2> HIDE DEF next
  <2>5. n + 1 \in 0..m
    BY <1>2
  <2> QED
    BY <2>4, <2>5
<1> HIDE DEF S
<1>3. 0..m \subseteq S
  BY <1>1, <1>2, UpTo
<1> QED
  BY <1>3 DEF S

Entries(list) == {list[i] : i \in DOMAIN list}

\* What is left of a list is the rest of its entries.
LEMMA WithoutRange ==
    ASSUME NEW X, NEW list \in Seq(X), NEW secs
    PROVE  /\ Without(list, secs) \in Seq(X)
           /\ Entries(Without(list, secs)) = Entries(list) \ {secs}
<1> DEFINE m    == Len(list)
           kept == CHOOSE kept : Builds(kept, list, secs, m)
           Left(s) == {s[i] : i \in DOMAIN s}
           Rest(n) == {list[i] : i \in 1..n} \ {secs}
           Good(n) == kept[n] \in Seq(X) /\ Left(kept[n]) = Rest(n)
           S    == {n \in 0..m : Good(n)}
<1>1. m \in Nat /\ DOMAIN list = 1..m /\ \A i \in 1..m : list[i] \in X
  OBVIOUS
<1>2. Without(list, secs) = kept[m]
  BY DEF Without, Builds
<1>3. Builds(kept, list, secs, m)
  BY <1>1, LoopRuns
<1> HIDE DEF kept, m
<1>4. 0 \in S
  <2>1. kept[0] = <<>>
    BY <1>1, <1>3 DEF Builds
  <2>2. Left(<<>>) = {} /\ Rest(0) = {}
    OBVIOUS
  <2>3. Good(0)
    BY <2>1, <2>2
  <2> HIDE DEF Good
  <2> QED
    BY <1>1, <2>3
<1>5. ASSUME NEW n \in 0..m, n \in S, n < m PROVE n + 1 \in S
  <2>0. Good(n)
    <3> HIDE DEF Good
    <3> QED
      BY <1>5
  <2>1. kept[n] \in Seq(X) /\ Left(kept[n]) = Rest(n) /\ n + 1 \in 1..m /\ list[n + 1] \in X
    <3>1. n + 1 \in 1..m
      BY <1>1, <1>5
    <3> HIDE DEF Left, Rest
    <3> QED
      BY <1>1, <2>0, <3>1
  <2>2. kept[n + 1] = IF list[n + 1] = secs THEN kept[n] ELSE Append(kept[n], list[n + 1])
    <3>1. n + 1 \in 0..m /\ n + 1 # 0 /\ (n + 1) - 1 = n
      BY <1>1, <2>1
    <3> QED
      BY <1>3, <3>1 DEF Builds
  <2>3. {list[i] : i \in 1..(n + 1)} = {list[i] : i \in 1..n} \cup {list[n + 1]}
    BY <1>1
  <2>4. ASSUME list[n + 1] = secs PROVE Good(n + 1)
    <3>1. Rest(n + 1) = Rest(n)
      BY <2>3, <2>4
    <3> HIDE DEF Left, Rest
    <3> QED
      BY <2>1, <2>2, <2>4, <3>1
  <2>5. ASSUME list[n + 1] # secs PROVE Good(n + 1)
    <3>1. Left(Append(kept[n], list[n + 1])) = Left(kept[n]) \cup {list[n + 1]}
      <4> DEFINE s == kept[n]
                 e == list[n + 1]
      <4>1. s \in Seq(X) /\ e \in X
        BY <2>1
      <4> HIDE DEF s, e
      <4>2. /\ Len(s) \in Nat
            /\ DOMAIN s = 1..Len(s)
            /\ DOMAIN Append(s, e) = 1..(Len(s) + 1)
            /\ \A i \in 1..Len(s) : Append(s, e)[i] = s[i]
            /\ Append(s, e)[Len(s) + 1] = e
        BY <4>1
      <4> QED
        BY <4>2 DEF s, e
    <3>2. Append(kept[n], list[n + 1]) \in Seq(X)
      BY <2>1
    <3>3. Rest(n + 1) = Rest(n) \cup {list[n + 1]}
      BY <2>3, <2>5
    <3> HIDE DEF Left, Rest
    <3> QED
      BY <2>1, <2>2, <2>5, <3>1, <3>2, <3>3
  <2>6. n + 1 \in 0..m
    BY <1>1, <2>1
  <2> HIDE DEF Good
  <2> QED
    BY <2>4, <2>5, <2>6
<1> HIDE DEF S
<1>6. 0..m \subseteq S
  BY <1>1, <1>4, <1>5, UpTo
<1>7. m \in S
  BY <1>1, <1>6
<1>8. Rest(m) = Entries(list) \ {secs} /\ Left(kept[m]) = Entries(kept[m])
  BY <1>1 DEF Entries
<1>9. Good(m)
  <2> HIDE DEF Good
  <2> QED
    BY <1>7 DEF S
<1> HIDE DEF Left, Rest
<1> QED
  BY <1>2, <1>8, <1>9

-----------------------------------------------------------------------------
(* Which clawbacks are tried, and what comes of them.                      *)

Tried(guess) ==
    (IF guess.kind = "unknown" THEN {} ELSE {guess.secs})
        \cup (IF guess.kind = "known" THEN {} ELSE Common)

LEMMA GuessKinds ==
    ASSUME NEW guess \in ClawbackGuess
    PROVE  /\ guess.kind \in {"unknown", "hint", "known"}
           /\ guess.kind # "unknown" => guess.secs \in Timelocks
           /\ guess.kind = "unknown" => guess = Unknown
BY DEF ClawbackGuess, Unknown

\* The candidates are a list of exactly those.
LEMMA CandidatesTried ==
    ASSUME NEW guess \in ClawbackGuess
    PROVE  /\ Candidates(guess) \in Seq(Timelocks)
           /\ Entries(Candidates(guess)) = Tried(guess)
<1>1. Defaults \in Seq(Timelocks)
  BY DiscoverAssumption
<1>2. CASE guess.kind = "unknown"
  <2>1. Candidates(guess) = Defaults
    BY <1>2 DEF Candidates
  <2>2. Tried(guess) = Common
    BY <1>2 DEF Tried
  <2> QED
    BY <1>1, <2>1, <2>2 DEF Common, Entries
<1>3. CASE guess.kind = "known"
  <2>1. guess.secs \in Timelocks
    BY <1>3, GuessKinds
  <2>2. Candidates(guess) = <<guess.secs>>
    BY <1>3 DEF Candidates
  <2>3. Tried(guess) = {guess.secs}
    BY <1>3 DEF Tried
  <2>4. /\ <<guess.secs>> \in Seq(Timelocks)
        /\ DOMAIN <<guess.secs>> = {1}
        /\ <<guess.secs>>[1] = guess.secs
    BY <2>1
  <2> QED
    BY <2>2, <2>3, <2>4 DEF Entries
<1>4. CASE guess.kind = "hint"
  <2> DEFINE rest == Without(Defaults, guess.secs)
             list == <<guess.secs>> \o rest
  <2>1. guess.secs \in Timelocks
    BY <1>4, GuessKinds
  <2>2. rest \in Seq(Timelocks) /\ Entries(rest) = Entries(Defaults) \ {guess.secs}
    BY <1>1, WithoutRange
  <2>3. Candidates(guess) = list
    BY <1>4 DEF Candidates
  <2>4. Tried(guess) = {guess.secs} \cup Common
    BY <1>4 DEF Tried
  <2> HIDE DEF rest
  <2>5. /\ list \in Seq(Timelocks)
        /\ Len(rest) \in Nat
        /\ DOMAIN rest = 1..Len(rest)
        /\ DOMAIN list = 1..(Len(rest) + 1)
        /\ list[1] = guess.secs
        /\ \A i \in 1..Len(rest) : list[i + 1] = rest[i]
    BY <2>1, <2>2
  <2> HIDE DEF list
  <2>6. ASSUME NEW i \in DOMAIN list
        PROVE  list[i] \in {guess.secs} \cup {rest[j] : j \in DOMAIN rest}
    <3>1. CASE i = 1
      BY <2>5, <3>1
    <3>2. CASE i # 1
      <4>1. i - 1 \in 1..Len(rest) /\ (i - 1) + 1 = i
        BY <2>5, <3>2
      <4> QED
        BY <2>5, <4>1
    <3> QED
      BY <3>1, <3>2
  <2>7. 1 \in DOMAIN list /\ \A j \in DOMAIN rest : j + 1 \in DOMAIN list
    BY <2>5
  <2>8. Entries(list) = {guess.secs} \cup Entries(rest)
    BY <2>5, <2>6, <2>7 DEF Entries
  <2>9. Entries(list) = Tried(guess)
    BY <2>2, <2>4, <2>8 DEF Common, Entries
  <2>10. list \in Seq(Timelocks)
    BY <2>5
  <2> QED
    BY <2>3, <2>9, <2>10, Zenon
<1> QED
  BY <1>2, <1>3, <1>4, GuessKinds

\* What comes out is a match of a clawback that was tried; only one does.
LEMMA ReconstructIsMatch ==
    ASSUME NEW found, NEW words, NEW guess \in ClawbackGuess,
           NEW layout \in Reconstruct(found, words, guess)
    PROVE  /\ \E secs \in Tried(guess) : layout = ReconstructConfig(found, words, secs)
           /\ Matches(found, layout)
           /\ Reconstruct(found, words, guess) = {layout}
<1> DEFINE tried     == Candidates(guess)
           config(i) == ReconstructConfig(found, words, tried[i])
           First(i)  == /\ Matches(found, config(i))
                        /\ \A j \in 1..(i - 1) : ~Matches(found, config(j))
<1>1. Reconstruct(found, words, guess) = {config(i) : i \in {i \in DOMAIN tried : First(i)}}
  BY DEF Reconstruct
<1>2. tried \in Seq(Timelocks) /\ {tried[i] : i \in DOMAIN tried} = Tried(guess)
  BY CandidatesTried DEF Entries
<1> HIDE DEF tried
<1>3. DOMAIN tried = 1..Len(tried) /\ Len(tried) \in Nat
  BY <1>2
<1>4. PICK i \in DOMAIN tried : First(i) /\ layout = config(i)
  BY <1>1
<1>5. ASSUME NEW j \in DOMAIN tried, First(j) PROVE j = i
  <2>1. ~(i < j)
    BY <1>3, <1>4, <1>5
  <2>2. ~(j < i)
    BY <1>3, <1>4, <1>5
  <2> QED
    BY <1>3, <2>1, <2>2
<1>6. tried[i] \in Tried(guess)
  BY <1>2
<1> QED
  BY <1>1, <1>4, <1>5, <1>6

\* A clawback that is tried and matches is not passed over.
LEMMA TriedIsFound ==
    ASSUME NEW found, NEW words, NEW guess \in ClawbackGuess, NEW secs \in Tried(guess),
           Matches(found, ReconstructConfig(found, words, secs))
    PROVE  Reconstruct(found, words, guess) # {}
<1> DEFINE tried     == Candidates(guess)
           config(i) == ReconstructConfig(found, words, tried[i])
           T         == {i \in DOMAIN tried : Matches(found, config(i))}
<1>1. tried \in Seq(Timelocks) /\ {tried[i] : i \in DOMAIN tried} = Tried(guess)
  BY CandidatesTried DEF Entries
<1>2. \A i \in DOMAIN tried :
        (/\ Matches(found, config(i))
         /\ \A j \in 1..(i - 1) : ~Matches(found, config(j)))
            => config(i) \in Reconstruct(found, words, guess)
  BY DEF Reconstruct
<1> HIDE DEF tried
<1>3. DOMAIN tried = 1..Len(tried) /\ Len(tried) \in Nat
  BY <1>1
<1>4. T # {} /\ T \subseteq Nat
  BY <1>1, <1>3
<1>5. PICK i \in T : \A j \in T : i <= j
  <2> HIDE DEF T
  <2> QED
    BY <1>4, LeastOf
<1>6. ASSUME NEW j \in 1..(i - 1) PROVE ~Matches(found, config(j))
  <2>1. j \in DOMAIN tried /\ ~(i <= j)
    BY <1>3, <1>5
  <2> QED
    BY <1>5, <2>1
<1> QED
  BY <1>2, <1>5, <1>6

-----------------------------------------------------------------------------

\* A start finds a layout exactly when a clawback that is tried gives the
\* puzzle of a coin of the lookup, and never finds two: the order in which
\* clawbacks are tried decides only which one it is.
THEOREM ReconstructComplete ==
    ASSUME NEW found, NEW words, NEW guess \in ClawbackGuess
    PROVE  /\ Reconstruct(found, words, guess) # {} <=>
                \E secs \in Tried(guess) :
                    Matches(found, ReconstructConfig(found, words, secs))
           /\ \A one, other \in Reconstruct(found, words, guess) : one = other
BY ReconstructIsMatch, TriedIsFound

\* A clawback that is only a hint narrows nothing, be it ever so wrong: what a
\* start finds without one it finds with it (discover.rs: a hint is tried
\* first, then the usual defaults).
THEOREM HintNarrowsNothing ==
    ASSUME NEW found, NEW words, NEW secs \in Timelocks,
           Reconstruct(found, words, Unknown) # {}
    PROVE  Reconstruct(found, words, Hint(secs)) # {}
<1>1. /\ Unknown \in ClawbackGuess /\ Hint(secs) \in ClawbackGuess
      /\ Tried(Unknown) \subseteq Tried(Hint(secs))
  BY DEF ClawbackGuess, Unknown, Hint, Tried
<1> QED
  BY <1>1, ReconstructIsMatch, TriedIsFound

\* When the lookup has seen a coin of the layout, its custody path and its
\* clawback are tried, and no other coin it has seen has both the custody
\* path and the phrase, then it is the layout that comes out.
THEOREM ReconstructRebuilds ==
    ASSUME NEW found, NEW layout \in Layout, NEW guess \in ClawbackGuess,
           layout.timelock \in Tried(guess),
           found.custody = layout.custody,
           Matches(found, layout),
           \A other \in Layout :
                (/\ Matches(found, other)
                 /\ other.custody = layout.custody
                 /\ other.recovery = layout.recovery) => other = layout
    PROVE  Reconstruct(found, layout.recovery, guess) = {layout}
<1> DEFINE words == layout.recovery
<1>1. ReconstructConfig(found, words, layout.timelock) = layout
  BY DEF ReconstructConfig, Layout
<1>2. PICK other \in Reconstruct(found, words, guess) : TRUE
  BY <1>1, TriedIsFound
<1>3. /\ Reconstruct(found, words, guess) = {other}
      /\ Matches(found, other)
      /\ \E secs \in Tried(guess) : other = ReconstructConfig(found, words, secs)
  BY <1>2, ReconstructIsMatch
<1>4. Tried(guess) \subseteq Timelocks
  BY DiscoverAssumption, GuessKinds DEF Tried, Common
<1>5. other \in Layout /\ other.custody = layout.custody /\ other.recovery = words
  BY <1>3, <1>4 DEF ReconstructConfig, Layout
<1> QED
  BY <1>3, <1>5
=============================================================================
