----------------------- MODULE RecoveryWorkflowRefinement -----------------------
(***************************************************************************)
(* The tool and the chain implement DelayedRecovery, whatever their users  *)
(* do and whatever is lost on the way.                                     *)
(***************************************************************************)
EXTENDS RecoveryWorkflowProofs

-----------------------------------------------------------------------------
(* The invariant.                                                          *)

\* The layout a vault was READY with last is what its coin goes by.
LastGoverns ==
    \A v \in Vaults :
        /\ IsReady(v) => coin[v].puzzle.layout = last[v]
        /\ IsRecovery(v) => coin[v].puzzle.timelock = last[v].timelock

\* A start that runs was asked for.
StartsAsked ==
    \A p \in Procs : op[p].pc \in StartPcs => op[p].req \in asked[op[p].vault]

\* The layout a start has built answers its request, given the layout it
\* was prepared with.
PostsAnswer ==
    \A p \in Procs :
        op[p].pc = "push" => Promise!Answers(op[p].post, op[p].req, op[p].layout)

\* The coin a start has resolved is older than the current one, or is the
\* current one and READY under the layout the start was prepared with.
StartsResolved ==
    \A p \in Procs :
        op[p].pc \in {"build", "push"} =>
            LET v == op[p].vault
            IN  /\ op[p].seq <= coin[v].seq
                /\ op[p].seq = coin[v].seq => coin[v].puzzle = Ready(op[p].layout)

\* A start the network holds answers a request made for its vault by
\* somebody with the recovery key that signed it.
PoolAsked ==
    \A v \in Vaults : \A s \in pool[v] :
        s.kind = "start" =>
            \E req \in asked[v] :
                s.signer = req.phrase /\ Promise!Answers(s.post, req, last[v])

PromiseInv ==
    TypeInv /\ LastGoverns /\ StartsAsked /\ PostsAnswer /\ StartsResolved /\ PoolAsked

LEMMA InitPromise == Init => PromiseInv /\ Promise!Init
<1> SUFFICES ASSUME Init PROVE PromiseInv /\ Promise!Init
  OBVIOUS
<1>1. \A v \in Vaults : /\ coin[v].puzzle = Ready(FirstLayout[v])
                        /\ pool[v] = {}
                        /\ IsReady(v) /\ ~IsRecovery(v)
  BY DEF Init, ChainInit, IsReady, IsRecovery, Ready
<1>2. LastGoverns /\ PoolAsked
  BY <1>1 DEF Init, ChainInit, LastGoverns, PoolAsked, Ready
<1>3. StartsAsked /\ PostsAnswer /\ StartsResolved
  BY DEF Init, Idle, StartPcs, StartsAsked, PostsAnswer, StartsResolved
<1>4. Promise!Init
  BY <1>1 DEF Init, ChainInit, Promise!Init
<1> QED
  BY <1>2, <1>3, <1>4, InitType DEF PromiseInv

-----------------------------------------------------------------------------
(* What keeps the parts of the invariant.                                  *)

\* A process goes to a stage that what it has gathered justifies.
LEMMA StageKeeps ==
    ASSUME PromiseInv, NEW p \in Procs, NEW stage, Become(p, stage),
           UNCHANGED <<coin>>,
           \A v \in Vaults : asked[v] \subseteq asked'[v],
           stage.pc \in StartPcs => stage.req \in asked'[stage.vault],
           stage.pc = "push" => Promise!Answers(stage.post, stage.req, stage.layout),
           stage.pc \in {"build", "push"} =>
                /\ stage.seq <= coin[stage.vault].seq
                /\ stage.seq = coin[stage.vault].seq =>
                        coin[stage.vault].puzzle = Ready(stage.layout)
    PROVE  StartsAsked' /\ PostsAnswer' /\ StartsResolved'
<1> USE DEF PromiseInv
<1>1. op'[p] = stage /\ \A q \in Procs \ {p} : op'[q] = op[q]
  BY DEF Become, TypeInv, TypeOK
<1>2. StartsAsked'
  <2> SUFFICES ASSUME NEW q \in Procs, op'[q].pc \in StartPcs
               PROVE  op'[q].req \in asked'[op'[q].vault]
    BY DEF StartsAsked
  <2>1. CASE q = p
    BY <1>1, <2>1
  <2>2. CASE q # p
    <3>1. op'[q] = op[q] /\ op[q].vault \in Vaults
      BY <1>1, <2>2, StartPlace
    <3> QED
      BY <3>1 DEF StartsAsked
  <2> QED
    BY <2>1, <2>2
<1>3. PostsAnswer'
  BY <1>1 DEF PostsAnswer, Promise!Answers
<1>4. StartsResolved'
  BY <1>1 DEF StartsResolved, Ready
<1> QED
  BY <1>2, <1>3, <1>4

\* The chain stands still.
LEMMA ChainKeeps ==
    ASSUME PromiseInv, UNCHANGED <<coin, pool, last>>,
           \A v \in Vaults : asked[v] \subseteq asked'[v]
    PROVE  LastGoverns' /\ PoolAsked'
<1>1. LastGoverns'
  BY DEF PromiseInv, LastGoverns, IsReady, IsRecovery
<1>2. PoolAsked'
  BY DEF PromiseInv, PoolAsked, Promise!Answers
<1> QED
  BY <1>1, <1>2

\* A vault gets a new coin, and the puzzle follows the layout it goes by.
LEMMA NewCoinPromise ==
    ASSUME PromiseInv, NEW v \in Vaults, NEW puzzle, NewCoin(v, puzzle),
           UNCHANGED <<op, asked>>,
           \A w \in Vaults \ {v} : last'[w] = last[w],
           puzzle.state = "READY" => puzzle.layout = last'[v],
           puzzle.state = "RECOVERY" => puzzle.timelock = last'[v].timelock
    PROVE  LastGoverns' /\ PoolAsked' /\ StartsAsked' /\ PostsAnswer' /\ StartsResolved'
<1> USE DEF PromiseInv
<1>1. /\ coin'[v] = [seq |-> coin[v].seq + 1, puzzle |-> puzzle]
      /\ pool'[v] = {}
      /\ \A w \in Vaults \ {v} : coin'[w] = coin[w] /\ pool'[w] = pool[w]
  BY DEF NewCoin, TypeInv, TypeOK, ChainTypeOK
<1>2. LastGoverns'
  BY <1>1 DEF LastGoverns, IsReady, IsRecovery
<1>3. PoolAsked'
  BY <1>1 DEF PoolAsked, Promise!Answers
<1>4. StartsAsked' /\ PostsAnswer'
  BY DEF StartsAsked, PostsAnswer, Promise!Answers
<1>5. StartsResolved'
  <2> SUFFICES ASSUME NEW p \in Procs, op[p].pc \in {"build", "push"}
               PROVE  /\ op[p].seq <= coin'[op[p].vault].seq
                      /\ op[p].seq = coin'[op[p].vault].seq =>
                            coin'[op[p].vault].puzzle = Ready(op[p].layout)
    BY DEF StartsResolved, Ready
  <2>1. op[p].vault \in Vaults /\ op[p].seq \in Nat /\ coin[op[p].vault].seq \in Nat
    BY StageTypes DEF Building, Pushing, TypeInv, TypeOK, ChainTypeOK
  <2>2. /\ op[p].seq <= coin[op[p].vault].seq
        /\ op[p].seq = coin[op[p].vault].seq =>
                coin[op[p].vault].puzzle = Ready(op[p].layout)
    BY DEF StartsResolved
  <2> QED
    BY <1>1, <2>1, <2>2
<1> QED
  BY <1>2, <1>3, <1>4, <1>5

-----------------------------------------------------------------------------
(* Steps that DelayedRecovery does not see.                                *)

\* Coins, ages and requests stay: so does the promise.
LEMMA Unseen == UNCHANGED <<coin, age, last, asked>> => UNCHANGED Promise!vars
BY DEF Promise!vars, IsRecovery

\* A process moves on while the chain and the requests stay.
LEMMA UnseenStage ==
    ASSUME PromiseInv, TypeInv', NEW p \in Procs, NEW stage, Become(p, stage),
           UNCHANGED <<coin, age, last, pool, asked>>,
           stage.pc \in StartPcs => stage.req \in asked[stage.vault],
           stage.pc = "push" => Promise!Answers(stage.post, stage.req, stage.layout),
           stage.pc \in {"build", "push"} =>
                /\ stage.seq <= coin[stage.vault].seq
                /\ stage.seq = coin[stage.vault].seq =>
                        coin[stage.vault].puzzle = Ready(stage.layout)
    PROVE  PromiseInv' /\ UNCHANGED Promise!vars
<1>1. StartsAsked' /\ PostsAnswer' /\ StartsResolved'
  BY StageKeeps
<1>2. LastGoverns' /\ PoolAsked'
  BY ChainKeeps
<1> QED
  BY <1>1, <1>2, Unseen DEF PromiseInv

\* In particular one whose command ends, or belongs to a finish.
LEMMA UnseenOther ==
    ASSUME PromiseInv, TypeInv', NEW p \in Procs, NEW stage, Become(p, stage),
           stage.pc \notin {"save", "resolve", "build", "push"},
           stage.pc = "report" => stage.req \in asked[stage.vault],
           UNCHANGED <<coin, age, last, pool, asked>>
    PROVE  PromiseInv' /\ UNCHANGED Promise!vars
BY UnseenStage DEF StartPcs

\* A user begins a start: the request is one of the vault from now on.
LEMMA BeginPromise ==
    ASSUME PromiseInv, TypeInv', NEW p \in Procs, NEW v \in Vaults, NEW layout,
           NEW req \in Requests, NEW pc \in {"save", "resolve"}, Asks(v, layout, req),
           Become(p, [pc |-> pc, vault |-> v, layout |-> layout, req |-> req]),
           UNCHANGED chainVars
    PROVE  PromiseInv' /\ Promise!Next
<1>1. asked' = [asked EXCEPT ![v] = @ \cup {req}] /\ UNCHANGED <<coin, age, pool, past, last>>
  BY DEF Asks, chainVars
<1>2. (\A w \in Vaults : asked[w] \subseteq asked'[w]) /\ req \in asked'[v]
  BY <1>1 DEF PromiseInv, TypeInv, TypeOK
<1>3. StartsAsked' /\ PostsAnswer' /\ StartsResolved'
  BY <1>1, <1>2, StageKeeps
<1>4. LastGoverns' /\ PoolAsked'
  BY <1>1, <1>2, ChainKeeps
<1>5. Promise!Ask(v, req)
  BY <1>1 DEF Promise!Ask, IsRecovery
<1> QED
  BY <1>3, <1>4, <1>5 DEF PromiseInv, Promise!Next

\* The layout a start builds answers its request.
LEMMA PostLayoutAnswers ==
    ASSUME NEW layout, NEW req, NEW key \in NewRecoveryKeys(req)
    PROVE  Promise!Answers(PostLayout(layout, req, key), req, layout)
BY DEF Promise!Answers, PostLayout, NewRecoveryKeys

\* The network takes a start: it answers a request by the layout that
\* governs the vault.
LEMMA HoldStartPromise ==
    ASSUME PromiseInv, TypeInv', NEW p \in Procs, PushStart(p)
    PROVE  PromiseInv' /\ UNCHANGED Promise!vars
<1> USE DEF PromiseInv
<1> DEFINE v == op[p].vault
           s == StartSpendOf(p)
<1>1. op[p] \in Pushing /\ v \in Vaults
  BY StageTypes DEF TypeInv, PushStart, Pushing
<1>2. /\ UNCHANGED <<coin, age, last, asked>>
      /\ pool' = [pool EXCEPT ![v] = {s}]
  BY DEF PushStart, Hold, userVars
<1>3. PICK stage \in {Idle, [op[p] EXCEPT !.pc = "report"]} : Become(p, stage)
  BY DEF PushStart
<1>4. op[p].req \in asked[v]
  BY DEF PushStart, StartsAsked, StartPcs
<1>5. StartsAsked' /\ PostsAnswer' /\ StartsResolved'
  <2>1. stage.pc \notin {"save", "resolve", "build", "push"}
    BY <1>1, <1>3 DEF Idle, Pushing
  <2>2. stage.pc \in StartPcs => stage.req \in asked[stage.vault]
    BY <1>1, <1>3, <1>4 DEF Idle, Pushing, StartPcs
  <2> QED
    BY <1>2, <1>3, <2>1, <2>2, StageKeeps
<1>6. LastGoverns'
  BY <1>2 DEF LastGoverns, IsReady, IsRecovery
<1>7. PoolAsked'
  <2>1. Promise!Answers(s.post, op[p].req, last[v])
    <3>1. Promise!Answers(op[p].post, op[p].req, op[p].layout)
      BY DEF PushStart, PostsAnswer
    <3>2. op[p].seq = coin[v].seq /\ IsReady(v)
      BY DEF PushStart, Accepts, Runs, StartSpendOf, StartSpend
    <3>3. coin[v].puzzle = Ready(op[p].layout)
      BY <3>2 DEF PushStart, StartsResolved
    <3>4. last[v] = op[p].layout
      BY <1>1, <3>2, <3>3 DEF LastGoverns, Ready
    <3> QED
      BY <3>1, <3>4 DEF StartSpendOf, StartSpend
  <2>2. s.signer = op[p].req.phrase
    BY DEF StartSpendOf, StartSpend
  <2>3. pool'[v] = {s} /\ \A w \in Vaults \ {v} : pool'[w] = pool[w]
    BY <1>1, <1>2 DEF TypeInv, TypeOK, ChainTypeOK
  <2> QED
    BY <1>2, <1>4, <2>1, <2>2, <2>3 DEF PoolAsked, Promise!Answers
<1> QED
  BY <1>2, <1>5, <1>6, <1>7, Unseen

\* It takes a finish, or keeps one that comes too early.
LEMMA HoldFinishPromise ==
    ASSUME PromiseInv, TypeInv', NEW p \in Procs, PushFinish(p) \/ PushFinishRefused(p)
    PROVE  PromiseInv' /\ UNCHANGED Promise!vars
<1> USE DEF PromiseInv
<1> DEFINE v == op[p].vault
<1>1. /\ UNCHANGED <<coin, age, last, asked>>
      /\ Become(p, Idle)
      /\ UNCHANGED pool \/ Hold(v, FinishSpendOf(p))
  BY DEF PushFinish, PushFinishRefused, userVars
<1>2. StartsAsked' /\ PostsAnswer' /\ StartsResolved'
  BY <1>1, StageKeeps DEF Idle, StartPcs
<1>3. LastGoverns'
  BY <1>1 DEF LastGoverns, IsReady, IsRecovery
<1>4. \A w \in Vaults : \A s \in pool'[w] : s.kind = "start" => s \in pool[w]
  BY <1>1 DEF Hold, FinishSpendOf, FinishSpend, TypeInv, TypeOK, ChainTypeOK
<1>5. PoolAsked'
  BY <1>1, <1>4 DEF PoolAsked, Promise!Answers
<1> QED
  BY <1>1, <1>2, <1>3, <1>5, Unseen

LEMMA StartStepPromise ==
    ASSUME PromiseInv, TypeInv', NEW p \in Procs, StartStep(p)
    PROVE  PromiseInv' /\ [Promise!Next]_Promise!vars
<1> USE DEF PromiseInv
<1>a. ASSUME NEW req \in Requests, NEW v \in Vaults, BeginStart(p, v, req)
      PROVE  PromiseInv' /\ Promise!Next
  BY <1>a, BeginPromise DEF BeginStart
<1>b. ASSUME NEW req \in Requests, NEW d \in Dirs, BeginStartFromFile(p, d, req)
      PROVE  PromiseInv' /\ Promise!Next
  <2>1. PICK file \in config[d] :
            /\ Asks(file.vault, file.layout, req)
            /\ Become(p, [pc |-> "resolve", vault |-> file.vault, layout |-> file.layout,
                          req |-> req])
            /\ UNCHANGED chainVars
    BY <1>b DEF BeginStartFromFile
  <2>2. file.vault \in Vaults
    BY <2>1 DEF TypeInv, TypeOK, File
  <2> QED
    BY <2>1, <2>2, BeginPromise
<1>c. CASE SaveConfig(p)
  <2>1. op[p] \in Preparing /\ op[p].req \in asked[op[p].vault]
    BY <1>c, StageTypes DEF SaveConfig, StartsAsked, StartPcs, TypeInv
  <2> QED
    BY <1>c, <2>1, UnseenStage DEF SaveConfig, Preparing, chainVars, userVars
<1>d. CASE ResolveReady(p)
  <2>1. op[p] \in Preparing /\ op[p].req \in asked[op[p].vault]
    BY <1>d, StageTypes DEF ResolveReady, StartsAsked, StartPcs, TypeInv
  <2>2. UNCHANGED <<coin, age, last, pool, asked>>
    BY <1>d DEF ResolveReady, chainVars, userVars
  <2>3. CASE coin[op[p].vault].puzzle = Ready(op[p].layout)
    <3>1. coin[op[p].vault].seq \in Nat
      BY <2>1 DEF TypeInv, TypeOK, ChainTypeOK, Preparing
    <3> QED
      BY <1>d, <2>1, <2>2, <2>3, <3>1, UnseenStage DEF ResolveReady
  <2>4. CASE coin[op[p].vault].puzzle # Ready(op[p].layout)
    BY <1>d, <2>2, <2>4, UnseenOther DEF ResolveReady, Idle
  <2> QED
    BY <2>3, <2>4
<1>e. CASE BuildAndSave(p)
  <2>1. op[p] \in Building /\ op[p].req \in asked[op[p].vault]
    BY <1>e, StageTypes DEF BuildAndSave, StartsAsked, StartPcs, TypeInv
  <2>2. PICK key \in NewRecoveryKeys(op[p].req) :
            Become(p, [pc |-> "push", vault |-> op[p].vault, layout |-> op[p].layout,
                       req |-> op[p].req, seq |-> op[p].seq,
                       post |-> PostLayout(op[p].layout, op[p].req, key)])
    BY <1>e DEF BuildAndSave
  <2>3. /\ op[p].seq <= coin[op[p].vault].seq
        /\ op[p].seq = coin[op[p].vault].seq =>
                coin[op[p].vault].puzzle = Ready(op[p].layout)
    BY <1>e DEF BuildAndSave, StartsResolved
  <2>4. UNCHANGED <<coin, age, last, pool, asked>>
    BY <1>e DEF BuildAndSave, chainVars, userVars
  <2> QED
    BY <2>1, <2>2, <2>3, <2>4, PostLayoutAnswers, UnseenStage
<1>f. CASE WrongPhrase(p) \/ Report(p)
  BY <1>f, UnseenOther DEF WrongPhrase, Report, Idle, chainVars, userVars
<1>h. CASE PushStartRefused(p)
  <2>1. op[p] \in Pushing /\ op[p].req \in asked[op[p].vault]
    BY <1>h, StageTypes DEF PushStartRefused, StartsAsked, StartPcs, TypeInv
  <2>2. UNCHANGED <<coin, age, last, pool, asked>>
    BY <1>h DEF PushStartRefused, chainVars, userVars
  <2>3. CASE Become(p, Idle)
    BY <2>2, <2>3, UnseenOther DEF Idle
  <2>4. CASE Become(p, [op[p] EXCEPT !.pc = "report"])
    BY <2>1, <2>2, <2>4, UnseenStage DEF Pushing
  <2> QED
    BY <1>h, <2>3, <2>4 DEF PushStartRefused
<1>g. CASE PushStart(p)
  BY <1>g, HoldStartPromise
<1> QED
  BY <1>a, <1>b, <1>c, <1>d, <1>e, <1>f, <1>g, <1>h DEF StartStep

LEMMA OtherStepPromise ==
    ASSUME PromiseInv, TypeInv', NEW p \in Procs,
           \/ \E d \in Dirs : BeginFinish(p, d)
           \/ FinishStep(p) \/ Abandon(p) \/ DieInWrite(p)
    PROVE  PromiseInv' /\ UNCHANGED Promise!vars
<1>1. CASE \E d \in Dirs : BeginFinish(p, d)
  BY <1>1, UnseenOther DEF BeginFinish, chainVars, userVars
<1>2. CASE FindReady(p)
  <2>1. op[p] \in Finding
    BY <1>2, StageTypes DEF FindReady, PromiseInv, TypeInv
  <2> QED
    BY <1>2, <2>1, UnseenOther DEF FindReady, Finding, Idle, chainVars, userVars
<1>3. CASE FindRecovery(p)
  BY <1>3, UnseenOther DEF FindRecovery, Idle, chainVars, userVars
<1>4. CASE PushFinish(p) \/ PushFinishRefused(p)
  BY <1>4, HoldFinishPromise
<1>5. CASE Abandon(p) \/ DieInWrite(p)
  BY <1>5, UnseenOther DEF Abandon, DieInWrite, Idle, chainVars, userVars
<1> QED
  BY <1>1, <1>2, <1>3, <1>4, <1>5 DEF FinishStep

-----------------------------------------------------------------------------
(* Steps of the network and of the custody holder.                         *)

\* The recovery under way on v, as DelayedRecovery sees it.
Pending(v) == IF IsRecovery(v) THEN {coin[v].puzzle.post} ELSE {}

\* What it sees of a new coin.
LEMMA PendingOfNewCoin ==
    ASSUME TypeInv, NEW v \in Vaults, NEW puzzle, NewCoin(v, puzzle)
    PROVE  [w \in Vaults |-> Pending(w)]' =
               [[w \in Vaults |-> Pending(w)] EXCEPT ![v] =
                    IF puzzle.state = "RECOVERY" THEN {puzzle.post} ELSE {}]
BY DEF NewCoin, Pending, IsRecovery, TypeInv, TypeOK, ChainTypeOK

LEMMA ConfirmStartPromise ==
    ASSUME PromiseInv, TypeInv', NEW v \in Vaults, Chain(ConfirmStart(v))
    PROVE  PromiseInv' /\ Promise!Next
<1> USE DEF PromiseInv
<1>0. UNCHANGED <<op, asked, last>>
  BY DEF Chain, ConfirmStart, toolVars, userVars
<1>1. PICK s \in pool[v] :
          /\ s.kind = "start"
          /\ NewCoin(v, InRecovery(coin[v].puzzle.layout, s.post, Amount[v]))
  BY DEF Chain, ConfirmStart
<1>2. IsReady(v) /\ s.signer = coin[v].puzzle.layout.recovery
  BY <1>1 DEF TypeInv, PoolRuns, Runs
<1>3. coin[v].puzzle.layout = last[v]
  BY <1>2 DEF LastGoverns
<1>4. PromiseInv'
  BY <1>0, <1>1, <1>3, NewCoinPromise DEF InRecovery
<1>5. PICK req \in asked[v] : s.signer = req.phrase /\ Promise!Answers(s.post, req, last[v])
  BY <1>1 DEF PoolAsked
<1>6. req \in Requests /\ s.post \in Layout
  BY <1>1 DEF TypeInv, TypeOK, ChainTypeOK, Spend
<1>7. [w \in Vaults |-> Pending(w)]' =
          [[w \in Vaults |-> Pending(w)] EXCEPT ![v] = {s.post}]
  BY <1>1, PendingOfNewCoin DEF InRecovery
<1>8. ~IsRecovery(v) /\ age' = [age EXCEPT ![v] = 0]
  BY <1>1, <1>2 DEF IsReady, IsRecovery, NewCoin
<1>9. Promise!Start(v, req, s.post)
  BY <1>0, <1>2, <1>3, <1>5, <1>7, <1>8 DEF Promise!Start, Pending
<1> QED
  BY <1>4, <1>6, <1>9 DEF Promise!Next, Promise!Layout, Layout

\* A vault becomes READY again.
LEMMA BecomesReadyPromise ==
    ASSUME PromiseInv, TypeInv', NEW v \in Vaults, NEW layout, BecomesReady(v, layout),
           UNCHANGED <<op, asked>>
    PROVE  /\ PromiseInv'
           /\ age' = [age EXCEPT ![v] = 0]
           /\ last' = [last EXCEPT ![v] = layout]
           /\ [w \in Vaults |-> Pending(w)]' =
                  [[w \in Vaults |-> Pending(w)] EXCEPT ![v] = {}]
<1> USE DEF PromiseInv
<1>1. last'[v] = layout /\ \A w \in Vaults \ {v} : last'[w] = last[w]
  BY DEF BecomesReady, TypeInv, TypeOK, ChainTypeOK
<1>2. PromiseInv'
  BY <1>1, NewCoinPromise DEF BecomesReady, Ready
<1>3. [w \in Vaults |-> Pending(w)]' = [[w \in Vaults |-> Pending(w)] EXCEPT ![v] = {}]
  BY PendingOfNewCoin DEF BecomesReady, Ready
<1> QED
  BY <1>2, <1>3 DEF BecomesReady, NewCoin

LEMMA ConfirmFinishPromise ==
    ASSUME PromiseInv, TypeInv', NEW v \in Vaults, Chain(ConfirmFinish(v))
    PROVE  PromiseInv' /\ Promise!Next
<1> USE DEF PromiseInv
<1>0. UNCHANGED <<op, asked>>
  BY DEF Chain, toolVars, userVars
<1>1. PICK s \in pool[v] : s.kind = "finish" /\ BecomesReady(v, s.post)
  BY DEF Chain, ConfirmFinish
<1>2. IsRecovery(v) /\ s.post = coin[v].puzzle.post
  BY <1>1 DEF TypeInv, PoolRuns, Runs
<1>3. age[v] >= last[v].timelock
  BY <1>2 DEF Chain, ConfirmFinish, Matured, LastGoverns
<1>4. s.post \in Layout
  BY <1>1 DEF TypeInv, TypeOK, ChainTypeOK, Spend
<1>5. Promise!Finish(v, s.post)
  BY <1>0, <1>1, <1>2, <1>3, BecomesReadyPromise DEF Promise!Finish, Pending
<1> QED
  BY <1>0, <1>1, <1>4, <1>5, BecomesReadyPromise DEF Promise!Next, Promise!Layout, Layout

LEMMA CustodyPromise ==
    ASSUME PromiseInv, TypeInv', NEW v \in Vaults, Chain(CustodySpend(v))
    PROVE  PromiseInv' /\ Promise!Next
<1>0. UNCHANGED <<op, asked>>
  BY DEF Chain, toolVars, userVars
<1>1. PICK layout \in OwnerLayouts : BecomesReady(v, layout)
  BY DEF Chain, CustodySpend
<1>2. Promise!Custody(v, layout)
  BY <1>0, <1>1, BecomesReadyPromise DEF Promise!Custody, Pending
<1> QED
  BY <1>0, <1>1, <1>2, BecomesReadyPromise DEF Promise!Next

\* A lost spend is not seen, and time passes on both sides.
LEMMA QuietChainPromise ==
    ASSUME PromiseInv, TypeInv', Chain(Tick) \/ \E v \in Vaults : Lose(v)
    PROVE  PromiseInv' /\ [Promise!Next]_Promise!vars
<1> USE DEF PromiseInv
<1>0. UNCHANGED <<op, asked, coin, last>>
  BY DEF Chain, Tick, Lose, Evict, toolVars, userVars
<1>1. \A v \in Vaults : pool'[v] \subseteq pool[v]
  BY DEF Chain, Tick, Lose, Evict, TypeInv, TypeOK, ChainTypeOK
<1>2. StartsAsked' /\ PostsAnswer' /\ StartsResolved' /\ LastGoverns'
  BY <1>0 DEF StartsAsked, PostsAnswer, StartsResolved, LastGoverns, Promise!Answers, Ready,
              IsReady, IsRecovery
<1>3. PoolAsked'
  BY <1>0, <1>1 DEF PoolAsked, Promise!Answers
<1>4. CASE Chain(Tick)
  <2>1. Promise!Tick
    BY <1>0, <1>4 DEF Chain, Tick, Promise!Tick, IsRecovery
  <2> QED
    BY <1>2, <1>3, <2>1 DEF Promise!Next
<1>5. CASE \E v \in Vaults : Lose(v)
  <2>1. UNCHANGED age
    BY <1>5 DEF Lose, Evict
  <2> QED
    BY <1>0, <1>2, <1>3, <2>1, Unseen
<1> QED
  BY <1>4, <1>5

LEMMA NextPromise ==
    PromiseInv /\ [Next]_vars => PromiseInv' /\ [Promise!Next]_Promise!vars
<1> SUFFICES ASSUME PromiseInv, [Next]_vars
             PROVE  PromiseInv' /\ [Promise!Next]_Promise!vars
  OBVIOUS
<1>0. TypeInv'
  BY NextType DEF PromiseInv
<1>1. CASE UNCHANGED vars
  <2>1. UNCHANGED <<op, asked, coin, pool, age, last>>
    BY <1>1 DEF vars, chainVars, toolVars, userVars
  <2>2. StartsAsked' /\ PostsAnswer' /\ StartsResolved'
    BY <2>1 DEF PromiseInv, StartsAsked, PostsAnswer, StartsResolved, Promise!Answers, Ready
  <2> QED
    BY <1>0, <2>1, <2>2, ChainKeeps, Unseen DEF PromiseInv
<1>2. CASE Chain(Tick) \/ \E v \in Vaults : Lose(v)
  BY <1>0, <1>2, QuietChainPromise
<1>3. ASSUME NEW v \in Vaults, ChainStep(v)
      PROVE  PromiseInv' /\ Promise!Next
  BY <1>0, <1>3, ConfirmStartPromise, ConfirmFinishPromise, CustodyPromise DEF ChainStep
<1>4. ASSUME NEW p \in Procs, StartStep(p)
      PROVE  PromiseInv' /\ [Promise!Next]_Promise!vars
  BY <1>0, <1>4, StartStepPromise
<1>5. ASSUME NEW p \in Procs,
             \/ \E d \in Dirs : BeginFinish(p, d)
             \/ FinishStep(p) \/ Abandon(p) \/ DieInWrite(p)
      PROVE  PromiseInv' /\ UNCHANGED Promise!vars
  BY <1>0, <1>5, OtherStepPromise
<1> QED
  BY <1>1, <1>2, <1>3, <1>4, <1>5 DEF Next

\* The recovery tool on the chain keeps the promise made to the owner of a
\* vault: whatever users repeat, processes race on and nodes lose, a vault
\* changes hands only by its custody key, or by a recovery that was asked
\* for under its recovery key, commits to what was asked, and leaves the
\* custody holder the whole clawback window.
THEOREM KeepsPromise == Spec => RefinesPromise
<1>1. Init => PromiseInv /\ Promise!Init
  BY InitPromise
<1>2. PromiseInv /\ [Next]_vars => PromiseInv' /\ [Promise!Next]_Promise!vars
  BY NextPromise
<1> QED
  BY <1>1, <1>2, PTL DEF Spec, RefinesPromise, Promise!Spec

=============================================================================
