------------------------- MODULE RecoveryWorkflowProofs -------------------------
(***************************************************************************)
(* Theorems about RecoveryWorkflow, for any number of vaults, processes,   *)
(* directories and requests.                                               *)
(***************************************************************************)
EXTENDS RecoveryWorkflow, TLAPS

-----------------------------------------------------------------------------
(* Types.                                                                  *)

\* What a process has gathered follows from where it is.
LEMMA StageTypes ==
    ASSUME TypeOK, NEW p \in Procs
    PROVE  /\ op[p].pc \in {"save", "resolve"} => op[p] \in Preparing
           /\ op[p].pc = "build" => op[p] \in Building
           /\ op[p].pc \in {"push", "report"} => op[p] \in Pushing
           /\ op[p].pc \in {"findReady", "findRecovery"} => op[p] \in Finding
           /\ op[p].pc = "pushFinish" => op[p] \in Closing
<1>1. op[p] \in {Idle} \cup StartOp \cup FinishOp
  BY DEF TypeOK
<1> QED
  BY <1>1 DEF StartOp, FinishOp, Idle, Preparing, Building, Pushing, Finding, Closing

\* The network holds only spends that the puzzle of the coin runs with.
PoolRuns == \A v \in Vaults : \A s \in pool[v] : Runs(v, s)

ChainInv == ChainTypeOK /\ PoolRuns

\* A start that was to generate a phrase has generated it.
PostsGenerated ==
    \A p \in Procs :
        (op[p].pc \in {"push", "report"} /\ op[p].req.recovery = AutoPhrase) =>
            op[p].post.recovery \in GeneratedKeys

TypeInv == TypeOK /\ PoolRuns /\ PostsGenerated

LEMMA InitType == Init => TypeInv
<1> SUFFICES ASSUME Init PROVE TypeInv
  OBVIOUS
<1>1. ChainTypeOK
  BY VaultAssumption DEF Init, ChainInit, ChainTypeOK, Ready, Puzzle
<1>2. PoolRuns
  BY DEF Init, ChainInit, PoolRuns
<1>3. PostsGenerated
  BY DEF Init, PostsGenerated, Idle
<1> QED
  BY <1>1, <1>2, <1>3, WorkflowAssumption DEF Init, TypeOK, TypeInv

\* The puzzles the network can make.
LEMMA PuzzleTypes ==
    ASSUME NEW layout \in Layout, NEW next \in Layout, NEW amount \in Nat
    PROVE  Ready(layout) \in Puzzle /\ InRecovery(layout, next, amount) \in Puzzle
BY DEF Layout, Puzzle, Ready, InRecovery

\* A new coin empties the pool.
LEMMA NewCoinKeeps ==
    ASSUME ChainInv, NEW v \in Vaults, NEW puzzle \in Puzzle, NewCoin(v, puzzle)
    PROVE  /\ coin' \in [Vaults -> [seq : Nat, puzzle : Puzzle]]
           /\ age' \in [Vaults -> Nat]
           /\ pool' \in [Vaults -> SUBSET Spend]
           /\ PoolRuns'
<1>1. PoolRuns'
  <2> SUFFICES ASSUME NEW w \in Vaults, NEW s \in pool'[w] PROVE Runs(w, s)'
    BY DEF PoolRuns
  <2>1. w # v /\ s \in pool[w] /\ coin'[w] = coin[w]
    BY DEF NewCoin, ChainInv, ChainTypeOK
  <2>2. Runs(w, s)
    BY <2>1 DEF ChainInv, PoolRuns
  <2> QED
    BY <2>1, <2>2 DEF Runs, IsReady, IsRecovery
<1> QED
  BY <1>1 DEF NewCoin, ChainInv, ChainTypeOK

\* The network and the custody holder keep the types of the chain.
LEMMA ChainStepType ==
    ASSUME ChainInv, NEW v \in Vaults,
           ConfirmStart(v) \/ ConfirmFinish(v) \/ CustodySpend(v) \/ Evict(v) \/ Tick
    PROVE  ChainInv'
<1> USE DEF ChainInv
<1>1. CASE ConfirmStart(v)
  <2>1. PICK s \in pool[v] :
            /\ s.kind = "start"
            /\ NewCoin(v, InRecovery(coin[v].puzzle.layout, s.post, Amount[v]))
            /\ UNCHANGED <<past, last>>
    BY <1>1 DEF ConfirmStart
  <2>2. s.post \in Layout
    BY <2>1 DEF ChainTypeOK, Spend
  <2>3. coin[v].puzzle.state = "READY"
    BY <2>1 DEF PoolRuns, Runs, IsReady
  <2>4. coin[v].puzzle.layout \in Layout
    BY <2>3 DEF ChainTypeOK, Puzzle
  <2>5. InRecovery(coin[v].puzzle.layout, s.post, Amount[v]) \in Puzzle
    BY <2>2, <2>4, PuzzleTypes, VaultAssumption
  <2> QED
    BY <2>1, <2>5, NewCoinKeeps DEF ChainTypeOK
<1>2. CASE ConfirmFinish(v)
  <2>1. PICK s \in pool[v] : s.kind = "finish" /\ BecomesReady(v, s.post)
    BY <1>2 DEF ConfirmFinish
  <2>2. s.post \in Layout
    BY <2>1 DEF ChainTypeOK, Spend
  <2> QED
    BY <2>1, <2>2, PuzzleTypes, NewCoinKeeps DEF ChainTypeOK, BecomesReady
<1>3. CASE CustodySpend(v)
  <2>1. PICK layout \in OwnerLayouts : BecomesReady(v, layout)
    BY <1>3 DEF CustodySpend
  <2> QED
    BY <2>1, PuzzleTypes, NewCoinKeeps, VaultAssumption DEF ChainTypeOK, BecomesReady
<1>4. CASE Evict(v)
  BY <1>4 DEF Evict, ChainTypeOK, PoolRuns, Runs, IsReady, IsRecovery
<1>5. CASE Tick
  BY <1>5, VaultAssumption DEF Tick, ChainTypeOK, PoolRuns, Runs, IsReady, IsRecovery
<1> QED
  BY <1>1, <1>2, <1>3, <1>4, <1>5

\* Steps of one process that leave the chain alone, or only its pool.
LEMMA RequestTypes ==
    ASSUME NEW req \in Requests
    PROVE  /\ req.custody \in CustodyKeys
           /\ req.phrase \in RecoveryKeys
           /\ req.recovery \in RecoveryKeys \cup {AutoPhrase}
           /\ req.timelock \in Timelocks \cup {Keep}
           /\ NewRecoveryKeys(req) \subseteq RecoveryKeys
           /\ req.recovery = AutoPhrase => NewRecoveryKeys(req) \subseteq GeneratedKeys
BY WorkflowAssumption DEF Request, NewRecoveryKeys

LEMMA PostLayoutType ==
    ASSUME NEW layout \in Layout, NEW req \in Requests, NEW key \in NewRecoveryKeys(req)
    PROVE  PostLayout(layout, req, key) \in Layout
BY RequestTypes DEF PostLayout, Layout

LEMMA BecomeType ==
    ASSUME TypeInv, NEW p \in Procs, NEW stage \in {Idle} \cup StartOp \cup FinishOp,
           Become(p, stage),
           (stage.pc \in {"push", "report"} /\ stage.req.recovery = AutoPhrase) =>
                stage.post.recovery \in GeneratedKeys
    PROVE  /\ op' \in [Procs -> {Idle} \cup StartOp \cup FinishOp]
           /\ PostsGenerated'
BY DEF TypeInv, TypeOK, Become, PostsGenerated

LEMMA BecomeIdle ==
    ASSUME TypeInv, NEW p \in Procs, Become(p, Idle)
    PROVE  /\ op' \in [Procs -> {Idle} \cup StartOp \cup FinishOp]
           /\ PostsGenerated'
BY BecomeType DEF Idle

LEMMA ChainUnchanged == ChainInv /\ UNCHANGED chainVars => ChainInv'
BY DEF ChainInv, ChainTypeOK, PoolRuns, Runs, IsReady, IsRecovery, chainVars

\* A spend that runs may enter an empty pool, or one that holds just it.
LEMMA HoldKeeps ==
    ASSUME ChainInv, NEW v \in Vaults, NEW s \in Spend, Runs(v, s), Hold(v, s),
           UNCHANGED <<coin, age, past, last>>
    PROVE  ChainInv'
BY DEF ChainInv, ChainTypeOK, PoolRuns, Runs, IsReady, IsRecovery, Hold

LEMMA StartStepType ==
    ASSUME TypeInv, NEW p \in Procs, StartStep(p)
    PROVE  TypeInv'
<1> USE DEF TypeInv
<1> DEFINE Rest == /\ config' \in [Dirs -> SUBSET File]
                   /\ post' \in [Dirs -> SUBSET File]
                   /\ minted' \subseteq GeneratedKeys
                   /\ shown' \subseteq GeneratedKeys
                   /\ taken' \subseteq GeneratedKeys
                   /\ faults' \in Nat
                   /\ asked' \in [Vaults -> SUBSET Requests]
                   /\ intent' \in [Vaults -> SUBSET [layout : Layout, req : Requests]]
           Op   == /\ op' \in [Procs -> {Idle} \cup StartOp \cup FinishOp]
                   /\ PostsGenerated'
<1> SUFFICES ChainInv' /\ Op /\ Rest
  BY DEF TypeOK, ChainInv
<1>0. ChainInv
  BY DEF TypeOK, ChainInv
<1>a. CASE \E req \in Requests, v \in Vaults : BeginStart(p, v, req)
  <2>1. PICK req \in Requests, v \in Vaults : BeginStart(p, v, req)
    BY <1>a
  <2>0. PICK layout \in past[v] :
            /\ Asks(v, layout, req)
            /\ Become(p, [pc |-> "save", vault |-> v, layout |-> layout, req |-> req])
            /\ UNCHANGED <<chainVars, config, post, minted, shown, faults, taken>>
    BY <2>1 DEF BeginStart
  <2>2. layout \in Layout
    BY <2>0 DEF TypeOK, ChainTypeOK
  <2>3. [pc |-> "save", vault |-> v, layout |-> layout, req |-> req] \in StartOp
    BY <2>2 DEF StartOp, Preparing
  <2>4. Op
    BY <2>0, <2>3, BecomeType
  <2>5. Rest
    BY <2>0, <2>2 DEF TypeOK, Asks
  <2> QED
    BY <1>0, <2>0, <2>4, <2>5, ChainUnchanged
<1>b. CASE \E req \in Requests, d \in Dirs : BeginStartFromFile(p, d, req)
  <2>1. PICK req \in Requests, d \in Dirs : BeginStartFromFile(p, d, req)
    BY <1>b
  <2>0. PICK file \in config[d] :
            /\ Asks(file.vault, file.layout, req)
            /\ Become(p, [pc |-> "resolve", vault |-> file.vault, layout |-> file.layout,
                          req |-> req])
            /\ UNCHANGED <<chainVars, config, post, minted, shown, faults, taken>>
    BY <2>1 DEF BeginStartFromFile
  <2>2. file \in File
    BY <2>0 DEF TypeOK
  <2>3. [pc |-> "resolve", vault |-> file.vault, layout |-> file.layout, req |-> req]
            \in StartOp
    BY <2>2 DEF StartOp, Preparing, File
  <2>4. Op
    BY <2>0, <2>3, BecomeType
  <2>5. Rest
    BY <2>0, <2>2 DEF TypeOK, Asks, File
  <2> QED
    BY <1>0, <2>0, <2>4, <2>5, ChainUnchanged
<1>c. CASE SaveConfig(p)
  <2>1. op[p] \in Preparing
    BY <1>c, StageTypes DEF SaveConfig
  <2>2. [op[p] EXCEPT !.pc = "resolve"] \in StartOp
    BY <2>1 DEF StartOp, Preparing
  <2>3. Op
    BY <1>c, <2>1, <2>2, BecomeType DEF SaveConfig, Preparing
  <2>a. {[vault |-> op[p].vault, layout |-> op[p].layout]} \subseteq File
    BY <2>1 DEF Preparing, File
  <2>b. config' \in [Dirs -> SUBSET File]
    BY <1>c, <2>a DEF SaveConfig, TypeOK
  <2>4. Rest
    BY <1>c, <2>b DEF SaveConfig, TypeOK, userVars
  <2> QED
    BY <1>0, <1>c, <2>3, <2>4, ChainUnchanged DEF SaveConfig
<1>d. CASE ResolveReady(p)
  <2>1. op[p] \in Preparing
    BY <1>d, StageTypes DEF ResolveReady
  <2>2. [pc |-> "build", vault |-> op[p].vault, layout |-> op[p].layout, req |-> op[p].req,
         seq |-> coin[op[p].vault].seq] \in StartOp
    BY <2>1 DEF StartOp, Preparing, Building, TypeOK, ChainTypeOK
  <2>3. Op
    BY <1>d, <2>2, BecomeType, BecomeIdle DEF ResolveReady
  <2>4. Rest
    BY <1>d DEF ResolveReady, TypeOK, userVars
  <2> QED
    BY <1>0, <1>d, <2>3, <2>4, ChainUnchanged DEF ResolveReady
<1>e. CASE BuildAndSave(p)
  <2>1. op[p] \in Building
    BY <1>e, StageTypes DEF BuildAndSave
  <2>2. PICK key \in NewRecoveryKeys(op[p].req) :
            /\ minted' = IF op[p].req.recovery = AutoPhrase THEN minted \cup {key} ELSE minted
            /\ post' = [post EXCEPT ![DirOf[op[p].vault]] =
                    {[vault |-> op[p].vault, layout |-> PostLayout(op[p].layout, op[p].req, key)]}]
            /\ Become(p, [pc |-> "push", vault |-> op[p].vault, layout |-> op[p].layout,
                          req |-> op[p].req, seq |-> op[p].seq,
                          post |-> PostLayout(op[p].layout, op[p].req, key)])
    BY <1>e DEF BuildAndSave
  <2>3. op[p].req \in Requests /\ op[p].layout \in Layout /\ op[p].vault \in Vaults
    BY <2>1 DEF Building
  <2>4. PostLayout(op[p].layout, op[p].req, key) \in Layout
    BY <2>3, PostLayoutType
  <2>5. [pc |-> "push", vault |-> op[p].vault, layout |-> op[p].layout, req |-> op[p].req,
         seq |-> op[p].seq, post |-> PostLayout(op[p].layout, op[p].req, key)] \in StartOp
    BY <2>1, <2>4 DEF StartOp, Building, Pushing
  <2>6. Op
    <3>1. op[p].req.recovery = AutoPhrase =>
              PostLayout(op[p].layout, op[p].req, key).recovery \in GeneratedKeys
      BY <2>3, RequestTypes DEF PostLayout
    <3> QED
      BY <2>2, <2>5, <3>1, BecomeType
  <2>7. post' \in [Dirs -> SUBSET File]
    <3>1. {[vault |-> op[p].vault, layout |-> PostLayout(op[p].layout, op[p].req, key)]}
              \subseteq File
      BY <2>3, <2>4 DEF File
    <3> QED
      BY <2>2, <3>1 DEF TypeOK
  <2>8. minted' \subseteq GeneratedKeys
    BY <2>2, <2>3, RequestTypes DEF TypeOK
  <2>9. Rest
    BY <1>e, <2>7, <2>8 DEF BuildAndSave, TypeOK, userVars
  <2> QED
    BY <1>0, <1>e, <2>6, <2>9, ChainUnchanged DEF BuildAndSave
<1>f. CASE WrongPhrase(p)
  <2>1. Op
    BY <1>f, BecomeIdle DEF WrongPhrase
  <2> QED
    BY <1>0, <1>f, <2>1, ChainUnchanged DEF WrongPhrase, TypeOK, userVars
<1>g. CASE PushStart(p)
  <2>1. op[p] \in Pushing
    BY <1>g, StageTypes DEF PushStart
  <2>2. StartSpendOf(p) \in Spend
    BY <2>1, RequestTypes DEF Pushing, StartSpendOf, StartSpend, Spend
  <2>3. ChainInv'
    BY <1>0, <1>g, <2>1, <2>2, HoldKeeps DEF PushStart, Accepts, Pushing
  <2>4. [op[p] EXCEPT !.pc = "report"] \in StartOp
    BY <2>1 DEF Pushing, StartOp
  <2>5. GeneratedIn(op[p]) \subseteq GeneratedKeys
    BY <1>g DEF PushStart, GeneratedIn, PostsGenerated
  <2>6. Op
    BY <1>g, <2>1, <2>4, <2>5, BecomeType, BecomeIdle DEF PushStart, Pushing, GeneratedIn
  <2>7. Rest
    BY <1>g, <2>5 DEF PushStart, Fault, TypeOK, userVars
  <2> QED
    BY <2>3, <2>6, <2>7
<1>h. CASE PushStartRefused(p)
  <2>0. op[p] \in Pushing
    BY <1>h, StageTypes DEF PushStartRefused
  <2>1. Op
    <3>1. [op[p] EXCEPT !.pc = "report"] \in StartOp
      BY <2>0 DEF Pushing, StartOp
    <3>2. GeneratedIn(op[p]) \subseteq GeneratedKeys
      BY <1>h DEF PushStartRefused, GeneratedIn, PostsGenerated
    <3> QED
      BY <1>h, <2>0, <3>1, <3>2, BecomeType, BecomeIdle
         DEF PushStartRefused, Pushing, GeneratedIn
  <2> QED
    BY <1>0, <1>h, <2>1, ChainUnchanged
       DEF PushStartRefused, Refuses, Fault, TypeOK, userVars
<1>i. CASE Report(p)
  <2>1. Op
    BY <1>i, BecomeIdle DEF Report
  <2>2. GeneratedIn(op[p]) \subseteq GeneratedKeys
    BY <1>i DEF Report, GeneratedIn, PostsGenerated
  <2> QED
    BY <1>0, <1>i, <2>1, <2>2, ChainUnchanged DEF Report, TypeOK, userVars
<1> QED
  BY <1>a, <1>b, <1>c, <1>d, <1>e, <1>f, <1>g, <1>h, <1>i DEF StartStep

LEMMA FinishStepType ==
    ASSUME TypeInv, NEW p \in Procs, FinishStep(p) \/ \E d \in Dirs : BeginFinish(p, d)
    PROVE  TypeInv'
<1> USE DEF TypeInv
<1> DEFINE Op == /\ op' \in [Procs -> {Idle} \cup StartOp \cup FinishOp]
                 /\ PostsGenerated'
<1>0. ChainInv
  BY DEF TypeOK, ChainInv
<1>s. SUFFICES ASSUME UNCHANGED <<config, post, minted, shown, taken, userVars>>
               PROVE  ChainInv' /\ Op
  <2>1. UNCHANGED <<config, post, minted, shown, taken, userVars>>
    BY DEF FinishStep, BeginFinish, FindReady, FindRecovery, PushFinish, PushFinishRefused
  <2>2. faults' \in Nat
    <3>1. faults \in Nat
      BY DEF TypeOK
    <3>2. UNCHANGED faults \/ Fault
      BY DEF FinishStep, BeginFinish, FindReady, FindRecovery, PushFinish, PushFinishRefused,
             Refuses
    <3> QED
      BY <3>1, <3>2 DEF Fault
  <2> QED
    BY <2>1, <2>2 DEF TypeOK, ChainInv, userVars
<1>a. CASE \E d \in Dirs : BeginFinish(p, d)
  <2>1. PICK d \in Dirs : BeginFinish(p, d)
    BY <1>a
  <2>2. PICK file \in config[d], after \in post[d] :
            /\ Become(p, [pc |-> "findReady", vault |-> file.vault, layout |-> file.layout,
                          post |-> after.layout])
            /\ UNCHANGED chainVars
    BY <2>1 DEF BeginFinish
  <2>3. [pc |-> "findReady", vault |-> file.vault, layout |-> file.layout,
         post |-> after.layout] \in FinishOp
    BY <2>2 DEF TypeOK, FinishOp, Finding, File
  <2> QED
    BY <1>0, <2>2, <2>3, BecomeType, ChainUnchanged
<1>b. CASE FindReady(p)
  <2>1. op[p] \in Finding
    BY <1>b, StageTypes DEF FindReady
  <2>2. [op[p] EXCEPT !.pc = "findRecovery"] \in FinishOp
    BY <2>1 DEF FinishOp, Finding
  <2>3. Op
    BY <1>b, <2>1, <2>2, BecomeType, BecomeIdle DEF FindReady, Finding
  <2> QED
    BY <1>0, <1>b, <2>3, ChainUnchanged DEF FindReady
<1>c. CASE FindRecovery(p)
  <2>1. op[p] \in Finding
    BY <1>c, StageTypes DEF FindRecovery
  <2>2. [pc |-> "pushFinish", vault |-> op[p].vault, layout |-> op[p].layout,
         post |-> op[p].post, seq |-> coin[op[p].vault].seq] \in FinishOp
    BY <2>1 DEF FinishOp, Finding, Closing, TypeOK, ChainTypeOK
  <2>3. Op
    BY <1>c, <2>2, BecomeType, BecomeIdle DEF FindRecovery
  <2> QED
    BY <1>0, <1>c, <2>3, ChainUnchanged DEF FindRecovery
<1>d. CASE PushFinish(p) \/ PushFinishRefused(p)
  <2>1. op[p] \in Closing
    BY <1>d, StageTypes DEF PushFinish, PushFinishRefused
  <2>2. FinishSpendOf(p) \in Spend
    BY <2>1 DEF Closing, FinishSpendOf, FinishSpend, Spend
  <2>3. ChainInv'
    BY <1>0, <1>d, <2>1, <2>2, HoldKeeps, ChainUnchanged
       DEF PushFinish, PushFinishRefused, Accepts, Closing, chainVars
  <2>4. Op
    BY <1>d, BecomeIdle DEF PushFinish, PushFinishRefused
  <2> QED
    BY <2>3, <2>4
<1> QED
  BY <1>a, <1>b, <1>c, <1>d DEF FinishStep

LEMMA FaultStepType ==
    ASSUME TypeInv, NEW p \in Procs, Abandon(p) \/ DieInWrite(p)
    PROVE  TypeInv'
<1> USE DEF TypeInv
<1>0. ChainInv
  BY DEF TypeOK, ChainInv
<1>1. UNCHANGED chainVars /\ Become(p, Idle)
  BY DEF Abandon, DieInWrite
<1>2. ChainInv'
  BY <1>0, <1>1, ChainUnchanged
<1>3. config' \in [Dirs -> SUBSET File] /\ post' \in [Dirs -> SUBSET File]
  BY DEF Abandon, DieInWrite, TypeOK
<1> QED
  BY <1>1, <1>2, <1>3, BecomeIdle
     DEF Abandon, DieInWrite, Fault, TypeOK, ChainInv, userVars

LEMMA NetworkStepType ==
    ASSUME TypeInv, Chain(Tick) \/ \E v \in Vaults : ChainStep(v) \/ Lose(v)
    PROVE  TypeInv'
<1> USE DEF TypeInv
<1>0. ChainInv
  BY DEF TypeOK, ChainInv
<1>1. ChainInv'
  <2>1. PICK v \in Vaults :
            ConfirmStart(v) \/ ConfirmFinish(v) \/ CustodySpend(v) \/ Evict(v) \/ Tick
    BY DEF Chain, ChainStep, Lose, Tick
  <2> QED
    BY <1>0, <2>1, ChainStepType
<1>2. UNCHANGED <<op, config, post, minted, shown, taken, asked, intent>>
  BY DEF Chain, ChainStep, Lose, toolVars, userVars
<1>3. faults' \in Nat
  BY DEF Chain, ChainStep, Lose, Fault, TypeOK
<1> QED
  BY <1>1, <1>2, <1>3 DEF TypeOK, ChainInv, PostsGenerated

LEMMA NextType == TypeInv /\ [Next]_vars => TypeInv'
<1> SUFFICES ASSUME TypeInv, [Next]_vars PROVE TypeInv'
  OBVIOUS
<1>1. CASE UNCHANGED vars
  <2>1. ChainInv'
    BY <1>1, ChainUnchanged DEF vars, TypeInv, TypeOK, ChainInv
  <2> QED
    BY <1>1, <2>1 DEF vars, toolVars, userVars, TypeInv, TypeOK, ChainInv, PostsGenerated
<1>2. CASE Next
  BY <1>2, StartStepType, FinishStepType, FaultStepType, NetworkStepType DEF Next
<1> QED
  BY <1>1, <1>2

LEMMA TypeInvHolds == Spec => []TypeInv
BY InitType, NextType, PTL DEF Spec

\* Every variable keeps its type, whatever the user, the node, the custody
\* holder and the crashes do.
THEOREM TypeCorrect == Spec => []TypeOK
<1>1. TypeInv => TypeOK
  BY DEF TypeInv
<1> QED
  BY <1>1, TypeInvHolds, PTL

-----------------------------------------------------------------------------
(* Generated phrases.                                                      *)

\* A node that refuses a start gives its status, which push_tx reads.
RefusalsHaveStatus == \A p \in Procs : PushStartRefused(p) => op'[p] = Idle

\* A start that is about to report has been taken.
ReportsTaken == \A p \in Procs : op[p].pc = "report" => GeneratedIn(op[p]) \subseteq taken

PhraseInv == ReportsTaken /\ ShownPhraseWasTaken

\* A step of p to a stage that reports nothing.
LEMMA NothingToReport ==
    ASSUME TypeOK, PhraseInv, NEW p \in Procs, NEW stage, Become(p, stage),
           stage.pc # "report", UNCHANGED <<shown, taken>>
    PROVE  PhraseInv'
BY DEF TypeOK, Become, PhraseInv, ReportsTaken, ShownPhraseWasTaken, GeneratedIn

LEMMA PushPhrase ==
    ASSUME TypeOK, PhraseInv, NEW p \in Procs, PushStart(p)
    PROVE  PhraseInv'
<1>1. /\ taken' = taken \cup GeneratedIn(op[p])
      /\ shown' = shown
      /\ \A q \in Procs \ {p} : op'[q] = op[q]
  BY DEF PushStart, Become, TypeOK
<1>2. op'[p] = Idle \/ op'[p] = [op[p] EXCEPT !.pc = "report"]
  BY DEF PushStart, Become, TypeOK
<1>3. op'[p].pc = "report" => GeneratedIn(op[p])' = GeneratedIn(op[p])
  <2>1. op[p] \in Pushing
    BY StageTypes DEF PushStart
  <2> QED
    BY <1>2, <2>1 DEF Idle, GeneratedIn, Pushing
<1>4. ReportsTaken'
  BY <1>1, <1>3 DEF PhraseInv, ReportsTaken, GeneratedIn
<1> QED
  BY <1>1, <1>4 DEF PhraseInv, ShownPhraseWasTaken

LEMMA ReportPhrase ==
    ASSUME TypeOK, PhraseInv, NEW p \in Procs, Report(p)
    PROVE  PhraseInv'
<1>1. shown' = shown \cup GeneratedIn(op[p]) /\ taken' = taken
  BY DEF Report
<1>2. ShownPhraseWasTaken'
  BY <1>1 DEF Report, PhraseInv, ReportsTaken, ShownPhraseWasTaken
<1>3. ReportsTaken'
  BY <1>1 DEF Report, Become, Idle, TypeOK, PhraseInv, ReportsTaken, GeneratedIn
<1> QED
  BY <1>2, <1>3 DEF PhraseInv

LEMMA NextPhrase ==
    ASSUME TypeInv, PhraseInv, [Next]_vars, [RefusalsHaveStatus]_vars
    PROVE  PhraseInv'
<1> USE DEF TypeInv
<1>1. CASE \/ UNCHANGED vars
           \/ Chain(Tick)
           \/ \E v \in Vaults : ChainStep(v) \/ Lose(v)
  <2>1. UNCHANGED <<op, shown, taken>>
    BY <1>1 DEF vars, toolVars, Chain, ChainStep, Lose
  <2> QED
    BY <2>1 DEF PhraseInv, ReportsTaken, ShownPhraseWasTaken, GeneratedIn
<1>2. ASSUME NEW p \in Procs, StartStep(p) PROVE PhraseInv'
  <2>1. CASE \/ \E req \in Requests :
                    \/ \E v \in Vaults : BeginStart(p, v, req)
                    \/ \E d \in Dirs : BeginStartFromFile(p, d, req)
             \/ ResolveReady(p) \/ BuildAndSave(p) \/ WrongPhrase(p)
    BY <2>1, NothingToReport
       DEF BeginStart, BeginStartFromFile, ResolveReady, BuildAndSave, WrongPhrase, Idle
  <2>2. CASE SaveConfig(p)
    <3>1. op[p] \in Preparing
      BY <2>2, StageTypes DEF SaveConfig
    <3> QED
      BY <2>2, <3>1, NothingToReport DEF SaveConfig, Preparing
  <2>3. CASE PushStartRefused(p)
    <3>1. UNCHANGED <<shown, taken>>
      BY <2>3 DEF PushStartRefused
    <3>2. CASE op' = op
      BY <3>1, <3>2 DEF PhraseInv, ReportsTaken, ShownPhraseWasTaken, GeneratedIn
    <3>3. CASE op' # op
      <4>1. op'[p] = Idle
        BY <2>3, <3>3 DEF RefusalsHaveStatus, vars, toolVars
      <4>2. PICK stage : Become(p, stage)
        BY <2>3 DEF PushStartRefused
      <4>3. stage = Idle
        BY <4>1, <4>2 DEF Become, TypeOK
      <4> QED
        BY <3>1, <4>2, <4>3, NothingToReport DEF Idle
    <3> QED
      BY <3>2, <3>3
  <2> QED
    BY <1>2, <2>1, <2>2, <2>3, PushPhrase, ReportPhrase DEF StartStep
<1>3. ASSUME NEW p \in Procs,
             \/ \E d \in Dirs : BeginFinish(p, d)
             \/ FindRecovery(p) \/ PushFinish(p) \/ PushFinishRefused(p)
             \/ Abandon(p) \/ DieInWrite(p)
      PROVE  PhraseInv'
  BY <1>3, NothingToReport
     DEF BeginFinish, FindRecovery, PushFinish, PushFinishRefused, Abandon, DieInWrite, Idle
<1>4. ASSUME NEW p \in Procs, FindReady(p) PROVE PhraseInv'
  <2>1. op[p] \in Finding
    BY <1>4, StageTypes DEF FindReady
  <2> QED
    BY <1>4, <2>1, NothingToReport DEF FindReady, Finding, Idle
<1> QED
  BY <1>1, <1>2, <1>3, <1>4 DEF Next, FinishStep

\* Where refusals give a status, and whoever retries and whatever else is lost,
\* a phrase that start reports is never that of a start a node refused.  (A
\* refusal without a status is reported as a start: the run GuiWait.)
THEOREM ShownPhrasesCorrect ==
    Spec /\ [][RefusalsHaveStatus]_vars => []ShownPhraseWasTaken
<1>1. Init => PhraseInv
  BY DEF Init, PhraseInv, ReportsTaken, ShownPhraseWasTaken, Idle
<1>2. PhraseInv => ShownPhraseWasTaken
  BY DEF PhraseInv
<1>3. TypeInv /\ PhraseInv /\ [Next]_vars /\ [RefusalsHaveStatus]_vars => PhraseInv'
  BY NextPhrase
<1> QED
  BY <1>1, <1>2, <1>3, TypeInvHolds, PTL DEF Spec

-----------------------------------------------------------------------------
(* No generated phrase is lost, but by a lost answer or a crash.           *)

\* The answer to the push of a start arrives, and its process lives to report.
NoAnswerLost ==
    \A p \in Procs :
        /\ PushStart(p) => op'[p].pc = "report"
        /\ op[p].pc = "report" => op'[p] = op[p] \/ Report(p)

\* Nobody types a phrase that the tool could come up with by itself.
FreshPhrases == \A req \in Requests : req.recovery \notin GeneratedKeys

\* The new recovery keys of the starts of v that the network has or had.
KeysStarted(v) ==
    {s.post.recovery : s \in {s \in pool[v] : s.kind = "start"}}
        \cup (IF IsRecovery(v) THEN {coin[v].puzzle.post.recovery} ELSE {})

Held(v, key) ==
    \/ key \in shown
    \/ \E p \in Procs : op[p].pc = "report" /\ op[p].vault = v /\ key \in GeneratedIn(op[p])

HeldInv ==
    /\ \A v \in Vaults : \A key \in KeysStarted(v) \cap GeneratedKeys : Held(v, key)
    /\ \A p \in Procs :
        (op[p].pc = "push" /\ op[p].req.recovery # AutoPhrase) =>
            op[p].post.recovery = op[p].req.recovery

\* Only a push adds a key to those the network has.
LEMMA OnlyPushesStart ==
    ASSUME TypeInv, Next, NEW v \in Vaults, NEW key \in KeysStarted(v)', key \notin KeysStarted(v)
    PROVE  \E p \in Procs : PushStart(p) /\ op[p].vault = v /\ key = op[p].post.recovery
<1> USE DEF TypeInv
<1>1. ASSUME UNCHANGED <<coin, pool>> PROVE FALSE
  BY <1>1 DEF KeysStarted, IsRecovery
<1>2. ASSUME NEW w \in Vaults, NEW layout, BecomesReady(w, layout) PROVE FALSE
  <2>1. CASE w = v
    <3>1. pool'[v] = {} /\ coin'[v].puzzle.state = "READY"
      BY <1>2, <2>1 DEF BecomesReady, NewCoin, Ready, TypeOK, ChainTypeOK
    <3> QED
      BY <3>1 DEF KeysStarted, IsRecovery
  <2>2. CASE w # v
    <3>1. pool'[v] = pool[v] /\ coin'[v] = coin[v]
      BY <1>2, <2>2 DEF BecomesReady, NewCoin, TypeOK, ChainTypeOK
    <3> QED
      BY <3>1 DEF KeysStarted, IsRecovery
  <2> QED
    BY <2>1, <2>2
<1>3. ASSUME NEW w \in Vaults, NEW s, s.kind = "finish", Hold(w, s), coin' = coin PROVE FALSE
  <2>1. \A t \in pool'[v] : t.kind = "start" => t \in pool[v]
    BY <1>3 DEF Hold, TypeOK, ChainTypeOK
  <2> QED
    BY <1>3, <2>1 DEF KeysStarted, IsRecovery
<1>4. ASSUME NEW w \in Vaults, ConfirmStart(w) PROVE FALSE
  <2>1. PICK s \in pool[w] :
            /\ s.kind = "start"
            /\ NewCoin(w, InRecovery(coin[w].puzzle.layout, s.post, Amount[w]))
    BY <1>4 DEF ConfirmStart
  <2>2. CASE w = v
    <3>1. pool'[v] = {} /\ coin'[v].puzzle.post = s.post
      BY <2>1, <2>2 DEF NewCoin, InRecovery, TypeOK, ChainTypeOK
    <3>2. s.post.recovery \in KeysStarted(v)
      BY <2>1, <2>2 DEF KeysStarted
    <3> QED
      BY <3>1, <3>2 DEF KeysStarted
  <2>3. CASE w # v
    <3>1. pool'[v] = pool[v] /\ coin'[v] = coin[v]
      BY <2>1, <2>3 DEF NewCoin, TypeOK, ChainTypeOK
    <3> QED
      BY <3>1 DEF KeysStarted, IsRecovery
  <2> QED
    BY <2>2, <2>3
<1>5. ASSUME NEW w \in Vaults, Evict(w) PROVE FALSE
  <2>1. pool'[v] \subseteq pool[v] /\ coin' = coin
    BY <1>5 DEF Evict, TypeOK, ChainTypeOK
  <2> QED
    BY <2>1 DEF KeysStarted, IsRecovery
<1>6. ASSUME NEW p \in Procs, PushStart(p)
      PROVE  op[p].vault = v /\ key = op[p].post.recovery
  <2>1. /\ coin' = coin
        /\ pool' = [pool EXCEPT ![op[p].vault] = {StartSpendOf(p)}]
        /\ StartSpendOf(p).post = op[p].post
    BY <1>6 DEF PushStart, Hold, StartSpendOf, StartSpend
  <2>2. op[p].vault = v
    <3>1. ASSUME op[p].vault # v PROVE pool'[v] = pool[v]
      BY <2>1, <3>1 DEF TypeOK, ChainTypeOK
    <3> QED
      BY <2>1, <3>1 DEF KeysStarted, IsRecovery
  <2>3. pool'[v] = {StartSpendOf(p)}
    BY <2>1, <2>2 DEF TypeOK, ChainTypeOK
  <2> QED
    BY <2>1, <2>2, <2>3 DEF KeysStarted, IsRecovery
<1>7. CASE Chain(Tick) \/ \E w \in Vaults : ChainStep(w) \/ Lose(w)
  <2>1. CASE Chain(Tick)
    BY <1>1, <2>1 DEF Chain, Tick
  <2>2. CASE \E w \in Vaults : ChainStep(w) \/ Lose(w)
    BY <1>2, <1>4, <1>5, <2>2 DEF ChainStep, Chain, Lose, ConfirmFinish, CustodySpend
  <2> QED
    BY <1>7, <2>1, <2>2
<1>8. ASSUME NEW p \in Procs, StartStep(p) PROVE PushStart(p)
  BY <1>1, <1>8
     DEF StartStep, BeginStart, BeginStartFromFile, SaveConfig, ResolveReady, BuildAndSave,
         WrongPhrase, PushStartRefused, Report, chainVars
<1>9. ASSUME NEW p \in Procs, FinishStep(p) PROVE FALSE
  <2>1. CASE FindReady(p) \/ FindRecovery(p)
    BY <1>1, <2>1 DEF FindReady, FindRecovery, chainVars
  <2>2. CASE PushFinish(p) \/ PushFinishRefused(p)
    <3>1. op[p].vault \in Vaults
      BY <2>2, StageTypes DEF PushFinish, PushFinishRefused, Closing
    <3>2. FinishSpendOf(p).kind = "finish"
      BY DEF FinishSpendOf, FinishSpend
    <3>3. coin' = coin /\ (UNCHANGED pool \/ Hold(op[p].vault, FinishSpendOf(p)))
      BY <2>2 DEF PushFinish, PushFinishRefused
    <3> QED
      BY <1>1, <1>3, <3>1, <3>2, <3>3
  <2> QED
    BY <1>9, <2>1, <2>2 DEF FinishStep
<1>10. ASSUME NEW p \in Procs,
              \/ \E d \in Dirs : BeginFinish(p, d)
              \/ Abandon(p) \/ DieInWrite(p)
       PROVE  FALSE
  BY <1>1, <1>10 DEF BeginFinish, Abandon, DieInWrite, chainVars
<1> QED
  BY <1>6, <1>7, <1>8, <1>9, <1>10 DEF Next

\* What is typed is what the start commits to.
LEMMA TypedStays ==
    ASSUME TypeInv, HeldInv, Next, NEW p \in Procs,
           op'[p].pc = "push", op'[p].req.recovery # AutoPhrase
    PROVE  op'[p].post.recovery = op'[p].req.recovery
<1> USE DEF TypeInv
<1>1. ASSUME op'[p] = op[p] PROVE op'[p].post.recovery = op'[p].req.recovery
  BY <1>1 DEF HeldInv
<1>2. ASSUME NEW q \in Procs, NEW stage, Become(q, stage), stage.pc # "push"
      PROVE  op'[p] = op[p]
  BY <1>2 DEF Become, TypeOK
<1>3. ASSUME UNCHANGED op PROVE op'[p] = op[p]
  BY <1>3
<1>4. CASE Chain(Tick) \/ \E w \in Vaults : ChainStep(w) \/ Lose(w)
  BY <1>1, <1>3, <1>4 DEF Chain, ChainStep, Lose, toolVars
<1>5. ASSUME NEW q \in Procs, BuildAndSave(q), op'[p] # op[p]
      PROVE  op'[p].post.recovery = op'[p].req.recovery
  <2>1. PICK recovery \in NewRecoveryKeys(op[q].req) :
            Become(q, [pc |-> "push", vault |-> op[q].vault, layout |-> op[q].layout,
                       req |-> op[q].req, seq |-> op[q].seq,
                       post |-> PostLayout(op[q].layout, op[q].req, recovery)])
    BY <1>5 DEF BuildAndSave
  <2>2. /\ op'[p].req = op[q].req
        /\ op'[p].post = PostLayout(op[q].layout, op[q].req, recovery)
    BY <1>5, <2>1 DEF Become, TypeOK
  <2>3. recovery = op[q].req.recovery
    BY <2>1, <2>2 DEF NewRecoveryKeys
  <2> QED
    BY <2>2, <2>3 DEF PostLayout
<1>6. ASSUME NEW q \in Procs, StartStep(q), ~BuildAndSave(q)
      PROVE  op'[p] = op[p]
  <2>1. CASE SaveConfig(q)
    <3>1. op[q] \in Preparing
      BY <2>1, StageTypes DEF SaveConfig
    <3>2. [op[q] EXCEPT !.pc = "resolve"].pc # "push"
      BY <3>1 DEF Preparing
    <3> QED
      BY <1>2, <2>1, <3>2 DEF SaveConfig
  <2>2. CASE PushStart(q) \/ PushStartRefused(q)
    <3>1. op[q] \in Pushing
      BY <2>2, StageTypes DEF PushStart, PushStartRefused
    <3>2. [op[q] EXCEPT !.pc = "report"].pc # "push" /\ Idle.pc # "push"
      BY <3>1 DEF Pushing, Idle
    <3> QED
      BY <1>2, <2>2, <3>2 DEF PushStart, PushStartRefused
  <2> QED
    BY <1>2, <1>6, <2>1, <2>2
       DEF StartStep, BeginStart, BeginStartFromFile, ResolveReady, WrongPhrase, Report, Idle
<1>7. ASSUME NEW q \in Procs, FinishStep(q)
      PROVE  op'[p] = op[p]
  <2>1. CASE FindReady(q)
    <3>1. op[q] \in Finding
      BY <2>1, StageTypes DEF FindReady
    <3>2. [op[q] EXCEPT !.pc = "findRecovery"].pc # "push" /\ Idle.pc # "push"
      BY <3>1 DEF Finding, Idle
    <3> QED
      BY <1>2, <2>1, <3>2 DEF FindReady
  <2> QED
    BY <1>2, <1>7, <2>1 DEF FinishStep, FindRecovery, PushFinish, PushFinishRefused, Idle
<1>8. ASSUME NEW q \in Procs,
             \/ \E d \in Dirs : BeginFinish(q, d)
             \/ Abandon(q) \/ DieInWrite(q)
      PROVE  op'[p] = op[p]
  BY <1>2, <1>8 DEF BeginFinish, Abandon, DieInWrite, Idle
<1> QED
  BY <1>1, <1>4, <1>5, <1>6, <1>7, <1>8 DEF Next

LEMMA ShownGrows ==
    ASSUME Next
    PROVE  shown \subseteq shown'
BY DEF Next, Chain, ChainStep, Lose, toolVars, StartStep, BeginStart, BeginStartFromFile,
       SaveConfig, ResolveReady, BuildAndSave, WrongPhrase, PushStart, PushStartRefused, Report,
       FinishStep, BeginFinish, FindReady, FindRecovery, PushFinish, PushFinishRefused,
       Abandon, DieInWrite

LEMMA NextHeld ==
    ASSUME FreshPhrases, TypeInv, HeldInv, [Next]_vars, [NoAnswerLost]_vars
    PROVE  HeldInv'
<1> USE DEF TypeInv
<1>1. CASE UNCHANGED vars
  BY <1>1 DEF vars, chainVars, toolVars, HeldInv, KeysStarted, IsRecovery, Held, GeneratedIn
<1>2. CASE Next /\ ~UNCHANGED vars
  <2>1. \A p \in Procs : (op'[p].pc = "push" /\ op'[p].req.recovery # AutoPhrase) =>
            op'[p].post.recovery = op'[p].req.recovery
    BY <1>2, TypedStays
  <2>2. ASSUME NEW v \in Vaults, NEW key, Held(v, key) PROVE Held(v, key)'
    <3>1. CASE key \in shown
      BY <1>2, <3>1, ShownGrows DEF Held
    <3>2. ASSUME NEW p \in Procs, op[p].pc = "report", op[p].vault = v,
                 key \in GeneratedIn(op[p])
          PROVE  Held(v, key)'
      <4>1. op'[p] = op[p] \/ Report(p)
        BY <1>2, <3>2 DEF NoAnswerLost
      <4> QED
        BY <3>2, <4>1 DEF Held, Report, GeneratedIn
    <3> QED
      BY <2>2, <3>1, <3>2 DEF Held
  <2>3. ASSUME NEW v \in Vaults, NEW key \in KeysStarted(v)', key \in GeneratedKeys
        PROVE  Held(v, key)'
    <3>1. CASE key \in KeysStarted(v)
      BY <2>2, <2>3, <3>1 DEF HeldInv
    <3>2. CASE key \notin KeysStarted(v)
      <4>1. PICK p \in Procs : PushStart(p) /\ op[p].vault = v /\ key = op[p].post.recovery
        BY <1>2, <2>3, <3>2, OnlyPushesStart
      <4>2. op[p].pc = "push" /\ op[p] \in Pushing
        BY <4>1, StageTypes DEF PushStart
      <4>3. op'[p].pc = "report"
        BY <1>2, <4>1 DEF NoAnswerLost
      <4>4. op'[p] = [op[p] EXCEPT !.pc = "report"]
        BY <4>1, <4>3 DEF PushStart, Become, TypeOK, Idle
      <4>5. op[p].req.recovery = AutoPhrase
        <5>1. op[p].req \in Requests
          BY <4>2 DEF Pushing
        <5> QED
          BY <2>3, <4>1, <4>2, <5>1 DEF HeldInv, FreshPhrases
      <4>6. op'[p].vault = v /\ op'[p].req = op[p].req /\ op'[p].post = op[p].post
        BY <4>1, <4>2, <4>4 DEF Pushing
      <4>7. key \in GeneratedIn(op'[p])
        BY <4>1, <4>5, <4>6 DEF GeneratedIn
      <4> QED
        BY <4>3, <4>6, <4>7 DEF Held, GeneratedIn
    <3> QED
      BY <3>1, <3>2
  <2> QED
    BY <2>1, <2>3 DEF HeldInv
<1> QED
  BY <1>1, <1>2

\* A generated recovery phrase is lost to its owner only by a lost answer or a
\* crash before the report: where neither happens, the phrase of every started
\* recovery has been shown, or is about to be, however many starts compete.
THEOREM GeneratedPhrasesShown ==
    ASSUME FreshPhrases
    PROVE  Spec /\ [][NoAnswerLost]_vars => []GeneratedPhraseWasShown
<1>1. Init => HeldInv
  BY DEF Init, ChainInit, HeldInv, KeysStarted, IsRecovery, Ready, Idle
<1>2. TypeInv /\ HeldInv /\ [Next]_vars /\ [NoAnswerLost]_vars => HeldInv'
  BY NextHeld
<1>3. HeldInv => GeneratedPhraseWasShown
  BY DEF HeldInv, GeneratedPhraseWasShown, KeysStarted, Held
<1> QED
  BY <1>1, <1>2, <1>3, TypeInvHolds, PTL DEF Spec

-----------------------------------------------------------------------------
(* Vaults of another amount than 1, for which find_recovery_coin has no    *)
(* query.                                                                  *)

\* The tool never has a finish of such a vault to push, nor a node one to
\* confirm.
OtherAmountsUnfinished ==
    \A v \in Vaults :
        Amount[v] # 1 =>
            /\ \A s \in pool[v] : s.kind # "finish"
            /\ \A p \in Procs : op[p].pc = "pushFinish" => op[p].vault # v

\* Only FindRecovery comes to a push, with a coin whose amount is 1.
LEMMA FoundOfUnit ==
    ASSUME TypeInv, Next, NEW p \in Procs, op'[p].pc = "pushFinish", op'[p] # op[p]
    PROVE  Amount[op'[p].vault] = 1
<1> USE DEF TypeInv
<1>1. ASSUME NEW q \in Procs, NEW stage, Become(q, stage)
      PROVE  p = q /\ op'[p] = stage
  BY <1>1 DEF Become, TypeOK
<1>2. ASSUME NEW q \in Procs, NEW stage, Become(q, stage), stage.pc # "pushFinish"
      PROVE  FALSE
  BY <1>1, <1>2
<1>3. ASSUME NEW q \in Procs, FindRecovery(q)
      PROVE  Amount[op'[p].vault] = 1
  <2> DEFINE stage == [pc |-> "pushFinish", vault |-> op[q].vault, layout |-> op[q].layout,
                       post |-> op[q].post, seq |-> coin[op[q].vault].seq]
  <2>1. \/ Become(q, Idle)
        \/ /\ Become(q, stage)
           /\ InRecovery(op[q].layout, op[q].post, 1)
                = InRecovery(op[q].layout, op[q].post, Amount[op[q].vault])
    BY <1>3 DEF FindRecovery
  <2>2. ~Become(q, Idle)
    BY <1>1 DEF Idle
  <2>3. op'[p] = stage
    BY <1>1, <2>1, <2>2
  <2>4. op'[p].vault = op[q].vault
    BY <2>3
  <2> QED
    BY <2>1, <2>2, <2>4 DEF InRecovery
<1>4. ASSUME NEW q \in Procs, StartStep(q) PROVE FALSE
  <2>1. CASE SaveConfig(q)
    <3>1. op[q] \in Preparing
      BY <2>1, StageTypes DEF SaveConfig
    <3>2. [op[q] EXCEPT !.pc = "resolve"].pc # "pushFinish"
      BY <3>1 DEF Preparing
    <3> QED
      BY <1>2, <2>1, <3>2 DEF SaveConfig
  <2>2. CASE PushStart(q) \/ PushStartRefused(q)
    <3>1. op[q] \in Pushing
      BY <2>2, StageTypes DEF PushStart, PushStartRefused
    <3>2. [op[q] EXCEPT !.pc = "report"].pc # "pushFinish" /\ Idle.pc # "pushFinish"
      BY <3>1 DEF Pushing, Idle
    <3> QED
      BY <1>2, <2>2, <3>2 DEF PushStart, PushStartRefused
  <2> QED
    BY <1>2, <1>4, <2>1, <2>2
       DEF StartStep, BeginStart, BeginStartFromFile, ResolveReady, BuildAndSave, WrongPhrase,
           Report, Idle
<1>5. ASSUME NEW q \in Procs, FinishStep(q), ~FindRecovery(q) PROVE FALSE
  <2>1. CASE FindReady(q)
    <3>1. op[q] \in Finding
      BY <2>1, StageTypes DEF FindReady
    <3>2. [op[q] EXCEPT !.pc = "findRecovery"].pc # "pushFinish" /\ Idle.pc # "pushFinish"
      BY <3>1 DEF Finding, Idle
    <3> QED
      BY <1>2, <2>1, <3>2 DEF FindReady
  <2> QED
    BY <1>2, <1>5, <2>1 DEF FinishStep, PushFinish, PushFinishRefused, Idle
<1>6. ASSUME NEW q \in Procs,
             \/ \E d \in Dirs : BeginFinish(q, d)
             \/ Abandon(q) \/ DieInWrite(q)
      PROVE  FALSE
  BY <1>2, <1>6 DEF BeginFinish, Abandon, DieInWrite, Idle
<1>7. CASE Chain(Tick) \/ \E w \in Vaults : ChainStep(w) \/ Lose(w)
  BY <1>7 DEF Chain, ChainStep, Lose, toolVars
<1> QED
  BY <1>3, <1>4, <1>5, <1>6, <1>7 DEF Next

\* A finish comes to the network from a process that pushes one.
LEMMA OnlyPushesFinish ==
    ASSUME TypeInv, Next, NEW v \in Vaults, NEW s \in pool'[v], s \notin pool[v],
           s.kind = "finish"
    PROVE  \E p \in Procs : op[p].pc = "pushFinish" /\ op[p].vault = v
<1> USE DEF TypeInv
<1>1. ~UNCHANGED pool
  OBVIOUS
<1>2. ASSUME NEW w \in Vaults, NEW puzzle, NewCoin(w, puzzle) PROVE FALSE
  BY <1>2 DEF NewCoin, TypeOK, ChainTypeOK
<1>3. ASSUME NEW w, NEW held, Hold(w, held) PROVE w = v /\ s = held
  BY <1>3 DEF Hold, TypeOK, ChainTypeOK
<1>4. ASSUME NEW p \in Procs, StartStep(p) PROVE FALSE
  <2>1. CASE PushStart(p)
    <3>1. StartSpendOf(p).kind = "start"
      BY DEF StartSpendOf, StartSpend
    <3> QED
      BY <1>3, <2>1, <3>1 DEF PushStart
  <2> QED
    BY <1>1, <1>4, <2>1
       DEF StartStep, BeginStart, BeginStartFromFile, SaveConfig, ResolveReady, BuildAndSave,
           WrongPhrase, PushStartRefused, Report, chainVars
<1>5. ASSUME NEW p \in Procs, FinishStep(p)
      PROVE  op[p].pc = "pushFinish" /\ op[p].vault = v
  BY <1>1, <1>3, <1>5
     DEF FinishStep, FindReady, FindRecovery, PushFinish, PushFinishRefused, chainVars
<1>6. ASSUME NEW p \in Procs,
             \/ \E d \in Dirs : BeginFinish(p, d)
             \/ Abandon(p) \/ DieInWrite(p)
      PROVE  FALSE
  BY <1>1, <1>6 DEF BeginFinish, Abandon, DieInWrite, chainVars
<1>7. ASSUME NEW w \in Vaults, Evict(w) PROVE FALSE
  BY <1>7 DEF Evict, TypeOK, ChainTypeOK
<1>8. CASE Chain(Tick) \/ \E w \in Vaults : ChainStep(w) \/ Lose(w)
  BY <1>1, <1>2, <1>7, <1>8
     DEF Chain, Tick, ChainStep, Lose, ConfirmStart, ConfirmFinish, CustodySpend, BecomesReady
<1> QED
  BY <1>4, <1>5, <1>6, <1>8 DEF Next

\* A vault of another amount can be started, as any other, but its recovery is
\* never finished with the tool: the query of find_recovery_coin is for the
\* hash of an output of amount 1, and no finish is ever built.  Only custody
\* ends such a recovery.
THEOREM OtherAmountsNeverFinish == Spec => []OtherAmountsUnfinished
<1>1. Init => OtherAmountsUnfinished
  BY DEF Init, ChainInit, OtherAmountsUnfinished, Idle
<1>2. TypeInv /\ OtherAmountsUnfinished /\ [Next]_vars => OtherAmountsUnfinished'
  <2> SUFFICES ASSUME TypeInv, OtherAmountsUnfinished, [Next]_vars,
                      NEW v \in Vaults, Amount[v] # 1
               PROVE  /\ \A s \in pool'[v] : s.kind # "finish"
                      /\ \A p \in Procs : op'[p].pc = "pushFinish" => op'[p].vault # v
    BY DEF OtherAmountsUnfinished
  <2>1. CASE UNCHANGED vars
    BY <2>1 DEF vars, chainVars, toolVars, OtherAmountsUnfinished
  <2>2. CASE Next
    BY <2>2, FoundOfUnit, OnlyPushesFinish DEF OtherAmountsUnfinished
  <2> QED
    BY <2>1, <2>2
<1> QED
  BY <1>1, <1>2, TypeInvHolds, PTL DEF Spec

-----------------------------------------------------------------------------
(* The files kept for a vault.                                             *)

\* What the user and the platform must keep to: see MayBegin.  Each vault
\* has a directory of its own.
Disciplined ==
    /\ Retry = "wait" \/ (Retry = "same" /\ AtomicWrites)
    /\ \A v, w \in Vaults : DirOf[v] = DirOf[w] => v = w

\* The two files of v are those of intent i, with the layout after.
Settled(v, i, after) ==
    /\ intent[v] = {i}
    /\ config[DirOf[v]] = {[vault |-> v, layout |-> i.layout]}
    /\ post[DirOf[v]] = {[vault |-> v, layout |-> after]}
    /\ i.req.recovery # AutoPhrase => after = PostLayout(i.layout, i.req, i.req.recovery)

IntentOf(p) == [layout |-> op[p].layout, req |-> op[p].req]

\* Every start that runs on v is of the last intent.
StartsFollowIntent(v) ==
    \A p \in Procs : Starting(p, v) => intent[v] = {IntentOf(p)}

StartsSavedConfig(v) ==
    \A p \in Procs :
        (Starting(p, v) /\ op[p].pc \in {"resolve", "build", "push"}) =>
            config[DirOf[v]] = {[vault |-> v, layout |-> op[p].layout]}

StartsSavedPost(v) ==
    \A p \in Procs :
        (Starting(p, v) /\ op[p].pc = "push") => Settled(v, IntentOf(p), op[p].post)

StartsKnowCoin(v) ==
    \A p \in Procs :
        (Starting(p, v) /\ op[p].pc \in {"build", "push"}) =>
            /\ op[p].seq <= coin[v].seq
            /\ op[p].seq = coin[v].seq => coin[v].puzzle = Ready(op[p].layout)

\* A start that cannot be repeated runs alone, on a vault nothing is
\* happening to.
Exclusive(v) == Retry = "wait" \/ \E i \in intent[v] : i.req.recovery = AutoPhrase

OnlyStart(v) ==
    Exclusive(v) =>
        /\ \A p, q \in Procs : Starting(p, v) /\ Starting(q, v) => p = q
        /\ \A p \in Procs :
            (Starting(p, v) /\ op[p].pc # "report") => pool[v] = {} /\ IsReady(v)

PoolSettled(v) ==
    \A s \in pool[v] :
        s.kind = "start" =>
            \E i \in intent[v] : Ready(i.layout) = coin[v].puzzle /\ Settled(v, i, s.post)

CoinSettled(v) ==
    IsRecovery(v) =>
        \E i \in intent[v] : \E after \in Layout :
            /\ coin[v].puzzle = InRecovery(i.layout, after, Amount[v])
            /\ Settled(v, i, after)

VaultInv(v) ==
    /\ StartsFollowIntent(v)
    /\ StartsSavedConfig(v)
    /\ StartsSavedPost(v)
    /\ StartsKnowCoin(v)
    /\ OnlyStart(v)
    /\ PoolSettled(v)
    /\ CoinSettled(v)

FilesInPlace ==
    \A d \in Dirs : \A file \in config[d] : DirOf[file.vault] = d /\ config[d] = {file}

FilesInv == TypeInv /\ FilesInPlace /\ \A v \in Vaults : VaultInv(v)

-----------------------------------------------------------------------------
(* What a step leaves alone.                                               *)

\* Nothing happens to v but that processes leave it.
Untouched(v) ==
    /\ \A p \in Procs : Starting(p, v)' => Starting(p, v) /\ op'[p] = op[p]
    /\ coin'[v] = coin[v]
    /\ pool'[v] = pool[v]
    /\ intent'[v] = intent[v]
    /\ config'[DirOf[v]] = config[DirOf[v]]
    /\ post'[DirOf[v]] = post[DirOf[v]]

LEMMA UntouchedKeeps ==
    ASSUME NEW v \in Vaults, VaultInv(v), Untouched(v)
    PROVE  VaultInv(v)'
<1> USE DEF VaultInv, Untouched
<1>0. \A i, after : Settled(v, i, after) => Settled(v, i, after)'
  BY DEF Settled, PostLayout
<1>1. StartsFollowIntent(v)'
  BY DEF StartsFollowIntent, IntentOf
<1>2. StartsSavedConfig(v)'
  BY DEF StartsSavedConfig
<1>3. StartsSavedPost(v)'
  <2> SUFFICES ASSUME NEW p \in Procs, Starting(p, v)', op'[p].pc = "push"
               PROVE  Settled(v, IntentOf(p), op[p].post)'
    BY DEF StartsSavedPost
  <2>1. Settled(v, IntentOf(p), op[p].post)
    BY DEF StartsSavedPost
  <2> QED
    BY <2>1 DEF Settled, IntentOf, PostLayout
<1>4. StartsKnowCoin(v)'
  BY DEF StartsKnowCoin, Ready
<1>5. OnlyStart(v)'
  BY DEF OnlyStart, Exclusive, IsReady
<1>6. PoolSettled(v)'
  BY <1>0 DEF PoolSettled, Ready
<1>7. CoinSettled(v)'
  BY <1>0 DEF CoinSettled, IsRecovery, InRecovery
<1> QED
  BY <1>1, <1>2, <1>3, <1>4, <1>5, <1>6, <1>7

LEMMA InitFiles == Init => FilesInv
<1> SUFFICES ASSUME Init PROVE FilesInv
  OBVIOUS
<1>1. TypeInv
  BY InitType
<1>2. FilesInPlace
  BY DEF Init, FilesInPlace
<1>3. ASSUME NEW v \in Vaults PROVE VaultInv(v)
  <2>1. \A p \in Procs : ~Starting(p, v)
    BY DEF Init, Starting, StartPcs, Idle
  <2>2. pool[v] = {} /\ ~IsRecovery(v)
    BY DEF Init, ChainInit, IsRecovery, Ready
  <2> QED
    BY <2>1, <2>2 DEF VaultInv, StartsFollowIntent, StartsSavedConfig, StartsSavedPost,
                      StartsKnowCoin, OnlyStart, PoolSettled, CoinSettled
<1> QED
  BY <1>1, <1>2, <1>3 DEF FilesInv

\* Which vault a start is on, and where.
LEMMA StartPlace ==
    ASSUME TypeInv, NEW p \in Procs, op[p].pc \in StartPcs
    PROVE  /\ op[p].vault \in Vaults
           /\ Starting(p, op[p].vault)
           /\ DirOf[op[p].vault] \in Dirs
           /\ op[p].layout \in Layout
           /\ op[p].req \in Requests
BY StageTypes, WorkflowAssumption
   DEF TypeInv, Starting, StartPcs, Preparing, Building, Pushing

\* When p runs no start after a step, the vaults whose coin and files stay
\* are untouched.
LEMMA QuietStep ==
    ASSUME TypeInv, NEW p \in Procs, NEW stage, Become(p, stage), stage.pc \notin StartPcs,
           NEW v \in Vaults, coin'[v] = coin[v], pool'[v] = pool[v],
           UNCHANGED <<config, post, intent>>
    PROVE  Untouched(v)
BY DEF Untouched, TypeInv, TypeOK, Become, Starting

\* Steps of p on one vault do not touch the others.
LEMMA OthersUntouched ==
    ASSUME TypeInv, NEW p \in Procs, NEW v \in Vaults, NEW w \in Vaults, w # v,
           Disciplined, NEW stage, Become(p, stage),
           stage = Idle \/ stage.vault = v,
           coin'[w] = coin[w], pool'[w] = pool[w], intent'[w] = intent[w],
           \A d \in Dirs : d # DirOf[v] => config'[d] = config[d] /\ post'[d] = post[d]
    PROVE  Untouched(w)
<1>1. DirOf[w] # DirOf[v] /\ DirOf[w] \in Dirs
  BY WorkflowAssumption DEF Disciplined
<1> QED
  BY <1>1 DEF Untouched, TypeInv, TypeOK, Become, Starting, StartPcs, Idle

Files == FilesInPlace /\ \A v \in Vaults : VaultInv(v)

LEMMA QuietFiles ==
    ASSUME Files, UNCHANGED config, \A v \in Vaults : Untouched(v)
    PROVE  Files'
BY UntouchedKeeps DEF Files, FilesInPlace

\* The step of p on v alone.
LEMMA OneVault ==
    ASSUME TypeInv, Files, Disciplined,
           NEW p \in Procs, NEW v \in Vaults, NEW stage, Become(p, stage),
           stage = Idle \/ stage.vault = v,
           \A w \in Vaults \ {v} : coin'[w] = coin[w] /\ pool'[w] = pool[w]
                                                      /\ intent'[w] = intent[w],
           \A d \in Dirs : d # DirOf[v] => config'[d] = config[d] /\ post'[d] = post[d],
           \A file \in config'[DirOf[v]] : file.vault = v /\ config'[DirOf[v]] = {file},
           VaultInv(v)'
    PROVE  Files'
<1>1. \A w \in Vaults \ {v} : Untouched(w)
  BY OthersUntouched
<1>2. \A w \in Vaults : VaultInv(w)'
  BY <1>1, UntouchedKeeps DEF Files
<1>3. FilesInPlace'
  BY DEF Files, FilesInPlace
<1> QED
  BY <1>2, <1>3 DEF Files

\* A step of p that keeps the files, the chain and the intents.
LEMMA FrameSettled ==
    ASSUME NEW v \in Vaults, intent'[v] = intent[v],
           config'[DirOf[v]] = config[DirOf[v]], post'[DirOf[v]] = post[DirOf[v]],
           NEW i, NEW after
    PROVE  Settled(v, i, after) <=> Settled(v, i, after)'
BY DEF Settled, PostLayout

LEMMA ReadyOrRecovery == TypeInv => \A v \in Vaults : IsReady(v) <=> ~IsRecovery(v)
BY DEF TypeInv, TypeOK, ChainTypeOK, Puzzle, IsReady, IsRecovery

-----------------------------------------------------------------------------
(* Each step of a start keeps the files of its vault.                      *)

\* The user begins a start.
LEMMA BeginFiles ==
    ASSUME TypeInv, TypeInv', Files, Disciplined, NEW p \in Procs, NEW v \in Vaults,
           NEW layout, NEW req, NEW pc \in {"save", "resolve"},
           op[p] = Idle, Asks(v, layout, req),
           Become(p, [pc |-> pc, vault |-> v, layout |-> layout, req |-> req]),
           pc = "resolve" => config[DirOf[v]] = {[vault |-> v, layout |-> layout]},
           UNCHANGED <<chainVars, config, post>>
    PROVE  Files'
<1> DEFINE i == [layout |-> layout, req |-> req]
           stage == [pc |-> pc, vault |-> v, layout |-> layout, req |-> req]
<1>0. op'[p] = stage /\ \A q \in Procs \ {p} : op'[q] = op[q]
  BY DEF TypeInv, TypeOK, Become
<1>1. intent'[v] = {i} /\ \A w \in Vaults \ {v} : intent'[w] = intent[w]
  BY DEF TypeInv, TypeOK, Asks
<1>2. Starting(p, v)' /\ ~Starting(p, v) /\ IntentOf(p)' = i
  BY <1>0 DEF Starting, StartPcs, IntentOf, Idle
<1>3. VaultInv(v)
  BY DEF Files
<1>4. ASSUME ~Undecided(v) PROVE VaultInv(v)'
  <2>1. \A q \in Procs : Starting(q, v)' => q = p
    BY <1>0, <1>4 DEF Undecided, Starting
  <2>2. pool'[v] = {} /\ ~IsRecovery(v)' /\ IsReady(v)'
    BY <1>4, ReadyOrRecovery DEF Undecided, IsRecovery, IsReady, chainVars
  <2>3. StartsFollowIntent(v)' /\ StartsSavedConfig(v)'
    BY <1>0, <1>1, <1>2, <2>1 DEF StartsFollowIntent, StartsSavedConfig
  <2>4. StartsSavedPost(v)' /\ StartsKnowCoin(v)' /\ OnlyStart(v)'
    BY <1>0, <2>1, <2>2 DEF StartsSavedPost, StartsKnowCoin, OnlyStart
  <2> QED
    BY <2>2, <2>3, <2>4 DEF VaultInv, PoolSettled, CoinSettled
<1>5. ASSUME Undecided(v) PROVE VaultInv(v)'
  <2>1. Retry = "same" /\ req.recovery # AutoPhrase /\ intent[v] = {i}
    BY <1>5 DEF Asks, MayBegin, Disciplined
  <2>2. intent'[v] = intent[v]
    BY <1>1, <2>1
  <2>3. \A j, after : Settled(v, j, after) => Settled(v, j, after)'
    BY <2>2, FrameSettled
  <2>4. ~Exclusive(v)'
    BY <2>1, <2>2 DEF Exclusive
  <2>5. StartsFollowIntent(v)'
    BY <1>0, <1>1, <1>2, <1>3, <2>2 DEF VaultInv, StartsFollowIntent, Starting, IntentOf
  <2>6. StartsSavedConfig(v)'
    BY <1>0, <1>3 DEF VaultInv, StartsSavedConfig, Starting
  <2>7. StartsSavedPost(v)'
    <3> SUFFICES ASSUME NEW q \in Procs, Starting(q, v)', op'[q].pc = "push"
                 PROVE  Settled(v, IntentOf(q), op[q].post)'
      BY DEF StartsSavedPost
    <3>1. op'[q] = op[q]
      BY <1>0
    <3>2. Settled(v, IntentOf(q), op[q].post)
      BY <1>3, <3>1 DEF VaultInv, StartsSavedPost, Starting
    <3> QED
      BY <2>2, <3>1, <3>2 DEF Settled, IntentOf, PostLayout
  <2>8. StartsKnowCoin(v)'
    BY <1>0, <1>3 DEF VaultInv, StartsKnowCoin, Starting, Ready, chainVars
  <2>9. PoolSettled(v)' /\ CoinSettled(v)'
    BY <1>3, <2>2, <2>3 DEF VaultInv, PoolSettled, CoinSettled, chainVars, Ready,
                            InRecovery, IsRecovery
  <2> QED
    BY <2>4, <2>5, <2>6, <2>7, <2>8, <2>9 DEF VaultInv, OnlyStart
<1>6. \A file \in config'[DirOf[v]] : file.vault = v /\ config'[DirOf[v]] = {file}
  <2>1. DirOf[v] \in Dirs
    BY WorkflowAssumption
  <2>2. \A file \in config[DirOf[v]] : file.vault \in Vaults
    BY <2>1 DEF TypeInv, TypeOK, File
  <2> QED
    BY <2>1, <2>2 DEF Files, FilesInPlace, Disciplined
<1> QED
  BY <1>1, <1>4, <1>5, <1>6, OneVault DEF chainVars

\* What is known of a start p that goes on, on its vault v, to pc next: it
\* keeps its layout and its request, and nobody else moves.
GoesOn(p, v, next) ==
    /\ Starting(p, v)
    /\ op'[p].pc = next
    /\ next \in StartPcs
    /\ op'[p].vault = v
    /\ op'[p].layout = op[p].layout
    /\ op'[p].req = op[p].req
    /\ \A q \in Procs \ {p} : op'[q] = op[q]

LEMMA GoesOnFollows ==
    ASSUME NEW p \in Procs, NEW v \in Vaults, NEW next, GoesOn(p, v, next),
           VaultInv(v), intent'[v] = intent[v]
    PROVE  /\ intent[v] = {IntentOf(p)}
           /\ \A q \in Procs : Starting(q, v)' <=> Starting(q, v)
           /\ \A q \in Procs : Starting(q, v) =>
                                    IntentOf(q) = IntentOf(p) /\ IntentOf(q)' = IntentOf(q)
           /\ StartsFollowIntent(v)'
           /\ Exclusive(v)' = Exclusive(v)
<1>1. intent[v] = {IntentOf(p)}
  BY DEF GoesOn, VaultInv, StartsFollowIntent
<1>2. \A q \in Procs : Starting(q, v)' <=> Starting(q, v)
  BY DEF GoesOn, Starting
<1>3. \A q \in Procs : Starting(q, v) =>
                            IntentOf(q) = IntentOf(p) /\ IntentOf(q)' = IntentOf(q)
  BY <1>1 DEF GoesOn, VaultInv, StartsFollowIntent, IntentOf
<1>4. StartsFollowIntent(v)'
  BY <1>1, <1>2, <1>3 DEF StartsFollowIntent
<1> QED
  BY <1>1, <1>2, <1>3, <1>4 DEF Exclusive

LEMMA SaveConfigFiles ==
    ASSUME TypeInv, Files, Disciplined, NEW p \in Procs, SaveConfig(p),
           NEW v, v = op[p].vault
    PROVE  Files'
<1> DEFINE stage == [op[p] EXCEPT !.pc = "resolve"]
<1>0. op[p] \in Preparing /\ Starting(p, v) /\ v \in Vaults /\ DirOf[v] \in Dirs
  BY StageTypes, StartPlace DEF SaveConfig, StartPcs, TypeInv
<1>1. UNCHANGED <<coin, pool, intent, post>> /\ Become(p, stage)
  BY DEF SaveConfig, chainVars, userVars
<1>2. config' = [config EXCEPT ![DirOf[v]] = {[vault |-> v, layout |-> op[p].layout]}]
  BY DEF SaveConfig
<1>3. config'[DirOf[v]] = {[vault |-> v, layout |-> op[p].layout]}
  BY <1>0, <1>2 DEF TypeInv, TypeOK
<1>4. GoesOn(p, v, "resolve")
  BY <1>0, <1>1 DEF GoesOn, StartPcs, Preparing, TypeInv, TypeOK, Become
<1>5. VaultInv(v)
  BY <1>0 DEF Files
<1>6. VaultInv(v)'
  <2>1. intent[v] = {IntentOf(p)} /\ StartsFollowIntent(v)'
    BY <1>0, <1>1, <1>4, <1>5, GoesOnFollows
  <2>2. \A q \in Procs : Starting(q, v)' => Starting(q, v) /\ IntentOf(q) = IntentOf(p)
                                             /\ IntentOf(q)' = IntentOf(p)
    BY <1>0, <1>1, <1>4, <1>5, GoesOnFollows
  <2>3. \A i, after : Settled(v, i, after) => Settled(v, i, after)'
    BY <1>1, <1>3, <2>1 DEF Settled, IntentOf, PostLayout
  <2>4. StartsSavedConfig(v)'
    BY <1>3, <2>2 DEF StartsSavedConfig, IntentOf
  <2>5. StartsSavedPost(v)'
    <3> SUFFICES ASSUME NEW q \in Procs, Starting(q, v)', op'[q].pc = "push"
                 PROVE  Settled(v, IntentOf(q), op[q].post)'
      BY DEF StartsSavedPost
    <3>1. op'[q] = op[q]
      BY <1>4 DEF GoesOn
    <3>2. Settled(v, IntentOf(q), op[q].post)
      BY <1>5, <2>2, <3>1 DEF VaultInv, StartsSavedPost
    <3>3. Settled(v, IntentOf(p), op[q].post)
      BY <2>2, <3>2
    <3> QED
      BY <1>1, <1>3, <2>2, <3>1, <3>3 DEF Settled, IntentOf, PostLayout
  <2>6. StartsKnowCoin(v)'
    BY <1>1, <1>4, <1>5, <2>2 DEF GoesOn, VaultInv, StartsKnowCoin, Ready
  <2>7. OnlyStart(v)'
    BY <1>0, <1>1, <1>4, <1>5, <2>2
       DEF GoesOn, VaultInv, OnlyStart, Exclusive, IsReady, SaveConfig
  <2>8. PoolSettled(v)' /\ CoinSettled(v)'
    BY <1>1, <1>5, <2>3
       DEF VaultInv, PoolSettled, CoinSettled, Ready, InRecovery, IsRecovery
  <2> QED
    BY <2>1, <2>4, <2>5, <2>6, <2>7, <2>8 DEF VaultInv
<1>7. \A d \in Dirs : d # DirOf[v] => config'[d] = config[d] /\ post'[d] = post[d]
  BY <1>1, <1>2 DEF TypeInv, TypeOK
<1>8. stage.vault = v
  BY <1>0 DEF Preparing
<1>9. \A file \in config'[DirOf[v]] : file.vault = v /\ config'[DirOf[v]] = {file}
  BY <1>3
<1> QED
  BY <1>0, <1>1, <1>6, <1>7, <1>8, <1>9, OneVault

LEMMA ResolveFiles ==
    ASSUME TypeInv, Files, Disciplined, NEW p \in Procs, ResolveReady(p),
           NEW v, v = op[p].vault
    PROVE  Files'
<1> DEFINE stage == [pc |-> "build", vault |-> v, layout |-> op[p].layout,
                     req |-> op[p].req, seq |-> coin[v].seq]
<1>0. Starting(p, v) /\ v \in Vaults /\ DirOf[v] \in Dirs
  BY StartPlace DEF ResolveReady, StartPcs
<1>1. UNCHANGED <<coin, pool, intent, config, post>>
  BY DEF ResolveReady, chainVars, userVars
<1>2. CASE coin[v].puzzle # Ready(op[p].layout)
  <2>1. Become(p, Idle)
    BY <1>2 DEF ResolveReady
  <2> QED
    BY <1>1, <2>1, QuietStep, QuietFiles DEF Idle, StartPcs
<1>3. CASE coin[v].puzzle = Ready(op[p].layout)
  <2>1. Become(p, stage)
    BY <1>3 DEF ResolveReady
  <2>2. GoesOn(p, v, "build") /\ op'[p] = stage
    BY <1>0, <2>1 DEF GoesOn, StartPcs, TypeInv, TypeOK, Become
  <2>3. VaultInv(v)
    BY <1>0 DEF Files
  <2>4. StartsFollowIntent(v)' /\ \A q \in Procs : Starting(q, v)' => Starting(q, v)
    BY <1>0, <1>1, <2>2, <2>3, GoesOnFollows
  <2>5. \A i, after : Settled(v, i, after) => Settled(v, i, after)'
    BY <1>0, <1>1, FrameSettled
  <2>6. StartsSavedConfig(v)'
    BY <1>0, <1>1, <2>2, <2>3, <2>4
       DEF GoesOn, VaultInv, StartsSavedConfig, ResolveReady
  <2>7. StartsSavedPost(v)'
    <3> SUFFICES ASSUME NEW q \in Procs, Starting(q, v)', op'[q].pc = "push"
                 PROVE  Settled(v, IntentOf(q), op[q].post)'
      BY DEF StartsSavedPost
    <3>1. op'[q] = op[q]
      BY <2>2 DEF GoesOn
    <3>2. Settled(v, IntentOf(q), op[q].post)
      BY <2>3, <2>4, <3>1 DEF VaultInv, StartsSavedPost
    <3> QED
      BY <1>1, <3>1, <3>2 DEF Settled, IntentOf, PostLayout
  <2>8. StartsKnowCoin(v)'
    <3>1. coin[v].seq \in Nat
      BY <1>0 DEF TypeInv, TypeOK, ChainTypeOK
    <3> QED
      BY <1>1, <1>3, <2>2, <2>3, <2>4, <3>1 DEF GoesOn, VaultInv, StartsKnowCoin, Ready
  <2>9. OnlyStart(v)'
    BY <1>0, <1>1, <2>2, <2>3, <2>4
       DEF GoesOn, VaultInv, OnlyStart, Exclusive, IsReady, ResolveReady
  <2>10. PoolSettled(v)' /\ CoinSettled(v)'
    BY <1>1, <2>3, <2>5
       DEF VaultInv, PoolSettled, CoinSettled, Ready, InRecovery, IsRecovery
  <2>11. VaultInv(v)'
    BY <2>4, <2>6, <2>7, <2>8, <2>9, <2>10 DEF VaultInv
  <2>12. config[DirOf[v]] = {[vault |-> v, layout |-> op[p].layout]}
    BY <1>0, <2>3 DEF VaultInv, StartsSavedConfig, ResolveReady
  <2> QED
    BY <1>0, <1>1, <2>1, <2>11, <2>12, OneVault
<1> QED
  BY <1>2, <1>3

LEMMA BuildFiles ==
    ASSUME TypeInv, Files, Disciplined, NEW p \in Procs, BuildAndSave(p),
           NEW v, v = op[p].vault
    PROVE  Files'
<1>0. op[p] \in Building /\ Starting(p, v) /\ v \in Vaults /\ DirOf[v] \in Dirs
  BY StageTypes, StartPlace DEF BuildAndSave, StartPcs, TypeInv
<1>1. UNCHANGED <<coin, pool, intent, config>>
  BY DEF BuildAndSave, chainVars, userVars
<1>2. PICK key \in NewRecoveryKeys(op[p].req) :
          /\ post' = [post EXCEPT ![DirOf[v]] =
                {[vault |-> v, layout |-> PostLayout(op[p].layout, op[p].req, key)]}]
          /\ Become(p, [pc |-> "push", vault |-> v, layout |-> op[p].layout,
                        req |-> op[p].req, seq |-> op[p].seq,
                        post |-> PostLayout(op[p].layout, op[p].req, key)])
  BY DEF BuildAndSave
<1>3. PICK next : next = PostLayout(op[p].layout, op[p].req, key)
  OBVIOUS
<1> DEFINE stage == [pc |-> "push", vault |-> v, layout |-> op[p].layout,
                     req |-> op[p].req, seq |-> op[p].seq, post |-> next]
<1>4. Become(p, stage) /\ op'[p] = stage
  BY <1>2, <1>3 DEF TypeInv, TypeOK, Become
<1>5. post'[DirOf[v]] = {[vault |-> v, layout |-> next]}
  BY <1>0, <1>2, <1>3 DEF TypeInv, TypeOK
<1>6. GoesOn(p, v, "push")
  BY <1>0, <1>4 DEF GoesOn, StartPcs, TypeInv, TypeOK, Become
<1>7. VaultInv(v)
  BY <1>0 DEF Files
<1>8. intent[v] = {IntentOf(p)} /\ StartsFollowIntent(v)' /\ Exclusive(v)' = Exclusive(v)
  BY <1>0, <1>1, <1>6, <1>7, GoesOnFollows
<1>9. \A q \in Procs : Starting(q, v)' => Starting(q, v) /\ IntentOf(q) = IntentOf(p)
                                           /\ IntentOf(q)' = IntentOf(p)
  BY <1>0, <1>1, <1>6, <1>7, GoesOnFollows
<1>10. op[p].req.recovery # AutoPhrase =>
           next = PostLayout(op[p].layout, op[p].req, op[p].req.recovery)
  BY <1>2, <1>3 DEF NewRecoveryKeys
<1>11. StartsSavedConfig(v)' /\ StartsKnowCoin(v)' /\ OnlyStart(v)'
  BY <1>0, <1>1, <1>4, <1>6, <1>7, <1>8, <1>9
     DEF GoesOn, VaultInv, StartsSavedConfig, StartsKnowCoin, OnlyStart, IsReady, Ready,
         BuildAndSave
<1>12. config[DirOf[v]] = {[vault |-> v, layout |-> op[p].layout]}
  BY <1>0, <1>7 DEF VaultInv, StartsSavedConfig, BuildAndSave
<1>13. ASSUME NEW i, i = IntentOf(p) PROVE Settled(v, i, next)'
  <2>1. i.layout = op[p].layout /\ i.req = op[p].req
    BY <1>13 DEF IntentOf
  <2> QED
    BY <1>1, <1>5, <1>8, <1>10, <1>12, <1>13, <2>1 DEF Settled, PostLayout
<1>14. ASSUME ~Exclusive(v), NEW i, NEW after, Settled(v, i, after)
       PROVE  after = next /\ i = IntentOf(p)
  <2>1. i = IntentOf(p)
    BY <1>8, <1>14 DEF Settled
  <2>2. op[p].req.recovery # AutoPhrase
    BY <1>8, <1>14 DEF Exclusive, IntentOf
  <2> QED
    BY <1>10, <1>14, <2>1, <2>2 DEF Settled, IntentOf
<1>15. Exclusive(v) => pool[v] = {} /\ ~IsRecovery(v) /\ \A q \in Procs : Starting(q, v) => q = p
  BY <1>0, <1>7, ReadyOrRecovery DEF VaultInv, OnlyStart, BuildAndSave
<1>16. StartsSavedPost(v)'
  <2> SUFFICES ASSUME NEW q \in Procs, Starting(q, v)', op'[q].pc = "push"
               PROVE  Settled(v, IntentOf(q), op[q].post)'
    BY DEF StartsSavedPost
  <2>1. PICK i : i = IntentOf(p)
    OBVIOUS
  <2>2. Settled(v, i, next)'
    BY <1>13, <2>1
  <2>3. op'[q].post = next
    <3>1. CASE q = p
      BY <1>4, <3>1
    <3>2. CASE q # p
      <4>1. op'[q] = op[q] /\ ~Exclusive(v)
        BY <1>6, <1>9, <1>15, <3>2 DEF GoesOn
      <4>2. Settled(v, IntentOf(q), op[q].post)
        BY <1>7, <1>9, <4>1 DEF VaultInv, StartsSavedPost
      <4> QED
        BY <1>14, <4>1, <4>2
    <3> QED
      BY <3>1, <3>2
  <2>4. IntentOf(q)' = i
    BY <1>9, <2>1
  <2> QED
    BY <2>2, <2>3, <2>4
<1>17. PoolSettled(v)'
  <2> SUFFICES ASSUME NEW s \in pool[v], s.kind = "start"
               PROVE  \E i \in intent[v] : Ready(i.layout) = coin[v].puzzle
                                           /\ Settled(v, i, s.post)'
    BY <1>1 DEF PoolSettled, Ready
  <2>1. PICK i \in intent[v] : Ready(i.layout) = coin[v].puzzle /\ Settled(v, i, s.post)
    BY <1>7 DEF VaultInv, PoolSettled
  <2> QED
    BY <1>13, <1>14, <1>15, <2>1
<1>18. CoinSettled(v)'
  <2> SUFFICES ASSUME IsRecovery(v)
               PROVE  \E i \in intent[v] : \E after \in Layout :
                         /\ coin[v].puzzle = InRecovery(i.layout, after, Amount[v])
                         /\ Settled(v, i, after)'
    BY <1>1 DEF CoinSettled, InRecovery, IsRecovery
  <2>1. PICK i \in intent[v], after \in Layout :
            /\ coin[v].puzzle = InRecovery(i.layout, after, Amount[v])
            /\ Settled(v, i, after)
    BY <1>7 DEF VaultInv, CoinSettled
  <2> QED
    BY <1>13, <1>14, <1>15, <2>1
<1>19. VaultInv(v)'
  BY <1>8, <1>11, <1>16, <1>17, <1>18 DEF VaultInv
<1>20. \A d \in Dirs : d # DirOf[v] => config'[d] = config[d] /\ post'[d] = post[d]
  BY <1>1, <1>2 DEF TypeInv, TypeOK
<1> QED
  BY <1>0, <1>1, <1>4, <1>12, <1>19, <1>20, OneVault

LEMMA PushFiles ==
    ASSUME TypeInv, Files, Disciplined, NEW p \in Procs, PushStart(p),
           NEW v, v = op[p].vault
    PROVE  Files'
<1>0. op[p] \in Pushing /\ Starting(p, v) /\ v \in Vaults /\ DirOf[v] \in Dirs
  BY StageTypes, StartPlace DEF PushStart, StartPcs, TypeInv
<1>1. UNCHANGED <<coin, intent, config, post>>
  BY DEF PushStart, userVars
<1>2. PICK stage \in {Idle, [op[p] EXCEPT !.pc = "report"]} : Become(p, stage)
  BY DEF PushStart
<1>3. op'[p] = stage /\ \A q \in Procs \ {p} : op'[q] = op[q]
  BY <1>2 DEF TypeInv, TypeOK, Become
<1>4. op'[p].pc \in {"idle", "report"}
  BY <1>0, <1>2, <1>3 DEF Idle, Pushing
<1>5. Starting(p, v)' => op'[p].layout = op[p].layout /\ op'[p].req = op[p].req
  BY <1>0, <1>2, <1>3 DEF Starting, StartPcs, Idle, Pushing
<1>6. VaultInv(v)
  BY <1>0 DEF Files
<1>7. \A q \in Procs : Starting(q, v)' => Starting(q, v)
  BY <1>0, <1>3 DEF Starting
<1>8. \A i, after : Settled(v, i, after) => Settled(v, i, after)'
  BY <1>0, <1>1, FrameSettled
<1>9. pool' = [pool EXCEPT ![v] = {StartSpendOf(p)}]
  BY DEF PushStart, Hold
<1>10. pool'[v] = {StartSpendOf(p)}
  BY <1>0, <1>9 DEF TypeInv, TypeOK, ChainTypeOK
<1>11. StartsFollowIntent(v)'
  BY <1>1, <1>3, <1>5, <1>6, <1>7 DEF VaultInv, StartsFollowIntent, IntentOf
<1>12. StartsSavedConfig(v)' /\ StartsKnowCoin(v)'
  BY <1>1, <1>3, <1>4, <1>6, <1>7
     DEF VaultInv, StartsSavedConfig, StartsKnowCoin, Ready
<1>13. StartsSavedPost(v)'
  <2> SUFFICES ASSUME NEW q \in Procs, Starting(q, v)', op'[q].pc = "push"
               PROVE  Settled(v, IntentOf(q), op[q].post)'
    BY DEF StartsSavedPost
  <2>1. op'[q] = op[q]
    BY <1>3, <1>4
  <2>2. Settled(v, IntentOf(q), op[q].post)
    BY <1>6, <1>7, <2>1 DEF VaultInv, StartsSavedPost
  <2> QED
    BY <1>1, <2>1, <2>2 DEF Settled, IntentOf, PostLayout
<1>14. OnlyStart(v)'
  <2>1. \A q \in Procs : Starting(q, v)' /\ op'[q].pc # "report" => q # p
    BY <1>4 DEF Starting, StartPcs
  <2> QED
    BY <1>0, <1>1, <1>3, <1>6, <1>7, <2>1 DEF VaultInv, OnlyStart, Exclusive, PushStart
<1>15. PoolSettled(v)'
  <2>1. Settled(v, IntentOf(p), op[p].post)
    BY <1>0, <1>6 DEF VaultInv, StartsSavedPost, PushStart
  <2>2. op[p].seq = coin[v].seq
    BY DEF PushStart, Accepts, Runs, StartSpendOf, StartSpend
  <2>3. coin[v].puzzle = Ready(op[p].layout)
    BY <1>0, <1>6, <2>2 DEF VaultInv, StartsKnowCoin, PushStart
  <2>4. PICK i, after : i = IntentOf(p) /\ after = op[p].post
    OBVIOUS
  <2>5. Settled(v, i, after)' /\ i \in intent'[v] /\ Ready(i.layout) = coin'[v].puzzle
    <3>1. Settled(v, i, after)
      BY <2>1, <2>4
    <3>2. i.layout = op[p].layout
      BY <2>4 DEF IntentOf
    <3> QED
      BY <1>1, <1>8, <2>3, <3>1, <3>2 DEF Settled
  <2>6. \A s \in pool'[v] : s.post = after
    BY <1>10, <2>4 DEF StartSpendOf, StartSpend
  <2> QED
    BY <2>5, <2>6 DEF PoolSettled, Ready
<1>16. CoinSettled(v)'
  BY <1>1, <1>6, <1>8 DEF VaultInv, CoinSettled, InRecovery, IsRecovery
<1>17. VaultInv(v)'
  BY <1>11, <1>12, <1>13, <1>14, <1>15, <1>16 DEF VaultInv
<1>18. \A file \in config'[DirOf[v]] : file.vault = v /\ config'[DirOf[v]] = {file}
  <2>1. \A file \in config[DirOf[v]] : file.vault \in Vaults
    BY <1>0 DEF TypeInv, TypeOK, File
  <2> QED
    BY <1>0, <1>1, <2>1 DEF Files, FilesInPlace, Disciplined
<1>19. stage = Idle \/ stage.vault = v
  BY <1>0, <1>2 DEF Pushing
<1>20. \A w \in Vaults \ {v} : pool'[w] = pool[w]
  BY <1>9 DEF TypeInv, TypeOK, ChainTypeOK
<1> QED
  BY <1>0, <1>1, <1>2, <1>17, <1>18, <1>19, <1>20, OneVault

-----------------------------------------------------------------------------
(* The other steps.                                                        *)

\* A finish never enters the pool of a vault that a start could still leave.
LEMMA FinishHeldFiles ==
    ASSUME TypeInv, Files, Disciplined, NEW p \in Procs, PushFinish(p) \/ PushFinishRefused(p)
    PROVE  Files'
<1>0. PICK v : v = op[p].vault
  OBVIOUS
<1>1. v \in Vaults
  BY <1>0, StageTypes DEF TypeInv, PushFinish, PushFinishRefused, Closing
<1>2. UNCHANGED <<coin, intent, config, post>> /\ Become(p, Idle)
  BY DEF PushFinish, PushFinishRefused, userVars
<1>3. CASE UNCHANGED pool
  BY <1>2, <1>3, QuietStep, QuietFiles DEF Idle, StartPcs
<1>4. CASE Hold(v, FinishSpendOf(p)) /\ Runs(v, FinishSpendOf(p))
  <2>1. pool'[v] = {FinishSpendOf(p)} /\ \A w \in Vaults \ {v} : pool'[w] = pool[w]
    BY <1>1, <1>4 DEF Hold, TypeInv, TypeOK, ChainTypeOK
  <2>2. IsRecovery(v) /\ ~IsReady(v)
    BY <1>1, <1>4, ReadyOrRecovery DEF Runs, FinishSpendOf, FinishSpend
  <2>3. \A q \in Procs : Starting(q, v)' => Starting(q, v) /\ op'[q] = op[q]
    BY <1>2 DEF Become, TypeInv, TypeOK, Starting, StartPcs, Idle
  <2>4. VaultInv(v)
    BY <1>1 DEF Files
  <2>5. \A i, after : Settled(v, i, after) => Settled(v, i, after)'
    BY <1>1, <1>2, FrameSettled
  <2>6. StartsFollowIntent(v)' /\ StartsSavedConfig(v)' /\ StartsKnowCoin(v)'
    BY <1>2, <2>3, <2>4 DEF VaultInv, StartsFollowIntent, StartsSavedConfig, StartsKnowCoin,
                            IntentOf, Ready
  <2>7. StartsSavedPost(v)'
    <3> SUFFICES ASSUME NEW q \in Procs, Starting(q, v)', op'[q].pc = "push"
                 PROVE  Settled(v, IntentOf(q), op[q].post)'
      BY DEF StartsSavedPost
    <3>1. Settled(v, IntentOf(q), op[q].post)
      BY <2>3, <2>4 DEF VaultInv, StartsSavedPost
    <3> QED
      BY <1>2, <2>3, <3>1 DEF Settled, IntentOf, PostLayout
  <2>8. OnlyStart(v)'
    BY <1>2, <2>2, <2>3, <2>4 DEF VaultInv, OnlyStart, Exclusive
  <2>9. PoolSettled(v)'
    BY <2>1 DEF PoolSettled, FinishSpendOf, FinishSpend
  <2>10. CoinSettled(v)'
    BY <1>2, <2>4, <2>5 DEF VaultInv, CoinSettled, InRecovery, IsRecovery
  <2>11. VaultInv(v)'
    BY <2>6, <2>7, <2>8, <2>9, <2>10 DEF VaultInv
  <2>12. \A w \in Vaults \ {v} : Untouched(w)
    BY <1>2, <2>1, QuietStep DEF Idle, StartPcs
  <2>13. \A w \in Vaults : VaultInv(w)'
    BY <2>11, <2>12, UntouchedKeeps DEF Files
  <2> QED
    BY <1>2, <2>13 DEF Files, FilesInPlace
<1> QED
  BY <1>0, <1>3, <1>4 DEF PushFinish, PushFinishRefused, Accepts

\* Files are only torn where a start is not repeated.
LEMMA DieFiles ==
    ASSUME TypeInv, Files, Disciplined, NEW p \in Procs, DieInWrite(p)
    PROVE  Files'
<1>0. PICK v : v = op[p].vault
  OBVIOUS
<1>1. op[p].pc \in {"save", "build"} /\ UNCHANGED <<coin, pool, intent>> /\ Become(p, Idle)
  BY DEF DieInWrite, chainVars, userVars
<1>2. Starting(p, v) /\ v \in Vaults /\ DirOf[v] \in Dirs
  BY <1>0, <1>1, StartPlace DEF StartPcs
<1>3. Exclusive(v)
  BY DEF DieInWrite, Disciplined, Exclusive
<1>4. pool[v] = {} /\ ~IsRecovery(v) /\ \A q \in Procs : Starting(q, v) => q = p
  BY <1>1, <1>2, <1>3, ReadyOrRecovery DEF Files, VaultInv, OnlyStart
<1>5. \A q \in Procs : ~Starting(q, v)'
  BY <1>1, <1>4 DEF Become, TypeInv, TypeOK, Starting, StartPcs, Idle
<1>6. VaultInv(v)'
  <2>1. pool'[v] = {} /\ ~IsRecovery(v)'
    BY <1>1, <1>4 DEF IsRecovery
  <2> QED
    BY <1>5, <2>1 DEF VaultInv, StartsFollowIntent, StartsSavedConfig, StartsSavedPost,
                      StartsKnowCoin, OnlyStart, PoolSettled, CoinSettled
<1>7. \A d \in Dirs : d # DirOf[v] => config'[d] = config[d] /\ post'[d] = post[d]
  BY <1>0 DEF DieInWrite, TypeInv, TypeOK
<1>8. config'[DirOf[v]] \in {{}, config[DirOf[v]]}
  BY <1>0, <1>2 DEF DieInWrite, TypeInv, TypeOK
<1>9. \A file \in config'[DirOf[v]] : file.vault = v /\ config'[DirOf[v]] = {file}
  <2>1. \A file \in config[DirOf[v]] : file.vault \in Vaults
    BY <1>2 DEF TypeInv, TypeOK, File
  <2> QED
    BY <1>2, <1>8, <2>1 DEF Files, FilesInPlace, Disciplined
<1> QED
  BY <1>1, <1>2, <1>6, <1>7, <1>9, OneVault

\* A new coin: only a start that was settled makes a RECOVERY coin.
LEMMA NewCoinFiles ==
    ASSUME TypeInv, Files, NEW v \in Vaults, NEW puzzle, NewCoin(v, puzzle),
           puzzle.state = "READY"
               \/ \E s \in pool[v] : /\ s.kind = "start"
                                     /\ puzzle = InRecovery(coin[v].puzzle.layout, s.post, Amount[v]),
           UNCHANGED <<op, config, post, intent>>
    PROVE  Files'
<1>1. /\ coin'[v].seq = coin[v].seq + 1
      /\ coin'[v].puzzle = puzzle
      /\ pool'[v] = {}
      /\ \A w \in Vaults \ {v} : coin'[w] = coin[w] /\ pool'[w] = pool[w]
  BY DEF NewCoin, TypeInv, TypeOK, ChainTypeOK
<1>2. VaultInv(v)
  BY DEF Files
<1>3. \A i, after : Settled(v, i, after) => Settled(v, i, after)'
  BY FrameSettled
<1>4. StartsFollowIntent(v)' /\ StartsSavedConfig(v)'
  BY <1>2 DEF VaultInv, StartsFollowIntent, StartsSavedConfig, IntentOf, Starting
<1>5. StartsSavedPost(v)'
  BY <1>2 DEF VaultInv, StartsSavedPost, Settled, IntentOf, PostLayout, Starting
<1>6. StartsKnowCoin(v)'
  <2>1. coin[v].seq \in Nat
    BY DEF TypeInv, TypeOK, ChainTypeOK
  <2>2. \A p \in Procs : Starting(p, v) /\ op[p].pc \in {"build", "push"} => op[p].seq \in Nat
    BY StageTypes DEF TypeInv, Building, Pushing
  <2>3. \A p \in Procs : Starting(p, v) /\ op[p].pc \in {"build", "push"} =>
                            op[p].seq <= coin[v].seq
    BY <1>2 DEF VaultInv, StartsKnowCoin
  <2>4. \A p \in Procs : Starting(p, v) /\ op[p].pc \in {"build", "push"} =>
                            op[p].seq < coin'[v].seq
    BY <1>1, <2>1, <2>2, <2>3
  <2> QED
    BY <1>1, <2>1, <2>2, <2>4 DEF StartsKnowCoin, Starting
<1>7. OnlyStart(v)'
  BY <1>1, <1>2 DEF VaultInv, OnlyStart, Exclusive, Starting, IsReady
<1>8. PoolSettled(v)'
  BY <1>1 DEF PoolSettled
<1>9. CoinSettled(v)'
  <2>1. CASE puzzle.state = "READY"
    BY <1>1, <2>1 DEF CoinSettled, IsRecovery
  <2>2. CASE puzzle.state # "READY"
    <3>1. PICK s \in pool[v] :
              s.kind = "start" /\ puzzle = InRecovery(coin[v].puzzle.layout, s.post, Amount[v])
      BY <2>2
    <3>2. PICK i \in intent[v] : Ready(i.layout) = coin[v].puzzle /\ Settled(v, i, s.post)
      BY <1>2, <3>1 DEF VaultInv, PoolSettled
    <3>3. s.post \in Layout
      BY <3>1 DEF TypeInv, TypeOK, ChainTypeOK, Spend
    <3>4. coin[v].puzzle.layout = i.layout
      BY <3>2 DEF Ready
    <3> QED
      BY <1>1, <1>3, <3>1, <3>2, <3>3, <3>4 DEF CoinSettled, InRecovery
  <2> QED
    BY <2>1, <2>2
<1>10. VaultInv(v)'
  BY <1>4, <1>5, <1>6, <1>7, <1>8, <1>9 DEF VaultInv
<1>11. \A w \in Vaults \ {v} : Untouched(w)
  BY <1>1 DEF Untouched, Starting
<1>12. \A w \in Vaults : VaultInv(w)'
  BY <1>10, <1>11, UntouchedKeeps DEF Files
<1> QED
  BY <1>12 DEF Files, FilesInPlace

LEMMA NetworkFiles ==
    ASSUME TypeInv, Files, Chain(Tick) \/ \E v \in Vaults : ChainStep(v) \/ Lose(v)
    PROVE  Files'
<1>0. UNCHANGED <<op, config, post, intent>>
  BY DEF Chain, ChainStep, Lose, toolVars, userVars
<1>1. CASE Tick
  <2>1. \A v \in Vaults : Untouched(v)
    BY <1>0, <1>1 DEF Tick, Untouched, Starting
  <2> QED
    BY <1>0, <2>1, QuietFiles
<1>2. ASSUME NEW v \in Vaults, Evict(v) PROVE Files'
  <2>1. pool'[v] = {} /\ UNCHANGED coin /\ \A w \in Vaults \ {v} : pool'[w] = pool[w]
    BY <1>2 DEF Evict, TypeInv, TypeOK, ChainTypeOK
  <2>2. VaultInv(v)
    BY DEF Files
  <2>3. \A i, after : Settled(v, i, after) => Settled(v, i, after)'
    BY <1>0, FrameSettled
  <2>4. /\ StartsFollowIntent(v)' /\ StartsSavedConfig(v)' /\ StartsSavedPost(v)'
        /\ StartsKnowCoin(v)' /\ OnlyStart(v)'
    BY <1>0, <2>1, <2>2
       DEF VaultInv, StartsFollowIntent, StartsSavedConfig, StartsSavedPost, StartsKnowCoin,
           OnlyStart, Exclusive, Settled, IntentOf, PostLayout, Starting, IsReady, Ready
  <2>5. PoolSettled(v)' /\ CoinSettled(v)'
    BY <1>0, <2>1, <2>2, <2>3
       DEF VaultInv, PoolSettled, CoinSettled, IsRecovery, InRecovery
  <2>6. VaultInv(v)'
    BY <2>4, <2>5 DEF VaultInv
  <2>7. \A w \in Vaults \ {v} : Untouched(w)
    BY <1>0, <2>1 DEF Untouched, Starting
  <2>8. \A w \in Vaults : VaultInv(w)'
    BY <2>6, <2>7, UntouchedKeeps DEF Files
  <2> QED
    BY <1>0, <2>8 DEF Files, FilesInPlace
<1>3. ASSUME NEW v \in Vaults, ConfirmStart(v) PROVE Files'
  BY <1>0, <1>3, NewCoinFiles DEF ConfirmStart
<1>4. ASSUME NEW v \in Vaults, NEW layout, BecomesReady(v, layout) PROVE Files'
  BY <1>0, <1>4, NewCoinFiles DEF BecomesReady, Ready
<1> QED
  BY <1>1, <1>2, <1>3, <1>4 DEF Chain, ChainStep, Lose, ConfirmFinish, CustodySpend

\* A start that is refused, whether or not it is taken for one that went well.
LEMMA RefusedFiles ==
    ASSUME TypeInv, Files, Disciplined, NEW p \in Procs, PushStartRefused(p),
           NEW v, v = op[p].vault
    PROVE  Files'
<1>0. op[p] \in Pushing /\ Starting(p, v) /\ v \in Vaults /\ DirOf[v] \in Dirs
  BY StageTypes, StartPlace DEF PushStartRefused, StartPcs, TypeInv
<1>1. UNCHANGED <<coin, pool, intent, config, post>>
  BY DEF PushStartRefused, chainVars, userVars
<1>2. CASE Become(p, Idle)
  BY <1>1, <1>2, QuietStep, QuietFiles DEF Idle, StartPcs
<1>3. CASE Become(p, [op[p] EXCEPT !.pc = "report"])
  <2>1. GoesOn(p, v, "report")
    BY <1>0, <1>3 DEF GoesOn, StartPcs, TypeInv, TypeOK, Become, Pushing
  <2>2. VaultInv(v)
    BY <1>0 DEF Files
  <2>3. StartsFollowIntent(v)' /\ \A q \in Procs : Starting(q, v)' => Starting(q, v)
    BY <1>0, <1>1, <2>1, <2>2, GoesOnFollows
  <2>4. \A i, after : Settled(v, i, after) => Settled(v, i, after)'
    BY <1>0, <1>1, FrameSettled
  <2>5. StartsSavedConfig(v)' /\ StartsKnowCoin(v)'
    BY <1>1, <2>1, <2>2, <2>3 DEF GoesOn, VaultInv, StartsSavedConfig, StartsKnowCoin, Ready
  <2>6. StartsSavedPost(v)'
    <3> SUFFICES ASSUME NEW q \in Procs, Starting(q, v)', op'[q].pc = "push"
                 PROVE  Settled(v, IntentOf(q), op[q].post)'
      BY DEF StartsSavedPost
    <3>1. op'[q] = op[q]
      BY <2>1 DEF GoesOn
    <3>2. Settled(v, IntentOf(q), op[q].post)
      BY <2>2, <2>3, <3>1 DEF VaultInv, StartsSavedPost
    <3> QED
      BY <1>1, <3>1, <3>2 DEF Settled, IntentOf, PostLayout
  <2>7. OnlyStart(v)'
    BY <1>1, <2>1, <2>2, <2>3 DEF GoesOn, VaultInv, OnlyStart, Exclusive, IsReady
  <2>8. PoolSettled(v)' /\ CoinSettled(v)'
    BY <1>1, <2>2, <2>4
       DEF VaultInv, PoolSettled, CoinSettled, Ready, InRecovery, IsRecovery
  <2>9. VaultInv(v)'
    BY <2>3, <2>5, <2>6, <2>7, <2>8 DEF VaultInv
  <2>10. \A file \in config'[DirOf[v]] : file.vault = v /\ config'[DirOf[v]] = {file}
    <3>1. \A file \in config[DirOf[v]] : file.vault \in Vaults
      BY <1>0 DEF TypeInv, TypeOK, File
    <3> QED
      BY <1>0, <1>1, <3>1 DEF Files, FilesInPlace, Disciplined
  <2>11. [op[p] EXCEPT !.pc = "report"].vault = v
    BY <1>0 DEF Pushing
  <2> QED
    BY <1>0, <1>1, <1>3, <2>9, <2>10, <2>11, OneVault
<1> QED
  BY <1>2, <1>3 DEF PushStartRefused

\* A step of a process that ends its command, or belongs to a finish.
LEMMA OtherFiles ==
    ASSUME TypeInv, Files, NEW p \in Procs,
           \/ WrongPhrase(p) \/ Report(p) \/ Abandon(p)
           \/ FindReady(p) \/ FindRecovery(p) \/ \E d \in Dirs : BeginFinish(p, d)
    PROVE  Files'
<1>1. UNCHANGED <<coin, pool, intent, config, post>>
  BY DEF WrongPhrase, Report, Abandon, FindReady, FindRecovery, BeginFinish,
         chainVars, userVars
<1>2. PICK stage : Become(p, stage) /\ stage.pc \notin StartPcs
  <2>1. CASE FindReady(p)
    <3>1. op[p] \in Finding
      BY <2>1, StageTypes DEF TypeInv, FindReady
    <3> QED
      BY <2>1, <3>1 DEF FindReady, Finding, Idle, StartPcs
  <2>2. CASE \E d \in Dirs : BeginFinish(p, d)
    BY <2>2 DEF BeginFinish, StartPcs
  <2>3. CASE FindRecovery(p)
    BY <2>3 DEF FindRecovery, Idle, StartPcs
  <2>4. CASE WrongPhrase(p) \/ Report(p) \/ Abandon(p)
    BY <2>4 DEF WrongPhrase, Report, Abandon, Idle, StartPcs
  <2> QED
    BY <2>1, <2>2, <2>3, <2>4
<1> QED
  BY <1>1, <1>2, QuietStep, QuietFiles

LEMMA FilesNext == Disciplined /\ FilesInv /\ [Next]_vars => FilesInv'
<1> SUFFICES ASSUME Disciplined, FilesInv, [Next]_vars PROVE FilesInv'
  OBVIOUS
<1>0. TypeInv /\ Files /\ TypeInv'
  BY NextType DEF FilesInv, Files
<1>1. CASE UNCHANGED vars
  <2>1. \A v \in Vaults : Untouched(v)
    BY <1>1 DEF vars, chainVars, toolVars, userVars, Untouched, Starting
  <2>2. UNCHANGED config
    BY <1>1 DEF vars, toolVars
  <2> QED
    BY <1>0, <2>1, <2>2, QuietFiles DEF FilesInv, Files
<1>2. CASE Chain(Tick) \/ \E v \in Vaults : ChainStep(v) \/ Lose(v)
  BY <1>0, <1>2, NetworkFiles DEF FilesInv, Files
<1>3. ASSUME NEW p \in Procs, NEW v \in Vaults, NEW req \in Requests, BeginStart(p, v, req)
      PROVE  Files'
  <2>1. PICK layout \in past[v] :
            /\ op[p] = Idle
            /\ Asks(v, layout, req)
            /\ Become(p, [pc |-> "save", vault |-> v, layout |-> layout, req |-> req])
            /\ UNCHANGED <<chainVars, config, post>>
    BY <1>3 DEF BeginStart
  <2> QED
    BY <1>0, <2>1, BeginFiles
<1>4. ASSUME NEW p \in Procs, NEW d \in Dirs, NEW req \in Requests,
             BeginStartFromFile(p, d, req)
      PROVE  Files'
  <2>1. PICK file \in config[d] :
            /\ op[p] = Idle
            /\ Asks(file.vault, file.layout, req)
            /\ Become(p, [pc |-> "resolve", vault |-> file.vault, layout |-> file.layout,
                          req |-> req])
            /\ UNCHANGED <<chainVars, config, post>>
    BY <1>4 DEF BeginStartFromFile
  <2>2. file \in File /\ DirOf[file.vault] = d /\ config[d] = {file}
    BY <1>0, <2>1 DEF TypeInv, TypeOK, Files, FilesInPlace
  <2>3. file = [vault |-> file.vault, layout |-> file.layout]
    BY <2>2 DEF File
  <2> QED
    BY <1>0, <2>1, <2>2, <2>3, BeginFiles DEF File
<1>5. ASSUME NEW p \in Procs, StartStep(p) PROVE Files'
  BY <1>0, <1>3, <1>4, <1>5, SaveConfigFiles, ResolveFiles, BuildFiles, PushFiles, RefusedFiles,
     OtherFiles
     DEF StartStep
<1>6. ASSUME NEW p \in Procs,
             \/ \E d \in Dirs : BeginFinish(p, d)
             \/ FinishStep(p) \/ Abandon(p) \/ DieInWrite(p)
      PROVE  Files'
  BY <1>0, <1>6, FinishHeldFiles, OtherFiles, DieFiles DEF FinishStep
<1> QED
  BY <1>0, <1>1, <1>2, <1>5, <1>6 DEF Next, FilesInv, Files

\* Under the discipline, the two files kept for a vault in a recovery are
\* the ones its recovery committed to, however many processes, vaults and
\* retries there are: a finish can always rebuild the RECOVERY puzzle.
THEOREM FinishFilesCorrect ==
    ASSUME Disciplined
    PROVE  Spec => []FinishFilesMatchChain
<1>1. FilesInv => FinishFilesMatchChain
  <2> SUFFICES ASSUME FilesInv, NEW v \in Vaults, IsRecovery(v)
               PROVE  \E file \in config[DirOf[v]], after \in post[DirOf[v]] :
                         /\ file.vault = v
                         /\ coin[v].puzzle = InRecovery(file.layout, after.layout, Amount[v])
    BY DEF FinishFilesMatchChain
  <2>1. PICK i \in intent[v], next \in Layout :
            /\ coin[v].puzzle = InRecovery(i.layout, next, Amount[v])
            /\ Settled(v, i, next)
    BY DEF FilesInv, VaultInv, CoinSettled
  <2>2. /\ config[DirOf[v]] = {[vault |-> v, layout |-> i.layout]}
        /\ post[DirOf[v]] = {[vault |-> v, layout |-> next]}
    BY <2>1 DEF Settled
  <2> QED
    BY <2>1, <2>2
<1> QED
  BY <1>1, InitFiles, FilesNext, PTL DEF Spec
=============================================================================
