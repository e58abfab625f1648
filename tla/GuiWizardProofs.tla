---------------------------- MODULE GuiWizardProofs ----------------------------
(***************************************************************************)
(* Theorems about GuiWizard, for any number of vaults, windows, runs of    *)
(* the CLI, directories and requests.  First, that the wizard adds screens *)
(* to the workflow and changes none of it, so that what is proved of       *)
(* RecoveryWorkflow holds of it; then what a Wait screen says.             *)
(***************************************************************************)
EXTENDS GuiWizard, RecoveryWorkflowRefinement

-----------------------------------------------------------------------------
(* The wizard takes steps of the workflow.                                 *)

LEMMA WorkingSteps ==
    ASSUME NEW p \in Procs, Working(p)
    PROVE  /\ Next
           /\ UNCHANGED <<cache, windows, session>>
           /\ accepted \subseteq accepted'
BY DEF Working, Quiet, Accepting, Next, StartStep, FinishStep

\* Every step of a window is one of the workflow, or leaves it alone.
LEMMA GuiSteps ==
    ASSUME WizardTypeOK, NEW g \in Guis, GuiStep(g)
    PROVE  Next \/ UNCHANGED vars
<1>0. g \in Procs
  BY WizardAssumption
<1>1. CASE Launch(g) \/ Close(g) \/ Reset(g) \/ (\E v \in Looked : LookUp(g, v))
           \/ CheckClawback(g)
  BY <1>1 DEF Launch, Close, Reset, LookUp, CheckClawback
<1>2. CASE \E req \in Requests : ClickStart(g, req)
  BY <1>0, <1>2 DEF ClickStart, Next, StartStep
<1>3. CASE ClickFinish(g)
  <2>1. PICK s \in waiting[g] : BeginFinish(g, DirOf[s.vault])
    BY <1>3 DEF ClickFinish
  <2>2. DirOf[s.vault] \in Dirs
    BY WorkflowAssumption DEF WizardTypeOK, Session
  <2> QED
    BY <1>0, <2>1, <2>2 DEF Next
<1>4. CASE Working(g)
  BY <1>0, <1>4, WorkingSteps
<1>5. CASE BeginWait(g) \/ FinishPushed(g) \/ FinishMistaken(g) \/ Error(g) \/ Die(g)
  BY <1>0, <1>5
     DEF BeginWait, FinishPushed, FinishMistaken, Error, Die, Quiet, Next, StartStep, FinishStep
<1> QED
  BY <1>1, <1>2, <1>3, <1>4, <1>5 DEF GuiStep

\* So is every step of a run of the CLI, which leaves the windows alone.
LEMMA CliSteps ==
    ASSUME NEW p \in Clis, CliStep(p)
    PROVE  /\ Next \/ UNCHANGED vars
           /\ UNCHANGED <<windows, session>>
           /\ accepted \subseteq accepted'
<1>0. p \in Procs
  BY DEF Clis
<1>1. CASE Working(p)
  BY <1>0, <1>1, WorkingSteps
<1>2. CASE \E v \in Looked : CliLookUp(p, v)
  BY <1>2 DEF CliLookUp
<1>3. CASE \E v \in Vaults, req \in Requests : CliStart(p, v, req)
  BY <1>0, <1>3 DEF CliStart, Next, StartStep
<1>4. CASE \/ \E d \in Dirs, req \in Requests : Quiet(BeginStartFromFile(p, d, req))
           \/ \E d \in Dirs : Quiet(BeginFinish(p, d))
           \/ Quiet(Report(p)) \/ Quiet(PushFinish(p))
           \/ Quiet(Abandon(p)) \/ Quiet(DieInWrite(p))
  BY <1>0, <1>4 DEF Quiet, Next, StartStep, FinishStep
<1> QED
  BY <1>1, <1>2, <1>3, <1>4 DEF CliStep

LEMMA WizardStepIsNext ==
    ASSUME WizardTypeOK, [WizardNext]_wizardVars
    PROVE  [Next]_vars
<1>1. CASE UNCHANGED wizardVars
  BY <1>1 DEF wizardVars
<1>2. CASE TimePasses
  BY <1>2 DEF TimePasses, Next
<1>3. CASE \E v \in Vaults : Quiet(ChainStep(v)) \/ Quiet(Lose(v))
  BY <1>3 DEF Quiet, Next
<1> QED
  BY <1>1, <1>2, <1>3, GuiSteps, CliSteps DEF WizardNext

-----------------------------------------------------------------------------
(* Types.                                                                  *)

\* A session that has grown older is otherwise the same.
LEMMA OlderSessions ==
    ASSUME NEW S \in SUBSET Session
    PROVE  /\ Older(S) \in SUBSET Session
           /\ \A y \in Older(S) : \E x \in S :
                /\ y.vault = x.vault
                /\ y.secs = x.secs
                /\ y.saved = x.saved
                /\ y.seq = x.seq
                /\ y.post = x.post
<1> SUFFICES ASSUME NEW y \in Older(S)
             PROVE  /\ y \in Session
                    /\ \E x \in S : /\ y.vault = x.vault
                                    /\ y.secs = x.secs
                                    /\ y.saved = x.saved
                                    /\ y.seq = x.seq
                                    /\ y.post = x.post
  OBVIOUS
<1>1. PICK x \in S : y = [x EXCEPT !.elapsed = IF @ < MaxAge THEN @ + 1 ELSE @]
  BY DEF Older
<1>2. x \in Session
  OBVIOUS
<1>3. y.elapsed \in Nat
  BY <1>1, <1>2 DEF Session
<1> QED
  BY <1>1, <1>2, <1>3 DEF Session

\* A session made of a start that reports.
LEMMA SessionOfType ==
    ASSUME TypeInv, NEW p \in Procs, op[p].pc = "report", NEW saved \in BOOLEAN
    PROVE  /\ SessionOf(op[p], saved) \in Session
           /\ GeneratedIn(op[p]) \subseteq GeneratedKeys
<1>1. op[p] \in Pushing
  BY StageTypes DEF TypeInv
<1> QED
  BY <1>1 DEF TypeInv, PostsGenerated, GeneratedIn, SessionOf, Session, Pushing, Layout

LEMMA EnterType ==
    ASSUME WizardTypeOK, NEW g \in Guis, NEW x \in Phases, NEW S \in SUBSET Session,
           NEW words \in SUBSET GeneratedKeys, Enter(g, x, S, words)
    PROVE  /\ phase' \in [Guis -> Phases]
           /\ waiting' \in [Guis -> SUBSET Session]
           /\ phrase' \in [Guis -> SUBSET GeneratedKeys]
BY DEF WizardTypeOK, Enter

LEMMA GuiStepType ==
    ASSUME TypeInv, WizardTypeOK, NEW g \in Guis, GuiStep(g)
    PROVE  WizardTypeOK'
<1>0. g \in Procs
  BY WizardAssumption
<1> USE DEF Phases
<1>1. CASE Launch(g)
  <2>1. entry' \in [Guis -> SUBSET Looked]
    BY <1>1 DEF Launch, WizardTypeOK
  <2>2. Resumable \in SUBSET Session
    BY DEF WizardTypeOK, Resumable
  <2>3. PICK x \in Phases, S \in SUBSET Session : Enter(g, x, S, {})
    <3>1. CASE Resumable # {}
      BY <1>1, <2>2, <3>1 DEF Launch
    <3>2. CASE Resumable = {}
      <4>1. Enter(g, "start", {}, {}) \/ Enter(g, "lookup", {}, {})
        BY <1>1, <3>2 DEF Launch
      <4> QED
        BY <4>1
    <3> QED
      BY <3>1, <3>2
  <2>4. /\ phase' \in [Guis -> Phases]
        /\ waiting' \in [Guis -> SUBSET Session]
        /\ phrase' \in [Guis -> SUBSET GeneratedKeys]
    BY <2>3 DEF Enter, WizardTypeOK
  <2> QED
    BY <1>1, <2>1, <2>4 DEF Launch, WizardTypeOK
<1>2. CASE Close(g) \/ Reset(g)
  <2>1. Enter(g, "closed", {}, {}) \/ Enter(g, "lookup", {}, {})
    BY <1>2 DEF Close, Closed, Reset
  <2>2. /\ phase' \in [Guis -> Phases]
        /\ waiting' \in [Guis -> SUBSET Session]
        /\ phrase' \in [Guis -> SUBSET GeneratedKeys]
    BY <2>1 DEF Enter, WizardTypeOK
  <2>3. entry' \in [Guis -> SUBSET Looked]
    BY <1>2 DEF Close, Closed, Reset, WizardTypeOK
  <2> QED
    BY <1>2, <2>2, <2>3 DEF Close, Reset, WizardTypeOK
<1>3. CASE \E v \in Looked : LookUp(g, v)
  <2>1. PICK v \in Looked : LookUp(g, v)
    BY <1>3
  <2>2. phrase[g] \in SUBSET GeneratedKeys
    BY DEF WizardTypeOK
  <2>3. /\ entry' \in [Guis -> SUBSET Looked]
        /\ cache' \in SUBSET Looked
        /\ session' \in SUBSET Session
        /\ accepted' = accepted
    BY <2>1 DEF LookUp, windows, WizardTypeOK
  <2>4. \/ UNCHANGED windows
        \/ Enter(g, "start", {}, {})
        \/ Enter(g, "fallback", {}, phrase[g])
    BY <2>1 DEF LookUp
  <2>5. /\ phase' \in [Guis -> Phases]
        /\ waiting' \in [Guis -> SUBSET Session]
        /\ phrase' \in [Guis -> SUBSET GeneratedKeys]
    BY <2>2, <2>4 DEF Enter, windows, WizardTypeOK
  <2> QED
    BY <2>3, <2>5 DEF WizardTypeOK
<1>4. CASE CheckClawback(g) \/ (\E req \in Requests : ClickStart(g, req)) \/ ClickFinish(g)
  BY <1>4 DEF CheckClawback, ClickStart, ClickFinish, windows, WizardTypeOK
<1>5. CASE Working(g)
  <2>1. accepted' \in SUBSET (Vaults \X Nat \X Layout)
    <3>1. CASE Accepting(g)
      <4>1. op[g] \in Pushing
        BY <1>0, <3>1, StageTypes DEF Accepting, PushStart, TypeInv
      <4> QED
        BY <3>1, <4>1 DEF Accepting, Pushing, WizardTypeOK
    <3>2. CASE accepted' = accepted
      BY <3>2 DEF WizardTypeOK
    <3> QED
      BY <1>5, <3>1, <3>2 DEF Working, Quiet
  <2> QED
    BY <1>0, <1>5, <2>1, WorkingSteps DEF windows, WizardTypeOK
<1>6. CASE BeginWait(g)
  <2>1. PICK saved \in BOOLEAN :
            /\ Enter(g, "wait", {SessionOf(op[g], saved)}, GeneratedIn(op[g]))
            /\ IF saved THEN session' = {SessionOf(op[g], TRUE)} ELSE session' \in {session, {}}
    BY <1>6 DEF BeginWait
  <2>2. op[g].pc = "report"
    BY <1>6 DEF BeginWait, Report
  <2>3. SessionOf(op[g], saved) \in Session /\ SessionOf(op[g], TRUE) \in Session
        /\ GeneratedIn(op[g]) \subseteq GeneratedKeys
    BY <1>0, <2>2, SessionOfType
  <2> QED
    BY <1>6, <2>1, <2>3, EnterType DEF BeginWait, WizardTypeOK
<1>7. CASE FinishPushed(g) \/ FinishMistaken(g)
  <2>1. waiting[g] \in SUBSET Session
    BY DEF WizardTypeOK
  <2> QED
    BY <1>7, <2>1, EnterType DEF FinishPushed, FinishMistaken, ShowDone, WizardTypeOK
<1>8. CASE Error(g)
  BY <1>8 DEF Error, Quiet, windows, WizardTypeOK
<1>9. CASE Die(g)
  <2>1. session' \in SUBSET Session
    <3>1. CASE op[g].pc = "report"
      <4>1. SessionOf(op[g], TRUE) \in Session
        BY <1>0, <3>1, SessionOfType
      <4>2. session' \in {session, {}, {SessionOf(op[g], TRUE)}}
        BY <1>9, <3>1 DEF Die
      <4> QED
        BY <4>1, <4>2 DEF WizardTypeOK
    <3>2. CASE op[g].pc # "report"
      BY <1>9, <3>2 DEF Die, WizardTypeOK
    <3> QED
      BY <3>1, <3>2
  <2>2. Enter(g, "closed", {}, {}) /\ entry' = [entry EXCEPT ![g] = {}]
    BY <1>9 DEF Die, Closed
  <2>3. /\ phase' \in [Guis -> Phases]
        /\ waiting' \in [Guis -> SUBSET Session]
        /\ phrase' \in [Guis -> SUBSET GeneratedKeys]
    BY <2>2 DEF Enter, WizardTypeOK
  <2>4. entry' \in [Guis -> SUBSET Looked]
    BY <2>2 DEF WizardTypeOK
  <2>5. cache' = cache /\ accepted' = accepted
    BY <1>9 DEF Die
  <2> QED
    BY <2>1, <2>3, <2>4, <2>5 DEF WizardTypeOK
<1> QED
  BY <1>1, <1>2, <1>3, <1>4, <1>5, <1>6, <1>7, <1>8, <1>9 DEF GuiStep

LEMMA CliStepType ==
    ASSUME TypeInv, WizardTypeOK, NEW p \in Clis, CliStep(p)
    PROVE  WizardTypeOK'
<1>0. p \in Procs
  BY DEF Clis
<1>1. cache' \in SUBSET Looked
  BY WorkingSteps, <1>0 DEF CliStep, CliLookUp, CliStart, Quiet, Looked, WizardTypeOK
<1>2. accepted' \in SUBSET (Vaults \X Nat \X Layout)
  <2>1. CASE Accepting(p)
    <3>1. op[p] \in Pushing
      BY <1>0, <2>1, StageTypes DEF Accepting, PushStart, TypeInv
    <3> QED
      BY <2>1, <3>1 DEF Accepting, Pushing, WizardTypeOK
  <2>2. CASE accepted' = accepted
    BY <2>2 DEF WizardTypeOK
  <2> QED
    BY <2>1, <2>2 DEF CliStep, CliLookUp, CliStart, Working, Quiet
<1> QED
  BY <1>1, <1>2, CliSteps DEF windows, WizardTypeOK

WizardTypeInv == TypeInv /\ WizardTypeOK

LEMMA WizardTypeStep == WizardTypeInv /\ [WizardNext]_wizardVars => WizardTypeInv'
<1> SUFFICES ASSUME WizardTypeInv, [WizardNext]_wizardVars PROVE WizardTypeInv'
  OBVIOUS
<1>1. TypeInv'
  BY NextType, WizardStepIsNext DEF WizardTypeInv
<1>2. WizardTypeOK'
  <2> USE DEF WizardTypeInv
  <2>1. CASE UNCHANGED wizardVars
    BY <2>1 DEF wizardVars, windows, WizardTypeOK
  <2>2. CASE TimePasses
    <3>1. session' \in SUBSET Session
      BY <2>2, OlderSessions DEF TimePasses, WizardTypeOK
    <3>2. waiting' \in [Guis -> SUBSET Session]
      BY <2>2, OlderSessions DEF TimePasses, WizardTypeOK
    <3> QED
      BY <2>2, <3>1, <3>2 DEF TimePasses, WizardTypeOK
  <2>3. CASE \E v \in Vaults : Quiet(ChainStep(v)) \/ Quiet(Lose(v))
    BY <2>3 DEF Quiet, windows, WizardTypeOK
  <2> QED
    BY <2>1, <2>2, <2>3, GuiStepType, CliStepType DEF WizardNext
<1> QED
  BY <1>1, <1>2 DEF WizardTypeInv

LEMMA WizardInitType == WizardInit => WizardTypeInv
<1> SUFFICES ASSUME WizardInit PROVE WizardTypeInv
  OBVIOUS
<1>1. TypeInv
  BY InitType DEF WizardInit
<1> QED
  BY <1>1 DEF WizardInit, WizardTypeInv, WizardTypeOK, Phases

LEMMA WizardTypeInvHolds == WizardSpec => []WizardTypeInv
BY WizardInitType, WizardTypeStep, PTL DEF WizardSpec

\* Every variable of the wizard keeps its type.
THEOREM WizardTypeCorrect == WizardSpec => []WizardTypeOK
<1>1. WizardTypeInv => WizardTypeOK
  BY DEF WizardTypeInv
<1> QED
  BY <1>1, WizardTypeInvHolds, PTL

\* The GUI and the CLI together are a workflow: whatever is true of every
\* behaviour of start and finish is true beside the wizard.
THEOREM WizardIsWorkflow == WizardSpec => Spec
<1>1. WizardInit => Init
  BY DEF WizardInit
<1>2. WizardTypeInv /\ [WizardNext]_wizardVars => [Next]_vars
  BY WizardStepIsNext DEF WizardTypeInv
<1> QED
  BY <1>1, <1>2, WizardTypeInvHolds, PTL DEF WizardSpec, Spec

\* A generated phrase on the Wait screen, or that a run of the CLI prints, is one
\* of a start that a node took, where every refusal gives its status.
THEOREM WizardPhrasesCorrect ==
    WizardSpec /\ [][RefusalsHaveStatus]_vars => []ShownPhraseWasTaken
BY WizardIsWorkflow, ShownPhrasesCorrect, PTL

\* The promise of DelayedRecovery is kept with the wizard in front, whatever
\* window is closed, dies or is resumed, and whatever the CLI does beside it:
\* a Wait screen opens no way into a vault, and shortens no clawback window.
THEOREM WizardKeepsPromise == WizardSpec => RefinesPromise
BY WizardIsWorkflow, KeepsPromise, PTL

\* The two files always finish the recovery on chain, whichever of the window
\* and the runs of the CLI wrote them, when starts are disciplined.
THEOREM WizardFilesCorrect ==
    ASSUME Disciplined
    PROVE  WizardSpec => []FinishFilesMatchChain
BY WizardIsWorkflow, FinishFilesCorrect, PTL

-----------------------------------------------------------------------------
(* Where sessions come from.                                               *)

\* A session is one there was, grown older, or that of a start that reports.
ComesFrom(s) ==
    \/ \E x \in Sessions : /\ s.vault = x.vault
                           /\ s.secs = x.secs
                           /\ s.seq = x.seq
                           /\ s.post = x.post
    \/ \E g \in Guis : /\ op[g].pc = "report"
                       /\ s.vault = op[g].vault
                       /\ s.secs = op[g].layout.timelock
                       /\ s.seq = op[g].seq
                       /\ s.post = op[g].post

LEMMA SessionsOrigin ==
    ASSUME NEW g \in Guis, NEW S, NEW x, NEW words, WizardTypeOK,
           \/ Enter(g, x, S, words)
           \/ UNCHANGED waiting /\ S = {},
           session' \subseteq session \cup S,
           \A s \in S : ComesFrom(s)
    PROVE  \A s \in Sessions' : ComesFrom(s)
<1> SUFFICES ASSUME NEW s \in Sessions' PROVE ComesFrom(s)
  OBVIOUS
<1>1. s \in session' \/ \E h \in Guis : s \in waiting'[h]
  BY DEF Sessions
<1>2. s \in S \/ s \in session \/ \E h \in Guis : s \in waiting[h]
  BY <1>1 DEF Enter, WizardTypeOK
<1>3. s \in S \/ s \in Sessions
  BY <1>2 DEF Sessions
<1> QED
  BY <1>3 DEF ComesFrom

LEMMA SessionsComeFrom ==
    ASSUME WizardTypeOK, [WizardNext]_wizardVars
    PROVE  \A s \in Sessions' : ComesFrom(s)
<1>0. \A s \in Sessions : ComesFrom(s)
  BY DEF ComesFrom
<1>1. CASE UNCHANGED <<waiting, session>>
  BY <1>0, <1>1 DEF Sessions
<1>2. CASE TimePasses
  <2> SUFFICES ASSUME NEW s \in Sessions' PROVE ComesFrom(s)
    OBVIOUS
  <2>1. s \in Older(session) \/ \E h \in Guis : s \in Older(waiting[h])
    BY <1>2 DEF TimePasses, Sessions
  <2>2. \E x \in Sessions : /\ s.vault = x.vault
                            /\ s.secs = x.secs
                            /\ s.seq = x.seq
                            /\ s.post = x.post
    <3>1. CASE s \in Older(session)
      <4>1. \E x \in session : /\ s.vault = x.vault
                               /\ s.secs = x.secs
                               /\ s.seq = x.seq
                               /\ s.post = x.post
        BY <3>1, OlderSessions DEF WizardTypeOK
      <4> QED
        BY <4>1 DEF Sessions
    <3>2. CASE \E h \in Guis : s \in Older(waiting[h])
      <4>1. PICK h \in Guis : s \in Older(waiting[h])
        BY <3>2
      <4>2. waiting[h] \in SUBSET Session
        BY DEF WizardTypeOK
      <4>3. \E x \in waiting[h] : /\ s.vault = x.vault
                                  /\ s.secs = x.secs
                                  /\ s.seq = x.seq
                                  /\ s.post = x.post
        BY <4>1, <4>2, OlderSessions
      <4> QED
        BY <4>3 DEF Sessions
    <3> QED
      BY <2>1, <3>1, <3>2
  <2> QED
    BY <2>2 DEF ComesFrom
<1>3. ASSUME NEW g \in Guis, GuiStep(g)
      PROVE  \A s \in Sessions' : ComesFrom(s)
  <2>1. CASE Launch(g)
    <3>1. Resumable \subseteq session
      BY DEF Resumable
    <3>2. \A s \in Resumable : ComesFrom(s)
      BY <1>0, <3>1 DEF Sessions
    <3>3. session' = session
      BY <2>1 DEF Launch
    <3>4. \/ Enter(g, "wait", Resumable, {})
          \/ \E x \in Phases : Enter(g, x, {}, {})
      <4>1. \/ Enter(g, "wait", Resumable, {})
            \/ Enter(g, "start", {}, {})
            \/ Enter(g, "lookup", {}, {})
        BY <2>1 DEF Launch
      <4> QED
        BY <4>1 DEF Phases
    <3> QED
      BY <3>2, <3>3, <3>4, SessionsOrigin
  <2>2. CASE Close(g) \/ Reset(g) \/ (\E v \in Looked : LookUp(g, v))
    <3>1. session' \subseteq session
      BY <2>2 DEF Close, Reset, LookUp
    <3>2. UNCHANGED waiting \/ \E x, words : Enter(g, x, {}, words)
      BY <2>2 DEF Close, Closed, Reset, LookUp, windows
    <3> QED
      BY <3>1, <3>2, SessionsOrigin
  <2>3. CASE \/ CheckClawback(g)
             \/ \E req \in Requests : ClickStart(g, req)
             \/ ClickFinish(g)
             \/ Working(g)
             \/ Error(g)
    <3>1. UNCHANGED <<waiting, session>>
      BY <2>3 DEF CheckClawback, ClickStart, ClickFinish, Working, Error, Quiet, windows
    <3> QED
      BY <1>1, <3>1
  <2>4. CASE BeginWait(g)
    <3>1. PICK saved \in BOOLEAN :
              /\ Enter(g, "wait", {SessionOf(op[g], saved)}, GeneratedIn(op[g]))
              /\ IF saved THEN session' = {SessionOf(op[g], TRUE)}
                          ELSE session' \in {session, {}}
      BY <2>4 DEF BeginWait
    <3>2. op[g].pc = "report"
      BY <2>4 DEF BeginWait, Report
    <3>3. ComesFrom(SessionOf(op[g], saved))
      BY <3>2 DEF ComesFrom, SessionOf
    <3>4. session' \subseteq session \cup {SessionOf(op[g], saved)}
      BY <3>1
    <3> QED
      BY <3>1, <3>3, <3>4, SessionsOrigin
  <2>5. CASE FinishPushed(g) \/ FinishMistaken(g)
    <3>1. session' \subseteq session
      BY <2>5 DEF FinishPushed, FinishMistaken, ShowDone
    <3>2. UNCHANGED waiting \/ Enter(g, "done", waiting[g], {})
      BY <2>5 DEF FinishPushed, FinishMistaken, ShowDone
    <3>3. \A s \in waiting[g] : ComesFrom(s)
      BY <1>0 DEF Sessions
    <3> QED
      BY <3>1, <3>2, <3>3, SessionsOrigin
  <2>6. CASE Die(g)
    <3>1. Enter(g, "closed", {}, {})
      BY <2>6 DEF Die, Closed
    <3> SUFFICES ASSUME NEW s \in Sessions' PROVE ComesFrom(s)
      OBVIOUS
    <3>2. s \in session' \/ \E h \in Guis : s \in waiting[h]
      BY <3>1 DEF Enter, Sessions, WizardTypeOK
    <3>3. \/ s \in Sessions
          \/ op[g].pc = "report" /\ s = SessionOf(op[g], TRUE)
      BY <2>6, <3>2 DEF Die, Sessions
    <3>4. ASSUME op[g].pc = "report", s = SessionOf(op[g], TRUE)
          PROVE  ComesFrom(s)
      BY <3>4 DEF ComesFrom, SessionOf
    <3> QED
      BY <1>0, <3>3, <3>4
  <2> QED
    BY <1>3, <2>1, <2>2, <2>3, <2>4, <2>5, <2>6 DEF GuiStep
<1>4. CASE \E p \in Clis : CliStep(p)
  BY <1>1, <1>4, CliSteps DEF windows
<1>5. CASE \E v \in Vaults : Quiet(ChainStep(v)) \/ Quiet(Lose(v))
  BY <1>1, <1>5 DEF Quiet, windows
<1>6. CASE UNCHANGED wizardVars
  BY <1>1, <1>6 DEF wizardVars, windows
<1> QED
  BY <1>2, <1>3, <1>4, <1>5, <1>6 DEF WizardNext

-----------------------------------------------------------------------------
(* A Wait is of a start that a node took.                                  *)

\* Every process that reports a start had it taken.
ReportsAccepted ==
    \A p \in Procs : op[p].pc = "report" => <<op[p].vault, op[p].seq, op[p].post>> \in accepted

\* A step of p to a stage that is not a report.
LEMMA QuietReport ==
    ASSUME TypeInv, ReportsAccepted, NEW p \in Procs, NEW stage, Become(p, stage),
           stage.pc # "report", accepted \subseteq accepted'
    PROVE  ReportsAccepted'
BY DEF TypeInv, TypeOK, ReportsAccepted, Become

\* The steps that begin a command or end one.
LEMMA EndsReport ==
    ASSUME TypeInv, ReportsAccepted, NEW p \in Procs,
           \/ \E v \in Vaults, req \in Requests : BeginStart(p, v, req)
           \/ \E d \in Dirs, req \in Requests : BeginStartFromFile(p, d, req)
           \/ \E d : BeginFinish(p, d)
           \/ Report(p) \/ PushFinish(p) \/ PushFinishRefused(p)
           \/ Abandon(p) \/ DieInWrite(p),
           accepted' = accepted
    PROVE  ReportsAccepted'
<1>1. CASE \E v \in Vaults, req \in Requests : BeginStart(p, v, req)
  <2>1. PICK v, req, layout :
            Become(p, [pc |-> "save", vault |-> v, layout |-> layout, req |-> req])
    BY <1>1 DEF BeginStart
  <2> QED
    BY <2>1, QuietReport
<1>2. CASE \E d \in Dirs, req \in Requests : BeginStartFromFile(p, d, req)
  <2>1. PICK v, req, layout :
            Become(p, [pc |-> "resolve", vault |-> v, layout |-> layout, req |-> req])
    BY <1>2 DEF BeginStartFromFile
  <2> QED
    BY <2>1, QuietReport
<1>3. CASE \E d : BeginFinish(p, d)
  <2>1. PICK v, layout, after :
            Become(p, [pc |-> "findReady", vault |-> v, layout |-> layout, post |-> after])
    BY <1>3 DEF BeginFinish
  <2> QED
    BY <2>1, QuietReport
<1>4. CASE \/ Report(p) \/ PushFinish(p) \/ PushFinishRefused(p)
           \/ Abandon(p) \/ DieInWrite(p)
  <2>1. Become(p, Idle) /\ Idle.pc # "report"
    BY <1>4 DEF Report, PushFinish, PushFinishRefused, Abandon, DieInWrite, Idle
  <2> QED
    BY <2>1, QuietReport
<1> QED
  BY <1>1, <1>2, <1>3, <1>4

LEMMA WorkingReports ==
    ASSUME TypeInv, ReportsAccepted, [RefusalsHaveStatus]_vars, NEW p \in Procs, Working(p)
    PROVE  ReportsAccepted'
<1>0. accepted \subseteq accepted'
  BY WorkingSteps
<1>1. CASE Accepting(p)
  <2>1. op[p] \in Pushing
    BY <1>1, StageTypes DEF Accepting, PushStart, TypeInv
  <2>2. \A q \in Procs \ {p} : op'[q] = op[q]
    BY <1>1 DEF Accepting, PushStart, Become, TypeInv, TypeOK
  <2>3. op'[p].pc = "report" => /\ op'[p].vault = op[p].vault
                                /\ op'[p].seq = op[p].seq
                                /\ op'[p].post = op[p].post
    BY <1>1, <2>1 DEF Accepting, PushStart, Become, TypeInv, TypeOK, Pushing, Idle
  <2>4. <<op[p].vault, op[p].seq, op[p].post>> \in accepted'
    BY <1>1 DEF Accepting
  <2> QED
    BY <1>0, <2>2, <2>3, <2>4 DEF ReportsAccepted
<1>2. CASE Quiet(SaveConfig(p))
  <2>1. Become(p, [op[p] EXCEPT !.pc = "resolve"]) /\ op[p] \in Preparing
    BY <1>2, StageTypes DEF Quiet, SaveConfig, TypeInv
  <2>2. [op[p] EXCEPT !.pc = "resolve"].pc # "report"
    BY <2>1 DEF Preparing
  <2> QED
    BY <1>0, <2>1, <2>2, QuietReport
<1>3. CASE Quiet(FindReady(p))
  <2>1. op[p] \in Finding
    BY <1>3, StageTypes DEF Quiet, FindReady, TypeInv
  <2>2. Become(p, Idle) \/ Become(p, [op[p] EXCEPT !.pc = "findRecovery"])
    BY <1>3 DEF Quiet, FindReady
  <2>3. Idle.pc # "report" /\ [op[p] EXCEPT !.pc = "findRecovery"].pc # "report"
    BY <2>1 DEF Finding, Idle
  <2> QED
    BY <1>0, <2>2, <2>3, QuietReport
<1>4. CASE \/ Quiet(ResolveReady(p)) \/ Quiet(BuildAndSave(p)) \/ Quiet(WrongPhrase(p))
           \/ Quiet(FindRecovery(p)) \/ Quiet(PushFinishRefused(p))
  <2>0. Idle.pc # "report"
    BY DEF Idle
  <2>1. CASE Become(p, Idle)
    BY <1>0, <2>0, <2>1, QuietReport
  <2>2. CASE Quiet(ResolveReady(p)) /\ ~Become(p, Idle)
    <3>1. Become(p, [pc |-> "build", vault |-> op[p].vault, layout |-> op[p].layout,
                     req |-> op[p].req, seq |-> coin[op[p].vault].seq])
      BY <2>2 DEF Quiet, ResolveReady
    <3> QED
      BY <1>0, <3>1, QuietReport
  <2>3. CASE Quiet(BuildAndSave(p))
    <3>1. PICK next : Become(p, [pc |-> "push", vault |-> op[p].vault,
                                 layout |-> op[p].layout, req |-> op[p].req,
                                 seq |-> op[p].seq, post |-> next])
      BY <2>3 DEF Quiet, BuildAndSave
    <3> QED
      BY <1>0, <3>1, QuietReport
  <2>4. CASE Quiet(FindRecovery(p)) /\ ~Become(p, Idle)
    <3>1. PICK seq : Become(p, [pc |-> "pushFinish", vault |-> op[p].vault,
                                layout |-> op[p].layout, post |-> op[p].post, seq |-> seq])
      BY <2>4 DEF Quiet, FindRecovery
    <3> QED
      BY <1>0, <3>1, QuietReport
  <2>5. CASE Quiet(WrongPhrase(p)) \/ Quiet(PushFinishRefused(p))
    <3>1. Become(p, Idle)
      BY <2>5 DEF Quiet, WrongPhrase, PushFinishRefused
    <3> QED
      BY <2>1, <3>1
  <2> QED
    BY <1>4, <2>1, <2>2, <2>3, <2>4, <2>5
<1>5. CASE Quiet(PushStartRefused(p))
  <2>1. PICK stage : Become(p, stage)
    BY <1>5 DEF Quiet, PushStartRefused
  <2>2. CASE op' = op
    BY <1>0, <2>2 DEF ReportsAccepted
  <2>3. CASE op' # op
    <3>1. op'[p] = Idle
      BY <1>5, <2>3 DEF RefusalsHaveStatus, vars, toolVars, Quiet
    <3>2. stage = Idle
      BY <2>1, <3>1 DEF Become, TypeInv, TypeOK
    <3> QED
      BY <1>0, <2>1, <3>2, QuietReport DEF Idle
  <2> QED
    BY <2>2, <2>3
<1> QED
  BY <1>1, <1>2, <1>3, <1>4, <1>5 DEF Working

LEMMA NextReports ==
    ASSUME WizardTypeInv, ReportsAccepted, [WizardNext]_wizardVars, [RefusalsHaveStatus]_vars
    PROVE  ReportsAccepted' /\ accepted \subseteq accepted'
<1> USE DEF WizardTypeInv
<1>1. ASSUME UNCHANGED <<op, accepted>>
      PROVE  ReportsAccepted' /\ accepted \subseteq accepted'
  BY <1>1 DEF ReportsAccepted
<1>2. ASSUME NEW p \in Procs, Working(p)
      PROVE  ReportsAccepted' /\ accepted \subseteq accepted'
  BY <1>2, WorkingReports, WorkingSteps
<1>3. CASE \/ UNCHANGED wizardVars
           \/ TimePasses
           \/ \E v \in Vaults : Quiet(ChainStep(v)) \/ Quiet(Lose(v))
  BY <1>1, <1>3 DEF wizardVars, vars, toolVars, TimePasses, Quiet, ChainStep, Lose, Chain
<1>4. ASSUME NEW g \in Guis, GuiStep(g)
      PROVE  ReportsAccepted' /\ accepted \subseteq accepted'
  <2>0. g \in Procs
    BY WizardAssumption
  <2>1. CASE \/ Launch(g) \/ Close(g) \/ Reset(g) \/ (\E v \in Looked : LookUp(g, v))
             \/ CheckClawback(g)
    <3>1. UNCHANGED <<op, accepted>>
      BY <2>1 DEF Launch, Close, Reset, LookUp, CheckClawback, vars, toolVars
    <3> QED
      BY <1>1, <3>1
  <2>2. CASE \/ \E req \in Requests : ClickStart(g, req)
             \/ BeginWait(g) \/ ClickFinish(g) \/ FinishPushed(g) \/ FinishMistaken(g)
             \/ Error(g) \/ Die(g)
    <3>1. accepted' = accepted
      BY <2>2 DEF ClickStart, BeginWait, ClickFinish, FinishPushed, FinishMistaken, Error, Die,
                  Quiet
    <3>2. \/ \E v \in Vaults, req \in Requests : BeginStart(g, v, req)
          \/ \E d : BeginFinish(g, d)
          \/ Report(g) \/ PushFinish(g) \/ PushFinishRefused(g) \/ Abandon(g) \/ DieInWrite(g)
      BY <2>2 DEF ClickStart, BeginWait, ClickFinish, FinishPushed, FinishMistaken, Error, Die,
                  Quiet
    <3> QED
      BY <2>0, <3>1, <3>2, EndsReport
  <2> QED
    BY <1>2, <1>4, <2>0, <2>1, <2>2 DEF GuiStep
<1>5. ASSUME NEW p \in Clis, CliStep(p)
      PROVE  ReportsAccepted' /\ accepted \subseteq accepted'
  <2>0. p \in Procs
    BY DEF Clis
  <2>1. CASE \E v \in Looked : CliLookUp(p, v)
    BY <1>1, <2>1 DEF CliLookUp, vars, toolVars
  <2>2. CASE \/ \E v \in Vaults, req \in Requests : CliStart(p, v, req)
             \/ \E d \in Dirs, req \in Requests : Quiet(BeginStartFromFile(p, d, req))
             \/ \E d \in Dirs : Quiet(BeginFinish(p, d))
             \/ Quiet(Report(p)) \/ Quiet(PushFinish(p))
             \/ Quiet(Abandon(p)) \/ Quiet(DieInWrite(p))
    <3>1. accepted' = accepted
      BY <2>2 DEF CliStart, Quiet
    <3>2. \/ \E v \in Vaults, req \in Requests : BeginStart(p, v, req)
          \/ \E d \in Dirs, req \in Requests : BeginStartFromFile(p, d, req)
          \/ \E d : BeginFinish(p, d)
          \/ Report(p) \/ PushFinish(p) \/ Abandon(p) \/ DieInWrite(p)
      BY <2>2 DEF CliStart, Quiet
    <3> QED
      BY <2>0, <3>1, <3>2, EndsReport
  <2> QED
    BY <1>2, <1>5, <2>0, <2>1, <2>2 DEF CliStep
<1> QED
  BY <1>3, <1>4, <1>5 DEF WizardNext

WaitInv == WizardTypeInv /\ ReportsAccepted /\ WaitIsOfTakenStart

LEMMA WaitStep ==
    ASSUME WaitInv, [WizardNext]_wizardVars, [RefusalsHaveStatus]_vars
    PROVE  WaitInv'
<1>1. WizardTypeInv' /\ ReportsAccepted' /\ accepted \subseteq accepted'
  BY WizardTypeStep, NextReports DEF WaitInv
<1>2. \A s \in Sessions' : ComesFrom(s)
  BY SessionsComeFrom DEF WaitInv, WizardTypeInv
<1>3. \A s \in Sessions' : <<s.vault, s.seq, s.post>> \in accepted
  BY <1>2, WizardAssumption DEF ComesFrom, WaitInv, ReportsAccepted, WaitIsOfTakenStart
<1> QED
  BY <1>1, <1>3 DEF WaitInv, WaitIsOfTakenStart

\* Where refusals give a status, nobody is made to wait for a start that no node
\* took, whatever other faults hit the pushes and however sessions are saved,
\* resumed and left behind.  (Without a status they do: the run GuiWait.)
THEOREM WaitsAreOfTakenStarts ==
    WizardSpec /\ [][RefusalsHaveStatus]_vars => []WaitIsOfTakenStart
<1>1. WizardInit => WaitInv
  <2> SUFFICES ASSUME WizardInit PROVE WaitInv
    OBVIOUS
  <2>1. Sessions = {}
    BY DEF WizardInit, Sessions
  <2>2. ReportsAccepted
    BY DEF WizardInit, Init, ReportsAccepted, Idle
  <2> QED
    BY <2>1, <2>2, WizardInitType DEF WaitInv, WaitIsOfTakenStart
<1>2. WaitInv => WaitIsOfTakenStart
  BY DEF WaitInv
<1>3. WaitInv /\ [WizardNext]_wizardVars /\ [RefusalsHaveStatus]_vars => WaitInv'
  BY WaitStep
<1> QED
  BY <1>1, <1>2, <1>3, PTL DEF WizardSpec

-----------------------------------------------------------------------------
(* The countdown is over the window of the coin.                           *)

\* A start on coin seq of v, whose layout has clawback secs: until that coin
\* is spent it is READY with that clawback, and a recovery that spends it
\* keeps the clawback.
Governs(v, seq, secs) ==
    /\ v \in Vaults
    /\ seq \in Nat
    /\ seq <= coin[v].seq
    /\ coin[v].seq = seq => IsReady(v) /\ coin[v].puzzle.layout.timelock = secs
    /\ (coin[v].seq = seq + 1 /\ IsRecovery(v)) => coin[v].puzzle.timelock = secs

Resolved(stage) == stage.pc \in {"build", "push", "report"}

StagesGoverned ==
    \A p \in Procs :
        Resolved(op[p]) => Governs(op[p].vault, op[p].seq, op[p].layout.timelock)

SessionsGoverned == \A s \in Sessions : Governs(s.vault, s.seq, s.secs)

\* What can become of a coin in one step.
CoinStep(v) ==
    \/ coin'[v] = coin[v]
    \/ /\ coin'[v].seq = coin[v].seq + 1
       /\ \/ coin'[v].puzzle.state = "READY"
          \/ /\ IsReady(v)
             /\ coin'[v].puzzle.state = "RECOVERY"
             /\ coin'[v].puzzle.timelock = coin[v].puzzle.layout.timelock

LEMMA NewCoinStep ==
    ASSUME ChainTypeOK, NEW v \in Vaults, NEW puzzle, NewCoin(v, puzzle),
           \/ puzzle.state = "READY"
           \/ /\ IsReady(v)
              /\ puzzle.state = "RECOVERY"
              /\ puzzle.timelock = coin[v].puzzle.layout.timelock
    PROVE  \A w \in Vaults : CoinStep(w)
<1>1. coin'[v] = [seq |-> coin[v].seq + 1, puzzle |-> puzzle]
  BY DEF ChainTypeOK, NewCoin
<1>2. \A w \in Vaults \ {v} : coin'[w] = coin[w]
  BY DEF ChainTypeOK, NewCoin
<1>3. CoinStep(v)
  BY <1>1 DEF CoinStep
<1> QED
  BY <1>2, <1>3 DEF CoinStep

LEMMA ChainCoinStep ==
    ASSUME TypeInv, NEW v \in Vaults, ConfirmStart(v) \/ ConfirmFinish(v) \/ CustodySpend(v)
    PROVE  \A w \in Vaults : CoinStep(w)
<1>0. ChainTypeOK
  BY DEF TypeInv, TypeOK
<1>1. CASE ConfirmStart(v)
  <2>1. PICK s \in pool[v] :
            /\ s.kind = "start"
            /\ NewCoin(v, InRecovery(coin[v].puzzle.layout, s.post, Amount[v]))
    BY <1>1 DEF ConfirmStart
  <2>2. IsReady(v)
    BY <2>1 DEF TypeInv, PoolRuns, Runs
  <2>3. /\ InRecovery(coin[v].puzzle.layout, s.post, Amount[v]).state = "RECOVERY"
        /\ InRecovery(coin[v].puzzle.layout, s.post, Amount[v]).timelock
              = coin[v].puzzle.layout.timelock
    BY DEF InRecovery
  <2> QED
    BY <1>0, <2>1, <2>2, <2>3, NewCoinStep
<1>2. CASE ConfirmFinish(v) \/ CustodySpend(v)
  <2>1. PICK layout : NewCoin(v, Ready(layout))
    BY <1>2 DEF ConfirmFinish, CustodySpend, BecomesReady
  <2>2. Ready(layout).state = "READY"
    BY DEF Ready
  <2> QED
    BY <1>0, <2>1, <2>2, NewCoinStep
<1> QED
  BY <1>1, <1>2

LEMMA CoinMoves ==
    ASSUME TypeInv, [Next]_vars
    PROVE  \A w \in Vaults : CoinStep(w)
<1>1. CASE UNCHANGED coin
  BY <1>1 DEF CoinStep
<1>2. CASE \E v \in Vaults : ConfirmStart(v) \/ ConfirmFinish(v) \/ CustodySpend(v)
  BY <1>2, ChainCoinStep
<1>3. CASE UNCHANGED vars \/ Chain(Tick) \/ \E v \in Vaults : ChainStep(v) \/ Lose(v)
  BY <1>1, <1>2, <1>3 DEF vars, chainVars, Chain, Tick, ChainStep, Lose, Evict
<1>4. CASE \E p \in Procs :
              \/ StartStep(p)
              \/ \E d \in Dirs : BeginFinish(p, d)
              \/ FinishStep(p) \/ Abandon(p) \/ DieInWrite(p)
  <2>1. UNCHANGED coin
    BY <1>4 DEF StartStep, BeginStart, BeginStartFromFile, SaveConfig, ResolveReady,
                BuildAndSave, WrongPhrase, PushStart, PushStartRefused, Report,
                BeginFinish, FinishStep, FindReady, FindRecovery, PushFinish,
                PushFinishRefused, Abandon, DieInWrite, chainVars
  <2> QED
    BY <1>1, <2>1
<1> QED
  BY <1>3, <1>4 DEF Next

LEMMA GovernsKept ==
    ASSUME TypeInv, [Next]_vars, NEW v, NEW seq, NEW secs, Governs(v, seq, secs)
    PROVE  Governs(v, seq, secs)'
<1>1. v \in Vaults /\ seq \in Nat /\ coin[v].seq \in Nat
  BY DEF Governs, TypeInv, TypeOK, ChainTypeOK
<1>2. CoinStep(v)
  BY <1>1, CoinMoves
<1>3. CASE coin'[v] = coin[v]
  BY <1>3 DEF Governs, IsReady, IsRecovery
<1>4. CASE coin'[v].seq = coin[v].seq + 1
  <2>1. seq <= coin[v].seq
    BY DEF Governs
  <2>2. CASE coin[v].seq = seq
    BY <1>1, <1>2, <1>4, <2>2 DEF Governs, CoinStep, IsReady, IsRecovery
  <2>3. CASE coin[v].seq # seq
    <3>1. /\ seq <= coin'[v].seq
          /\ coin'[v].seq # seq
          /\ coin'[v].seq # seq + 1
      BY <1>1, <1>4, <2>1, <2>3
    <3> QED
      BY <1>1, <3>1 DEF Governs
  <2> QED
    BY <2>2, <2>3
<1> QED
  BY <1>2, <1>3, <1>4 DEF CoinStep

\* A stage that names a coin was there before, or has just found the coin at
\* the READY hash of its layout.
SameStart(stage, p) ==
    /\ Resolved(op[p])
    /\ stage.vault = op[p].vault
    /\ stage.seq = op[p].seq
    /\ stage.layout = op[p].layout

Found(stage) ==
    /\ stage.vault \in Vaults
    /\ stage.seq = coin[stage.vault].seq
    /\ coin[stage.vault].puzzle = Ready(stage.layout)

LEMMA BecomesStage ==
    ASSUME TypeInv, NEW p \in Procs, NEW stage, Become(p, stage),
           Resolved(stage) => SameStart(stage, p) \/ Found(stage)
    PROVE  \A q \in Procs :
                Resolved(op'[q]) => SameStart(op'[q], q) \/ Found(op'[q])
BY DEF TypeInv, TypeOK, Become, SameStart

LEMMA StageOrigin ==
    ASSUME TypeInv, [Next]_vars
    PROVE  \A q \in Procs :
                Resolved(op'[q]) => SameStart(op'[q], q) \/ Found(op'[q])
<1>0. ~Resolved(Idle)
  BY DEF Resolved, Idle
<1>1. CASE UNCHANGED vars \/ Chain(Tick) \/ \E v \in Vaults : ChainStep(v) \/ Lose(v)
  <2>1. UNCHANGED op
    BY <1>1 DEF vars, toolVars, Chain, ChainStep, Lose
  <2> QED
    BY <2>1 DEF SameStart
<1>2. ASSUME NEW p \in Procs, Become(p, Idle)
      PROVE  \A q \in Procs : Resolved(op'[q]) => SameStart(op'[q], q) \/ Found(op'[q])
  BY <1>0, <1>2, BecomesStage
<1>3. ASSUME NEW p \in Procs, StartStep(p)
      PROVE  \A q \in Procs : Resolved(op'[q]) => SameStart(op'[q], q) \/ Found(op'[q])
  <2>1. CASE \E v \in Vaults, req \in Requests : BeginStart(p, v, req)
    <3>1. PICK v, req, layout :
              Become(p, [pc |-> "save", vault |-> v, layout |-> layout, req |-> req])
      BY <2>1 DEF BeginStart
    <3> QED
      BY <3>1, BecomesStage DEF Resolved
  <2>2. CASE \E d \in Dirs, req \in Requests : BeginStartFromFile(p, d, req)
    <3>1. PICK v, req, layout :
              Become(p, [pc |-> "resolve", vault |-> v, layout |-> layout, req |-> req])
      BY <2>2 DEF BeginStartFromFile
    <3> QED
      BY <3>1, BecomesStage DEF Resolved
  <2>3. CASE SaveConfig(p)
    <3> DEFINE stage == [op[p] EXCEPT !.pc = "resolve"]
    <3>1. op[p] \in Preparing /\ Become(p, stage)
      BY <2>3, StageTypes DEF SaveConfig, TypeInv
    <3>2. ~Resolved(stage)
      BY <3>1 DEF Resolved, Preparing
    <3> HIDE DEF stage
    <3> QED
      BY <3>1, <3>2, BecomesStage
  <2>4. CASE ResolveReady(p) /\ ~Become(p, Idle)
    <3> DEFINE stage == [pc |-> "build", vault |-> op[p].vault, layout |-> op[p].layout,
                         req |-> op[p].req, seq |-> coin[op[p].vault].seq]
    <3>1. /\ op[p] \in Preparing
          /\ coin[op[p].vault].puzzle = Ready(op[p].layout)
          /\ Become(p, stage)
      BY <2>4, StageTypes DEF ResolveReady, TypeInv
    <3>2. Found(stage)
      BY <3>1 DEF Found, Preparing
    <3> HIDE DEF stage
    <3> QED
      BY <3>1, <3>2, BecomesStage
  <2>5. CASE BuildAndSave(p)
    <3>1. PICK next : Become(p, [pc |-> "push", vault |-> op[p].vault,
                                 layout |-> op[p].layout, req |-> op[p].req,
                                 seq |-> op[p].seq, post |-> next])
      BY <2>5 DEF BuildAndSave
    <3> DEFINE stage == [pc |-> "push", vault |-> op[p].vault, layout |-> op[p].layout,
                         req |-> op[p].req, seq |-> op[p].seq, post |-> next]
    <3>2. SameStart(stage, p)
      BY <2>5 DEF SameStart, Resolved, BuildAndSave
    <3>3. Become(p, stage)
      BY <3>1
    <3> HIDE DEF stage
    <3> QED
      BY <3>2, <3>3, BecomesStage
  <2>6. CASE (PushStart(p) \/ PushStartRefused(p)) /\ ~Become(p, Idle)
    <3> DEFINE stage == [op[p] EXCEPT !.pc = "report"]
    <3>1. op[p].pc = "push" /\ Become(p, stage)
      BY <2>6 DEF PushStart, PushStartRefused
    <3>2. op[p] \in Pushing
      BY <3>1, StageTypes DEF TypeInv
    <3>3. SameStart(stage, p)
      BY <3>1, <3>2 DEF SameStart, Resolved, Pushing
    <3> HIDE DEF stage
    <3> QED
      BY <3>1, <3>3, BecomesStage
  <2>7. CASE WrongPhrase(p) \/ Report(p)
    BY <1>2, <2>7 DEF WrongPhrase, Report
  <2> QED
    BY <1>2, <1>3, <2>1, <2>2, <2>3, <2>4, <2>5, <2>6, <2>7 DEF StartStep
<1>4. ASSUME NEW p \in Procs,
             FinishStep(p) \/ \E d \in Dirs : BeginFinish(p, d)
      PROVE  \A q \in Procs : Resolved(op'[q]) => SameStart(op'[q], q) \/ Found(op'[q])
  <2>1. CASE \E d \in Dirs : BeginFinish(p, d)
    <3>1. PICK v, layout, after :
              Become(p, [pc |-> "findReady", vault |-> v, layout |-> layout, post |-> after])
      BY <2>1 DEF BeginFinish
    <3> QED
      BY <3>1, BecomesStage DEF Resolved
  <2>2. CASE FindReady(p) /\ ~Become(p, Idle)
    <3> DEFINE stage == [op[p] EXCEPT !.pc = "findRecovery"]
    <3>1. op[p] \in Finding /\ Become(p, stage)
      BY <2>2, StageTypes DEF FindReady, TypeInv
    <3>2. ~Resolved(stage)
      BY <3>1 DEF Resolved, Finding
    <3> HIDE DEF stage
    <3> QED
      BY <3>1, <3>2, BecomesStage
  <2>3. CASE FindRecovery(p) /\ ~Become(p, Idle)
    <3>1. PICK seq : Become(p, [pc |-> "pushFinish", vault |-> op[p].vault,
                                layout |-> op[p].layout, post |-> op[p].post, seq |-> seq])
      BY <2>3 DEF FindRecovery
    <3> QED
      BY <3>1, BecomesStage DEF Resolved
  <2>4. CASE PushFinish(p) \/ PushFinishRefused(p)
    BY <1>2, <2>4 DEF PushFinish, PushFinishRefused
  <2> QED
    BY <1>2, <1>4, <2>1, <2>2, <2>3, <2>4 DEF FinishStep
<1>5. CASE \E p \in Procs : Abandon(p) \/ DieInWrite(p)
  BY <1>2, <1>5 DEF Abandon, DieInWrite
<1> QED
  BY <1>1, <1>3, <1>4, <1>5 DEF Next

LEMMA FoundGoverns ==
    ASSUME TypeInv, NEW stage, Found(stage)
    PROVE  Governs(stage.vault, stage.seq, stage.layout.timelock)
<1>1. coin[stage.vault].seq \in Nat
  BY DEF Found, TypeInv, TypeOK, ChainTypeOK
<1>2. coin[stage.vault].puzzle.state = "READY"
      /\ coin[stage.vault].puzzle.layout = stage.layout
  BY DEF Found, Ready
<1> QED
  BY <1>1, <1>2 DEF Found, Governs, IsReady, IsRecovery

CountdownInv == WizardTypeInv /\ StagesGoverned /\ SessionsGoverned

LEMMA CountdownStep == CountdownInv /\ [WizardNext]_wizardVars => CountdownInv'
<1> SUFFICES ASSUME CountdownInv, [WizardNext]_wizardVars PROVE CountdownInv'
  OBVIOUS
<1>0. TypeInv /\ WizardTypeOK /\ [Next]_vars
  BY WizardStepIsNext DEF CountdownInv, WizardTypeInv
<1>1. WizardTypeInv'
  BY WizardTypeStep DEF CountdownInv
<1>2. StagesGoverned'
  <2> SUFFICES ASSUME NEW p \in Procs, Resolved(op'[p]), NEW v, NEW seq, NEW secs,
                      v = op'[p].vault, seq = op'[p].seq, secs = op'[p].layout.timelock
               PROVE  Governs(v, seq, secs)'
    BY DEF StagesGoverned, Resolved, Governs, IsReady, IsRecovery
  <2>1. Governs(v, seq, secs)
    <3>1. CASE SameStart(op'[p], p)
      BY <3>1 DEF SameStart, CountdownInv, StagesGoverned
    <3>2. CASE Found(op'[p])
      BY <1>0, <3>2, FoundGoverns
    <3> QED
      BY <1>0, <3>1, <3>2, StageOrigin
  <2> QED
    BY <1>0, <2>1, GovernsKept
<1>3. SessionsGoverned'
  <2> SUFFICES ASSUME NEW s \in Sessions' PROVE Governs(s.vault, s.seq, s.secs)'
    BY DEF SessionsGoverned, Governs, IsReady, IsRecovery
  <2>1. ComesFrom(s)
    BY <1>0, SessionsComeFrom
  <2>2. Governs(s.vault, s.seq, s.secs)
    <3>1. CASE \E x \in Sessions : s.vault = x.vault /\ s.secs = x.secs /\ s.seq = x.seq
      BY <3>1 DEF CountdownInv, SessionsGoverned
    <3>2. CASE \E g \in Guis : /\ op[g].pc = "report"
                               /\ s.vault = op[g].vault
                               /\ s.secs = op[g].layout.timelock
                               /\ s.seq = op[g].seq
      BY <3>2, WizardAssumption DEF CountdownInv, StagesGoverned, Resolved
    <3> QED
      BY <2>1, <3>1, <3>2 DEF ComesFrom
  <2> QED
    BY <1>0, <2>2, GovernsKept
<1> QED
  BY <1>1, <1>2, <1>3 DEF CountdownInv

\* The window that is counted down is the one the chain enforces: the layout a
\* start resolved its coin with is the one the recovery coin keeps its
\* timelock from, and no other recovery can pass for it.
THEOREM CountdownsAreOfWindows == WizardSpec => []CountdownIsOfWindow
<1>1. WizardInit => CountdownInv
  <2> SUFFICES ASSUME WizardInit PROVE CountdownInv
    OBVIOUS
  <2>1. Sessions = {}
    BY DEF WizardInit, Sessions
  <2>2. StagesGoverned
    BY DEF WizardInit, Init, StagesGoverned, Resolved, Idle
  <2> QED
    BY <2>1, <2>2, WizardInitType DEF CountdownInv, SessionsGoverned
<1>2. CountdownInv => CountdownIsOfWindow
  BY DEF CountdownInv, SessionsGoverned, Governs, CountdownIsOfWindow
<1> QED
  BY <1>1, <1>2, CountdownStep, PTL DEF WizardSpec

-----------------------------------------------------------------------------
(* With one window, waiting owns the session.                              *)

OneWindow == \A g, h \in Guis : g = h

OneSession == \E x : session \subseteq {x}

OwnedBy(g) ==
    /\ phase[g] = "wait" => \A s \in waiting[g] : s.saved => session = {s}
    /\ phase[g] \in {"lookup", "fallback"} => session = {}

OwnsInv == OneSession /\ WaitingOwnsSession

LEMMA GuiOwns ==
    ASSUME WizardTypeOK, OwnsInv, OneWindow, NEW g \in Guis, GuiStep(g)
    PROVE  OwnsInv'
<1>0. OwnedBy(g)
  BY DEF OwnsInv, WaitingOwnsSession, OwnedBy
<1> SUFFICES OneSession' /\ OwnedBy(g)'
  BY DEF OwnsInv, OneWindow, WaitingOwnsSession, OwnedBy
<1>1. ASSUME NEW x, NEW S, NEW words, Enter(g, x, S, words)
      PROVE  phase'[g] = x /\ waiting'[g] = S
  BY <1>1 DEF Enter, WizardTypeOK
<1>2. ASSUME session' \in {session, {}}
      PROVE  OneSession'
  BY <1>2 DEF OwnsInv, OneSession
<1>3. ASSUME UNCHANGED <<windows, session>>
      PROVE  OneSession' /\ OwnedBy(g)'
  BY <1>0, <1>2, <1>3 DEF windows, OwnedBy
<1>4. CASE Launch(g)
  <2>1. session' = session
    BY <1>4 DEF Launch
  <2>2. CASE Resumable # {}
    <3>1. phase'[g] = "wait" /\ waiting'[g] = Resumable
      BY <1>1, <1>4, <2>2 DEF Launch
    <3>2. \A s \in Resumable : session = {s}
      BY DEF Resumable, OwnsInv, OneSession
    <3> QED
      BY <1>2, <2>1, <3>1, <3>2 DEF OwnedBy
  <2>3. CASE Resumable = {}
    <3>1. /\ phase'[g] = IF cache # {} THEN "start" ELSE "lookup"
          /\ waiting'[g] = {}
      BY <1>1, <1>4, <2>3 DEF Launch
    <3>2. cache = {} => session = {}
      BY <2>3 DEF Resumable
    <3> QED
      BY <1>2, <2>1, <3>1, <3>2 DEF OwnedBy
  <2> QED
    BY <2>2, <2>3
<1>5. CASE Close(g) \/ Reset(g)
  <2>1. \/ phase'[g] = "closed" /\ session' = session
        \/ phase'[g] = "lookup" /\ session' = {} /\ waiting'[g] = {}
    BY <1>1, <1>5 DEF Close, Closed, Reset
  <2> QED
    BY <1>2, <2>1 DEF OwnedBy
<1>6. CASE \E v \in Looked : LookUp(g, v)
  <2>1. phase[g] \in {"lookup", "fallback"} /\ session = {} /\ session' = {}
    BY <1>0, <1>6 DEF LookUp, OwnedBy
  <2>2. phase'[g] # "wait"
    BY <1>1, <1>6, <2>1 DEF LookUp, windows
  <2> QED
    BY <1>2, <2>1, <2>2 DEF OwnedBy
<1>7. CASE \/ CheckClawback(g)
           \/ \E req \in Requests : ClickStart(g, req)
           \/ ClickFinish(g)
           \/ Working(g)
           \/ Error(g)
  <2>1. UNCHANGED <<phase, waiting, session>>
    BY <1>7 DEF CheckClawback, ClickStart, ClickFinish, Working, Error, Quiet, windows
  <2> QED
    BY <1>0, <1>2, <2>1 DEF OwnedBy
<1>8. CASE BeginWait(g)
  <2>1. PICK saved \in BOOLEAN :
            /\ Enter(g, "wait", {SessionOf(op[g], saved)}, GeneratedIn(op[g]))
            /\ IF saved THEN session' = {SessionOf(op[g], TRUE)}
                        ELSE session' \in {session, {}}
    BY <1>8 DEF BeginWait
  <2>2. phase'[g] = "wait" /\ waiting'[g] = {SessionOf(op[g], saved)}
    BY <1>1, <2>1
  <2>3. SessionOf(op[g], saved).saved = saved
    BY DEF SessionOf
  <2>4. CASE saved
    <3>1. session' = {SessionOf(op[g], saved)}
      BY <2>1, <2>4
    <3> QED
      BY <2>2, <3>1 DEF OneSession, OwnedBy
  <2>5. CASE ~saved
    BY <1>2, <2>1, <2>2, <2>3, <2>5 DEF OwnedBy
  <2> QED
    BY <2>4, <2>5
<1>9. CASE FinishPushed(g) \/ FinishMistaken(g)
  <2>1. CASE session' = {} /\ Enter(g, "done", waiting[g], {})
    BY <1>1, <1>2, <2>1 DEF OwnedBy
  <2>2. CASE UNCHANGED <<phase, waiting, phrase, session>>
    BY <1>0, <1>2, <2>2 DEF OwnedBy
  <2> QED
    BY <1>9, <2>1, <2>2 DEF FinishPushed, FinishMistaken, ShowDone
<1>10. CASE Die(g)
  <2>1. phase'[g] = "closed"
    BY <1>1, <1>10 DEF Die, Closed
  <2>2. session' \in {session, {}, {SessionOf(op[g], TRUE)}}
    BY <1>10 DEF Die
  <2>3. OneSession'
    BY <1>2, <2>2 DEF OneSession
  <2> QED
    BY <2>1, <2>3 DEF OwnedBy
<1> QED
  BY <1>4, <1>5, <1>6, <1>7, <1>8, <1>9, <1>10 DEF GuiStep

LEMMA OlderOwns ==
    ASSUME OwnsInv, TimePasses
    PROVE  OwnsInv'
<1>1. PICK x : session \subseteq {x}
  BY DEF OwnsInv, OneSession
<1>2. session' = Older(session) /\ phase' = phase
      /\ waiting' = [h \in Guis |-> Older(waiting[h])]
  BY DEF TimePasses
<1> DEFINE older(y) == [y EXCEPT !.elapsed = IF @ < MaxAge THEN @ + 1 ELSE @]
<1>3. \A S : Older(S) = {older(y) : y \in S}
  BY DEF Older
<1> HIDE DEF older
<1>4. OneSession'
  BY <1>1, <1>2, <1>3 DEF OneSession
<1>5. ASSUME NEW g \in Guis, phase[g] = "wait", NEW s \in waiting'[g], s.saved
      PROVE  session' = {s}
  <2>1. PICK y \in waiting[g] : s = older(y)
    BY <1>2, <1>3, <1>5
  <2>2. s.saved = y.saved
    BY <2>1 DEF older
  <2>3. session = {y}
    BY <1>5, <2>2 DEF OwnsInv, WaitingOwnsSession
  <2> QED
    BY <1>2, <1>3, <2>1, <2>3
<1>6. ASSUME NEW g \in Guis, phase[g] \in {"lookup", "fallback"}
      PROVE  session' = {}
  BY <1>2, <1>3, <1>6 DEF OwnsInv, WaitingOwnsSession
<1> QED
  BY <1>2, <1>4, <1>5, <1>6 DEF OwnsInv, WaitingOwnsSession

\* With one window open at a time, a Wait that was saved is the session on
\* disk, whatever the runs of the CLI, the crashes and the resets do.
THEOREM WaitOwnsSession ==
    ASSUME OneWindow
    PROVE  WizardSpec => []WaitingOwnsSession
<1>1. WizardInit => OwnsInv
  BY DEF WizardInit, OwnsInv, OneSession, WaitingOwnsSession
<1>2. WizardTypeInv /\ OwnsInv /\ [WizardNext]_wizardVars => OwnsInv'
  <2> SUFFICES ASSUME WizardTypeInv, OwnsInv, [WizardNext]_wizardVars PROVE OwnsInv'
    OBVIOUS
  <2>1. CASE UNCHANGED <<windows, session>>
    BY <2>1 DEF windows, OwnsInv, OneSession, WaitingOwnsSession
  <2>2. CASE \/ UNCHANGED wizardVars
             \/ \E v \in Vaults : Quiet(ChainStep(v)) \/ Quiet(Lose(v))
             \/ \E p \in Clis : CliStep(p)
    BY <2>1, <2>2, CliSteps DEF wizardVars, Quiet
  <2> QED
    BY <2>2, GuiOwns, OlderOwns DEF WizardNext, WizardTypeInv
<1>3. OwnsInv => WaitingOwnsSession
  BY DEF OwnsInv
<1> QED
  BY <1>1, <1>2, <1>3, WizardTypeInvHolds, PTL DEF WizardSpec

-----------------------------------------------------------------------------
(* Finish is of the vault that is shown.                                   *)

\* Every vault has a directory of its own.
OwnDirs == \A v, w \in Vaults : DirOf[v] = DirOf[w] => v = w

ConfigsInPlace == \A d \in Dirs : \A file \in config[d] : DirOf[file.vault] = d

\* A window that is closed runs nothing, one that finishes shows its vault.
Shows(g) ==
    /\ phase[g] = "closed" => op[g] = Idle
    /\ op[g] \in FinishOp => \A s \in waiting[g] : op[g].vault = s.vault

\* There is one session at a time, on disk and on every screen.
OneEach == OneSession /\ \A g \in Guis : \E x : waiting[g] \subseteq {x}

ShownInv == OneEach /\ ConfigsInPlace /\ \A g \in Guis : Shows(g)

LEMMA OneOlder ==
    ASSUME NEW S, \E x : S \subseteq {x}
    PROVE  \E x : Older(S) \subseteq {x}
BY DEF Older

LEMMA OneEachStep ==
    ASSUME WizardTypeOK, OneEach, [WizardNext]_wizardVars
    PROVE  OneEach'
<1>0. OneSession /\ \A h \in Guis : \E x : waiting[h] \subseteq {x}
  BY DEF OneEach
<1>1. ASSUME NEW g \in Guis, NEW x, NEW S, NEW words,
             UNCHANGED waiting \/ Enter(g, x, S, words),
             \E y : S \subseteq {y},
             \E y : session' \subseteq {y}
      PROVE  OneEach'
  <2>1. OneSession'
    BY <1>1 DEF OneSession
  <2>2. \A h \in Guis : waiting'[h] \in {waiting[h], S}
    BY <1>1 DEF Enter, WizardTypeOK
  <2> QED
    BY <1>0, <1>1, <2>1, <2>2 DEF OneEach
<1>2. CASE UNCHANGED <<waiting, session>>
  BY <1>2 DEF OneEach, OneSession
<1>3. CASE TimePasses
  <2>1. \E x : session' \subseteq {x}
    BY <1>0, <1>3, OneOlder DEF TimePasses, OneSession
  <2>2. \A h \in Guis : \E x : waiting'[h] \subseteq {x}
    BY <1>0, <1>3, OneOlder DEF TimePasses
  <2> QED
    BY <2>1, <2>2 DEF OneEach, OneSession
<1>4. ASSUME NEW g \in Guis, GuiStep(g)
      PROVE  OneEach'
  <2>0. \E y : session \subseteq {y}
    BY <1>0 DEF OneSession
  <2>1. CASE Launch(g)
    <3>1. session' = session /\ \E y : Resumable \subseteq {y}
      BY <2>0, <2>1 DEF Launch, Resumable
    <3>2. \E x, words : Enter(g, x, Resumable, words)
      BY <2>1 DEF Launch
    <3> QED
      BY <1>1, <2>0, <3>1, <3>2
  <2>2. CASE Close(g) \/ Reset(g) \/ (\E v \in Looked : LookUp(g, v))
    <3>1. session' \in {session, {}}
      BY <2>2 DEF Close, Reset, LookUp
    <3>2. UNCHANGED waiting \/ \E x, words : Enter(g, x, {}, words)
      BY <2>2 DEF Close, Closed, Reset, LookUp, windows
    <3> QED
      BY <1>1, <2>0, <3>1, <3>2
  <2>3. CASE \/ CheckClawback(g)
             \/ \E req \in Requests : ClickStart(g, req)
             \/ ClickFinish(g)
             \/ Working(g)
             \/ Error(g)
    <3>1. UNCHANGED <<waiting, session>>
      BY <2>3 DEF CheckClawback, ClickStart, ClickFinish, Working, Error, Quiet, windows
    <3> QED
      BY <1>2, <3>1
  <2>4. CASE BeginWait(g)
    <3>1. PICK saved \in BOOLEAN :
              /\ Enter(g, "wait", {SessionOf(op[g], saved)}, GeneratedIn(op[g]))
              /\ IF saved THEN session' = {SessionOf(op[g], TRUE)}
                          ELSE session' \in {session, {}}
      BY <2>4 DEF BeginWait
    <3>2. \E y : session' \subseteq {y}
      BY <2>0, <3>1
    <3> QED
      BY <1>1, <3>1, <3>2
  <2>5. CASE FinishPushed(g) \/ FinishMistaken(g)
    <3>1. session' \in {session, {}}
      BY <2>5 DEF FinishPushed, FinishMistaken, ShowDone
    <3>2. UNCHANGED waiting \/ Enter(g, "done", waiting[g], {})
      BY <2>5 DEF FinishPushed, FinishMistaken, ShowDone
    <3> QED
      BY <1>0, <1>1, <2>0, <3>1, <3>2
  <2>6. CASE Die(g)
    <3>1. Enter(g, "closed", {}, {})
      BY <2>6 DEF Die, Closed
    <3>2. session' \in {session, {}, {SessionOf(op[g], TRUE)}}
      BY <2>6 DEF Die
    <3>3. \E y : session' \subseteq {y}
      BY <2>0, <3>2
    <3> QED
      BY <1>1, <3>1, <3>3
  <2> QED
    BY <1>4, <2>1, <2>2, <2>3, <2>4, <2>5, <2>6 DEF GuiStep
<1>5. CASE \E p \in Clis : CliStep(p)
  BY <1>2, <1>5, CliSteps DEF windows
<1>6. CASE UNCHANGED wizardVars \/ \E v \in Vaults : Quiet(ChainStep(v)) \/ Quiet(Lose(v))
  BY <1>2, <1>6 DEF Quiet, windows, wizardVars
<1> QED
  BY <1>3, <1>4, <1>5, <1>6 DEF WizardNext

LEMMA ConfigsStay ==
    ASSUME TypeInv, ConfigsInPlace, [Next]_vars
    PROVE  ConfigsInPlace'
<1>1. CASE \E p \in Procs : SaveConfig(p) \/ DieInWrite(p)
  <2>1. PICK p \in Procs : SaveConfig(p) \/ DieInWrite(p)
    BY <1>1
  <2>2. CASE SaveConfig(p)
    <3>1. op[p] \in Preparing
      BY <2>2, StageTypes DEF SaveConfig, TypeInv
    <3>2. config' = [config EXCEPT ![DirOf[op[p].vault]] =
                        {[vault |-> op[p].vault, layout |-> op[p].layout]}]
      BY <2>2 DEF SaveConfig
    <3> QED
      BY <3>1, <3>2 DEF ConfigsInPlace, TypeInv, TypeOK
  <2>3. CASE DieInWrite(p)
    BY <2>3 DEF DieInWrite, ConfigsInPlace, TypeInv, TypeOK
  <2> QED
    BY <2>1, <2>2, <2>3
<1>2. CASE UNCHANGED config
  BY <1>2 DEF ConfigsInPlace
<1>3. ASSUME NEW p \in Procs,
             \/ StartStep(p) \/ FinishStep(p) \/ Abandon(p)
             \/ \E d \in Dirs : BeginFinish(p, d)
      PROVE  SaveConfig(p) \/ UNCHANGED config
  BY <1>3 DEF StartStep, BeginStart, BeginStartFromFile, ResolveReady, BuildAndSave,
              WrongPhrase, PushStart, PushStartRefused, Report, FinishStep, FindReady,
              FindRecovery, PushFinish, PushFinishRefused, Abandon, BeginFinish
<1>4. CASE UNCHANGED vars \/ Chain(Tick) \/ \E v \in Vaults : ChainStep(v) \/ Lose(v)
  <2>1. UNCHANGED config
    BY <1>4 DEF vars, toolVars, Chain, ChainStep, Lose
  <2> QED
    BY <1>2, <2>1
<1> QED
  BY <1>1, <1>2, <1>3, <1>4 DEF Next

\* A step of a command that p goes on with.
LEMMA WorkingShows ==
    ASSUME TypeInv, NEW p \in Procs, Working(p)
    PROVE  /\ op[p] # Idle
           /\ \A q \in Procs \ {p} : op'[q] = op[q]
           /\ op'[p] \in FinishOp => op[p] \in FinishOp /\ op'[p].vault = op[p].vault
<1>1. op[p] # Idle
  BY DEF Working, Quiet, Accepting, SaveConfig, ResolveReady, BuildAndSave, WrongPhrase,
         PushStart, PushStartRefused, FindReady, FindRecovery, PushFinishRefused, Idle
<1>2. ASSUME NEW stage, Become(p, stage),
             stage \in FinishOp => op[p] \in FinishOp /\ stage.vault = op[p].vault
      PROVE  /\ \A q \in Procs \ {p} : op'[q] = op[q]
             /\ op'[p] \in FinishOp => op[p] \in FinishOp /\ op'[p].vault = op[p].vault
  BY <1>2 DEF Become, TypeInv, TypeOK
<1>3. Idle \notin FinishOp
  BY DEF Idle, FinishOp, Finding, Closing
<1>4. CASE Quiet(SaveConfig(p))
  <2> DEFINE stage == [op[p] EXCEPT !.pc = "resolve"]
  <2>1. op[p] \in Preparing /\ Become(p, stage)
    BY <1>4, StageTypes DEF Quiet, SaveConfig, TypeInv
  <2>2. stage \notin FinishOp
    BY <2>1 DEF Preparing, FinishOp, Finding, Closing
  <2> HIDE DEF stage
  <2> QED
    BY <1>1, <1>2, <2>1, <2>2
<1>5. CASE Become(p, Idle)
  BY <1>1, <1>2, <1>3, <1>5
<1>6. CASE Quiet(ResolveReady(p)) /\ ~Become(p, Idle)
  <2> DEFINE stage == [pc |-> "build", vault |-> op[p].vault, layout |-> op[p].layout,
                       req |-> op[p].req, seq |-> coin[op[p].vault].seq]
  <2>1. Become(p, stage)
    BY <1>6 DEF Quiet, ResolveReady
  <2>2. stage \notin FinishOp
    BY DEF FinishOp, Finding, Closing
  <2> HIDE DEF stage
  <2> QED
    BY <1>1, <1>2, <2>1, <2>2
<1>7. CASE Quiet(BuildAndSave(p))
  <2>1. PICK next : Become(p, [pc |-> "push", vault |-> op[p].vault,
                               layout |-> op[p].layout, req |-> op[p].req,
                               seq |-> op[p].seq, post |-> next])
    BY <1>7 DEF Quiet, BuildAndSave
  <2> DEFINE stage == [pc |-> "push", vault |-> op[p].vault, layout |-> op[p].layout,
                       req |-> op[p].req, seq |-> op[p].seq, post |-> next]
  <2>2. Become(p, stage)
    BY <2>1
  <2>3. stage \notin FinishOp
    BY DEF FinishOp, Finding, Closing
  <2> HIDE DEF stage
  <2> QED
    BY <1>1, <1>2, <2>2, <2>3
<1>8. CASE (Accepting(p) \/ Quiet(PushStartRefused(p))) /\ ~Become(p, Idle)
  <2> DEFINE stage == [op[p] EXCEPT !.pc = "report"]
  <2>1. op[p].pc = "push" /\ Become(p, stage)
    BY <1>8 DEF Accepting, PushStart, Quiet, PushStartRefused
  <2>2. op[p] \in Pushing
    BY <2>1, StageTypes DEF TypeInv
  <2>3. stage \notin FinishOp
    BY <2>2 DEF Pushing, FinishOp, Finding, Closing
  <2> HIDE DEF stage
  <2> QED
    BY <1>1, <1>2, <2>1, <2>3
<1>9. CASE Quiet(FindReady(p)) /\ ~Become(p, Idle)
  <2> DEFINE stage == [op[p] EXCEPT !.pc = "findRecovery"]
  <2>1. op[p] \in Finding /\ Become(p, stage)
    BY <1>9, StageTypes DEF Quiet, FindReady, TypeInv
  <2>2. op[p] \in FinishOp /\ stage.vault = op[p].vault
    BY <2>1 DEF Finding, FinishOp
  <2> HIDE DEF stage
  <2> QED
    BY <1>1, <1>2, <2>1, <2>2
<1>10. CASE Quiet(FindRecovery(p)) /\ ~Become(p, Idle)
  <2>1. PICK seq : Become(p, [pc |-> "pushFinish", vault |-> op[p].vault,
                              layout |-> op[p].layout, post |-> op[p].post, seq |-> seq])
    BY <1>10 DEF Quiet, FindRecovery
  <2>2. op[p] \in FinishOp
    BY <1>10, StageTypes DEF Quiet, FindRecovery, TypeInv, FinishOp
  <2> QED
    BY <1>1, <1>2, <2>1, <2>2
<1>11. CASE Quiet(WrongPhrase(p)) \/ Quiet(PushFinishRefused(p))
  BY <1>5, <1>11 DEF Quiet, WrongPhrase, PushFinishRefused
<1> QED
  BY <1>4, <1>5, <1>6, <1>7, <1>8, <1>9, <1>10, <1>11 DEF Working

LEMMA GuiShows ==
    ASSUME TypeInv, WizardTypeOK, ShownInv, OwnDirs, NEW g \in Guis, GuiStep(g)
    PROVE  \A h \in Guis : Shows(h)'
<1>0. g \in Procs /\ Guis \subseteq Procs
  BY WizardAssumption
<1>1. Shows(g) /\ \A h \in Guis : Shows(h)
  BY DEF ShownInv
<1>2. Idle \notin FinishOp
  BY DEF Idle, FinishOp, Finding, Closing
<1>3. ASSUME NEW x, NEW S, NEW words, Enter(g, x, S, words), op'[g] = Idle,
             \A q \in Procs \ {g} : op'[q] = op[q]
      PROVE  \A h \in Guis : Shows(h)'
  BY <1>0, <1>1, <1>2, <1>3 DEF Enter, WizardTypeOK, Shows
<1>4. ASSUME UNCHANGED <<phase, waiting>>,
             \A q \in Procs \ {g} : op'[q] = op[q],
             phase[g] = "closed" => op'[g] = Idle,
             op'[g] \in FinishOp => \A s \in waiting[g] : op'[g].vault = s.vault
      PROVE  \A h \in Guis : Shows(h)'
  BY <1>0, <1>1, <1>4 DEF Shows
<1>5. ASSUME NEW stage, Become(g, stage)
      PROVE  op'[g] = stage /\ \A q \in Procs \ {g} : op'[q] = op[q]
  BY <1>0, <1>5 DEF Become, TypeInv, TypeOK
<1>6. CASE Launch(g) \/ Close(g) \/ Reset(g) \/ (\E v \in Looked : LookUp(g, v))
  <2>1. UNCHANGED op
    BY <1>6 DEF Launch, Close, Reset, LookUp, vars, toolVars
  <2>2. op[g] = Idle
    BY <1>1, <1>6 DEF Launch, Close, Reset, LookUp, Shows
  <2>3. UNCHANGED <<phase, waiting>> \/ \E x, S, words : Enter(g, x, S, words)
    BY <1>6 DEF Launch, Close, Closed, Reset, LookUp, windows
  <2> QED
    BY <1>2, <1>3, <1>4, <2>1, <2>2, <2>3
<1>7. CASE CheckClawback(g)
  <2>1. UNCHANGED <<phase, waiting, op>>
    BY <1>7 DEF CheckClawback, windows, vars, toolVars
  <2> QED
    BY <1>1, <1>4, <2>1 DEF Shows
<1>8. CASE \E req \in Requests : ClickStart(g, req)
  <2>1. PICK v, layout, req :
            Become(g, [pc |-> "save", vault |-> v, layout |-> layout, req |-> req])
    BY <1>8 DEF ClickStart, BeginStart
  <2>2. UNCHANGED <<phase, waiting>> /\ phase[g] # "closed"
    BY <1>8 DEF ClickStart, windows
  <2>3. [pc |-> "save", vault |-> v, layout |-> layout, req |-> req] \notin FinishOp
    BY DEF FinishOp, Finding, Closing
  <2> QED
    BY <1>4, <1>5, <2>1, <2>2, <2>3
<1>9. CASE ClickFinish(g)
  <2>1. PICK s \in waiting[g] : BeginFinish(g, DirOf[s.vault])
    BY <1>9 DEF ClickFinish
  <2>2. phase[g] # "closed" /\ UNCHANGED <<phase, waiting>>
    BY <1>9 DEF ClickFinish, windows
  <2>3. PICK file \in config[DirOf[s.vault]], after \in post[DirOf[s.vault]] :
            Become(g, [pc |-> "findReady", vault |-> file.vault,
                       layout |-> file.layout, post |-> after.layout])
    BY <2>1 DEF BeginFinish
  <2>4. /\ op'[g].vault = file.vault
        /\ op'[g] # Idle
        /\ \A q \in Procs \ {g} : op'[q] = op[q]
    BY <1>5, <2>3 DEF Idle
  <2>5. s.vault \in Vaults /\ DirOf[s.vault] \in Dirs /\ file.vault \in Vaults
    BY WorkflowAssumption DEF WizardTypeOK, Session, TypeInv, TypeOK, File
  <2>6. file.vault = s.vault
    BY <2>5 DEF ShownInv, ConfigsInPlace, OwnDirs
  <2>7. \A t \in waiting[g] : t = s
    BY DEF ShownInv, OneEach
  <2> QED
    BY <1>4, <2>2, <2>4, <2>6, <2>7
<1>10. CASE Working(g)
  <2>1. UNCHANGED <<phase, waiting>>
    BY <1>0, <1>10, WorkingSteps DEF windows
  <2> QED
    BY <1>0, <1>1, <1>4, <1>10, <2>1, WorkingShows DEF Shows
<1>11. CASE BeginWait(g) \/ FinishPushed(g) \/ FinishMistaken(g) \/ Error(g) \/ Die(g)
  <2>1. Become(g, Idle)
    BY <1>11 DEF BeginWait, Report, FinishPushed, PushFinish, FinishMistaken,
                 PushFinishRefused, Error, Quiet, Die, Abandon, DieInWrite
  <2>2. UNCHANGED <<phase, waiting>> \/ \E x, S, words : Enter(g, x, S, words)
    BY <1>11 DEF BeginWait, FinishPushed, FinishMistaken, ShowDone, Error, Quiet, Die,
                 Closed, windows
  <2> QED
    BY <1>2, <1>3, <1>4, <1>5, <2>1, <2>2
<1> QED
  BY <1>6, <1>7, <1>8, <1>9, <1>10, <1>11 DEF GuiStep

\* A run of the CLI leaves the command of every window alone.
LEMMA CliFrame ==
    ASSUME TypeInv, NEW p \in Clis, CliStep(p)
    PROVE  \A g \in Guis : op'[g] = op[g]
<1>0. p \in Procs /\ Guis \subseteq Procs /\ p \notin Guis
  BY WizardAssumption DEF Clis
<1>1. CASE Working(p)
  BY <1>0, <1>1, WorkingShows
<1>2. CASE \E v \in Looked : CliLookUp(p, v)
  BY <1>2 DEF CliLookUp, vars, toolVars
<1>3. CASE \/ \E v \in Vaults, req \in Requests : CliStart(p, v, req)
           \/ \E d \in Dirs, req \in Requests : Quiet(BeginStartFromFile(p, d, req))
           \/ \E d \in Dirs : Quiet(BeginFinish(p, d))
           \/ Quiet(Report(p)) \/ Quiet(PushFinish(p))
           \/ Quiet(Abandon(p)) \/ Quiet(DieInWrite(p))
  <2>1. \E stage : Become(p, stage)
    BY <1>3 DEF CliStart, BeginStart, Quiet, BeginStartFromFile, BeginFinish, Report,
                PushFinish, Abandon, DieInWrite
  <2> QED
    BY <1>0, <2>1 DEF Become, TypeInv, TypeOK
<1> QED
  BY <1>1, <1>2, <1>3 DEF CliStep

LEMMA ShownStep ==
    ASSUME WizardTypeInv, ShownInv, OwnDirs, [WizardNext]_wizardVars
    PROVE  ShownInv'
<1> USE DEF WizardTypeInv
<1>1. ConfigsInPlace' /\ OneEach'
  BY ConfigsStay, OneEachStep, WizardStepIsNext DEF ShownInv
<1>2. ASSUME UNCHANGED <<phase, waiting>>, \A g \in Guis : op'[g] = op[g]
      PROVE  \A g \in Guis : Shows(g)'
  BY <1>2 DEF ShownInv, Shows
<1>3. CASE TimePasses
  <2>1. phase' = phase /\ waiting' = [g \in Guis |-> Older(waiting[g])]
    BY <1>3 DEF TimePasses
  <2>2. UNCHANGED op
    BY <1>3 DEF TimePasses, Chain, vars, toolVars
  <2>3. \A g \in Guis : \A y \in waiting'[g] : \E x \in waiting[g] : y.vault = x.vault
    BY <2>1, OlderSessions DEF WizardTypeOK
  <2> QED
    BY <1>1, <2>1, <2>2, <2>3 DEF ShownInv, Shows
<1>4. CASE UNCHANGED wizardVars \/ \E v \in Vaults : Quiet(ChainStep(v)) \/ Quiet(Lose(v))
  <2>1. UNCHANGED <<op, windows>>
    BY <1>4 DEF Quiet, wizardVars, vars, toolVars, ChainStep, Chain, Lose
  <2> QED
    BY <1>1, <1>2, <2>1 DEF ShownInv, windows
<1>5. CASE \E p \in Clis : CliStep(p)
  <2>1. UNCHANGED windows /\ \A g \in Guis : op'[g] = op[g]
    BY <1>5, CliSteps, CliFrame
  <2> QED
    BY <1>1, <1>2, <2>1 DEF ShownInv, windows
<1>6. CASE \E g \in Guis : GuiStep(g)
  BY <1>1, <1>6, GuiShows DEF ShownInv
<1> QED
  BY <1>3, <1>4, <1>5, <1>6 DEF WizardNext

\* Where every vault has a directory of its own, the Finish button of a Wait
\* screen finishes the vault that is shown: the session names the files of no
\* other, and none is written over them.
THEOREM ShownVaultFinished ==
    ASSUME OwnDirs
    PROVE  WizardSpec => []FinishesShownVault
<1>1. WizardInit => ShownInv
  <2> SUFFICES ASSUME WizardInit PROVE ShownInv
    OBVIOUS
  <2>1. Idle \notin FinishOp
    BY DEF Idle, FinishOp, Finding, Closing
  <2>2. \A g \in Guis : Shows(g)
    BY <2>1, WizardAssumption DEF WizardInit, Init, Shows
  <2> QED
    BY <2>2 DEF WizardInit, Init, ShownInv, OneEach, OneSession, ConfigsInPlace
<1>2. WizardTypeInv /\ ShownInv /\ [WizardNext]_wizardVars => ShownInv'
  BY ShownStep
<1>3. ShownInv => FinishesShownVault
  BY DEF ShownInv, Shows, FinishesShownVault
<1> QED
  BY <1>1, <1>2, <1>3, WizardTypeInvHolds, PTL DEF WizardSpec
-----------------------------------------------------------------------------
(* How far Done is true.                                                   *)

\* When a window comes to Done, the vault it waited for is in RECOVERY, its
\* window has passed and the network holds the finish of it.
DoneAwaitsBlock ==
    \A g \in Guis :
        (phase[g] # "done" /\ phase'[g] = "done") =>
            \A s \in waiting'[g] :
                /\ IsRecovery(s.vault) /\ Matured(s.vault)
                /\ \E seq : pool'[s.vault] = {FinishSpend(seq, coin[s.vault].puzzle.post)}
                /\ UNCHANGED coin

\* Only the answer to a finish opens Done.
LEMMA OpensDone ==
    ASSUME WizardTypeOK, WizardNext, NEW g \in Guis, phase[g] # "done", phase'[g] = "done"
    PROVE  /\ FinishPushed(g) \/ FinishMistaken(g)
           /\ waiting'[g] = waiting[g]
<1>1. phase' # phase
  OBVIOUS
<1>2. ASSUME NEW h \in Guis, NEW x, NEW S, NEW words, Enter(h, x, S, words)
      PROVE  h = g /\ x = "done" /\ waiting'[g] = S
  BY <1>2 DEF Enter, WizardTypeOK
<1>3. ~(\/ TimePasses
        \/ \E v \in Vaults : Quiet(ChainStep(v)) \/ Quiet(Lose(v))
        \/ \E p \in Clis : CliStep(p))
  BY <1>1, CliSteps DEF TimePasses, Quiet, windows
<1>4. PICK h \in Guis : GuiStep(h)
  BY <1>3 DEF WizardNext
<1>5. CASE FinishPushed(h) \/ FinishMistaken(h)
  BY <1>1, <1>2, <1>5 DEF FinishPushed, FinishMistaken, ShowDone
<1>6. CASE Launch(h) \/ Close(h) \/ Reset(h) \/ \E v \in Looked : LookUp(h, v)
  BY <1>1, <1>2, <1>6 DEF Launch, Close, Closed, Reset, LookUp, windows
<1>7. CASE CheckClawback(h) \/ (\E req \in Requests : ClickStart(h, req)) \/ ClickFinish(h)
  BY <1>1, <1>7 DEF CheckClawback, ClickStart, ClickFinish, windows
<1>8. CASE Working(h)
  BY <1>1, <1>8, WorkingSteps, WizardAssumption DEF windows
<1>9. CASE BeginWait(h)
  <2>1. PICK S, words : Enter(h, "wait", S, words)
    BY <1>9 DEF BeginWait
  <2> QED
    BY <1>2, <2>1
<1>10. CASE Error(h)
  BY <1>1, <1>10 DEF Error, Quiet, windows
<1>11. CASE Die(h)
  <2>1. Enter(h, "closed", {}, {})
    BY <1>11 DEF Die, Closed
  <2> QED
    BY <1>2, <2>1
<1> QED
  BY <1>4, <1>5, <1>6, <1>7, <1>8, <1>9, <1>10, <1>11 DEF GuiStep

\* A finish that is refused is not taken for one that was pushed.
FinishRefusalsHaveStatus == \A g \in Guis : ~FinishMistaken(g)

\* Where refusals give a status Done is early by one block: if every vault has
\* its own directory, it is shown only when the finish of the vault waited for
\* has nothing to wait for but its confirmation, which an eviction or the
\* custody holder can still prevent.
THEOREM DoneOnlyAwaitsBlock ==
    ASSUME OwnDirs
    PROVE  WizardSpec /\ [][FinishRefusalsHaveStatus]_wizardVars
             => [][DoneAwaitsBlock]_wizardVars
<1>1. WizardTypeInv /\ FinishesShownVault /\ [WizardNext]_wizardVars
        /\ [FinishRefusalsHaveStatus]_wizardVars
        => [DoneAwaitsBlock]_wizardVars
  <2> SUFFICES ASSUME WizardTypeInv, FinishesShownVault, WizardNext,
                      [FinishRefusalsHaveStatus]_wizardVars,
                      NEW g \in Guis, phase[g] # "done", phase'[g] = "done",
                      NEW s \in waiting'[g]
               PROVE  /\ IsRecovery(s.vault) /\ Matured(s.vault)
                      /\ \E seq : pool'[s.vault] = {FinishSpend(seq, coin[s.vault].puzzle.post)}
                      /\ UNCHANGED coin
    BY DEF DoneAwaitsBlock
  <2>0. ~FinishMistaken(g)
    BY DEF FinishRefusalsHaveStatus, wizardVars, windows
  <2>1. PushFinish(g) /\ s \in waiting[g]
    BY <2>0, OpensDone DEF WizardTypeInv, FinishPushed
  <2>2. g \in Procs /\ op[g] \in Closing
    BY <2>1, StageTypes, WizardAssumption DEF WizardTypeInv, TypeInv, PushFinish
  <2>3. op[g].vault = s.vault /\ s.vault \in Vaults
    BY <2>1, <2>2 DEF FinishesShownVault, FinishOp, Closing
  <2>4. /\ Accepts(s.vault, FinishSpendOf(g))
        /\ Hold(s.vault, FinishSpendOf(g))
        /\ UNCHANGED coin
    BY <2>1, <2>3 DEF PushFinish
  <2>5. /\ IsRecovery(s.vault) /\ Matured(s.vault)
        /\ op[g].post = coin[s.vault].puzzle.post
    BY <2>4 DEF Accepts, Runs, FinishSpendOf, FinishSpend
  <2>6. pool'[s.vault] = {FinishSpend(op[g].seq, coin[s.vault].puzzle.post)}
    BY <2>3, <2>4, <2>5 DEF Hold, FinishSpendOf, WizardTypeInv, TypeInv, TypeOK, ChainTypeOK
  <2> QED
    BY <2>4, <2>5, <2>6
<1> QED
  BY <1>1, WizardTypeInvHolds, ShownVaultFinished, PTL DEF WizardSpec
=============================================================================
