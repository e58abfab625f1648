------------------------------- MODULE GuiWizard -------------------------------
(***************************************************************************)
(* The wizard of the GUI (src/src/bin/gui/app, session.rs) around the      *)
(* workflows: its phases, gui-session.json, the lookup cache as far as a   *)
(* launch reads it, and the countdown.  The window can be closed or die at *)
(* any time, and runs of the CLI share the cache and the config files.     *)
(*                                                                         *)
(* Every step of a start or a finish is the step of RecoveryWorkflow, with *)
(* what the wizard does beside it.  A button blocks the window until its   *)
(* command is done, so a GUI acts on the wizard only when it is idle.      *)
(***************************************************************************)
EXTENDS RecoveryWorkflow

CONSTANTS
    Guis,      \* the processes that are windows of the GUI
    Elsewhere  \* the address of a vault this tool does not recover

Clis == Procs \ Guis

Looked == Vaults \cup {Elsewhere}

ASSUME WizardAssumption ==
    /\ Guis \subseteq Procs
    /\ Elsewhere \notin Vaults

VARIABLES
    cache,    \* lookup-cache.json: {}, or whose lookup it holds
    entry,    \* entry[g]: the same of the cache that window g has in memory
    phase,    \* phase[g]: the screen of window g
    waiting,  \* waiting[g]: {} or the session of the Wait screen of g
    phrase,   \* phrase[g]: the generated phrase g shows, if any
    session,  \* gui-session.json: {} (missing or unreadable) or a session
    accepted  \* the starts a node took: vault, coin and new layout (history)

windows == <<entry, phase, waiting, phrase>>
wizardVars == <<vars, cache, windows, session, accepted>>

(* Of startedAt only the time since matters.  History: saved, FALSE when    *)
(* the user was warned that it is not on disk, and the start: seq, the coin *)
(* it spends, and post, the layout it commits to.                           *)
Session == [vault : Vaults, secs : Timelocks, elapsed : Nat, saved : BOOLEAN,
            seq : Nat, post : Layout]

Phases == {"closed", "lookup", "fallback", "start", "wait", "done"}

WizardTypeOK ==
    /\ cache \in SUBSET Looked
    /\ entry \in [Guis -> SUBSET Looked]
    /\ phase \in [Guis -> Phases]
    /\ waiting \in [Guis -> SUBSET Session]
    /\ phrase \in [Guis -> SUBSET GeneratedKeys]
    /\ session \in SUBSET Session
    /\ accepted \in SUBSET (Vaults \X Nat \X Layout)

-----------------------------------------------------------------------------
(* Screens.                                                                *)

\* Enter screen x with session set s and generated phrase words.
Enter(g, x, s, words) ==
    /\ phase'   = [phase EXCEPT ![g] = x]
    /\ waiting' = [waiting EXCEPT ![g] = s]
    /\ phrase'  = [phrase EXCEPT ![g] = words]

Closed(g) ==
    /\ Enter(g, "closed", {}, {})
    /\ entry' = [entry EXCEPT ![g] = {}]

\* A mutant: a session is resumed only when no lookup is saved.
ResumableAlone == {s \in session : cache = {}}

\* session_matches_cache: the cache is empty, or about the same vault.
Resumable == {s \in session : cache \subseteq {s.vault}}

\* App::new and resume_from_disk.  Both files of a session are there: they
\* were saved before it, and nothing removes them.
Launch(g) ==
    /\ phase[g] = "closed"
    /\ entry' = [entry EXCEPT ![g] = cache]
    /\ IF Resumable # {} THEN Enter(g, "wait", Resumable, {})
       ELSE Enter(g, IF cache # {} THEN "start" ELSE "lookup", {}, {})
    /\ UNCHANGED <<vars, cache, session, accepted>>

\* A window is closed between two commands.
Close(g) ==
    /\ phase[g] # "closed"
    /\ op[g] = Idle
    /\ Closed(g)
    /\ UNCHANGED <<vars, cache, session, accepted>>

\* "Look up a different vault".
Reset(g) ==
    /\ phase[g] \in {"start", "wait", "done"}
    /\ op[g] = Idle
    /\ session' = {}
    /\ Enter(g, "lookup", {}, {})
    /\ UNCHANGED <<vars, cache, entry, accepted>>

\* lookup_inner: apply_lookup, whose save of the cache may fail, or a gap.
LookUp(g, v) ==
    /\ phase[g] \in {"lookup", "fallback"}
    /\ op[g] = Idle
    /\ \/ /\ session' = {}
          /\ \/ /\ cache' = {v}
                /\ entry' = [entry EXCEPT ![g] = {v}]
                /\ Enter(g, "start", {}, {})
             \/ /\ cache' \in {cache, {}}
                /\ UNCHANGED windows
       \/ /\ Enter(g, "fallback", {}, phrase[g])
          /\ UNCHANGED <<cache, entry, session>>
    /\ UNCHANGED <<vars, accepted>>

\* A clawback check saves its guess with the entry the window has in memory.
CheckClawback(g) ==
    /\ phase[g] = "start"
    /\ op[g] = Idle
    /\ cache' = entry[g]
    /\ UNCHANGED <<vars, windows, session, accepted>>

-----------------------------------------------------------------------------
(* Start from a window.                                                    *)

\* start_inner, up to the config it saves; prepare_start may save a guess.
ClickStart(g, req) ==
    /\ phase[g] = "start"
    /\ req.timelock = Keep
    /\ \E v \in entry[g] \cap Vaults : BeginStart(g, v, req)
    /\ cache' \in {cache, entry[g]}
    /\ UNCHANGED <<windows, session, accepted>>

\* A mutant: the clawback asked for the new layout, which the GUI never asks.
SessionOfNew(stage, saved) ==
    [vault |-> stage.vault, secs |-> stage.req.timelock, elapsed |-> 0,
     saved |-> saved, seq |-> stage.seq, post |-> stage.post]

SessionOf(stage, saved) ==
    [vault |-> stage.vault, secs |-> stage.layout.timelock, elapsed |-> 0,
     saved |-> saved, seq |-> stage.seq, post |-> stage.post]

\* begin_wait.  A session that cannot be saved is only warned about.
BeginWait(g) ==
    /\ Report(g)
    /\ \E saved \in BOOLEAN :
        /\ Enter(g, "wait", {SessionOf(op[g], saved)}, GeneratedIn(op[g]))
        /\ IF saved THEN session' = {SessionOf(op[g], TRUE)} ELSE session' \in {session, {}}
    /\ UNCHANGED <<cache, entry, accepted>>

-----------------------------------------------------------------------------
(* Finish from a window.                                                   *)

\* A mutant: the session is removed before the finish is known to be taken.
ClickFinishForgetting(g) ==
    /\ phase[g] = "wait"
    /\ \E s \in waiting[g] : BeginFinish(g, DirOf[s.vault])
    /\ session' = {}
    /\ UNCHANGED <<cache, windows, accepted>>

\* A mutant: the files are taken from the path fields of the form.
ClickFinishFromForm(g) ==
    /\ phase[g] = "wait"
    /\ \E d \in Dirs : BeginFinish(g, d)
    /\ UNCHANGED <<cache, windows, session, accepted>>

\* finish_inner, both loads: from the paths of the session.
ClickFinish(g) ==
    /\ phase[g] = "wait"
    /\ \E s \in waiting[g] : BeginFinish(g, DirOf[s.vault])
    /\ UNCHANGED <<cache, windows, session, accepted>>

\* push_tx is Ok.  (On Done what was waited for is history.)
ShowDone(g) ==
    /\ session' = {}
    /\ Enter(g, "done", waiting[g], {})

\* The answer to the push arrives, or is lost and reported as an error.
FinishPushed(g) ==
    /\ PushFinish(g)
    /\ ShowDone(g) \/ UNCHANGED <<phase, waiting, phrase, session>>
    /\ UNCHANGED <<cache, entry, accepted>>

\* A refusal that gives no status is taken for a success.  (A node that
\* keeps the spend says PENDING.)
FinishMistaken(g) ==
    /\ PushFinishRefused(g)
    /\ UNCHANGED pool
    /\ ShowDone(g)
    /\ UNCHANGED <<cache, entry, accepted>>

-----------------------------------------------------------------------------
(* The steps of a command that leave the wizard alone.                     *)

Accepting(p) ==
    /\ PushStart(p)
    /\ accepted' = accepted \cup {<<op[p].vault, op[p].seq, op[p].post>>}

Quiet(step) == step /\ UNCHANGED <<cache, windows, session, accepted>>

Working(p) ==
    \/ Quiet(SaveConfig(p))
    \/ Quiet(ResolveReady(p))
    \/ Quiet(BuildAndSave(p))
    \/ Quiet(WrongPhrase(p))
    \/ Accepting(p) /\ UNCHANGED <<cache, windows, session>>
    \/ Quiet(PushStartRefused(p))
    \/ Quiet(FindReady(p))
    \/ Quiet(FindRecovery(p))
    \/ Quiet(PushFinishRefused(p))

\* A request of a command fails; the window stays where it is.
Error(g) ==
    /\ op[g] # Idle
    /\ op[g].pc # "report"
    /\ Quiet(Abandon(g))

(* The window dies in the middle of a command: before, in or after the     *)
(* save of the session when the push has been answered.                    *)
Die(g) ==
    /\ Abandon(g) \/ DieInWrite(g)
    /\ Closed(g)
    /\ IF op[g].pc = "report" THEN session' \in {session, {}, {SessionOf(op[g], TRUE)}}
       ELSE UNCHANGED session
    /\ UNCHANGED <<cache, accepted>>

-----------------------------------------------------------------------------
(* Runs of the CLI: the same commands, with no wizard around them.         *)

CliLookUp(p, v) ==
    /\ op[p] = Idle
    /\ cache' = {v}
    /\ UNCHANGED <<vars, windows, session, accepted>>

\* start --vault saves a lookup or a guess for the address it is given.
CliStart(p, v, req) ==
    /\ BeginStart(p, v, req)
    /\ cache' = {v}
    /\ UNCHANGED <<windows, session, accepted>>

CliStep(p) ==
    \/ \E v \in Looked : CliLookUp(p, v)
    \/ \E v \in Vaults, req \in Requests : CliStart(p, v, req)
    \/ \E d \in Dirs, req \in Requests : Quiet(BeginStartFromFile(p, d, req))
    \/ \E d \in Dirs : Quiet(BeginFinish(p, d))
    \/ Working(p)
    \/ Quiet(Report(p))
    \/ Quiet(PushFinish(p))
    \/ Quiet(Abandon(p))
    \/ Quiet(DieInWrite(p))

-----------------------------------------------------------------------------
(* Time: the countdown of a session goes on, ages stop at their bound.     *)

Older(s) == {[x EXCEPT !.elapsed = IF @ < MaxAge THEN @ + 1 ELSE @] : x \in s}

TimePasses ==
    /\ \/ Chain(Tick)
       \/ (\A v \in Vaults : age[v] = MaxAge) /\ UNCHANGED vars
    /\ session' = Older(session)
    /\ waiting' = [g \in Guis |-> Older(waiting[g])]
    /\ UNCHANGED <<cache, entry, phase, phrase, accepted>>

-----------------------------------------------------------------------------

WizardInit ==
    /\ Init
    /\ cache = {}
    /\ entry = [g \in Guis |-> {}]
    /\ phase = [g \in Guis |-> "closed"]
    /\ waiting = [g \in Guis |-> {}]
    /\ phrase = [g \in Guis |-> {}]
    /\ session = {}
    /\ accepted = {}

GuiStep(g) ==
    \/ Launch(g)
    \/ Close(g)
    \/ Reset(g)
    \/ \E v \in Looked : LookUp(g, v)
    \/ CheckClawback(g)
    \/ \E req \in Requests : ClickStart(g, req)
    \/ Working(g)
    \/ BeginWait(g)
    \/ ClickFinish(g)
    \/ FinishPushed(g)
    \/ FinishMistaken(g)
    \/ Error(g)
    \/ Die(g)

WizardNext ==
    \/ TimePasses
    \/ \E v \in Vaults : Quiet(ChainStep(v)) \/ Quiet(Lose(v))
    \/ \E g \in Guis : GuiStep(g)
    \/ \E p \in Clis : CliStep(p)

WizardSpec == WizardInit /\ [][WizardNext]_wizardVars

(* Time passes and blocks are made, a command that was begun runs on, and   *)
(* the user comes back: to a window that was closed, to Finish on a Wait    *)
(* screen, and to finish in the CLI.  Nobody has to start, look up or leave.*)
WizardFairness ==
    /\ WF_wizardVars(TimePasses)
    /\ \A v \in Vaults : WF_wizardVars(Quiet(Chain(ConfirmFinish(v))))
    /\ \A p \in Procs : WF_wizardVars(Working(p))
    /\ \A p \in Clis : WF_wizardVars(Quiet(Report(p))) /\ WF_wizardVars(Quiet(PushFinish(p)))
    /\ \A d \in Dirs : SF_wizardVars(\E p \in Clis : Quiet(BeginFinish(p, d)))
    /\ \A g \in Guis :
        /\ WF_wizardVars(Launch(g))
        /\ WF_wizardVars(BeginWait(g))
        /\ WF_wizardVars(FinishPushed(g))
        /\ SF_wizardVars(ClickFinish(g))

WizardFairSpec == WizardSpec /\ WizardFairness

-----------------------------------------------------------------------------
(* Properties.                                                             *)

Sessions == session \cup UNION {waiting[g] : g \in Guis}

\* A Wait screen, and a session that a launch would open it with, is of a
\* start that a node has taken: "Vault entering RECOVERY", as start_inner
\* says.  It holds as far as a refusal gives its status.
WaitIsOfTakenStart ==
    \A s \in Sessions : <<s.vault, s.seq, s.post>> \in accepted

\* While the recovery that a session recorded is on chain, its countdown runs
\* over the clawback window of the coin: it can be wrong only by the time the
\* start took to be confirmed.
CountdownIsOfWindow ==
    \A s \in Sessions :
        (coin[s.vault].seq = s.seq + 1 /\ IsRecovery(s.vault)) =>
            s.secs = coin[s.vault].puzzle.timelock

\* Waiting owns the session on disk: whatever other commands do to the cache
\* or the files, a Wait that was saved can be resumed, and a window that looks
\* vaults up has none to lose.
WaitingOwnsSession ==
    \A g \in Guis :
        /\ phase[g] = "wait" => \A s \in waiting[g] : s.saved => session = {s}
        /\ phase[g] \in {"lookup", "fallback"} => session = {}

\* Finish on the Wait screen of a vault finishes that vault.
FinishesShownVault ==
    \A g \in Guis :
        op[g] \in FinishOp => \A s \in waiting[g] : op[g].vault = s.vault

\* A recovery waited for is finished or clawed back, however often the window
\* is closed or dies: unless the session is gone (the user left, it was never
\* saved, or Done was shown) or the CLI has looked up another vault.
WaitMovesOn ==
    \A g \in Guis, v \in Vaults :
        (IsRecovery(v) /\ \E s \in waiting[g] : phase[g] = "wait" /\ s.vault = v)
            ~> (IsReady(v) \/ session = {} \/ ~(cache \subseteq {v}))

\* "Recovery finished. Custody is now the new BLS key."
DoneIsTrue ==
    \A g \in Guis :
        phase[g] = "done" => \A s \in waiting[g] : ~IsRecovery(s.vault)
=============================================================================
