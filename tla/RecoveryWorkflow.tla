--------------------------- MODULE RecoveryWorkflow ---------------------------
(***************************************************************************)
(* Start and finish, as the CLI commands and the GUI buttons run them:     *)
(* several processes of the tool, each a chain of awaits on a node, share  *)
(* the two config files and the vaults.  A process can die at any await,   *)
(* a request or an answer can be lost, and the chain moves in between.     *)
(*                                                                         *)
(* A start (src/src/workflow.rs, start) saves vault-config.json, resolves  *)
(* the READY coin, saves the post-recovery config, pushes, and reports     *)
(* the generated phrase.  A finish loads both files, resolves the RECOVERY *)
(* coin and pushes.                                                        *)
(***************************************************************************)
EXTENDS VaultSingleton, FiniteSets

CONSTANTS
    Procs,          \* processes of the tool (the GUI, runs of the CLI)
    Dirs, DirOf,    \* DirOf[v]: where the user keeps the config files of v
    Requests,       \* what the user may type at Start
    GeneratedKeys,  \* recovery keys generate_mnemonic can come up with
    AutoPhrase,     \* new recovery phrase left empty: generate one
    Keep,           \* no new clawback given: keep the current one
    Retry,          \* when the user starts again, see MayBegin
    AtomicWrites,   \* a crash never leaves half a file
    MaxFaults       \* bound: lost calls, evictions and crashes

Request ==
    [phrase   : RecoveryKeys,                   \* the current recovery phrase
     custody  : CustodyKeys,                    \* the new custody phrase
     recovery : RecoveryKeys \cup {AutoPhrase}, \* the new recovery phrase
     timelock : Timelocks \cup {Keep}]          \* --new-clawback-secs

ASSUME WorkflowAssumption ==
    /\ Requests \subseteq Request
    /\ DirOf \in [Vaults -> Dirs]
    /\ GeneratedKeys \subseteq RecoveryKeys
    /\ AutoPhrase \notin RecoveryKeys
    /\ Keep \notin Timelocks
    /\ Retry \in {"any", "same", "wait"}
    /\ AtomicWrites \in BOOLEAN
    /\ MaxFaults \in Nat

VARIABLES
    op,      \* op[p]: what process p is doing and has learnt so far
    config,  \* config[d]: {} (missing or unreadable) or the vault-config file
    post,    \* post[d]: {} or the post-recovery config file
    minted,  \* recovery keys generated so far
    shown,   \* generated phrases the user has been shown
    faults,  \* faults so far
    asked,   \* asked[v]: the requests made for v (history)
    intent,  \* intent[v]: {} or the last start begun on v (history)
    taken    \* generated keys of starts a node took (history)

toolVars == <<op, config, post, minted, shown>>
userVars == <<asked, intent>>
vars == <<chainVars, toolVars, userVars, faults, taken>>

-----------------------------------------------------------------------------
(* The stages of a start and of a finish, each with what it has gathered.  *)

Idle == [pc |-> "idle"]

File == [vault : Vaults, layout : Layout]

Preparing == [pc : {"save", "resolve"}, vault : Vaults, layout : Layout, req : Requests]
Building  == [pc : {"build"}, vault : Vaults, layout : Layout, req : Requests, seq : Nat]
Pushing   == [pc : {"push", "report"}, vault : Vaults, layout : Layout, req : Requests,
              seq : Nat, post : Layout]
Finding   == [pc : {"findReady", "findRecovery"}, vault : Vaults, layout : Layout,
              post : Layout]
Closing   == [pc : {"pushFinish"}, vault : Vaults, layout : Layout, post : Layout, seq : Nat]

StartOp  == Preparing \cup Building \cup Pushing
FinishOp == Finding \cup Closing

TypeOK ==
    /\ ChainTypeOK
    /\ op \in [Procs -> {Idle} \cup StartOp \cup FinishOp]
    /\ config \in [Dirs -> SUBSET File]
    /\ post \in [Dirs -> SUBSET File]
    /\ minted \subseteq GeneratedKeys
    /\ shown \subseteq GeneratedKeys
    /\ taken \subseteq GeneratedKeys
    /\ faults \in Nat
    /\ asked \in [Vaults -> SUBSET Requests]
    /\ intent \in [Vaults -> SUBSET [layout : Layout, req : Requests]]

Become(p, stage) == op' = [op EXCEPT ![p] = stage]

StartPcs == {"save", "resolve", "build", "push", "report"}

Starting(p, v) == op[p].pc \in StartPcs /\ op[p].vault = v

-----------------------------------------------------------------------------
(* When a user begins a start.  "any": whenever.  "wait": only when no     *)
(* start on the vault is running, held by the network or confirmed.        *)
(* "same": also then, with the layout and the phrases of the last start.   *)

Undecided(v) ==
    \/ \E p \in Procs : Starting(p, v)
    \/ pool[v] # {}
    \/ IsRecovery(v)

MayBegin(v, layout, req) ==
    \/ Retry = "any"
    \/ /\ ~Undecided(v)
       /\ layout = last[v]
    \/ /\ Retry = "same"
       /\ req.recovery # AutoPhrase
       /\ intent[v] = {[layout |-> layout, req |-> req]}

\* Bound: a generated key is left for every start that will want one.
KeysLeft(req) ==
    req.recovery = AutoPhrase =>
        Cardinality(minted)
            + Cardinality({p \in Procs : /\ op[p].pc \in {"save", "resolve", "build"}
                                         /\ op[p].req.recovery = AutoPhrase})
            < Cardinality(GeneratedKeys)

Asks(v, layout, req) ==
    /\ MayBegin(v, layout, req)
    /\ KeysLeft(req)
    /\ asked'  = [asked EXCEPT ![v] = @ \cup {req}]
    /\ intent' = [intent EXCEPT ![v] = {[layout |-> layout, req |-> req]}]

-----------------------------------------------------------------------------
(* Start.                                                                  *)

(* From an address.  prepare_start yields a layout the vault has had, with *)
(* the recovery key of the phrase typed: a hint hashed to the coin of its  *)
(* time, a reconstruction to the coin or to an ancestor.                   *)
BeginStart(p, v, req) ==
    \E layout \in past[v] :
        /\ op[p] = Idle
        /\ layout.recovery = req.phrase
        /\ Asks(v, layout, req)
        /\ Become(p, [pc |-> "save", vault |-> v, layout |-> layout, req |-> req])
        /\ UNCHANGED <<chainVars, config, post, minted, shown, faults, taken>>

\* From a vault-config file: nothing is checked against the phrase yet.
BeginStartFromFile(p, d, req) ==
    \E file \in config[d] :
        /\ op[p] = Idle
        /\ Asks(file.vault, file.layout, req)
        /\ Become(p, [pc |-> "resolve", vault |-> file.vault, layout |-> file.layout,
                      req |-> req])
        /\ UNCHANGED <<chainVars, config, post, minted, shown, faults, taken>>

SaveConfig(p) ==
    /\ op[p].pc = "save"
    /\ config' = [config EXCEPT ![DirOf[op[p].vault]] =
                        {[vault |-> op[p].vault, layout |-> op[p].layout]}]
    /\ Become(p, [op[p] EXCEPT !.pc = "resolve"])
    /\ UNCHANGED <<chainVars, post, minted, shown, userVars, faults, taken>>

\* A mutant: the coin is found by its launcher, whatever layout it has.
ResolveByLauncher(p) ==
    /\ op[p].pc = "resolve"
    /\ Become(p, [pc |-> "build", vault |-> op[p].vault, layout |-> op[p].layout,
                  req |-> op[p].req, seq |-> coin[op[p].vault].seq])
    /\ UNCHANGED <<chainVars, config, post, minted, shown, userVars, faults, taken>>

\* One query for an unspent coin at the READY hash of the config.
ResolveReady(p) ==
    /\ op[p].pc = "resolve"
    /\ IF coin[op[p].vault].puzzle = Ready(op[p].layout)
       THEN Become(p, [pc |-> "build", vault |-> op[p].vault, layout |-> op[p].layout,
                       req |-> op[p].req, seq |-> coin[op[p].vault].seq])
       ELSE Become(p, Idle)
    /\ UNCHANGED <<chainVars, config, post, minted, shown, userVars, faults, taken>>

PostLayout(layout, req, recovery) ==
    [custody  |-> req.custody,
     recovery |-> recovery,
     timelock |-> IF req.timelock = Keep THEN layout.timelock ELSE req.timelock]

\* A mutant: a start that never generates a phrase.
NeverGenerated(req) == {req.recovery}

NewRecoveryKeys(req) ==
    IF req.recovery = AutoPhrase THEN GeneratedKeys \ minted ELSE {req.recovery}

\* A mutant: the start pushes without having saved the post-recovery config.
BuildWithoutSave(p) ==
    /\ op[p].pc = "build"
    /\ op[p].req.phrase = op[p].layout.recovery
    /\ \E recovery \in NewRecoveryKeys(op[p].req) :
           LET next == PostLayout(op[p].layout, op[p].req, recovery)
           IN  /\ minted' = minted \cup ({recovery} \cap GeneratedKeys)
               /\ Become(p, [pc |-> "push", vault |-> op[p].vault,
                             layout |-> op[p].layout, req |-> op[p].req,
                             seq |-> op[p].seq, post |-> next])
    /\ UNCHANGED <<chainVars, config, post, shown, userVars, faults, taken>>

(* start_recovery, then the save that precedes the push.                   *)
BuildAndSave(p) ==
    /\ op[p].pc = "build"
    /\ op[p].req.phrase = op[p].layout.recovery
    /\ \E recovery \in NewRecoveryKeys(op[p].req) :
           LET next == PostLayout(op[p].layout, op[p].req, recovery)
           IN  /\ minted' = IF op[p].req.recovery = AutoPhrase
                            THEN minted \cup {recovery} ELSE minted
               /\ post' = [post EXCEPT ![DirOf[op[p].vault]] =
                                {[vault |-> op[p].vault, layout |-> next]}]
               /\ Become(p, [pc |-> "push", vault |-> op[p].vault,
                             layout |-> op[p].layout, req |-> op[p].req,
                             seq |-> op[p].seq, post |-> next])
    /\ UNCHANGED <<chainVars, config, shown, userVars, faults, taken>>

\* ensure_recovery_key_matches: the phrase is not the one of the config.
WrongPhrase(p) ==
    /\ op[p].pc = "build"
    /\ op[p].req.phrase # op[p].layout.recovery
    /\ Become(p, Idle)
    /\ UNCHANGED <<chainVars, config, post, minted, shown, userVars, faults, taken>>

StartSpendOf(p) == StartSpend(op[p].seq, op[p].post, op[p].req.phrase)

GeneratedIn(stage) ==
    IF stage.req.recovery = AutoPhrase THEN {stage.post.recovery} ELSE {}

\* Answers get lost, requests fail, processes die: MaxFaults times.
Fault == faults < MaxFaults /\ faults' = faults + 1

\* A node refuses what is no longer good, and now and then what is.
Refuses(v, s) ==
    \/ ~Accepts(v, s) /\ UNCHANGED faults
    \/ Fault

Hold(v, s) == pool' = [pool EXCEPT ![v] = {s}]

\* The node takes the spend; its answer arrives, or is lost on the way.
PushStart(p) ==
    /\ op[p].pc = "push"
    /\ Accepts(op[p].vault, StartSpendOf(p))
    /\ Hold(op[p].vault, StartSpendOf(p))
    /\ taken' = taken \cup GeneratedIn(op[p])
    /\ \/ /\ Become(p, [op[p] EXCEPT !.pc = "report"])
          /\ UNCHANGED faults
       \/ Fault /\ Become(p, Idle)
    /\ UNCHANGED <<coin, age, past, last, config, post, minted, shown, userVars>>

(* The coin is spent, or another spend of it is held, or the mempool is    *)
(* full.  push_tx makes an error of a status that is not SUCCESS; an       *)
(* answer without a status, only with an error, it takes for a success.    *)
PushStartRefused(p) ==
    /\ op[p].pc = "push"
    /\ Refuses(op[p].vault, StartSpendOf(p))
    /\ \/ Become(p, Idle)
       \/ Become(p, [op[p] EXCEPT !.pc = "report"])
    /\ UNCHANGED <<chainVars, config, post, minted, shown, userVars, taken>>

\* The generated phrase is printed, or put on the Wait screen.
Report(p) ==
    /\ op[p].pc = "report"
    /\ shown' = shown \cup GeneratedIn(op[p])
    /\ Become(p, Idle)
    /\ UNCHANGED <<chainVars, config, post, minted, userVars, faults, taken>>

-----------------------------------------------------------------------------
(* Finish.                                                                 *)

\* The launcher comes from the vault config; the other file only adds keys.
BeginFinish(p, d) ==
    \E file \in config[d], after \in post[d] :
        /\ op[p] = Idle
        /\ Become(p, [pc |-> "findReady", vault |-> file.vault, layout |-> file.layout,
                      post |-> after.layout])
        /\ UNCHANGED <<chainVars, config, post, minted, shown, userVars, faults, taken>>

\* A READY coin ends a finish: "vault is not in RECOVERY state".
FindReady(p) ==
    /\ op[p].pc = "findReady"
    /\ IF coin[op[p].vault].puzzle = Ready(op[p].layout)
       THEN Become(p, Idle)
       ELSE Become(p, [op[p] EXCEPT !.pc = "findRecovery"])
    /\ UNCHANGED <<chainVars, config, post, minted, shown, userVars, faults, taken>>

\* A mutant: the two layouts of the RECOVERY hash are swapped.
FindRecoverySwapped(p) ==
    /\ op[p].pc = "findRecovery"
    /\ LET now == coin[op[p].vault]
       IN  IF now.puzzle = InRecovery(op[p].post, op[p].layout, 1)
           THEN Become(p, [pc |-> "pushFinish", vault |-> op[p].vault,
                           layout |-> op[p].layout, post |-> op[p].post, seq |-> now.seq])
           ELSE Become(p, Idle)
    /\ UNCHANGED <<chainVars, config, post, minted, shown, userVars, faults, taken>>

\* find_recovery_coin asks for the hash of an output of amount 1, and then
\* wants that hash again for the amount of the coin it found.
FindRecovery(p) ==
    /\ op[p].pc = "findRecovery"
    /\ LET now == coin[op[p].vault]
       IN  IF /\ now.puzzle = InRecovery(op[p].layout, op[p].post, 1)
              /\ now.puzzle = InRecovery(op[p].layout, op[p].post, Amount[op[p].vault])
           THEN Become(p, [pc |-> "pushFinish", vault |-> op[p].vault,
                           layout |-> op[p].layout, post |-> op[p].post, seq |-> now.seq])
           ELSE Become(p, Idle)
    /\ UNCHANGED <<chainVars, config, post, minted, shown, userVars, faults, taken>>

FinishSpendOf(p) == FinishSpend(op[p].seq, op[p].post)

PushFinish(p) ==
    /\ op[p].pc = "pushFinish"
    /\ Accepts(op[p].vault, FinishSpendOf(p))
    /\ Hold(op[p].vault, FinishSpendOf(p))
    /\ Become(p, Idle)
    /\ UNCHANGED <<coin, age, past, last, config, post, minted, shown, userVars, faults, taken>>

(* Spent, or too early.  A node may keep a spend that is only too early    *)
(* and answer PENDING, which push_tx reports as a failure.  Failed, or     *)
(* without a status taken for a success, the command is over.              *)
PushFinishRefused(p) ==
    /\ op[p].pc = "pushFinish"
    /\ Refuses(op[p].vault, FinishSpendOf(p))
    /\ \/ UNCHANGED pool
       \/ /\ Runs(op[p].vault, FinishSpendOf(p))
          /\ pool[op[p].vault] = {}
          /\ Hold(op[p].vault, FinishSpendOf(p))
    /\ Become(p, Idle)
    /\ UNCHANGED <<coin, age, past, last, config, post, minted, shown, userVars, taken>>

-----------------------------------------------------------------------------
(* Faults.                                                                 *)

\* A request fails and the command ends with it, or the process dies.
Abandon(p) ==
    /\ op[p] # Idle
    /\ Fault
    /\ Become(p, Idle)
    /\ UNCHANGED <<chainVars, config, post, minted, shown, userVars, taken>>

\* fs::write truncates before it writes.
DieInWrite(p) ==
    /\ ~AtomicWrites
    /\ Fault
    /\ \/ /\ op[p].pc = "save"
          /\ config' = [config EXCEPT ![DirOf[op[p].vault]] = {}]
          /\ UNCHANGED post
       \/ /\ op[p].pc = "build"
          /\ op[p].req.phrase = op[p].layout.recovery
          /\ post' = [post EXCEPT ![DirOf[op[p].vault]] = {}]
          /\ UNCHANGED config
    /\ Become(p, Idle)
    /\ UNCHANGED <<chainVars, minted, shown, userVars, taken>>

Lose(v) ==
    /\ Fault
    /\ Evict(v)
    /\ UNCHANGED <<toolVars, userVars, taken>>

Chain(step) == step /\ UNCHANGED <<toolVars, userVars, faults, taken>>

-----------------------------------------------------------------------------

Init ==
    /\ ChainInit
    /\ op = [p \in Procs |-> Idle]
    /\ config = [d \in Dirs |-> {}]
    /\ post = [d \in Dirs |-> {}]
    /\ minted = {}
    /\ shown = {}
    /\ taken = {}
    /\ faults = 0
    /\ asked = [v \in Vaults |-> {}]
    /\ intent = [v \in Vaults |-> {}]

StartStep(p) ==
    \/ \E req \in Requests :
        \/ \E v \in Vaults : BeginStart(p, v, req)
        \/ \E d \in Dirs : BeginStartFromFile(p, d, req)
    \/ SaveConfig(p)
    \/ ResolveReady(p)
    \/ BuildAndSave(p)
    \/ WrongPhrase(p)
    \/ PushStart(p)
    \/ PushStartRefused(p)
    \/ Report(p)

FinishStep(p) ==
    \/ FindReady(p)
    \/ FindRecovery(p)
    \/ PushFinish(p)
    \/ PushFinishRefused(p)

ChainStep(v) ==
    \/ Chain(ConfirmStart(v))
    \/ Chain(ConfirmFinish(v))
    \/ Chain(CustodySpend(v))

Next ==
    \/ Chain(Tick)
    \/ \E v \in Vaults : ChainStep(v) \/ Lose(v)
    \/ \E p \in Procs :
        \/ StartStep(p)
        \/ \E d \in Dirs : BeginFinish(p, d)
        \/ FinishStep(p)
        \/ Abandon(p)
        \/ DieInWrite(p)

Spec == Init /\ [][Next]_vars

(* Time passes, blocks take what the network holds, a command that was     *)
(* started runs on, and the user comes back to Finish.  Starts, custody    *)
(* spends and faults are nobody's duty.                                    *)
Fairness ==
    /\ WF_vars(Chain(Tick))
    /\ \A v \in Vaults : WF_vars(Chain(ConfirmFinish(v)))
    /\ \A p \in Procs : WF_vars(FinishStep(p)) /\ WF_vars(StartStep(p) /\ op[p] # Idle)
    /\ \A d \in Dirs : SF_vars(\E p \in Procs : BeginFinish(p, d))

FairSpec == Spec /\ Fairness

-----------------------------------------------------------------------------
(* Properties.                                                             *)

\* A vault in a recovery can be finished from the two files kept for it:
\* what start wrote before its push is still what the chain committed to.
FinishFilesMatchChain ==
    \A v \in Vaults :
        IsRecovery(v) =>
            \E file \in config[DirOf[v]], after \in post[DirOf[v]] :
                /\ file.vault = v
                /\ coin[v].puzzle = InRecovery(file.layout, after.layout, Amount[v])

\* The user is shown a generated phrase only if a node took the start that
\* commits to it: a phrase on paper is never one of a start that failed.  It
\* holds as far as a refusal says that it is one, by its status.
ShownPhraseWasTaken == shown \subseteq taken

\* The recovery phrase a vault ends up with has been shown, once the
\* process that generated it is done.
GeneratedPhraseWasShown ==
    \A v \in Vaults :
        (IsRecovery(v) /\ coin[v].puzzle.post.recovery \in GeneratedKeys) =>
            \/ coin[v].puzzle.post.recovery \in shown
            \/ \E p \in Procs :
                /\ op[p].pc = "report"
                /\ coin[v].puzzle.post.recovery \in GeneratedIn(op[p])

\* A started recovery is finished or clawed back: it is never stuck.
RecoveryEnds == \A v \in Vaults : IsRecovery(v) ~> IsReady(v)

\* The chain, driven by the tool, keeps the promise of DelayedRecovery.
Promise ==
    INSTANCE DelayedRecovery WITH
        layout  <- last,
        pending <- [v \in Vaults |-> IF IsRecovery(v) THEN {coin[v].puzzle.post} ELSE {}]

RefinesPromise == Promise!Spec
=============================================================================
