# A formal model of chia-vault-recover

`chia-vault-recover` is a CLI and a GUI for one job: a Cloud Wallet vault (a
Chia singleton that is a 1-of-2 of a *custody* path and a *recovery* path)
whose custody key is lost is moved to a new custody key with the recovery
phrase. **Start** signs the vault into RECOVERY, which commits to the layout it
will have afterwards; the custody holder has a clawback window to undo it; then
**Finish**, which needs no signature, completes it. The tool keeps a few public
files between the two steps and no secrets.

This directory holds TLA+ models of that program, the TLC runs that check them
and proofs checked by TLAPS. Paths below are those of the repository
(`src/src/` is the crate).

## 1. Inventory

| Component | Source | State | Operations |
|---|---|---|---|
| start/finish workflows | `workflow.rs`, `recovery.rs` | none of its own; what an async call has learnt so far | `start`, `finish`, `inspect`, `resolve_vault`, `find_recovery_coin` |
| vault puzzle | `vault.rs`, `finish_member.rs` | none; hashes that commit to layouts | READY hash, RECOVERY hash, finish output |
| config files | `config.rs` | `vault-config.json`, `post-recovery-vault-config.json` | load, save, build from two keys |
| chain client | `chain.rs` | the node's: unspent coins, mempool | find by puzzle hash, children, walk, lineage, `push_tx` |
| lookup | `workflow.rs`, `hint.rs`, `discover.rs` | none | locate, walk, hint, custody spend |
| discovery | `discover.rs` | none | clawback candidates, `reconstruct`, `check_clawback`, `confirm_hinted_config` |
| lookup cache | `cache.rs` | `lookup-cache.json` and one entry in memory per process | open, matching, persist, persist_guess |
| CLI | `bin/cli.rs` | none between runs | lookup, start, finish, inspect |
| GUI wizard | `bin/gui/app/*` | phase, form fields, cache entry | look up, check clawback, start, finish, reset |
| GUI session | `bin/gui/session.rs` | `gui-session.json` | save, load, clear, countdown |
| address location | `locate.rs` | none | exact coins of an address, hinted coins, walk to a launcher |
| conversions | `address.rs`, `network.rs`, `keys.rs`, `mips.rs`, `error.rs`, `guidance.rs` | none | pure |

**How they interact.** A command is a sequence of awaits on a node, with file
writes between them. All runs of the CLI and the GUI share the cache file, and,
by default paths, the two config files. Nothing is locked and nothing is
written atomically (`fs::write` truncates first). The CLI reads the cache when a
command reaches it; the GUI reads it once, at launch, and then works on its own
entry. The chain moves on by itself: the custody holder can spend the vault at
any time, in either state, and a node can drop the zero-fee spends of the tool.

**What is hard.** The order "save, push, report" against a lost answer, a death
or a repeated start; a coin that is resolved and then spent by another;
a finish that is too early; a cache entry older than the chain or than the file;
a clawback that is guessed, typed, verified or copied into a field, and then
treated as one of the others; a wizard whose screen, session, cache and files
are each about some vault and need not agree; an address whose coins reveal who
paid rather than who receives; a lookup that is many requests against a vault
that moves on, some of them answered with nothing; a refusal that does not say so.
`PROJECT.json` lists each hazard at its line with
the properties that catch it.

**What makes each part correct.**

* workflows: the files always finish the recovery on chain; a vault changes
  hands only as asked and only after the window; a recovery ends; the phrase of
  the new recovery key reaches the user, and no other phrase does. (The last does
  not hold: section 5.)
* cache and discovery: what Start signs for is a layout that one vault has had under
  the phrase typed, the vault that a lookup of the address found; what is saved as
  verified is true of the vault it is saved for; a saved hint only helps; two
  lookups that find two vaults are never mixed.
* lookup: an address that has spent is resolved to its own vault as long as the node
  answers for its coins, and what a chain of requests answers is what one moment
  would have answered, less what went unanswered.
* GUI wizard and session: a Wait screen is of a start that was taken (which does not
  hold either), counts down
  the window that the chain enforces, owns the session on disk, finishes the
  vault it shows, and leads to the end of the recovery however often the window
  dies.

## 2. Modules

| Module | What it is | Uses |
|---|---|---|
| `VaultPuzzle` | what READY and RECOVERY hashes commit to | |
| `VaultSingleton` | the unspent coin, its age, the pool; network and custody steps | `VaultPuzzle` |
| `DelayedRecovery` | the abstract promise: ask, start, wait, finish, claw back | |
| `RecoveryWorkflow` | start and finish, process by process and await by await; files, faults | `VaultSingleton`, instance of `DelayedRecovery` |
| `RecoveryWorkflowProofs` | theorems about `RecoveryWorkflow` | TLAPS |
| `RecoveryWorkflowRefinement` | the theorem that it implements `DelayedRecovery` | `RecoveryWorkflowProofs` |
| `Discover` | clawback guesses, what a lookup reads off the coins, reconstruction | `VaultPuzzle` |
| `DiscoverProofs` | theorems about reconstruction: which layout it finds, and when it finds one | TLAPS |
| `VaultLine` | how the line of coins of a vault grows while commands look at it | `Discover` |
| `VaultLineProofs` | lemmas about lines and what a lookup reads off them, used by the proof modules below | `DiscoverProofs` |
| `LookupCache` | the cache file, the entry per process, lookup, check, preparation of a start | `VaultLine` |
| `LookupCacheProofs` | theorems about `LookupCache` | `VaultLineProofs` |
| `AtomicLookup` | the abstract lookup: it asks, looks at one vault at one moment, answers | |
| `LookupRequests` | one lookup request by request: locate, walk, hint, custody spends | `VaultLine`, instance of `AtomicLookup` |
| `LookupRequestsProofs` | theorems about `LookupRequests` | `VaultLineProofs` |
| `LookupRequestsRefinement` | the theorem that it implements `AtomicLookup` | `LookupRequestsProofs` |
| `GuiWizard` | windows of the GUI around the workflow: phases, session, cache, countdown | `RecoveryWorkflow` |
| `GuiWizardProofs` | theorems about `GuiWizard` | `RecoveryWorkflowRefinement` |
| `MCRecoveryWorkflow`, `MCLookupCache`, `MCLookupRequests`, `MCGuiWizard` | instances for TLC | |

### 2.1 The vault (`VaultPuzzle`, `VaultSingleton`)

Hashes are injective here, so a puzzle hash is the record of what is hashed: a
READY puzzle is its layout (custody, recovery key, timelock); a RECOVERY puzzle
is the custody path, the timelock, and the layout *and amount* of the single
output a finish may create (`finish_output`). Members on several curves, m-of-n
sides and opcode bans are below this abstraction. The launcher id is curried
into every hash; the models keep it as the index of the coin.

`coin[v]` is the unspent coin with a serial number (a coin spent and made again
with the same puzzle is another coin), `age[v]` the time since it was
confirmed, `pool[v]` the spend the network holds. `Accepts` is what a node does
with `push_tx`: it takes a spend whose coin is current, whose signer or post
layout is the one committed to, whose relative timelock has passed, and which no
other spend of that coin conflicts with. `past` and `last` are history.

### 2.2 Start and finish (`RecoveryWorkflow`)

| Action | Code |
|---|---|
| `BeginStart`, `SaveConfig` | `start --vault` and the GUI's Start up to the save of `vault-config.json`; the layout is one `prepare_start` can yield |
| `BeginStartFromFile` | `start --config` |
| `ResolveReady` | `resolve_vault(config, None)` |
| `BuildAndSave`, `WrongPhrase` | `start_recovery` and the save of the post-recovery file |
| `PushStart`, `PushStartRefused`, `Report` | `push_tx` and what is printed after it |
| `BeginFinish`, `FindReady`, `FindRecovery`, `PushFinish`, `PushFinishRefused` | both loads, the two queries of `resolve_vault`, `finish_recovery` and its push |
| `Abandon`, `DieInWrite`, `Lose` | a failed request or a killed process; a torn file; an evicted spend |

A file is `{}` (missing or unreadable) or one layout with its vault. `BeginStart`
takes any layout of `past[v]` that has the typed phrase as its recovery key;
`LookupCache` checks that this is what a preparation yields
(`PreparedWasOnChain`). A config without a receive address, for which
`start --config` first writes the address into the file, does not occur: every
file here is one this version wrote. Finish and inspect differ from start only in
reading; inspect changes nothing and is left out.

`push_tx` makes an error only of a status that is there and is not `SUCCESS`. It never
reads `success`, so a refusal without a status is `Ok`. `PushStartRefused` has both
outcomes: the command ends with the error, or goes on to `Report` as if the start had
been taken. A node `Refuses` what is spent, held or too early, and, as a fault, what it
could have taken (a full mempool). `taken` is the history of the generated keys of starts a node really took.

`Retry` says what the *user* does, the one thing the code leaves open: `"any"`
starts whenever, `"wait"` only when no start on the vault is running, held by
the network or confirmed, `"same"` also repeats the last start with the same
layout and supplied phrases.

### 2.3 Lookup, guesses and the cache (`Discover`, `LookupCache`)

A vault is its line of coins, each with the puzzle, how the coin before it was
spent, and whether that spend carried the hint memo. A lookup is one step
against the line: what it reads beyond the unspent coin is history and does not
change (`LooksAtOnce` proves that the requests amount to that). `LookupAnswers(coins,
typed, missed)` are the answers the coins of a vault may give when the node has
answered the memo, or some custody spends, with nothing: without the memo the spends
are read, without a spend an older one is.

The vault of a lookup is the one whose launcher it found, which for an address that
only received, or whose coins went unanswered, is another's (section 2.4).
`Locates[a]` is the set of vaults a lookup of address `a` may take, this time or the
next. A stage of a command, an entry and a prepared layout carry the vault found. Every line a
vault may have at first has been lived through (`Lived`): each spend in it is
one that its coin allows. `Candidates`, `WithTyped`, `Reconstruct`, `ConfirmHinted`,
`CheckClawback`, `ReplaceFound` are the functions of the same names.

The file and `mem[p]` are `{}` or one entry. A CLI `lookup` opens the cache
after the lookup answered, `start --vault` before; a GUI at launch. A CLI process
that ends leaves no entry in memory (`Hold`). `prepared` is what the latest start was
prepared with, until another command begins. `screen[p]`
is as much of the wizard as the cache needs: `"lookup"`, where the only button
looks up and the clawback field is empty, and `"start"`, where the field is.

`StartIsSeen` covers a fact of the driver library, which is not in the
repository: whether `member_looks_like_recovery` recognises the recovery path
of a READY coin, whose 1-of-2 restriction the library wraps in one validator.
The passing runs take the worse answer, FALSE; the violation runs take TRUE, so
that what they show does not depend on it.

### 2.4 The requests of a lookup (`LookupRequests`)

| Action | Code |
|---|---|
| `Ask` | `resolve_launcher_id` |
| `FindExact` | `find_coins_by_puzzle_hash`, a page at a time, then `launcher_from_records` |
| `FindHinted` | `find_coins_by_hint` and the same choice |
| `Walk` | `walk_singleton_chain`, child by child, with its limit |
| `ReadHint` | `hinted_config_from_parent` |
| `ReadSpend`, `NoCustody` | the loop over the spends of the walk, `classify_lookup` |
| `Return` | the answer is used, or a request failed |

The ledger is `coins`, a sequence: a coin is at the address of its owner (a vault
or some other wallet), exactly or, for a CAT, by its hint; it was made by the
spend of its parent. A spent coin reveals the vault that locks it; of an unspent
one the code can read only its parents. A node returns records in no order, so
`LauncherFrom` is the set of launchers the code can come up with. What is parsed
out of puzzles is abstracted to the vault they name.

A request may fail, which ends the lookup (`Return`), or be answered with nothing, after
which the code mostly goes on with less. `op.missed` records what went missing:

| Missed | Code | What the lookup does |
|---|---|---|
| `"coin"` | `locate.rs:113-117`, `chain.rs:54-59` | a spent coin whose spend is not answered, a missing list, or a truncated page without a cursor: goes on to the parents of unspent coins, so the sender may be found (`Locate`, `FindExact`) |
| `"memo"` | `workflow.rs:340-354` | the parent's record or its spend is not answered: no hint, goes on to the custody spends (`ReadHint`) |
| `"spend"` | `workflow.rs:291-296` | a spend is not answered: passes over it to an older one (`ReadSpend`) |

`FindHinted` may see any part of the hinted coins.

`AtomicLookup` is what is left for the user. The state it sees is `Settled`, by
which a lookup has its answer from the moment its walk reaches the unspent coin:
what it goes on to read, the memo and the spends, is of coins it has walked. A
walk that reaches the end maps to `Look`, an address that yields nothing to
`LookNowhere`, payments and vaults that move on to `World`, every other request
to a stutter.

### 2.5 The window (`GuiWizard`)

A `push_tx` that is `Ok` is all the window knows of a push, so a refusal without a
status opens Wait (`PushStartRefused` then `BeginWait`) or Done (`FinishMistaken`) just
as a push that was taken does; `accepted` is the history of the starts a node took,
each by its vault, coin and new layout.

Every step of a start or a finish is the action of `RecoveryWorkflow`, conjoined
with what the wizard does beside it; `Quiet` marks those beside which it does
nothing. The module therefore composes the window, the CLI, the files and the
chain, and `WizardIsWorkflow` (section 4) says that it is an instance of the
workflow.

| Action | Code |
|---|---|
| `Launch` | `App::new`, `resume_from_disk`: a session that matches the cache opens Wait, else a cache opens Start |
| `LookUp`, `CheckClawback`, `Reset` | `lookup_inner` (the session is removed before the cache is saved), `confirm_clawback_inner`, `reset_to_lookup` |
| `ClickStart`, `Working`, `BeginWait` | `start_inner` to its last statement: the session is saved, or the failure to save it is only shown |
| `ClickFinish`, `FinishPushed`, `FinishMistaken` | `finish_inner`: both files of the session's paths; Done (`ShowDone`) when the push was answered, or was refused without a status |
| `Error`, `Close`, `Die` | a failed request; the window closed when idle, or killed anywhere, also in the save of the session |
| `CliStep` | the commands of the CLI, which share cache and files |
| `TimePasses` | the chain's time and the countdown |

A session is `{}` or one record. Its paths are those of the directory of its
vault; of its start time only what has elapsed matters, and `saved` and `seq` are
history. `cache` and `entry[g]` keep only which vault a lookup was of, as the
wizard compares nothing else. The egui frame blocks while a command runs, so a
window acts only when its process is idle.

## 3. Runs

Bounds are constants of the modules and named there: `MaxAge` (ages are not told
apart beyond the longest timelock), `MaxSeq` and `MaxLine` (coins of a vault),
`MaxFaults`, `MaxCoins`, the generated keys, and the request sets of the MC
modules. Deadlock checking is on everywhere.

| Run | Shows | Bounds |
|---|---|---|
| `WorkflowLiveness` | `FinishFilesMatchChain`, `RecoveryEnds`, and `RefinesPromise`: the implementation of `DelayedRecovery` | 2 processes of the tool, 1 vault, users who wait, a supplied phrase, a shorter timelock, a second recovery with the new phrase, torn writes, 1 fault, 5 coins |
| `GuiWizard` | types (of both modules), `CountdownIsOfWindow`, `WaitingOwnsSession`, `FinishFilesMatchChain` | a window and a CLI, 1 vault, two phrases to generate and a wrong one typed, torn writes, an unreadable session, 1 fault, 5 coins |
| `GuiLiveness` | `FinishesShownVault`, `FinishFilesMatchChain`, `WaitMovesOn` | a window that looks up and starts 2 vaults, repeated starts, atomic writes, 1 fault, 3 coins |
| `LookupCache` | types, `PreparedWasOnChain`, `VerifiedWasOnChain`, `UnchangedVaultPrepares` | GUI and CLI, one address whose lookups find either of 2 vaults, lines of up to 3 coins, each vault just used or in a recovery, a change of window |
| `LookupRequests` | types, `SpentAddressLocates`, `AnswerIsOfSomeMoment`, and `RefinesAtomic`: the implementation of `AtomicLookup` | answers with nothing anywhere; 2 vaults of up to 3 coins, one launched without a memo or used once; 4 coins at addresses: an address that has spent, one that another vault's payee may pay, one with CATs only; pages of one coin |

Five coins are two recoveries in a row, or a recovery, a clawback and another
recovery, which is how a session or a file gets out of date; three, in
`GuiLiveness`, leave finishing as the only end of a recovery. Two processes are enough for every race on a file
or a coin, since each race is between two; one fault at a time reaches every
window between two awaits. Two vaults are enough for a file, a session or an
address of the wrong one. In `LookupRequests` one payment more arrives at any
point of the lookup, and each vault makes one or two coins during it; a page of
one coin makes the second coin a second page. Every vault has amount 1, which is
what `find_recovery_coin` asks for. In `LookupCache` the two vaults are
interchangeable (`MCSymmetry`, sound for its invariants, as the one address may lead to
both), and `MCOneMoves` keeps to the states in which one of the two has the line of a
vault used once; the other lives through whatever it may. The proofs have neither bound.

The other runs exhibit places where the code does not do what its documents say
(section 5). `GuiWizard` does not check `WaitIsOfTakenStart` and
`ShownPhraseWasTaken`: a refusal without a status breaks both. `GuiWait` shows it of the
first, and the same state shows the phrase; section 4 has the theorems for what is left.

**Fairness.** `Fairness` (for `RecoveryEnds`): time passes; a finish the network
holds and whose timelock has passed is confirmed; a command that was begun runs
on (tokio does not drop it); and the user comes back to Finish, strongly fair
because a process must be free at the time. `WizardFairness` (for `WaitMovesOn`)
says the same of a window: its awaits go on, a closed window is launched again,
and Finish is clicked again and again on a Wait screen. Starts, lookups, resets,
custody spends, confirmations of starts and faults are not fair. With `MaxFaults`
finite, lost calls end, as a node that never answers would defeat any client.

`WaitMovesOn` excepts the cases the code leaves without a window to finish from:
the session is gone (the user left, it could not be saved, or Done was shown) or
the CLI has looked up another vault, which a relaunch goes by.

**Mutants.** Every property of a passing run is broken by a plausible bug,
written beside the definition it replaces: a start pushed without its save, a
generated phrase left empty, a coin resolved by its launcher whatever its layout, a finish without its timelock, the
two layouts of the RECOVERY hash swapped; a session that counts down the new
clawback, one removed before the finish is taken, one resumed only without a
cache, Finish with the paths of the form; parents asked before spends, the coin
asked for again after the walk, the memo of whatever coin is newest by then, a
walk past the unspent coin; a typed clawback
believed without a match, a hint tried alone, an empty check saved, a guess kept for an address whatever
vault is found.

## 4. Proofs

The theorems of `RecoveryWorkflowProofs` and `RecoveryWorkflowRefinement` hold
for every number of vaults, processes, directories, keys and requests, from the named assumptions of the modules alone.

* `TypeCorrect`: `Spec => []TypeOK`. Not inductive alone: a generated key is one
  of `GeneratedKeys` only because a start past its build has generated it
  (`PostsGenerated`), and the layout a start spend makes is one only because the
  pool holds spends that its puzzle runs with (`PoolRuns`). `TypeInv` is the
  three together.
* `FinishFilesCorrect`: under `Disciplined`, `Spec => []FinishFilesMatchChain`.
  `Disciplined` is what the code needs of its user: a directory per vault, and
  either `Retry = "wait"`, or `Retry = "same"` with atomic writes. (The runs
  show both halves are needed: `WorkflowOverwritten` drops the discipline.)

  The property says something only of vaults in RECOVERY, so the invariant
  `FilesInv` follows a start from its first step: every start on the vault is
  the intended one (`StartsFollowIntent`); past the save of the config the
  vault-config file is its layout (`StartsSavedConfig`); past the build the post
  file is its post layout (`StartsSavedPost`); the coin it resolved, while still
  current, is READY under its layout (`StartsKnowCoin`); when retries are not allowed or the
  phrase is generated it is the only one (`OnlyStart`); a start spend in the
  pool (`PoolSettled`) and a RECOVERY coin (`CoinSettled`) are settled: both
  files hold what they commit to. `FilesInPlace` says that a file in the
  directory of a vault is about that vault. The proof has a lemma per action, under it a step per
  conjunct the action can disturb; `OneVault` and `QuietStep` dispose of the other vaults and of
  steps that touch nothing.

* `ShownPhrasesCorrect`: `Spec /\ [][RefusalsHaveStatus]_vars =>
  []ShownPhraseWasTaken`, with no discipline at all. `RefusalsHaveStatus` takes away
  one outcome of one step: a start that is refused without a status and taken for a
  success. `GuiWait` shows what the code does then; this is how far the property is
  true of it. A start that is about to report has been taken (`ReportsTaken`).
* `KeepsPromise`: `Spec => RefinesPromise`, again for any users. `PromiseInv`
  adds to the types: the layout a vault was READY with last is what its coin
  goes by (`LastGoverns`); a running start was asked for (`StartsAsked`); what
  it built answers its request relative to the layout it was prepared with
  (`PostsAnswer`); the coin it resolved, if still current, is READY under that
  layout (`StartsResolved`); so a start the network holds answers a request
  relative to the layout that governs (`PoolAsked`). The last is where it comes
  together: a start is pushed for a serial number, the layout it was prepared
  with may be of the past, and only because the coin of that number was READY
  under it does "keep the clawback" mean the clawback of today. Beginning a
  start maps to `Ask`, confirmations to `Start` and `Finish`, a custody spend to
  `Custody`, time to `Tick`, everything else to a stutter.
* `GeneratedPhrasesShown`: under `FreshPhrases` (nobody types a phrase that the tool
  could generate), `Spec /\ [][NoAnswerLost]_vars => []GeneratedPhraseWasShown`.
  `WorkflowLostPhrase` shows that the property is false of the code; this is how far
  it is true. `NoAnswerLost` takes away just two steps: a push that was taken without
  the process hearing of it, and a process that dies between the answer and the
  report. Every other death, fault, repetition and race is still there. `HeldInv`
  says that whatever generated key a start in the pool or a RECOVERY coin commits to
  is shown, or held by the process that is about to show it, and that a typed phrase
  is never replaced by a generated one.
* `OtherAmountsNeverFinish`: `Spec => []OtherAmountsUnfinished`. `find_recovery_coin`
  asks for the hash of an output of amount 1 and then wants the hash for the amount
  of the coin; the two agree only for amount 1. For a vault of any other amount,
  which a start takes, no process ever has a finish to push and no node ever holds
  one: only custody ends its recovery. No run has such a vault, as the wallets
  that launch vaults give them amount 1.

* `WizardIsWorkflow`: `WizardSpec => Spec`. Every step of a window or a run of the
  CLI is a step of the workflow or a stutter, so `WizardPhrasesCorrect` (where refusals
  have a status) and, under `Disciplined`, `WizardFilesCorrect` follow from the theorems above.
  `WizardTypeCorrect` is `[]WizardTypeOK`, and `WizardKeepsPromise`:
  `WizardSpec => RefinesPromise`.
* `WaitsAreOfTakenStarts`: `WizardSpec /\ [][RefusalsHaveStatus]_vars =>
  []WaitIsOfTakenStart`, the boundary of what `GuiWait` shows. A session comes from a process
  that is about to report (`SessionsOrigin`), and such a process has been
  accepted (`ReportsAccepted`).
* `CountdownsAreOfWindows`: `[]CountdownIsOfWindow`. A session compares a layout
  chosen before the push with a coin confirmed after it, so the invariant carries
  `Governs(v, seq, secs)` from the resolve on: while the coin numbered `seq` is
  unspent its READY layout has that timelock, and the RECOVERY coin made from it,
  if there is one, keeps it. `StagesGoverned` says so of every start past its
  resolve and `SessionsGoverned` of every session; `CoinMoves` shows that no step
  of the chain breaks it.
* `WaitOwnsSession`: with one window (`OneWindow`), `[]WaitingOwnsSession`; the file
  holds at most one session (`OneSession`). With two windows it is false: a lookup
  in one removes the session the other waits with.
* `ShownVaultFinished`: with a directory per vault (`OwnDirs`),
  `[]FinishesShownVault`. The vault a finish works on is read from the config file,
  not from the session, so it needs that a file lies in the directory of its vault
  (`ConfigsInPlace`).
* `DoneOnlyAwaitsBlock`: with a directory per vault, and where a refused finish gives
  its status (`FinishRefusalsHaveStatus`), the step that opens Done leaves
  the vault that was waited for in RECOVERY, its window passed, and its finish held by
  a node. `GuiDone` shows that Done can be false; this says that, but for refusals without a
  status, it is so by one block, and that only an eviction or the custody holder can make it stay so.

`DiscoverProofs` is about `Reconstruct`, for any lookup, phrase and guess. The
code tries a list of clawbacks in order (the hint, then the defaults without it)
and takes the first that fits. `Tried(guess)` is the set of them, `CandidatesTried`
that the list has no other and lacks none.

* `ReconstructComplete`: a layout is found exactly when one of `Tried` fits a coin
  of the lookup, and never two: the order decides which one, not whether.
* `HintNarrowsNothing`: what is found without a hint is found with any hint, true or
  false.
* `ReconstructRebuilds`: a layout that is seen and whose clawback is tried is the
  one found, when no other layout seen has the same custody path and phrase.

`LookupCacheProofs` holds for any number of vaults, addresses, processes and
clawbacks, and lines of any length.

* `CacheTypeCorrect`, `PreparedLayoutsCorrect` (`[]PreparedWasOnChain`) and
  `VerifiedClawbacksCorrect` (`[]VerifiedWasOnChain`), for any `Locates`: every lookup
  of every address may find another vault and miss the memo or spends of it. The
  invariant `CacheInv` says of every entry, on disk, in memory or in the hands of a
  command, that it is `Good` for the vault it names: a hinted layout was one of that
  vault, the puzzles a lookup found were puzzles of it, the custody path was read off
  one of its spends, and a known clawback was that of one of its layouts. The save of
  an answer over an entry of another vault is where this could be lost: it is not, as
  `ReplaceFound` keeps a guess only for the same launcher. `CheckInv` adds that what a
  check verifies is saved on the entry it was verified on. `Grows` is why `Good` survives
  the chain: what was once true of a line stays true. That a reconstruction yields a
  layout of the past then follows from hashes being injective: a candidate that
  matches a coin or an ancestor is its layout.
* `UnchangedVaultsPrepare`: `[]UnchangedVaultPrepares`, the converse: not only is
  what is prepared right, something is prepared. It needs of the history that its
  lines are lived (`LinesLived`): a vault that was never anything but READY with one
  layout was only ever spent by custody, so the path read off any of its spends is
  its own (`OneLayoutReads`). The clawback is then among those tried whatever the
  entry holds: known, it is right; hinted or unknown, the defaults are there.
* `SavedCustodyCorrect` and `FreshLookupsRebuild` bound what `LookupFinishSpend` and
  `LookupAncestor` show. The custody path saved is one the vault has had if the vault
  was never in recovery: only starts and finishes are misread. And a fresh lookup
  rebuilds the current layout unless the vault has had two that differ in their
  clawback alone.

`LookupRequestsProofs` and `LookupRequestsRefinement` hold for any number of vaults
and coins at addresses and lines of any length.

* `RequestsTypeCorrect`: `[]TypeOK`, and `AnswersOfSomeMoment`:
  `[]AnswerIsOfSomeMoment`. `LookInv` follows a lookup through its requests:
  before it has located a vault it has learnt nothing (`Asked`); the walk has not
  run past the coins there are, and where it ended was the newest coin at some
  moment since the lookup began (`Reached`); from then on there is no hint, and no
  custody spend newer than the one to read next, but for what `op.missed` says went
  unanswered (`NoneSince`). The answer is then one of `LookupAnswers` of that moment
  for exactly what was missed: with nothing missed, the answer of that moment. The vault may move
  on between any two requests: what has been walked stays as it was
  (`WalkedStays`), and of the walked coins alone the answer is made.
* `SpentAddressesLocate`: under `PagesSuffice`, `[]SpentAddressLocates`. The
  pages read so far were full (`Counted`, from `PageFills`), so when the last
  is read either all coins at the address have been or there are more of them
  than the pages hold, which `PagesSuffice` excludes; then a coin that was spent
  when the lookup began is among the spent ones, and these name their own vault
  (`SpentNameOwn`). It says nothing of a lookup that missed a coin of the address,
  for which another vault may be found. The code reads eight pages, of
  a size the node chooses; past them nothing is promised.
* `LooksAtOnce`: under `PagesSuffice`, `Spec => RefinesAtomic`. `AnswerIsOfSomeMoment`
  looks back from the answer and may pick its moment; here the moment is fixed when
  the walk ends, for all that is read after it. `SettledRight` is the heart of it:
  what is settled at that step is the line as it stands, and the
  requests that follow, whatever confirms between them, answer one of `LookupAnswers`
  of just that. `AtomicLookup` is told of each thing missed: with a coin of the address
  missed, or none ever spent, it may look at any vault, which is the lookup that
  `LookupCache` has.

**Only model-checked**: `RecoveryEnds` and `WaitMovesOn`, which are liveness under
fairness and out of the prover's reach. Every safety property and refinement that
a passing run checks has its theorem.

## 5. Where code and documents differ

| Run | What happens |
|---|---|
| `WorkflowOverwritten` | `workflow.rs:164` saves the post-recovery file before the push is known to be taken. A repeated start with a generated phrase overwrites the file of the pending one, then is refused: Finish cannot find the coin. README: "so Finish works after relaunch". |
| `WorkflowLostPhrase` | the generated phrase leaves `start` only after `push_tx` answered. If the answer is lost the recovery goes through to a key nobody has. README: "shown once". |
| `LookupAncestor` | reconstruction takes the first candidate that matches an ancestor. `discover.rs`: "a config that matches the singleton". |
| `GuiWait` | `chain.rs:177` makes an error only of a status that is there, and `success` is never read: a refusal without a status is `Ok`. The window shows the generated phrase, opens Wait and saves a session for a start no node took. `actions.rs:233`: "Vault entering RECOVERY." |
| `GuiDone` | `actions.rs:269` shows Done and forgets the session whenever `push_tx` is `Ok`: a node took the finish, which can still be dropped or clawed back before a block confirms it, or refused it without a status. `app/mod.rs`: "Recovery finished. Custody is now the new BLS key." |
| `LocateSender` | `locate.rs:128` reads an unspent coin's launcher off the spend of its parent, which is the wallet that sent it: an address that only received from another vault yields that vault. README: "A never-spent Receive address cannot yield a launcher id." |
| `LookupFinishSpend` | a finish spend is read as a custody spend. `discover.rs`: "if this spend used custody". |

## 6. Not modelled, and the plan

Not modelled: CLVM and CHIP-0043 formats, key derivation, bech32, JSON, TLS,
drawing, packaging (pure or I/O, no state the properties are about); lineage
proofs, which decide only whether a bundle is valid; the form fields of the GUI
other than the clawback; a failure to remove the session file, which the code
ignores; the puzzles of launcher coins, which are at no address; recovery sides
with several members or with a vault as a member. The runs give every vault amount
1 (see `OtherAmountsNeverFinish`). The proofs about sessions assume
one window.

What the properties do not say, and the code does:

* after a rekey a clawback verified for the earlier layout is still tried alone, and a
  start may then fail until the clawback is typed (`UnchangedVaultPrepares` is about
  vaults of one layout);
* a relaunch copies a saved hint into the clawback field (`app/mod.rs:152`), and Start
  reads it as typed and tries it alone, although README says "tried first at Start,
  then the usual defaults"; what is prepared is right whatever the field holds;
* an address may lead to the vault that paid to it, and the wrong vault is then
  prepared with layouts of that vault (`LocateSender`): only the phrase, which must be
  the one of its layout, stands in the way;
* with the default paths all vaults share one pair of files; the files theorems and
  `ShownVaultFinished` want a directory per vault;
* with one window nothing is left to lose at Look up, so that the session is removed
  there before the cache is saved matters only with two.

Done: `VaultPuzzle`, `VaultSingleton`, `RecoveryWorkflow`, `DelayedRecovery`,
`Discover`, `LookupCache`, `LookupRequests`, `AtomicLookup`, `GuiWizard`, and the
proofs of section 4. Left, most important first:

1. two windows: what may be promised when sessions overwrite each other;
2. recovery sides with several members.
