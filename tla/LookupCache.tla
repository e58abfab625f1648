------------------------------ MODULE LookupCache ------------------------------
(***************************************************************************)
(* The lookup cache, src/src/cache.rs, and the commands that go through    *)
(* it: lookup, the clawback check, and the preparation of a start.  The    *)
(* cache is one file.  Each process works on the entry it read when it     *)
(* opened the cache: the GUI once, at launch; a CLI command when it runs.  *)
(* Lookups are chains of awaits, and vaults move on while they run.        *)
(*                                                                         *)
(* A lookup is a step of its own here, of any vault its address may lead   *)
(* to; LookupRequests has its requests, and shows that what they answer is *)
(* what one moment would have, short of what a node answered with nothing. *)
(***************************************************************************)
EXTENDS VaultLine

CONSTANTS
    Addresses, Locates,  \* Locates[a]: the vaults a lookup of a may take
    Guis, Clis,          \* processes that keep the cache open, or open it anew
    Phrases,             \* recovery phrases users type
    Secs                 \* clawbacks users type

Procs == Guis \cup Clis

ASSUME CacheAssumption ==
    /\ Locates \in [Addresses -> SUBSET Vaults]
    /\ Guis \cap Clis = {}
    /\ Phrases \subseteq RecoveryKeys
    /\ Secs \subseteq Timelocks

VARIABLES
    file,     \* {} (missing or unreadable) or the entry on disk
    mem,      \* mem[p]: {} or the entry p has in memory
    screen,   \* screen[p]: where a GUI is, as far as the cache goes
    field,    \* field[p]: the clawback field of a GUI
    op,       \* op[p]: the command p is running
    prepared  \* {} or the layout a start has been given, until the next command

vars == <<line, file, mem, screen, field, op, prepared>>

-----------------------------------------------------------------------------

Entry == [address : Addresses, vault : Vaults, lookup : Lookup]

Idle == [pc |-> "idle"]

Command == [does : {"lookup", "check", "start"}, address : Addresses,
            words : RecoveryKeys \cup {None}, typed : Timelocks \cup {None}]

Stage == [pc : {"look", "prepare"}, cmd : Command]
            \cup [pc : {"open", "persist", "check"}, cmd : Command,
                   vault : Vaults, result : Lookup]

TypeOK ==
    /\ line \in [Vaults -> Seq(Link)]
    /\ file \in SUBSET Entry
    /\ mem \in [Procs -> SUBSET Entry]
    /\ screen \in [Procs -> {"closed", "lookup", "start"}]
    /\ field \in [Procs -> Timelocks \cup {None}]
    /\ op \in [Procs -> {Idle} \cup Stage]
    /\ prepared \in SUBSET [address : Addresses, words : RecoveryKeys \cup {None},
                            vault : Vaults, layout : Layout]

Become(p, stage) == op' = [op EXCEPT ![p] = stage]

Matching(entries, address) == {e \in entries : e.address = address}

\* The seconds an entry would show.
GuessOf(lookup) ==
    IF lookup.kind = "hinted" THEN Known(lookup.layout.timelock) ELSE lookup.guess

SecsOf(lookup) == IF GuessOf(lookup) = Unknown THEN None ELSE GuessOf(lookup).secs

SetField(p, secs) == field' = [field EXCEPT ![p] = IF p \in Guis THEN secs ELSE None]

Show(p, next) == screen' = [screen EXCEPT ![p] = IF p \in Guis THEN next ELSE @]

\* What p has in memory after its step; a CLI command that ends leaves nothing.
Hold(p, entries) ==
    mem' = [mem EXCEPT ![p] = IF p \in Clis /\ op'[p] = Idle THEN {} ELSE entries]

Store(p, entry) ==
    /\ file' = {entry}
    /\ Hold(p, {entry})

-----------------------------------------------------------------------------
(* A GUI.  It shows "lookup" (the address, or the fallback of a gap), where *)
(* the only button looks up, or "start", where the clawback field is.      *)

\* The launch, or a relaunch: the field shows the clawback of the entry.
Launch(p) ==
    /\ p \in Guis
    /\ op[p] = Idle
    /\ mem' = [mem EXCEPT ![p] = file]
    /\ IF file = {} THEN SetField(p, None) /\ Show(p, "lookup")
       ELSE Show(p, "start") /\ \E e \in file : SetField(p, SecsOf(e.lookup))
    /\ UNCHANGED <<line, file, op, prepared>>

\* "Look up a different vault" forgets the field; the entry stays in memory.
ResetToLookup(p) ==
    /\ screen[p] = "start"
    /\ op[p] = Idle
    /\ Show(p, "lookup")
    /\ SetField(p, None)
    /\ UNCHANGED <<line, file, mem, op, prepared>>

Type(p, secs) ==
    /\ screen[p] = "start"
    /\ op[p] = Idle
    /\ SetField(p, secs)
    /\ UNCHANGED <<line, file, mem, screen, op, prepared>>

ClickLookup(p, cmd) ==
    /\ cmd.does = "lookup"
    /\ cmd.words = None
    /\ screen[p] = "lookup"
    /\ Become(p, [pc |-> "look", cmd |-> cmd])

\* A check takes the entry the GUI has in memory, as a start will.
ClickCheck(p, cmd) ==
    /\ cmd.does = "check"
    /\ screen[p] = "start"
    /\ \E e \in Matching(mem[p], cmd.address) :
           Become(p, [pc |-> "check", cmd |-> cmd, vault |-> e.vault, result |-> e.lookup])

ClickStart(p, cmd) ==
    /\ cmd.does = "start"
    /\ cmd.words # None
    /\ screen[p] = "start"
    /\ Matching(mem[p], cmd.address) # {}
    /\ Become(p, [pc |-> "prepare", cmd |-> cmd])

Click(p, cmd) ==
    /\ p \in Guis
    /\ op[p] = Idle
    /\ cmd.typed = field[p]
    /\ ClickLookup(p, cmd) \/ ClickCheck(p, cmd) \/ ClickStart(p, cmd)
    /\ prepared' = {}
    /\ UNCHANGED <<line, file, mem, screen, field>>

-----------------------------------------------------------------------------
(* A run of the CLI: lookup [--clawback-secs] [--recovery-mnemonic], or    *)
(* start --vault, which looks up only what the cache does not hold.        *)
Run(p, cmd) ==
    /\ p \in Clis
    /\ op[p] = Idle
    /\ \/ /\ cmd.does = "lookup"
          /\ Become(p, [pc |-> "look", cmd |-> cmd])
          /\ UNCHANGED mem
       \/ /\ cmd.does = "start"
          /\ cmd.words # None
          /\ mem' = [mem EXCEPT ![p] = file]
          /\ Become(p, [pc  |-> IF Matching(file, cmd.address) = {} THEN "look" ELSE "prepare",
                        cmd |-> cmd])
    /\ prepared' = {}
    /\ UNCHANGED <<line, file, screen, field>>

\* Only after its answer does a lookup command open the cache.
Open(p) ==
    /\ op[p].pc = "open"
    /\ mem' = [mem EXCEPT ![p] = file]
    /\ Become(p, [op[p] EXCEPT !.pc = "persist"])
    /\ UNCHANGED <<line, file, screen, field, prepared>>

-----------------------------------------------------------------------------
(* Steps of both.                                                          *)

Typed(cmd) == IF cmd.typed = None THEN {} ELSE {cmd.typed}

\* The launcher found is that of any vault the address may lead to, and not
\* always the same one.  The walk reaches the unspent coin; a node may answer
\* nothing for the memo or for custody spends; a gap ends the command.
Look(p) ==
    /\ op[p].pc = "look"
    /\ LET cmd  == op[p].cmd
           next == IF p \in Clis /\ cmd.does = "lookup" THEN "open" ELSE "persist"
       IN  \E v \in Locates[cmd.address], missed \in SUBSET {"memo", "spend"} :
               \E answers \in LookupAnswers(line[v], Typed(cmd), missed) :
                   IF answers = {} THEN Become(p, Idle)
                   ELSE \E result \in answers :
                            Become(p, [pc |-> next, cmd |-> cmd, vault |-> v, result |-> result])
    /\ Hold(p, mem[p])
    /\ UNCHANGED <<line, file, screen, field, prepared>>

\* A mutant: the guess saved for the address is kept, whatever was found.
ReplaceFoundAlways(saved, vault, found) ==
    [found EXCEPT !.guess =
        IF saved.lookup.kind = "found" THEN saved.lookup.guess ELSE Unknown]

\* A custody-spend lookup keeps the guess saved for the same launcher.
ReplaceFound(saved, vault, found) ==
    [found EXCEPT !.guess =
        IF saved.lookup.kind = "found" /\ saved.vault = vault THEN saved.lookup.guess
        ELSE Unknown]

EntryToStore(entries, address, vault, result) ==
    LET saved == Matching(entries, address)
    IN  [address |-> address,
         vault   |-> vault,
         lookup  |-> IF result.kind = "found" /\ saved # {}
                     THEN ReplaceFound(CHOOSE e \in saved : TRUE, vault, result)
                     ELSE result]

\* persist, then what the command does next.
Persist(p) ==
    /\ op[p].pc = "persist"
    /\ LET cmd   == op[p].cmd
           entry == EntryToStore(mem[p], cmd.address, op[p].vault, op[p].result)
       IN  /\ Become(p,
                IF p \in Guis THEN Idle
                ELSE IF cmd.does = "start" THEN [pc |-> "prepare", cmd |-> cmd]
                ELSE IF cmd.typed = None /\ cmd.words = None THEN Idle
                ELSE [op[p] EXCEPT !.pc = "check"])
           /\ Store(p, entry)
           /\ Show(p, "start")
           /\ IF p \in Guis /\ SecsOf(op[p].result) # None
              THEN SetField(p, SecsOf(op[p].result))
              ELSE UNCHANGED field
    /\ UNCHANGED <<line, prepared>>

PersistGuess(p, address, guess) ==
    \E e \in Matching(mem[p], address) :
        Store(p, [e EXCEPT !.lookup.guess = guess])

(* check_clawback on what was looked up, and the guess it yields saved on  *)
(* the entry in memory.  A hinted layout saves nothing.                    *)
Check(p) ==
    /\ op[p].pc = "check"
    /\ Become(p, Idle)
    /\ LET cmd     == op[p].cmd
           result  == op[p].result
           guesses == IF result.kind = "hinted" THEN {}
                      ELSE CheckClawback(result, cmd.words, cmd.typed)
       IN  \/ /\ \E guess \in guesses :
                    /\ PersistGuess(p, cmd.address, guess)
                    /\ IF p \in Guis /\ guess.kind = "known"
                       THEN SetField(p, guess.secs)
                       ELSE UNCHANGED field
           \/ /\ guesses = {}
              /\ IF /\ p \in Guis
                    /\ result.kind = "hinted"
                    /\ ConfirmHinted(result.layout, cmd.words, cmd.typed)
                 THEN SetField(p, result.layout.timelock)
                 ELSE UNCHANGED field
              /\ Hold(p, mem[p])
              /\ UNCHANGED file
    /\ UNCHANGED <<line, screen, prepared>>

\* prepare_start: confirm the hinted layout, or rebuild it and save its
\* clawback as verified.
Prepare(p) ==
    /\ op[p].pc = "prepare"
    /\ Become(p, Idle)
    /\ \E e \in Matching(mem[p], op[p].cmd.address) :
        LET cmd     == op[p].cmd
            layouts == IF e.lookup.kind = "hinted"
                       THEN {l \in {e.lookup.layout} : ConfirmHinted(l, cmd.words, cmd.typed)}
                       ELSE Reconstruct(e.lookup, cmd.words,
                                        WithTyped(e.lookup.guess, cmd.typed))
        IN  \/ /\ layouts = {}
               /\ prepared' = {}
               /\ Hold(p, mem[p])
               /\ UNCHANGED <<file, field>>
            \/ \E layout \in layouts :
               /\ prepared' = {[address |-> cmd.address, words |-> cmd.words,
                                 vault |-> e.vault, layout |-> layout]}
               /\ IF p \in Guis THEN SetField(p, layout.timelock) ELSE UNCHANGED field
               /\ IF e.lookup.kind = "hinted" THEN Hold(p, mem[p]) /\ UNCHANGED file
                  ELSE PersistGuess(p, cmd.address, Known(layout.timelock))
    /\ UNCHANGED <<line, screen>>

\* A request of the lookup fails, or one after the walk, and ends the command.
Fail(p) ==
    /\ op[p].pc \in {"look", "open", "persist"}
    /\ Become(p, Idle)
    /\ Hold(p, mem[p])
    /\ UNCHANGED <<line, file, screen, field, prepared>>

(* The process dies.  A death inside fs::write leaves a file that does not *)
(* parse, which the next open takes for none.                              *)
Die(p) ==
    /\ op[p] # Idle
    /\ \/ UNCHANGED file
       \/ /\ op[p].pc \in {"persist", "check", "prepare"}
          /\ file' = {}
    /\ mem' = [mem EXCEPT ![p] = {}]
    /\ SetField(p, None)
    /\ Show(p, "closed")
    /\ Become(p, Idle)
    /\ UNCHANGED <<line, prepared>>

-----------------------------------------------------------------------------

Init ==
    /\ LineInit
    /\ file = {}
    /\ mem = [p \in Procs |-> {}]
    /\ screen = [p \in Procs |-> "closed"]
    /\ field = [p \in Procs |-> None]
    /\ op = [p \in Procs |-> Idle]
    /\ prepared = {}

Commands == [does : {"lookup", "check", "start"}, address : Addresses,
             words : Phrases \cup {None}, typed : Secs \cup {None}]

ProcStep(p) ==
    \/ Launch(p)
    \/ ResetToLookup(p)
    \/ \E secs \in Secs \cup {None} : Type(p, secs)
    \/ \E cmd \in Commands : Click(p, cmd) \/ Run(p, cmd)
    \/ Open(p)
    \/ Look(p)
    \/ Persist(p)
    \/ Check(p)
    \/ Prepare(p)
    \/ Fail(p)
    \/ Die(p)

Next ==
    \/ /\ \E v \in Vaults : LineStep(v)
       /\ UNCHANGED <<file, mem, screen, field, op, prepared>>
    \/ \E p \in Procs : ProcStep(p)

Spec == Init /\ [][Next]_vars

-----------------------------------------------------------------------------
(* Properties.                                                             *)

\* What a start is prepared with is a layout of one vault: the one a lookup
\* found for the address typed has really had it, under the phrase typed.  Two
\* lookups of one address that find two vaults do not mix the custody path,
\* the coins and the clawback of one with those of the other.
PreparedWasOnChain ==
    \A made \in prepared :
        /\ made.vault \in Locates[made.address]
        /\ made.layout \in Past(made.vault)
        /\ made.words = made.layout.recovery

\* A clawback saved as verified did govern the vault of that entry once, also
\* when the entry it was verified on was of another vault of the address.
VerifiedWasOnChain ==
    \A e \in file :
        GuessOf(e.lookup).kind = "known" =>
            \E layout \in Past(e.vault) : layout.timelock = GuessOf(e.lookup).secs

OneLayout(v) ==
    \A i \in DOMAIN line[v] : line[v][i].puzzle = line[v][1].puzzle

\* A vault that never changed layout, with a common clawback, can be started
\* from any saved lookup of it, whatever hints were saved or values verified.
UnchangedVaultPrepares ==
    \A e \in file :
        LET layout == line[e.vault][1].puzzle.layout
        IN  /\ OneLayout(e.vault)
            /\ e.lookup.kind = "found"
            /\ layout.timelock \in Common
            => Reconstruct(e.lookup, layout.recovery, e.lookup.guess) = {layout}

-----------------------------------------------------------------------------
(* What the documents say of the cache, and the code does not keep to.     *)

\* A fresh lookup of a READY vault by its own custody path.
FreshReady(e) ==
    LET now == Newest(e.vault)
    IN  /\ e.lookup.kind = "found"
        /\ now.state = "READY"
        /\ e.lookup.current = now
        /\ e.lookup.custody = now.layout.custody
        /\ now.layout.timelock \in Common

\* The layout rebuilt from a fresh lookup is the one of the current coin.
RebuiltMatchesSingleton ==
    \A e \in file :
        FreshReady(e) /\ e.lookup.guess = Unknown =>
            Reconstruct(e.lookup, Newest(e.vault).layout.recovery, Unknown)
                = {Newest(e.vault).layout}

\* The custody path a lookup saves is one the vault has had.
SavedCustodyIsCustody ==
    \A e \in file :
        e.lookup.kind = "found" =>
            e.lookup.custody \in {CustodyOf(line[e.vault][i].puzzle) : i \in DOMAIN line[e.vault]}
=============================================================================
