---------------------------- MODULE WorldRestore ----------------------------
(***************************************************************************)
(* The journaled world swap of the agent: how a restore replaces a         *)
(* server's world folder and settings, and how an agent that stops, or     *)
(* whose disk fails, anywhere in the middle finishes or undoes it.         *)
(*                                                                         *)
(* One server.  A restore is named by its stage (the folder that holds the *)
(* extracted archive and, once the swap begins, its journal swap.json).    *)
(* A world is named by where it came from, and settings by the world they  *)
(* belong to, so "the settings of another world" is a state that can be    *)
(* seen.  A step of an operation is one durable effect: one rename, one    *)
(* journal write, one settings write, one half of a folder's deletion.     *)
(* The agent may crash between any two of them.                            *)
(***************************************************************************)
EXTENDS Naturals, FiniteSets

CONSTANTS
    Restores,     \* the restores (stages) of the server
    Prior,        \* the world, and the settings, the server begins with
    Fresh,        \* the new, empty world a start makes without a world folder
    None,         \* no world here
    NoJournal,    \* the stage has no swap.json
    MaxFaults,    \* bound: failed renames, file writes, deletions and stops
    MaxCrashes,   \* bound: agent crashes, host reboots and graceful stops
    LateDiscard,  \* may a stage be discarded after its restore was applied?
    SlowApply     \* may what a restore's request checked change before its
                  \* operation has the lock?

ASSUME RestoresAssumption ==
    /\ Prior \notin Restores /\ Fresh \notin Restores /\ None \notin Restores
    /\ Prior # Fresh /\ Prior # None /\ Fresh # None
ASSUME NoJournalAssumption ==
    NoJournal \notin [state : {"moving", "checking", "kept", "reverting"},
                      hadLive : BOOLEAN, prev : Restores \cup {Prior, Fresh}]
ASSUME BoundAssumption == MaxFaults \in Nat /\ MaxCrashes \in Nat
ASSUME SwitchAssumption == LateDiscard \in BOOLEAN /\ SlowApply \in BOOLEAN

Worlds == Restores \cup {Prior, Fresh}
Journals == [state : {"moving", "checking", "kept", "reverting"},
             hadLive : BOOLEAN, prev : Worlds]

VARIABLES
    live,       \* the world in the server's data folder, or None
    aside,      \* data.replaced-<stamp> of each restore: the previous world
    failed,     \* data.failed-restore-<stamp> of each restore
    staged,     \* <stage>/data of each restore: the extracted world
    broken,     \* which worlds lost files to an unfinished deletion, and where
    stage,      \* whose stage folder exists
    journal,    \* <stage>/swap.json
    settings,   \* whose settings the database has
    op,         \* each restore's operation record
    desired,    \* the state the server should be in
    rollback,   \* worlds a verified rollback archive was saved of
    box,        \* the server's container
    ran,        \* the world and settings the container was last started with
    why,        \* how the reconciler sees a stopped container
    agent,      \* the agent process
    kind, cur,  \* what holds the operation lock, and its restore
    pc,         \* the next step of what holds the lock
    wasUp,      \* the server ran when the restore began
    result,     \* how the restore's operation is about to end
    asked,      \* what a restore's request saw or asked for: no request yet,
                \* a server without a world, one with a world, or a server
                \* moved in that stays stopped
    settled,    \* stages settled whose folder is still to be removed
    toPrune,    \* stages pruneStages has still to look at
    played,     \* history: worlds that have been online
    was,        \* history: the world each restore replaces
    discarded,  \* history: worlds the owner discarded
    faults, crashes

worlds == <<live, aside, failed, staged>>
stages == <<stage, journal>>
conts  == <<box, ran, why>>
locks  == <<agent, kind, cur>>
notes  == <<wasUp, result, asked, settled, toPrune>>
hist   == <<played, was, discarded, crashes>>
vars   == <<worlds, broken, stages, settings, op, desired, rollback, conts,
            locks, pc, notes, hist, faults>>

TypeOK ==
    /\ live \in Worlds \cup {None}
    /\ aside \in [Restores -> Worlds \cup {None}]
    /\ failed \in [Restores -> Worlds \cup {None}]
    /\ staged \in [Restores -> Worlds \cup {None}]
    /\ broken \in [Worlds -> {"no", "copy", "stage"}]
    /\ stage \in [Restores -> BOOLEAN]
    /\ journal \in [Restores -> Journals \cup {NoJournal}]
    /\ settings \in Worlds
    /\ op \in [Restores -> {"none", "running", "succeeded", "failed"}]
    /\ desired \in {"running", "stopped"}
    /\ rollback \subseteq Worlds
    /\ box \in {"stopped", "starting", "online"}
    /\ ran \in [world : Worlds, settings : Worlds]
    /\ why \in {"intentional", "exited", "failed"}
    /\ agent \in {"down", "starting", "up", "stopping"}
    /\ kind \in {"none", "restore", "recover", "prune", "settle",
                 "start", "auto", "restart", "stop"}
    /\ cur \in Restores \cup {None}
    /\ pc \in {"idle", "stop", "rollback", "journal", "giveUp", "awaitPrev",
               "aside", "moveIn", "undo1", "putBack1", "rescue", "save",
               "check", "unsave", "undo2", "clear", "putBack2", "dropFailed",
               "launch", "await", "keep", "dropAside", "dropAside2",
               "revert", "revStop", "back1", "back2", "back3", "startPrev",
               "drop", "drop2", "end", "recover", "fwd1", "fwd2", "fwdSave",
               "fwdJournal", "settle", "settle1", "launchOwn", "awaitOwn",
               "halt"}
    /\ wasUp \in BOOLEAN
    /\ result \in {"succeeded", "failed"}
    /\ asked \in [Restores -> {"no", "empty", "world", "moved"}]
    /\ settled \subseteq Restores
    /\ toPrune \subseteq Restores
    /\ played \subseteq Worlds
    /\ was \in [Restores -> Worlds \cup {None}]
    /\ discarded \subseteq Worlds
    /\ faults \in 0 .. MaxFaults
    /\ crashes \in 0 .. MaxCrashes

(* An existing server, running or stopped; one that was made and never     *)
(* started, so has no world folder; or one that a restore makes, with the  *)
(* backup's settings and the restore already holding its lock; it stays    *)
(* stopped if it is moved in and was stopped where it came from.           *)
Init ==
    /\ \/ /\ live = Prior /\ settings = Prior /\ played = {Prior}
          /\ \/ box = "online" /\ desired = "running"
             \/ box = "stopped" /\ desired = "stopped"
          /\ kind = "none" /\ cur = None
       \/ /\ live = None /\ settings = Prior /\ played = {}
          /\ box = "stopped" /\ desired = "stopped"
          /\ kind = "none" /\ cur = None
       \/ /\ live = None /\ settings \in Restores /\ played = {}
          /\ box = "stopped" /\ desired = "stopped"
          /\ kind = "restore" /\ cur = settings
    /\ pc = IF cur = None THEN "idle" ELSE "stop"
    /\ stage = [r \in Restores |-> r = cur]
    /\ staged = [r \in Restores |-> IF r = cur THEN r ELSE None]
    /\ op = [r \in Restores |-> IF r = cur THEN "running" ELSE "none"]
    /\ \E new \in {"empty", "moved"} :
          asked = [r \in Restores |-> IF r = cur THEN new ELSE "no"]
    /\ journal = [r \in Restores |-> NoJournal]
    /\ aside = [r \in Restores |-> None] /\ failed = [r \in Restores |-> None]
    /\ broken = [w \in Worlds |-> "no"]
    /\ rollback = {}
    /\ ran = [world |-> Prior, settings |-> Prior] /\ why = "intentional"
    /\ agent = "up" /\ wasUp = FALSE /\ result = "failed"
    /\ settled = {} /\ toPrune = {}
    /\ was = [r \in Restores |-> None] /\ discarded = {}
    /\ faults = 0 /\ crashes = 0

-----------------------------------------------------------------------------
(* Conditions the code reads off the disk. *)

Free == agent = "up" /\ pc = "idle"          \* nothing holds the lock
At(p, r) == pc = p /\ cur = r

(* keptStages, unsettledSwaps: the stages that keep a swap journal. *)
Journaled == {r \in Restores : journal[r] # NoJournal}
HadLive(r) == journal[r].hadLive

(* Mutants stand before what they change: a start not held back by an      *)
(* unsettled restore, one that makes the folder whatever is set aside, a   *)
(* settle that waits for the folder to be missing, and a stop that is not  *)
(* waited for.                                                             *)
AnyStart(r) == FALSE
AnyFolder == FALSE
DueMissing == Journaled # {} /\ live = None /\ box = "stopped"
LeftRunning == UNCHANGED <<box, ran, why>>

(* worldMissing: the folder is gone and a previous world is set aside. *)
WorldMissing == live = None /\ \E q \in Restores : aside[q] # None

(* stagedRestoredWorld: an unsettled restore keeps its world in its stage. *)
StagedRestoredWorld == \E q \in Journaled \ settled : staged[q] # None

(* ensureDirs and startRefusal, which every start passes first; r is the   *)
(* restore the start belongs to, or None.                                  *)
DirsRefused == live = None /\ (WorldMissing \/ StagedRestoredWorld)
StartRefusal(r) == Journaled \ (settled \cup {r}) # {}
CanStart(r) == ~DirsRefused /\ ~StartRefusal(r)

(* busy: an operation runs, as opposed to a settle that just holds the lock. *)
Busy == kind \in {"restore", "recover", "start", "auto", "restart", "stop"}
RestoreRefusal == WorldMissing \/ (~Busy /\ Journaled # {})

SettleDue == Journaled # {} /\ live # None /\ box = "stopped"

(* A step that fails: a fault, or, while the agent is stopping, a context  *)
(* that was cancelled.                                                     *)
Fault == faults < MaxFaults /\ faults' = faults + 1
Cut   == agent = "stopping" /\ UNCHANGED faults

-----------------------------------------------------------------------------
(* The container. *)

(* startServer past its refusals: the folder is made if it is missing, a   *)
(* container already running this world and settings is left alone, any    *)
(* other is stopped and started anew.                                      *)
StartServer(sc) ==
    LET w == IF live = None THEN Fresh ELSE live
        run == [world |-> w, settings |-> sc]
    IN  /\ live' = w
        /\ broken' = IF live = None THEN [broken EXCEPT ![Fresh] = "no"]
                                    ELSE broken
        /\ box' = IF box # "stopped" /\ ran = run THEN box ELSE "starting"
        /\ ran' = run
        /\ UNCHANGED <<aside, failed, staged, why>>

(* A start that is refused, or that Docker refuses: the container is as it *)
(* was or gone, and a server that is wanted is tried again or given up.    *)
StartFailed ==
    /\ why' \in IF box = "stopped" THEN {"failed", "exited"} ELSE {why}
    /\ UNCHANGED <<worlds, broken, box, ran>>

StopServer ==
    /\ box' = "stopped"
    /\ why' = IF box = "stopped" THEN why ELSE "intentional"
    /\ UNCHANGED ran

GameOnline ==
    /\ box = "starting" /\ box' = "online" /\ played' = played \cup {ran.world}
    /\ UNCHANGED <<worlds, broken, stages, settings, op, desired, rollback, ran,
                   why, locks, pc, notes, was, discarded, crashes, faults>>

(* An exit an operation waits for is that operation's to report, and isn't *)
(* counted again by the reconciler (markExitHandled).                      *)
GameExit ==
    /\ box # "stopped" /\ box' = "stopped"
    /\ why' = IF pc \in {"await", "awaitPrev", "awaitOwn"} THEN "failed" ELSE "exited"
    /\ UNCHANGED <<worlds, broken, stages, settings, op, desired, rollback, ran,
                   locks, pc, notes, hist, faults>>

-----------------------------------------------------------------------------
(* Staging, applying and discarding. *)

(* A verified archive is extracted into a new stage. *)
StageArchive(r) ==
    /\ Free /\ op[r] = "none" /\ ~stage[r]
    /\ ~RestoreRefusal
    /\ stage' = [stage EXCEPT ![r] = TRUE]
    /\ staged' = [staged EXCEPT ![r] = r]
    /\ broken' = [broken EXCEPT ![r] = "no"]
    /\ UNCHANGED <<live, aside, failed, journal, settings, op, desired, rollback,
                   conts, locks, pc, notes, hist, faults>>

(* The preview a request loads says whether there is a world to archive    *)
(* first: the folder's level, which a server that never came up may lack.  *)
Sees(seen) == \/ seen = "world" /\ live # None
              \/ seen = "empty" /\ live \in {None, Fresh} \ played

(* hRestoreApply up to restoreRefusal; the lock is only tried later, after *)
(* the disk limit was measured.                                            *)
ApplyAsked(r) ==
    /\ agent = "up" /\ stage[r] /\ op[r] = "none" /\ asked[r] = "no"
    /\ ~RestoreRefusal
    /\ \E seen \in {"empty", "world"} :
          Sees(seen) /\ asked' = [asked EXCEPT ![r] = seen]
    /\ UNCHANGED <<worlds, broken, stages, settings, op, desired, rollback, conts,
                   locks, pc, wasUp, result, settled, toPrune, hist, faults>>

(* beginOp finds the lock taken: the claim on the stage is let go. *)
ApplyBusy(r) ==
    /\ agent = "up" /\ pc # "idle" /\ asked[r] # "no" /\ op[r] = "none"
    /\ asked' = [asked EXCEPT ![r] = "no"]
    /\ UNCHANGED <<worlds, broken, stages, settings, op, desired, rollback, conts,
                   locks, pc, wasUp, result, settled, toPrune, hist, faults>>

ApplyBegin(r) ==
    /\ Free /\ asked[r] # "no" /\ op[r] = "none"
    /\ SlowApply \/ (~RestoreRefusal /\ Sees(asked[r]))
    /\ op' = [op EXCEPT ![r] = "running"]
    /\ kind' = "restore" /\ cur' = r /\ pc' = "stop"
    /\ wasUp' = (box # "stopped") /\ result' = "failed"
    /\ UNCHANGED <<worlds, broken, stages, settings, desired, rollback, conts,
                   agent, asked, settled, toPrune, hist, faults>>

(* hRestoreDiscard refuses only a stage a restore has claimed or is        *)
(* putting in place; the stage leaves by one rename.  (One between two     *)
(* steps of a settle of the same stage is left out.)                       *)
DiscardStage(r) ==
    /\ agent = "up" /\ stage[r]
    /\ asked[r] = "no" \/ op[r] # "none"
    /\ pc = "idle" \/ cur # r
    /\ LateDiscard \/ op[r] = "none"
    /\ stage' = [stage EXCEPT ![r] = FALSE]
    /\ journal' = [journal EXCEPT ![r] = NoJournal]
    /\ staged' = [staged EXCEPT ![r] = None]
    /\ UNCHANGED <<live, aside, failed, broken, settings, op, desired, rollback,
                   conts, locks, pc, notes, hist, faults>>

-----------------------------------------------------------------------------
(* restoreOp: stop, archive, journal, swap, save, check. *)

(* What a step of the operation may not touch: set apart so that each step *)
(* lists only what it changes.                                             *)
Quiet == UNCHANGED <<desired, rollback, asked, settled, toPrune, wasUp, hist>>
SameLock == UNCHANGED locks
Release == kind' = "none" /\ cur' = None /\ pc' = "idle" /\ UNCHANGED agent

(* The operation returns with the stage, and its journal, left in place. *)
FailKeepingStage == pc' = "end" /\ result' = "failed"

(* archiveRefusal and the lookups before it may refuse; then the server is *)
(* stopped.                                                                *)
Stop(r) ==
    /\ At("stop", r) /\ SameLock /\ Quiet
    /\ UNCHANGED <<worlds, broken, stages, settings, op>>
    /\ \/ pc' = "rollback" /\ StopServer /\ UNCHANGED <<result, faults>>
       \/ pc' = "drop" /\ UNCHANGED <<conts, result, faults>>
       \/ pc' = "drop" /\ box # "stopped" /\ (Fault \/ Cut)
          /\ UNCHANGED <<conts, result>>

(* Mutant: the world is replaced although its archive failed. *)
SaveUnchecked(r) ==
    /\ At("rollback", r) /\ SameLock /\ pc' = "journal"
    /\ \E saved \in SUBSET {live} \ {{None}} : rollback' = rollback \cup saved
    /\ UNCHANGED <<worlds, broken, stages, settings, op, desired, conts, notes,
                   hist, faults>>

(* saveVerifiedRollback: the replaced world is archived and read back, if  *)
(* the request saw one.                                                    *)
SaveRollback(r) ==
    /\ At("rollback", r) /\ SameLock
    /\ \/ asked[r] \in {"empty", "moved"} /\ pc' = "journal" /\ UNCHANGED rollback
       \/ asked[r] = "world" /\ live # None /\ pc' = "journal"
          /\ rollback' = rollback \cup {live}
       \/ asked[r] = "world" /\ pc' = "giveUp" /\ UNCHANGED rollback
    /\ UNCHANGED <<worlds, broken, stages, settings, op, desired, conts, notes,
                   hist, faults>>

(* The journal is written before the live world moves. *)
WriteJournal(r) ==
    /\ At("journal", r) /\ SameLock
    /\ \/ /\ journal' = [journal EXCEPT ![r] = [state |-> "moving",
                             hadLive |-> live # None, prev |-> settings]]
          /\ was' = [was EXCEPT ![r] = live]
          /\ pc' = IF live # None THEN "aside" ELSE "moveIn"
          /\ UNCHANGED faults
       \/ Fault /\ pc' = "giveUp" /\ UNCHANGED <<journal, was>>
    /\ UNCHANGED <<worlds, broken, stage, settings, op, desired, rollback, conts,
                   notes, played, discarded, crashes>>

(* startPrevious, before the stage goes. *)
GiveUp(r) ==
    /\ At("giveUp", r) /\ SameLock /\ Quiet
    /\ \/ wasUp /\ CanStart(r) /\ StartServer(settings) /\ pc' = "awaitPrev"
       \/ wasUp /\ StartFailed /\ pc' = "drop"
       \/ ~wasUp /\ pc' = "drop" /\ UNCHANGED <<worlds, broken, conts>>
    /\ UNCHANGED <<stages, settings, op, result, faults>>

(* The wait for the previous world: its outcome changes nothing. *)
AwaitPrevious(r) ==
    /\ At("awaitPrev", r) /\ SameLock /\ Quiet
    /\ pc' = "drop"
    /\ UNCHANGED <<worlds, broken, stages, settings, op, result, conts, faults>>

SetAside(r) ==
    /\ At("aside", r) /\ SameLock /\ Quiet
    /\ \/ /\ aside' = [aside EXCEPT ![r] = live] /\ live' = None
          /\ pc' = "moveIn" /\ UNCHANGED faults
       \/ Fault /\ pc' = "drop" /\ UNCHANGED <<aside, live>>
    /\ UNCHANGED <<failed, staged, broken, stages, settings, op, conts, result>>

MoveIn(r) ==
    /\ At("moveIn", r) /\ SameLock /\ Quiet
    /\ \/ /\ live' = staged[r] /\ staged' = [staged EXCEPT ![r] = None]
          /\ pc' = "save" /\ UNCHANGED faults
       \/ /\ Fault /\ UNCHANGED <<live, staged>>
          /\ pc' = IF HadLive(r) THEN "undo1" ELSE "drop"
    /\ UNCHANGED <<aside, failed, broken, stages, settings, op, conts, result>>

(* undoing: the journal says the restore is being undone; a failure to say *)
(* so is only logged.                                                      *)
Undoing(p, r, next) ==
    /\ At(p, r) /\ SameLock /\ Quiet /\ pc' = next
    /\ \/ HadLive(r) /\ UNCHANGED faults
          /\ journal' = [journal EXCEPT ![r].state = "reverting"]
       \/ HadLive(r) /\ Fault /\ UNCHANGED journal
       \/ ~HadLive(r) /\ UNCHANGED <<journal, faults>>
    /\ UNCHANGED <<worlds, broken, stage, settings, op, conts, result>>

UndoMoveIn(r) == Undoing("undo1", r, "putBack1")
UndoSettings(r) == Undoing("undo2", r, "clear")

(* putBack, when the restored world never left its stage. *)
PutBackUnmoved(r) ==
    /\ At("putBack1", r) /\ SameLock /\ Quiet
    /\ \/ /\ live' = aside[r] /\ aside' = [aside EXCEPT ![r] = None]
          /\ pc' = "drop" /\ UNCHANGED faults
       \/ Fault /\ pc' = "rescue" /\ UNCHANGED <<live, aside>>
    /\ UNCHANGED <<failed, staged, broken, stages, settings, op, conts, result>>

(* The previous world can't go back: the restored copy leaves the stage, so *)
(* that both are next to the data folder.                                   *)
RescueStaged(r) ==
    /\ At("rescue", r) /\ SameLock /\ Quiet /\ FailKeepingStage
    /\ \/ /\ failed' = [failed EXCEPT ![r] = staged[r]]
          /\ staged' = [staged EXCEPT ![r] = None] /\ UNCHANGED faults
       \/ Fault /\ UNCHANGED <<failed, staged>>
    /\ UNCHANGED <<live, aside, broken, stages, settings, op, conts>>

(* saveWithPack: the restored settings and pack record, one transaction. *)
SaveRestored(r) ==
    /\ At("save", r) /\ SameLock /\ Quiet
    /\ \/ settings' = r /\ pc' = "check" /\ UNCHANGED faults
       \/ Fault /\ pc' = "undo2" /\ UNCHANGED settings
    /\ UNCHANGED <<worlds, broken, stages, op, conts, result>>

JournalChecking(r) ==
    /\ At("check", r) /\ SameLock /\ Quiet
    /\ \/ journal' = [journal EXCEPT ![r].state = "checking"]
          /\ pc' = "launch" /\ UNCHANGED faults
       \/ Fault /\ pc' = "unsave" /\ UNCHANGED journal
    /\ UNCHANGED <<worlds, broken, stage, settings, op, conts, result>>

(* Mutant: the restored settings stay when the world is put back. *)
UnsaveNothing(r) ==
    /\ At("unsave", r) /\ SameLock /\ Quiet /\ pc' = "undo2"
    /\ UNCHANGED <<worlds, broken, stages, settings, op, conts, result, faults>>

(* The previous settings go back; whether they did is not looked at. *)
UnsaveRestored(r) ==
    /\ At("unsave", r) /\ SameLock /\ Quiet /\ pc' = "undo2"
    /\ \/ settings' = journal[r].prev /\ UNCHANGED faults
       \/ Fault /\ UNCHANGED settings
    /\ UNCHANGED <<worlds, broken, stages, op, conts, result>>

ClearLive(r) ==
    /\ At("clear", r) /\ SameLock /\ Quiet
    /\ \/ /\ failed' = [failed EXCEPT ![r] = live] /\ live' = None
          /\ pc' = "putBack2" /\ UNCHANGED <<result, faults>>
       \/ Fault /\ FailKeepingStage /\ UNCHANGED <<live, failed>>
    /\ UNCHANGED <<aside, staged, broken, stages, settings, op, conts>>

PutBackMoved(r) ==
    /\ At("putBack2", r) /\ SameLock /\ Quiet
    /\ \/ /\ HadLive(r) /\ live' = aside[r] /\ aside' = [aside EXCEPT ![r] = None]
          /\ pc' = "dropFailed" /\ UNCHANGED <<result, faults>>
       \/ HadLive(r) /\ Fault /\ FailKeepingStage /\ UNCHANGED <<live, aside>>
       \/ ~HadLive(r) /\ pc' = "dropFailed"
          /\ UNCHANGED <<live, aside, result, faults>>
    /\ UNCHANGED <<failed, staged, broken, stages, settings, op, conts>>

DropFailed(r) ==
    /\ At("dropFailed", r) /\ SameLock /\ Quiet /\ pc' = "giveUp"
    /\ failed' = [failed EXCEPT ![r] = None]
    /\ UNCHANGED <<live, aside, staged, broken, stages, settings, op, conts,
                   result, faults>>

-----------------------------------------------------------------------------
(* finishRestore: start the restored world, keep it once it is online.     *)

(* It did not start.  Only the agent's own stop leaves the operation       *)
(* running for the next agent; without a previous world the restored one   *)
(* stays; otherwise the restore is undone.                                 *)
FinishFailed(r) ==
    \/ /\ agent = "stopping" /\ Release /\ UNCHANGED result
    \/ /\ agent # "stopping" /\ SameLock
       /\ pc' = IF HadLive(r) THEN "revert" ELSE "drop"
       /\ result' = "failed"

(* Mutant: a server moved in is started to check it, as any other. *)
LaunchAny(r) ==
    /\ At("launch", r) /\ CanStart(r) /\ StartServer(r) /\ SameLock
    /\ desired' = "running" /\ pc' = "await"
    /\ UNCHANGED <<stages, settings, op, rollback, wasUp, asked, settled,
                   toPrune, hist, faults, result>>

Launch(r) ==
    /\ At("launch", r)
    /\ UNCHANGED <<stages, settings, op, rollback, wasUp, asked, settled,
                   toPrune, hist, faults>>
    /\ \/ /\ asked[r] = "moved" /\ pc' = "keep" /\ SameLock
          /\ UNCHANGED <<worlds, broken, conts, desired, result>>
       \/ /\ asked[r] # "moved" /\ CanStart(r) /\ StartServer(r) /\ SameLock
          /\ desired' = "running" /\ pc' = "await" /\ UNCHANGED result
       \/ asked[r] # "moved" /\ StartFailed /\ FinishFailed(r) /\ desired' = "running"

(* Mutant: the container running counts as the server being online. *)
AwaitReady(r) ==
    /\ At("await", r) /\ Quiet
    /\ \/ box # "stopped" /\ pc' = "keep" /\ SameLock /\ UNCHANGED result
       \/ box = "stopped" /\ FinishFailed(r)
    /\ UNCHANGED <<worlds, broken, stages, settings, op, conts, faults>>

(* waitReady and waitOnline: online, exited, out of time or cancelled. *)
Await(r) ==
    /\ At("await", r) /\ Quiet
    /\ \/ box = "online" /\ pc' = "keep" /\ SameLock /\ UNCHANGED result
       \/ box # "online" /\ FinishFailed(r)
    /\ UNCHANGED <<worlds, broken, stages, settings, op, conts, faults>>

(* Mutant: the journal gets the state that only memory has. *)
KeepDone(r) ==
    /\ At("keep", r) /\ SameLock /\ Quiet /\ result' = "succeeded"
    /\ journal' = [journal EXCEPT ![r].state = "done"] /\ pc' = "drop"
    /\ UNCHANGED <<worlds, broken, stage, settings, op, conts, faults>>

(* The journal says kept before the previous world's copy goes; if it      *)
(* can't, the copy is kept.                                                *)
Keep(r) ==
    /\ At("keep", r) /\ SameLock /\ Quiet /\ result' = "succeeded"
    /\ \/ /\ journal' = [journal EXCEPT ![r].state = "kept"]
          /\ pc' = IF HadLive(r) THEN "dropAside" ELSE "drop"
          /\ UNCHANGED faults
       \/ Fault /\ pc' = "drop" /\ UNCHANGED journal
    /\ UNCHANGED <<worlds, broken, stage, settings, op, conts>>

-----------------------------------------------------------------------------
(* revertRestore and putPreviousBack.                                      *)

Revert(r) ==
    /\ At("revert", r) /\ SameLock /\ Quiet
    /\ \/ journal' = [journal EXCEPT ![r].state = "reverting"]
          /\ pc' = "revStop" /\ UNCHANGED <<result, faults>>
       \/ Fault /\ FailKeepingStage /\ UNCHANGED journal
    /\ UNCHANGED <<worlds, broken, stage, settings, op, conts>>

RevertStop(r) ==
    /\ At("revStop", r) /\ Quiet
    /\ \/ StopServer /\ pc' = "back1" /\ SameLock /\ UNCHANGED <<result, faults>>
       \/ box # "stopped" /\ Cut /\ Release /\ UNCHANGED <<conts, result>>
       \/ /\ box # "stopped" /\ agent # "stopping" /\ Fault
          /\ FailKeepingStage /\ SameLock /\ UNCHANGED conts
    /\ UNCHANGED <<worlds, broken, stages, settings, op>>

(* What follows a settle that could not finish: pruneStages goes on to the *)
(* next stage, a tick ends, a start goes on to its own refusals.           *)
SettleFailed ==
    \/ kind = "prune" /\ toPrune' = toPrune \ {cur} /\ Release
    \/ kind = "settle" /\ Release /\ UNCHANGED toPrune
    \/ kind = "start" /\ pc' = "launchOwn" /\ SameLock /\ UNCHANGED toPrune

Settling == kind \in {"prune", "settle", "start"}

(* putPreviousBack returned an error. *)
BackFailed ==
    \/ ~Settling /\ desired' = "stopped" /\ FailKeepingStage /\ SameLock
       /\ UNCHANGED toPrune
    \/ Settling /\ SettleFailed /\ UNCHANGED <<desired, result>>

PutPreviousBack(r) == UNCHANGED <<broken, stages, op, rollback, conts, wasUp, asked,
                                  hist>>

(* The restored world in the way moves to the failed-restore copy. *)
BackClear(r) ==
    /\ At("back1", r) /\ PutPreviousBack(r)
    /\ UNCHANGED <<aside, staged, settings, settled>>
    /\ \/ /\ aside[r] = None \/ live = None
          /\ pc' = IF aside[r] = None THEN "back3" ELSE "back2"
          /\ SameLock
          /\ UNCHANGED <<live, failed, desired, result, toPrune, faults>>
       \/ /\ aside[r] # None /\ live # None /\ failed[r] = None
          /\ failed' = [failed EXCEPT ![r] = live] /\ live' = None
          /\ pc' = "back2" /\ SameLock
          /\ UNCHANGED <<desired, result, toPrune, faults>>
       \/ /\ aside[r] # None /\ live # None /\ BackFailed
          /\ Fault \/ (failed[r] # None /\ UNCHANGED faults)
          /\ UNCHANGED <<live, failed>>

BackMove(r) ==
    /\ At("back2", r) /\ PutPreviousBack(r)
    /\ UNCHANGED <<failed, staged, settings, settled>>
    /\ \/ /\ live' = aside[r] /\ aside' = [aside EXCEPT ![r] = None]
          /\ pc' = "back3" /\ SameLock
          /\ UNCHANGED <<desired, result, toPrune, faults>>
       \/ Fault /\ BackFailed /\ UNCHANGED <<live, aside>>

(* The previous settings go back with their world.  After that a restore   *)
(* is done; a settle goes on to delete the stage.                          *)
BackSave(r) ==
    /\ At("back3", r) /\ PutPreviousBack(r) /\ UNCHANGED worlds
    /\ \/ /\ live # None /\ settings' = journal[r].prev
          /\ pc' = IF Settling THEN "drop" ELSE "startPrev"
          /\ settled' = IF kind \in {"settle", "start"} THEN settled \cup {r}
                                                         ELSE settled
          /\ SameLock /\ UNCHANGED <<desired, result, toPrune, faults>>
       \/ live = None /\ BackFailed /\ UNCHANGED <<settings, settled, faults>>
       \/ live # None /\ Fault /\ BackFailed /\ UNCHANGED <<settings, settled>>

StartPrevious(r) ==
    /\ At("startPrev", r) /\ SameLock /\ Quiet /\ result' = "failed"
    /\ \/ desired = "running" /\ CanStart(r) /\ StartServer(settings)
          /\ pc' = "awaitPrev"
       \/ desired = "running" /\ StartFailed /\ pc' = "drop"
       \/ desired = "stopped" /\ pc' = "drop" /\ UNCHANGED <<worlds, broken, conts>>
    /\ UNCHANGED <<stages, settings, op, faults>>

-----------------------------------------------------------------------------
(* Deletions, in two halves: a crash between them leaves part of a world.  *)

DropAside(r) ==
    /\ At("dropAside", r) /\ Quiet
    /\ \/ aside[r] # None /\ broken' = [broken EXCEPT ![aside[r]] = "copy"]
          /\ pc' = "dropAside2" /\ SameLock
       \/ aside[r] = None /\ pc' = "drop" /\ SameLock /\ UNCHANGED broken
    /\ UNCHANGED <<worlds, stages, settings, op, conts, result, faults>>

DropAsideRest(r) ==
    /\ At("dropAside2", r)
    /\ UNCHANGED <<live, failed, staged, broken, stages, settings, op, desired,
                   rollback, conts, wasUp, result, asked, settled, hist>>
    /\ \/ aside' = [aside EXCEPT ![r] = None] /\ pc' = "drop" /\ SameLock
          /\ UNCHANGED <<toPrune, faults>>
       \/ /\ Fault /\ UNCHANGED aside
          /\ \/ ~Settling /\ pc' = "drop" /\ SameLock /\ UNCHANGED toPrune
             \/ Settling /\ SettleFailed

(* os.RemoveAll of the stage; its world is the bulk of it.  An error is    *)
(* ignored by a restore, and leaves a settle unfinished.                   *)
DropStage(r) ==
    /\ At("drop", r)
    /\ UNCHANGED <<worlds, stages, settings, op, desired, rollback, conts,
                   wasUp, result, asked, hist>>
    /\ \/ /\ broken' = IF staged[r] = None THEN broken
                       ELSE [broken EXCEPT ![staged[r]] = "stage"]
          /\ pc' = "drop2" /\ SameLock /\ UNCHANGED <<settled, toPrune, faults>>
       \/ /\ Fault /\ UNCHANGED broken
          /\ \/ ~Settling /\ pc' = "end" /\ SameLock /\ UNCHANGED <<settled, toPrune>>
             \/ Settling /\ SettleFailed
                /\ settled' = IF kind = "prune" THEN settled ELSE settled \cup {r}

DropStageRest(r) ==
    /\ At("drop2", r)
    /\ stage' = [stage EXCEPT ![r] = FALSE]
    /\ journal' = [journal EXCEPT ![r] = NoJournal]
    /\ staged' = [staged EXCEPT ![r] = None]
    /\ settled' = settled \ {r}
    /\ \/ ~Settling /\ pc' = "end" /\ SameLock /\ UNCHANGED toPrune
       \/ kind = "prune" /\ toPrune' = toPrune \ {r} /\ Release
       \/ kind \in {"settle", "start"} /\ pc' = "settle" /\ SameLock
          /\ UNCHANGED toPrune
    /\ UNCHANGED <<live, aside, failed, broken, settings, op, desired, rollback,
                   conts, wasUp, result, asked, hist, faults>>

(* endOp: how it ended is stored, then the lock is let go. *)
End(r) ==
    /\ At("end", r) /\ Release /\ Quiet
    /\ op' = [op EXCEPT ![r] = result]
    /\ UNCHANGED <<worlds, broken, stages, settings, conts, result, faults>>

-----------------------------------------------------------------------------
(* The agent's start: findInterruptedRestores, markInterruptedOperations,  *)
(* pruneStages, then recoverAtStart.                                       *)

AgentStart ==
    /\ agent = "down" /\ agent' = "starting"
    /\ kind' = "none" /\ cur' = None /\ pc' = "idle"
    /\ op' = [r \in Restores |->
                IF op[r] = "running" /\ ~stage[r] THEN "failed" ELSE op[r]]
    /\ toPrune' = {r \in Restores : stage[r] /\ op[r] # "running"}
    /\ asked' = [r \in Restores |-> IF op[r] = "none" THEN "no" ELSE asked[r]]
    /\ settled' = {}
    /\ why' = "exited"
    /\ UNCHANGED <<worlds, broken, stages, settings, desired, rollback, box, ran,
                   wasUp, result, hist, faults>>

Prune(r) ==
    /\ agent = "starting" /\ pc = "idle" /\ r \in toPrune
    /\ kind' = "prune" /\ cur' = r /\ pc' = "settle1"
    /\ UNCHANGED <<worlds, broken, stages, settings, op, desired, rollback, conts,
                   agent, notes, hist, faults>>

(* Mutant: a restore left running is not resumed. *)
AgentUpOnly ==
    /\ agent = "starting" /\ pc = "idle" /\ toPrune = {} /\ agent' = "up"
    /\ UNCHANGED <<kind, cur, pc, worlds, broken, stages, settings, op, desired,
                   rollback, conts, notes, hist, faults>>

(* With the stages pruned, the restore that was left running is resumed    *)
(* before anything else can take the lock.                                 *)
AgentUp ==
    /\ agent = "starting" /\ pc = "idle" /\ toPrune = {} /\ agent' = "up"
    /\ \/ \E r \in Restores : /\ op[r] = "running"
                              /\ kind' = "recover" /\ cur' = r /\ pc' = "recover"
       \/ /\ \A r \in Restores : op[r] # "running"
          /\ UNCHANGED <<kind, cur, pc>>
    /\ UNCHANGED <<worlds, broken, stages, settings, op, desired, rollback, conts,
                   notes, hist, faults>>

(* recoverRestore: what the journal says is done next. *)
Recover(r) ==
    /\ At("recover", r) /\ SameLock /\ Quiet /\ journal[r] # NoJournal
    /\ pc' = CASE journal[r].state = "moving"    -> "fwd1"
               [] journal[r].state = "checking"  -> "launch"
               [] journal[r].state = "kept"      -> IF HadLive(r) THEN "dropAside"
                                                                  ELSE "drop"
               [] journal[r].state = "reverting" -> "revert"
    /\ result' = IF journal[r].state = "kept" THEN "succeeded" ELSE "failed"
    /\ UNCHANGED <<worlds, broken, stages, settings, op, conts, faults>>

(* adoptRestore: no journal, so the restore stopped before the swap, or    *)
(* while its stage was deleted.  It is worked out from the folders and     *)
(* settings, by rules made for Playkeeper 0.3.0's restores, which had no   *)
(* journal: a staged world without a live one, under the restored          *)
(* settings, is taken for a swap to finish.  That may not be told, as when *)
(* the server software can't be looked up.  An agent that is stopping      *)
(* leaves it to the next one.                                              *)
Adopt(r) ==
    /\ At("recover", r) /\ Quiet /\ journal[r] = NoJournal
    /\ \/ /\ live = None /\ settings = r /\ staged[r] # None
          /\ pc' = "fwd1" /\ SameLock
          /\ journal' = [journal EXCEPT ![r] = [state |-> "moving",
                              hadLive |-> FALSE, prev |-> settings]]
       \/ /\ agent # "stopping" /\ SameLock /\ UNCHANGED journal
          /\ pc' = IF live # None THEN "drop" ELSE "end"
       \/ agent = "stopping" /\ Release /\ UNCHANGED journal
    /\ result' = "failed"
    /\ UNCHANGED <<worlds, broken, stage, settings, op, conts, faults>>

(* rollForward could not finish the swap. *)
ForwardFailed(r) ==
    /\ pc' = IF HadLive(r) THEN "revert" ELSE "end"
    /\ result' = "failed"

(* rollForward: finish moving the worlds, unless they are where no         *)
(* unfinished swap leaves them.                                            *)
ForwardClear(r) ==
    /\ At("fwd1", r) /\ SameLock /\ Quiet
    /\ UNCHANGED <<failed, staged, broken, stages, settings, op, conts>>
    /\ LET blocked == \/ failed[r] # None
                      \/ staged[r] # None /\ live # None
                           /\ (~HadLive(r) \/ aside[r] # None)
                      \/ staged[r] = None /\ live = None
       IN \/ blocked /\ ForwardFailed(r) /\ UNCHANGED <<live, aside, faults>>
          \/ ~blocked /\ staged[r] = None /\ pc' = "fwdSave"
             /\ UNCHANGED <<live, aside, result, faults>>
          \/ ~blocked /\ staged[r] # None /\ live = None /\ pc' = "fwd2"
             /\ UNCHANGED <<live, aside, result, faults>>
          \/ /\ ~blocked /\ staged[r] # None /\ live # None /\ pc' = "fwd2"
             /\ aside' = [aside EXCEPT ![r] = live] /\ live' = None
             /\ UNCHANGED <<result, faults>>
          \/ /\ ~blocked /\ staged[r] # None /\ live # None
             /\ Fault /\ ForwardFailed(r) /\ UNCHANGED <<live, aside>>

ForwardMove(r) ==
    /\ At("fwd2", r) /\ SameLock /\ Quiet
    /\ \/ /\ live' = staged[r] /\ staged' = [staged EXCEPT ![r] = None]
          /\ pc' = "fwdSave" /\ UNCHANGED <<result, faults>>
       \/ Fault /\ ForwardFailed(r) /\ UNCHANGED <<live, staged>>
    /\ UNCHANGED <<aside, failed, broken, stages, settings, op, conts>>

ForwardSave(r) ==
    /\ At("fwdSave", r) /\ SameLock /\ Quiet
    /\ \/ settings' = r /\ pc' = "fwdJournal" /\ UNCHANGED <<result, faults>>
       \/ Fault /\ ForwardFailed(r) /\ UNCHANGED settings
    /\ UNCHANGED <<worlds, broken, stages, op, conts>>

ForwardJournal(r) ==
    /\ At("fwdJournal", r) /\ SameLock /\ Quiet
    /\ \/ journal' = [journal EXCEPT ![r].state = "checking"]
          /\ pc' = "launch" /\ UNCHANGED <<result, faults>>
       \/ Fault /\ ForwardFailed(r) /\ UNCHANGED journal
    /\ UNCHANGED <<worlds, broken, stage, settings, op, conts>>

-----------------------------------------------------------------------------
(* settleKept: restores that are over but keep their journal.              *)

(* settleWhenBack, on the reconciler's tick. *)
SettleTick ==
    /\ Free /\ SettleDue
    /\ kind' = "settle" /\ pc' = "settle"
    /\ UNCHANGED <<worlds, broken, stages, settings, op, desired, rollback, conts,
                   agent, cur, notes, hist, faults>>

(* The next kept stage; with none left, a tick is over and a start begins. *)
SettleNext ==
    /\ pc = "settle"
    /\ \/ \E r \in Journaled :
             /\ cur' = r /\ pc' = IF r \in settled THEN "drop" ELSE "settle1"
             /\ UNCHANGED <<agent, kind>>
       \/ Journaled = {} /\ kind = "settle" /\ Release
       \/ Journaled = {} /\ kind = "start" /\ cur' = None /\ pc' = "launchOwn"
          /\ UNCHANGED <<agent, kind>>
    /\ UNCHANGED <<worlds, broken, stages, settings, op, desired, rollback, conts,
                   notes, hist, faults>>

(* settleSwap, by the journal's state. *)
SettleSwap(r) ==
    /\ At("settle1", r)
    /\ LET j == journal[r]
           unswapped == j # NoJournal /\ j.state \in {"moving", "reverting"}
       IN \/ /\ \/ j = NoJournal
                \/ j # NoJournal /\ j.state = "checking"
                \/ unswapped /\ ~j.hadLive /\ staged[r] = None
             /\ pc' = "drop" /\ SameLock /\ UNCHANGED toPrune
          \/ /\ j # NoJournal /\ j.state = "kept"
             /\ pc' = "dropAside" /\ SameLock /\ UNCHANGED toPrune
          \/ unswapped /\ ~j.hadLive /\ staged[r] # None /\ SettleFailed
          \/ unswapped /\ j.hadLive /\ box # "stopped" /\ SettleFailed
          \/ /\ unswapped /\ j.hadLive /\ box = "stopped"
             /\ pc' = "back1" /\ SameLock /\ UNCHANGED toPrune
    /\ UNCHANGED <<worlds, broken, stages, settings, op, desired, rollback, conts,
                   wasUp, result, asked, settled, hist, faults>>

-----------------------------------------------------------------------------
(* Starts, stops and restarts, which contend for the same lock.            *)

(* hStart and startNow; a running server only stays wanted. *)
StartAsked ==
    /\ Free
    /\ \/ box # "stopped" /\ desired # "running" /\ desired' = "running"
          /\ UNCHANGED <<kind, pc>>
       \/ box = "stopped" /\ kind' = "start" /\ UNCHANGED desired
          /\ pc' = IF SettleDue THEN "settle" ELSE "launchOwn"
    /\ UNCHANGED <<worlds, broken, stages, settings, op, rollback, conts, agent, cur,
                   notes, hist, faults>>

(* autoStart, decided by the reconciler for a wanted server whose exit     *)
(* nobody asked for.                                                       *)
AutoStart ==
    /\ Free /\ box = "stopped" /\ desired = "running" /\ why = "exited"
    /\ kind' = "auto" /\ pc' = "launchOwn"
    /\ UNCHANGED <<worlds, broken, stages, settings, op, desired, rollback, conts,
                   agent, cur, notes, hist, faults>>

RestartAsked ==
    /\ Free /\ box # "stopped" /\ kind' = "restart" /\ pc' = "halt"
    /\ UNCHANGED <<worlds, broken, stages, settings, op, desired, rollback, conts,
                   agent, cur, notes, hist, faults>>

StopAsked ==
    /\ Free /\ desired' = "stopped"
    /\ \/ box = "stopped" /\ desired # "stopped" /\ UNCHANGED <<kind, pc>>
       \/ box # "stopped" /\ kind' = "stop" /\ pc' = "halt"
    /\ UNCHANGED <<worlds, broken, stages, settings, op, rollback, conts, agent, cur,
                   notes, hist, faults>>

Halt ==
    /\ pc = "halt"
    /\ \/ StopServer /\ kind = "restart" /\ pc' = "launchOwn" /\ SameLock
          /\ UNCHANGED faults
       \/ StopServer /\ kind = "stop" /\ Release /\ UNCHANGED faults
       \/ box # "stopped" /\ (Fault \/ Cut) /\ Release /\ UNCHANGED conts
    /\ UNCHANGED <<worlds, broken, stages, settings, op, desired, rollback, notes,
                   hist>>

(* startFailed: nothing retries a start someone asked for. *)
OwnStartFailed(wanted) ==
    /\ Release
    /\ desired' = IF kind # "auto" /\ box = "stopped" THEN "stopped" ELSE wanted

LaunchOwn ==
    /\ pc = "launchOwn"
    /\ LET wanted == IF kind = "start" THEN "running" ELSE desired
       IN \/ CanStart(None) /\ StartServer(settings) /\ desired' = wanted
             /\ pc' = "awaitOwn" /\ SameLock
          \/ StartFailed /\ OwnStartFailed(wanted)
    /\ UNCHANGED <<stages, settings, op, rollback, notes, hist, faults>>

AwaitOwn ==
    /\ pc = "awaitOwn"
    /\ \/ box = "online" /\ Release /\ UNCHANGED <<why, desired>>
       \/ /\ box # "online" /\ OwnStartFailed(desired)
          /\ why' \in IF box = "stopped" /\ kind = "auto" THEN {"failed", "exited"}
                                                          ELSE {why}
    /\ UNCHANGED <<worlds, broken, stages, settings, op, rollback, box, ran, notes,
                   hist, faults>>

-----------------------------------------------------------------------------
(* What else happens to the machine. *)

(* The agent dies, alone or with the host and every container on it. *)
Crash ==
    /\ agent # "down" /\ crashes < MaxCrashes /\ crashes' = crashes + 1
    /\ agent' = "down" /\ kind' = "none" /\ cur' = None /\ pc' = "idle"
    /\ box' \in {box, "stopped"}
    /\ UNCHANGED <<worlds, broken, stages, settings, op, desired, rollback, ran, why,
                   notes, played, was, discarded, faults>>

(* Close cancels the agent's context and waits for what runs. *)
AgentStop ==
    /\ agent = "up" /\ crashes < MaxCrashes /\ crashes' = crashes + 1
    /\ agent' = "stopping"
    /\ UNCHANGED <<worlds, broken, stages, settings, op, desired, rollback, conts,
                   kind, cur, pc, notes, played, was, discarded, faults>>

AgentExit ==
    /\ agent = "stopping" /\ pc = "idle" /\ agent' = "down"
    /\ UNCHANGED <<worlds, broken, stages, settings, op, desired, rollback, conts,
                   kind, cur, pc, notes, hist, faults>>

(* The owner moves a folder back by hand, as the refusals' hints say: the  *)
(* newest previous world, which a restore that is not over set aside, or   *)
(* the restored world that is only in its stage.                           *)
MoveBackByHand(r) ==
    /\ pc = "idle" /\ live = None
    /\ \/ /\ aside[r] # None /\ op[r] # "running" /\ live' = aside[r]
          /\ r \in Journaled \/ \A q \in Journaled : aside[q] = None
          /\ aside' = [aside EXCEPT ![r] = None] /\ UNCHANGED staged
       \/ /\ agent = "up" /\ ~WorldMissing
          /\ r \in Journaled \ settled /\ staged[r] # None
          /\ live' = staged[r] /\ staged' = [staged EXCEPT ![r] = None]
          /\ UNCHANGED aside
    /\ UNCHANGED <<failed, broken, stages, settings, op, desired, rollback, conts,
                   locks, pc, notes, hist, faults>>

(* hWorldCopyDelete, which holds the lock and refuses while a restore may  *)
(* still need a copy or the world folder is missing.                       *)
DiscardCopy(r) ==
    /\ Free /\ Journaled = {} /\ live # None
    /\ \/ /\ aside[r] # None /\ discarded' = discarded \cup {aside[r]}
          /\ aside' = [aside EXCEPT ![r] = None] /\ UNCHANGED failed
       \/ /\ failed[r] # None /\ discarded' = discarded \cup {failed[r]}
          /\ failed' = [failed EXCEPT ![r] = None] /\ UNCHANGED aside
    /\ UNCHANGED <<live, staged, broken, stages, settings, op, desired, rollback,
                   conts, locks, pc, notes, played, was, crashes, faults>>

RestoreStep(r) ==
    \/ Stop(r) \/ SaveRollback(r) \/ WriteJournal(r) \/ GiveUp(r)
    \/ AwaitPrevious(r) \/ SetAside(r) \/ MoveIn(r) \/ UndoMoveIn(r)
    \/ PutBackUnmoved(r) \/ RescueStaged(r) \/ SaveRestored(r)
    \/ JournalChecking(r) \/ UnsaveRestored(r) \/ UndoSettings(r)
    \/ ClearLive(r) \/ PutBackMoved(r) \/ DropFailed(r) \/ Launch(r)
    \/ Await(r) \/ Keep(r) \/ Revert(r) \/ RevertStop(r) \/ BackClear(r)
    \/ BackMove(r) \/ BackSave(r) \/ StartPrevious(r) \/ DropAside(r)
    \/ DropAsideRest(r) \/ DropStage(r) \/ DropStageRest(r) \/ End(r)
    \/ Recover(r) \/ Adopt(r) \/ ForwardClear(r) \/ ForwardMove(r)
    \/ ForwardSave(r) \/ ForwardJournal(r) \/ SettleSwap(r)

(* The agent's own steps: fair, since nothing but a crash stops them. *)
AgentStep ==
    \/ AgentStart \/ AgentUp \/ AgentExit \/ SettleNext
    \/ Halt \/ LaunchOwn \/ AwaitOwn
    \/ \E r \in Restores : Prune(r) \/ RestoreStep(r)

Next ==
    \/ AgentStep
    \/ GameOnline \/ GameExit \/ SettleTick \/ AutoStart
    \/ StartAsked \/ RestartAsked \/ StopAsked \/ Crash \/ AgentStop
    \/ \E r \in Restores :
          \/ StageArchive(r) \/ ApplyAsked(r) \/ ApplyBusy(r) \/ ApplyBegin(r)
          \/ DiscardStage(r) \/ MoveBackByHand(r) \/ DiscardCopy(r)

Spec == Init /\ [][Next]_vars

-----------------------------------------------------------------------------
(* Properties. *)

Restored(r) == r \in played \/ asked[r] = "moved"
OnDisk(w) == \/ live = w
             \/ \E r \in Restores : w \in {aside[r], failed[r], staged[r]}

(* The server never runs one world with another world's settings, neither  *)
(* while a restore tries or undoes one nor by a start between an           *)
(* interrupted restore and its settling (startRefusal, putPreviousBack).   *)
(* A restored world that replaced none stays although its restore failed   *)
(* to save its settings, as nothing could be put back.                     *)
RunsMatched ==
    box # "stopped" =>
        \/ ran.settings = ran.world
        \/ ran.world = Fresh
        \/ \E r \in Restores : ran.world = r /\ was[r] = None /\ op[r] = "failed"

(* No rename of the swap or of a settle moves a world the server runs:     *)
(* what runs is always what is in the data folder.                         *)
RunsInPlace == box # "stopped" => live = ran.world

(* A world that has been played stays on disk, and loses no file there,    *)
(* until its owner discards it or the restore that replaces it is seen to  *)
(* work (keepRestore): no crash, failed rename or resumed restore loses    *)
(* it.                                                                     *)
PlayedWorldsSurvive ==
    \A w \in played \ discarded :
        \/ OnDisk(w) /\ broken[w] # "copy"
        \/ \E r \in Restores : was[r] = w /\ Restored(r)

(* A previous world's copy whose deletion began is never put back.         *)
CopyNeverBack == live # None => broken[live] # "copy"

(* A restored world whose stage began to be deleted is never put in place. *)
StageNeverBack == live # None => broken[live] # "stage"

(* Every world a restore has set aside has a verified rollback archive     *)
(* (saveVerifiedRollback before writeSwapJournal), if its request saw one. *)
AsideArchived ==
    \A r \in Restores :
        aside[r] # None /\ asked[r] = "world" => aside[r] \in rollback

(* No world that was online is set aside without a rollback archive.       *)
PlayedAsideArchived ==
    \A r \in Restores : aside[r] \in played => aside[r] \in rollback

(* restoreRefusal: no restore begins to swap worlds while another one's    *)
(* journal is kept.                                                        *)
OneUnsettled == Cardinality(Journaled) <= 1

(* A restore is reported done only with its world in place under its       *)
(* settings, after that world was online, or for a server moved in that    *)
(* stays stopped (finishRestore, recoverRestore, keepRestore).             *)
SucceededMeansRestored ==
    [][\A r \in Restores :
          op[r] # "succeeded" /\ op'[r] = "succeeded"
          => Restored(r) /\ live = r /\ settings = r]_vars

(* The restore of a server moved in that stays stopped never starts it,    *)
(* whether it goes through at once or is resumed (keepStopped).            *)
MovedInStaysStopped ==
    [][(kind \in {"restore", "recover"} /\ asked[cur] = "moved" /\ box = "stopped")
       => box' = "stopped"]_vars

(* What one restore left doesn't start under another, nor on its own.      *)
RestoresApart == []OneUnsettled /\ MovedInStaysStopped

(* startPrevious: a restore that gives up before replacing the world, or   *)
(* that put it back itself, tries to start a server that ran.              *)
GaveUpRestarts ==
    pc = "end" /\ kind = "restore" /\ result = "failed" /\ wasUp
        /\ ~stage[cur] /\ live \notin {None, cur}
    => box # "stopped" \/ why # "intentional"

(* A start makes a new, empty world only when no played world is left.     *)
EmptyOnlyWithoutWorlds ==
    [][live = None /\ live' = Fresh /\ box' = "starting" => played \subseteq discarded]_vars

(* No played world is lost, replaced by an empty one or put back broken.   *)
WorldsKept == [](PlayedWorldsSurvive /\ CopyNeverBack) /\ EmptyOnlyWithoutWorlds

(* The swap implements WorldSwap: while a restore that may still be undone *)
(* keeps its journal, the home is the world it replaces with the settings  *)
(* its journal holds, wherever they are by then; otherwise it is the world *)
(* folder and the settings as they are.  A restore that replaces no world  *)
(* is not undone once its settings are saved too.                          *)
Trying == {r \in Journaled :
              journal[r].state \in IF HadLive(r) THEN {"moving", "reverting", "checking"}
                                                 ELSE {"moving"}}
Home == IF Trying = {} THEN live ELSE was[CHOOSE r \in Trying : TRUE]
Conf == IF Trying = {} THEN settings ELSE journal[CHOOSE r \in Trying : TRUE].prev
Promise == INSTANCE WorldSwap WITH home <- Home, conf <- Conf, trying <- Trying
AllOrNothing == Promise!Spec

(* The agent's goroutines go on.  Every tick of the reconciler settles     *)
(* before it starts anything, so its own starts can't keep a settle away   *)
(* for ever, nor can a start someone asks for, which settles first.        *)
FairSpec == Spec /\ WF_vars(AgentStep) /\ SF_vars(SettleTick)

(* Every restore that began is over some day: kept, or failed.             *)
RestoresEnd == \A r \in Restores : op[r] = "running" ~> op[r] # "running"

(* A restore that is over but keeps its journal is settled once the world  *)
(* folder is there and the server stopped, with no agent restart; only one *)
(* whose world is stuck in its stage waits for its owner.                  *)
KeptJournalsSettle ==
    \A r \in Restores :
        journal[r] # NoJournal ~>
            \/ journal[r] = NoJournal \/ live = None \/ box # "stopped"
            \/ \E q \in Journaled : ~HadLive(q) /\ staged[q] # None

(* No restore stays half done: neither its operation nor its journal.      *)
RestoresSettle == RestoresEnd /\ KeptJournalsSettle

(* startRefusal: a start is only refused for an unsettled restore while    *)
(* settling fails, or until the next tick.                                 *)
RefusedStartsSettle ==
    LET refused == /\ agent = "up" /\ box = "stopped"
                   /\ StartRefusal(None) /\ ~DirsRefused
    IN  refused ~> ~refused
=============================================================================
