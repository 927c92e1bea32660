----------------------------- MODULE UpdateHandoff -----------------------------
(***************************************************************************)
(* A dashboard update: the agent downloads and verifies a release and      *)
(* hands it over in files (internal/agent/update.go), and the updater, a   *)
(* root service of its own, checks it again, installs it and puts the      *)
(* previous version back when the new one isn't healthy                    *)
(* (internal/install/selfupdate.go and upgrade.go).  Either process may    *)
(* die between two of its steps, and the power may go.                     *)
(*                                                                         *)
(* Versions are numbers; an update goes from one to the next.  The         *)
(* databases are the newest version that ever opened them, which may have  *)
(* migrated them.                                                          *)
(***************************************************************************)
EXTENDS Naturals

CONSTANTS
    Updates,        \* how many updates the owner may start
    MaxFaults,      \* failing steps, crashes and power cuts
    InterruptedAt,  \* updater steps before which it may be interrupted
    AnyCopy,        \* ... and while only an earlier update's copy is there
    AnyUndo,        \* ... and before it said that putting back failed, when
                    \* the databases stayed newer
    Overlap         \* the next release may be handed over before the updater
                    \* ended with one that was given up, and its result is read

ASSUME UpdatesAssumption == Updates \in Nat \ {0}
ASSUME UpdateFaultsAssumption == MaxFaults \in Nat
ASSUME SwitchesAssumption == {Overlap, AnyCopy, AnyUndo} \subseteq BOOLEAN

Op == 1..Updates
Version == 1..(Updates + 1)
None == 0

VARIABLES
    op,         \* the agent's operations, in its database
    from,       \* the version each update starts from
    staging,    \* the update the agent is downloading
    installing, \* updateState.installing and opID
    sawRequest, \* watchHandoff found the request file after two minutes
    waited,     \* since the handover: 0, over 2 minutes (1), over 30 (2)
    abandoned,  \* kvUpdateAbandoned, in its database
    request, applying, staged,  \* the update in each of the handoff's files
    result,     \* result.json
    told,       \* what the databases were whenever they were newer and a
                \* result said that putting back what was there failed
    bin,        \* the installed version
    up,         \* the agent and the panel run
    boot,       \* the machine is starting and will start them
    db,         \* the newest version that opened the databases
    copy,       \* the updater's copy of the previous version: what it was,
                \* and its databases when done
    upd,        \* the updater
    bad,        \* versions that don't come up healthy
    faults

agent == <<op, from, staging, installing, sawRequest, abandoned>>
files == <<request, applying, staged, result, told>>
host == <<bin, up, boot, db, copy>>
bounds == <<bad, faults>>
vars == <<op, from, staging, installing, sawRequest, waited, abandoned, request,
          applying, staged, result, told, bin, up, boot, db, copy, upd, bad, faults>>

NoResult == [op |-> None, outcome |-> "none"]
NoCopy == [version |-> None, db |-> None, done |-> FALSE,
           op |-> [o \in Op |-> "none"], abandoned |-> None]
Off == [pc |-> "off", op |-> None, outcome |-> "none"]

Outcomes == {"updated", "rolled_back", "refused", "failed"}

\* One that is lost was on record in a database that is gone.
Records == [Op -> Outcomes \cup {"none", "running", "interrupted", "lost"}]
Steps == {"claim", "check", "copy", "stop", "databases", "install", "start",
          "health", "recover", "resumed", "undo", "putBack", "putBackDatabases",
          "restart", "healthBack", "report", "clean", "finish"}

TypeOK ==
    /\ op \in Records
    /\ from \in [Op -> Version \cup {None}]
    /\ {staging, installing, abandoned, request, applying, staged} \subseteq Op \cup {None}
    /\ sawRequest \in BOOLEAN /\ waited \in 0..2
    /\ result \in [op : Op \cup {None}, outcome : Outcomes \cup {"none"}]
    /\ bin \in Version /\ db \in Version
    /\ up \in BOOLEAN /\ boot \in BOOLEAN
    /\ copy \in [version : Version \cup {None}, db : Version \cup {None},
                done : BOOLEAN, op : Records, abandoned : Op \cup {None}]
    /\ upd \in [pc : Steps \cup {"off"}, op : Op \cup {None},
                outcome : Outcomes \cup {"none"}]
    /\ told \in SUBSET Version
    /\ bad \in SUBSET Version /\ faults \in 0..MaxFaults

Init ==
    /\ op = [o \in Op |-> "none"] /\ from = [o \in Op |-> None]
    /\ staging = None /\ installing = None /\ sawRequest = FALSE
    /\ waited = 0 /\ abandoned = None
    /\ request = None /\ applying = None /\ staged = None /\ result = NoResult
    /\ bin = 1 /\ up = TRUE /\ boot = FALSE /\ db = 1 /\ copy = NoCopy
    /\ upd = Off /\ told = {}
    /\ bad \in SUBSET (Version \ {1}) /\ faults = 0

Fault == faults < MaxFaults /\ faults' = faults + 1 /\ UNCHANGED bad

\* The release the update installs.
Want(o) == from[o] + 1

Newest(v, w) == IF v > w THEN v ELSE w

-----------------------------------------------------------------------------
(* The agent                                                               *)

\* stageUpdate begins, as the only machine operation and while no update is
\* being installed (beginMachineOp): what was staged goes.
StageBegin(o) ==
    /\ up /\ staging = None /\ installing = None
    /\ op[o] = "none" /\ \A p \in Op : p < o => op[p] # "none"
    /\ bin + 1 \in Version
    /\ op' = [op EXCEPT ![o] = "running"]
    /\ from' = [from EXCEPT ![o] = bin]
    /\ staging' = o /\ staged' = None
    /\ UNCHANGED <<installing, sawRequest, waited, abandoned, request, applying,
                   result, told, host, upd, bounds>>

\* Downloaded and verified: the request file appears and the operation goes
\* on running.
StageDone ==
    /\ up /\ staging # None
    /\ Overlap \/ (upd.pc \in {"off", "claim"} /\ result = NoResult)
    /\ staged' = staging /\ request' = staging
    /\ installing' = staging /\ waited' = 0
    /\ staging' = None
    /\ UNCHANGED <<op, from, sawRequest, abandoned, applying, result, told,
                   host, upd, bounds>>

StageFails ==
    /\ up /\ staging # None
    /\ Fault
    /\ op' = [op EXCEPT ![staging] = "refused"]
    /\ staging' = None /\ staged' = None
    /\ UNCHANGED <<from, installing, sawRequest, waited, abandoned, request,
                   applying, result, told, host, upd>>

\* collectUpdateResult: the operation the result names, if it is on record,
\* ends with it, over whatever it said, and no update is being installed any
\* more.
Collect ==
    /\ up /\ result # NoResult
    /\ op' = IF op[result.op] \in {"none", "lost"} THEN op
             ELSE [op EXCEPT ![result.op] = result.outcome]
    /\ installing' = None
    /\ result' = NoResult
    /\ sawRequest' = FALSE
    /\ UNCHANGED <<from, staging, waited, abandoned, request, applying, staged,
                   told, host, upd, bounds>>

\* abandonUpdate: the same for the operation.
Abandon(outcome) ==
    /\ op' = IF op[installing] = "lost" THEN op
             ELSE [op EXCEPT ![installing] = outcome]
    /\ abandoned' = installing
    /\ installing' = None

\* watchHandoff: the request is still there after updaterStartTimeout.
WatchSees ==
    /\ up /\ installing # None /\ ~sawRequest /\ result = NoResult
    /\ request # None /\ waited >= 1
    /\ sawRequest' = TRUE
    /\ UNCHANGED <<op, from, staging, installing, waited, abandoned, files, host,
                   upd, bounds>>

\* It goes, with what was staged, even when the updater took it meanwhile.
WatchGives ==
    /\ up /\ sawRequest
    /\ request' = None /\ staged' = None
    /\ Abandon("refused")
    /\ sawRequest' = FALSE
    /\ UNCHANGED <<from, staging, waited, applying, result, told, host, upd, bounds>>

\* When an update nobody reported on is given up, after updaterRunTimeout.
LongEnough == waited = 2

WatchLong ==
    /\ up /\ installing # None /\ ~sawRequest /\ result = NoResult
    /\ request = None /\ LongEnough
    /\ Abandon("failed")
    /\ UNCHANGED <<from, staging, sawRequest, waited, files, host, upd, bounds>>

\* Time since the handover.  The agent looks every few seconds, and systemd
\* ends an updater after 20 minutes: a request found after two minutes is
\* gone long before 30, and an updater that took its request isn't at work
\* by then; one that resumes may be.
TimePasses ==
    /\ waited < 2
    /\ installing # None \/ request # None \/ applying # None
    /\ waited = 1 =>
        /\ installing = None \/ request = None
        /\ upd.pc \notin {"check", "copy", "stop", "databases", "install",
                          "start", "health"}
    /\ waited' = waited + 1
    /\ UNCHANGED <<agent, files, host, upd, bounds>>

\* loadUpdateState: the applying file wins over the request, and neither
\* counts when it was given up.
Pending ==
    IF applying # None /\ applying # abandoned THEN applying
    ELSE IF request # None /\ request # abandoned THEN request
    ELSE None

\* Mutant: the agent doesn't go on waiting for an update it handed over.
AgentLoadsForgets(v) ==
    /\ installing' = None
    /\ op' = [o \in Op |-> IF op[o] = "running" /\ o # Pending
                           THEN "interrupted" ELSE op[o]]
    /\ staging' = None /\ sawRequest' = FALSE
    /\ db' = Newest(db, v)

\* The agent starts: loadUpdateState, then markInterruptedOperations.  The
\* databases it opens become its version's.
AgentLoads(v) ==
    /\ installing' = Pending
    /\ op' = [o \in Op |-> IF op[o] = "running" /\ o # Pending
                           THEN "interrupted" ELSE op[o]]
    /\ staging' = None /\ sawRequest' = FALSE
    /\ db' = Newest(db, v)

\* The agent is gone, and what it had in memory.
AgentGone == staging' = None /\ installing' = None /\ sawRequest' = FALSE

AgentRestarts ==
    /\ Fault
    /\ up
    /\ AgentLoads(bin)
    /\ UNCHANGED <<from, waited, abandoned, files, bin, up, boot, copy, upd>>

-----------------------------------------------------------------------------
(* The updater                                                             *)

At(pc) == upd.pc = pc
Go(pc) == upd' = [upd EXCEPT !.pc = pc]
Report(outcome) == upd' = [upd EXCEPT !.pc = "report", !.outcome = outcome]

\* playkeeper-update.path starts the updater while there is a request, or
\* one it took and didn't finish.
UpdaterStarts ==
    /\ At("off") /\ (request # None \/ applying # None)
    /\ upd' = [Off EXCEPT !.pc = "claim"]
    /\ UNCHANGED <<agent, waited, files, host, bounds>>

\* SelfUpdate takes the request by renaming it, over an unfinished one, or
\* resumes the one it finds.
Claim ==
    /\ At("claim")
    /\ IF request # None
       THEN /\ applying' = request /\ request' = None
            /\ upd' = [Off EXCEPT !.pc = "check", !.op = request]
       ELSE /\ upd' = IF applying = None THEN Off
                      ELSE [Off EXCEPT !.pc = "recover", !.op = applying]
            /\ UNCHANGED <<request, applying>>
    /\ UNCHANGED <<agent, waited, staged, result, told, host, bounds>>

\* applyStaged up to Upgrade: a request that is over an hour old, for
\* another version than the installed one, or whose release isn't the staged
\* one is refused.
Check ==
    /\ At("check")
    /\ \/ from[upd.op] = bin /\ staged = upd.op /\ Go("copy")
       \/ (from[upd.op] # bin \/ staged # upd.op \/ waited = 2) /\ Report("refused")
    /\ UNCHANGED <<agent, waited, files, host, bounds>>

\* Mutant: a copy that is there already is kept.
SaveCopyOnce ==
    /\ At("copy")
    /\ copy' = IF copy = NoCopy THEN [NoCopy EXCEPT !.version = bin] ELSE copy
    /\ Go("stop")
    /\ UNCHANGED <<agent, waited, files, bin, up, boot, db, bounds>>

\* Upgrader.saveCopy, snapshot last.
SaveCopy ==
    /\ At("copy")
    /\ \/ /\ copy' = [NoCopy EXCEPT !.version = bin] /\ Go("stop")
          /\ UNCHANGED bounds
       \/ /\ Fault /\ copy' = NoCopy /\ Report("refused")
    /\ UNCHANGED <<agent, waited, files, bin, up, boot, db>>

\* Upgrader.apply, step by step; a step that fails puts the copy back.
Stop ==
    /\ At("stop")
    /\ up' = FALSE /\ boot' = FALSE /\ AgentGone
    /\ Go("databases")
    /\ UNCHANGED <<op, from, abandoned, waited, files, bin, db, copy, bounds>>

\* The agent's operations are among the databases.
SaveDatabases ==
    /\ At("databases")
    /\ copy' = [copy EXCEPT !.db = db, !.op = op, !.abandoned = abandoned,
                            !.done = TRUE]
    /\ Go("install")
    /\ UNCHANGED <<agent, waited, files, bin, up, boot, db, bounds>>

Install ==
    /\ At("install")
    /\ IF staged # None
       THEN bin' = Want(staged) /\ Go("start")
       ELSE Go("undo") /\ UNCHANGED bin
    /\ UNCHANGED <<agent, waited, files, up, boot, db, copy, bounds>>

StartServices(next) ==
    /\ up' = TRUE /\ boot' = FALSE
    /\ AgentLoads(bin)
    /\ Go(next)
    /\ UNCHANGED <<from, abandoned, waited, files, bin, copy, bounds>>

Start == At("start") /\ StartServices("health")

\* Mutant: the copy is put back when saving it failed, too.
StepFailsEarly ==
    /\ Fault
    /\ upd.pc \in {"copy", "stop", "databases", "install", "start", "health"}
    /\ Go("undo")
    /\ UNCHANGED <<agent, waited, files, host>>

StepFails ==
    /\ Fault
    /\ upd.pc \in {"stop", "databases", "install", "start", "health"}
    /\ Go("undo")
    /\ UNCHANGED <<agent, waited, files, host>>

\* Upgrader.waitHealthy after an install, and in Recover.
Health ==
    /\ upd.pc \in {"health", "resumed"}
    /\ IF up /\ bin \notin bad THEN Report("updated") ELSE Go("undo")
    /\ UNCHANGED <<agent, waited, files, host, bounds>>

\* Mutant: an interrupted update counts as undone whatever is installed.
RecoverBlindly ==
    /\ At("recover") /\ Report("rolled_back")
    /\ UNCHANGED <<agent, host, waited, files, bounds>>

\* Recover: without a copy nothing was changed; the new version stays when
\* it is healthy; the old one is started; else the copy is put back.
Recover ==
    /\ At("recover")
    /\ \/ copy = NoCopy /\ Report("rolled_back")
          /\ UNCHANGED <<agent, host>>
       \/ copy # NoCopy /\ bin = Want(upd.op) /\ Go("resumed")
          /\ UNCHANGED <<agent, host>>
       \/ copy # NoCopy /\ bin # Want(upd.op) /\ bin = copy.version
          /\ IF up THEN Go("healthBack") /\ UNCHANGED <<agent, host>>
             ELSE /\ up' = TRUE /\ boot' = FALSE /\ AgentLoads(bin) /\ Go("healthBack")
                  /\ UNCHANGED <<from, abandoned, bin, copy>>
       \/ copy # NoCopy /\ bin \notin {Want(upd.op), copy.version} /\ Go("undo")
          /\ UNCHANGED <<agent, host>>
    /\ UNCHANGED <<waited, files, bounds>>

\* ... and starting it may fail.
RecoverFails ==
    /\ At("recover")
    /\ copy # NoCopy /\ bin # Want(upd.op) /\ bin = copy.version
    /\ Fault
    /\ Report("failed")
    /\ UNCHANGED <<agent, waited, files, host>>

\* Upgrader.restore.  What fails in it is collected: it goes on to the next
\* step, and starts the services on what is there.
Undo ==
    /\ At("undo")
    /\ up' = FALSE /\ boot' = FALSE /\ AgentGone
    /\ Go("putBack")
    /\ UNCHANGED <<op, from, abandoned, waited, files, bin, db, copy, bounds>>

GoFailed(pc) == upd' = [upd EXCEPT !.pc = pc, !.outcome = "failed"]

\* The binary, or what belongs to it: the config, the units.
PutBack ==
    /\ At("putBack")
    /\ \/ bin' = copy.version /\ Go("putBackDatabases") /\ UNCHANGED bounds
       \/ Fault /\ bin' \in {bin, copy.version} /\ GoFailed("putBackDatabases")
    /\ UNCHANGED <<agent, waited, files, up, boot, db, copy>>

\* restoreDatabases removes each and copies the saved one to its place: the
\* agent's, with its operations, and the panel's.
PutBackDatabases ==
    /\ At("putBackDatabases")
    /\ IF copy.done
       THEN db' = copy.db /\ op' = copy.op /\ abandoned' = copy.abandoned
       ELSE UNCHANGED <<db, op, abandoned>>
    /\ Go("restart")
    /\ UNCHANGED <<from, staging, installing, sawRequest, waited, files, bin, up,
                   boot, copy, bounds>>

\* The operations in an agent's database that is gone.
Lost == [o \in Op |-> IF op[o] = "none" THEN "none" ELSE "lost"]

\* One can't be removed and stays, or is gone when its copy can't be copied.
PutBackPartly ==
    /\ At("putBackDatabases") /\ copy.done
    /\ Fault
    /\ \/ UNCHANGED <<op, abandoned, db>>
       \/ op' = copy.op /\ abandoned' = copy.abandoned /\ db' \in {db, copy.db}
       \/ op' = Lost /\ abandoned' = None /\ db' \in {db, copy.db}
    /\ GoFailed("restart")
    /\ UNCHANGED <<from, staging, installing, sawRequest, waited, files, bin, up,
                   boot, copy>>

\* Mutant: what went wrong before the start is forgotten.
RestartForgets == At("restart") /\ StartServices("healthBack")

\* The services are started whatever failed; whether they are healthy is only
\* asked when nothing did.
Restart ==
    /\ At("restart")
    /\ StartServices(IF upd.outcome = "failed" THEN "report" ELSE "healthBack")

RestartFails ==
    /\ At("restart")
    /\ Fault
    /\ Report("failed")
    /\ UNCHANGED <<agent, waited, files, host>>

HealthBack ==
    /\ At("healthBack")
    /\ \/ bin \notin bad /\ Report("rolled_back") /\ UNCHANGED bounds
       \/ bin \in bad /\ Report("failed") /\ UNCHANGED bounds
       \/ Fault /\ Report("failed")
    /\ UNCHANGED <<agent, waited, files, host>>

\* The end of SelfUpdate: the result, then the staged release, then the
\* request it took.
WriteResult ==
    /\ At("report")
    /\ result' = [op |-> upd.op, outcome |-> upd.outcome]
    /\ told' = IF upd.outcome = "failed" /\ db > bin THEN told \cup {db} ELSE told
    /\ Go("clean")
    /\ UNCHANGED <<agent, waited, request, applying, staged, host, bounds>>

Clean ==
    /\ At("clean")
    /\ staged' = None
    /\ Go("finish")
    /\ UNCHANGED <<agent, waited, request, applying, result, told, host, bounds>>

Finish ==
    /\ At("finish")
    /\ applying' = None
    /\ upd' = Off
    /\ UNCHANGED <<agent, waited, request, staged, result, told, host, bounds>>

\* The updater is killed, or the power goes, between two of its steps.
Interruptible ==
    /\ upd.pc \in InterruptedAt
    /\ AnyUndo \/ upd.outcome # "failed" \/ db <= bin \/ db \in told
    /\ AnyCopy \/ copy.version \in {None} \cup {from[o] : o \in {upd.op} \ {None}}

Killed ==
    /\ Fault
    /\ Interruptible
    /\ upd' = Off
    /\ UNCHANGED <<agent, waited, files, host>>

PowerCut ==
    /\ Fault
    /\ Interruptible \/ At("off")
    /\ upd' = Off
    /\ up' = FALSE /\ boot' = TRUE /\ AgentGone
    /\ UNCHANGED <<op, from, abandoned, waited, files, bin, db, copy>>

\* systemd starts the agent and the panel at boot.
Boot ==
    /\ boot
    /\ up' = TRUE /\ boot' = FALSE
    /\ AgentLoads(bin)
    /\ UNCHANGED <<from, abandoned, waited, files, bin, copy, upd, bounds>>

-----------------------------------------------------------------------------

AgentSteps ==
    \/ \E o \in Op : StageBegin(o)
    \/ StageDone \/ StageFails \/ Collect \/ WatchSees \/ WatchGives \/ WatchLong
    \/ AgentRestarts

UpdaterSteps ==
    \/ UpdaterStarts \/ Claim \/ Check \/ SaveCopy \/ Stop \/ SaveDatabases
    \/ Install \/ Start \/ Health \/ Recover \/ Undo \/ PutBack
    \/ PutBackDatabases \/ Restart \/ HealthBack \/ WriteResult \/ Clean \/ Finish

UndoFails == PutBackPartly \/ RestartFails \/ RecoverFails

Next ==
    \/ AgentSteps \/ UpdaterSteps \/ StepFails \/ UndoFails
    \/ TimePasses \/ Killed \/ PowerCut \/ Boot

Spec == Init /\ [][Next]_vars

\* The agent's loop goes on, time passes and the machine boots.  systemd need
\* not start the updater for a request, which the agent's watch is for.
AgentFairness ==
    /\ WF_vars(StageDone) /\ WF_vars(Collect) /\ WF_vars(WatchSees)
    /\ WF_vars(WatchGives) /\ WF_vars(WatchLong) /\ WF_vars(TimePasses)
    /\ WF_vars(Boot)

\* An updater that started ends.
UpdaterFairness == WF_vars(UpdaterSteps /\ ~At("off"))

\* playkeeper-update.path started an updater that didn't finish: it starts
\* the next.
Resumes == WF_vars(UpdaterStarts /\ applying # None)

FairSpec == Spec /\ AgentFairness /\ UpdaterFairness /\ Resumes

-----------------------------------------------------------------------------
(* What an update promises                                                 *)

\* An older version never runs on databases a newer one opened and may have
\* migrated: "databases are ... copied before the new version runs, since it
\* may migrate them" (upgrade.go:58).  Where putting them back failed it does,
\* and the updater says so, then or in an earlier result.
OldNeverOnNewData == up /\ db > bin => upd.outcome = "failed" \/ db \in told

\* What the updater puts back is the version its update replaced, never one
\* of an earlier update's copy.
PutsBackWhatItReplaced ==
    [][bin' < bin => upd.op # None /\ bin' = from[upd.op]]_vars

\* An update goes back to what it replaced, databases and all.
GoesBackWhole == []OldNeverOnNewData /\ PutsBackWhatItReplaced

\* Nothing is being handed over, installed or reported.
Quiet ==
    /\ up /\ upd.pc = "off" /\ staging = None
    /\ request = None /\ applying = None /\ result = NoResult

\* Once all is quiet, what the dashboard says of the newest update is what
\* happened, whatever was given up, interrupted or reported late.
HonestWhenQuiet ==
    Quiet => \A o \in Op :
        op[o] # "none" /\ (\A p \in Op : p > o => op[p] = "none") =>
            /\ op[o] = "updated" => bin = Want(o)
            /\ op[o] \in {"refused", "rolled_back", "interrupted"} => bin # Want(o)

\* No update stays running, and no dashboard is blocked by one: "so the
\* dashboard is not blocked forever and the operation says what happened"
\* (update.go:541-544).  There is none where starting it again failed, which
\* the result that waits for it says.
UpdatesEnd ==
    \A o \in Op :
        op[o] = "running" ~> op[o] # "running" \/ [](~up /\ result.outcome = "failed")
=============================================================================
