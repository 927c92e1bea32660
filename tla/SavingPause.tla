---------------------------- MODULE SavingPause ----------------------------
(***************************************************************************)
(* The pause of world saving of an online backup: save-off, save-all       *)
(* flush, a copy, save-on, and who turns saving back on when the backup    *)
(* can't: the reconciler, or the owner's "Turn saving back on".            *)
(*                                                                         *)
(* One server.  Time is the number of the container's run: a pause         *)
(* recorded in run n is older than a container started as run n + 1, which *)
(* is all the code compares.  A console command that was sent stays in the *)
(* server's queue although nobody waits for its reply any more.            *)
(***************************************************************************)
EXTENDS Naturals, Sequences

CONSTANTS
    None,         \* no pause is recorded
    MaxRuns,      \* bound: runs of the container
    MaxLost,      \* bound: commands not sent, and replies lost or late
    MaxCrashes,   \* bound: agent crashes and graceful stops
    QuickBackup   \* may a backup begin before the reconciler has seen that
                  \* the server restarted since a pause was recorded?

ASSUME BoundAssumption == MaxRuns \in Nat \ {0} /\ MaxLost \in Nat /\ MaxCrashes \in Nat
ASSUME NoneAssumption == None \notin Nat
ASSUME SwitchAssumption == QuickBackup \in BOOLEAN

Resumers == {"tick", "hand"}     \* the reconciler and hSavingResume

VARIABLES
    box, run,   \* the container and the number of its latest run
    saving,     \* the game saves its world by itself
    queue,      \* console commands the game has still to run, oldest first
    reply,      \* its reply to the last command sent, if it came
    rec,        \* saving_paused_since, as a run of the container
    agent,
    op,         \* what holds the operation lock
    lock,       \* what holds the saving lock
    pc,         \* the backup's next step
    ran,        \* the run the backup found online
    failing,    \* the backup failed, and only turns saving back on
    first,      \* no save-on of the backup has failed yet
    rpc,        \* each resumer's next step
    torn,       \* history: the world was written while it was copied
    lost, crashes

game    == <<box, run, saving, queue, reply>>
backup  == <<pc, ran, failing, first>>
bounds  == <<lost, crashes>>
vars    == <<game, rec, agent, op, lock, backup, rpc, torn, bounds>>

Commands == {"off", "flush", "on"}
Queued(cmd) == \E i \in 1 .. Len(queue) : queue[i] = cmd

TypeOK ==
    /\ box \in {"stopped", "starting", "online"}
    /\ run \in 1 .. MaxRuns
    /\ saving \in BOOLEAN
    /\ queue \in Seq(Commands)
    /\ reply \in {"none", "off", "saved", "on", "already"}
    /\ rec \in {None} \cup 1 .. MaxRuns
    /\ agent \in {"down", "up", "stopping"}
    /\ op \in {"none", "backup", "other"}
    /\ lock \in {"free", "backup"} \cup Resumers
    /\ pc \in {"idle", "lock", "pause", "off", "offWait", "flush", "flushWait",
               "copy", "on", "onWait", "commit", "end"}
    /\ ran \in 1 .. MaxRuns
    /\ failing \in BOOLEAN
    /\ first \in BOOLEAN
    /\ rpc \in [Resumers -> {"idle", "look", "on", "onWait"}]
    /\ torn \in BOOLEAN
    /\ lost \in 0 .. MaxLost
    /\ crashes \in 0 .. MaxCrashes

Init ==
    /\ box = "online" /\ run = 1 /\ saving = TRUE /\ queue = <<>> /\ reply = "none"
    /\ rec = None /\ agent = "up" /\ op = "none" /\ lock = "free"
    /\ pc = "idle" /\ ran = 1 /\ failing = FALSE /\ first = TRUE
    /\ rpc = [w \in Resumers |-> "idle"]
    /\ torn = FALSE /\ lost = 0 /\ crashes = 0

-----------------------------------------------------------------------------
(* The console (rconExec): one command at a time, written at most once.    *)

Lose == lost < MaxLost /\ lost' = lost + 1 /\ UNCHANGED crashes

Send(cmd) ==
    /\ box = "online"
    /\ queue' = Append(queue, cmd) /\ reply' = "none"
    /\ UNCHANGED <<box, run, saving, bounds>>

(* The command is not written: the server doesn't answer its console. *)
NotSent == \/ box # "online" /\ UNCHANGED <<game, bounds>>
           \/ Lose /\ UNCHANGED game

(* The caller stops waiting: the server went away with the command, or the *)
(* reply is late or lost, and the command may run, or have run, all the    *)
(* same.                                                                   *)
NoReply == \/ reply = "none" /\ queue = <<>> /\ UNCHANGED <<game, bounds>>
           \/ Lose /\ UNCHANGED game

Cancelled == agent = "stopping" /\ UNCHANGED <<game, bounds>>

(* What the game does with the oldest command.  Only the last one sent has *)
(* someone waiting.                                                        *)
Run ==
    /\ box = "online" /\ queue # <<>>
    /\ queue' = Tail(queue)
    /\ saving' = CASE Head(queue) = "off" -> FALSE
                   [] Head(queue) = "on" -> TRUE
                   [] OTHER -> saving
    /\ reply' = IF Tail(queue) # <<>> THEN "none"
                ELSE CASE Head(queue) = "off" -> "off"
                       [] Head(queue) = "flush" -> "saved"
                       [] Head(queue) = "on" -> IF saving THEN "already" ELSE "on"
    /\ UNCHANGED <<box, run, rec, agent, op, lock, backup, rpc, torn, bounds>>

-----------------------------------------------------------------------------
(* The record of a pause: kept from before save-off is sent until save-on  *)
(* is confirmed.  One that is there keeps its time.                        *)

(* Mutants stand before what they change: no pause is stored as zero.      *)
ClearZero == rec' = 0

Clear == rec' = None
Record == rec' = IF rec = None THEN run ELSE rec

-----------------------------------------------------------------------------
(* The backup: makeBackup and backup.Take of a server that is online.      *)

Elsewhere == UNCHANGED <<agent, rpc, crashes>>

BackupBegin ==
    /\ agent = "up" /\ op = "none" /\ box = "online"
    /\ QuickBackup \/ rec \in {None, run}
    /\ op' = "backup" /\ pc' = "lock" /\ ran' = run
    /\ failing' = FALSE /\ first' = TRUE
    /\ UNCHANGED <<game, rec, agent, lock, rpc, torn, bounds>>

(* holdSavingLock, which gives up in time; a plan without room fails too.  *)
BackupLock ==
    /\ pc = "lock" /\ UNCHANGED <<game, rec, op, ran, failing, first, torn, lost>>
    /\ Elsewhere
    /\ \/ lock = "free" /\ lock' = "backup" /\ pc' = "pause"
       \/ pc' = "end" /\ UNCHANGED lock

(* The pause is recorded before save-off is sent. *)
Pause ==
    /\ pc = "pause" /\ Record /\ pc' = "off"
    /\ UNCHANGED <<game, agent, op, lock, ran, failing, first, rpc, torn, bounds>>

Undo == pc' = "on" /\ failing' = TRUE /\ UNCHANGED <<ran, first>>
Go(next) == pc' = next /\ UNCHANGED <<ran, failing, first>>

(* A server that restarted since it was found online can't answer yet. *)
SendOff ==
    /\ pc = "off"
    /\ \/ run = ran /\ Send("off") /\ Go("offWait")
       \/ (NotSent \/ Cancelled \/ (run # ran /\ UNCHANGED <<game, bounds>>)) /\ Undo
    /\ UNCHANGED <<rec, agent, op, lock, rpc, torn>>

OffReply ==
    /\ pc = "offWait"
    /\ \/ reply = "off" /\ Go("flush") /\ UNCHANGED <<game, bounds>>
       \/ (NoReply \/ Cancelled) /\ Undo
    /\ UNCHANGED <<rec, agent, op, lock, rpc, torn>>

(* A save-all flush without a reply is sent again, for as long as there is *)
(* time and the server hasn't stopped.                                     *)
SendFlush ==
    /\ pc = "flush"
    /\ \/ Send("flush") /\ Go("flushWait")
       \/ NotSent /\ (Undo \/ (box # "stopped" /\ Go("flush")))
       \/ Cancelled /\ Undo
    /\ UNCHANGED <<rec, agent, op, lock, rpc, torn>>

FlushReply ==
    /\ pc = "flushWait" /\ UNCHANGED <<rec, agent, op, lock, rpc>>
    /\ \/ reply = "saved" /\ Go("copy") /\ torn' = FALSE /\ UNCHANGED <<game, bounds>>
       \/ reply = "saved" /\ Undo /\ UNCHANGED <<torn, game, bounds>>
       \/ NoReply /\ UNCHANGED torn /\ (Undo \/ (box # "stopped" /\ Go("flush")))
       \/ Cancelled /\ Undo /\ UNCHANGED torn

(* The world is copied, or archived in place. *)
Copy ==
    /\ pc = "copy" /\ (Go("on") \/ Undo)
    /\ UNCHANGED <<game, rec, agent, op, lock, rpc, torn, bounds>>

(* Mutants: saving found on is taken for this backup's doing; a save-on    *)
(* that failed for good forgets the pause.                                 *)
OnReplyTrusting ==
    /\ pc = "onWait" /\ reply \in {"on", "already"} /\ Clear
    /\ Go(IF failing THEN "end" ELSE "commit")
    /\ UNCHANGED <<game, agent, op, lock, rpc, torn, bounds>>
OnFailedForgetting ==
    /\ \/ pc = "on" /\ NotSent
       \/ pc = "onWait" /\ NoReply
    /\ first' = FALSE /\ UNCHANGED <<ran, failing, agent, op, lock, rpc, torn>>
    /\ \/ box # "stopped" /\ pc' = "on" /\ UNCHANGED rec
       \/ pc' = "end" /\ Clear

SendOn ==
    /\ pc = "on" /\ Send("on") /\ Go("onWait")
    /\ UNCHANGED <<rec, agent, op, lock, rpc, torn>>

(* Saving found on by the first save-on was turned on by something else,   *)
(* perhaps during the copy.                                                *)
OnReply ==
    /\ pc = "onWait" /\ reply \in {"on", "already"} /\ Clear
    /\ Go(IF failing \/ (first /\ reply = "already") THEN "end" ELSE "commit")
    /\ UNCHANGED <<game, agent, op, lock, rpc, torn, bounds>>

(* A save-on that failed is sent again, unless the server stopped, which   *)
(* ends the pause, or the time is up, which leaves it to the reconciler.   *)
OnFailed ==
    /\ \/ pc = "on" /\ NotSent
       \/ pc = "onWait" /\ NoReply
    /\ first' = FALSE /\ UNCHANGED <<ran, failing, agent, op, lock, rpc, torn>>
    /\ \/ box = "stopped" /\ pc' = "end" /\ Clear
       \/ box # "stopped" /\ pc' \in {"on", "end"} /\ UNCHANGED rec

(* The archive is put in place, or isn't. *)
Commit ==
    /\ pc = "commit" /\ Go("end")
    /\ UNCHANGED <<game, rec, agent, op, lock, rpc, torn, bounds>>

BackupEnd ==
    /\ pc = "end" /\ Go("idle") /\ op' = "none"
    /\ lock' = IF lock = "backup" THEN "free" ELSE lock
    /\ UNCHANGED <<game, rec, agent, rpc, torn, bounds>>

BackupStep ==
    \/ BackupLock \/ Pause \/ SendOff \/ OffReply \/ SendFlush \/ FlushReply
    \/ Copy \/ SendOn \/ OnReply \/ OnFailed \/ Commit \/ BackupEnd

-----------------------------------------------------------------------------
(* resumeSaving on the reconciler's tick, and hSavingResume.               *)

Resumer(w, next) == rpc' = [rpc EXCEPT ![w] = next]
Others == UNCHANGED <<agent, op, backup, torn>>

(* Either is turned away by an operation that runs, but one may begin      *)
(* before it looks further.                                                *)
ResumeBegin(w) ==
    /\ agent = "up" /\ op = "none" /\ rpc[w] = "idle" /\ Resumer(w, "look")
    /\ UNCHANGED <<game, rec, lock, bounds>> /\ Others

(* A container that stopped or started since the pause saves by itself. *)
Over == rec # None /\ (box = "stopped" \/ run > rec)

(* Mutants: save-on without the saving lock, only for a server that        *)
(* stopped, or only for one that runs.                                     *)
LookUnlocked(w) ==
    /\ rpc[w] = "look" /\ UNCHANGED <<game, bounds>> /\ Others
    /\ \/ w = "tick" /\ Over /\ Clear /\ Resumer(w, "idle") /\ UNCHANGED lock
       \/ /\ rec # None /\ box = "online"
          /\ Resumer(w, "on") /\ UNCHANGED <<rec, lock>>
       \/ Resumer(w, "idle") /\ (rec = None \/ box # "online") /\ UNCHANGED <<rec, lock>>
LookStopped(w) ==
    /\ rpc[w] = "look" /\ Resumer(w, "idle") /\ UNCHANGED <<game, lock, bounds>> /\ Others
    /\ IF w = "tick" /\ lock = "free" /\ Over THEN Clear ELSE UNCHANGED rec
LookOnline(w) ==
    /\ rpc[w] = "look" /\ UNCHANGED <<game, rec, bounds>> /\ Others
    /\ \/ /\ lock = "free" /\ rec # None /\ box = "online"
          /\ Resumer(w, "on") /\ lock' = w
       \/ /\ Resumer(w, "idle") /\ UNCHANGED lock
          /\ lock # "free" \/ rec = None \/ box # "online"

(* With the saving lock, which a tick doesn't wait for, and the owner's    *)
(* request only for so long: a pause that is over is forgotten by a tick;  *)
(* an online server gets save-on.                                          *)
Look(w) ==
    /\ rpc[w] = "look" /\ UNCHANGED <<game, bounds>> /\ Others
    /\ \/ /\ w = "tick" /\ lock = "free" /\ Over
          /\ Clear /\ Resumer(w, "idle") /\ UNCHANGED lock
       \/ /\ lock = "free" /\ rec # None /\ box = "online" /\ (w = "hand" \/ ~Over)
          /\ Resumer(w, "on") /\ lock' = w /\ UNCHANGED rec
       \/ /\ lock # "free" \/ rec = None \/ (box # "online" /\ (w = "hand" \/ ~Over))
          /\ Resumer(w, "idle") /\ UNCHANGED <<rec, lock>>

ResumeSend(w) ==
    /\ rpc[w] = "on" /\ UNCHANGED rec /\ Others
    /\ \/ Send("on") /\ Resumer(w, "onWait") /\ UNCHANGED lock
       \/ NotSent /\ Resumer(w, "idle") /\ lock' = "free"

ResumeReply(w) ==
    /\ rpc[w] = "onWait" /\ Resumer(w, "idle") /\ lock' = "free" /\ Others
    /\ \/ reply \in {"on", "already"} /\ Clear /\ UNCHANGED <<game, bounds>>
       \/ (NoReply \/ Cancelled) /\ UNCHANGED rec

ResumeStep(w) == Look(w) \/ ResumeSend(w) \/ ResumeReply(w)

-----------------------------------------------------------------------------
(* The other operations, the game, and the agent's own end.                *)

OtherBegin ==
    /\ agent = "up" /\ op = "none" /\ op' = "other"
    /\ UNCHANGED <<game, rec, agent, lock, backup, rpc, torn, bounds>>

OtherEnd ==
    /\ op = "other" /\ op' = "none"
    /\ UNCHANGED <<game, rec, agent, lock, backup, rpc, torn, bounds>>

(* The server stops, asked to or not, and writes its world as it does; it  *)
(* starts saving.  A start during a backup is nobody's but the host's      *)
(* administrator's, with Docker.                                           *)
BoxStop ==
    /\ box # "stopped" /\ box' = "stopped" /\ queue' = <<>>
    /\ torn' = (torn \/ pc = "copy")
    /\ UNCHANGED <<run, saving, reply, rec, agent, op, lock, backup, rpc, bounds>>

BoxStart ==
    /\ box = "stopped" /\ run < MaxRuns
    /\ box' = "starting" /\ run' = run + 1 /\ saving' = TRUE
    /\ UNCHANGED <<queue, reply, rec, agent, op, lock, backup, rpc, torn, bounds>>

BoxOnline ==
    /\ box = "starting" /\ box' = "online"
    /\ UNCHANGED <<run, saving, queue, reply, rec, agent, op, lock, backup, rpc, torn,
                   bounds>>

AutoSave ==
    /\ box = "online" /\ saving /\ pc = "copy" /\ ~torn /\ torn' = TRUE
    /\ UNCHANGED <<game, rec, agent, op, lock, backup, rpc, bounds>>

(* A plugin, or someone at the console, runs save-on. *)
SaveOnByOther ==
    /\ box = "online" /\ ~saving /\ saving' = TRUE
    /\ UNCHANGED <<box, run, queue, reply, rec, agent, op, lock, backup, rpc, torn, bounds>>

Crash ==
    /\ agent # "down" /\ crashes < MaxCrashes /\ crashes' = crashes + 1
    /\ agent' = "down" /\ op' = "none" /\ lock' = "free"
    /\ pc' = "idle" /\ rpc' = [w \in Resumers |-> "idle"]
    /\ UNCHANGED <<game, rec, ran, failing, first, torn, lost>>

AgentStop ==
    /\ agent = "up" /\ crashes < MaxCrashes /\ crashes' = crashes + 1
    /\ agent' = "stopping"
    /\ UNCHANGED <<game, rec, op, lock, backup, rpc, torn, lost>>

AgentRestart ==
    /\ \/ agent = "stopping" /\ op = "none" /\ agent' = "down"
          /\ \A w \in Resumers : rpc[w] = "idle"
       \/ agent = "down" /\ agent' = "up"
    /\ UNCHANGED <<game, rec, op, lock, backup, rpc, torn, bounds>>

Next ==
    \/ BackupBegin \/ BackupStep \/ Run
    \/ \E w \in Resumers : ResumeBegin(w) \/ ResumeStep(w)
    \/ OtherBegin \/ OtherEnd \/ BoxStop \/ BoxStart \/ BoxOnline \/ AutoSave
    \/ SaveOnByOther \/ Crash \/ AgentStop \/ AgentRestart

Spec == Init /\ [][Next]_vars

(* Each goroutine goes on, the game answers its console while it is        *)
(* online, operations end, and the agent is started again.  The tick finds *)
(* no operation some time, however often one begins.                       *)
FairSpec ==
    /\ Spec
    /\ WF_vars(BackupStep) /\ WF_vars(Run) /\ WF_vars(OtherEnd) /\ WF_vars(AgentRestart)
    /\ \A w \in Resumers : WF_vars(ResumeStep(w))
    /\ SF_vars(ResumeBegin("tick"))

-----------------------------------------------------------------------------
(* Properties. *)

(* A running server that doesn't save for a backup's sake has its pause on *)
(* record, whatever was lost and whenever the agent died, so that the      *)
(* reconciler turns saving back on.                                        *)
PauseRemembered == box = "online" /\ ~saving => rec # None

(* What save-on turns back on it never turns on in the middle of a copy:   *)
(* none of the agent's own is still on its way to the game then.           *)
CopyUndisturbed == pc = "copy" => ~Queued("on")

(* A backup is kept only if its copy is of one moment of the world.        *)
CommittedOneMoment == pc = "commit" => ~torn

(* ... which the code can tell only by the reply to its first save-on.     *)
OneMomentUnlessRetried == pc = "commit" /\ first => ~torn

(* The agent doesn't disturb its own copy, and discards the one that       *)
(* something else disturbed.                                               *)
CopyOfOneMoment == CopyUndisturbed /\ OneMomentUnlessRetried

(* A server that stays online saves its world again some day.              *)
SavingComesBack == box = "online" /\ ~saving ~> saving \/ box # "online"

(* A pause on record is over some day, unless the server hangs as it       *)
(* starts.                                                                 *)
PauseSettles == rec # None ~> rec = None \/ box = "starting"

(* Whatever was lost or interrupted, a pause ends: the server saves again  *)
(* and the agent no longer takes it for paused.                            *)
PausesEnd == SavingComesBack /\ PauseSettles
=============================================================================
