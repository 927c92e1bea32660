------------------------------ MODULE ServerSleep ------------------------------
(***************************************************************************)
(* One server that sleeps while nobody plays (internal/agent/sleeping.go   *)
(* over internal/sleep): the operation that puts it to sleep, the stand-in *)
(* on its game port, the joins that wake it, and whoever else starts and   *)
(* stops it meanwhile: the owner, the reconcile loop after it died, an     *)
(* agent or a machine that restarts (lifecycle.go, handlers.go).           *)
(*                                                                         *)
(* One hour is modelled: no counted wake grows too old to count.           *)
(***************************************************************************)
EXTENDS Naturals, FiniteSets

CONSTANTS
    Player,      \* the players who join while the stand-in answers
    MaxWakes,    \* wakes an hour allows (maxWakesPerHour)
    MaxFaults,   \* failures, deaths and restarts in one behaviour
    Windows      \* rare sequences a run looks at, named where they matter

ASSUME PlayersAssumption == IsFiniteSet(Player)
ASSUME BoundsAssumption == MaxWakes \in Nat /\ MaxFaults \in Nat
ASSUME WindowsAssumption ==
    Windows \subseteq {"staleReconcile", "restartTurningOff",
                       "dieAfterFailedStop", "dockerSilent"}

VARIABLES
    desired,    \* servers.desired
    enabled,    \* servers.sleep: whether the server may sleep
    asleep,     \* sleep_periods: an open one
    container,  \* the server's container
    marked,     \* s.intentional: Playkeeper stopped, or tried to stop, it
    exit,       \* its last exit, for the reconcile loop to handle
    op,         \* the operation that holds the server's lock, and its step
    listening,  \* the stand-in holds the game port (Manager.si)
    recent,     \* wakes counted this hour (wakeLimit.recent)
    waking,     \* within the waking window (wakeLimit.wakingUntil)
    paused,     \* wakes pause after a failed one (wakeLimit.blockedUntil)
    join,       \* each player's join and the wake it asked for
    begun,      \* wakes whose operation began
    due,        \* the sleep watch decided that the server is to sleep
    seen,       \* reconcile: the desired state it read
    crashed,    \* s.crashed: a restart after a crash is due
    owed,       \* s.startOwed
    faults      \* faults so far

limit == <<recent, waking, paused>>
policy == <<crashed, owed>>
memory == <<due, seen>>
server == <<container, marked, exit>>
vars == <<desired, enabled, asleep, container, marked, exit, op, listening,
          recent, waking, paused, join, begun, due, seen, crashed, owed, faults>>

-----------------------------------------------------------------------------

Kinds == {"none", "sleep", "wake", "start", "stop", "auto", "resume", "other"}
Steps == {"none", "begun", "stopping", "listen", "prepare", "launch", "ready",
          "failed", "settle"}

\* held: a wake took the port from the stand-in.
Free == [kind |-> "none", at |-> "none", held |-> FALSE]
Ops == {o \in [kind : Kinds, at : Steps, held : BOOLEAN] :
            o.kind = "none" => o = Free}

TypeOK ==
    /\ desired \in {"running", "stopped", "sleeping"}
    /\ enabled \in BOOLEAN /\ asleep \in BOOLEAN
    /\ container \in {"on", "off", "gone"}
    /\ marked \in BOOLEAN
    /\ exit \in {"handled", "meant", "died", "found"}
    /\ op \in Ops
    /\ listening \in BOOLEAN
    /\ recent \in 0..MaxWakes
    /\ waking \in BOOLEAN /\ paused \in BOOLEAN
    /\ join \in [Player -> {"none", "checked", "granted", "waiting", "asking"}]
    /\ begun \in 0..MaxWakes
    /\ due \in BOOLEAN
    /\ seen \in {"none", "running", "stopped", "sleeping"}
    /\ crashed \in BOOLEAN /\ owed \in BOOLEAN
    /\ faults \in 0..MaxFaults

Init ==
    /\ desired = "running" /\ enabled = TRUE /\ asleep = FALSE
    /\ container = "on" /\ marked = FALSE /\ exit = "handled"
    /\ op = Free
    /\ listening = FALSE
    /\ recent = 0 /\ waking = FALSE /\ paused = FALSE
    /\ join = [p \in Player |-> "none"]
    /\ begun = 0
    /\ due = FALSE /\ seen = "none"
    /\ crashed = FALSE /\ owed = FALSE
    /\ faults = 0

Fault == faults < MaxFaults /\ faults' = faults + 1

Running == container = "on"
At(kind, at) == op.kind = kind /\ op.at = at
Begin(kind, at) == op = Free /\ op' = [kind |-> kind, at |-> at, held |-> FALSE]
Go(at) == op' = [op EXCEPT !.at = at]
End == op' = Free

-----------------------------------------------------------------------------
(* The stand-in                                                            *)

\* Manager.release waits for the joins it is answering.
Answered == \A p \in Player : join[p] # "checked"
Release == Answered /\ listening' = FALSE

\* leaveSleep: hands the port back and ends the sleep period.
LeaveSleep == Release /\ asleep' = FALSE

\* Manager.listen: a port the container holds stays busy for as long as it
\* tries.
Listen ==
    \/ ~Running /\ listening' = TRUE /\ UNCHANGED faults
    \/ Running /\ UNCHANGED <<listening, faults>>
    \/ ~Running /\ ~listening /\ Fault /\ UNCHANGED listening

\* wakeLimit.check
MayWake == ~waking /\ ~paused /\ recent < MaxWakes

\* wakeLimit.refund
Refund ==
    /\ recent' = IF recent > 0 THEN recent - 1 ELSE 0
    /\ waking' = FALSE
    /\ UNCHANGED paused

\* joinAttempt up to Admit: a player who may wake the server.
Join(p) ==
    /\ listening
    /\ join[p] = "none"
    /\ MayWake
    /\ join' = [join EXCEPT ![p] = "checked"]
    /\ UNCHANGED <<desired, enabled, asleep, server, op, listening,
                   limit, begun, memory, policy, faults>>

\* Mutant: the wake is recorded without another look at the limits.
TryUnlimited(p) ==
    /\ join[p] = "checked"
    /\ recent' = recent + 1 /\ waking' = TRUE
    /\ join' = [join EXCEPT ![p] = "granted"]
    /\ UNCHANGED <<desired, enabled, asleep, server, op, listening, paused,
                   begun, memory, policy, faults>>

\* wakeLimit.try, and OnWake when the answer is still to wake.
Try(p) ==
    /\ join[p] = "checked"
    /\ IF MayWake
       THEN /\ recent' = recent + 1 /\ waking' = TRUE
            /\ join' = [join EXCEPT ![p] = "granted"]
       ELSE /\ join' = [join EXCEPT ![p] = "none"]
            /\ UNCHANGED <<recent, waking>>
    /\ UNCHANGED <<desired, enabled, asleep, server, op, listening,
                   paused, begun, memory, policy, faults>>

\* A join whose wake doesn't start gives the wake counted for it back.
CallOff(p) ==
    /\ Refund
    /\ join' = [join EXCEPT ![p] = "none"]

\* wakePending: one join's wake waits at a time.
Pending == \E p \in Player : join[p] \in {"waiting", "asking"}

\* Mutant: a join that finds a wake waiting keeps the wake counted for it.
WakeForKept(p) ==
    /\ join[p] = "granted"
    /\ join' = [join EXCEPT ![p] = IF Pending THEN "none" ELSE "waiting"]
    /\ UNCHANGED <<desired, enabled, asleep, server, op, listening, limit,
                   begun, memory, policy, faults>>

\* wakeFor, from its start to the loop.
WakeFor(p) ==
    /\ join[p] = "granted"
    /\ IF Pending THEN CallOff(p)
       ELSE join' = [join EXCEPT ![p] = "waiting"] /\ UNCHANGED limit
    /\ UNCHANGED <<desired, enabled, asleep, server, op, listening,
                   begun, memory, policy, faults>>

\* wakeFor's loop reads whether the server is still meant to sleep, then
\* asks for the operation lock.
WakeLooks(p) ==
    /\ join[p] = "waiting"
    /\ IF desired # "sleeping" THEN CallOff(p)
       ELSE join' = [join EXCEPT ![p] = "asking"] /\ UNCHANGED limit
    /\ UNCHANGED <<desired, enabled, asleep, server, op, listening,
                   begun, memory, policy, faults>>

WakeBegins(p) ==
    /\ join[p] = "asking"
    /\ IF op = Free
       THEN /\ Begin("wake", "begun") /\ begun' = begun + 1
            /\ join' = [join EXCEPT ![p] = "none"]
       ELSE /\ join' = [join EXCEPT ![p] = "waiting"]
            /\ UNCHANGED <<op, begun>>
    /\ UNCHANGED <<desired, enabled, asleep, server, listening, limit,
                   memory, policy, faults>>

\* Two minutes after a wake, or the pause after a failed one, are over.
TimePasses ==
    /\ waking \/ paused
    /\ \/ waking' = FALSE /\ UNCHANGED paused
       \/ paused' = FALSE /\ UNCHANGED waking
    /\ UNCHANGED <<desired, enabled, asleep, server, op, listening,
                   recent, join, begun, memory, policy, faults>>

-----------------------------------------------------------------------------
(* Falling asleep                                                          *)

\* observeSleep: the server has been online and empty for long enough.
Decides ==
    /\ enabled /\ Running /\ ~crashed /\ desired = "running" /\ op = Free
    /\ ~due /\ due' = TRUE
    /\ UNCHANGED <<desired, enabled, asleep, server, op, listening,
                   limit, join, begun, seen, policy, faults>>

\* fallAsleep begins the operation, or finds someone on or the server busy.
FallAsleep ==
    /\ due /\ due' = FALSE
    /\ Begin("sleep", "begun") \/ UNCHANGED op
    /\ UNCHANGED <<desired, enabled, asleep, server, listening,
                   limit, join, begun, seen, policy, faults>>

\* sleepOp looks again, and calls the sleep off or marks the server asleep.
SleepLooks ==
    /\ At("sleep", "begun")
    /\ \/ End /\ UNCHANGED desired
       \/ /\ Running /\ enabled /\ desired = "running"
          /\ desired' = "sleeping" /\ Go("stopping")
    /\ UNCHANGED <<enabled, asleep, server, listening, limit, join,
                   begun, memory, policy, faults>>

\* stopContainer: marked first, so that the exit isn't taken for a crash.
StopContainer ==
    IF Running THEN container' = "off" /\ marked' = TRUE /\ exit' = "meant"
    ELSE UNCHANGED server

\* Docker doesn't answer, or can't stop it: it may stay up, marked.
StopFails ==
    /\ Fault
    /\ marked' = (marked \/ Running)
    /\ UNCHANGED <<container, exit>>

\* Manager.Sleep stops the server, and the last wake is over.
SleepStops ==
    /\ At("sleep", "stopping")
    /\ IF listening THEN UNCHANGED <<container, marked, exit, waking>>
       ELSE StopContainer /\ waking' = FALSE
    /\ Go("listen")
    /\ UNCHANGED <<desired, enabled, asleep, listening, recent, paused, join,
                   begun, memory, policy, faults>>

\* The stop failed: a server known to be running stays awake.
SleepStopFails ==
    /\ At("sleep", "stopping") /\ ~listening
    /\ StopFails
    /\ \/ Running /\ desired' = "running"
       \/ UNCHANGED desired
    /\ End
    /\ UNCHANGED <<enabled, asleep, listening, limit, join, begun, memory, policy>>

\* The stand-in answers in the server's place, or the sleep loop is to try
\* again.
SleepListens ==
    /\ At("sleep", "listen")
    /\ Listen
    /\ asleep' = TRUE
    /\ End
    /\ UNCHANGED <<desired, enabled, server, limit, join, begun,
                   memory, policy>>

\* Mutant: a server that counts as asleep is taken to have its stand-in.
ResumeLooksOnce ==
    /\ op = Free
    /\ desired = "sleeping" /\ ~Running /\ ~listening /\ ~asleep
    /\ Begin("resume", "listen")
    /\ UNCHANGED <<desired, listening, asleep, enabled, server, limit, join,
                   begun, memory, policy, faults>>

\* resumeSleep, run as the agent starts and every sleepCheck.
ResumeLooks ==
    /\ op = Free
    /\ desired = "sleeping"
    /\ \/ /\ Running
          /\ desired' = "running" /\ LeaveSleep
          /\ UNCHANGED op
       \/ /\ ~Running /\ ~listening
          /\ Begin("resume", "listen")
          /\ UNCHANGED <<desired, listening, asleep>>
    /\ UNCHANGED <<enabled, server, limit, join, begun, memory,
                   policy, faults>>

ResumeListens ==
    /\ At("resume", "listen")
    /\ Listen
    /\ asleep' = (asleep \/ listening')
    /\ End
    /\ UNCHANGED <<desired, enabled, server, limit, join, begun,
                   memory, policy>>

-----------------------------------------------------------------------------
(* Starting.  Every start runs startServer: prepare, launch and ready.     *)

Starts(at) == op.kind \in {"wake", "start", "auto"} /\ op.at = at

\* Mutant: the wake doesn't look again whether the server still sleeps.
WakeReleasesUnchecked ==
    /\ At("wake", "begun")
    /\ LeaveSleep
    /\ desired' = "running"
    /\ op' = [op EXCEPT !.at = "prepare", !.held = listening]
    /\ UNCHANGED <<enabled, server, limit, join, begun, memory, policy, faults>>

\* wakeOp, unless the server isn't meant to sleep any more: Manager.Wake
\* takes the port back, then the server is marked running.
WakeReleases ==
    /\ At("wake", "begun")
    /\ IF desired # "sleeping"
       THEN End /\ UNCHANGED <<desired, asleep, listening>>
       ELSE /\ LeaveSleep
            /\ desired' = "running"
            /\ op' = [op EXCEPT !.at = "prepare", !.held = listening]
    /\ UNCHANGED <<enabled, server, limit, join, begun, memory, policy, faults>>

\* startNow, and the start that saveSleep hands its lock to.
StartBegins ==
    /\ At("start", "begun")
    /\ desired' = "running"
    /\ Go("prepare")
    /\ UNCHANGED <<enabled, asleep, server, listening, limit, join, begun,
                   memory, policy, faults>>

\* What follows a start that went well: after a wake, no pause is left.
Started == End /\ paused' = (paused /\ ~op.held)

\* Mutant: the container is started while the stand-in may hold the port.
PrepareListening ==
    /\ Starts("prepare")
    /\ owed' = FALSE
    /\ crashed' = (crashed /\ op.kind # "start")
    /\ IF Running THEN Started ELSE Go("launch") /\ UNCHANGED paused
    /\ UNCHANGED <<desired, enabled, asleep, server, listening, recent, waking,
                   join, begun, memory, faults>>

\* A container that already runs is left alone.  A start someone asked for
\* starts the crash policy over.
Prepare ==
    /\ Starts("prepare")
    /\ owed' = FALSE
    /\ crashed' = (crashed /\ op.kind # "start")
    /\ IF Running THEN Started /\ UNCHANGED <<listening, asleep>>
       ELSE LeaveSleep /\ Go("launch") /\ UNCHANGED paused
    /\ UNCHANGED <<desired, enabled, server, recent, waking, join, begun,
                   memory, faults>>

\* Software, settings or packs aren't in order; changed software stops the
\* server for good.
PrepareFails ==
    /\ Starts("prepare")
    /\ Fault
    /\ owed' = FALSE
    /\ desired' \in {desired, "stopped"}
    /\ Go("failed")
    /\ UNCHANGED <<enabled, asleep, server, listening, limit, join, begun,
                   memory, crashed>>

Launch ==
    /\ Starts("launch")
    /\ container' = "on" /\ marked' = FALSE /\ exit' = "handled"
    /\ Go("ready")
    /\ UNCHANGED <<desired, enabled, asleep, listening, limit, join, begun,
                   memory, policy, faults>>

\* A container that doesn't start is removed.
LaunchFails ==
    /\ Starts("launch")
    /\ Fault
    /\ container' = "gone" /\ exit' = "handled"
    /\ Go("failed")
    /\ UNCHANGED <<desired, enabled, asleep, marked, listening, limit, join,
                   begun, memory, policy>>

Ready ==
    /\ Starts("ready") /\ Running
    /\ Started /\ crashed' = FALSE
    /\ UNCHANGED <<desired, enabled, asleep, server, listening, recent, waking,
                   join, begun, memory, owed, faults>>

\* A server that gets online later, or after a crash, hasn't crashed any more.
GetsOnline ==
    /\ Running /\ crashed
    /\ crashed' = FALSE
    /\ UNCHANGED <<desired, enabled, asleep, server, op, listening, limit, join,
                   begun, memory, owed, faults>>

\* It didn't get online in time, or it died while starting, which the start
\* reports itself.
ReadyFails ==
    /\ Starts("ready")
    /\ IF Running THEN Fault /\ UNCHANGED exit
       ELSE exit' = "handled" /\ UNCHANGED faults
    /\ Go("failed")
    /\ UNCHANGED <<desired, enabled, asleep, container, marked, listening,
                   limit, join, begun, memory, policy>>

\* Docker doesn't say whether the container runs.
Silent == Fault

\* A failed wake: wakes pause and the stand-in answers again.
WakeFails ==
    /\ At("wake", "failed")
    /\ IF op.held
       THEN paused' = TRUE /\ waking' = FALSE /\ Listen
       ELSE UNCHANGED <<paused, waking, listening, faults>>
    /\ Go("settle")
    /\ UNCHANGED <<desired, enabled, asleep, server, recent, join, begun,
                   memory, policy>>

\* The server sleeps again unless it is known to run, or stays stopped.
WakeSettles ==
    /\ At("wake", "settle")
    /\ \/ /\ desired = "stopped" /\ LeaveSleep
          /\ UNCHANGED <<desired, faults>>
       \/ /\ desired # "stopped"
          /\ \/ ~Running /\ UNCHANGED faults
             \/ Silent
          /\ desired' = "sleeping" /\ asleep' = TRUE
          /\ UNCHANGED listening
       \/ /\ desired # "stopped" /\ Running
          /\ UNCHANGED <<desired, asleep, listening, faults>>
    /\ End
    /\ UNCHANGED <<enabled, server, limit, join, begun, memory, policy>>

\* Mutant: the stand-in goes on answering for a server that is stopped.
StartFailsListening ==
    /\ At("start", "failed")
    /\ desired' = IF Running THEN desired ELSE "stopped"
    /\ End
    /\ UNCHANGED <<enabled, asleep, listening, server, limit, join, begun,
                   memory, policy, faults>>

\* startFailed: nothing retries a start someone asked for.
StartFails ==
    /\ At("start", "failed")
    /\ \/ /\ desired' = IF Running THEN desired ELSE "stopped"
          /\ UNCHANGED faults
       \/ /\ "dockerSilent" \in Windows
          /\ Silent /\ UNCHANGED desired
    /\ LeaveSleep
    /\ End
    /\ UNCHANGED <<enabled, server, limit, join, begun, memory, policy>>

\* autoStartFailed counts it like a crash.
AutoFails ==
    /\ At("auto", "failed")
    /\ crashed' = TRUE
    /\ End
    /\ UNCHANGED <<desired, enabled, asleep, server, listening, limit, join,
                   begun, memory, owed, faults>>

-----------------------------------------------------------------------------
(* The owner                                                               *)

\* hStart
OwnerStarts ==
    /\ op = Free
    /\ \/ Running /\ desired' = "running" /\ UNCHANGED op
       \/ ~Running /\ Begin("start", "begun") /\ UNCHANGED desired
    /\ UNCHANGED <<enabled, asleep, server, listening, limit, join, begun,
                   memory, policy, faults>>

\* hStop
OwnerStops ==
    /\ op = Free
    /\ desired' = "stopped"
    /\ \/ Running /\ Begin("stop", "stopping")
          /\ UNCHANGED <<asleep, listening, crashed>>
       \/ ~Running /\ LeaveSleep /\ crashed' = FALSE
          /\ UNCHANGED op
    /\ UNCHANGED <<enabled, server, limit, join, begun, memory, owed, faults>>

StopStops ==
    /\ At("stop", "stopping")
    /\ \/ StopContainer /\ UNCHANGED faults
       \/ StopFails
    /\ End
    /\ UNCHANGED <<desired, enabled, asleep, listening, limit, join, begun,
                   memory, policy>>

\* saveSleep holds the lock; turning sleep off hands it to a start when the
\* server sleeps.
SaveSleep ==
    /\ op = Free
    /\ enabled' = ~enabled
    /\ IF enabled /\ desired = "sleeping" THEN Begin("start", "begun")
       ELSE UNCHANGED op
    /\ UNCHANGED <<desired, asleep, server, listening, limit, join, begun,
                   memory, policy, faults>>

\* Any other operation, such as a backup, that leaves the server as it is.
OtherBegins ==
    /\ Begin("other", "begun")
    /\ UNCHANGED <<desired, enabled, asleep, server, listening, limit, join,
                   begun, memory, policy, faults>>

OtherEnds ==
    /\ At("other", "begun")
    /\ End
    /\ UNCHANGED <<desired, enabled, asleep, server, listening, limit, join,
                   begun, memory, policy, faults>>

-----------------------------------------------------------------------------
(* The reconcile loop                                                      *)

ReconcileLooks ==
    /\ op = Free /\ seen = "none"
    /\ seen' = desired
    /\ UNCHANGED <<desired, enabled, asleep, server, op, listening, limit,
                   join, begun, due, policy, faults>>

\* autoStart, if the lock is free.
AutoStart == IF op = Free THEN Begin("auto", "prepare") ELSE UNCHANGED op

\* recoverStart: owed until it begins.
RecoverStart == AutoStart /\ owed' = (op # Free)

Stale == seen # desired /\ "staleReconcile" \notin Windows

\* Nothing is to be done about a server that isn't meant to run or does, and
\* of one whose exit was meant or handled.
LeftAlone ==
    \/ seen # "running" \/ Running
    \/ container = "off" /\ exit = "meant"
    \/ container = "off" /\ exit = "handled" /\ ~owed /\ ~crashed

\* What a server that should run is brought back by: a start that is owed,
\* or one after a crash, whose backoff ends in time.
BroughtBack ==
    /\ ~LeftAlone
    /\ \/ /\ container = "off"
          /\ exit \in {"found", "died"} \/ owed
          /\ RecoverStart /\ UNCHANGED crashed
       \/ /\ exit = "died" /\ crashed' = TRUE
          /\ UNCHANGED <<op, owed>>
       \/ /\ container = "gone" \/ (exit = "handled" /\ ~owed)
          /\ AutoStart /\ UNCHANGED policy

\* The container as Docker shows it now, and the desired state read before.
Reconcile ==
    /\ seen # "none" /\ seen' = "none"
    /\ IF Stale THEN UNCHANGED <<exit, op, policy>>
       ELSE /\ exit' = IF container = "off" THEN "handled" ELSE exit
            /\ \/ LeftAlone /\ UNCHANGED <<op, policy>>
               \/ BroughtBack
    /\ UNCHANGED <<desired, enabled, asleep, container, marked, listening,
                   limit, join, begun, due, faults>>

-----------------------------------------------------------------------------
(* What else happens to it                                                 *)

\* The server stops by itself.
Dies ==
    /\ Running
    /\ Fault
    /\ marked => op.at = "stopping" \/ "dieAfterFailedStop" \in Windows
    /\ container' = "off"
    /\ exit' = IF marked THEN "meant" ELSE "died"
    /\ UNCHANGED <<desired, enabled, asleep, marked, op, listening, limit,
                   join, begun, memory, policy>>

\* docker start: it needs the game port.
StartedOutside ==
    /\ container = "off" /\ ~listening /\ op.at # "launch"
    /\ Fault
    /\ container' = "on" /\ exit' = "handled"
    /\ UNCHANGED <<desired, enabled, asleep, marked, op, listening, limit,
                   join, begun, memory, policy>>

\* The agent restarts, alone or with its machine.
AgentRestarts ==
    /\ Fault
    /\ \/ "restartTurningOff" \in Windows
       \/ ~(At("start", "begun") /\ desired = "sleeping" /\ ~enabled)
    /\ container' \in {container} \cup (IF Running THEN {"off"} ELSE {})
    /\ exit' = IF container' = "off" THEN "found" ELSE "handled"
    /\ marked' = FALSE
    /\ op' = Free /\ listening' = FALSE
    /\ recent' = 0 /\ waking' = FALSE /\ paused' = FALSE
    /\ join' = [p \in Player |-> "none"] /\ begun' = 0
    /\ due' = FALSE /\ seen' = "none"
    /\ crashed' = FALSE /\ owed' = FALSE
    /\ UNCHANGED <<desired, enabled, asleep>>

-----------------------------------------------------------------------------

SleepSteps == SleepLooks \/ SleepStops \/ SleepStopFails \/ SleepListens
StartSteps ==
    \/ WakeReleases \/ StartBegins \/ Prepare \/ PrepareFails \/ Launch
    \/ LaunchFails \/ Ready \/ ReadyFails \/ WakeFails \/ WakeSettles
    \/ StartFails \/ AutoFails
OpSteps == SleepSteps \/ StartSteps \/ ResumeListens \/ StopStops \/ OtherEnds

Next ==
    \/ \E p \in Player : Join(p) \/ Try(p) \/ WakeFor(p) \/ WakeLooks(p) \/ WakeBegins(p)
    \/ TimePasses \/ Decides \/ FallAsleep \/ ResumeLooks
    \/ OpSteps
    \/ OwnerStarts \/ OwnerStops \/ SaveSleep \/ OtherBegins
    \/ ReconcileLooks \/ Reconcile
    \/ GetsOnline \/ Dies \/ StartedOutside \/ AgentRestarts

Spec == Init /\ [][Next]_vars

\* Operations end; the stand-in takes no more joins while it is released, so
\* it has answered them all in the end; and the sleep and reconcile loops,
\* which look every few seconds, find the lock free now and then.
FairSpec ==
    /\ Spec
    /\ SF_vars(OpSteps)
    /\ []<>Answered
    /\ SF_vars(ResumeLooks)
    /\ SF_vars(ReconcileLooks) /\ WF_vars(Reconcile)
    /\ SF_vars(Reconcile /\ op = Free)

-----------------------------------------------------------------------------
(* What sleeping promises                                                  *)

\* The stand-in lets go of the port before the container is started, and a
\* server Playkeeper starts isn't counted as asleep.
PortHandedOver ==
    /\ op.at \in {"launch", "ready"} => ~listening
    /\ op.at = "ready" => ~asleep

\* Between operations, only a server that is meant to sleep has a stand-in
\* answering for it, and none sleeps whose owner turned sleep off.
AsleepAsMeant ==
    op = Free =>
        /\ listening => desired = "sleeping"
        /\ desired = "sleeping" => enabled

\* The stand-in answers only for a server that is down and meant to sleep.
StandInAsMeant == PortHandedOver /\ AsleepAsMeant

\* "Only wakes that start count towards the wakes an hour allows"
\* (sleep/manager.go:237-240).
WakesCounted ==
    recent = begun
        + Cardinality({p \in Player : join[p] \in {"granted", "waiting", "asking"}})

\* Nothing starts a server that is meant to be stopped or asleep, and what
\* its owner stopped is left so by joins, sleeps and automatic starts.
StartsOnlyIfMeant ==
    [][/\ op.at = "launch" /\ container' = "on" => desired = "running"
       /\ desired = "stopped" /\ op.kind \in {"wake", "auto", "sleep", "resume"}
            => desired' = "stopped"]_vars

\* A sleeping server's players are answered in the end, or it sleeps no more.
AnsweredInTheEnd == desired = "sleeping" ~> listening \/ desired # "sleeping"

\* A server that is meant to run and doesn't comes back (lifecycle.go:1174).
ComesBack == desired = "running" /\ ~Running ~> Running \/ desired # "running"

\* Nobody waits for ever: not the players of a sleeping server, nor those of
\* one that should run.
NobodyWaits == AnsweredInTheEnd /\ ComesBack
=============================================================================
