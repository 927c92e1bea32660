------------------------------ MODULE Schedules ------------------------------
(***************************************************************************)
(* One server's schedules (internal/schedule and internal/agent/           *)
(* schedules.go): restarts that warn players first, backups, and quick     *)
(* ones (messages and console commands).  The server's runner looks what   *)
(* is due, records that it runs, runs it and records how it ended; the     *)
(* owner edits schedules meanwhile, other operations hold the server, and  *)
(* the agent stops or dies.                                                *)
(*                                                                         *)
(* Time is counted in ticks; when a schedule runs is a set of them.  Left  *)
(* out: how instants follow from clock times and time zones, clocks that   *)
(* are set back, and the list of recent runs.                              *)
(***************************************************************************)
EXTENDS Naturals, FiniteSets, FiniteSetsExt

CONSTANTS
    Schedule,
    Kind(_),        \* "restart", "backup" or "quick"
    Timings(_),     \* the sets of due times its owner chooses between
    Lead(_),        \* a restart's first warning, before it is due
    Grace(_),       \* how late a run may begin
    IfEmpty(_),     \* what a restart does then: "planned", "skip" or "now"
    SkipIfPlaying,  \* those that try again later when people play
    OnlyIfPlayed,   \* backups that skip when nobody played
    RetryAfter,     \* how much later
    MinNotice,      \* the least warning of a restart that begins late
    BusyRetry,      \* how long a busy server is left alone
    BusyGiveUp,     \* for how long a restart waits for one
    MaxTime,        \* where the model's time ends
    MaxEdits,       \* the owner's edits
    MaxFaults,      \* failures, and stops and deaths of the agent
    Windows         \* sequences a run looks at, named where they matter

Time == 0..MaxTime
Kinds == {"restart", "backup", "quick"}

ASSUME BoundsAssumption ==
    /\ MaxTime \in Nat \ {0} /\ MaxEdits \in Nat /\ MaxFaults \in Nat
    /\ RetryAfter \in Nat \ {0} /\ MinNotice \in Nat
    /\ BusyRetry \in Nat \ {0} /\ BusyGiveUp \in Nat
ASSUME ScheduleAssumption ==
    \A s \in Schedule :
        /\ Kind(s) \in Kinds /\ IfEmpty(s) \in {"planned", "skip", "now"}
        /\ Lead(s) \in Nat /\ Grace(s) \in Nat
        /\ Timings(s) # {} /\ Timings(s) \subseteq SUBSET (Time \ {0})
        /\ s \in OnlyIfPlayed => Kind(s) = "backup"
ASSUME WindowsAssumption ==
    Windows \subseteq {"staleList", "editOverRun", "lostCommand", "unreadable"}

VARIABLES
    now,
    enabled,   \* schedules.enabled, or "gone"
    times,     \* schedules.timing: when each is due
    updated,   \* schedules.updated_at
    last,      \* schedules.last_run
    since,     \* those whose updated_at is after their run finished
    agent,     \* "down", "up" or "stopping"
    runs,      \* Runner.runs: what this agent saved
    pc, job,   \* the runner's step and the job it runs
    told,      \* what the players of the server were last told of a restart
    edit,      \* the owner's edit that isn't saved yet
    begun,     \* the latest due time of each that began
    edited,    \* those edited since their last run ended
    edits, faults

stored == <<enabled, times, updated, last, since>>
history == <<begun, edited>>
counts == <<edits, faults>>
vars == <<now, enabled, times, updated, last, since, agent, runs, pc, job, told,
          edit, begun, edited, edits, faults>>

-----------------------------------------------------------------------------

\* How a run ended; "never" is no run at all.
Ends == {"succeeded", "missed", "offline", "off", "playing", "nobody", "busy",
         "error", "interrupted"}
Run == [due : Time, result : Ends \union {"never", "running"}, retry : Time]
Ended(due, result) == [due |-> due, result |-> result, retry |-> 0]
NoRun == Ended(0, "never")

\* A job: its schedule and times as it was loaded, when it is due, until
\* when the runner sleeps, when it gives up (or warns again), whether a
\* warning was sent, and how it ended.
Job == [of : Schedule, times : SUBSET Time, due : Time, at : Time, giveUp : Time,
        warned : BOOLEAN, result : Ends \union {"running"}, retry : Time]

NoEdit == [of |-> {}, to |-> "none", times |-> {}, after |-> FALSE]
Edit == [of : SUBSET Schedule, to : {"none", "on", "off"}, times : SUBSET Time,
         after : BOOLEAN]

Steps == {"first", "look", "begin", "start", "warn", "count", "idle", "op",
          "working", "record"}

TypeOK ==
    /\ now \in Time
    /\ enabled \in [Schedule -> {"on", "off", "gone"}]
    /\ times \in [Schedule -> SUBSET Time] /\ updated \in [Schedule -> Time]
    /\ last \in [Schedule -> Run] /\ since \subseteq Schedule
    /\ agent \in {"down", "up", "stopping"} /\ runs \in [Schedule -> Run]
    /\ pc \in Steps
    /\ pc \notin {"first", "look"} =>
          job \in Job /\ (pc # "begin" => runs[job.of] = Ended(job.due, "running"))
    /\ told \in {"nothing", "warned", "now", "off"}
    /\ edit \in Edit
    /\ begun \in [Schedule -> Time] /\ edited \subseteq Schedule
    /\ edits \in 0..MaxEdits /\ faults \in 0..MaxFaults

NoJob == [of |-> "none"]

Init ==
    /\ now = 0
    /\ enabled = [s \in Schedule |-> "on"]
    /\ times \in [Schedule -> UNION {Timings(s) : s \in Schedule}]
    /\ \A s \in Schedule : times[s] \in Timings(s)
    /\ updated = [s \in Schedule |-> 0]
    /\ last = [s \in Schedule |-> NoRun] /\ since = {}
    /\ agent = "up" /\ runs = [s \in Schedule |-> NoRun]
    /\ pc = "first" /\ job = NoJob /\ told = "nothing"
    /\ edit = NoEdit
    /\ begun = [s \in Schedule |-> 0] /\ edited = {}
    /\ edits = 0 /\ faults = 0

Open(w) == w \in Windows
Fault == faults < MaxFaults /\ faults' = faults + 1

\* Times past the end of the model's time are cut to it.
Cut(t) == IF t > MaxTime THEN MaxTime ELSE t
Latest(S) == IF S = {} THEN 0 ELSE Max(S)

-----------------------------------------------------------------------------
(* What is due                                                             *)

\* load: runs that this agent saved are laid over the stored ones.
Seen(s) ==
    IF runs[s].result # "never" /\ runs[s].due >= last[s].due
    THEN runs[s] ELSE last[s]

\* Schedule.cursor
Cursor(s) == Latest({updated[s], Seen(s).due})

\* Schedule.pendingRetry: none once the schedule was updated after its run.
PendingRetry(s) == IF s \in since THEN 0 ELSE Seen(s).retry

\* Plan: the latest occurrence that is due, a restart from its first warning
\* on; 0 is none.
Occurrence(s) ==
    LET horizon == now + Lead(s)
        regular == Latest({t \in times[s] : Cursor(s) < t /\ t <= horizon})
        retry == PendingRetry(s)
    IN IF retry > Cursor(s) /\ regular < retry /\ retry <= horizon
       THEN retry ELSE regular

Found == {s \in Schedule : enabled[s] = "on" /\ Occurrence(s) > 0}
Late(s) == now > Occurrence(s) + Grace(s)
DueNow == {s \in Found : ~Late(s)}

Order(s) == CASE Kind(s) = "quick" -> 0 [] Kind(s) = "backup" -> 1 [] OTHER -> 2

\* Jobs run by when they start, then by when they are due and what they do;
\* subtracting the lead is adding the longest one less it.
Start(s) == Occurrence(s) + Latest({Lead(x) : x \in Schedule}) - Lead(s)
Before(s, x) ==
    \/ Start(s) < Start(x)
    \/ Start(s) = Start(x) /\ Occurrence(s) < Occurrence(x)
    \/ Start(s) = Start(x) /\ Occurrence(s) = Occurrence(x) /\ Order(s) < Order(x)

-----------------------------------------------------------------------------
(* Recording runs                                                          *)

\* saveScheduleRun: a schedule that is gone has no row to save to.
Stored(s, run) ==
    IF enabled[s] = "gone" THEN last ELSE [last EXCEPT ![s] = run]

\* The runs of several schedules are recorded, the ones in lost only in memory.
RecordAll(run) ==
    /\ runs' = [s \in Schedule |-> IF s \in DOMAIN run THEN run[s] ELSE runs[s]]
    /\ \E lost \in SUBSET DOMAIN run :
         /\ last' = [s \in Schedule |->
                      IF s \in DOMAIN run \ lost THEN run[s] ELSE last[s]]
         /\ IF lost = {} THEN UNCHANGED faults ELSE Fault

\* markInterrupted: what an earlier agent left running isn't run again.
MarkInterrupted ==
    /\ agent = "up" /\ pc = "first"
    /\ LET left == {s \in Schedule : enabled[s] # "gone" /\ last[s].result = "running"}
       IN RecordAll([s \in left |-> Ended(last[s].due, "interrupted")])
    /\ pc' = "look"
    /\ UNCHANGED <<now, enabled, times, updated, since, agent, job, told,
                   edit, history, edits>>

\* Mutant: what is too late is passed over.
LookUnrecorded ==
    /\ agent = "up" /\ pc = "look"
    /\ \E s \in DueNow :
         /\ \A x \in DueNow : ~Before(x, s)
         /\ pc' = "begin"
         /\ job' = [of |-> s, times |-> times[s], due |-> Occurrence(s), at |-> now,
                    giveUp |-> now, warned |-> FALSE, result |-> "running", retry |-> 0]
    /\ UNCHANGED <<now, stored, agent, runs, told, edit, history, counts>>

\* Runner.Run looks at Plan: what is too late is recorded as missed, the
\* first of what is due is run.
Look ==
    /\ agent = "up" /\ pc = "look"
    /\ Found # {}
    /\ RecordAll([s \in Found \ DueNow |-> Ended(Occurrence(s), "missed")])
    /\ \/ DueNow = {} /\ UNCHANGED <<pc, job>>
       \/ \E s \in DueNow :
            /\ \A x \in DueNow : ~Before(x, s)
            /\ pc' = "begin"
            /\ job' = [of |-> s, times |-> times[s], due |-> Occurrence(s), at |-> now,
                       giveUp |-> now, warned |-> FALSE, result |-> "running", retry |-> 0]
    /\ UNCHANGED <<now, enabled, times, updated, since, agent, told, edit,
                   history, edits>>

\* Mutant: the run is recorded only when it ends.
BeginUnrecorded ==
    /\ pc = "begin"
    /\ pc' = "start"
    /\ begun' = [begun EXCEPT ![job.of] = job.due]
    /\ UNCHANGED <<now, stored, agent, runs, job, told, edit, edited, counts>>

\* run records that it runs before it does anything.  When that can't be
\* recorded it isn't run, whether or not the row was written.
Begin ==
    /\ pc = "begin"
    /\ \/ /\ LET run == Ended(job.due, "running")
             IN /\ runs' = [runs EXCEPT ![job.of] = run]
                /\ last' = Stored(job.of, run)
          /\ pc' = "start"
          /\ begun' = [begun EXCEPT ![job.of] = job.due]
          /\ UNCHANGED <<job, faults>>
       \/ /\ Fault
          /\ runs' = [runs EXCEPT ![job.of] = Ended(job.due, "error")]
          /\ last' \in {last, Stored(job.of, Ended(job.due, "running"))}
          /\ pc' = "look" /\ job' = NoJob
          /\ UNCHANGED begun
    /\ UNCHANGED <<now, enabled, times, updated, since, agent, told, edit, edited,
                   edits>>

\* The end of run: the result is recorded, and a retry with it.
Record ==
    /\ pc = "record"
    /\ Open("editOverRun") \/ edit.of # {job.of}
    /\ LET run == [due |-> job.due, result |-> job.result, retry |-> job.retry]
       IN /\ runs' = [runs EXCEPT ![job.of] = run]
          /\ \/ last' = Stored(job.of, run) /\ UNCHANGED faults
             \/ Fault /\ UNCHANGED last
    /\ since' = since \ {job.of} /\ edited' = edited \ {job.of}
    /\ edit' = IF edit.of = {job.of} THEN [edit EXCEPT !.after = FALSE] ELSE edit
    /\ pc' = "look" /\ job' = NoJob /\ told' = "nothing"
    /\ UNCHANGED <<now, enabled, times, updated, agent, begun, edits>>

-----------------------------------------------------------------------------
(* Running a job.  What the server answers (is it online, does another     *)
(* operation hold it, who plays) may be different every time.              *)

\* Steps of a job change only these.
Aside == <<now, stored, agent, runs, edit, history, edits>>

EndsJob(result) ==
    /\ pc' = "record"
    /\ job' = [job EXCEPT !.result = result]

GoesOn(step, at, giveUp) ==
    /\ pc' = step
    /\ job' = [job EXCEPT !.at = Cut(at), !.giveUp = Cut(giveUp)]

\* Nothing else answers an agent that is stopping.
Fails == Fault \/ (agent = "stopping" /\ UNCHANGED faults)

\* Players who were warned of a restart are told it won't happen, if the
\* command reaches them: its error is ignored.
CalledOff ==
    \/ told' = IF job.warned THEN "off" ELSE told
    \/ Open("lostCommand") /\ UNCHANGED told

\* turnedOff, which is no when the schedules can't be read.
SeesOff == enabled[job.of] # "on"
SeesOn == enabled[job.of] = "on" \/ Open("unreadable")

\* Schedule.retryAt
RetryAt ==
    LET at == Cut(Max({job.due, now}) + RetryAfter)
    IN IF \E t \in job.times : job.due < t /\ t <= at THEN 0 ELSE at

PeoplePlay ==
    /\ job.of \in SkipIfPlaying
    /\ pc' = "record"
    /\ job' = [job EXCEPT !.result = "playing", !.retry = RetryAt]

\* How long a restart that begins now still warns.
Notice == Min({Lead(job.of), MinNotice})

StartRestart ==
    /\ pc = "start" /\ Kind(job.of) = "restart"
    /\ \/ Fails /\ EndsJob("error")
       \/ /\ UNCHANGED faults
          /\ \/ EndsJob("offline")
             \/ PeoplePlay
             \/ IfEmpty(job.of) = "skip" /\ EndsJob("nobody")
             \/ IfEmpty(job.of) = "now" /\ GoesOn("op", now, now + BusyGiveUp)
             \/ GoesOn(IF Lead(job.of) = 0 THEN "count" ELSE "warn",
                       Max({job.due, now + Notice}), now)
    /\ UNCHANGED <<Aside, told>>

StartBackup ==
    /\ pc = "start" /\ Kind(job.of) = "backup"
    /\ PeoplePlay \/ GoesOn("op", now, job.due + Grace(job.of))
    /\ UNCHANGED <<Aside, told, faults>>

\* Messages and commands.
RunQuick ==
    /\ pc = "start" /\ Kind(job.of) = "quick"
    /\ \/ Fails /\ EndsJob("error")
       \/ \E r \in {"succeeded", "offline", "nobody"} : EndsJob(r) /\ UNCHANGED faults
    /\ UNCHANGED <<Aside, told>>

\* countdownWait looks whether the schedule was turned off or deleted.
TurnedOff ==
    /\ pc \in {"warn", "count"} \/ (pc = "idle" /\ now < Max({job.at, job.giveUp}))
    /\ SeesOff
    /\ CalledOff /\ EndsJob("off")
    /\ UNCHANGED <<Aside, faults>>

\* A warning of the countdown.  One that fails isn't counted as sent; when
\* everyone has left, the restart needn't wait.
Warn ==
    /\ pc = "warn" /\ SeesOn
    /\ \/ EndsJob("offline") /\ UNCHANGED <<told, faults>>
       \/ /\ IfEmpty(job.of) = "now" /\ told' = "nothing"
          /\ GoesOn("idle", now, now + BusyGiveUp) /\ UNCHANGED faults
       \/ /\ told' = "warned" /\ UNCHANGED faults
          /\ pc' = "count"
          /\ job' = [job EXCEPT !.warned = TRUE, !.giveUp = Cut(now + 1)]
       \/ /\ Fails /\ pc' = "count"
          /\ job' = [job EXCEPT !.giveUp = Cut(now + 1)]
          /\ told' \in {told} \union (IF Open("lostCommand") THEN {"warned"} ELSE {})
    /\ UNCHANGED Aside

WarnAgain ==
    /\ pc = "count" /\ job.giveUp <= now /\ now < job.at /\ Lead(job.of) > 0
    /\ pc' = "warn"
    /\ UNCHANGED <<Aside, job, told, faults>>

CountdownEnds ==
    /\ pc = "count" /\ now >= job.at /\ SeesOn
    /\ EndsJob("offline") \/ GoesOn("idle", now, now + BusyGiveUp)
    /\ UNCHANGED <<Aside, told, faults>>

\* waitIdle: while another operation holds the server, players aren't told
\* that it restarts now.
WaitIdle ==
    /\ pc = "idle" /\ now >= job.at
    /\ \/ /\ pc' = "op" /\ UNCHANGED job
          /\ told' = IF told = "warned" THEN "now" ELSE told
       \/ EndsJob("offline") /\ UNCHANGED told
       \/ now >= job.giveUp /\ CalledOff /\ EndsJob("busy")
       \/ /\ now < job.giveUp /\ SeesOn
          /\ GoesOn("idle", now + BusyRetry, job.giveUp) /\ UNCHANGED told
    /\ UNCHANGED <<Aside, faults>>

\* operation tries while the server is busy until it gives up.
TryOperation ==
    /\ pc = "op" /\ now >= job.at
    /\ \/ /\ UNCHANGED told
          /\ \/ Kind(job.of) = "restart" /\ EndsJob("offline")
             \/ job.of \in OnlyIfPlayed /\ EndsJob("nobody")
             \/ now < job.giveUp /\ GoesOn("op", now + BusyRetry, job.giveUp)
             \/ pc' = "working" /\ UNCHANGED job
       \/ now >= job.giveUp /\ CalledOff /\ EndsJob("busy")
    /\ UNCHANGED <<Aside, faults>>

\* Mutant: a restart that fails leaves players waiting for it.
OperationEndsSilently ==
    /\ pc = "working"
    /\ \/ EndsJob("succeeded") /\ UNCHANGED faults
       \/ Fails /\ EndsJob("error")
    /\ UNCHANGED <<Aside, told>>

OperationEnds ==
    /\ pc = "working"
    /\ \/ EndsJob("succeeded") /\ UNCHANGED <<told, faults>>
       \/ Fault /\ CalledOff /\ EndsJob("error")
    /\ UNCHANGED Aside

-----------------------------------------------------------------------------
(* The agent, the owner, and time                                          *)

AgentStops ==
    /\ agent = "up" /\ Fault
    /\ agent' = "stopping"
    /\ UNCHANGED <<now, stored, runs, pc, job, told, edit, history, edits>>

\* What a stopping agent waits for ends; what it recorded stays.
Interrupted ==
    /\ agent = "stopping" /\ pc \in {"warn", "count", "idle", "op", "working"}
    /\ EndsJob("interrupted")
    /\ UNCHANGED <<Aside, told, faults>>

Down ==
    /\ agent' = "down"
    /\ pc' = "first" /\ job' = NoJob /\ runs' = [s \in Schedule |-> NoRun]
    /\ edit' = NoEdit /\ told' = "nothing"
    /\ UNCHANGED <<now, stored, history, edits>>

AgentStopped ==
    agent = "stopping" /\ pc \in {"first", "look"} /\ Down /\ UNCHANGED faults

AgentDies == agent # "down" /\ Fault /\ Down

AgentStarts ==
    /\ agent = "down" /\ agent' = "up"
    /\ UNCHANGED <<now, stored, runs, pc, job, told, edit, history, counts>>

\* Between reading the list and recording a run of it.
Unlisted(s) == Open("staleList") \/ pc # "begin" \/ job.of # s

\* updateSchedule reads the schedule, then the clock, and then saves: after is
\* whether the last run ended before it read the clock.
EditReads(s, to, set) ==
    /\ agent # "down" /\ edit = NoEdit /\ enabled[s] # "gone"
    /\ edits < MaxEdits /\ edits' = edits + 1
    /\ edit' = [of |-> {s}, to |-> to, times |-> set, after |-> TRUE]
    /\ UNCHANGED <<now, stored, agent, runs, pc, job, told, history, faults>>

\* Mutant: the retry stays.
EditSavesRetry(s) ==
    /\ edit.of = {s} /\ Unlisted(s)
    /\ edit' = NoEdit
    /\ enabled' = [enabled EXCEPT ![s] = edit.to]
    /\ times' = [times EXCEPT ![s] = edit.times]
    /\ updated' = [updated EXCEPT ![s] = now]
    /\ edited' = edited \union {s}
    /\ UNCHANGED <<now, last, since, agent, runs, pc, job, told, begun, counts>>

EditSaves(s) ==
    /\ edit.of = {s} /\ Unlisted(s)
    /\ edit' = NoEdit
    /\ enabled' = [enabled EXCEPT ![s] = edit.to]
    /\ times' = [times EXCEPT ![s] = edit.times]
    /\ updated' = [updated EXCEPT ![s] = now]
    /\ last' = [last EXCEPT ![s].retry = 0]
    /\ since' = IF edit.after THEN since \union {s} ELSE since \ {s}
    /\ edited' = edited \union {s}
    /\ UNCHANGED <<now, agent, runs, pc, job, told, begun, counts>>

Delete(s) ==
    /\ agent # "down" /\ edit = NoEdit /\ enabled[s] # "gone" /\ Unlisted(s)
    /\ edits < MaxEdits /\ edits' = edits + 1
    /\ enabled' = [enabled EXCEPT ![s] = "gone"]
    /\ edited' = edited \union {s}
    /\ UNCHANGED <<now, times, updated, last, since, agent, runs, pc, job, told,
                   edit, begun, faults>>

\* The runner waits: nothing is due, a countdown or a busy server's wait isn't
\* over, an operation runs, or there is no agent.
Waits ==
    \/ agent = "down" \/ pc = "working"
    \/ pc = "look" /\ Found = {}
    \/ pc \in {"count", "idle", "op"} /\ now < job.at

\* A tick is far longer than an edit or a step of the runner.
Tick ==
    /\ now < MaxTime /\ edit = NoEdit /\ Waits
    /\ now' = now + 1
    /\ UNCHANGED <<stored, agent, runs, pc, job, told, edit, history, counts>>

-----------------------------------------------------------------------------

RunnerStep ==
    \/ MarkInterrupted \/ Look \/ Begin \/ Record
    \/ StartRestart \/ StartBackup \/ RunQuick
    \/ TurnedOff \/ Warn \/ WarnAgain \/ CountdownEnds \/ WaitIdle
    \/ TryOperation \/ OperationEnds
    \/ Interrupted \/ AgentStopped

Next ==
    \/ RunnerStep
    \/ AgentStops \/ AgentDies \/ AgentStarts
    \/ \E s \in Schedule :
         \/ \E to \in {"on", "off"}, set \in Timings(s) : EditReads(s, to, set)
         \/ EditSaves(s) \/ Delete(s)
    \/ Tick

Spec == Init /\ [][Next]_vars

\* The agent's goroutines go on, systemd starts an agent that ended, edits are
\* saved, and time passes.
FairSpec ==
    /\ Spec
    /\ WF_vars(RunnerStep) /\ WF_vars(AgentStarts)
    /\ WF_vars(\E s \in Schedule : EditSaves(s)) /\ WF_vars(Tick)

-----------------------------------------------------------------------------
(* Properties                                                              *)

Begins == pc = "begin" /\ pc' = "start"

\* Whatever fails, stops, dies, is retried or edited, a schedule never begins
\* an occurrence twice, nor an earlier one after a later one.
RunsOnce == [][Begins => job.due > begun[job.of]]_vars

\* Players who were warned of a restart see it or hear that it is off, unless
\* the server went down or the agent stopped meanwhile.
PlayersTold ==
    pc = "record" /\ told \in {"warned", "now"}
        => job.result \in {"succeeded", "offline", "interrupted"}

\* A schedule runs as it is saved: nothing from before it was changed begins,
\* a retry neither, and a restart that was turned off during its warnings
\* doesn't come.
AsSaved ==
    LET s == job.of
    IN /\ Begins => /\ enabled[s] = "on" /\ updated[s] < job.due
                    /\ job.due \notin times[s] => s \notin edited
       /\ pc \in {"warn", "count"} /\ pc' = "idle" => enabled[s] = "on"
OwnerHeeded == [][AsSaved]_vars

\* Each occurrence is run, or recorded as missed, or gives way to a later one,
\* and no run stays recorded as running.
AllHandled ==
    <>[](\A s \in Schedule : enabled[s] = "on" =>
            /\ \A t \in times[s] : t <= Cursor(s)
            /\ Seen(s).result # "running")

=============================================================================
