--------------------------- MODULE SchedulesProofs ---------------------------
(***************************************************************************)
(* Proofs about Schedules, for any schedules, times and bounds.            *)
(***************************************************************************)
EXTENDS Schedules, WellFoundedInduction, TLAPS

-----------------------------------------------------------------------------
(* Greatest and least numbers                                              *)

(* The order of numbers, which is well founded. *)
Below == {p \in Nat \X Nat : p[1] < p[2]}

LEMMA BelowIsWellFounded == IsWellFoundedOn(Below, Nat)
BY NatLessThanWellFounded DEF OpToRel, Below

(* A set of instants that isn't empty has a latest one. *)
LEMMA LatestIsOne ==
    ASSUME NEW S \in SUBSET Time, S # {}
    PROVE  Latest(S) \in S /\ \A t \in S : t <= Latest(S)
<1> DEFINE Left == {k \in Time : MaxTime - k \in S}
<1>1. PICK s \in S : TRUE
  OBVIOUS
<1>2. ASSUME NEW c \in S PROVE MaxTime - c \in Left
  BY BoundsAssumption DEF Time
<1>3. Left \subseteq Nat /\ MaxTime - s \in Left
  BY <1>2 DEF Time
<1> HIDE DEF Left
<1>4. PICK d \in Left : \A e \in Left : <<e, d>> \notin Below
  BY <1>3, BelowIsWellFounded, WFMin
<1>5. d \in Time /\ MaxTime - d \in S
  BY <1>4 DEF Left
<1>6. ASSUME NEW c \in S PROVE c <= MaxTime - d
  <2>1. MaxTime - c \in Left /\ MaxTime - c \in Nat
    BY <1>2, <1>3
  <2>2. <<MaxTime - c, d>> \notin Below
    BY <1>4, <2>1
  <2>3. \A x, y \in Nat : x < y => <<x, y>> \in Below
    BY DEF Below
  <2>4. ~(MaxTime - c < d)
    BY <1>5, <2>1, <2>2, <2>3 DEF Time
  <2> QED
    BY <1>5, <2>4, BoundsAssumption DEF Time
<1>7. \E x \in S : \A y \in S : x >= y
  BY <1>5, <1>6
<1> QED
  BY <1>7, BoundsAssumption DEF Latest, Max, Time

(* So does a pair of numbers, and a least one. *)
LEMMA PairBounds ==
    ASSUME NEW a \in Nat, NEW b \in Nat
    PROVE  /\ Max({a, b}) \in {a, b} /\ a <= Max({a, b}) /\ b <= Max({a, b})
           /\ Min({a, b}) \in {a, b}
<1>1. \E x \in {a, b} : \A y \in {a, b} : x >= y
  BY SMT
<1>2. \E x \in {a, b} : \A y \in {a, b} : x <= y
  BY SMT
<1> QED
  BY <1>1, <1>2 DEF Max, Min

-----------------------------------------------------------------------------
(* What is due                                                             *)

(* Once a run, always an instant. *)
LEMMA SeenIsARun ==
    ASSUME TypeOK, NEW s \in Schedule
    PROVE  Seen(s) \in Run /\ last[s].due <= Seen(s).due
BY BoundsAssumption DEF TypeOK, Seen, Run, Time

(* A schedule's cursor is an instant past its last run and its last change. *)
LEMMA CursorIsPast ==
    ASSUME TypeOK, NEW s \in Schedule
    PROVE  /\ Cursor(s) \in Time
           /\ last[s].due <= Cursor(s) /\ updated[s] <= Cursor(s)
<1>1. Seen(s) \in Run /\ last[s].due <= Seen(s).due /\ last[s] \in Run
  BY SeenIsARun DEF TypeOK
<1>2. {updated[s], Seen(s).due} \in SUBSET Time
  BY <1>1 DEF TypeOK, Run
<1>3. /\ Latest({updated[s], Seen(s).due}) \in {updated[s], Seen(s).due}
      /\ updated[s] <= Latest({updated[s], Seen(s).due})
      /\ Seen(s).due <= Latest({updated[s], Seen(s).due})
  BY <1>2, LatestIsOne
<1> QED
  BY <1>1, <1>2, <1>3, BoundsAssumption DEF Cursor, Run, Time

(* What is due comes after the cursor, at one of the schedule's times or as  *)
(* the retry of a run the schedule wasn't changed since.                     *)
LEMMA DueComesAfter ==
    ASSUME TypeOK, NEW s \in Schedule
    PROVE  /\ Occurrence(s) \in Time
           /\ Occurrence(s) > 0 => /\ Cursor(s) < Occurrence(s)
                                   /\ Occurrence(s) \notin times[s] => s \notin since
<1> DEFINE S == {t \in times[s] : Cursor(s) < t /\ t <= now + Lead(s)}
<1>1. Cursor(s) \in Time /\ times[s] \subseteq Time
  BY CursorIsPast DEF TypeOK
<1>2. S \in SUBSET Time
  BY <1>1
<1>3. Latest(S) \in Time /\ (Latest(S) # 0 => Latest(S) \in S)
  <2>1. CASE S = {}
    BY <2>1, BoundsAssumption DEF Latest, Time
  <2>2. CASE S # {}
    BY <2>2, <1>2, LatestIsOne
  <2> QED
    BY <2>1, <2>2
<1>4. PendingRetry(s) \in Time /\ (PendingRetry(s) # 0 => s \notin since)
  BY SeenIsARun, BoundsAssumption DEF PendingRetry, Run, Time
<1>5. Occurrence(s) = IF /\ PendingRetry(s) > Cursor(s)
                         /\ Latest(S) < PendingRetry(s)
                         /\ PendingRetry(s) <= now + Lead(s)
                      THEN PendingRetry(s) ELSE Latest(S)
  BY DEF Occurrence
<1> HIDE DEF S
<1>6. CASE Occurrence(s) = PendingRetry(s) /\ PendingRetry(s) > Cursor(s)
  BY <1>1, <1>4, <1>6, BoundsAssumption DEF Time
<1>7. CASE Occurrence(s) = Latest(S)
  BY <1>1, <1>3, <1>7, BoundsAssumption DEF Time, S
<1> QED
  BY <1>5, <1>6, <1>7

-----------------------------------------------------------------------------
(* The steps of a job                                                      *)

JobStep ==
    \/ StartRestart \/ StartBackup \/ RunQuick
    \/ TurnedOff \/ Warn \/ WarnAgain \/ CountdownEnds \/ WaitIdle
    \/ TryOperation \/ OperationEnds \/ Interrupted

InJob == Steps \ {"first", "look", "begin"}
SameJob == job'.of = job.of /\ job'.due = job.due /\ job'.times = job.times

(* Ending a job leaves a job. *)
LEMMA EndsJobKept ==
    ASSUME job \in Job, NEW r \in Ends, EndsJob(r)
    PROVE  /\ pc' = "record" /\ job' \in Job /\ SameJob
           /\ job'.warned = job.warned /\ job'.result = r
BY DEF EndsJob, Job, SameJob

(* Going on with it does too. *)
LEMMA GoesOnKept ==
    ASSUME job \in Job, NEW step, NEW at \in Nat, NEW giveUp \in Nat,
           GoesOn(step, at, giveUp)
    PROVE  pc' = step /\ job' \in Job /\ SameJob /\ job'.warned = job.warned
<1>1. Cut(at) \in Time /\ Cut(giveUp) \in Time
  BY BoundsAssumption DEF Cut, Time
<1> QED
  BY <1>1 DEF GoesOn, Job, SameJob

(* A run that people put off tries again at an instant. *)
LEMMA PeoplePlayKept ==
    ASSUME TypeOK, job \in Job, PeoplePlay
    PROVE  /\ pc' = "record" /\ job' \in Job /\ SameJob
           /\ job'.warned = job.warned /\ job'.result = "playing"
<1>1. now \in Nat /\ job.due \in Nat
  BY BoundsAssumption DEF TypeOK, Job, Time
<1>2. Max({job.due, now}) \in Nat
  BY <1>1, PairBounds
<1>3. RetryAt \in Time
  BY <1>2, BoundsAssumption DEF RetryAt, Cut, Time
<1> QED
  BY <1>3 DEF PeoplePlay, Job, Ends, SameJob

(* Failures are counted. *)
LEMMA FaultsKept ==
    ASSUME TypeOK, Fault \/ Fails \/ UNCHANGED faults
    PROVE  faults' \in 0..MaxFaults
BY BoundsAssumption DEF TypeOK, Fault, Fails

(* A step of a job changes nothing but the job, where it is, what players *)
(* are told and how much failed.                                          *)
LEMMA JobKept ==
    ASSUME TypeOK, JobStep
    PROVE  /\ UNCHANGED Aside
           /\ pc \in InJob /\ pc' \in InJob
           /\ job \in Job /\ job' \in Job /\ SameJob
           /\ told' \in {"nothing", "warned", "now", "off"}
           /\ faults' \in 0..MaxFaults
<1> USE DEF TypeOK
<1>1. pc \in InJob
  BY DEF JobStep, InJob, StartRestart, StartBackup, RunQuick, TurnedOff, Warn, WarnAgain,
         CountdownEnds, WaitIdle, TryOperation, OperationEnds, Interrupted
<1>2. /\ job \in Job /\ job.of \in Schedule /\ now \in Nat
      /\ job.due \in Nat /\ job.at \in Nat /\ job.giveUp \in Nat
  BY <1>1, BoundsAssumption DEF InJob, Job, Time
<1>3. /\ Lead(job.of) \in Nat /\ Grace(job.of) \in Nat
      /\ BusyRetry \in Nat /\ BusyGiveUp \in Nat /\ Notice \in Nat
  <2>1. Lead(job.of) \in Nat /\ Grace(job.of) \in Nat
    BY <1>2, ScheduleAssumption
  <2>2. Min({Lead(job.of), MinNotice}) \in {Lead(job.of), MinNotice}
    BY <2>1, BoundsAssumption, PairBounds
  <2> QED
    BY <2>1, <2>2, BoundsAssumption DEF Notice
<1> HIDE DEF TypeOK
<1>4. UNCHANGED Aside
  BY DEF JobStep, StartRestart, StartBackup, RunQuick, TurnedOff, Warn, WarnAgain,
         CountdownEnds, WaitIdle, TryOperation, OperationEnds, Interrupted
<1>5. CalledOff \/ UNCHANGED told => told' \in {"nothing", "warned", "now", "off"}
  BY DEF CalledOff, TypeOK
<1>6. \A r \in Ends : EndsJob(r) => pc' = "record" /\ job' \in Job /\ SameJob
  BY <1>2, EndsJobKept
<1>7. \A step, at, giveUp : at \in Nat /\ giveUp \in Nat /\ GoesOn(step, at, giveUp)
        => pc' = step /\ job' \in Job /\ SameJob
  BY <1>2, GoesOnKept
<1>8. PeoplePlay => pc' = "record" /\ job' \in Job /\ SameJob
  BY <1>2, PeoplePlayKept
<1>9. UNCHANGED job => job' \in Job /\ SameJob
  BY <1>2 DEF SameJob
<1>10. Fault \/ Fails \/ UNCHANGED faults => faults' \in 0..MaxFaults
  BY FaultsKept
<1>11. {"error", "offline", "nobody", "succeeded", "off", "busy", "interrupted"} \subseteq Ends
  BY DEF Ends
<1>12. pc' \in InJob /\ job' \in Job /\ SameJob
  <2>1. CASE StartRestart
    <3>1. Max({job.due, now + Notice}) \in Nat
      BY <1>2, <1>3, PairBounds
    <3> QED
      BY <2>1, <3>1, <1>2, <1>3, <1>6, <1>7, <1>8, <1>11 DEF StartRestart, InJob, Steps
  <2>2. CASE StartBackup
    BY <2>2, <1>2, <1>3, <1>7, <1>8 DEF StartBackup, InJob, Steps
  <2>3. CASE RunQuick
    BY <2>3, <1>6, <1>11 DEF RunQuick, InJob, Steps
  <2>4. CASE TurnedOff
    BY <2>4, <1>6, <1>11 DEF TurnedOff, InJob, Steps
  <2>5. CASE Warn
    <3> DEFINE at == Cut(now + 1)
               later == [job EXCEPT !.giveUp = at]
    <3>1. at \in Time
      BY <1>2, BoundsAssumption DEF Cut, Time
    <3> HIDE DEF at
    <3>2. /\ later \in Job /\ later.of = job.of /\ later.due = job.due
          /\ later.times = job.times
      BY <3>1, <1>2 DEF Job
    <3>3. CASE pc' = "count" /\ job' = later
      BY <3>2, <3>3 DEF InJob, Steps, SameJob
    <3>4. CASE pc' = "count" /\ job' = [job EXCEPT !.warned = TRUE, !.giveUp = at]
      <4>1. /\ job'.of = job.of /\ job'.due = job.due /\ job'.times = job.times
            /\ job' \in Job
        BY <3>1, <3>4, <1>2 DEF Job
      <4> QED
        BY <3>4, <4>1 DEF InJob, Steps, SameJob
    <3>5. CASE EndsJob("offline")
      BY <3>5, <1>6, <1>11 DEF InJob, Steps
    <3>6. CASE GoesOn("idle", now, now + BusyGiveUp)
      BY <3>6, <1>2, <1>3, <1>7 DEF InJob, Steps
    <3> QED
      BY <2>5, <3>3, <3>4, <3>5, <3>6 DEF Warn, at
  <2>6. CASE WarnAgain
    BY <2>6, <1>9 DEF WarnAgain, InJob, Steps
  <2>7. CASE CountdownEnds
    BY <2>7, <1>2, <1>3, <1>6, <1>7, <1>11 DEF CountdownEnds, InJob, Steps
  <2>8. CASE WaitIdle
    BY <2>8, <1>2, <1>3, <1>6, <1>7, <1>9, <1>11 DEF WaitIdle, InJob, Steps
  <2>9. CASE TryOperation
    BY <2>9, <1>2, <1>3, <1>6, <1>7, <1>9, <1>11 DEF TryOperation, InJob, Steps
  <2>10. CASE OperationEnds
    BY <2>10, <1>6, <1>11 DEF OperationEnds, InJob, Steps
  <2>11. CASE Interrupted
    BY <2>11, <1>6, <1>11 DEF Interrupted, InJob, Steps
  <2> QED
    BY <2>1, <2>2, <2>3, <2>4, <2>5, <2>6, <2>7, <2>8, <2>9, <2>10, <2>11 DEF JobStep
<1>13. told' \in {"nothing", "warned", "now", "off"}
  <2>1. told \in {"nothing", "warned", "now", "off"}
    BY DEF TypeOK
  <2> QED
    BY <2>1, <1>5 DEF JobStep, StartRestart, StartBackup, RunQuick, TurnedOff, Warn, WarnAgain,
         CountdownEnds, WaitIdle, TryOperation, OperationEnds, Interrupted
<1>14. faults' \in 0..MaxFaults
  BY <1>10 DEF JobStep, StartRestart, StartBackup, RunQuick, TurnedOff, Warn, WarnAgain,
         CountdownEnds, WaitIdle, TryOperation, OperationEnds, Interrupted
<1> QED
  BY <1>1, <1>2, <1>4, <1>12, <1>13, <1>14

-----------------------------------------------------------------------------
(* The type of the state                                                   *)

(* An edit that isn't saved is of a schedule that is there. *)
EditMade ==
    \/ edit = NoEdit
    \/ \E s \in Schedule : /\ edit.of = {s} /\ enabled[s] # "gone"
                           /\ edit.to \in {"on", "off"}

TypeInv == TypeOK /\ EditMade

(* Recording runs of several schedules changes only theirs. *)
LEMMA RecordAllKept ==
    ASSUME TypeOK, NEW run, DOMAIN run \subseteq Schedule,
           \A s \in DOMAIN run : run[s] \in Run, RecordAll(run)
    PROVE  /\ runs' \in [Schedule -> Run] /\ last' \in [Schedule -> Run]
           /\ faults' \in 0..MaxFaults
           /\ \A s \in Schedule :
                last'[s] = last[s] \/ (s \in DOMAIN run /\ last'[s] = run[s])
<1>1. faults' \in 0..MaxFaults
  BY FaultsKept DEF RecordAll
<1>2. runs' \in [Schedule -> Run]
  BY DEF RecordAll, TypeOK
<1>3. PICK lost \in SUBSET DOMAIN run :
        last' = [s \in Schedule |-> IF s \in DOMAIN run \ lost THEN run[s] ELSE last[s]]
  BY DEF RecordAll
<1>4. last' \in [Schedule -> Run]
  BY <1>3 DEF TypeOK
<1> QED
  BY <1>1, <1>2, <1>3, <1>4

(* Recording one changes only its own. *)
LEMMA StoredKept ==
    ASSUME TypeOK, NEW s \in Schedule, NEW run \in Run
    PROVE  /\ Stored(s, run) \in [Schedule -> Run]
           /\ \A x \in Schedule : Stored(s, run)[x] =
                IF x = s /\ enabled[s] # "gone" THEN run ELSE last[x]
BY DEF Stored, TypeOK

(* The runs that are recorded are runs. *)
LEMMA EndedIsARun ==
    ASSUME NEW due \in Time, NEW r \in Ends \union {"never", "running"}
    PROVE  Ended(due, r) \in Run /\ Ended(due, r).due = due
BY BoundsAssumption DEF Ended, Run, Time

LEMMA TypeInit == Init => TypeInv
<1> SUFFICES ASSUME Init PROVE TypeInv
  OBVIOUS
<1>1. 0 \in Time /\ 0 \in 0..MaxEdits /\ 0 \in 0..MaxFaults
  BY BoundsAssumption DEF Time
<1>2. NoRun \in Run
  BY <1>1, EndedIsARun DEF NoRun
<1>3. \A s \in Schedule : Timings(s) \subseteq SUBSET Time
  BY ScheduleAssumption
<1>4. times \in [Schedule -> SUBSET Time]
  BY <1>3 DEF Init
<1>5. edit = NoEdit /\ NoEdit \in Edit
  BY DEF Init, NoEdit, Edit
<1>6. pc = "first" /\ pc \in Steps
  BY DEF Init, Steps
<1> QED
  BY <1>1, <1>2, <1>4, <1>5, <1>6 DEF Init, TypeInv, TypeOK, EditMade

(* Every step keeps it. *)
LEMMA TypeStep == TypeInv /\ [Next]_vars => TypeInv'
<1> SUFFICES ASSUME TypeInv, [Next]_vars PROVE TypeInv'
  OBVIOUS
<1> USE DEF TypeInv
<1>1. ASSUME MarkInterrupted PROVE TypeInv'
  <2> DEFINE left == {s \in Schedule : enabled[s] # "gone" /\ last[s].result = "running"}
             run == [s \in left |-> Ended(last[s].due, "interrupted")]
  <2>1. \A s \in left : run[s] \in Run
    BY EndedIsARun DEF TypeOK, Run, Ends
  <2>2. RecordAll(run)
    BY <1>1 DEF MarkInterrupted
  <2>3. DOMAIN run \subseteq Schedule /\ \A s \in DOMAIN run : run[s] \in Run
    BY <2>1
  <2> HIDE DEF run
  <2>4. /\ runs' \in [Schedule -> Run] /\ last' \in [Schedule -> Run]
        /\ faults' \in 0..MaxFaults
    BY <2>2, <2>3, RecordAllKept
  <2> QED
    BY <1>1, <2>4 DEF MarkInterrupted, TypeOK, EditMade, Steps, history
<1>2. ASSUME Look PROVE TypeInv'
  <2> DEFINE missed == Found \ DueNow
             run == [s \in missed |-> Ended(Occurrence(s), "missed")]
  <2>1. \A s \in missed : run[s] \in Run
    BY DueComesAfter, EndedIsARun DEF Found, Ends
  <2>2. RecordAll(run)
    BY <1>2 DEF Look
  <2>3. DOMAIN run \subseteq Schedule /\ \A s \in DOMAIN run : run[s] \in Run
    BY <2>1 DEF Found
  <2> HIDE DEF run
  <2>4. /\ runs' \in [Schedule -> Run] /\ last' \in [Schedule -> Run]
        /\ faults' \in 0..MaxFaults
    BY <2>2, <2>3, RecordAllKept
  <2>5. pc' \in Steps /\ (pc' \notin {"first", "look"} => pc' = "begin" /\ job' \in Job)
    <3>1. CASE UNCHANGED <<pc, job>>
      BY <1>2, <3>1 DEF Look, TypeOK
    <3>2. ASSUME NEW s \in DueNow, pc' = "begin",
                 job' = [of |-> s, times |-> times[s], due |-> Occurrence(s), at |-> now,
                         giveUp |-> now, warned |-> FALSE, result |-> "running", retry |-> 0]
          PROVE  pc' \in Steps /\ (pc' \notin {"first", "look"} => pc' = "begin" /\ job' \in Job)
      <4>1. s \in Schedule /\ Occurrence(s) \in Time
        BY DueComesAfter DEF DueNow, Found
      <4> QED
        BY <3>2, <4>1, BoundsAssumption DEF TypeOK, Job, Steps, Time
    <3> QED
      BY <1>2, <3>1, <3>2 DEF Look
  <2> QED
    BY <1>2, <2>4, <2>5 DEF Look, TypeOK, EditMade, history
<1>3. ASSUME Begin PROVE TypeInv'
  <2>1. job \in Job /\ job.of \in Schedule /\ job.due \in Time
    BY <1>3 DEF Begin, TypeOK, Job
  <2>2. /\ Ended(job.due, "running") \in Run /\ Ended(job.due, "error") \in Run
    BY <2>1, EndedIsARun DEF Ends
  <2>3. Stored(job.of, Ended(job.due, "running")) \in [Schedule -> Run]
    BY <2>1, <2>2, StoredKept
  <2>4. CASE pc' = "start"
    <3>1. /\ runs' = [runs EXCEPT ![job.of] = Ended(job.due, "running")]
          /\ last' = Stored(job.of, Ended(job.due, "running"))
          /\ UNCHANGED <<job, faults>> /\ begun' = [begun EXCEPT ![job.of] = job.due]
      BY <1>3, <2>4 DEF Begin
    <3>2. /\ runs' \in [Schedule -> Run] /\ runs'[job.of] = Ended(job.due, "running")
          /\ begun' \in [Schedule -> Time]
      BY <3>1, <2>1, <2>2 DEF TypeOK
    <3> QED
      BY <1>3, <2>1, <2>3, <2>4, <3>1, <3>2 DEF Begin, TypeOK, EditMade, Steps, Ended
  <2>5. CASE pc' = "look"
    <3>1. /\ Fault /\ runs' = [runs EXCEPT ![job.of] = Ended(job.due, "error")]
          /\ last' \in {last, Stored(job.of, Ended(job.due, "running"))}
          /\ UNCHANGED begun
      BY <1>3, <2>5 DEF Begin
    <3>2. runs' \in [Schedule -> Run] /\ last' \in [Schedule -> Run]
      BY <3>1, <2>1, <2>2, <2>3 DEF TypeOK
    <3>3. faults' \in 0..MaxFaults
      BY <3>1, FaultsKept
    <3> QED
      BY <1>3, <2>5, <3>1, <3>2, <3>3 DEF Begin, TypeOK, EditMade, Steps
  <2> QED
    BY <1>3, <2>4, <2>5 DEF Begin
<1>4. ASSUME Record PROVE TypeInv'
  <2> DEFINE run == [due |-> job.due, result |-> job.result, retry |-> job.retry]
  <2>1. job \in Job /\ job.of \in Schedule
    BY <1>4 DEF Record, TypeOK, Job
  <2>2. run \in Run
    BY <2>1 DEF Job, Run
  <2>3. /\ runs' = [runs EXCEPT ![job.of] = run]
        /\ \/ last' = Stored(job.of, run) /\ UNCHANGED faults
           \/ Fault /\ UNCHANGED last
    BY <1>4 DEF Record
  <2> HIDE DEF run
  <2>4. runs' \in [Schedule -> Run] /\ last' \in [Schedule -> Run] /\ faults' \in 0..MaxFaults
    BY <2>1, <2>2, <2>3, StoredKept, FaultsKept DEF TypeOK
  <2>5. \/ edit' = edit
        \/ edit' = [edit EXCEPT !.after = FALSE] /\ edit.of # {}
    <3>1. CASE edit.of = {job.of}
      <4>1. edit' = [edit EXCEPT !.after = FALSE]
        BY <1>4, <3>1, Zenon DEF Record
      <4> QED
        BY <3>1, <4>1, Zenon
    <3>2. CASE edit.of # {job.of}
      BY <1>4, <3>2, Zenon DEF Record
    <3> QED
      BY <3>1, <3>2
  <2>6. edit \in Edit
    BY DEF TypeOK
  <2>7. edit' \in Edit /\ (edit' # edit => edit.of # {} /\ edit'.of = edit.of /\ edit'.to = edit.to)
    BY <2>5, <2>6 DEF Edit
  <2>8. EditMade'
    <3>1. CASE edit' = edit
      BY <1>4, <3>1 DEF Record, EditMade, NoEdit
    <3>2. CASE edit' # edit
      BY <1>4, <2>7, <3>2 DEF Record, EditMade, NoEdit
    <3> QED
      BY <3>1, <3>2
  <2> QED
    BY <1>4, <2>4, <2>7, <2>8 DEF Record, TypeOK, Steps
<1>5. ASSUME JobStep PROVE TypeInv'
  <2>1. /\ UNCHANGED Aside /\ pc \in InJob /\ pc' \in InJob
        /\ job \in Job /\ job' \in Job /\ SameJob
        /\ told' \in {"nothing", "warned", "now", "off"} /\ faults' \in 0..MaxFaults
    BY <1>5, JobKept
  <2>2. runs'[job'.of] = Ended(job'.due, "running")
    BY <2>1 DEF TypeOK, InJob, SameJob, Aside, Ended
  <2> QED
    BY <2>1, <2>2 DEF TypeOK, EditMade, InJob, Aside, stored, history, Ended
<1>6. ASSUME Down, faults' \in 0..MaxFaults PROVE TypeInv'
  <2>1. NoRun \in Run
    BY EndedIsARun, BoundsAssumption DEF NoRun, Time
  <2>2. edit' = NoEdit /\ NoEdit \in Edit
    BY <1>6 DEF Down, NoEdit, Edit
  <2> QED
    BY <1>6, <2>1, <2>2 DEF Down, TypeOK, EditMade, Steps, stored, history
<1>7. ASSUME AgentStops PROVE TypeInv'
  <2>1. faults' \in 0..MaxFaults
    BY <1>7, FaultsKept DEF AgentStops
  <2> QED
    BY <1>7, <2>1 DEF AgentStops, TypeOK, EditMade, stored, history
<1>8. ASSUME AgentStarts PROVE TypeInv'
  BY <1>8 DEF AgentStarts, TypeOK, EditMade, stored, history, counts
<1>9. ASSUME NEW s \in Schedule, NEW to \in {"on", "off"}, NEW set \in Timings(s),
             EditReads(s, to, set)
      PROVE  TypeInv'
  <2>1. set \in SUBSET Time
    BY ScheduleAssumption
  <2>2. edit' = [of |-> {s}, to |-> to, times |-> set, after |-> TRUE] /\ edit' \in Edit
    BY <1>9, <2>1 DEF EditReads, Edit
  <2>3. edits' \in 0..MaxEdits
    BY <1>9, BoundsAssumption DEF EditReads, TypeOK
  <2> QED
    BY <1>9, <2>2, <2>3 DEF EditReads, TypeOK, EditMade, stored, history
<1>10. ASSUME NEW s \in Schedule, EditSaves(s) PROVE TypeInv'
  <2>1. edit.to \in {"on", "off"} /\ edit.times \in SUBSET Time
    <3>1. edit \in Edit /\ edit.of = {s} /\ EditMade
      BY <1>10 DEF EditSaves, TypeOK
    <3>2. edit # NoEdit
      BY <3>1 DEF NoEdit
    <3>3. edit.to \in {"on", "off"}
      BY <3>1, <3>2 DEF EditMade
    <3>4. edit.times \in SUBSET Time
      BY <3>1 DEF Edit
    <3> QED
      BY <3>3, <3>4
  <2>2. edit' = NoEdit /\ NoEdit \in Edit
    BY <1>10 DEF EditSaves, NoEdit, Edit
  <2>3. last' \in [Schedule -> Run]
    <3>1. last[s] \in Run /\ 0 \in Time
      BY BoundsAssumption DEF TypeOK, Time
    <3>2. [last[s] EXCEPT !.retry = 0] \in Run
      BY <3>1 DEF Run
    <3>3. last' = [last EXCEPT ![s] = [last[s] EXCEPT !.retry = 0]]
      BY <1>10 DEF EditSaves
    <3> QED
      BY <3>2, <3>3 DEF TypeOK
  <2>4. /\ enabled' \in [Schedule -> {"on", "off", "gone"}]
        /\ times' \in [Schedule -> SUBSET Time] /\ updated' \in [Schedule -> Time]
    BY <1>10, <2>1 DEF EditSaves, TypeOK
  <2>5. since' \subseteq Schedule /\ edited' \subseteq Schedule
    BY <1>10 DEF EditSaves, TypeOK
  <2> QED
    BY <1>10, <2>2, <2>3, <2>4, <2>5 DEF EditSaves, TypeOK, EditMade, counts
<1>11. ASSUME NEW s \in Schedule, Delete(s) PROVE TypeInv'
  <2>1. edits' \in 0..MaxEdits
    BY <1>11, BoundsAssumption DEF Delete, TypeOK
  <2> QED
    BY <1>11, <2>1 DEF Delete, TypeOK, EditMade
<1>12. ASSUME Tick PROVE TypeInv'
  <2>1. now' \in Time
    BY <1>12, BoundsAssumption DEF Tick, TypeOK, Time
  <2> QED
    BY <1>12, <2>1 DEF Tick, TypeOK, EditMade, stored, history, counts
<1>13. ASSUME UNCHANGED vars PROVE TypeInv'
  BY <1>13 DEF vars, TypeOK, EditMade
<1>14. ASSUME AgentStopped \/ AgentDies PROVE TypeInv'
  BY <1>14, <1>6, FaultsKept DEF AgentStopped, AgentDies
<1> QED
  BY <1>1, <1>2, <1>3, <1>4, <1>5, <1>7, <1>8, <1>9, <1>10, <1>11, <1>12, <1>13, <1>14
     DEF Next, RunnerStep, JobStep

(* In every state reached, whatever the schedules, the times and the bounds, *)
(* the schedules, their runs, the job of the runner and the edit that isn't  *)
(* saved yet have their types, and a run that began is on record as running. *)
THEOREM ScheduleTypeCorrect == Spec => []TypeOK
<1>1. TypeInv => TypeOK
  BY DEF TypeInv
<1> QED
  BY <1>1, TypeInit, TypeStep, PTL DEF Spec

-----------------------------------------------------------------------------
(* Nothing begins twice                                                    *)

(* What began is on record, and the job that waits to begin comes after it. *)
BegunInv ==
    /\ TypeInv
    /\ \A s \in Schedule : enabled[s] # "gone" => begun[s] <= last[s].due
    /\ pc = "begin" => begun[job.of] < job.due
    /\ pc \in InJob => begun[job.of] = job.due

LEMMA BegunInit == Init => BegunInv
BY TypeInit, EndedIsARun, BoundsAssumption
   DEF Init, BegunInv, InJob, NoRun, Ended, Time

LEMMA BegunStep == BegunInv /\ [Next]_vars => BegunInv'
<1> SUFFICES ASSUME BegunInv, [Next]_vars PROVE BegunInv'
  OBVIOUS
<1> DEFINE Begun == /\ \A s \in Schedule : enabled[s] # "gone" => begun[s] <= last[s].due
                    /\ pc = "begin" => begun[job.of] < job.due
                    /\ pc \in InJob => begun[job.of] = job.due
<1>t. TypeOK /\ TypeInv /\ Begun
  BY DEF BegunInv, TypeInv
<1>n. \A s \in Schedule : /\ last[s].due \in Nat /\ begun[s] \in Nat
                          /\ last[s] \in Run
  BY <1>t, BoundsAssumption DEF TypeOK, Run, Time
<1> SUFFICES Begun'
  BY <1>t, TypeStep DEF BegunInv
<1>1. ASSUME MarkInterrupted PROVE Begun'
  <2> DEFINE left == {s \in Schedule : enabled[s] # "gone" /\ last[s].result = "running"}
             run == [s \in left |-> Ended(last[s].due, "interrupted")]
  <2>1. \A s \in left : run[s] \in Run /\ run[s].due = last[s].due
    BY <1>n, EndedIsARun DEF Run, Ends
  <2>2. RecordAll(run)
    BY <1>1 DEF MarkInterrupted
  <2>3. DOMAIN run = left /\ left \subseteq Schedule
    OBVIOUS
  <2> HIDE DEF run
  <2>4. \A s \in Schedule : last'[s].due = last[s].due
    BY <1>t, <2>1, <2>2, <2>3, RecordAllKept
  <2> QED
    BY <1>1, <1>t, <2>4 DEF MarkInterrupted, history, InJob
<1>2. ASSUME Look PROVE Begun'
  <2> DEFINE missed == Found \ DueNow
             run == [s \in missed |-> Ended(Occurrence(s), "missed")]
  <2>1. \A s \in Found : /\ s \in Schedule /\ enabled[s] = "on"
                         /\ Occurrence(s) \in Time /\ last[s].due < Occurrence(s)
    <3> SUFFICES ASSUME NEW s \in Found
                 PROVE  /\ s \in Schedule /\ enabled[s] = "on"
                        /\ Occurrence(s) \in Time /\ last[s].due < Occurrence(s)
      OBVIOUS
    <3>1. s \in Schedule /\ enabled[s] = "on" /\ Occurrence(s) > 0
      BY DEF Found
    <3>2. /\ Occurrence(s) \in Time /\ Cursor(s) < Occurrence(s)
          /\ Cursor(s) \in Time /\ last[s].due <= Cursor(s)
      BY <1>t, <3>1, DueComesAfter, CursorIsPast
    <3> QED
      BY <1>n, <3>1, <3>2, BoundsAssumption DEF Time
  <2>2. \A s \in missed : run[s] \in Run /\ run[s].due = Occurrence(s)
    BY <2>1, EndedIsARun DEF Ends
  <2>3. RecordAll(run)
    BY <1>2 DEF Look
  <2>4. DOMAIN run = missed /\ missed \subseteq Schedule
    BY <2>1
  <2> HIDE DEF run
  <2>5. \A s \in Schedule : last[s].due <= last'[s].due
    <3>1. \A s \in Schedule : last'[s] = last[s] \/ (s \in missed /\ last'[s] = run[s])
      BY <1>t, <2>2, <2>3, <2>4, RecordAllKept
    <3>2. \A s \in missed : last[s].due <= run[s].due
      BY <1>n, <2>1, <2>2, BoundsAssumption DEF Time
    <3> QED
      BY <1>n, <3>1, <3>2
  <2>6. \A s \in Schedule : enabled'[s] # "gone" => begun'[s] <= last'[s].due
    <3>1. \A s \in Schedule : last'[s] \in Run
      BY <1>t, TypeStep DEF TypeInv, TypeOK
    <3> QED
      BY <1>2, <1>n, <1>t, <2>5, <3>1, BoundsAssumption DEF Look, history, Run, Time
  <2>7. CASE UNCHANGED <<pc, job>>
    BY <1>2, <1>t, <2>6, <2>7 DEF Look, history
  <2>8. ASSUME NEW s \in DueNow, pc' = "begin", job'.of = s, job'.due = Occurrence(s)
        PROVE  Begun'
    <3>1. /\ s \in Schedule /\ begun[s] <= last[s].due
          /\ last[s].due < Occurrence(s) /\ Occurrence(s) \in Nat
      BY <1>t, <2>1, BoundsAssumption DEF DueNow, Time
    <3>2. begun'[job'.of] < job'.due
      BY <1>2, <1>n, <2>8, <3>1 DEF Look, history
    <3> QED
      BY <2>6, <2>8, <3>2 DEF InJob
  <2>9. \/ UNCHANGED <<pc, job>>
        \/ \E s \in DueNow : pc' = "begin" /\ job'.of = s /\ job'.due = Occurrence(s)
    BY <1>2 DEF Look
  <2> QED
    BY <2>7, <2>8, <2>9
<1>3. ASSUME Begin PROVE Begun'
  <2>1. job.of \in Schedule /\ job.due \in Time /\ begun[job.of] < job.due
    BY <1>3, <1>t DEF Begin, TypeOK, Job
  <2>2. Ended(job.due, "running") \in Run /\ Ended(job.due, "running").due = job.due
    BY <2>1, EndedIsARun
  <2>3. \A x \in Schedule : Stored(job.of, Ended(job.due, "running"))[x] =
          IF x = job.of /\ enabled[job.of] # "gone"
          THEN Ended(job.due, "running") ELSE last[x]
    BY <1>t, <2>1, <2>2, StoredKept
  <2>4. CASE /\ last' = Stored(job.of, Ended(job.due, "running")) /\ UNCHANGED job
             /\ pc' = "start" /\ begun' = [begun EXCEPT ![job.of] = job.due]
    <3>1. \A x \in Schedule : enabled[x] # "gone" => begun'[x] <= last'[x].due
      BY <1>n, <1>t, <2>1, <2>2, <2>3, <2>4, BoundsAssumption DEF TypeOK, Time
    <3>2. begun'[job'.of] = job'.due
      BY <1>t, <2>1, <2>4 DEF TypeOK
    <3> QED
      BY <1>3, <2>4, <3>1, <3>2 DEF Begin
  <2>5. CASE /\ last' \in {last, Stored(job.of, Ended(job.due, "running"))}
             /\ pc' = "look" /\ UNCHANGED begun
    <3>1. \A x \in Schedule : enabled[x] # "gone" => begun[x] <= last'[x].due
      BY <1>n, <1>t, <2>1, <2>2, <2>3, <2>5, BoundsAssumption DEF Time
    <3> QED
      BY <1>3, <2>5, <3>1 DEF Begin, InJob
  <2> QED
    BY <1>3, <2>4, <2>5 DEF Begin
<1>4. ASSUME Record PROVE Begun'
  <2> DEFINE run == [due |-> job.due, result |-> job.result, retry |-> job.retry]
  <2>1. job \in Job /\ job.of \in Schedule /\ begun[job.of] = job.due
    BY <1>4, <1>t DEF Record, TypeOK, Job, InJob, Steps
  <2>2. run \in Run /\ run.due = job.due
    BY <2>1 DEF Job, Run
  <2>3. last' = Stored(job.of, run) \/ UNCHANGED last
    BY <1>4 DEF Record
  <2> HIDE DEF run
  <2>4. \A x \in Schedule : Stored(job.of, run)[x] =
          IF x = job.of /\ enabled[job.of] # "gone" THEN run ELSE last[x]
    BY <1>t, <2>1, <2>2, StoredKept
  <2>5. \A x \in Schedule : enabled[x] # "gone" => begun[x] <= last'[x].due
    BY <1>n, <1>t, <2>1, <2>2, <2>3, <2>4
  <2> QED
    BY <1>4, <2>5 DEF Record, InJob
<1>5. ASSUME JobStep PROVE Begun'
  <2>1. UNCHANGED Aside /\ pc \in InJob /\ pc' \in InJob /\ SameJob
    BY <1>5, <1>t, JobKept
  <2> QED
    BY <1>t, <2>1 DEF Aside, stored, history, SameJob, InJob
<1>6. ASSUME Down PROVE Begun'
  BY <1>6, <1>t DEF Down, stored, history, InJob
<1>7. ASSUME AgentStops \/ AgentStarts \/ Tick \/ UNCHANGED vars PROVE Begun'
  BY <1>7, <1>t DEF AgentStops, AgentStarts, Tick, vars, stored, history
<1>8. ASSUME NEW s \in Schedule, NEW to \in {"on", "off"}, NEW set \in Timings(s),
             EditReads(s, to, set)
      PROVE  Begun'
  BY <1>8, <1>t DEF EditReads, stored, history
<1>9. ASSUME NEW s \in Schedule, EditSaves(s) PROVE Begun'
  <2>1. \A x \in Schedule : last'[x].due = last[x].due
    <3>1. last' = [last EXCEPT ![s] = [last[s] EXCEPT !.retry = 0]]
      BY <1>9 DEF EditSaves
    <3>2. [last[s] EXCEPT !.retry = 0].due = last[s].due
      BY <1>n DEF Run
    <3> QED
      BY <1>t, <3>1, <3>2 DEF TypeOK
  <2>2. enabled[s] # "gone"
    BY <1>9, <1>t DEF EditSaves, TypeInv, EditMade, NoEdit
  <2>3. \A x \in Schedule : enabled'[x] # "gone" => enabled[x] # "gone"
    BY <1>9, <1>t, <2>2 DEF EditSaves, TypeOK
  <2> QED
    BY <1>9, <1>t, <2>1, <2>3 DEF EditSaves, counts
<1>10. ASSUME NEW s \in Schedule, Delete(s) PROVE Begun'
  <2>1. \A x \in Schedule : enabled'[x] # "gone" => enabled[x] # "gone"
    BY <1>10, <1>t DEF Delete, TypeOK
  <2> QED
    BY <1>10, <1>t, <2>1 DEF Delete
<1> QED
  BY <1>1, <1>2, <1>3, <1>4, <1>5, <1>6, <1>7, <1>8, <1>9, <1>10
     DEF Next, RunnerStep, JobStep, AgentStopped, AgentDies

(* However runs fail, stop, die, are retried or edited, and with every       *)
(* window open, a schedule never begins an occurrence that it or a later one *)
(* of it began already.                                                      *)
THEOREM RunsBeginOnce == Spec => RunsOnce
<1>1. BegunInv /\ [Next]_vars => [Begins => job.due > begun[job.of]]_vars
  BY BoundsAssumption DEF BegunInv, TypeInv, TypeOK, Begins, Job, Time
<1> QED
  BY <1>1, BegunInit, BegunStep, PTL DEF Spec, RunsOnce

-----------------------------------------------------------------------------
(* Players are told                                                        *)

(* Only a restart warns players, and that it warned them is on record in its *)
(* job.                                                                      *)
Telling ==
    /\ pc \notin InJob \/ pc = "start" => told = "nothing"
    /\ pc \in InJob /\ Kind(job.of) # "restart"
         => told \notin {"warned", "now"} /\ pc \notin {"warn", "count", "idle"}
    /\ pc \in InJob /\ told \in {"warned", "now"} => job.warned
    /\ PlayersTold

ToldInv == TypeInv /\ Telling

CommandsArrive == "lostCommand" \notin Windows

LEMMA ToldInit == Init => ToldInv
BY TypeInit DEF Init, ToldInv, Telling, InJob, PlayersTold

(* A job's steps keep it. *)
LEMMA JobTells ==
    ASSUME CommandsArrive, ToldInv, JobStep
    PROVE  Telling'
<1>1. TypeOK /\ Telling
  BY DEF ToldInv, TypeInv
<1>2. /\ UNCHANGED Aside /\ pc \in InJob /\ pc' \in InJob
      /\ job \in Job /\ job' \in Job /\ SameJob
  BY <1>1, JobKept
<1>3. ~Open("lostCommand")
  BY DEF CommandsArrive, Open
<1>4. job.of \in Schedule /\ job'.of = job.of
  BY <1>2 DEF Job, SameJob
<1>5. \A r \in Ends : EndsJob(r) => /\ pc' = "record" /\ job'.warned = job.warned
                                    /\ job'.result = r
  BY <1>2, EndsJobKept
<1>6. {"error", "offline", "nobody", "succeeded", "off", "busy", "interrupted"} \subseteq Ends
  BY DEF Ends
<1>7. \A step, at, giveUp : GoesOn(step, at, giveUp) => pc' = step /\ job'.warned = job.warned
  BY <1>2 DEF GoesOn, Job
<1>8. PeoplePlay => pc' = "record" /\ job'.warned = job.warned
  BY <1>1, <1>2, PeoplePlayKept
<1>9. CalledOff => (job.warned /\ told' = "off") \/ (~job.warned /\ told' = told)
  BY <1>3 DEF CalledOff
<1> DEFINE Tells == /\ pc' # "start"
                    /\ Kind(job.of) # "restart"
                         => /\ told' \notin {"warned", "now"}
                            /\ pc' \notin {"warn", "count", "idle"}
                    /\ told' \in {"warned", "now"} => job'.warned
                    /\ PlayersTold'
<1> SUFFICES Tells
  BY <1>2, <1>4 DEF Telling, InJob
<1>10. CASE StartRestart
  <2>1. told' = "nothing" /\ Kind(job.of) = "restart"
    BY <1>1, <1>10 DEF StartRestart, Telling
  <2> QED
    BY <1>10, <2>1, <1>5, <1>6, <1>7, <1>8 DEF StartRestart, PlayersTold
<1>11. CASE StartBackup
  <2>1. told' = "nothing"
    BY <1>1, <1>11 DEF StartBackup, Telling
  <2> QED
    BY <1>11, <2>1, <1>7, <1>8 DEF StartBackup, PlayersTold
<1>12. CASE RunQuick
  <2>1. told' = "nothing"
    BY <1>1, <1>12 DEF RunQuick, Telling
  <2> QED
    BY <1>12, <2>1, <1>5, <1>6 DEF RunQuick, PlayersTold
<1>13. CASE TurnedOff
  <2>1. Kind(job.of) = "restart"
    BY <1>1, <1>2, <1>13 DEF TurnedOff, Telling
  <2> QED
    BY <1>1, <1>2, <1>13, <2>1, <1>5, <1>6, <1>9 DEF TurnedOff, PlayersTold, Telling
<1>14. CASE Warn
  <2>1. Kind(job.of) = "restart" /\ pc = "warn"
    BY <1>1, <1>2, <1>14 DEF Warn, Telling
  <2>2. CASE EndsJob("offline") /\ UNCHANGED told
    BY <1>1, <1>2, <2>1, <2>2, <1>5, <1>6 DEF Telling, PlayersTold
  <2>3. CASE told' = "nothing" /\ GoesOn("idle", now, now + BusyGiveUp)
    BY <2>1, <2>3, <1>7 DEF PlayersTold
  <2>4. CASE /\ pc' = "count"
             /\ job' = [job EXCEPT !.warned = TRUE, !.giveUp = Cut(now + 1)]
    <3>1. job'.warned
      BY <1>2, <2>4 DEF Job
    <3> QED
      BY <2>1, <2>4, <3>1 DEF PlayersTold
  <2>5. CASE /\ pc' = "count" /\ job' = [job EXCEPT !.giveUp = Cut(now + 1)]
             /\ told' = told
    <3>1. job'.warned = job.warned
      BY <1>2, <2>5 DEF Job
    <3> QED
      BY <1>1, <1>2, <2>1, <2>5, <3>1 DEF PlayersTold, Telling
  <2> QED
    BY <1>3, <1>14, <2>2, <2>3, <2>4, <2>5 DEF Warn
<1>15. CASE WarnAgain
  BY <1>1, <1>2, <1>15 DEF WarnAgain, PlayersTold, Telling
<1>16. CASE CountdownEnds
  BY <1>1, <1>2, <1>16, <1>5, <1>6, <1>7 DEF CountdownEnds, PlayersTold, Telling
<1>17. CASE WaitIdle
  <2>1. Kind(job.of) = "restart" /\ pc = "idle"
    BY <1>1, <1>2, <1>17 DEF WaitIdle, Telling
  <2> QED
    BY <1>1, <1>2, <1>17, <2>1, <1>5, <1>6, <1>7, <1>9 DEF WaitIdle, PlayersTold, Telling
<1>18. CASE TryOperation
  <2>1. pc = "op" /\ (job.of \in OnlyIfPlayed => Kind(job.of) # "restart")
    BY <1>4, <1>18, ScheduleAssumption DEF TryOperation
  <2> QED
    BY <1>1, <1>2, <1>18, <2>1, <1>5, <1>6, <1>7, <1>9 DEF TryOperation, PlayersTold, Telling
<1>19. CASE OperationEnds
  <2>1. CASE EndsJob("succeeded") /\ UNCHANGED told
    BY <1>1, <1>2, <2>1, <1>5, <1>6 DEF PlayersTold, Telling
  <2>2. CASE CalledOff /\ EndsJob("error")
    BY <1>1, <1>2, <2>2, <1>5, <1>6, <1>9 DEF PlayersTold, Telling
  <2> QED
    BY <1>19, <2>1, <2>2 DEF OperationEnds
<1>20. CASE Interrupted
  BY <1>1, <1>2, <1>20, <1>5, <1>6 DEF Interrupted, PlayersTold, Telling
<1> QED
  BY <1>10, <1>11, <1>12, <1>13, <1>14, <1>15, <1>16, <1>17, <1>18, <1>19, <1>20 DEF JobStep

(* So does every step. *)
LEMMA ToldStep == CommandsArrive /\ ToldInv /\ [Next]_vars => ToldInv'
<1> SUFFICES ASSUME CommandsArrive, ToldInv, [Next]_vars PROVE ToldInv'
  OBVIOUS
<1>1. TypeOK /\ TypeInv /\ Telling
  BY DEF ToldInv, TypeInv
<1> SUFFICES Telling'
  BY <1>1, TypeStep DEF ToldInv
<1>2. ASSUME JobStep PROVE Telling'
  BY <1>2, JobTells
<1>3. ASSUME MarkInterrupted \/ Look \/ Begin \/ Record \/ Down PROVE Telling'
  BY <1>1, <1>3
     DEF MarkInterrupted, Look, Begin, Record, Down, Telling, InJob, Steps, PlayersTold
<1>4. ASSUME AgentStops \/ AgentStarts \/ Tick \/ UNCHANGED vars PROVE Telling'
  BY <1>1, <1>4 DEF AgentStops, AgentStarts, Tick, vars, Telling, PlayersTold
<1>5. ASSUME NEW s \in Schedule, NEW to \in {"on", "off"}, NEW set \in Timings(s),
             EditReads(s, to, set) \/ EditSaves(s) \/ Delete(s)
      PROVE  Telling'
  BY <1>1, <1>5 DEF EditReads, EditSaves, Delete, Telling, PlayersTold
<1>6. ASSUME NEW s \in Schedule, EditSaves(s) \/ Delete(s) PROVE Telling'
  BY <1>1, <1>6 DEF EditSaves, Delete, Telling, PlayersTold
<1> QED
  BY <1>2, <1>3, <1>4, <1>5, <1>6
     DEF Next, RunnerStep, JobStep, AgentStopped, AgentDies

(* As long as no command is lost on its way, players who were warned of a   *)
(* restart see it or hear that it is off, unless the server went down or the *)
(* agent stopped meanwhile.                                                  *)
THEOREM PlayersAreTold == CommandsArrive /\ Spec => []PlayersTold
<1>1. ToldInv => PlayersTold
  BY DEF ToldInv, Telling
<1>2. CommandsArrive => []CommandsArrive
  OBVIOUS
<1> QED
  BY <1>1, <1>2, ToldInit, ToldStep, PTL DEF Spec

-----------------------------------------------------------------------------
(* Schedules run as they are saved                                         *)

SavedInOrder == {"staleList", "editOverRun", "unreadable"} \cap Windows = {}

(* The job that waits to begin is of its schedule as it is now. *)
Current ==
    LET s == job.of
    IN /\ enabled[s] = "on" /\ updated[s] < job.due
       /\ job.due \notin times[s] => s \notin edited

(* An edit read the clock after the last run ended, and what was edited since *)
(* its run doesn't try again.                                                 *)
Saved ==
    /\ edit # NoEdit => edit.after = TRUE
    /\ \A s \in edited : enabled[s] # "gone" => s \in since
    /\ pc = "begin" => Current

SavedInv == TypeInv /\ Saved

LEMMA SavedInit == Init => SavedInv
BY TypeInit DEF Init, SavedInv, Saved

LEMMA SavedStep == SavedInOrder /\ SavedInv /\ [Next]_vars => SavedInv'
<1> SUFFICES ASSUME SavedInOrder, SavedInv, [Next]_vars PROVE SavedInv'
  OBVIOUS
<1>1. TypeOK /\ TypeInv /\ Saved
  BY DEF SavedInv, TypeInv
<1>2. ~Open("staleList") /\ ~Open("editOverRun")
  BY DEF SavedInOrder, Open
<1> SUFFICES Saved'
  BY <1>1, TypeStep DEF SavedInv
<1>3. ASSUME MarkInterrupted PROVE Saved'
  BY <1>1, <1>3 DEF MarkInterrupted, Saved, history
<1>4. ASSUME Look PROVE Saved'
  <2>1. CASE UNCHANGED <<pc, job>>
    BY <1>1, <1>4, <2>1 DEF Look, Saved, history
  <2>2. ASSUME NEW s \in DueNow, pc' = "begin", job'.of = s, job'.due = Occurrence(s)
        PROVE  Saved'
    <3>1. s \in Schedule /\ enabled[s] = "on" /\ Occurrence(s) > 0
      BY DEF DueNow, Found
    <3>2. /\ Occurrence(s) \in Time /\ Cursor(s) < Occurrence(s)
          /\ Cursor(s) \in Time /\ updated[s] <= Cursor(s)
          /\ Occurrence(s) \notin times[s] => s \notin since
      BY <1>1, <3>1, DueComesAfter, CursorIsPast
    <3>3. updated[s] \in Nat /\ Cursor(s) \in Nat /\ Occurrence(s) \in Nat
      BY <1>1, <3>1, <3>2, BoundsAssumption DEF TypeOK, Time
    <3>4. updated[s] < Occurrence(s)
      BY <3>2, <3>3
    <3>5. Occurrence(s) \notin times[s] => s \notin edited
      BY <1>1, <3>1, <3>2 DEF Saved
    <3>6. UNCHANGED <<enabled, times, updated, since, edit, edited>>
      BY <1>4 DEF Look, history
    <3>7. Current'
      BY <2>2, <3>1, <3>4, <3>5, <3>6 DEF Current
    <3> QED
      BY <1>1, <3>6, <3>7 DEF Saved
  <2>3. \/ UNCHANGED <<pc, job>>
        \/ \E s \in DueNow : pc' = "begin" /\ job'.of = s /\ job'.due = Occurrence(s)
    BY <1>4 DEF Look
  <2> QED
    BY <2>1, <2>2, <2>3
<1>5. ASSUME Begin PROVE Saved'
  BY <1>1, <1>5 DEF Begin, Saved
<1>6. ASSUME Record PROVE Saved'
  <2>1. /\ edit' = edit /\ UNCHANGED enabled /\ pc' = "look"
        /\ since' = since \ {job.of} /\ edited' = edited \ {job.of}
    BY <1>2, <1>6 DEF Record
  <2> QED
    BY <1>1, <2>1 DEF Saved
<1>7. ASSUME JobStep PROVE Saved'
  <2>1. UNCHANGED Aside /\ pc' \in InJob
    BY <1>1, <1>7, JobKept
  <2> QED
    BY <1>1, <2>1 DEF Aside, stored, history, Saved, InJob
<1>8. ASSUME Down PROVE Saved'
  BY <1>1, <1>8 DEF Down, stored, history, Saved
<1>9. ASSUME AgentStops \/ AgentStarts \/ Tick \/ UNCHANGED vars PROVE Saved'
  BY <1>1, <1>9 DEF AgentStops, AgentStarts, Tick, vars, stored, history, Saved, Current
<1>10. ASSUME NEW s \in Schedule, NEW to \in {"on", "off"}, NEW set \in Timings(s),
              EditReads(s, to, set)
       PROVE  Saved'
  BY <1>1, <1>10 DEF EditReads, stored, history, Saved, Current
<1>11. ASSUME NEW s \in Schedule, EditSaves(s) PROVE Saved'
  <2>1. edit.after = TRUE /\ enabled[s] # "gone"
    BY <1>1, <1>11 DEF EditSaves, Saved, TypeInv, EditMade, NoEdit
  <2>2. since' = since \union {s} /\ edited' = edited \union {s} /\ edit' = NoEdit
    BY <1>11, <2>1 DEF EditSaves
  <2>3. \A x \in edited' : enabled'[x] # "gone" => x \in since'
    BY <1>1, <1>11, <2>1, <2>2 DEF EditSaves, Saved, TypeOK
  <2>4. ASSUME pc' = "begin" PROVE Current'
    <3>1. job.of # s /\ UNCHANGED job /\ pc = "begin"
      BY <1>2, <1>11, <2>4 DEF EditSaves, Unlisted
    <3>2. Current /\ job.of \in Schedule
      BY <1>1, <3>1 DEF Saved, TypeOK, Job
    <3>3. /\ enabled'[job.of] = enabled[job.of] /\ times'[job.of] = times[job.of]
          /\ updated'[job.of] = updated[job.of]
      BY <1>1, <1>11, <3>1, <3>2 DEF EditSaves, TypeOK
    <3> QED
      BY <2>2, <3>1, <3>2, <3>3 DEF Current
  <2> QED
    BY <2>2, <2>3, <2>4 DEF Saved
<1>12. ASSUME NEW s \in Schedule, Delete(s) PROVE Saved'
  <2>1. /\ enabled' = [enabled EXCEPT ![s] = "gone"] /\ edited' = edited \union {s}
        /\ UNCHANGED <<times, updated, since, edit, pc, job>> /\ edit = NoEdit
    BY <1>12 DEF Delete
  <2>2. \A x \in edited' : enabled'[x] # "gone" => x \in since'
    BY <1>1, <2>1 DEF Saved, TypeOK
  <2>3. ASSUME pc' = "begin" PROVE Current'
    <3>1. job.of # s /\ pc = "begin"
      BY <1>2, <1>12, <2>1, <2>3 DEF Delete, Unlisted
    <3>2. Current /\ job.of \in Schedule
      BY <1>1, <3>1 DEF Saved, TypeOK, Job
    <3>3. enabled'[job.of] = enabled[job.of]
      BY <1>1, <2>1, <3>1, <3>2 DEF TypeOK
    <3> QED
      BY <2>1, <3>1, <3>2, <3>3 DEF Current
  <2> QED
    BY <2>1, <2>2, <2>3 DEF Saved
<1> QED
  BY <1>3, <1>4, <1>5, <1>6, <1>7, <1>8, <1>9, <1>10, <1>11, <1>12
     DEF Next, RunnerStep, JobStep, AgentStopped, AgentDies

(* As long as no list is stale, no edit is read before a run is recorded and *)
(* saved after it, and schedules can be read, a schedule runs as it is       *)
(* saved: nothing from before its change begins, a retry neither, and a      *)
(* restart that was turned off during its warnings doesn't come.             *)
THEOREM OwnersAreHeeded == SavedInOrder /\ Spec => OwnerHeeded
<1>1. ASSUME SavedInOrder, SavedInv, [Next]_vars PROVE [AsSaved]_vars
  <2> SUFFICES ASSUME Next PROVE AsSaved
    BY <1>1
  <2>1. Begins => Current
    BY <1>1 DEF SavedInv, Saved, Begins
  <2>2. ASSUME pc \in {"warn", "count"}, pc' = "idle" PROVE enabled[job.of] = "on"
    <3>1. ~Open("unreadable")
      BY <1>1 DEF SavedInOrder, Open
    <3>2. SeesOn
      BY <2>2 DEF Next, RunnerStep, MarkInterrupted, Look, Begin, Record, StartRestart,
             StartBackup, RunQuick, TurnedOff, EndsJob, Warn, WarnAgain, CountdownEnds,
             WaitIdle, TryOperation, OperationEnds, Interrupted, AgentStopped, Down,
             AgentStops, AgentDies, AgentStarts, EditReads, EditSaves, Delete, Tick
    <3> QED
      BY <3>1, <3>2 DEF SeesOn
  <2> QED
    BY <2>1, <2>2 DEF AsSaved, Current
<1>2. SavedInOrder => []SavedInOrder
  OBVIOUS
<1> QED
  BY <1>1, <1>2, SavedInit, SavedStep, PTL DEF Spec, OwnerHeeded
=============================================================================
