------------------------- MODULE UpdateHandoffProofs -------------------------
(***************************************************************************)
(* Proofs about UpdateHandoff, for any number of updates and faults.       *)
(***************************************************************************)
EXTENDS UpdateHandoff, TLAPS

-----------------------------------------------------------------------------
(* Types                                                                   *)

\* Where the updater counts on its copy, and where it works for an update.
Copied == {"stop", "databases", "install", "start", "health", "resumed", "undo",
           "putBack", "putBackDatabases"}
Working == Steps \ {"claim"}

Results == [op : Op \cup {None}, outcome : Outcomes \cup {"none"}]
Copies == [version : Version \cup {None}, db : Version \cup {None}, done : BOOLEAN,
           op : Records, abandoned : Op \cup {None}]
Updaters == [pc : Steps \cup {"off"}, op : Op \cup {None}, outcome : Outcomes \cup {"none"}]

AgentTyped ==
    /\ op \in Records /\ from \in [Op -> Version \cup {None}]
    /\ staging \in Op \cup {None} /\ installing \in Op \cup {None}
    /\ sawRequest \in BOOLEAN /\ abandoned \in Op \cup {None}
FilesTyped ==
    /\ request \in Op \cup {None} /\ applying \in Op \cup {None}
    /\ staged \in Op \cup {None} /\ result \in Results /\ told \in SUBSET Version
HostTyped ==
    /\ bin \in Version /\ up \in BOOLEAN /\ boot \in BOOLEAN /\ db \in Version
    /\ copy \in Copies
BoundsTyped == bad \in SUBSET Version /\ faults \in 0..MaxFaults

Values ==
    /\ AgentTyped /\ FilesTyped /\ HostTyped /\ BoundsTyped
    /\ upd \in Updaters /\ waited \in 0..2

\* A copy is there where it is needed, with databases once it is done, and
\* there is a version after each that an update starts from.
CopyWhole ==
    /\ copy = NoCopy \/ copy.version # None
    /\ copy.done => copy.db # None
    /\ upd.pc \in Copied => copy.version # None
    /\ \A o \in Op : from[o] <= Updates
    /\ upd.pc \in Working => upd.op \in Op /\ applying = upd.op

Types == Values /\ CopyWhole

(* The values are what TypeOK says. *)
LEMMA ValuesType == Values <=> TypeOK
BY DEF Values, AgentTyped, FilesTyped, HostTyped, BoundsTyped, TypeOK, Results, Copies,
       Updaters

LEMMA TypesInit == Init => Types
<1> SUFFICES ASSUME Init PROVE Types
  OBVIOUS
<1>1. 1 \in Version /\ 0 \in 0..MaxFaults /\ 0 \in 0..2
  BY UpdatesAssumption, UpdateFaultsAssumption DEF Version
<1>2. [o \in Op |-> "none"] \in Records
  BY DEF Records
<1>3. NoCopy \in Copies
  BY <1>2 DEF NoCopy, Copies
<1>4. Off \in Updaters
  BY DEF Off, Updaters
<1>5. NoResult \in Results
  BY DEF NoResult, Results
<1>6. Values
  BY <1>1, <1>2, <1>3, <1>4, <1>5 DEF Init, Values, AgentTyped, FilesTyped, HostTyped,
     BoundsTyped
<1>7. upd.pc = "off" /\ ~copy.done
  BY DEF Init, Off, NoCopy
<1>8. \A o \in Op : from[o] <= Updates
  BY UpdatesAssumption DEF Init, None
<1>9. upd.pc \notin Copied /\ upd.pc \notin Working
  BY <1>7 DEF Copied, Working, Steps
<1> QED
  BY <1>6, <1>7, <1>8, <1>9 DEF Init, Types, CopyWhole

(* Where the updater goes on, it does so for the same update. *)
LEMMA GoKept ==
    ASSUME Values
    PROVE  /\ \A pc \in Steps : Go(pc) => /\ upd' \in Updaters /\ upd'.pc = pc
                                          /\ upd'.op = upd.op
                                          /\ upd'.outcome = upd.outcome
           /\ \A r \in Outcomes : Report(r) => /\ upd' \in Updaters
                                               /\ upd'.pc = "report"
                                               /\ upd'.op = upd.op
                                               /\ upd'.outcome = r
           /\ \A pc \in Steps : GoFailed(pc) => /\ upd' \in Updaters /\ upd'.pc = pc
                                                /\ upd'.op = upd.op
                                                /\ upd'.outcome = "failed"
<1>v. upd \in Updaters /\ "report" \in Steps /\ "failed" \in Outcomes
  BY DEF Values, Steps, Outcomes
<1> USE <1>v DEF Updaters
<1>1. ASSUME NEW pc \in Steps, Go(pc)
      PROVE  upd' \in Updaters /\ upd'.pc = pc /\ upd'.op = upd.op /\ upd'.outcome = upd.outcome
  BY <1>1 DEF Go
<1>2. ASSUME NEW r \in Outcomes, Report(r)
      PROVE  upd' \in Updaters /\ upd'.pc = "report" /\ upd'.op = upd.op /\ upd'.outcome = r
  BY <1>2 DEF Report
<1>3. ASSUME NEW pc \in Steps, GoFailed(pc)
      PROVE  upd' \in Updaters /\ upd'.pc = pc /\ upd'.op = upd.op /\ upd'.outcome = "failed"
  BY <1>3 DEF GoFailed
<1> QED
  BY <1>1, <1>2, <1>3

(* It begins with what it claims. *)
LEMMA OffIs ==
    /\ Off \in Updaters /\ Off.pc = "off" /\ Off.op = None
    /\ \A pc \in Steps : /\ [Off EXCEPT !.pc = pc] \in Updaters
                         /\ [Off EXCEPT !.pc = pc].pc = pc
    /\ \A pc \in Steps, o \in Op : /\ [Off EXCEPT !.pc = pc, !.op = o] \in Updaters
                                   /\ [Off EXCEPT !.pc = pc, !.op = o].pc = pc
                                   /\ [Off EXCEPT !.pc = pc, !.op = o].op = o
BY DEF Off, Updaters, None

(* An operation's record is changed for one of its states. *)
LEMMA RecordKept ==
    ASSUME Values, NEW o,
           NEW x \in Outcomes \cup {"none", "running", "interrupted", "lost"}
    PROVE  [op EXCEPT ![o] = x] \in Records
BY DEF Values, AgentTyped, Records

(* An agent that starts ends what it doesn't wait for. *)
LEMMA LoadKept ==
    ASSUME Values, NEW v \in Version, AgentLoads(v)
    PROVE  /\ op' \in Records /\ installing' \in Op \cup {None}
           /\ staging' = None /\ sawRequest' = FALSE
           /\ db' \in Version /\ db' \in {db, v} /\ (db <= v => db' = v)
           /\ \A o \in Op : op[o] # "none" <=> op'[o] # "none"
<1>1. Pending \in Op \cup {None}
  BY DEF Pending, Values, FilesTyped
<1>2. db' \in {db, v} /\ (db <= v => db' = v)
  BY UpdatesAssumption DEF AgentLoads, Newest, Values, HostTyped, Version
<1>3. op' \in Records /\ \A o \in Op : op[o] # "none" <=> op'[o] # "none"
  BY DEF AgentLoads, Values, AgentTyped, Records
<1> QED
  BY <1>1, <1>2, <1>3 DEF AgentLoads, Values, HostTyped

(* Only these steps change what the agent knows. *)
LEMMA AgentChanges ==
    ASSUME [Next]_vars
    PROVE  \/ UNCHANGED agent
           \/ \E o \in Op : StageBegin(o)
           \/ StageDone \/ StageFails \/ Collect \/ WatchSees \/ WatchGives \/ WatchLong
           \/ PutBackDatabases \/ PutBackPartly
           \/ AgentLoads(bin) /\ UNCHANGED <<from, abandoned>>
           \/ AgentGone /\ UNCHANGED <<op, from, abandoned>>
<1>1. CASE AgentSteps
  BY <1>1 DEF AgentSteps, AgentRestarts
<1>2. CASE UpdaterSteps
  BY <1>2 DEF UpdaterSteps, UpdaterStarts, Claim, Check, SaveCopy, Stop, SaveDatabases,
     Install, Start, Health, Recover, Undo, PutBack, Restart, HealthBack, WriteResult,
     Clean, Finish, StartServices
<1>3. CASE UndoFails \/ StepFails \/ TimePasses \/ Killed \/ PowerCut \/ Boot \/ UNCHANGED vars
  BY <1>3 DEF UndoFails, PutBackPartly, RestartFails, RecoverFails,
     StepFails, TimePasses, Killed, PowerCut, Boot, vars, agent
<1> QED
  BY <1>1, <1>2, <1>3 DEF Next

(* What it knows keeps its type. *)
LEMMA AgentKept == ASSUME Types, [Next]_vars PROVE AgentTyped'
<1> USE DEF None
<1>v. Values /\ AgentTyped /\ FilesTyped /\ HostTyped
  BY DEF Types, Values
<1>1. CASE UNCHANGED agent
  BY <1>v, <1>1 DEF AgentTyped, agent
<1>2. ASSUME NEW o \in Op, StageBegin(o) PROVE AgentTyped'
  <2>1. op' \in Records
    BY <1>2, <1>v, RecordKept DEF StageBegin
  <2> QED
    BY <1>2, <1>v, <2>1 DEF StageBegin, AgentTyped, HostTyped
<1>3. CASE StageDone
  BY <1>v, <1>3 DEF StageDone, AgentTyped
<1>4. CASE StageFails
  <2>1. op' \in Records
    BY <1>4, <1>v, RecordKept DEF StageFails, Outcomes
  <2> QED
    BY <1>4, <1>v, <2>1 DEF StageFails, AgentTyped
<1>5. CASE Collect
  <2>1. result.outcome \in Outcomes \cup {"none", "running", "interrupted"}
    BY <1>v DEF FilesTyped, Results
  <2>2. op' \in Records
    BY <1>5, <1>v, <2>1, RecordKept DEF Collect, AgentTyped
  <2> QED
    BY <1>5, <1>v, <2>2 DEF Collect, AgentTyped
<1>6. CASE WatchSees
  BY <1>6, <1>v DEF WatchSees, AgentTyped
<1>7. CASE WatchGives
  <2>1. op' \in Records
    BY <1>7, <1>v, RecordKept DEF WatchGives, Abandon, Outcomes, AgentTyped
  <2> QED
    BY <1>7, <1>v, <2>1 DEF WatchGives, Abandon, AgentTyped
<1>8. CASE WatchLong
  <2>1. op' \in Records
    BY <1>8, <1>v, RecordKept DEF WatchLong, Abandon, Outcomes, AgentTyped
  <2> QED
    BY <1>8, <1>v, <2>1 DEF WatchLong, Abandon, AgentTyped
<1>l. CASE PutBackPartly
  <2>1. copy.op \in Records /\ copy.abandoned \in Op \cup {None} /\ Lost \in Records
    BY <1>v DEF HostTyped, Copies, Lost, Records
  <2> QED
    BY <1>l, <1>v, <2>1 DEF PutBackPartly, AgentTyped
<1>9. CASE PutBackDatabases
  <2>1. copy.op \in Records /\ copy.abandoned \in Op \cup {None}
    BY <1>v DEF HostTyped, Copies
  <2> QED
    BY <1>9, <1>v, <2>1 DEF PutBackDatabases, AgentTyped
<1>10. CASE AgentLoads(bin) /\ UNCHANGED <<from, abandoned>>
  <2>1. /\ op' \in Records /\ installing' \in Op \cup {None}
        /\ staging' = None /\ sawRequest' = FALSE
    BY <1>10, <1>v, LoadKept DEF HostTyped
  <2> QED
    BY <1>10, <1>v, <2>1 DEF AgentTyped
<1>11. CASE AgentGone /\ UNCHANGED <<op, from, abandoned>>
  BY <1>11, <1>v DEF AgentGone, AgentTyped
<1> QED
  BY <1>1, <1>2, <1>3, <1>4, <1>5, <1>6, <1>7, <1>8, <1>9, <1>10, <1>11, <1>l, AgentChanges

(* So do the files. *)
LEMMA FilesKept == ASSUME Types, [Next]_vars PROVE FilesTyped'
<1> USE DEF None
<1>v. AgentTyped /\ FilesTyped /\ upd \in Updaters /\ db \in Version
  BY DEF Types, Values, HostTyped
<1>1. CASE UNCHANGED files
  BY <1>v, <1>1 DEF FilesTyped, files
<1>2. CASE WriteResult
  <2>1. result' \in Results
    BY <1>2, <1>v DEF WriteResult, Results, Updaters
  <2> QED
    BY <1>2, <1>v, <2>1 DEF WriteResult, FilesTyped
<1>3. CASE Collect
  BY <1>3, <1>v DEF Collect, FilesTyped, Results, NoResult
<1>4. CASE StageDone
  BY <1>4, <1>v DEF StageDone, FilesTyped, AgentTyped
<1>5. CASE Claim
  BY <1>5, <1>v DEF Claim, FilesTyped
<1>6. ASSUME NEW o \in Op, StageBegin(o) PROVE FilesTyped'
  BY <1>6, <1>v DEF StageBegin, FilesTyped
<1>7. CASE StageFails \/ WatchGives \/ Clean \/ Finish
  BY <1>7, <1>v DEF StageFails, WatchGives, Clean, Finish, FilesTyped
<1>8. CASE AgentSteps
  BY <1>1, <1>3, <1>4, <1>6, <1>7, <1>8
     DEF AgentSteps, WatchSees, WatchLong, AgentRestarts
<1>9. CASE UpdaterSteps
  BY <1>1, <1>2, <1>5, <1>7, <1>9
     DEF UpdaterSteps, UpdaterStarts, Check, SaveCopy, Stop, SaveDatabases, Install, Start,
         Health, Recover, Undo, PutBack, PutBackDatabases, Restart, HealthBack, StartServices
<1>10. CASE UndoFails \/ StepFails \/ TimePasses \/ Killed \/ PowerCut \/ Boot \/ UNCHANGED vars
  BY <1>1, <1>10 DEF UndoFails, PutBackPartly, RestartFails, RecoverFails,
     StepFails, TimePasses, Killed, PowerCut, Boot, vars, files
<1> QED
  BY <1>8, <1>9, <1>10 DEF Next

(* So does the host. *)
LEMMA HostKept == ASSUME Types, [Next]_vars PROVE HostTyped'
<1> USE DEF None
<1>v. Values /\ HostTyped /\ AgentTyped /\ FilesTyped /\ upd \in Updaters /\ CopyWhole
  BY DEF Types, Values
<1>1. CASE UNCHANGED host
  BY <1>v, <1>1 DEF HostTyped, host
<1>2. CASE SaveCopy
  <2>1. /\ NoCopy \in Copies
        /\ \A v \in Version : [NoCopy EXCEPT !.version = v] \in Copies
    BY DEF NoCopy, Copies, Records
  <2> QED
    BY <1>2, <1>v, <2>1 DEF SaveCopy, HostTyped
<1>3. CASE SaveDatabases
  <2>1. copy' \in Copies
    BY <1>3, <1>v DEF SaveDatabases, Copies, AgentTyped, HostTyped
  <2> QED
    BY <1>3, <1>v, <2>1 DEF SaveDatabases, HostTyped
<1>4. CASE Install
  <2>1. staged # None => Want(staged) \in Version
    BY <1>v, UpdatesAssumption DEF FilesTyped, AgentTyped, CopyWhole, Want, Version
  <2> QED
    BY <1>4, <1>v, <2>1 DEF Install, HostTyped
<1>5. CASE PutBack
  <2>1. copy.version \in Version
    BY <1>5, <1>v DEF PutBack, At, CopyWhole, Copied, HostTyped, Copies
  <2> QED
    BY <1>5, <1>v, <2>1 DEF PutBack, HostTyped
<1>6. CASE PutBackDatabases
  <2>1. copy.done => copy.db \in Version
    BY <1>6, <1>v DEF CopyWhole, HostTyped, Copies
  <2> QED
    BY <1>6, <1>v, <2>1 DEF PutBackDatabases, HostTyped
<1>7. CASE /\ AgentLoads(bin) /\ UNCHANGED <<bin, copy>>
           /\ up' \in BOOLEAN /\ boot' \in BOOLEAN
  <2>1. db' \in Version
    BY <1>7, <1>v, LoadKept DEF HostTyped
  <2> QED
    BY <1>7, <1>v, <2>1 DEF HostTyped
<1>8. CASE up' \in BOOLEAN /\ boot' \in BOOLEAN /\ UNCHANGED <<bin, db, copy>>
  BY <1>8, <1>v DEF HostTyped
<1>9. CASE AgentSteps
  <2>1. UNCHANGED host \/ AgentRestarts
    BY <1>9 DEF AgentSteps, StageBegin, StageDone, StageFails, Collect, WatchSees,
       WatchGives, WatchLong
  <2>2. AgentRestarts => /\ AgentLoads(bin) /\ UNCHANGED <<bin, copy>>
                         /\ up' \in BOOLEAN /\ boot' \in BOOLEAN
    BY <1>v DEF AgentRestarts, HostTyped
  <2> QED
    BY <1>1, <1>7, <2>1, <2>2
<1>10. CASE UpdaterSteps
  <2>1. CASE UpdaterStarts \/ Claim \/ Check \/ Health \/ HealthBack \/ WriteResult
             \/ Clean \/ Finish
    BY <1>1, <2>1
       DEF UpdaterStarts, Claim, Check, Health, HealthBack, WriteResult, Clean, Finish
  <2>2. CASE Stop \/ Undo
    BY <1>8, <2>2 DEF Stop, Undo
  <2>3. CASE Start \/ Restart
    BY <1>7, <2>3 DEF Start, Restart, StartServices
  <2>4. CASE Recover
    BY <1>1, <1>7, <2>4 DEF Recover
  <2> QED
    BY <1>2, <1>3, <1>4, <1>5, <1>6, <1>10, <2>1, <2>2, <2>3, <2>4 DEF UpdaterSteps
<1>p. CASE PutBackPartly
  <2>1. copy.db \in Version
    BY <1>p, <1>v DEF PutBackPartly, CopyWhole, HostTyped, Copies
  <2> QED
    BY <1>p, <1>v, <2>1 DEF PutBackPartly, HostTyped
<1>11. CASE UndoFails \/ StepFails \/ TimePasses \/ Killed \/ UNCHANGED vars
  BY <1>1, <1>p, <1>11 DEF UndoFails, RestartFails, RecoverFails,
     StepFails, TimePasses, Killed, vars, host
<1>12. CASE PowerCut
  BY <1>8, <1>12 DEF PowerCut
<1>13. CASE Boot
  BY <1>7, <1>13 DEF Boot
<1> QED
  BY <1>9, <1>10, <1>11, <1>12, <1>13 DEF Next

(* And the updater, which works for the update it claimed and has a copy *)
(* where it counts on it.                                                *)
LEMMA UpdaterKept ==
    ASSUME Types, [Next]_vars
    PROVE  /\ upd' \in Updaters
           /\ upd'.pc \in Working => upd'.op \in Op /\ applying' = upd'.op
           /\ upd'.pc \in Copied => copy'.version # None
<1> DEFINE Held == /\ upd' \in Updaters
                   /\ upd'.pc \in Working => upd'.op \in Op /\ applying' = upd'.op
                   /\ upd'.pc \in Copied => copy'.version # None
<1>v. /\ Values /\ upd \in Updaters /\ request \in Op \cup {None}
      /\ applying \in Op \cup {None} /\ bin \in Version
      /\ upd.pc \in Working => upd.op \in Op /\ applying = upd.op
      /\ upd.pc \in Copied => copy.version # None
      /\ copy = NoCopy \/ copy.version # None
  BY DEF Types, Values, CopyWhole, FilesTyped, HostTyped
<1>n. None \notin Version
  BY UpdatesAssumption DEF Version, None
<1>w. /\ Steps = Working \cup {"claim"} /\ "claim" \notin Working /\ "claim" \notin Copied
      /\ "off" \notin Working /\ "off" \notin Copied
      /\ {"check", "copy", "recover", "report", "restart", "healthBack", "clean", "finish"}
           \subseteq Working \ Copied
      /\ Copied \subseteq Working
  BY DEF Steps, Working, Copied
<1>1. ASSUME NEW pc \in Steps, Go(pc), UNCHANGED applying, upd.pc \in Working,
             pc \in Copied => copy'.version # None
      PROVE  Held
  BY <1>v, <1>w, <1>1, GoKept
<1>2. ASSUME NEW r \in Outcomes, Report(r), UNCHANGED applying, upd.pc \in Working
      PROVE  Held
  BY <1>v, <1>w, <1>2, GoKept
<1>f. ASSUME NEW pc \in {"putBackDatabases", "restart"}, GoFailed(pc), UNCHANGED applying,
             upd.pc \in Copied, UNCHANGED copy
      PROVE  Held
  BY <1>v, <1>w, <1>f, GoKept DEF Copied
<1>3. CASE UNCHANGED <<upd, applying, copy>>
  BY <1>v, <1>3
<1>4. CASE upd' = Off
  BY <1>4, <1>w, OffIs
<1>5. CASE UpdaterStarts
  <2>1. upd' = [Off EXCEPT !.pc = "claim"] /\ "claim" \in Steps
    BY <1>5, <1>w DEF UpdaterStarts
  <2>2. upd' \in Updaters /\ upd'.pc = "claim"
    BY <2>1, OffIs
  <2>. QED
    BY <1>w, <2>2
<1>s. {"check", "recover", "stop"} \subseteq Steps
  BY DEF Steps
<1>6. CASE Claim
  <2>1. CASE request # None
    <3>1. upd' = [Off EXCEPT !.pc = "check", !.op = request] /\ applying' = request
      BY <1>6, <2>1 DEF Claim
    <3>2. request \in Op /\ "check" \in Steps
      BY <1>v, <1>s, <2>1
    <3>3. upd' \in Updaters /\ upd'.pc = "check" /\ upd'.op = request
      BY <3>1, <3>2, OffIs
    <3> QED
      BY <1>w, <3>1, <3>2, <3>3
  <2>2. CASE request = None /\ applying = None
    BY <1>4, <1>6, <2>2 DEF Claim
  <2>3. CASE request = None /\ applying # None
    <3>1. upd' = [Off EXCEPT !.pc = "recover", !.op = applying] /\ applying' = applying
      BY <1>6, <2>3 DEF Claim
    <3>2. applying \in Op /\ "recover" \in Steps
      BY <1>v, <1>s, <2>3
    <3>3. upd' \in Updaters /\ upd'.pc = "recover" /\ upd'.op = applying
      BY <3>1, <3>2, OffIs
    <3> QED
      BY <1>w, <3>1, <3>2, <3>3
  <2> QED
    BY <2>1, <2>2, <2>3
<1>7. CASE Check
  BY <1>1, <1>2, <1>7, <1>w DEF Check, At, files, Outcomes
<1>8. CASE SaveCopy
  <2>1. CASE copy' = [NoCopy EXCEPT !.version = bin] /\ Go("stop")
    <3>1. copy'.version # None
      BY <1>v, <1>n, <2>1 DEF NoCopy
    <3>2. upd.pc \in Working /\ UNCHANGED applying
      BY <1>8 DEF SaveCopy, At, files, Working, Steps
    <3> QED
      BY <1>1, <1>8, <1>s, <2>1, <3>1, <3>2
  <2>2. CASE Report("refused")
    BY <1>2, <1>8, <1>w, <2>2 DEF SaveCopy, At, files, Outcomes
  <2> QED
    BY <1>8, <2>1, <2>2 DEF SaveCopy
<1>9. CASE Stop \/ Install \/ Start \/ Undo \/ PutBack \/ PutBackDatabases \/ Restart \/ StepFails
           \/ PutBackPartly
  <2>1. upd.pc \in Working /\ UNCHANGED <<applying, copy>>
    BY <1>9 DEF Stop, Install, Start, StartServices, Undo, PutBack, PutBackDatabases, Restart,
       StepFails, PutBackPartly, At, files, host, Working, Steps
  <2>2. \/ upd.pc \in Copied /\ \E pc \in Steps : Go(pc)
        \/ upd.pc \in Copied /\ \E pc \in {"putBackDatabases", "restart"} : GoFailed(pc)
        \/ At("restart") /\ (Go("healthBack") \/ Go("report"))
    BY <1>9 DEF Stop, Install, Start, StartServices, Undo, PutBack, PutBackDatabases, Restart,
       StepFails, PutBackPartly, At, Copied, Steps
  <2> QED
    BY <1>1, <1>f, <1>v, <1>w, <2>1, <2>2
<1>17. CASE RestartFails \/ RecoverFails
  BY <1>2, <1>17, <1>w DEF RestartFails, RecoverFails, At, files, Outcomes
<1>10. CASE SaveDatabases
  <2>1. copy'.version # None
    BY <1>v, <1>10 DEF SaveDatabases, At, Copied, Values, HostTyped, Copies
  <2> QED
    BY <1>1, <1>10, <1>w, <2>1 DEF SaveDatabases, At, files, Copied
<1>11. CASE Health
  BY <1>1, <1>2, <1>v, <1>w, <1>11 DEF Health, At, files, host, Copied, Outcomes
<1>12. CASE Recover
  <2>1. At("recover") /\ UNCHANGED <<applying, copy>>
    BY <1>12 DEF Recover, files, host
  <2>2. Report("rolled_back") \/ (copy # NoCopy /\ \E pc \in {"resumed", "healthBack", "undo"} : Go(pc))
    BY <1>12 DEF Recover
  <2> QED
    BY <1>1, <1>2, <1>v, <1>w, <2>1, <2>2 DEF At, Outcomes, Copied
<1>13. CASE HealthBack
  BY <1>2, <1>13, <1>w DEF HealthBack, At, files, Outcomes
<1>14. CASE WriteResult \/ Clean
  BY <1>1, <1>14, <1>w DEF WriteResult, Clean, At
<1>15. CASE Finish \/ Killed \/ PowerCut
  BY <1>4, <1>15 DEF Finish, Killed, PowerCut
<1>16. CASE AgentSteps \/ TimePasses \/ Boot \/ UNCHANGED vars
  BY <1>3, <1>16 DEF AgentSteps, StageBegin, StageDone, StageFails, Collect, WatchSees,
     WatchGives, WatchLong, AgentRestarts, TimePasses, Boot, vars, host, files
<1> QED
  BY <1>5, <1>6, <1>7, <1>8, <1>9, <1>10, <1>11, <1>12, <1>13, <1>14, <1>15, <1>16, <1>17
     DEF Next, UpdaterSteps, UndoFails

(* Copies are whole, and there is a version to update to. *)
LEMMA CopiesKept ==
    ASSUME Types, [Next]_vars
    PROVE  /\ copy' = NoCopy \/ copy'.version # None
           /\ copy'.done => copy'.db # None
           /\ \A o \in Op : from'[o] <= Updates
<1>v. /\ Values /\ copy \in Copies /\ bin \in Version /\ db \in Version
      /\ from \in [Op -> Version \cup {None}]
      /\ upd.pc \in Copied => copy.version # None
      /\ copy = NoCopy \/ copy.version # None
      /\ copy.done => copy.db # None
      /\ \A o \in Op : from[o] <= Updates
  BY DEF Types, Values, CopyWhole, AgentTyped, HostTyped
<1>n. None \notin Version
  BY UpdatesAssumption DEF Version, None
<1>1. /\ copy' = NoCopy \/ copy'.version # None
      /\ copy'.done => copy'.db # None
  <2>1. CASE SaveCopy
    <3>1. copy' \in {NoCopy, [NoCopy EXCEPT !.version = bin]}
      BY <2>1 DEF SaveCopy
    <3> QED
      BY <1>v, <1>n, <3>1 DEF NoCopy
  <2>2. CASE SaveDatabases
    <3>1. copy'.version = copy.version /\ copy'.db = db
      BY <1>v, <2>2 DEF SaveDatabases, Copies
    <3> QED
      BY <1>v, <1>n, <2>2, <3>1 DEF SaveDatabases, At, Copied
  <2>3. CASE UNCHANGED copy
    BY <1>v, <2>3
  <2>4. UNCHANGED copy \/ SaveCopy \/ SaveDatabases
    <3>1. CASE AgentSteps
      BY <3>1 DEF AgentSteps, StageBegin, StageDone, StageFails, Collect, WatchSees,
         WatchGives, WatchLong, AgentRestarts, host
    <3>2. CASE UpdaterSteps
      BY <3>2 DEF UpdaterSteps, UpdaterStarts, Claim, Check, Stop, Install, Start,
         StartServices, Health, Recover, Undo, PutBack, PutBackDatabases, Restart, HealthBack,
         WriteResult, Clean, Finish, host
    <3>3. CASE UndoFails \/ StepFails \/ TimePasses \/ Killed \/ PowerCut \/ Boot \/ UNCHANGED vars
      BY <3>3 DEF UndoFails, PutBackPartly, RestartFails, RecoverFails,
     StepFails, TimePasses, Killed, PowerCut, Boot, vars, host
    <3> QED
      BY <3>1, <3>2, <3>3 DEF Next
  <2> QED
    BY <2>1, <2>2, <2>3, <2>4
<1>2. \A o \in Op : from'[o] <= Updates
  <2>1. UNCHANGED from \/ \E o \in Op : StageBegin(o)
    BY AgentChanges DEF agent, StageDone, StageFails, Collect, WatchSees, WatchGives,
       WatchLong, PutBackDatabases, PutBackPartly
  <2>2. ASSUME NEW o \in Op, StageBegin(o) PROVE \A p \in Op : from'[p] <= Updates
    <3>1. bin <= Updates
      BY <1>v, <2>2, UpdatesAssumption DEF StageBegin, Version
    <3> QED
      BY <1>v, <2>2, <3>1 DEF StageBegin
  <2> QED
    BY <1>v, <2>1, <2>2
<1> QED
  BY <1>1, <1>2

LEMMA TypesStep == Types /\ [Next]_vars => Types'
<1> SUFFICES ASSUME Types, [Next]_vars PROVE Types'
  OBVIOUS
<1>v. BoundsTyped /\ waited \in 0..2
  BY DEF Types, Values
<1>1. waited' \in 0..2
  <2>1. waited' \in {waited, 0} \/ TimePasses
    <3>1. CASE AgentSteps
      BY <3>1 DEF AgentSteps, StageBegin, StageDone, StageFails, Collect, WatchSees,
         WatchGives, WatchLong, AgentRestarts
    <3>2. CASE UpdaterSteps
      BY <3>2 DEF UpdaterSteps, UpdaterStarts, Claim, Check, SaveCopy, Stop, SaveDatabases,
         Install, Start, StartServices, Health, Recover, Undo, PutBack, PutBackDatabases,
         Restart, HealthBack, WriteResult, Clean, Finish
    <3>3. CASE UndoFails \/ StepFails \/ Killed \/ PowerCut \/ Boot \/ UNCHANGED vars
      BY <3>3 DEF UndoFails, PutBackPartly, RestartFails, RecoverFails,
     StepFails, Killed, PowerCut, Boot, vars
    <3> QED
      BY <3>1, <3>2, <3>3 DEF Next
  <2> QED
    BY <1>v, <2>1 DEF TimePasses
<1>2. BoundsTyped'
  <2>1. UNCHANGED bounds \/ Fault
    <3>1. CASE AgentSteps
      BY <3>1 DEF AgentSteps, StageBegin, StageDone, StageFails, Collect, WatchSees,
         WatchGives, WatchLong, AgentRestarts
    <3>2. CASE UpdaterSteps
      BY <3>2 DEF UpdaterSteps, UpdaterStarts, Claim, Check, SaveCopy, Stop, SaveDatabases,
         Install, Start, StartServices, Health, Recover, Undo, PutBack, PutBackDatabases,
         Restart, HealthBack, WriteResult, Clean, Finish
    <3>3. CASE UndoFails \/ StepFails \/ TimePasses \/ Killed \/ PowerCut \/ Boot \/ UNCHANGED vars
      BY <3>3 DEF UndoFails, PutBackPartly, RestartFails, RecoverFails,
     StepFails, TimePasses, Killed, PowerCut, Boot, vars, bounds
    <3> QED
      BY <3>1, <3>2, <3>3 DEF Next
  <2> QED
    BY <1>v, <2>1, UpdateFaultsAssumption DEF Fault, bounds, BoundsTyped
<1> QED
  BY <1>1, <1>2, AgentKept, FilesKept, HostKept, UpdaterKept, CopiesKept
     DEF Types, Values, CopyWhole

(* Versions, files, records and the updater's steps keep their types: an    *)
(* update always has a version to go to, and what is put back is one.       *)
THEOREM UpdateTypeCorrect == Spec => []TypeOK
<1>1. Types => TypeOK
  BY ValuesType DEF Types
<1> QED
  BY <1>1, TypesInit, TypesStep, PTL DEF Spec

-----------------------------------------------------------------------------
(* An update goes back whole                                               *)

\* The four windows in which the code doesn't keep this are closed: a resumed
\* updater finds an earlier update's copy (Recover, upgrade.go), the older
\* version is started between the binary and the databases that are put back
\* (restore, upgrade.go), an updater whose undo left the databases newer is
\* interrupted before its result (restore), and a release is handed over before
\* the result of the one that was given up is read (abandonUpdate, update.go).
Closed == ~AnyCopy /\ ~AnyUndo /\ ~Overlap /\ "putBackDatabases" \notin InterruptedAt

Installing == {"check", "copy", "stop", "databases", "install"}
Stopped == {"databases", "install", "start", "putBack", "putBackDatabases", "restart"}
Saved == {"install", "start", "health", "undo", "putBack", "putBackDatabases"}

\* The update at hand is on record, and in the copied databases where these
\* may be put back.
Named ==
    /\ staging # None => op[staging] # "none"
    /\ request # None => op[request] # "none"
    /\ applying # None => op[applying] # "none"
    /\ upd.pc = "report" => upd.outcome # "none"
    /\ result = NoResult \/ result.outcome # "none"
    /\ upd.pc \in Saved /\ copy.done => copy.op[upd.op] # "none"
    /\ applying # None /\ copy.done /\ copy.version = from[applying] /\ bin # copy.version
         => copy.op[applying] # "none"

\* Nothing starts the services while the updater has them stopped.
Services ==
    /\ upd.pc \in Stopped => ~up /\ ~boot
    /\ ~up => staging = None

\* The update replaces what is installed, and the copy is of that.
Replaced ==
    /\ upd.pc \in Working => request = None
    /\ staging # None => from[staging] = bin
    /\ request # None => from[request] = bin
    /\ upd.pc \in Installing => from[upd.op] = bin
    /\ upd.pc \in Installing \ {"check"} => staged \in {None, upd.op}
    /\ upd.pc \in Copied => copy.version = from[upd.op]
    /\ applying # None /\ upd.pc \in {"off", "claim", "recover"} =>
         copy.version \in {None, from[applying]}
    /\ upd.pc = "resumed" => bin = from[upd.op] + 1
    /\ upd.pc = "install" => copy.done
    /\ upd.pc \in {"stop", "databases"} => ~copy.done
    /\ copy.version # None /\ ~copy.done => bin = copy.version

\* Where an undo that failed goes on, and where that isn't said yet.
Untold == {"putBackDatabases", "restart", "report"}
Failing == Untold \cup {"clean", "finish"}

\* Databases fit a version, or a result said that they don't.
Fits(d, v) == d <= v \/ d \in told

\* The databases fit what is installed, but where they are put back next and
\* until the result of an undo that failed.
DataFit ==
    /\ upd.outcome = "failed" => upd.pc \in Failing
    /\ copy.done => Fits(copy.db, copy.version)
    /\ upd.pc = "putBackDatabases" => bin = copy.version \/ upd.outcome = "failed"
    /\ \/ upd.pc = "putBackDatabases" /\ copy.done
       \/ upd.pc \in Untold /\ upd.outcome = "failed"
       \/ Fits(db, bin)

Whole == Types /\ Named /\ Services /\ Replaced /\ DataFit

LEMMA WholeInit == Init => Whole
<1> SUFFICES ASSUME Init PROVE Whole
  OBVIOUS
<1>1. /\ upd.pc = "off" /\ upd.outcome = "none" /\ ~copy.done /\ copy.version = None
      /\ staging = None /\ request = None /\ applying = None
      /\ result = NoResult /\ up /\ db = 1 /\ bin = 1
  BY DEF Init, Off, NoCopy
<1>2. upd.pc \notin Copied \cup Working \cup Saved \cup Installing \cup Stopped
  BY <1>1 DEF Copied, Working, Steps, Saved, Installing, Stopped
<1> QED
  BY <1>1, <1>2, TypesInit DEF Whole, Named, Services, Replaced, DataFit, Fits

\* A step of the updater from p to one of Q, for the same update.
Move(p, Q) == upd.pc = p /\ upd'.pc \in Q /\ upd'.op = upd.op

LEMMA Moves ==
    ASSUME Values
    PROVE  /\ Check => Move("check", {"copy", "report"})
           /\ SaveCopy => Move("copy", {"stop", "report"})
           /\ Stop => Move("stop", {"databases"})
           /\ SaveDatabases => Move("databases", {"install"})
           /\ Install => Move("install", {"start", "undo"})
           /\ Start => Move("start", {"health"})
           /\ Health => Move("health", {"report", "undo"}) \/ Move("resumed", {"report", "undo"})
           /\ Recover => Move("recover", {"report", "resumed", "healthBack", "undo"})
           /\ Undo => Move("undo", {"putBack"})
           /\ PutBack => Move("putBack", {"putBackDatabases"})
           /\ PutBackDatabases => Move("putBackDatabases", {"restart"})
           /\ PutBackPartly => Move("putBackDatabases", {"restart"})
           /\ Restart => Move("restart", {"healthBack", "report"})
           /\ RestartFails => Move("restart", {"report"})
           /\ RecoverFails => Move("recover", {"report"})
           /\ HealthBack => Move("healthBack", {"report"})
           /\ WriteResult => Move("report", {"clean"})
           /\ Clean => Move("clean", {"finish"})
           /\ StepFails => \E p \in Copied \ {"resumed", "undo", "putBack", "putBackDatabases"} :
                              Move(p, {"undo"})
<1>1. \A pc \in Steps : Go(pc) => upd'.pc = pc /\ upd'.op = upd.op
  BY GoKept
<1>2. \A r \in Outcomes : Report(r) => upd'.pc = "report" /\ upd'.op = upd.op
  BY GoKept
<1>g. \A pc \in Steps : GoFailed(pc) => upd'.pc = pc /\ upd'.op = upd.op
  BY GoKept
<1> USE DEF Move, At
<1>3. /\ Check => Move("check", {"copy", "report"})
      /\ SaveCopy => Move("copy", {"stop", "report"})
      /\ Stop => Move("stop", {"databases"})
      /\ SaveDatabases => Move("databases", {"install"})
  BY <1>1, <1>2 DEF Check, SaveCopy, Stop, SaveDatabases, Steps, Outcomes
<1>4. /\ Install => Move("install", {"start", "undo"})
      /\ Start => Move("start", {"health"})
      /\ Health => Move("health", {"report", "undo"}) \/ Move("resumed", {"report", "undo"})
      /\ Recover => Move("recover", {"report", "resumed", "healthBack", "undo"})
  BY <1>1, <1>2 DEF Install, Start, StartServices, Health, Recover, Steps, Outcomes
<1>5. /\ Undo => Move("undo", {"putBack"})
      /\ PutBack => Move("putBack", {"putBackDatabases"})
      /\ PutBackDatabases => Move("putBackDatabases", {"restart"})
      /\ PutBackPartly => Move("putBackDatabases", {"restart"})
      /\ Restart => Move("restart", {"healthBack", "report"})
      /\ RestartFails => Move("restart", {"report"})
      /\ RecoverFails => Move("recover", {"report"})
  BY <1>1, <1>2, <1>g DEF Undo, PutBack, PutBackDatabases, PutBackPartly, Restart,
     RestartFails, RecoverFails, StartServices, Steps, Outcomes
<1>6. /\ HealthBack => Move("healthBack", {"report"})
      /\ WriteResult => Move("report", {"clean"})
      /\ Clean => Move("clean", {"finish"})
  BY <1>1, <1>2 DEF HealthBack, WriteResult, Clean, Steps, Outcomes
<1>7. StepFails => \E p \in Copied \ {"resumed", "undo", "putBack", "putBackDatabases"} :
                      Move(p, {"undo"})
  BY <1>1 DEF StepFails, Copied, Steps
<1> QED
  BY <1>3, <1>4, <1>5, <1>6, <1>7

(* What changes the files, what is installed and the copy.                *)
LEMMA Changes ==
    ASSUME [Next]_vars
    PROVE  /\ staging' \in {staging, None} \/ \E o \in Op : StageBegin(o)
           /\ request' \in {request, None} \/ StageDone
           /\ applying' \in {applying, None} \/ Claim
           /\ staged' \in {staged, None} \/ StageDone
           /\ result' \in {result, NoResult} \/ WriteResult
           /\ bin' = bin \/ Install \/ PutBack
           /\ copy' = copy \/ SaveCopy \/ SaveDatabases
           /\ from' = from \/ \E o \in Op : StageBegin(o)
<1> DEFINE Goal ==
           /\ staging' \in {staging, None} \/ \E o \in Op : StageBegin(o)
           /\ request' \in {request, None} \/ StageDone
           /\ applying' \in {applying, None} \/ Claim
           /\ staged' \in {staged, None} \/ StageDone
           /\ result' \in {result, NoResult} \/ WriteResult
           /\ bin' = bin \/ Install \/ PutBack
           /\ copy' = copy \/ SaveCopy \/ SaveDatabases
           /\ from' = from \/ \E o \in Op : StageBegin(o)
<1> USE DEF agent, files, host
<1>1. CASE StageDone \/ StageFails \/ Collect \/ WatchSees \/ WatchGives \/ WatchLong
  BY <1>1 DEF StageDone, StageFails, Collect, WatchSees, WatchGives, WatchLong
<1>2. ASSUME NEW o \in Op, StageBegin(o) PROVE Goal
  BY <1>2 DEF StageBegin
<1>3. CASE AgentRestarts \/ Start \/ Restart \/ Boot \/ Recover
  BY <1>3 DEF AgentRestarts, Start, Restart, StartServices, Boot, Recover, AgentLoads
<1>4. CASE Claim \/ UpdaterStarts \/ Check \/ SaveCopy \/ SaveDatabases \/ Stop \/ Install \/ Undo
  BY <1>4 DEF Claim, UpdaterStarts, Check, SaveCopy, SaveDatabases, Stop, Install, Undo, AgentGone
<1>5. CASE Health \/ PutBack \/ PutBackDatabases \/ HealthBack \/ WriteResult \/ Clean \/ Finish
  BY <1>5 DEF Health, PutBack, PutBackDatabases, HealthBack, WriteResult, Clean, Finish
<1>6. CASE UndoFails \/ StepFails \/ TimePasses \/ Killed \/ PowerCut \/ UNCHANGED vars
  BY <1>6 DEF UndoFails, PutBackPartly, RestartFails, RecoverFails,
     StepFails, TimePasses, Killed, PowerCut, AgentGone, vars
<1> QED
  BY <1>1, <1>2, <1>3, <1>4, <1>5, <1>6 DEF Next, AgentSteps, UpdaterSteps

(* What starts and stops the services.                                    *)
LEMMA UpDown ==
    ASSUME [Next]_vars
    PROVE  \/ UNCHANGED <<up, boot>>
           \/ (boot \/ up) /\ up' /\ ~boot' /\ UNCHANGED upd
           \/ Start \/ Restart \/ Stop \/ Undo
           \/ Recover /\ up' /\ ~boot'
           \/ PowerCut
<1> USE DEF agent, files, host
<1>1. CASE AgentSteps
  BY <1>1 DEF AgentSteps, StageBegin, StageDone, StageFails, Collect, WatchSees, WatchGives,
     WatchLong, AgentRestarts
<1>2. CASE UpdaterSteps
  BY <1>2 DEF UpdaterSteps, Claim, UpdaterStarts, Check, SaveCopy, SaveDatabases, Install,
     Health, Recover, PutBack, PutBackDatabases, HealthBack, WriteResult, Clean, Finish
<1>3. CASE UndoFails \/ StepFails \/ TimePasses \/ Killed \/ Boot \/ PowerCut \/ UNCHANGED vars
  BY <1>3 DEF UndoFails, PutBackPartly, RestartFails, RecoverFails,
     StepFails, TimePasses, Killed, Boot, vars
<1> QED
  BY <1>1, <1>2, <1>3 DEF Next

(* Where the updater is after a step.                                     *)
LEMMA UpdaterGoes ==
    ASSUME Types, [Next]_vars
    PROVE  \/ upd' = upd
           \/ upd'.pc = "off"
           \/ upd.pc = "off" /\ upd'.pc = "claim"
           \/ Claim /\ request # None /\ applying' = request /\ request' = None
                    /\ upd'.pc = "check" /\ upd'.op = request
           \/ Claim /\ request = None /\ request' = None /\ applying # None
                    /\ applying' = applying /\ upd'.pc = "recover" /\ upd'.op = applying
           \/ Check \/ SaveCopy \/ Stop \/ SaveDatabases \/ Install \/ Start \/ Health
           \/ Recover \/ Undo \/ PutBack \/ PutBackDatabases \/ Restart \/ HealthBack
           \/ WriteResult \/ Clean \/ StepFails
           \/ PutBackPartly \/ RestartFails \/ RecoverFails
<1>v. request \in Op \cup {None} /\ applying \in Op \cup {None}
  BY DEF Types, Values, FilesTyped
<1>1. CASE AgentSteps \/ TimePasses \/ Boot \/ UNCHANGED vars
  BY <1>1 DEF AgentSteps, StageBegin, StageDone, StageFails, Collect, WatchSees, WatchGives,
     WatchLong, AgentRestarts, TimePasses, Boot, vars
<1>2. CASE UpdaterStarts
  BY <1>2, OffIs DEF UpdaterStarts, At, Steps
<1>3. CASE Claim
  <2>1. CASE request # None
    <3>1. upd' = [Off EXCEPT !.pc = "check", !.op = request] /\ request \in Op
      BY <1>3, <1>v, <2>1 DEF Claim
    <3>s. "check" \in Steps
      BY DEF Steps
    <3>2. upd'.pc = "check" /\ upd'.op = request
      BY <3>1, <3>s, OffIs
    <3> QED
      BY <1>3, <2>1, <3>2 DEF Claim
  <2>2. CASE request = None /\ applying # None
    <3>1. upd' = [Off EXCEPT !.pc = "recover", !.op = applying] /\ applying \in Op
      BY <1>3, <1>v, <2>2 DEF Claim
    <3>s. "recover" \in Steps
      BY DEF Steps
    <3>2. upd'.pc = "recover" /\ upd'.op = applying
      BY <3>1, <3>s, OffIs
    <3> QED
      BY <1>3, <2>2, <3>2 DEF Claim
  <2>3. CASE request = None /\ applying = None
    BY <1>3, <2>3, OffIs DEF Claim
  <2> QED
    BY <2>1, <2>2, <2>3
<1>4. CASE Finish \/ Killed \/ PowerCut
  BY <1>4, OffIs DEF Finish, Killed, PowerCut
<1> QED
  BY <1>1, <1>2, <1>3, <1>4 DEF Next, UpdaterSteps, UndoFails

\* The copied records are put back.
PutsBack ==
    /\ PutBackDatabases \/ PutBackPartly
    /\ copy.done /\ op' = copy.op

\* What is lost was on record.
LEMMA LostIs == \A o \in Op : Lost[o] # "none" <=> op[o] # "none"
BY DEF Lost

(* What an update that is on record starts from doesn't change, and it     *)
(* stays on record.                                                        *)
LEMMA StaysNamed ==
    ASSUME Whole, [Next]_vars
    PROVE  \A o \in Op : op[o] # "none" =>
              /\ from'[o] = from[o]
              /\ op'[o] # "none" \/ PutsBack
<1>v. op \in Records /\ from \in [Op -> Version \cup {None}] /\ result \in Results /\ Values
      /\ bin \in Version
  BY DEF Whole, Types, Values, AgentTyped, FilesTyped, HostTyped
<1>n. result = NoResult \/ result.outcome # "none"
  BY DEF Whole, Named
<1>1. ASSUME NEW p \in Op, op[p] # "none" PROVE from'[p] = from[p]
  <2>1. ASSUME NEW o \in Op, StageBegin(o) PROVE from'[p] = from[p]
    BY <1>v, <1>1, <2>1 DEF StageBegin
  <2> QED
    BY <2>1, Changes
<1>2. ASSUME NEW p \in Op, op[p] # "none"
      PROVE  op'[p] # "none" \/ PutsBack
  <2>1. ASSUME NEW o \in Op, StageBegin(o) PROVE op'[p] # "none"
    BY <1>v, <1>2, <2>1 DEF StageBegin, Records
  <2>2. CASE StageFails \/ WatchGives \/ WatchLong
    BY <1>v, <1>2, <2>2 DEF StageFails, WatchGives, WatchLong, Abandon, Records
  <2>3. CASE Collect
    BY <1>v, <1>n, <1>2, <2>3 DEF Collect, Records
  <2>4. CASE AgentLoads(bin)
    BY <1>v, <1>2, <2>4, LoadKept
  <2>5. CASE PutBackDatabases \/ PutBackPartly
    BY <1>2, <2>5, LostIs DEF PutBackDatabases, PutBackPartly, PutsBack
  <2>6. CASE op' = op
    BY <1>2, <2>6
  <2> QED
    BY <2>1, <2>2, <2>3, <2>4, <2>5, <2>6, AgentChanges
       DEF agent, StageDone, WatchSees, AgentGone
<1> QED
  BY <1>1, <1>2

(* The services keep off while the updater works on them.                  *)
LEMMA ServicesKept == ASSUME Whole, [Next]_vars PROVE Services'
<1>v. Values /\ Services /\ up \in BOOLEAN /\ boot \in BOOLEAN
  BY DEF Whole, Types, Values, HostTyped
<1>1. upd'.pc \in Stopped => ~up' /\ ~boot'
  <2> SUFFICES ASSUME upd'.pc \in Stopped PROVE ~up' /\ ~boot'
    OBVIOUS
  <2>1. CASE Stop \/ Undo
    BY <2>1 DEF Stop, Undo
  <2>2. Stop \/ Undo \/ upd.pc \in Stopped
    BY <1>v, Moves, UpdaterGoes DEF Whole, Move, Stopped, Copied
  <2>3. CASE upd.pc \in Stopped /\ ~Stop /\ ~Undo
    <3>1. ~up /\ ~boot
      BY <1>v, <2>3 DEF Services
    <3>2. ~Start /\ ~Restart /\ ~Recover /\ ~PowerCut
      BY <1>v, <2>3, Moves, OffIs DEF Move, Stopped, PowerCut
    <3> QED
      BY <2>3, <3>1, <3>2, UpDown
  <2> QED
    BY <2>1, <2>2, <2>3
<1>2. ~up' => staging' = None
  <2>1. CASE Stop \/ Undo \/ PowerCut
    BY <2>1 DEF Stop, Undo, PowerCut, AgentGone
  <2>2. Start \/ Restart => up'
    BY DEF Start, Restart, StartServices
  <2>3. ASSUME NEW o \in Op, StageBegin(o) PROVE up'
    BY <2>3 DEF StageBegin, host
  <2> QED
    BY <1>v, <2>1, <2>2, <2>3, UpDown, Changes DEF Services
<1> QED
  BY <1>1, <1>2 DEF Services

\* What is known of each variable's value.
LEMMA WholeTypes ==
    ASSUME Whole
    PROVE  /\ Op \subseteq Nat /\ None \notin Op /\ Version \subseteq Nat /\ None \notin Version
           /\ op \in Records /\ from \in [Op -> Version \cup {None}]
           /\ staging \in Op \cup {None} /\ installing \in Op \cup {None}
           /\ request \in Op \cup {None} /\ applying \in Op \cup {None}
           /\ staged \in Op \cup {None} /\ result \in Results /\ sawRequest \in BOOLEAN
           /\ bin \in Version /\ up \in BOOLEAN /\ copy \in Copies /\ upd \in Updaters
           /\ upd.pc \in Working => upd.op \in Op /\ applying = upd.op
           /\ copy = NoCopy \/ copy.version # None
           /\ Values
BY UpdatesAssumption DEF Whole, Types, Values, AgentTyped, FilesTyped, HostTyped, CopyWhole,
   Op, Version, None

\* What is applied stays, until the next is or it is over.
LEMMA ApplyingGoes ==
    ASSUME [Next]_vars
    PROVE  \/ applying' = applying
           \/ Claim /\ request # None
           \/ Finish /\ upd.pc = "finish" /\ applying' = None
<1>1. CASE AgentSteps
  BY <1>1 DEF AgentSteps, StageBegin, StageDone, StageFails, Collect, WatchSees, WatchGives,
     WatchLong, AgentRestarts, files
<1>2. CASE UpdaterSteps
  BY <1>2 DEF UpdaterSteps, UpdaterStarts, Claim, Check, SaveCopy, Stop, SaveDatabases, Install,
     Start, Health, Recover, Undo, PutBack, PutBackDatabases, Restart, HealthBack,
     WriteResult, Clean, Finish, StartServices, files, At
<1>3. CASE UndoFails \/ StepFails \/ TimePasses \/ Killed \/ PowerCut \/ Boot \/ UNCHANGED vars
  BY <1>3 DEF UndoFails, PutBackPartly, RestartFails, RecoverFails,
     StepFails, TimePasses, Killed, PowerCut, Boot, vars, files
<1> QED
  BY <1>1, <1>2, <1>3 DEF Next

\* The updater may come to put the copied databases back.
Held ==
    /\ copy.done /\ applying # None
    /\ \/ upd.pc \in Saved
       \/ copy.version = from[applying] /\ bin # copy.version

\* Where it may, it could before the step.
LEMMA HeldBefore ==
    ASSUME Whole, [Next]_vars, copy' = copy, copy.done, upd'.pc \in Saved, ~SaveDatabases
    PROVE  Held /\ applying' = applying
<1>v. /\ Values /\ Types /\ Replaced
      /\ upd.pc \in Working => upd.op \in Op /\ applying = upd.op
  BY WholeTypes DEF Whole
<1>m. /\ None \notin Op
      /\ Saved \cap {"off", "claim", "check", "recover", "report", "stop", "databases",
                     "restart", "healthBack", "clean", "finish", "copy"} = {}
      /\ Saved \subseteq Working
  BY WholeTypes DEF Saved, Working, Steps
<1>1. applying' = applying
  <2>1. ~Finish
    BY <1>m, OffIs DEF Finish
  <2>2. Claim /\ request # None => upd'.pc = "check"
    <3>1. "check" \in Steps
      BY DEF Steps
    <3>2. \A o \in Op : [Off EXCEPT !.pc = "check", !.op = o].pc = "check"
      BY <3>1, OffIs
    <3> QED
      BY <3>2, WholeTypes DEF Claim
  <2> QED
    BY <1>m, <2>1, <2>2, ApplyingGoes
<1>2. CASE upd.pc \in Saved
  BY <1>1, <1>2, <1>v, <1>m DEF Held
<1>3. CASE Recover \/ (Health /\ upd.pc = "resumed")
  <2>1. upd'.pc = "undo" /\ upd'.op = upd.op /\ upd.op \in Op /\ applying = upd.op
    BY <1>v, <1>3, Moves DEF Move, Saved, Working, Steps
  <2>2. copy.version = from[applying] /\ bin # copy.version
    <3>1. CASE Recover
      BY <1>v, <3>1, <2>1, GoKept, Moves
         DEF Recover, At, Replaced, Move, Whole, Types, CopyWhole, Want, Op, None, Steps,
             Outcomes
    <3>2. CASE Health /\ upd.pc = "resumed"
      BY <1>v, <3>2, <2>1, WholeTypes DEF Replaced, Copied
    <3> QED
      BY <1>3, <3>1, <3>2
  <2> QED
    BY <1>1, <1>m, <2>1, <2>2 DEF Held
<1>4. CASE upd.pc \notin Saved /\ ~Recover /\ ~(Health /\ upd.pc = "resumed")
  <2>1. ~StepFails
    BY <1>v, <1>4, Moves DEF Move, Saved, Copied, Replaced
  <2>2. /\ ~Install /\ ~Start /\ ~Undo /\ ~PutBack /\ ~Health
    BY <1>v, <1>4, Moves DEF Move, Saved
  <2>3. /\ ~Check /\ ~SaveCopy /\ ~Stop /\ ~PutBackDatabases /\ ~Restart /\ ~HealthBack
        /\ ~PutBackPartly /\ ~RestartFails /\ ~RecoverFails
        /\ ~WriteResult /\ ~Clean
    BY <1>v, <1>m, Moves DEF Move
  <2> QED
    BY <1>v, <1>m, <1>4, <2>1, <2>2, <2>3, UpdaterGoes
<1> QED
  BY <1>2, <1>3, <1>4

(* The update at hand is on record.                                        *)
LEMMA NamedKept == ASSUME Whole, [Next]_vars PROVE Named'
<1>v. /\ Values /\ Types /\ Named /\ Services /\ Replaced
      /\ op \in Records /\ from \in [Op -> Version \cup {None}] /\ copy \in Copies
      /\ staging \in Op \cup {None} /\ request \in Op \cup {None}
      /\ applying \in Op \cup {None}
      /\ upd.pc \in Working => upd.op \in Op /\ applying = upd.op
  BY DEF Whole, Types, Values, AgentTyped, FilesTyped, HostTyped, CopyWhole
<1>m. PutsBack => /\ upd.pc = "putBackDatabases" /\ staging = None /\ request = None
                  /\ upd.op \in Op /\ applying = upd.op
                  /\ copy.done => copy.op[upd.op] # "none"
  BY <1>v, Moves DEF PutsBack, Move, Services, Stopped, Working, Steps, Replaced, Named, Saved
<1>1. staging' # None => op'[staging'] # "none"
  <2>1. ASSUME NEW o \in Op, StageBegin(o) PROVE op'[staging'] # "none"
    BY <1>v, <2>1 DEF StageBegin, Records
  <2>2. CASE staging' = staging /\ staging # None
    BY <1>v, <1>m, <2>2, StaysNamed DEF Named
  <2> QED
    BY <2>1, <2>2, Changes
<1>2. request' # None => op'[request'] # "none"
  <2>1. CASE StageDone
    BY <1>v, <2>1 DEF StageDone, Named
  <2>2. CASE request' = request /\ request # None
    BY <1>v, <1>m, <2>2, StaysNamed DEF Named
  <2> QED
    BY <2>1, <2>2, Changes
<1>3. applying' # None => op'[applying'] # "none"
  <2>1. CASE Claim
    BY <1>v, <2>1 DEF Claim, Named, agent
  <2>2. CASE applying' = applying /\ applying # None
    BY <1>v, <1>m, <2>2, StaysNamed DEF Named, PutsBack
  <2> QED
    BY <2>1, <2>2, Changes
<1>4. upd'.pc = "report" => upd'.outcome # "none"
  <2>1. \A r \in Outcomes : Report(r) => upd'.outcome # "none"
    BY <1>v, GoKept DEF Outcomes
  <2>2. \A pc \in Steps \ {"report"} : Go(pc) => upd'.pc # "report"
    BY <1>v, GoKept
  <2>3. Check \/ SaveCopy \/ Health \/ HealthBack \/ Recover \/ RestartFails \/ RecoverFails =>
          \/ \E r \in Outcomes : Report(r)
          \/ \E pc \in Steps \ {"report"} : Go(pc)
    BY DEF Check, SaveCopy, Health, HealthBack, Recover, RestartFails, RecoverFails, Outcomes,
       Steps
  <2>4. Restart => upd'.pc = "healthBack" \/ upd'.outcome = "failed"
    BY <1>v, GoKept DEF Restart, StartServices, Steps
  <2> QED
    BY <1>v, <2>1, <2>2, <2>3, <2>4, Moves, UpdaterGoes DEF Move, Named
<1>5. result' = NoResult \/ result'.outcome # "none"
  <2>1. CASE WriteResult
    BY <1>v, <2>1 DEF WriteResult, At, Named
  <2> QED
    BY <1>v, <2>1, Changes DEF Named
<1>6. upd'.pc \in Saved /\ copy'.done => copy'.op[upd'.op] # "none"
  <2> SUFFICES ASSUME upd'.pc \in Saved, copy'.done PROVE copy'.op[upd'.op] # "none"
    OBVIOUS
  <2>1. CASE SaveDatabases
    <3>1. copy'.op = op /\ upd'.op = upd.op /\ upd.op \in Op /\ applying = upd.op
      BY <1>v, <2>1, Moves DEF SaveDatabases, Copies, Move, Working, Steps
    <3> QED
      BY <1>v, <3>1, UpdatesAssumption DEF Named, Op, None
  <2>2. CASE SaveCopy
    BY <1>v, <2>2, Moves DEF Move, Saved
  <2>3. CASE copy' = copy /\ ~SaveDatabases
    <3>1. Held /\ applying' = applying
      BY <2>3, HeldBefore
    <3>2. copy.op[applying] # "none"
      BY <1>v, <3>1 DEF Held, Named, Saved, Working, Steps
    <3>3. upd'.op = applying'
      BY <1>v, UpdaterKept DEF Saved, Working, Steps
    <3> QED
      BY <2>3, <3>1, <3>2, <3>3
  <2> QED
    BY <2>1, <2>2, <2>3, Changes
<1>7. applying' # None /\ copy'.done /\ copy'.version = from'[applying'] /\ bin' # copy'.version
        => copy'.op[applying'] # "none"
  <2> SUFFICES ASSUME applying' # None, copy'.done, copy'.version = from'[applying'],
                      bin' # copy'.version
               PROVE  copy'.op[applying'] # "none"
    OBVIOUS
  <2>1. CASE Claim
    BY <1>v, <2>1, StaysNamed DEF Claim, host, Replaced, Named, agent
  <2>2. CASE SaveCopy
    BY <1>v, <2>2 DEF SaveCopy, NoCopy
  <2>3. CASE SaveDatabases
    BY <1>v, <2>3 DEF SaveDatabases, Copies, files, Named
  <2>4. CASE applying' = applying /\ copy' = copy
    <3>1. from'[applying] = from[applying]
      BY <1>v, <2>4, StaysNamed DEF Named
    <3>2. CASE bin' = bin
      BY <1>v, <2>4, <3>1, <3>2 DEF Named
    <3>3. CASE Install
      BY <1>v, <2>4, <3>3, Moves DEF Move, Named, Saved, Working, Steps
    <3>4. CASE PutBack
      BY <2>4, <3>2, <3>4 DEF PutBack
    <3> QED
      BY <3>2, <3>3, <3>4, Changes
  <2> QED
    BY <2>1, <2>2, <2>3, <2>4, Changes
<1> QED
  BY <1>1, <1>2, <1>3, <1>4, <1>5, <1>6, <1>7 DEF Named

(* The update replaces what is installed, and the copy is of that.         *)
LEMMA ReplacedKept == ASSUME Closed, Whole, [Next]_vars PROVE Replaced'
<1>v. /\ Values /\ Types /\ Named /\ Services /\ Replaced
      /\ op \in Records /\ from \in [Op -> Version \cup {None}] /\ copy \in Copies
      /\ staging \in Op \cup {None} /\ request \in Op \cup {None}
      /\ applying \in Op \cup {None} /\ bin \in Version
      /\ upd.pc \in Working => upd.op \in Op /\ applying = upd.op
      /\ upd.pc \in Copied => copy.version # None
      /\ copy = NoCopy \/ copy.version # None
  BY DEF Whole, Types, Values, AgentTyped, FilesTyped, HostTyped, CopyWhole
<1>n. None \notin Op /\ None \notin Version
  BY UpdatesAssumption DEF Op, Version, None
\* What the updater works for starts from what it did.
<1>f. upd.pc \in Working => from'[upd.op] = from[upd.op]
  BY <1>v, <1>n, StaysNamed DEF Named
<1>b. bin' # bin => /\ staging = None /\ request = None
                    /\ \/ Install /\ upd.pc = "install"
                       \/ PutBack /\ upd.pc = "putBack" /\ bin' = copy.version
                    /\ ~\E o \in Op : StageBegin(o)
  <2>1. \A o \in Op : StageBegin(o) => bin' = bin
    BY DEF StageBegin, host
  <2>2. Install \/ PutBack => upd.pc \in {"install", "putBack"} /\ staging = None /\ request = None
    BY <1>v, Moves DEF Move, Services, Stopped, Replaced, Working, Steps
  <2>3. PutBack => bin' \in {bin, copy.version}
    BY DEF PutBack
  <2> QED
    BY <1>v, <2>1, <2>2, <2>3, Changes, Moves DEF Move
<1>1. upd'.pc \in Working => request' = None
  <2>1. CASE StageDone
    BY <2>1 DEF StageDone, Closed, Working, Steps
  <2>2. CASE Claim
    BY <2>2, UpdaterGoes, <1>v DEF Claim, Working
  <2>3. CASE ~StageDone /\ ~Claim
    <3>1. upd.pc \in Working \/ upd'.pc \in {"off", "claim"} \/ upd' = upd
      BY <1>v, <2>3, Moves, UpdaterGoes DEF Move, Working, Steps, Copied
    <3> QED
      BY <1>v, <2>3, <3>1, Changes DEF Replaced, Working, Steps
  <2> QED
    BY <2>1, <2>2, <2>3
<1>2. staging' # None => from'[staging'] = bin'
  <2>1. ASSUME NEW o \in Op, StageBegin(o) PROVE from'[staging'] = bin'
    BY <1>v, <2>1 DEF StageBegin, host
  <2>2. CASE staging' = staging /\ staging # None
    BY <1>v, <1>b, <2>2, StaysNamed DEF Replaced, Named
  <2> QED
    BY <2>1, <2>2, Changes
<1>3. request' # None => from'[request'] = bin'
  <2>1. CASE StageDone
    BY <1>v, <2>1 DEF StageDone, Replaced, host
  <2>2. CASE request' = request /\ request # None
    BY <1>v, <1>b, <2>2, StaysNamed DEF Replaced, Named
  <2> QED
    BY <2>1, <2>2, Changes
<1>4. upd'.pc \in Installing => from'[upd'.op] = bin'
  <2> SUFFICES ASSUME upd'.pc \in Installing PROVE from'[upd'.op] = bin'
    OBVIOUS
  <2>1. CASE Claim
    <3>1. upd'.op = request /\ request # None /\ bin' = bin /\ from' = from
      <4>1. upd.pc = "claim" /\ bin' = bin /\ from' = from
        BY <2>1 DEF Claim, At, host, agent
      <4> QED
        BY <1>v, <4>1, Moves, UpdaterGoes DEF Installing, Move, Copied
    <3> QED
      BY <1>v, <3>1 DEF Replaced
  <2>2. CASE ~Claim
    <3>1. (upd' = upd /\ upd.pc \in Installing)
          \/ (upd'.op = upd.op /\ upd.pc \in Installing /\ upd.pc # "install")
      BY <1>v, <2>2, Moves, UpdaterGoes DEF Move, Installing, Copied
    <3>2. upd.pc \in Working
      BY <3>1 DEF Installing, Working, Steps
    <3>3. bin' = bin
      <4>1. CASE Install
        BY <3>1, <4>1, Moves, <1>v DEF Move, Installing
      <4> QED
        BY <1>b, <3>1, <4>1 DEF Installing
    <3> QED
      BY <1>v, <1>f, <3>1, <3>2, <3>3 DEF Replaced
  <2> QED
    BY <2>1, <2>2
<1>5. upd'.pc \in Installing \ {"check"} => staged' \in {None, upd'.op}
  <2> SUFFICES ASSUME upd'.pc \in Installing \ {"check"} PROVE staged' \in {None, upd'.op}
    OBVIOUS
  <2>1. upd'.op = upd.op /\ (upd.pc \in Installing \ {"check"} \/ Check)
    BY <1>v, Moves, UpdaterGoes DEF Move, Installing, Copied
  <2>2. CASE Check
    <3>1. staged = upd.op
      <4>1. Report("refused") => upd'.pc = "report"
        BY <1>v, GoKept DEF Outcomes
      <4> QED
        BY <2>2, <4>1 DEF Check, Installing
    <3> QED
      BY <2>1, <2>2, <3>1 DEF Check, files
  <2>3. CASE upd.pc \in Installing \ {"check"}
    <3>1. ~StageDone
      BY <2>3 DEF StageDone, Closed, Installing
    <3> QED
      BY <1>v, <2>1, <2>3, <3>1, Changes DEF Replaced
  <2> QED
    BY <2>1, <2>2, <2>3
\* The copy is made in two of the updater's steps, and one of another update
\* isn't there when a step of the updater begins with it.
<1>c. copy' = copy \/ (SaveCopy /\ upd.pc = "copy" /\ upd'.pc \in {"stop", "report"} /\ upd'.op = upd.op
                        /\ bin' = bin
                        /\ (copy' = NoCopy \/ (copy'.version = bin /\ ~copy'.done)))
                   \/ (SaveDatabases /\ upd.pc = "databases" /\ upd'.pc = "install" /\ upd'.op = upd.op
                        /\ bin' = bin
                        /\ copy'.version = copy.version /\ copy'.done)
  <2>1. SaveCopy => copy' = NoCopy \/ (copy'.version = bin /\ ~copy'.done)
    BY DEF SaveCopy, NoCopy
  <2>2. SaveDatabases => copy'.version = copy.version /\ copy'.done
    BY <1>v DEF SaveDatabases, Copies
  <2>3. SaveCopy \/ SaveDatabases => bin' = bin
    BY DEF SaveCopy, SaveDatabases
  <2> QED
    BY <1>v, <2>1, <2>2, <2>3, Changes, Moves DEF Move
<1>z. NoCopy.version = None /\ ~NoCopy.done
  BY DEF NoCopy
<1>a. applying' # applying => Claim \/ applying' = None
  BY Changes
<1>r. Recover => /\ upd.pc = "recover" /\ UNCHANGED <<applying, bin, copy>> /\ upd'.op = upd.op
                 /\ upd'.pc \in {"resumed", "undo"} => copy # NoCopy
                 /\ upd'.pc = "resumed" => bin = from[upd.op] + 1
  <2>1. \A pc \in Steps : Go(pc) => upd'.pc = pc
    BY <1>v, GoKept
  <2>2. Report("rolled_back") => upd'.pc = "report"
    BY <1>v, GoKept DEF Outcomes
  <2> QED
    BY <1>v, <2>1, <2>2, Moves DEF Recover, Move, host, files, Want, Steps
<1>6. upd'.pc \in Copied => copy'.version = from'[upd'.op]
  <2> SUFFICES ASSUME upd'.pc \in Copied PROVE copy'.version = from'[upd'.op]
    OBVIOUS
  <2>1. CASE SaveCopy
    <3>1. copy' # NoCopy /\ upd.pc = "copy" /\ upd'.op = upd.op
      <4>1. Report("refused") => upd'.pc = "report"
        BY <1>v, GoKept DEF Outcomes
      <4>2. copy' = [NoCopy EXCEPT !.version = bin]
        BY <2>1, <4>1 DEF SaveCopy, Copied
      <4>3. copy'.version = bin
        BY <4>2 DEF NoCopy
      <4> QED
        BY <1>v, <1>n, <1>z, <2>1, <4>3, Moves DEF Move
    <3>2. copy'.version = bin
      BY <3>1, <2>1 DEF SaveCopy, NoCopy
    <3>3. bin = from[upd.op] /\ from'[upd.op] = from[upd.op]
      BY <1>v, <1>f, <3>1 DEF Replaced, Installing, Working, Steps
    <3> QED
      BY <3>1, <3>2, <3>3
  <2>2. CASE Recover
    <3>1. copy.version # None /\ applying = upd.op /\ upd.op \in Op
      <4>1. upd'.pc \in {"resumed", "undo"}
        BY <1>v, <2>2, Moves DEF Move, Copied
      <4> QED
        BY <1>v, <1>r, <2>2, <4>1 DEF Working, Steps
    <3>2. copy.version = from[upd.op]
      BY <1>v, <1>n, <1>r, <2>2, <3>1 DEF Replaced
    <3> QED
      BY <1>v, <1>f, <1>r, <2>2, <3>2 DEF Working, Steps
  <2>3. CASE ~SaveCopy /\ ~Recover
    <3>1. upd.pc \in Copied /\ upd'.op = upd.op
      BY <1>v, <2>3, Moves, UpdaterGoes DEF Move, Copied
    <3>2. copy'.version = copy.version
      BY <1>c, <2>3
    <3> QED
      BY <1>v, <1>f, <3>1, <3>2 DEF Replaced, Copied, Working, Steps
  <2> QED
    BY <2>1, <2>2, <2>3
<1>7. applying' # None /\ upd'.pc \in {"off", "claim", "recover"}
        => copy'.version \in {None, from'[applying']}
  <2> SUFFICES ASSUME applying' # None, upd'.pc \in {"off", "claim", "recover"}
               PROVE  copy'.version \in {None, from'[applying']}
    OBVIOUS
  <2>1. copy' = copy
    BY <1>c
  <2>2. applying' = applying /\ from'[applying] = from[applying]
    <3>1. applying' = applying
      <4>1. "check" \in Steps
        BY DEF Steps
      <4>2. request # None => [Off EXCEPT !.pc = "check", !.op = request].pc = "check"
        BY <1>v, <4>1, OffIs
      <4> QED
        BY <1>a, <4>2 DEF Claim
    <3> QED
      BY <1>v, <3>1, StaysNamed DEF Named
  <2>3. copy.version \in {None, from[applying]}
    <3>1. CASE Killed \/ PowerCut
      <4>1. copy.version \in {None} \cup {from[o] : o \in {upd.op} \ {None}} \/ upd.pc = "off"
        BY <3>1 DEF Killed, PowerCut, Interruptible, Closed, At
      <4>2. CASE upd.pc \in Working
        BY <1>v, <2>2, <4>1, <4>2 DEF Working, Steps
      <4>3. CASE upd.pc \in {"off", "claim"}
        BY <1>v, <2>2, <4>3 DEF Replaced
      <4> QED
        BY <1>v, <4>2, <4>3 DEF Values, Updaters, Working
    <3>2. upd.pc \in {"off", "claim", "recover"} \/ Killed \/ PowerCut
      <4>1. Finish => applying' = None
        BY DEF Finish
      <4>2. upd'.pc = "off" => upd' = upd \/ Claim \/ Finish \/ Killed \/ PowerCut
        <5>1. upd'.pc = "off" => ~(Check \/ SaveCopy \/ Stop \/ SaveDatabases \/ Install \/ Start
                \/ Health \/ Recover \/ Undo \/ PutBack \/ PutBackDatabases \/ Restart
                \/ HealthBack \/ WriteResult \/ Clean \/ StepFails
                \/ PutBackPartly \/ RestartFails \/ RecoverFails)
          BY <1>v, Moves DEF Move
        <5>2. UpdaterStarts => upd'.pc = "claim"
          BY OffIs DEF UpdaterStarts, Steps
        <5>3. AgentSteps \/ TimePasses \/ Boot \/ UNCHANGED vars => upd' = upd
          BY DEF AgentSteps, StageBegin, StageDone, StageFails, Collect, WatchSees,
             WatchGives, WatchLong, AgentRestarts, TimePasses, Boot, vars
        <5> QED
          BY <5>1, <5>2, <5>3 DEF Next, UpdaterSteps, UndoFails
      <4>3. Claim => upd.pc = "claim"
        BY DEF Claim, At
      <4> QED
        BY <1>v, <4>1, <4>2, <4>3, Moves, UpdaterGoes DEF Move
    <3> QED
      BY <1>v, <2>2, <3>1, <3>2 DEF Replaced
  <2> QED
    BY <2>1, <2>2, <2>3
<1>8. upd'.pc = "resumed" => bin' = from'[upd'.op] + 1
  <2> SUFFICES ASSUME upd'.pc = "resumed" PROVE bin' = from'[upd'.op] + 1
    OBVIOUS
  <2>1. Recover \/ (upd' = upd /\ upd.pc = "resumed")
    BY <1>v, Moves, UpdaterGoes DEF Move
  <2>2. bin' = bin
    BY <1>b, <1>r, <2>1
  <2>3. from'[upd.op] = from[upd.op]
    BY <1>f, <1>r, <2>1 DEF Working, Steps
  <2> QED
    BY <1>v, <1>r, <2>1, <2>2, <2>3 DEF Replaced
<1>9. upd'.pc = "install" => copy'.done
  <2> SUFFICES ASSUME upd'.pc = "install" PROVE copy'.done
    OBVIOUS
  <2>1. SaveDatabases \/ (upd' = upd /\ upd.pc = "install")
    BY <1>v, Moves, UpdaterGoes DEF Move
  <2> QED
    BY <1>v, <1>c, <2>1 DEF Replaced, SaveDatabases, Copies
<1>10. upd'.pc \in {"stop", "databases"} => ~copy'.done
  <2> SUFFICES ASSUME upd'.pc \in {"stop", "databases"} PROVE ~copy'.done
    OBVIOUS
  <2>1. SaveCopy \/ (upd.pc \in {"stop", "databases"} /\ upd.pc # "install")
    BY <1>v, Moves, UpdaterGoes DEF Move
  <2>2. ~SaveDatabases
    BY <1>v, Moves DEF Move
  <2> QED
    BY <1>v, <1>c, <1>z, <2>1, <2>2 DEF Replaced, SaveCopy, NoCopy
<1>11. copy'.version # None /\ ~copy'.done => bin' = copy'.version
  <2> SUFFICES ASSUME copy'.version # None, ~copy'.done PROVE bin' = copy'.version
    OBVIOUS
  <2>1. CASE copy' = copy
    <3>1. bin' = bin \/ PutBack
      BY <1>v, <1>b, <2>1 DEF Replaced
    <3> QED
      BY <1>v, <1>b, <2>1, <3>1 DEF Replaced, PutBack
  <2>2. CASE copy' # copy
    BY <1>c, <1>z, <2>2
  <2> QED
    BY <2>1, <2>2
<1> QED
  BY <1>1, <1>2, <1>3, <1>4, <1>5, <1>6, <1>7, <1>8, <1>9, <1>10, <1>11 DEF Replaced

(* An updater's outcome is that of an undo that failed, or of its report.  *)
LEMMA OutcomeGoes ==
    ASSUME Values, [Next]_vars
    PROVE  \/ upd' = upd
           \/ upd' = Off
           \/ upd'.outcome = "none"
           \/ upd'.outcome = upd.outcome /\ upd'.pc \in Steps
           \/ upd'.pc = "report"
           \/ upd'.pc \in Untold /\ upd'.outcome = "failed"
<1> DEFINE Goes == \/ upd' = upd
                   \/ upd' = Off
                   \/ upd'.outcome = "none"
                   \/ upd'.outcome = upd.outcome /\ upd'.pc \in Steps
                   \/ upd'.pc = "report"
                   \/ upd'.pc \in Untold /\ upd'.outcome = "failed"
<1>1. ASSUME NEW pc \in Steps, Go(pc) PROVE Goes
  BY <1>1, GoKept
<1>2. ASSUME NEW x \in Outcomes, Report(x) PROVE Goes
  BY <1>2, GoKept
<1>3. ASSUME NEW pc \in Untold, GoFailed(pc) PROVE Goes
  BY <1>3, GoKept DEF Untold, Steps
<1>4. CASE AgentSteps \/ TimePasses \/ Boot \/ UNCHANGED vars
  BY <1>4 DEF AgentSteps, StageBegin, StageDone, StageFails, Collect, WatchSees, WatchGives,
     WatchLong, AgentRestarts, TimePasses, Boot, vars
<1>5. CASE UpdaterStarts \/ Claim
  BY <1>5 DEF UpdaterStarts, Claim, Off
<1>6. CASE Finish \/ Killed \/ PowerCut
  BY <1>6 DEF Finish, Killed, PowerCut
<1>7. CASE Check \/ SaveCopy \/ Stop \/ SaveDatabases \/ Install \/ Start
  BY <1>1, <1>2, <1>7
     DEF Check, SaveCopy, Stop, SaveDatabases, Install, Start, StartServices, Steps, Outcomes
<1>8. CASE Health \/ Recover \/ Undo \/ PutBack \/ PutBackDatabases \/ Restart
  BY <1>1, <1>2, <1>3, <1>8
     DEF Health, Recover, Undo, PutBack, PutBackDatabases, Restart, StartServices, Steps,
         Outcomes, Untold
<1>9. CASE HealthBack \/ WriteResult \/ Clean \/ StepFails
  BY <1>1, <1>2, <1>9 DEF HealthBack, WriteResult, Clean, StepFails, Steps, Outcomes
<1>10. CASE PutBackPartly \/ RestartFails \/ RecoverFails
  BY <1>2, <1>3, <1>10 DEF PutBackPartly, RestartFails, RecoverFails, Outcomes, Untold
<1> QED
  BY <1>4, <1>5, <1>6, <1>7, <1>8, <1>9, <1>10 DEF Next, UpdaterSteps, UndoFails

(* What was said isn't unsaid.                                             *)
LEMMA SaidGrows == ASSUME [Next]_vars PROVE told \subseteq told'
<1>1. CASE AgentSteps
  BY <1>1 DEF AgentSteps, StageBegin, StageDone, StageFails, Collect, WatchSees, WatchGives,
     WatchLong, AgentRestarts, files
<1>2. CASE UpdaterSteps
  BY <1>2 DEF UpdaterSteps, UpdaterStarts, Claim, Check, SaveCopy, Stop, SaveDatabases, Install,
     Start, Health, Recover, Undo, PutBack, PutBackDatabases, Restart, HealthBack,
     WriteResult, Clean, Finish, StartServices, files
<1>3. CASE UndoFails \/ StepFails \/ TimePasses \/ Killed \/ PowerCut \/ Boot \/ UNCHANGED vars
  BY <1>3 DEF UndoFails, PutBackPartly, RestartFails, RecoverFails,
     StepFails, TimePasses, Killed, PowerCut, Boot, vars, files
<1> QED
  BY <1>1, <1>2, <1>3 DEF Next

(* The databases fit what is installed, but where they are put back next   *)
(* and until the result of an undo that failed.                            *)
LEMMA DataFitKept == ASSUME Closed, Whole, [Next]_vars PROVE DataFit'
<1>v. /\ Values /\ Types /\ Services /\ Replaced /\ DataFit
      /\ bin \in Version /\ db \in Version /\ copy \in Copies
      /\ from \in [Op -> Version \cup {None}]
      /\ upd.pc \in Working => upd.op \in Op
      /\ upd.pc \in Copied => copy.version # None
      /\ copy.done => copy.db # None
  BY DEF Whole, Types, Values, AgentTyped, HostTyped, CopyWhole
<1>n. Version \subseteq Nat /\ None \notin Version
  BY UpdatesAssumption DEF Version, None
<1>m. /\ SaveCopy => upd.pc = "copy" /\ upd'.pc \in {"stop", "report"}
      /\ SaveDatabases => upd.pc = "databases" /\ upd'.pc = "install"
      /\ Install => upd.pc = "install"
      /\ PutBack => upd.pc = "putBack" /\ upd'.pc = "putBackDatabases"
      /\ PutBackDatabases => upd.pc = "putBackDatabases" /\ upd'.pc = "restart"
      /\ PutBackPartly => upd.pc = "putBackDatabases" /\ upd'.pc = "restart"
  BY <1>v, Moves DEF Move
<1>g. \A d, v : Fits(d, v) => Fits(d, v)'
  BY SaidGrows DEF Fits
<1>f. upd'.outcome = "failed" => upd'.pc \in Failing
  <2> SUFFICES ASSUME upd'.outcome = "failed", upd.outcome = "failed",
                      upd' # upd, upd' # Off, upd'.pc \in Steps
               PROVE  upd'.pc \in Failing
    BY <1>v, OutcomeGoes DEF DataFit, Failing, Untold, Off
  <2>1. upd.pc \in Failing
    BY <1>v DEF DataFit
  <2>2. upd'.pc # "off"
    BY DEF Steps
  <2>3. ~Claim /\ ~Check /\ ~SaveCopy /\ ~Stop /\ ~SaveDatabases /\ ~Install /\ ~Start /\ ~Health
        /\ ~Recover /\ ~Undo /\ ~PutBack /\ ~HealthBack /\ ~StepFails /\ ~RecoverFails
        /\ upd.pc # "off"
    BY <1>v, <2>1, Moves DEF Move, Failing, Untold, Claim, At, Copied
  <2>4. CASE Restart
    <3>1. Go("report")
      BY <2>4 DEF Restart, StartServices
    <3> QED
      BY <1>v, <3>1, GoKept DEF Steps, Failing, Untold
  <2>5. CASE PutBackDatabases \/ PutBackPartly \/ RestartFails \/ WriteResult \/ Clean
    BY <1>v, <2>5, Moves DEF Move, Failing, Untold
  <2> QED
    BY <1>v, <2>2, <2>3, <2>4, <2>5, UpdaterGoes
<1>1. copy'.done => Fits(copy.db, copy.version)'
  <2>1. CASE SaveCopy
    BY <2>1 DEF SaveCopy, NoCopy
  <2>2. CASE SaveDatabases
    <3>1. copy'.db = db /\ copy'.version = copy.version
      BY <1>v, <2>2 DEF SaveDatabases, Copies
    <3>2. copy.version = bin
      BY <1>v, <1>m, <2>2 DEF Replaced, Copied, Installing
    <3>3. Fits(db, bin)
      BY <1>v, <1>m, <2>2 DEF DataFit, Untold
    <3> QED
      BY <3>1, <3>2, <3>3, SaidGrows DEF Fits
  <2>3. CASE copy' = copy
    BY <1>v, <2>3, SaidGrows DEF DataFit, Fits
  <2> QED
    BY <2>1, <2>2, <2>3, Changes
<1>2. upd'.pc = "putBackDatabases" => bin' = copy'.version \/ upd'.outcome = "failed"
  <2> SUFFICES ASSUME upd'.pc = "putBackDatabases"
               PROVE  bin' = copy'.version \/ upd'.outcome = "failed"
    OBVIOUS
  <2>1. PutBack \/ upd' = upd
    BY <1>v, Moves, UpdaterGoes DEF Move
  <2>2. CASE PutBack
    BY <1>v, <2>2, GoKept DEF PutBack, Steps
  <2>3. CASE upd' = upd /\ ~PutBack
    BY <1>v, <1>m, <2>3, Changes DEF DataFit
  <2> QED
    BY <2>1, <2>2, <2>3
<1> DEFINE Fit == \/ upd.pc = "putBackDatabases" /\ copy.done
                  \/ upd.pc \in Untold /\ upd.outcome = "failed"
                  \/ Fits(db, bin)
<1>d. Fit
  BY <1>v DEF DataFit
\* Where it fits, and both stay.
<1>s. ASSUME Fits(db, bin), UNCHANGED <<db, bin>> PROVE Fit'
  BY <1>s, SaidGrows DEF Fits
<1>l. ASSUME AgentLoads(bin), bin' = bin, Fits(db, bin) PROVE Fit'
  <2>1. db' \in {db, bin} /\ (db <= bin => db' = bin)
    BY <1>v, <1>l, LoadKept
  <2> QED
    BY <1>v, <1>n, <1>l, <2>1, SaidGrows DEF Fits
<1>3. Fit'
  <2>1. CASE Install
    <3>1. Fits(db, bin) /\ db' = db
      BY <1>v, <1>m, <1>d, <2>1 DEF Untold, Install
    <3>2. bin' = bin \/ bin' = bin + 1
      <4>1. staged # None => staged = upd.op /\ from[upd.op] = bin
        BY <1>v, <1>m, <2>1 DEF Replaced, Installing
      <4> QED
        BY <2>1, <4>1 DEF Install, Want
    <3> QED
      BY <1>v, <1>n, <3>1, <3>2, SaidGrows DEF Fits
  <2>2. CASE PutBack
    <3>1. copy' = copy /\ db' = db /\ upd.pc = "putBack" /\ upd'.pc = "putBackDatabases"
      BY <1>m, <2>2 DEF PutBack
    <3>2. CASE GoFailed("putBackDatabases")
      BY <1>v, <3>1, <3>2, GoKept DEF Steps, Untold
    <3>3. CASE bin' = copy.version /\ ~copy.done
      <4>1. bin = copy.version /\ Fits(db, bin)
        BY <1>v, <1>d, <3>1, <3>3 DEF Replaced, Copied, Untold
      <4> QED
        BY <1>s, <3>1, <3>3, <4>1
    <3> QED
      BY <2>2, <3>1, <3>2, <3>3 DEF PutBack
  <2>3. CASE PutBackDatabases
    <3>1. /\ bin' = bin /\ upd.pc = "putBackDatabases" /\ upd'.pc = "restart"
          /\ upd'.outcome = upd.outcome
      BY <1>v, <1>m, <2>3, GoKept DEF PutBackDatabases, Steps
    <3>2. CASE upd.outcome = "failed"
      BY <3>1, <3>2 DEF Untold
    <3>3. CASE upd.outcome # "failed" /\ copy.done
      <4>1. db' = copy.db /\ bin = copy.version /\ Fits(copy.db, copy.version)
        BY <1>v, <2>3, <3>1, <3>3 DEF PutBackDatabases, DataFit
      <4> QED
        BY <3>1, <4>1, SaidGrows DEF Fits
    <3>4. CASE upd.outcome # "failed" /\ ~copy.done
      BY <1>d, <1>s, <2>3, <3>1, <3>4 DEF PutBackDatabases
    <3> QED
      BY <3>2, <3>3, <3>4
  <2>4. CASE PutBackPartly
    BY <1>v, <2>4, GoKept DEF PutBackPartly, Steps, Untold
  <2>5. CASE AgentRestarts \/ Boot
    <3>1. upd' = upd /\ bin' = bin /\ AgentLoads(bin) /\ upd.pc # "putBackDatabases"
      BY <1>v, <2>5 DEF AgentRestarts, Boot, Services, Stopped
    <3> QED
      BY <1>d, <1>l, <3>1
  <2>6. CASE Restart
    <3>1. upd.pc = "restart" /\ bin' = bin /\ AgentLoads(bin)
      BY <2>6 DEF Restart, StartServices, At
    <3>2. CASE upd.outcome = "failed"
      <4>1. Go("report")
        BY <2>6, <3>2 DEF Restart, StartServices
      <4> QED
        BY <1>v, <3>2, <4>1, GoKept DEF Steps, Untold
    <3>3. CASE upd.outcome # "failed"
      BY <1>d, <1>l, <3>1, <3>3
    <3> QED
      BY <3>2, <3>3
  <2>7. CASE Start \/ Recover
    <3>1. upd.pc \notin Untold
      BY <1>v, <2>7, Moves DEF Move, Untold
    <3>2. bin' = bin /\ (AgentLoads(bin) \/ db' = db)
      BY <2>7 DEF Start, StartServices, Recover, host
    <3> QED
      BY <1>d, <1>l, <1>s, <3>1, <3>2 DEF Untold
  <2>8. CASE RestartFails \/ RecoverFails
    BY <1>v, <2>8, GoKept DEF RestartFails, RecoverFails, Outcomes, Untold
  <2>9. CASE WriteResult
    <3>1. upd.pc = "report" /\ UNCHANGED <<db, bin>>
      BY <2>9 DEF WriteResult, At, host
    <3>2. CASE upd.outcome = "failed"
      <4>1. db \in Nat /\ bin \in Nat
        BY <1>v, <1>n
      <4>2. db <= bin \/ db > bin
        BY <4>1
      <4>3. db > bin => db \in told'
        BY <2>9, <3>2 DEF WriteResult
      <4> QED
        BY <3>1, <4>2, <4>3 DEF Fits
    <3> QED
      BY <1>d, <1>s, <3>1, <3>2
  <2>10. CASE Killed \/ PowerCut
    <3>1. UNCHANGED <<db, bin>>
      BY <2>10 DEF Killed, PowerCut, host
    <3>2. Fits(db, bin)
      <4>1. Interruptible \/ upd.pc = "off"
        BY <2>10 DEF Killed, PowerCut, At
      <4>2. CASE Interruptible
        BY <1>d, <4>2 DEF Interruptible, Closed, Fits
      <4> QED
        BY <1>d, <4>1, <4>2 DEF Untold
    <3> QED
      BY <1>s, <3>1, <3>2
  <2>11. CASE \/ UpdaterStarts \/ Claim \/ Check \/ SaveCopy \/ Stop \/ SaveDatabases
              \/ Health \/ Undo \/ HealthBack \/ Clean \/ Finish \/ StepFails
    <3>1. upd.pc \notin Untold
      BY <1>v, <2>11, Moves DEF Move, Untold, UpdaterStarts, Claim, Finish, At, Copied
    <3>2. UNCHANGED <<db, bin>>
      BY <2>11 DEF UpdaterStarts, Claim, Check, SaveCopy, Stop, SaveDatabases, Health, Undo,
         HealthBack, Clean, Finish, StepFails, host
    <3> QED
      BY <1>d, <1>s, <3>1, <3>2 DEF Untold
  <2>12. CASE (AgentSteps /\ ~AgentRestarts) \/ TimePasses \/ UNCHANGED vars
    <3>1. UNCHANGED <<db, bin, upd, copy>>
      BY <2>12 DEF AgentSteps, StageBegin, StageDone, StageFails, Collect, WatchSees,
         WatchGives, WatchLong, TimePasses, host, vars
    <3> QED
      BY <1>d, <1>s, <3>1
  <2> QED
    BY <2>1, <2>2, <2>3, <2>4, <2>5, <2>6, <2>7, <2>8, <2>9, <2>10, <2>11, <2>12
       DEF Next, UpdaterSteps, UndoFails
<1> QED
  BY <1>f, <1>1, <1>2, <1>3 DEF DataFit

LEMMA WholeStep == ASSUME Closed PROVE Whole /\ [Next]_vars => Whole'
<1> SUFFICES ASSUME Whole, [Next]_vars PROVE Whole'
  OBVIOUS
<1> QED
  BY TypesStep, NamedKept, ServicesKept, ReplacedKept, DataFitKept DEF Whole

(* An older version goes back only over the one its own update installed.  *)
LEMMA PutBackIsReplaced ==
    ASSUME Whole, [Next]_vars
    PROVE  bin' < bin => upd.op # None /\ bin' = from[upd.op]
<1>v. /\ Values /\ Replaced /\ bin \in Version
      /\ from \in [Op -> Version \cup {None}]
      /\ upd.pc \in Working => upd.op \in Op
  BY DEF Whole, Types, Values, AgentTyped, HostTyped, CopyWhole
<1>n. Version \subseteq Nat /\ None \notin Op
  BY UpdatesAssumption DEF Version, Op, None
<1>1. CASE Install
  <2>1. upd.pc = "install"
    BY <1>v, <1>1, Moves DEF Move
  <2>2. staged # None => staged = upd.op /\ from[upd.op] = bin
    BY <1>v, <2>1 DEF Replaced, Installing
  <2>3. bin' = bin \/ bin' = bin + 1
    BY <1>1, <2>2 DEF Install, Want
  <2> QED
    BY <1>v, <1>n, <2>3
<1>2. CASE PutBack
  <2>1. upd.pc = "putBack" /\ bin' \in {bin, copy.version}
    BY <1>v, <1>2, Moves DEF Move, PutBack
  <2> QED
    BY <1>v, <1>n, <2>1 DEF Replaced, Copied, Working, Steps
<1>3. CASE bin' = bin
  BY <1>v, <1>n, <1>3
<1> QED
  BY <1>1, <1>2, <1>3, Changes

(* An update goes back to what it replaced, databases and all: no version  *)
(* runs on databases a newer one opened unless putting them back failed    *)
(* and the updater says so, and what is put back is what the update        *)
(* replaced -- whatever fails in the update and in its undo, as long as    *)
(* the updater isn't interrupted while only an earlier update's copy is    *)
(* there, nor while it puts the databases back, nor between an undo that   *)
(* left them newer and its result (upgrade.go), and no release is handed   *)
(* over before the last one's result is read.                              *)
THEOREM UpdatesGoBackWhole == ASSUME Closed PROVE Spec => GoesBackWhole
<1>1. Init => Whole
  BY WholeInit
<1>2. Whole /\ [Next]_vars => Whole'
  BY WholeStep
<1>3. Whole => OldNeverOnNewData
  <2>1. ASSUME Whole, up, db > bin PROVE upd.outcome = "failed" \/ db \in told
    <3>1. bin \in Nat /\ db \in Nat
      BY <2>1, WholeTypes DEF Values, HostTyped
    <3>2. upd.pc # "putBackDatabases"
      BY <2>1 DEF Whole, Services, Stopped
    <3> QED
      BY <2>1, <3>1, <3>2 DEF Whole, DataFit, Fits
  <2> QED
    BY <2>1 DEF OldNeverOnNewData
<1>4. Whole /\ [Next]_vars => [bin' < bin => upd.op # None /\ bin' = from[upd.op]]_vars
  BY PutBackIsReplaced
<1> QED
  BY <1>1, <1>2, <1>3, <1>4, PTL DEF Spec, GoesBackWhole, PutsBackWhatItReplaced

-----------------------------------------------------------------------------
(* What the dashboard says of an update                                    *)

\* The updater has written its result, or it was given up before it took it.
Told == {"clean", "finish"}

\* Something will still be said of update o.
Under(o) == \/ request = o
            \/ result # NoResult /\ result.op = o
            \/ applying = o /\ upd.pc \notin Told

\* Updates are on record one after the other, in the copied databases too, and
\* no file holds one that is older than it should be.
Recorded ==
    /\ \A q \in Op : op[q] # "none" => \A p \in Op : p < q => op[p] # "none"
    /\ copy.done => \A q \in Op : copy.op[q] # "none" =>
          op[q] # "none" /\ \A p \in Op : p < q => copy.op[p] # "none"
    /\ staged # None => \A q \in Op : q > staged => op[q] = "none"
    /\ staging # None => /\ \A q \in Op : q > staging => op[q] = "none"
                         /\ installing = None
    /\ installing # None => up /\ op[installing] # "none"
    /\ sawRequest => installing # None
    /\ request # None => result = NoResult
    /\ result # NoResult => /\ result.op # None /\ op[result.op] # "none"
                            /\ applying # None => applying = result.op

\* When the databases are put back, the services are down.
LEMMA PutBackWhile ==
    ASSUME Whole, PutBackDatabases \/ PutBackPartly
    PROVE  /\ upd.pc = "putBackDatabases" /\ ~up /\ staging = None /\ request = None
           /\ upd.op \in Op /\ applying = upd.op
           /\ copy.done => copy.op[applying] # "none"
<1>1. upd.pc = "putBackDatabases"
  BY DEF PutBackDatabases, PutBackPartly, At
<1> QED
  BY <1>1, WholeTypes DEF Whole, Services, Stopped, Replaced, Named, Working, Steps, Saved

\* What begins an operation.
LEMMA BegunBy ==
    ASSUME Whole, Recorded, [Next]_vars
    PROVE  \A o \in Op : op[o] = "none" /\ op'[o] # "none"
              => StageBegin(o) \/ PutsBack
<1> SUFFICES ASSUME NEW p \in Op, op[p] = "none", op'[p] # "none"
             PROVE  StageBegin(p) \/ PutsBack
  OBVIOUS
<1>v. op \in Records /\ Values
  BY WholeTypes
<1>1. ASSUME NEW o \in Op, StageBegin(o) PROVE StageBegin(p)
  BY <1>v, <1>1 DEF StageBegin, Records
<1>2. ~StageFails
  BY <1>v DEF StageFails, Records, Whole, Named
<1>3. ~WatchGives /\ ~WatchLong
  BY <1>v DEF WatchGives, WatchLong, Abandon, Records, Recorded
<1>4. ~Collect
  BY <1>v DEF Collect, Records
<1>5. ~AgentLoads(bin)
  BY <1>v, WholeTypes, LoadKept
<1>6. CASE PutBackDatabases \/ PutBackPartly
  BY <1>6, LostIs DEF PutBackDatabases, PutBackPartly, PutsBack
<1> QED
  BY <1>1, <1>2, <1>3, <1>4, <1>5, <1>6, AgentChanges
     DEF agent, StageDone, WatchSees, AgentGone

\* No update begins by itself, nor when the databases are put back.
LEMMA NoneLater ==
    ASSUME Whole, Recorded, [Next]_vars, \A p \in Op : ~StageBegin(p)
    PROVE  \A o \in Op : op[o] = "none" => op'[o] = "none"
<1>1. ASSUME NEW q \in Op, op[q] = "none" PROVE op'[q] = "none"
  <2>1. copy.done => copy.op[q] = "none"
    BY <1>1 DEF Recorded
  <2> QED
    BY <1>1, <2>1, BegunBy DEF PutsBack
<1> QED
  BY <1>1

\* What the agent installs.
LEMMA InstallingGoes ==
    ASSUME Whole, [Next]_vars
    PROVE  \/ UNCHANGED <<installing, sawRequest>> /\ (up' \/ up' = up)
           \/ installing' = None /\ sawRequest' = FALSE
           \/ StageDone
           \/ WatchSees
           \/ AgentLoads(bin) /\ up' /\ (request' = request /\ applying' = applying)
<1>1. CASE AgentSteps
  BY <1>1, WholeTypes DEF AgentSteps, StageBegin, StageFails, Collect, WatchGives, WatchLong,
     Abandon, AgentRestarts, files, host
<1>2. CASE UpdaterSteps
  BY <1>2, WholeTypes DEF UpdaterSteps, UpdaterStarts, Claim, Check, SaveCopy, Stop, SaveDatabases,
     Install, Start, Health, Recover, Undo, PutBack, PutBackDatabases, Restart, HealthBack,
     WriteResult, Clean, Finish, StartServices, AgentGone, agent, host, files
<1>3. CASE UndoFails \/ StepFails \/ TimePasses \/ Killed \/ PowerCut \/ Boot \/ UNCHANGED vars
  BY <1>3 DEF UndoFails, PutBackPartly, RestartFails, RecoverFails,
     StepFails, TimePasses, Killed, PowerCut, Boot, AgentGone, vars, agent, host, files
<1> QED
  BY <1>1, <1>2, <1>3 DEF Next

LEMMA RecordedKept == ASSUME Closed, Whole, Recorded, [Next]_vars PROVE Recorded'
<1>b. ASSUME NEW p \in Op, StageBegin(p)
      PROVE  /\ op[p] = "none" /\ op' = [op EXCEPT ![p] = "running"]
             /\ \A q \in Op : q < p => op[q] # "none"
             /\ staging' = p /\ staged' = None /\ installing' = None /\ installing = None
             /\ UNCHANGED <<copy, sawRequest, request, applying, result>>
  BY <1>b DEF StageBegin, host
<1>p. CASE PutsBack
  <2>1. op' = copy.op /\ UNCHANGED <<staging, installing, sawRequest, request, applying, staged,
                                     result, copy, up>>
    BY <1>p DEF PutsBack, PutBackDatabases, PutBackPartly, files
  <2>2. /\ ~up /\ staging = None /\ request = None /\ applying \in Op
        /\ copy.op[applying] # "none"
    BY <1>p, PutBackWhile DEF PutsBack
  <2>3. \A q \in Op : copy.op[q] # "none" =>
           op[q] # "none" /\ \A p \in Op : p < q => copy.op[p] # "none"
    BY <1>p DEF PutsBack, Recorded
  <2>4. \A p \in Op : ~StageBegin(p)
    BY <2>2 DEF StageBegin
  <2>5. staged' # None => \A q \in Op : q > staged' => op'[q] = "none"
    BY <2>1, <2>4, NoneLater DEF Recorded
  <2>6. result' # NoResult => /\ result'.op # None /\ op'[result'.op] # "none"
                              /\ applying' # None => applying' = result'.op
    BY <2>1, <2>2, WholeTypes DEF Recorded
  <2>7. installing = None /\ ~sawRequest
    BY <2>2 DEF Recorded
  <2> QED
    BY <2>1, <2>2, <2>3, <2>5, <2>6, <2>7 DEF Recorded
<1>n. CASE ~PutsBack
  <2>s. \A o \in Op : op[o] # "none" => op'[o] # "none"
    BY <1>n, StaysNamed
  <2>n. \A o \in Op : op'[o] # "none" => op[o] # "none" \/ StageBegin(o)
    BY <1>n, BegunBy
  <2>1. \A q \in Op : op'[q] # "none" => \A p \in Op : p < q => op'[p] # "none"
    <3> SUFFICES ASSUME NEW q \in Op, op'[q] # "none", NEW p \in Op, p < q PROVE op'[p] # "none"
      OBVIOUS
    <3>1. CASE op[q] # "none"
      BY <2>s, <3>1 DEF Recorded
    <3>2. CASE StageBegin(q)
      BY <2>s, <3>2, <1>b
    <3> QED
      BY <2>n, <3>1, <3>2
  <2>2. copy'.done => \A q \in Op : copy'.op[q] # "none" =>
          op'[q] # "none" /\ \A p \in Op : p < q => copy'.op[p] # "none"
    <3>1. CASE copy' = copy
      BY <2>s, <3>1 DEF Recorded
    <3>2. CASE SaveCopy
      BY <3>2 DEF SaveCopy, NoCopy
    <3>3. CASE SaveDatabases
      <4>1. copy'.op = op /\ op' = op
        BY <3>3, WholeTypes DEF SaveDatabases, Copies, agent
      <4> QED
        BY <2>1, <4>1
    <3> QED
      BY <3>1, <3>2, <3>3, Changes
  <2>3. staged' # None => \A q \in Op : q > staged' => op'[q] = "none"
    <3> SUFFICES ASSUME staged' # None PROVE \A q \in Op : q > staged' => op'[q] = "none"
      OBVIOUS
    <3>1. \A p \in Op : ~StageBegin(p)
      BY <1>b
    <3>2. CASE StageDone
      BY <3>1, <3>2, NoneLater DEF StageDone, Recorded
    <3>3. CASE staged' = staged
      BY <3>1, <3>3, NoneLater DEF Recorded
    <3> QED
      BY <3>2, <3>3, Changes
  <2>4. staging' # None => /\ \A q \in Op : q > staging' => op'[q] = "none"
                           /\ installing' = None
    <3>1. ASSUME NEW p \in Op, StageBegin(p)
          PROVE  (\A q \in Op : q > staging' => op'[q] = "none") /\ installing' = None
      <4>1. ASSUME NEW q \in Op, q > p PROVE op'[q] = "none"
        <5>1. op[q] = "none"
          BY <3>1, <4>1, <1>b, WholeTypes DEF Recorded
        <5> QED
          BY <3>1, <4>1, <5>1, <1>b, WholeTypes DEF Records
      <4> QED
        BY <3>1, <4>1, <1>b
    <3>2. CASE staging' # None /\ staging' = staging /\ \A p \in Op : ~StageBegin(p)
      <4>1. installing' = None
        BY <3>2, InstallingGoes DEF Recorded, StageDone, WatchSees, AgentLoads
      <4> QED
        BY <3>2, <4>1, NoneLater DEF Recorded
    <3> QED
      BY <3>1, <3>2, Changes
  <2>5. /\ installing' # None => up' /\ op'[installing'] # "none"
        /\ sawRequest' => installing' # None
    <3>1. CASE StageDone
      BY <3>1, WholeTypes DEF StageDone, host, Whole, Named, Recorded
    <3>2. CASE WatchSees
      BY <3>2 DEF WatchSees, host, Recorded
    <3>3. CASE AgentLoads(bin) /\ up'
      <4>1. installing' = Pending /\ ~sawRequest'
        BY <3>3 DEF AgentLoads
      <4>2. Pending # None => Pending \in Op /\ op[Pending] # "none"
        BY WholeTypes DEF Pending, Whole, Named
      <4> QED
        BY <2>s, <3>3, <4>1, <4>2
    <3>4. CASE UNCHANGED <<installing, sawRequest>> /\ (up' \/ up' = up)
      BY <2>s, <3>4, WholeTypes DEF Recorded
    <3> QED
      BY <3>1, <3>2, <3>3, <3>4, InstallingGoes
  <2>6. request' # None => result' = NoResult
    <3>1. CASE StageDone
      BY <3>1 DEF StageDone, Closed, Recorded, Whole, Replaced
    <3>2. CASE WriteResult
      BY <3>2 DEF WriteResult, At, Whole, Replaced, Working, Steps
    <3> QED
      BY <3>1, <3>2, Changes DEF Recorded
  <2>7. result' # NoResult => /\ result'.op # None /\ op'[result'.op] # "none"
                              /\ applying' # None => applying' = result'.op
    <3>1. CASE WriteResult
      <4>1. upd.op \in Op /\ applying = upd.op /\ op[applying] # "none"
        BY <3>1, WholeTypes DEF WriteResult, At, Working, Steps, Whole, Named
      <4> QED
        BY <3>1, <4>1, WholeTypes DEF WriteResult, agent
    <3>2. CASE result' = result /\ result # NoResult
      <4>1. result.op \in Op /\ op'[result.op] # "none"
        BY <2>s, <3>2, WholeTypes DEF Recorded, Results
      <4>2. Claim => applying' = applying
        BY <3>2 DEF Claim, Recorded
      <4> QED
        BY <3>2, <4>1, <4>2, Changes, WholeTypes DEF Recorded
    <3> QED
      BY <3>1, <3>2, Changes
  <2> QED
    BY <2>1, <2>2, <2>3, <2>4, <2>5, <2>6, <2>7 DEF Recorded
<1> QED
  BY <1>p, <1>n

\* What takes a request, a result or what is applied away.
LEMMA RequestGoes ==
    ASSUME [Next]_vars PROVE request' = request \/ StageDone \/ WatchGives \/ Claim
<1>1. CASE AgentSteps
  BY <1>1 DEF AgentSteps, StageBegin, StageFails, Collect, WatchSees, WatchLong,
     AgentRestarts, files
<1>2. CASE UpdaterSteps
  BY <1>2 DEF UpdaterSteps, UpdaterStarts, Check, SaveCopy, Stop, SaveDatabases, Install,
     Start, Health, Recover, Undo, PutBack, PutBackDatabases, Restart, HealthBack,
     WriteResult, Clean, Finish, StartServices, files
<1>3. CASE UndoFails \/ StepFails \/ TimePasses \/ Killed \/ PowerCut \/ Boot \/ UNCHANGED vars
  BY <1>3 DEF UndoFails, PutBackPartly, RestartFails, RecoverFails,
     StepFails, TimePasses, Killed, PowerCut, Boot, vars, files
<1> QED
  BY <1>1, <1>2, <1>3 DEF Next

LEMMA ResultGoes == ASSUME [Next]_vars PROVE result' = result \/ Collect \/ WriteResult
<1>1. CASE AgentSteps
  BY <1>1 DEF AgentSteps, StageBegin, StageDone, StageFails, WatchSees, WatchGives, WatchLong,
     AgentRestarts, files
<1>2. CASE UpdaterSteps
  BY <1>2 DEF UpdaterSteps, UpdaterStarts, Claim, Check, SaveCopy, Stop, SaveDatabases, Install,
     Start, Health, Recover, Undo, PutBack, PutBackDatabases, Restart, HealthBack,
     Clean, Finish, StartServices, files
<1>3. CASE UndoFails \/ StepFails \/ TimePasses \/ Killed \/ PowerCut \/ Boot \/ UNCHANGED vars
  BY <1>3 DEF UndoFails, PutBackPartly, RestartFails, RecoverFails,
     StepFails, TimePasses, Killed, PowerCut, Boot, vars, files
<1> QED
  BY <1>1, <1>2, <1>3 DEF Next

\* An update is told of by its updater's result.
LEMMA ToldBy ==
    ASSUME Whole, [Next]_vars
    PROVE  upd'.pc \in Told => WriteResult \/ (upd.pc \in Told /\ upd'.op = upd.op)
BY Moves, UpdaterGoes, WholeTypes DEF Told, Move, Whole

\* What is at hand isn't said to be done, and what the agent waits for is the
\* newest that it heard of, or will be heard of.
InHand ==
    /\ staging # None => /\ op[staging] # "updated"
                         /\ staging \notin {request, applying, result.op}
    /\ request # None => /\ op[request] # "updated"
                         /\ applying # None => applying < request
                         /\ installing # None => installing <= request
    /\ sawRequest => \/ Under(installing)
                     \/ \E q \in Op : q > installing /\ op[q] # "none"

\* Who says that an update is done.
LEMMA SaidBy ==
    ASSUME Whole, Recorded, [Next]_vars
    PROVE  \A o \in Op : op'[o] = "updated" =>
              \/ op[o] = "updated"
              \/ Collect /\ result.op = o /\ result.outcome = "updated"
              \/ PutsBack
<1>v. op \in Records /\ Values
  BY WholeTypes
<1> SUFFICES ASSUME NEW p \in Op, op'[p] = "updated", op[p] # "updated"
             PROVE  \/ Collect /\ result.op = p /\ result.outcome = "updated"
                    \/ PutsBack
  OBVIOUS
<1>1. ASSUME NEW o \in Op PROVE ~StageBegin(o)
  BY <1>v DEF StageBegin, Records
<1>2. ~StageFails
  BY <1>v DEF StageFails, Records
<1>3. ~WatchGives /\ ~WatchLong
  BY <1>v DEF WatchGives, WatchLong, Abandon, Records
<1>4. CASE Collect
  BY <1>v, <1>4 DEF Collect, Records
<1>5. ~AgentLoads(bin)
  BY <1>v DEF AgentLoads, Records
<1>6. CASE PutBackDatabases \/ PutBackPartly
  BY <1>6 DEF PutBackDatabases, PutBackPartly, PutsBack, Lost
<1> QED
  BY <1>1, <1>2, <1>4, <1>3, <1>5, <1>6, AgentChanges
     DEF agent, StageDone, WatchSees, AgentGone

LEMMA InHandKept ==
    ASSUME Closed, Whole, Recorded, InHand, [Next]_vars PROVE InHand'
<1>b. ASSUME NEW p \in Op, StageBegin(p)
      PROVE  /\ op[p] = "none" /\ op'[p] = "running"
             /\ \A q \in Op \ {p} : op'[q] = op[q]
             /\ staging' = p /\ installing' = None /\ installing = None
             /\ sawRequest' = sawRequest
             /\ UNCHANGED <<copy, request, applying, result>>
  BY <1>b, WholeTypes DEF StageBegin, host, Records
<1>1. staging' # None => /\ op'[staging'] # "updated"
                         /\ staging' \notin {request', applying', result'.op}
  <2>1. ASSUME NEW p \in Op, StageBegin(p)
        PROVE  op'[staging'] # "updated" /\ staging' \notin {request', applying', result'.op}
    <3>1. p # request /\ p # applying
      BY <2>1, <1>b, WholeTypes DEF Whole, Named
    <3>2. p # result.op
      <4>1. CASE result = NoResult
        BY <4>1, WholeTypes DEF NoResult
      <4>2. CASE result # NoResult
        BY <4>2, <2>1, <1>b DEF Recorded
      <4> QED
        BY <4>1, <4>2
    <3> QED
      BY <2>1, <1>b, <3>1, <3>2
  <2>2. CASE staging' = staging /\ staging # None /\ \A p \in Op : ~StageBegin(p)
    <3>1. ~PutsBack
      BY <2>2, PutBackWhile DEF PutsBack
    <3>2. op'[staging] # "updated"
      BY <2>2, <3>1, SaidBy, WholeTypes DEF InHand
    <3>3. staging # request' /\ staging # applying'
      <4>1. ~StageDone
        BY <2>2 DEF StageDone
      <4>2. Claim => applying' \in {applying, request}
        BY DEF Claim
      <4> QED
        BY <2>2, <4>1, <4>2, Changes, WholeTypes DEF InHand
    <3>4. staging # result'.op
      <4>1. WriteResult => result'.op = applying
        BY WholeTypes DEF WriteResult, At, Working, Steps
      <4>2. NoResult.op = None
        BY DEF NoResult
      <4> QED
        BY <2>2, <4>1, <4>2, Changes DEF InHand
    <3> QED
      BY <2>2, <3>2, <3>3, <3>4
  <2> QED
    BY <2>1, <2>2, Changes
<1>2. request' # None => /\ op'[request'] # "updated"
                         /\ applying' # None => applying' < request'
                         /\ installing' # None => installing' <= request'
  <2>1. CASE StageDone
    <3>1. /\ op' = op /\ request' = staging /\ applying' = applying /\ installing' = staging
          /\ staging \in Op
      BY <2>1, WholeTypes DEF StageDone
    <3>2. applying # None => applying < staging
      BY <3>1, WholeTypes DEF Recorded, InHand, Whole, Named
    <3> QED
      BY <3>1, <3>2, WholeTypes DEF InHand
  <2>2. CASE request' = request /\ request # None /\ ~StageDone
    <3>1. ~PutsBack /\ result = NoResult
      BY <2>2, PutBackWhile DEF PutsBack, Recorded
    <3>2. op'[request] # "updated"
      BY <2>2, <3>1, SaidBy, WholeTypes DEF InHand, Collect
    <3>3. applying' # None => applying' < request
      <4>1. ~Claim
        BY <2>2 DEF Claim
      <4> QED
        BY <2>2, <4>1, Changes DEF InHand
    <3>4. installing' # None => installing' <= request
      <4>1. CASE AgentLoads(bin)
        BY <2>2, <4>1, WholeTypes DEF AgentLoads, Pending, InHand
      <4> QED
        BY <2>2, <4>1, InstallingGoes DEF InHand, WatchSees
    <3> QED
      BY <2>2, <3>2, <3>3, <3>4
  <2> QED
    BY <2>1, <2>2, Changes
<1>3. sawRequest' => \/ Under(installing)'
                     \/ \E q \in Op : q > installing' /\ op'[q] # "none"
  <2> SUFFICES ASSUME sawRequest' PROVE \/ Under(installing)'
                                        \/ \E q \in Op : q > installing' /\ op'[q] # "none"
    OBVIOUS
  <2>1. CASE WatchSees
    <3>1. /\ request \in Op /\ installing \in Op /\ installing <= request
          /\ op[request] # "none"
      BY <2>1, WholeTypes DEF WatchSees, InHand, Whole, Named
    <3>2. UNCHANGED <<op, installing, request>>
      BY <2>1 DEF WatchSees, files
    <3> QED
      BY <3>1, <3>2, WholeTypes DEF Under
  <2>2. CASE UNCHANGED <<installing, sawRequest>> /\ ~WatchSees /\ ~StageDone
    <3>1. sawRequest /\ installing \in Op /\ up /\ staging = None
      BY <2>2, WholeTypes DEF Recorded
    <3>2. ~PutsBack
      BY <3>1, PutBackWhile DEF PutsBack
    <3>3. \A q \in Op : op[q] # "none" => op'[q] # "none"
      BY <3>2, StaysNamed
    <3>4. CASE \E q \in Op : q > installing /\ op[q] # "none"
      BY <2>2, <3>3, <3>4
    <3>5. CASE request = installing
      <4>1. CASE Claim
        <5>1. applying' = installing /\ upd'.pc = "check"
          <6>1. "check" \in Steps /\ request # None
            BY <3>1, <3>5, WholeTypes DEF Steps
          <6>2. [Off EXCEPT !.pc = "check", !.op = installing].pc = "check"
            BY <3>1, <6>1, OffIs
          <6> QED
            BY <3>5, <4>1, <6>1, <6>2 DEF Claim
        <5> QED
          BY <2>2, <5>1 DEF Under, Told
      <4>2. CASE WatchGives
        BY <2>2, <3>1, <4>2 DEF WatchGives
      <4>3. CASE ~Claim /\ ~WatchGives
        <5>1. request' = request
          BY <2>2, <4>3, RequestGoes
        <5> QED
          BY <2>2, <3>5, <5>1 DEF Under
      <4> QED
        BY <4>1, <4>2, <4>3
    <3>6. CASE result # NoResult /\ result.op = installing
      <4>1. CASE WriteResult
        <5>1. applying = upd.op /\ upd.op \in Op
          BY <4>1, WholeTypes DEF WriteResult, At, Working, Steps
        <5>2. applying = installing
          BY <3>6, <5>1, WholeTypes DEF Recorded
        <5>3. result'.op = installing /\ result' # NoResult
          BY <4>1, <5>1, <5>2, WholeTypes DEF WriteResult, NoResult
        <5> QED
          BY <2>2, <5>3 DEF Under
      <4>2. ~Collect
        BY <2>2, <3>1 DEF Collect
      <4>3. CASE ~WriteResult
        BY <2>2, <3>6, <4>2, <4>3, ResultGoes DEF Under
      <4> QED
        BY <4>1, <4>3
    <3>7. CASE applying = installing /\ upd.pc \notin Told
      <4>1. CASE Claim /\ request # None
        <5>1. request \in Op /\ request > installing /\ op[request] # "none"
          BY <3>1, <3>7, <4>1, WholeTypes DEF InHand, Whole, Named
        <5> QED
          BY <2>2, <3>3, <5>1
      <4>2. CASE WriteResult
        <5>1. applying = upd.op
          BY <4>2, WholeTypes DEF WriteResult, At, Working, Steps
        <5>2. result'.op = installing /\ result' # NoResult
          BY <3>1, <3>7, <4>2, <5>1, WholeTypes DEF WriteResult, NoResult
        <5> QED
          BY <2>2, <5>2 DEF Under
      <4>3. CASE ~(Claim /\ request # None) /\ ~WriteResult
        <5>1. applying' = applying
          BY <3>7, <4>3, ApplyingGoes DEF Told
        <5>2. upd'.pc \notin Told
          BY <3>7, <4>3, ToldBy
        <5> QED
          BY <2>2, <3>7, <5>1, <5>2 DEF Under
      <4> QED
        BY <4>1, <4>2, <4>3
    <3> QED
      BY <3>1, <3>4, <3>5, <3>6, <3>7 DEF InHand, Under
  <2> QED
    BY <2>1, <2>2, InstallingGoes DEF StageDone, AgentLoads, Recorded
<1> QED
  BY <1>1, <1>2, <1>3 DEF InHand

\* An update that began after the one at hand did so from what is installed or
\* from what was, and isn't done, by the copied databases either.
AfterInv ==
    /\ \A p \in {request, applying} \ {None}, q \in Op :
          q > p /\ op[q] # "none" => op[q] # "updated" /\ from[q] >= bin
    /\ Held => \A q \in Op : q > applying /\ copy.op[q] # "none" =>
                  copy.op[q] # "updated" /\ from[q] >= copy.version

\* What is installed, and what the updater says of it.
Truth(o, what) ==
    /\ what = "updated" => bin = Want(o)
    /\ what \in {"running", "refused", "rolled_back", "interrupted"} => bin # Want(o)

Went ==
    /\ applying # None => /\ bin \in {from[applying], Want(applying)}
                          /\ copy = NoCopy => bin = from[applying]
    /\ upd.pc \in {"start", "health"} => bin = Want(upd.op)
    /\ upd.pc \in {"restart", "healthBack"} =>
          bin # Want(upd.op) \/ (upd.pc = "restart" /\ upd.outcome = "failed")
    /\ upd.pc = "report" => Truth(upd.op, upd.outcome)

\* What is installed changes when a release is, or put back.
LEMMA BinGoes ==
    ASSUME Whole, [Next]_vars
    PROVE  \/ bin' = bin
           \/ /\ Install /\ upd.pc = "install" /\ applying = upd.op /\ upd.op \in Op
              /\ staged = upd.op /\ from[upd.op] = bin /\ bin' = bin + 1 /\ bin' = Want(upd.op)
              /\ upd'.pc = "start" /\ upd'.op = upd.op
           \/ /\ PutBack /\ upd.pc = "putBack" /\ applying = upd.op /\ upd.op \in Op
              /\ bin' = copy.version /\ copy.version = from[upd.op]
              /\ upd'.pc = "putBackDatabases"
<1>r. Replaced
  BY DEF Whole
<1>1. CASE Install /\ staged # None
  <2>1. /\ upd.pc = "install" /\ bin' = Want(staged) /\ Go("start")
    BY <1>1 DEF Install, At
  <2>2. upd.op \in Op /\ applying = upd.op
    BY <2>1, WholeTypes DEF Working, Steps
  <2>3. staged = upd.op /\ from[upd.op] = bin
    BY <1>1, <1>r, <2>1 DEF Replaced, Installing
  <2>4. upd'.pc = "start" /\ upd'.op = upd.op
    BY <2>1, WholeTypes, GoKept DEF Steps
  <2> QED
    BY <1>1, <2>1, <2>2, <2>3, <2>4 DEF Want
<1>2. CASE Install /\ staged = None
  BY <1>2 DEF Install
<1>3. CASE PutBack
  <2>1. /\ upd.pc = "putBack" /\ upd'.pc = "putBackDatabases"
        /\ bin' \in {bin, copy.version}
    BY <1>3, WholeTypes, Moves DEF Move, PutBack
  <2>2. upd.op \in Op /\ applying = upd.op
    BY <2>1, WholeTypes DEF Working, Steps
  <2>3. copy.version = from[upd.op]
    BY <1>r, <2>1 DEF Replaced, Copied
  <2> QED
    BY <1>3, <2>1, <2>2, <2>3
<1> QED
  BY <1>1, <1>2, <1>3, Changes

LEMMA WentKept ==
    ASSUME Closed, Whole, Recorded, Went, [Next]_vars PROVE Went'
<1>r. Replaced
  BY DEF Whole
<1> DEFINE Truly ==
        /\ upd'.outcome = "updated" => bin' = from'[upd'.op] + 1
        /\ upd'.outcome \in {"running", "refused", "rolled_back", "interrupted"}
              => bin' # from'[upd'.op] + 1
<1>f. applying # None => from'[applying] = from[applying]
  BY WholeTypes, StaysNamed DEF Whole, Named
<1>w. upd.pc \in Working => upd.op \in Op /\ applying = upd.op
  BY WholeTypes
<1>1. applying' # None => /\ bin' \in {from'[applying'], from'[applying'] + 1}
                          /\ copy' = NoCopy => bin' = from'[applying']
  <2>1. CASE Claim /\ request # None
    <3>1. applying' = request /\ bin' = bin /\ request \in Op
      BY <2>1, WholeTypes DEF Claim, host
    <3>2. from[request] = bin /\ from'[request] = from[request]
      BY <2>1, <1>r, <3>1, StaysNamed DEF Replaced, Whole, Named
    <3> QED
      BY <3>1, <3>2
  <2>2. CASE applying' = applying /\ applying # None
    <3>1. applying \in Op /\ from[applying] \in Nat
      BY <2>2, WholeTypes DEF None
    <3>2. CASE bin' = bin
      <4>1. CASE SaveCopy
        <5>1. upd.pc = "copy" /\ from[applying] = bin
          BY <1>r, <1>w, <4>1 DEF SaveCopy, At, Replaced, Installing, Working, Steps
        <5> QED
          BY <1>f, <2>2, <3>2, <5>1
      <4>2. CASE SaveDatabases
        <5>1. upd.pc = "databases" /\ from[applying] = bin
          BY <1>r, <1>w, <4>2 DEF SaveDatabases, At, Replaced, Installing, Working, Steps
        <5> QED
          BY <1>f, <2>2, <3>2, <5>1
      <4>3. CASE copy' = copy
        BY <1>f, <2>2, <3>2, <4>3 DEF Went, Want
      <4> QED
        BY <4>1, <4>2, <4>3, Changes
    <3>3. CASE Install /\ bin' = Want(upd.op) /\ applying = upd.op /\ upd.pc = "install"
      <4>1. copy' = copy /\ copy # NoCopy
        BY <3>3, <1>r DEF Install, Replaced, NoCopy
      <4> QED
        BY <1>f, <2>2, <3>3, <4>1 DEF Want
    <3>4. CASE bin' = from[upd.op] /\ applying = upd.op
      BY <1>f, <2>2, <3>4
    <3> QED
      BY <3>2, <3>3, <3>4, BinGoes
  <2> QED
    BY <2>1, <2>2, ApplyingGoes
<1>m. ASSUME upd.pc \in Working, upd'.op = upd.op, bin' = bin
      PROVE  from'[upd'.op] + 1 = Want(upd.op)
  BY <1>m, <1>f, <1>w, WholeTypes DEF Want
<1>2. upd'.pc \in {"start", "health"} => bin' = from'[upd'.op] + 1
  <2> SUFFICES ASSUME upd'.pc \in {"start", "health"} PROVE bin' = from'[upd'.op] + 1
    OBVIOUS
  <2>1. CASE Install
    <3>1. upd'.op = upd.op /\ upd.op \in Op /\ bin' = Want(upd.op)
      <4>1. staged # None
        BY <2>1, WholeTypes, GoKept DEF Install, Steps
      <4>2. upd.pc = "install" /\ upd.op \in Op
        BY <2>1, WholeTypes DEF Install, At, Working, Steps
      <4>3. staged = upd.op
        BY <1>r, <4>1, <4>2 DEF Replaced, Installing
      <4>4. upd'.op = upd.op
        BY <2>1, <4>1, WholeTypes, GoKept DEF Install, Steps
      <4> QED
        BY <2>1, <4>1, <4>2, <4>3, <4>4 DEF Install
    <3>2. from' = from
      BY <2>1 DEF Install, agent
    <3> QED
      BY <3>1, <3>2 DEF Want
  <2>2. CASE Start
    <3>1. upd.pc = "start" /\ upd'.op = upd.op /\ bin' = bin /\ upd.pc \in Working
      BY <2>2, WholeTypes, Moves DEF Start, StartServices, Move, Working, Steps
    <3> QED
      BY <1>m, <3>1 DEF Went
  <2>3. CASE upd' = upd /\ ~Install /\ ~PutBack
    <3>1. bin' = bin /\ upd.pc \in Working
      BY <2>3, Changes DEF Working, Steps
    <3> QED
      BY <1>m, <2>3, <3>1 DEF Went
  <2>4. upd' = upd \/ Install \/ Start
    BY WholeTypes, Moves, UpdaterGoes DEF Move, Whole
  <2>5. ~PutBack
    BY WholeTypes, Moves DEF Move
  <2> QED
    BY <2>1, <2>2, <2>3, <2>4, <2>5
<1>3. upd'.pc \in {"restart", "healthBack"} =>
         bin' # from'[upd'.op] + 1 \/ (upd'.pc = "restart" /\ upd'.outcome = "failed")
  <2> SUFFICES ASSUME upd'.pc \in {"restart", "healthBack"},
                      ~(upd'.pc = "restart" /\ upd'.outcome = "failed")
               PROVE  bin' # from'[upd'.op] + 1
    OBVIOUS
  <2>1. upd' = upd \/ PutBackDatabases \/ PutBackPartly \/ Restart \/ Recover
    BY WholeTypes, Moves, UpdaterGoes DEF Move, Whole
  <2>2. CASE PutBackDatabases
    <3>1. /\ upd.pc = "putBackDatabases" /\ upd'.op = upd.op /\ bin' = bin
          /\ upd.pc \in Working /\ upd'.pc = "restart" /\ upd'.outcome = upd.outcome
      BY <2>2, WholeTypes, GoKept DEF PutBackDatabases, At, Working, Steps
    <3>2. bin = copy.version /\ copy.version = from[upd.op]
      BY <3>1, <1>r DEF Whole, DataFit, Replaced, Copied
    <3>3. bin \in Nat
      BY WholeTypes
    <3>4. bin # Want(upd.op)
      BY <3>2, <3>3 DEF Want
    <3> QED
      BY <1>m, <3>1, <3>4
  <2>3. CASE Restart
    <3>1. /\ upd.pc = "restart" /\ upd'.op = upd.op /\ bin' = bin /\ upd.pc \in Working
          /\ upd.outcome = "failed" => upd'.pc = "report"
      BY <2>3, WholeTypes, GoKept DEF Restart, StartServices, At, Working, Steps
    <3> QED
      BY <1>m, <3>1 DEF Went
  <2>4. CASE Recover
    <3>1. /\ upd.pc = "recover" /\ upd'.op = upd.op /\ bin' = bin /\ upd.pc \in Working
      BY <2>4, WholeTypes, Moves DEF Recover, Move, Working, Steps, host
    <3>2. bin # Want(upd.op)
      BY <2>4, WholeTypes, GoKept DEF Recover, Steps, Outcomes
    <3> QED
      BY <1>m, <3>1, <3>2
  <2>5. CASE upd' = upd /\ ~Install /\ ~PutBack
    <3>1. bin' = bin /\ upd.pc \in Working
      BY <2>5, Changes DEF Working, Steps
    <3> QED
      BY <1>m, <2>5, <3>1 DEF Went
  <2>6. ~Install /\ ~PutBack
    BY WholeTypes, Moves DEF Move
  <2>7. ~PutBackPartly
    BY WholeTypes, GoKept DEF PutBackPartly, Steps
  <2> QED
    BY <2>1, <2>2, <2>3, <2>4, <2>5, <2>6, <2>7
<1>4. upd'.pc = "report" => Truly
  <2> SUFFICES ASSUME upd'.pc = "report" PROVE Truly
    OBVIOUS
  <2>1. upd' = upd \/ Check \/ SaveCopy \/ Health \/ HealthBack \/ Recover
          \/ Restart \/ RestartFails \/ RecoverFails
    BY WholeTypes, Moves, UpdaterGoes DEF Move, Whole
  <2>8. CASE Restart \/ RestartFails \/ RecoverFails
    <3>1. upd'.outcome = "failed"
      BY <2>8, WholeTypes, GoKept
         DEF Restart, RestartFails, RecoverFails, StartServices, Steps, Outcomes
    <3> QED
      BY <3>1
  <2>2. ASSUME upd.pc \in Working, upd'.op = upd.op, bin' = bin,
               bin \in Nat, Truth(upd.op, upd'.outcome)
        PROVE  Truly
    BY <1>m, <2>2 DEF Truth
  <2>n. bin \in Nat
    BY WholeTypes
  <2>3. CASE upd' = upd
    <3>1. ~Install /\ ~PutBack
      BY <2>3, WholeTypes, Moves DEF Move
    <3>2. bin' = bin /\ upd.pc = "report" /\ upd.pc \in Working
      BY <2>3, <3>1, Changes DEF Working, Steps
    <3> QED
      BY <2>2, <2>3, <2>n, <3>2 DEF Went
  <2>4. CASE Check \/ SaveCopy
    <3>1. /\ upd.pc \in {"check", "copy"} /\ upd.pc \in Working /\ bin' = bin
          /\ upd'.op = upd.op /\ upd'.outcome = "refused"
      BY <2>4, WholeTypes, GoKept DEF Check, SaveCopy, At, Working, Steps, host, Outcomes
    <3>2. from[upd.op] = bin
      BY <3>1, <1>r DEF Replaced, Installing
    <3>3. Truth(upd.op, upd'.outcome)
      BY <2>n, <3>1, <3>2 DEF Truth, Want
    <3> QED
      BY <2>2, <2>n, <3>1, <3>3
  <2>5. CASE Health
    <3>1. /\ upd.pc \in {"health", "resumed"} /\ upd.pc \in Working /\ bin' = bin
          /\ upd'.op = upd.op /\ upd'.outcome = "updated"
      BY <2>5, WholeTypes, GoKept DEF Health, At, Working, Steps, host, Outcomes
    <3>2. bin = Want(upd.op)
      BY <3>1, <1>r DEF Replaced, Went, Want
    <3> QED
      BY <2>2, <2>n, <3>1, <3>2 DEF Truth
  <2>6. CASE HealthBack
    <3>1. /\ upd.pc = "healthBack" /\ upd.pc \in Working /\ bin' = bin
          /\ upd'.op = upd.op /\ upd'.outcome \in {"rolled_back", "failed"}
      BY <2>6, WholeTypes, GoKept DEF HealthBack, At, Working, Steps, host, Outcomes
    <3> QED
      BY <2>2, <2>n, <3>1 DEF Truth, Went
  <2>7. CASE Recover
    <3>1. /\ upd.pc = "recover" /\ upd.pc \in Working /\ bin' = bin /\ copy = NoCopy
          /\ upd'.op = upd.op /\ upd'.outcome = "rolled_back"
      BY <2>7, WholeTypes, GoKept DEF Recover, At, Working, Steps, host, Outcomes
    <3>2. bin = from[upd.op]
      BY <1>w, <3>1, WholeTypes DEF Went
    <3>3. Truth(upd.op, upd'.outcome)
      BY <2>n, <3>1, <3>2 DEF Truth, Want
    <3> QED
      BY <2>2, <2>n, <3>1, <3>3
  <2> QED
    BY <2>1, <2>3, <2>4, <2>5, <2>6, <2>7, <2>8
<1> QED
  BY <1>1, <1>2, <1>3, <1>4 DEF Went, Truth, Want

LEMMA AfterKept ==
    ASSUME Closed, Whole, Recorded, InHand, AfterInv, Went, [Next]_vars PROVE AfterInv'
<1>r. Replaced
  BY DEF Whole
<1>1. ASSUME NEW p \in {request', applying'} \ {None}, NEW q \in Op, q > p, op'[q] # "none"
      PROVE  op'[q] # "updated" /\ from'[q] >= bin'
  <2>1. ASSUME NEW o \in Op, StageBegin(o) PROVE op'[q] # "updated" /\ from'[q] >= bin'
    <3>1. /\ UNCHANGED <<request, applying, bin>>
          /\ op' = [op EXCEPT ![o] = "running"] /\ from' = [from EXCEPT ![o] = bin]
      BY <2>1 DEF StageBegin, host
    <3>2. CASE q = o
      BY <3>1, <3>2, WholeTypes DEF Records
    <3>3. CASE q # o
      <4>1. op'[q] = op[q] /\ from'[q] = from[q]
        BY <3>1, <3>3, WholeTypes DEF Records
      <4> QED
        BY <1>1, <3>1, <4>1 DEF AfterInv
    <3> QED
      BY <3>2, <3>3
  <2>2. CASE PutsBack
    <3>1. /\ upd.pc = "putBackDatabases" /\ request = None /\ applying \in Op /\ copy.done
      BY <2>2, PutBackWhile DEF PutsBack
    <3>2. UNCHANGED <<request, applying, bin, from>> /\ op' = copy.op
      BY <2>2 DEF PutsBack, PutBackDatabases, PutBackPartly, files
    <3>3. Held
      BY <3>1, WholeTypes DEF Held, Saved
    <3>4. op[q] # "none"
      BY <1>1, <3>1, <3>2 DEF Recorded
    <3> QED
      BY <1>1, <3>1, <3>2, <3>3, <3>4 DEF AfterInv
  <2>3. CASE ~PutsBack /\ \A o \in Op : ~StageBegin(o)
    <3>1. op[q] # "none" /\ from'[q] = from[q]
      BY <1>1, <2>3, BegunBy, StaysNamed
    <3>2. p \in {request, applying}
      <4>1. CASE StageDone
        <5>1. request' = staging /\ op' = op /\ applying' = applying
          BY <4>1 DEF StageDone
        <5> QED
          BY <1>1, <5>1 DEF Recorded
      <4>2. CASE Claim
        BY <4>2 DEF Claim
      <4> QED
        BY <4>1, <4>2, Changes
    <3>3. op[q] # "updated" /\ from[q] >= bin
      BY <1>1, <3>1, <3>2 DEF AfterInv
    <3>4. op'[q] # "updated"
      <4>1. CASE Collect /\ result.op = q
        <5>1. result # NoResult /\ request = None
          BY <4>1 DEF Collect, Recorded
        <5> QED
          BY <1>1, <3>2, <4>1, <5>1, WholeTypes DEF Recorded
      <4> QED
        BY <2>3, <3>3, <4>1, SaidBy
    <3>5. from[q] >= bin'
      <4>1. CASE bin' = bin
        BY <3>3, <4>1
      <4>2. upd.pc \in {"install", "putBack"} => p = applying /\ applying = upd.op
        BY <1>1, <3>2, <1>r, WholeTypes DEF Replaced, Working, Steps
      <4>3. CASE upd.pc = "install" /\ staged = upd.op /\ upd.op \in Op
        BY <1>1, <3>1, <4>2, <4>3, WholeTypes DEF Recorded
      <4>4. CASE upd.pc = "putBack" /\ bin' = from[upd.op]
        <5>1. bin \in {from[applying], from[applying] + 1}
          BY <1>1, <4>2, <4>4 DEF Went, Want
        <5>2. from[q] \in Nat /\ from[applying] \in Nat
          BY <1>1, <4>2, <4>4, <3>2, WholeTypes DEF None
        <5> QED
          BY <3>3, <4>2, <4>4, <5>1, <5>2, WholeTypes
      <4> QED
        BY <4>1, <4>3, <4>4, BinGoes
    <3> QED
      BY <3>1, <3>4, <3>5
  <2> QED
    BY <2>1, <2>2, <2>3
<1>2. ASSUME Held', NEW q \in Op, q > applying', copy'.op[q] # "none"
      PROVE  copy'.op[q] # "updated" /\ from'[q] >= copy'.version
  <2>1. CASE SaveDatabases
    <3>1. /\ copy'.op = op /\ copy'.version = copy.version
          /\ UNCHANGED <<op, from, applying>> /\ upd.pc = "databases"
      BY <2>1, WholeTypes DEF SaveDatabases, Copies, agent, files, At
    <3>2. applying = upd.op /\ applying \in Op
      BY <3>1, WholeTypes DEF Working, Steps
    <3>3. copy.version = bin
      BY <3>1, <1>r DEF Replaced, Installing, Copied
    <3> QED
      BY <1>2, <3>1, <3>2, <3>3, WholeTypes DEF AfterInv
  <2>2. ~SaveCopy
    BY <1>2 DEF SaveCopy, NoCopy, Held
  <2>3. CASE copy' = copy /\ ~SaveDatabases
    <3>1. op[q] # "none" /\ copy.done
      BY <1>2, <2>3 DEF Held, Recorded
    <3>2. from'[q] = from[q]
      BY <3>1, StaysNamed
    <3>3. Held /\ applying' = applying
      <4>1. CASE upd'.pc \in Saved
        BY <2>3, <3>1, <4>1, HeldBefore
      <4>2. CASE copy.version = from'[applying'] /\ bin' # copy.version
        <5>1. applying' # None
          BY <1>2 DEF Held
        <5>2. CASE Claim /\ request # None
          <6>1. applying' = request /\ bin' = bin /\ from'[request] = from[request]
            BY <5>2, WholeTypes, StaysNamed DEF Claim, host, Whole, Named, agent
          <6> QED
            BY <4>2, <5>2, <6>1, <1>r DEF Replaced
        <5>3. CASE applying' = applying
          <6>1. from'[applying] = from[applying]
            BY <5>1, <5>3, WholeTypes, StaysNamed DEF Whole, Named
          <6>2. CASE bin' = bin
            BY <3>1, <4>2, <5>1, <5>3, <6>1, <6>2 DEF Held
          <6>3. CASE upd.pc = "install"
            BY <3>1, <5>1, <5>3, <6>3 DEF Held, Saved
          <6> QED
            BY <4>2, <5>3, <6>2, <6>3, BinGoes
        <5> QED
          BY <5>1, <5>2, <5>3, ApplyingGoes
      <4> QED
        BY <1>2, <2>3, <4>1, <4>2 DEF Held
    <3> QED
      BY <1>2, <2>3, <3>2, <3>3 DEF AfterInv
  <2> QED
    BY <2>1, <2>2, <2>3, Changes
<1> QED
  BY <1>1, <1>2 DEF AfterInv

\* A result that is out is true, and so is what the newest update's operation
\* says when nothing will be said of it any more.
Honest ==
    /\ result # NoResult /\ (applying = result.op => upd.pc \in Told)
          => Truth(result.op, result.outcome)
    /\ \A o \in Op :
          op[o] # "none" /\ (\A q \in Op : q > o => op[q] = "none") /\ ~Under(o)
             => Truth(o, op[o])

LEMMA HonestKept ==
    ASSUME Closed, Whole, Recorded, InHand, AfterInv, Went, Honest, [Next]_vars
    PROVE  Honest'
<1>r. Replaced
  BY DEF Whole
<1>i. NoResult.op = None
  BY DEF NoResult
<1>1. ASSUME result' # NoResult, applying' = result'.op => upd'.pc \in Told
      PROVE  /\ result'.outcome = "updated" => bin' = from'[result'.op] + 1
             /\ result'.outcome \in {"running", "refused", "rolled_back", "interrupted"}
                   => bin' # from'[result'.op] + 1
  <2>1. CASE WriteResult
    <3>1. /\ result'.op = upd.op /\ result'.outcome = upd.outcome /\ UNCHANGED <<bin, from>>
          /\ upd.pc = "report"
      BY <2>1 DEF WriteResult, host, agent, At
    <3> QED
      BY <3>1 DEF Went, Truth, Want
  <2>2. CASE result' = result /\ result # NoResult /\ ~WriteResult
    <3>1. result.op \in Op /\ op[result.op] # "none" /\ request = None
      BY <2>2, WholeTypes DEF Recorded, Results
    <3>2. applying = result.op => upd.pc \in Told
      <4> SUFFICES ASSUME applying = result.op, upd.pc \notin Told PROVE FALSE
        OBVIOUS
      <4>1. applying' = applying
        BY <3>1, ApplyingGoes DEF Told
      <4> QED
        BY <1>1, <2>2, <4>1, ToldBy
    <3>3. Truth(result.op, result.outcome)
      BY <2>2, <3>2 DEF Honest
    <3>4. from'[result.op] = from[result.op]
      BY <3>1, StaysNamed
    <3>5. bin' = bin
      <4>1. upd.pc \in {"install", "putBack"} => applying = upd.op /\ upd.op \in Op
        BY WholeTypes DEF Working, Steps
      <4>2. upd.pc \in {"install", "putBack"} => applying = result.op
        BY <2>2, <4>1, WholeTypes DEF Recorded
      <4>3. upd.pc \notin {"install", "putBack"}
        BY <3>2, <4>2 DEF Told
      <4> QED
        BY <4>3, BinGoes
    <3> QED
      BY <2>2, <3>3, <3>4, <3>5 DEF Truth, Want
  <2> QED
    BY <1>1, <2>1, <2>2, Changes
<1>2. ASSUME NEW o \in Op, op'[o] # "none", \A q \in Op : q > o => op'[q] = "none",
             ~Under(o)'
      PROVE  /\ op'[o] = "updated" => bin' = from'[o] + 1
             /\ op'[o] \in {"running", "refused", "rolled_back", "interrupted"}
                   => bin' # from'[o] + 1
  <2>n. bin \in Nat
    BY WholeTypes
  <2>1. ASSUME NEW p \in Op, StageBegin(p)
        PROVE  op'[o] = "running" /\ bin' # from'[o] + 1
    <3>1. /\ op[p] = "none" /\ op' = [op EXCEPT ![p] = "running"]
          /\ from' = [from EXCEPT ![p] = bin] /\ bin' = bin
      BY <2>1 DEF StageBegin, host
    <3>2. o = p
      <4>1. ~(p > o)
        BY <1>2, <3>1, WholeTypes DEF Records
      <4>2. ~(p < o)
        BY <1>2, <3>1, WholeTypes DEF Records, Recorded
      <4> QED
        BY <4>1, <4>2, WholeTypes
    <3> QED
      BY <2>n, <3>1, <3>2, WholeTypes DEF Records
  <2>2. CASE PutsBack
    <3>1. /\ upd.pc = "putBackDatabases" /\ applying \in Op /\ copy.op[applying] # "none"
          /\ copy.done
      BY <2>2, PutBackWhile DEF PutsBack
    <3>2. UNCHANGED <<applying, bin, from>> /\ op' = copy.op
      BY <2>2 DEF PutsBack, PutBackDatabases, PutBackPartly, files
    <3>3. o # applying
      <4>1. upd'.pc = "restart"
        BY <2>2, WholeTypes, Moves DEF PutsBack, Move
      <4> QED
        BY <1>2, <3>2, <4>1 DEF Under, Told
    <3>4. o > applying
      BY <1>2, <3>1, <3>2, <3>3, WholeTypes
    <3>5. Held /\ op[o] # "none"
      BY <1>2, <3>1, <3>2, WholeTypes DEF Held, Saved, Recorded
    <3>6. copy.op[o] # "updated" /\ from[o] >= bin
      BY <1>2, <3>1, <3>2, <3>4, <3>5, WholeTypes DEF AfterInv
    <3> QED
      BY <2>n, <3>2, <3>6, WholeTypes DEF None
  <2>3. CASE ~PutsBack /\ \A p \in Op : ~StageBegin(p)
    <3>1. /\ op[o] # "none" /\ from'[o] = from[o]
          /\ \A q \in Op : q > o => op[q] = "none"
      BY <1>2, <2>3, BegunBy, StaysNamed
    <3>m. ASSUME NEW q \in Op, op[q] # "none" PROVE q <= o
      BY <3>1, <3>m, WholeTypes
    <3>a. applying # None => applying \in Op /\ applying <= o
      BY <3>m, WholeTypes DEF Whole, Named
    <3>2. CASE request = o
      <4>1. ~StageDone
        <5> SUFFICES ASSUME StageDone PROVE FALSE
          OBVIOUS
        <5>1. staging \in Op /\ op[staging] # "none" /\ request' = staging
          BY WholeTypes DEF StageDone, Whole, Named
        <5>2. staging = o
          BY <3>1, <3>m, <5>1, WholeTypes DEF Recorded
        <5> QED
          BY <1>2, <5>1, <5>2 DEF Under
      <4>2. ~Claim
        <5> SUFFICES ASSUME Claim PROVE FALSE
          OBVIOUS
        <5>1. "check" \in Steps /\ request # None
          BY <3>2, WholeTypes DEF Steps
        <5>2. [Off EXCEPT !.pc = "check", !.op = o].pc = "check"
          BY <5>1, OffIs
        <5>3. applying' = o /\ upd'.pc = "check"
          BY <3>2, <5>1, <5>2 DEF Claim
        <5> QED
          BY <1>2, <5>3 DEF Under, Told
      <4>3. WatchGives
        BY <1>2, <3>2, <4>1, <4>2, RequestGoes DEF Under
      <4>4. bin' = bin /\ (op'[o] = op[o] \/ op'[o] = "refused")
        BY <4>3, WholeTypes DEF WatchGives, Abandon, host, Records
      <4>5. from[o] = bin /\ op[o] # "updated"
        BY <3>2, <1>r, WholeTypes DEF Replaced, InHand
      <4> QED
        BY <2>n, <3>1, <4>4, <4>5
    <3>3. CASE result # NoResult /\ result.op = o
      <4>1. ~WriteResult
        <5> SUFFICES ASSUME WriteResult PROVE FALSE
          OBVIOUS
        <5>1. applying = upd.op /\ upd.op \in Op /\ result'.op = upd.op
          BY WholeTypes DEF WriteResult, At, Working, Steps
        <5>2. result'.op = o /\ result' # NoResult
          BY <1>i, <3>3, <5>1, WholeTypes DEF Recorded
        <5> QED
          BY <1>2, <5>2 DEF Under
      <4>2. Collect
        BY <1>2, <3>3, <4>1, ResultGoes DEF Under
      <4>3. op'[o] \in {result.outcome, "lost"} /\ UNCHANGED <<bin, applying, upd>>
        BY <3>1, <3>3, <4>2, WholeTypes DEF Collect, host, Records
      <4>4. Truth(o, result.outcome)
        BY <1>2, <3>3, <4>3 DEF Under, Honest
      <4> QED
        BY <3>1, <4>3, <4>4 DEF Truth, Want
    <3>4. CASE applying = o /\ upd.pc \notin Told
      <4>1. ~(Claim /\ request # None)
        BY <3>m, <3>4, WholeTypes DEF InHand, Whole, Named
      <4>2. applying' = applying
        BY <3>4, <4>1, ApplyingGoes DEF Told
      <4>3. WriteResult
        BY <1>2, <3>4, <4>2, ToldBy DEF Under
      <4>4. result'.op = o /\ result' # NoResult
        BY <1>i, <3>4, <4>3, WholeTypes DEF WriteResult, At, Working, Steps
      <4> QED
        BY <1>2, <4>4 DEF Under
    <3>5. CASE ~Under(o)
      <4>1. Truth(o, op[o])
        BY <3>1, <3>5 DEF Honest
      <4>2. CASE bin' = bin
        <5>1. CASE op'[o] = op[o]
          BY <3>1, <4>1, <4>2, <5>1 DEF Truth, Want
        <5>2. CASE Collect
          <6>1. result # NoResult /\ result.op # o
            BY <3>5, <5>2 DEF Collect, Under
          <6> QED
            BY <5>1, <5>2, <6>1, WholeTypes DEF Collect, Records
        <5>3. CASE WatchGives
          <6>1. installing # o
            BY <3>1, <3>5, <5>3 DEF WatchGives, InHand
          <6> QED
            BY <5>1, <5>3, <6>1, WholeTypes DEF WatchGives, Abandon, Records
        <5>4. CASE WatchLong
          <6>1. op'[o] = op[o] \/ op'[o] = "failed"
            BY <5>4, WholeTypes DEF WatchLong, Abandon, Records
          <6> QED
            BY <5>1, <6>1
        <5>5. CASE StageFails
          <6>1. op'[o] = op[o] \/ (o = staging /\ op'[o] = "refused")
            BY <5>5, WholeTypes DEF StageFails, Records
          <6>2. o = staging => from[o] = bin
            BY <1>r, WholeTypes DEF Replaced
          <6> QED
            BY <2>n, <3>1, <4>2, <5>1, <6>1, <6>2
        <5>6. CASE AgentLoads(bin)
          <6>1. op'[o] = op[o] \/ (op[o] = "running" /\ op'[o] = "interrupted")
            BY <5>6 DEF AgentLoads
          <6> QED
            BY <3>1, <4>1, <4>2, <5>1, <6>1 DEF Truth, Want
        <5>7. CASE PutBackPartly
          <6>1. op'[o] = op[o] \/ op'[o] = "lost"
            BY <2>3, <3>1, <5>7 DEF PutBackPartly, PutsBack, Lost
          <6> QED
            BY <5>1, <6>1
        <5> QED
          BY <2>3, <5>1, <5>2, <5>3, <5>4, <5>5, <5>6, <5>7, AgentChanges
             DEF agent, StageDone, WatchSees, PutBackDatabases, PutsBack, AgentGone
      <4>3. CASE upd.pc = "install" /\ applying = upd.op /\ staged = upd.op
        <5>1. o = applying
          BY <3>1, <3>a, <4>3, WholeTypes DEF Recorded, Working, Steps
        <5> QED
          BY <3>5, <4>3, <5>1 DEF Under, Told
      <4>4. CASE /\ PutBack /\ upd.pc = "putBack" /\ applying = upd.op /\ applying \in Op
                 /\ bin' = from[upd.op]
        <5>1. o > applying
          BY <3>5, <3>a, <4>4, WholeTypes DEF Under, Told
        <5>2. op[o] # "updated" /\ from[o] >= bin
          BY <3>1, <4>4, <5>1, WholeTypes DEF AfterInv
        <5>3. bin \in {from[applying], from[applying] + 1}
          BY <4>4, WholeTypes DEF Went, Want
        <5>4. from[o] \in Nat /\ from[applying] \in Nat /\ op' = op
          BY <4>4, WholeTypes DEF PutBack, agent, None
        <5> QED
          BY <3>1, <4>4, <5>2, <5>3, <5>4
      <4> QED
        BY <4>2, <4>3, <4>4, BinGoes
    <3> QED
      BY <3>2, <3>3, <3>4, <3>5 DEF Under
  <2> QED
    BY <2>1, <2>2, <2>3
<1> QED
  BY <1>1, <1>2 DEF Honest, Truth, Want

-----------------------------------------------------------------------------
Said == Whole /\ Recorded /\ InHand /\ AfterInv /\ Went /\ Honest

LEMMA SaidInit == Init => Said
<1> SUFFICES ASSUME Init PROVE Said
  OBVIOUS
<1>1. /\ upd.pc = "off" /\ copy = NoCopy /\ ~copy.done
      /\ \A o \in Op : op[o] = "none"
      /\ staging = None /\ installing = None /\ ~sawRequest
      /\ request = None /\ applying = None /\ staged = None /\ result = NoResult
  BY DEF Init, Off, NoCopy
<1> QED
  BY <1>1, WholeInit DEF Said, Recorded, InHand, AfterInv, Held, Went, Honest

LEMMA SaidNext == Closed /\ Said /\ [Next]_vars => Said'
BY WholeStep, RecordedKept, InHandKept, AfterKept, WentKept, HonestKept DEF Said

(* HonestWhenQuiet, for any number of updates, failing steps, kills and     *)
(* power cuts: once nothing is handed over, installed or reported, what the *)
(* dashboard says of the newest update is what is installed, although an    *)
(* update that was given up may be installed all the same, reported late,   *)
(* or put back with the databases that hold its operation; with the four    *)
(* windows closed.                                                          *)
THEOREM TheDashboardIsHonest == ASSUME Closed PROVE Spec => []HonestWhenQuiet
<1>1. Said => HonestWhenQuiet
  <2> SUFFICES ASSUME Said, Quiet, NEW o \in Op, op[o] # "none",
                      \A p \in Op : p > o => op[p] = "none"
               PROVE  Truth(o, op[o])
    BY DEF HonestWhenQuiet, Truth
  <2>1. ~Under(o)
    BY WholeTypes DEF Said, Quiet, Under
  <2> QED
    BY <2>1 DEF Said, Honest
<1> QED
  BY Closed, <1>1, SaidInit, SaidNext, PTL DEF Spec

=============================================================================
