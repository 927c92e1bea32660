--------------------------- MODULE ServerSleepProofs ---------------------------
(***************************************************************************)
(* Proofs about ServerSleep, for any players, limits and numbers of        *)
(* faults.  The count of wakes needs only what a join's wake does to it;   *)
(* the port and the owner's wishes rest on SleepInv, which says of every   *)
(* step of an operation what it may rely on because it holds the lock.     *)
(***************************************************************************)
EXTENDS ServerSleep, FiniteSetTheorems, TLAPS

(* The variables' types without the bound on the wakes that began. *)
Flags ==
    /\ enabled \in BOOLEAN /\ asleep \in BOOLEAN /\ listening \in BOOLEAN
    /\ marked \in BOOLEAN /\ waking \in BOOLEAN /\ paused \in BOOLEAN
    /\ due \in BOOLEAN /\ crashed \in BOOLEAN /\ owed \in BOOLEAN

Values ==
    /\ desired \in {"running", "stopped", "sleeping"}
    /\ container \in {"on", "off", "gone"}
    /\ exit \in {"handled", "meant", "died", "found"}
    /\ seen \in {"none", "running", "stopped", "sleeping"}
    /\ recent \in 0..MaxWakes /\ begun \in Nat /\ faults \in 0..MaxFaults
    /\ join \in [Player -> {"none", "checked", "granted", "waiting", "asking"}]

Types == Flags /\ Values /\ op \in Ops

(* Who was granted a wake whose operation hasn't begun. *)
Asked == {p \in Player : join[p] \in {"granted", "waiting", "asking"}}


JoinStep(p) == Join(p) \/ Try(p) \/ WakeFor(p) \/ WakeLooks(p) \/ WakeBegins(p)

-----------------------------------------------------------------------------
(* Types *)

(* Every action keeps the flags Boolean. *)
LEMMA FlagsKept == Types /\ [Next]_vars => Flags'
<1> SUFFICES ASSUME Types, [Next]_vars PROVE Flags'
  OBVIOUS
<1> USE DEF Types, Flags, server, limit, policy, memory
<1>1. ASSUME NEW p \in Player, JoinStep(p) PROVE Flags'
  <2>1. CASE Join(p)
    BY <2>1 DEF Join
  <2>2. CASE Try(p)
    BY <2>2 DEF Try, MayWake
  <2>3. CASE WakeFor(p)
    BY <2>3 DEF WakeFor, CallOff, Refund
  <2>4. CASE WakeLooks(p)
    BY <2>4 DEF WakeLooks, CallOff, Refund
  <2>5. CASE WakeBegins(p)
    BY <2>5 DEF WakeBegins, Begin
  <2> QED BY <1>1, <2>1, <2>2, <2>3, <2>4, <2>5 DEF JoinStep
<1>2. CASE TimePasses
  BY <1>2 DEF TimePasses
<1>3. CASE Decides
  BY <1>3 DEF Decides
<1>4. CASE FallAsleep
  BY <1>4 DEF FallAsleep, Begin
<1>5. CASE SleepLooks
  BY <1>5 DEF SleepLooks, At, Go, End
<1>6. CASE SleepStops
  BY <1>6 DEF SleepStops, At, Go, StopContainer
<1>7. CASE SleepStopFails
  BY <1>7 DEF SleepStopFails, At, End, StopFails, Running
<1>8. CASE SleepListens
  BY <1>8 DEF SleepListens, Listen, At, End
<1>9. CASE ResumeLooks
  BY <1>9 DEF ResumeLooks, LeaveSleep, Release, Begin
<1>10. CASE ResumeListens
  BY <1>10 DEF ResumeListens, Listen, At, End
<1>11. CASE WakeReleases
  BY <1>11 DEF WakeReleases, LeaveSleep, Release, At, End
<1>12. CASE StartBegins
  BY <1>12 DEF StartBegins, At, Go
<1>13. CASE Prepare
  BY <1>13 DEF Prepare, Started, Starts, LeaveSleep, Release, Go, End
<1>14. CASE PrepareFails
  BY <1>14 DEF PrepareFails, Starts, Go
<1>15. CASE Launch
  BY <1>15 DEF Launch, Starts, Go
<1>16. CASE LaunchFails
  BY <1>16 DEF LaunchFails, Starts, Go
<1>17. CASE Ready
  BY <1>17 DEF Ready, Started, Starts, End
<1>18. CASE ReadyFails
  BY <1>18 DEF ReadyFails, Starts, Go
<1>19. CASE WakeFails
  BY <1>19 DEF WakeFails, At, Go, Listen
<1>20. CASE WakeSettles
  BY <1>20 DEF WakeSettles, At, End, LeaveSleep, Release, Silent
<1>21. CASE StartFails
  BY <1>21 DEF StartFails, At, End, LeaveSleep, Release, Silent
<1>22. CASE AutoFails
  BY <1>22 DEF AutoFails, At, End
<1>23. CASE OwnerStarts
  BY <1>23 DEF OwnerStarts, Begin
<1>24. CASE OwnerStops
  BY <1>24 DEF OwnerStops, Begin, LeaveSleep, Release
<1>25. CASE StopStops
  BY <1>25 DEF StopStops, At, End, StopContainer, StopFails, Running
<1>26. CASE SaveSleep
  BY <1>26 DEF SaveSleep, Begin
<1>27. CASE OtherBegins
  BY <1>27 DEF OtherBegins, Begin
<1>28. CASE OtherEnds
  BY <1>28 DEF OtherEnds, At, End
<1>29. CASE ReconcileLooks
  BY <1>29 DEF ReconcileLooks
<1>30. CASE Reconcile
  BY <1>30 DEF Reconcile, BroughtBack, RecoverStart, AutoStart, Begin
<1>31. CASE Dies
  BY <1>31 DEF Dies
<1>32. CASE StartedOutside
  BY <1>32 DEF StartedOutside
<1>33. CASE AgentRestarts
  BY <1>33 DEF AgentRestarts
<1>34. CASE GetsOnline
  BY <1>34 DEF GetsOnline
<1>35. CASE UNCHANGED vars
  BY <1>35 DEF vars
<1> QED BY <1>1, <1>2, <1>3, <1>4, <1>5, <1>6, <1>7, <1>8, <1>9, <1>10,
           <1>11, <1>12, <1>13, <1>14, <1>15, <1>16, <1>17, <1>18, <1>19,
           <1>20, <1>21, <1>22, <1>23, <1>24, <1>25, <1>26, <1>27, <1>28,
           <1>29, <1>30, <1>31, <1>32, <1>33, <1>34, <1>35
     DEF Next, OpSteps, SleepSteps, StartSteps, JoinStep

(* An operation that begins, goes on or ends is an operation. *)
LEMMA FreeIsOp == Free \in Ops
BY DEF Ops, Free, Kinds, Steps

LEMMA BegunIsOp ==
    ASSUME NEW kind \in Kinds \ {"none"}, NEW at \in Steps, NEW held \in BOOLEAN
    PROVE  [kind |-> kind, at |-> at, held |-> held] \in Ops
BY DEF Ops

LEMMA StepIsOp ==
    ASSUME op \in Ops, op.kind # "none", NEW at \in Steps, NEW held \in BOOLEAN
    PROVE  /\ [op EXCEPT !.at = at] \in Ops
           /\ [op EXCEPT !.at = at, !.held = held] \in Ops
BY DEF Ops

(* Every action leaves no operation or one with a kind and a step. *)
LEMMA OpsKept == Types /\ [Next]_vars => op' \in Ops
<1> SUFFICES ASSUME Types, [Next]_vars PROVE op' \in Ops
  OBVIOUS
<1>0. listening \in BOOLEAN /\ op \in Ops
  BY DEF Types, Flags
<1> USE <1>0 DEF Kinds, Steps
<1>1. ASSUME NEW p \in Player, JoinStep(p) PROVE op' \in Ops
  BY <1>1, BegunIsOp DEF JoinStep, Join, Try, WakeFor, WakeLooks, WakeBegins, Begin
<1>2. CASE TimePasses
  BY <1>2 DEF TimePasses
<1>3. CASE Decides
  BY <1>3 DEF Decides
<1>4. CASE FallAsleep
  BY <1>4, BegunIsOp DEF FallAsleep, Begin
<1>5. CASE SleepLooks
  BY <1>5, StepIsOp, FreeIsOp DEF SleepLooks, At, Go, End
<1>6. CASE SleepStops
  BY <1>6, StepIsOp DEF SleepStops, At, Go
<1>7. CASE SleepStopFails
  BY <1>7, FreeIsOp DEF SleepStopFails, At, End
<1>8. CASE SleepListens
  BY <1>8, FreeIsOp DEF SleepListens, At, End
<1>9. CASE ResumeLooks
  BY <1>9, BegunIsOp DEF ResumeLooks, Begin
<1>10. CASE ResumeListens
  BY <1>10, FreeIsOp DEF ResumeListens, At, End
<1>11. CASE WakeReleases
  BY <1>11, StepIsOp, FreeIsOp DEF WakeReleases, At, End
<1>12. CASE StartBegins
  BY <1>12, StepIsOp DEF StartBegins, At, Go
<1>13. CASE Prepare
  BY <1>13, StepIsOp, FreeIsOp DEF Prepare, Started, Starts, Go, End
<1>14. CASE PrepareFails
  BY <1>14, StepIsOp DEF PrepareFails, Starts, Go
<1>15. CASE Launch
  BY <1>15, StepIsOp DEF Launch, Starts, Go
<1>16. CASE LaunchFails
  BY <1>16, StepIsOp DEF LaunchFails, Starts, Go
<1>17. CASE Ready
  BY <1>17, FreeIsOp DEF Ready, Started, Starts, End
<1>18. CASE ReadyFails
  BY <1>18, StepIsOp DEF ReadyFails, Starts, Go
<1>19. CASE WakeFails
  BY <1>19, StepIsOp DEF WakeFails, At, Go
<1>20. CASE WakeSettles
  BY <1>20, FreeIsOp DEF WakeSettles, At, End
<1>21. CASE StartFails
  BY <1>21, FreeIsOp DEF StartFails, At, End
<1>22. CASE AutoFails
  BY <1>22, FreeIsOp DEF AutoFails, At, End
<1>23. CASE OwnerStarts
  BY <1>23, BegunIsOp DEF OwnerStarts, Begin
<1>24. CASE OwnerStops
  BY <1>24, BegunIsOp DEF OwnerStops, Begin
<1>25. CASE StopStops
  BY <1>25, FreeIsOp DEF StopStops, At, End
<1>26. CASE SaveSleep
  BY <1>26, BegunIsOp DEF SaveSleep, Begin
<1>27. CASE OtherBegins
  BY <1>27, BegunIsOp DEF OtherBegins, Begin
<1>28. CASE OtherEnds
  BY <1>28, FreeIsOp DEF OtherEnds, At, End
<1>29. CASE ReconcileLooks
  BY <1>29 DEF ReconcileLooks
<1>30. CASE Reconcile
  BY <1>30, BegunIsOp DEF Reconcile, BroughtBack, RecoverStart, AutoStart, Begin
<1>31. CASE Dies
  BY <1>31 DEF Dies
<1>32. CASE StartedOutside
  BY <1>32 DEF StartedOutside
<1>33. CASE AgentRestarts
  BY <1>33, FreeIsOp DEF AgentRestarts
<1>34. CASE GetsOnline
  BY <1>34 DEF GetsOnline
<1>35. CASE UNCHANGED vars
  BY <1>35 DEF vars
<1> QED BY <1>1, <1>2, <1>3, <1>4, <1>5, <1>6, <1>7, <1>8, <1>9, <1>10,
           <1>11, <1>12, <1>13, <1>14, <1>15, <1>16, <1>17, <1>18, <1>19,
           <1>20, <1>21, <1>22, <1>23, <1>24, <1>25, <1>26, <1>27, <1>28,
           <1>29, <1>30, <1>31, <1>32, <1>33, <1>34, <1>35
     DEF Next, OpSteps, SleepSteps, StartSteps, JoinStep

(* Every action keeps the other variables in their types. *)
LEMMA ValuesKept == Types /\ [Next]_vars => Values'
<1> SUFFICES ASSUME Types, [Next]_vars PROVE Values'
  OBVIOUS
<1>a. Values
  BY DEF Types
<1>b. MaxWakes \in Nat /\ MaxFaults \in Nat
  BY BoundsAssumption
<1> USE DEF Values, Fault, server, limit, policy, memory
<1>1. ASSUME NEW p \in Player, JoinStep(p) PROVE Values'
  <2>1. CASE Join(p)
    BY <1>a, <1>b, <2>1 DEF Join
  <2>2. CASE Try(p)
    BY <1>a, <1>b, <2>2 DEF Try, MayWake
  <2>3. CASE WakeFor(p)
    BY <1>a, <1>b, <2>3 DEF WakeFor, CallOff, Refund
  <2>4. CASE WakeLooks(p)
    BY <1>a, <1>b, <2>4 DEF WakeLooks, CallOff, Refund
  <2>5. CASE WakeBegins(p)
    BY <1>a, <1>b, <2>5 DEF WakeBegins, Begin
  <2> QED BY <1>1, <2>1, <2>2, <2>3, <2>4, <2>5 DEF JoinStep
<1>2. CASE TimePasses
  BY <1>a, <1>b, <1>2 DEF TimePasses
<1>3. CASE Decides
  BY <1>a, <1>b, <1>3 DEF Decides
<1>4. CASE FallAsleep
  BY <1>a, <1>b, <1>4 DEF FallAsleep, Begin
<1>5. CASE SleepLooks
  BY <1>a, <1>b, <1>5 DEF SleepLooks, At, Go, End
<1>6. CASE SleepStops
  BY <1>a, <1>b, <1>6 DEF SleepStops, At, Go, StopContainer
<1>7. CASE SleepStopFails
  BY <1>a, <1>b, <1>7 DEF SleepStopFails, At, End, StopFails, Running
<1>8. CASE SleepListens
  BY <1>a, <1>b, <1>8 DEF SleepListens, Listen, At, End
<1>9. CASE ResumeLooks
  BY <1>a, <1>b, <1>9 DEF ResumeLooks, LeaveSleep, Release, Begin
<1>10. CASE ResumeListens
  BY <1>a, <1>b, <1>10 DEF ResumeListens, Listen, At, End
<1>11. CASE WakeReleases
  BY <1>a, <1>b, <1>11 DEF WakeReleases, LeaveSleep, Release, At, End
<1>12. CASE StartBegins
  BY <1>a, <1>b, <1>12 DEF StartBegins, At, Go
<1>13. CASE Prepare
  BY <1>a, <1>b, <1>13 DEF Prepare, Started, Starts, LeaveSleep, Release, Go, End
<1>14. CASE PrepareFails
  BY <1>a, <1>b, <1>14 DEF PrepareFails, Starts, Go
<1>15. CASE Launch
  BY <1>a, <1>b, <1>15 DEF Launch, Starts, Go
<1>16. CASE LaunchFails
  BY <1>a, <1>b, <1>16 DEF LaunchFails, Starts, Go
<1>17. CASE Ready
  BY <1>a, <1>b, <1>17 DEF Ready, Started, Starts, End
<1>18. CASE ReadyFails
  BY <1>a, <1>b, <1>18 DEF ReadyFails, Starts, Go
<1>19. CASE WakeFails
  BY <1>a, <1>b, <1>19 DEF WakeFails, At, Go, Listen
<1>20. CASE WakeSettles
  BY <1>a, <1>b, <1>20 DEF WakeSettles, At, End, LeaveSleep, Release, Silent
<1>21. CASE StartFails
  BY <1>a, <1>b, <1>21 DEF StartFails, At, End, LeaveSleep, Release, Silent
<1>22. CASE AutoFails
  BY <1>a, <1>b, <1>22 DEF AutoFails, At, End
<1>23. CASE OwnerStarts
  BY <1>a, <1>b, <1>23 DEF OwnerStarts, Begin
<1>24. CASE OwnerStops
  BY <1>a, <1>b, <1>24 DEF OwnerStops, Begin, LeaveSleep, Release
<1>25. CASE StopStops
  BY <1>a, <1>b, <1>25 DEF StopStops, At, End, StopContainer, StopFails, Running
<1>26. CASE SaveSleep
  BY <1>a, <1>b, <1>26 DEF SaveSleep, Begin
<1>27. CASE OtherBegins
  BY <1>a, <1>b, <1>27 DEF OtherBegins, Begin
<1>28. CASE OtherEnds
  BY <1>a, <1>b, <1>28 DEF OtherEnds, At, End
<1>29. CASE ReconcileLooks
  BY <1>a, <1>b, <1>29 DEF ReconcileLooks
<1>30. CASE Reconcile
  BY <1>a, <1>b, <1>30 DEF Reconcile, BroughtBack, RecoverStart, AutoStart, Begin
<1>31. CASE Dies
  BY <1>a, <1>b, <1>31 DEF Dies
<1>32. CASE StartedOutside
  BY <1>a, <1>b, <1>32 DEF StartedOutside
<1>33. CASE AgentRestarts
  BY <1>a, <1>b, <1>33 DEF AgentRestarts
<1>34. CASE GetsOnline
  BY <1>a, <1>b, <1>34 DEF GetsOnline
<1>35. CASE UNCHANGED vars
  BY <1>a, <1>35 DEF vars
<1> HIDE DEF Values, Fault, server, limit, policy, memory
<1> QED BY <1>1, <1>2, <1>3, <1>4, <1>5, <1>6, <1>7, <1>8, <1>9, <1>10, <1>11,
           <1>12, <1>13, <1>14, <1>15, <1>16, <1>17, <1>18, <1>19, <1>20, <1>21,
           <1>22, <1>23, <1>24, <1>25, <1>26, <1>27, <1>28, <1>29, <1>30, <1>31,
           <1>32, <1>33, <1>34, <1>35
     DEF Next, OpSteps, SleepSteps, StartSteps, JoinStep

LEMMA TypesKept == Types /\ [Next]_vars => Types'
BY FlagsKept, OpsKept, ValuesKept DEF Types

(* The server begins awake. *)
LEMMA InitTypes == Init => Types
<1> SUFFICES ASSUME Init PROVE Types
  OBVIOUS
<1>1. Flags
  BY DEF Init, Flags
<1>2. Values
  BY BoundsAssumption DEF Init, Values
<1> QED BY <1>1, <1>2, FreeIsOp DEF Types, Init

LEMMA TypesHold == Spec => []Types
BY InitTypes, TypesKept, PTL DEF Spec

-----------------------------------------------------------------------------
(* The wakes that count *)

(* A player who is granted a wake, or gives one up, is counted once. *)
LEMMA AskedCounts ==
    ASSUME NEW S \in SUBSET Player, NEW p \in Player
    PROVE  /\ Cardinality(S) \in Nat
           /\ p \notin S => Cardinality(S \cup {p}) = Cardinality(S) + 1
           /\ p \in S => /\ Cardinality(S \ {p}) = Cardinality(S) - 1
                         /\ Cardinality(S) > 0
<1>1. IsFiniteSet(S) /\ IsFiniteSet(S \ {p})
  BY PlayersAssumption, FS_Subset
<1>2. Cardinality(S) \in Nat /\ Cardinality(S \ {p}) \in Nat
  BY <1>1, FS_CardinalityType
<1>3. p \notin S => Cardinality(S \cup {p}) = Cardinality(S) + 1
  BY <1>1, FS_AddElement
<1>4. p \in S => Cardinality(S \ {p}) = Cardinality(S) - 1
  BY <1>1, FS_RemoveElement
<1> QED BY <1>2, <1>3, <1>4

(* Joins keep the count, and nothing else but a restart changes it. *)
LEMMA CountKept == Types /\ WakesCounted /\ [Next]_vars => WakesCounted'
<1> SUFFICES ASSUME Types, WakesCounted, [Next]_vars PROVE WakesCounted'
  OBVIOUS
<1>1. /\ recent \in Nat /\ begun \in Nat
      /\ join \in [Player -> {"none", "checked", "granted", "waiting", "asking"}]
      /\ recent = begun + Cardinality(Asked) /\ Asked \in SUBSET Player
  BY BoundsAssumption DEF Types, Values, WakesCounted, Asked
<1>2. SUFFICES recent' = begun' + Cardinality(Asked')
  BY DEF WakesCounted, Asked
<1>3. ASSUME NEW p \in Player, JoinStep(p) PROVE recent' = begun' + Cardinality(Asked')
  <2>1. /\ Cardinality(Asked) \in Nat
        /\ p \notin Asked => Cardinality(Asked \cup {p}) = Cardinality(Asked) + 1
        /\ p \in Asked => /\ Cardinality(Asked \ {p}) = Cardinality(Asked) - 1
                          /\ Cardinality(Asked) > 0
    BY <1>1, AskedCounts
  <2>2. CASE Join(p)
    <3>1. Asked' = Asked
      BY <1>1, <2>2 DEF Join, Asked
    <3> QED BY <1>1, <2>2, <3>1 DEF Join, limit
  <2>3. CASE Try(p) /\ MayWake
    <3>1. Asked' = Asked \cup {p} /\ p \notin Asked
      BY <1>1, <2>3 DEF Try, Asked
    <3> QED BY <1>1, <2>1, <2>3, <3>1 DEF Try
  <2>4. CASE Try(p) /\ ~MayWake
    <3>1. Asked' = Asked
      BY <1>1, <2>4 DEF Try, Asked
    <3> QED BY <1>1, <2>4, <3>1 DEF Try
  <2>5. CASE (WakeFor(p) \/ WakeLooks(p)) /\ CallOff(p)
    <3>1. Asked' = Asked \ {p} /\ p \in Asked
      BY <1>1, <2>5 DEF WakeFor, WakeLooks, CallOff, Asked
    <3>2. recent' = recent - 1 /\ begun' = begun
      BY <1>1, <2>1, <2>5, <3>1 DEF WakeFor, WakeLooks, CallOff, Refund
    <3> QED BY <1>1, <2>1, <3>1, <3>2
  <2>6. CASE (WakeFor(p) \/ WakeLooks(p)) /\ ~CallOff(p)
    <3>1. Asked' = Asked
      BY <1>1, <2>6 DEF WakeFor, WakeLooks, Asked
    <3> QED BY <1>1, <2>6, <3>1 DEF WakeFor, WakeLooks, limit
  <2>7. CASE WakeBegins(p) /\ op = Free
    <3>1. Asked' = Asked \ {p} /\ p \in Asked
      BY <1>1, <2>7 DEF WakeBegins, Asked
    <3> QED BY <1>1, <2>1, <2>7, <3>1 DEF WakeBegins, limit
  <2>8. CASE WakeBegins(p) /\ op # Free
    <3>1. Asked' = Asked
      BY <1>1, <2>8 DEF WakeBegins, Asked
    <3> QED BY <1>1, <2>8, <3>1 DEF WakeBegins, limit
  <2> QED BY <1>3, <2>2, <2>3, <2>4, <2>5, <2>6, <2>7, <2>8 DEF JoinStep
<1>4. CASE AgentRestarts
  <2>1. Asked' = {}
    BY <1>4 DEF AgentRestarts, Asked
  <2> QED BY <1>4, <2>1, FS_EmptySet DEF AgentRestarts
<1>5. CASE UNCHANGED <<recent, begun, join>>
  BY <1>1, <1>5 DEF Asked
<1>6. \/ \E p \in Player : JoinStep(p)
      \/ AgentRestarts
      \/ UNCHANGED <<recent, begun, join>>
  BY DEF Next, OpSteps, SleepSteps, StartSteps, JoinStep, vars, limit,
         TimePasses, Decides, FallAsleep, SleepLooks, SleepStops,
         SleepStopFails, SleepListens, ResumeLooks, ResumeListens,
         WakeReleases, StartBegins, Prepare, PrepareFails, Launch,
         LaunchFails, Ready, ReadyFails, WakeFails, WakeSettles, StartFails,
         AutoFails, OwnerStarts, OwnerStops, StopStops, SaveSleep,
         OtherBegins, OtherEnds, ReconcileLooks, Reconcile, Dies,
         StartedOutside, GetsOnline
<1> QED BY <1>3, <1>4, <1>5, <1>6

(* Every wake that was counted asks for the operation lock or got it: wakes *)
(* called off are given back, and only to the join they were counted for. *)
THEOREM WakesAreCounted == Spec => []WakesCounted
<1>1. Init => WakesCounted
  <2> SUFFICES ASSUME Init PROVE WakesCounted
    OBVIOUS
  <2>1. Asked = {} /\ recent = 0 /\ begun = 0
    BY DEF Init, Asked
  <2> QED BY <2>1, FS_EmptySet DEF WakesCounted, Asked
<1> QED BY <1>1, CountKept, TypesHold, PTL DEF Spec

(* The variables keep their types; no hour counts more wakes than allowed, *)
(* and so none begins more. *)
THEOREM SleepTypeCorrect == Spec => []TypeOK
<1>1. Types /\ WakesCounted => TypeOK
  <2> SUFFICES ASSUME Types, WakesCounted PROVE TypeOK
    OBVIOUS
  <2>1. /\ recent \in 0..MaxWakes /\ begun \in Nat
        /\ recent = begun + Cardinality(Asked) /\ Asked \in SUBSET Player
    BY DEF Types, Values, WakesCounted, Asked
  <2>2. IsFiniteSet(Asked)
    BY <2>1, PlayersAssumption, FS_Subset
  <2>3. Cardinality(Asked) \in Nat
    BY <2>2, FS_CardinalityType
  <2>4. begun \in 0..MaxWakes
    BY <2>1, <2>3, BoundsAssumption
  <2>5. Flags /\ Values /\ op \in Ops
    BY DEF Types
  <2> QED BY <2>4, <2>5 DEF TypeOK, Flags, Values
<1> QED BY <1>1, TypesHold, WakesAreCounted, PTL

-----------------------------------------------------------------------------
(* The port and the owner's wishes *)

(* Two sequences the model excludes would break them: a start by the       *)
(* reconcile loop that read the desired state before the owner changed it, *)
(* and an agent that restarts between turning sleep off and the start that *)
(* follows.                                                                *)
Excluded == {"staleReconcile", "restartTurningOff"} \cap Windows = {}

(* What holds because an operation holds the lock: the stand-in only has    *)
(* the port while the container is stopped, and only for a server that is   *)
(* meant to sleep or that a start or a failed wake is about to settle; and  *)
(* each step finds the desired state as the steps before it left it.        *)
SleepInv ==
    /\ listening => ~Running
    /\ op.at \in {"launch", "ready"} => ~listening /\ ~asleep
    /\ op.at \in {"prepare", "launch"} => desired = "running"
    /\ listening => desired = "sleeping" \/ op.kind = "start" \/ At("wake", "settle")
    /\ desired = "sleeping" => enabled \/ At("start", "begun")
    /\ op.kind = "wake" /\ op.at # "begun" => enabled
    /\ op.kind = "sleep" /\ op.at # "begun" => desired = "sleeping"
    /\ op.kind = "resume" => desired = "sleeping"
    /\ op.kind = "auto" => ~listening

(* An operation that goes on is of the same kind. *)
LEMMA OpGoesOn ==
    ASSUME NEW o \in [kind : Kinds, at : Steps, held : BOOLEAN], NEW at, NEW held
    PROVE  /\ [o EXCEPT !.at = at].kind = o.kind /\ [o EXCEPT !.at = at].at = at
           /\ [o EXCEPT !.at = at, !.held = held].kind = o.kind
           /\ [o EXCEPT !.at = at, !.held = held].at = at
OBVIOUS

(* Every step keeps SleepInv. *)
LEMMA SleepInvKept == Excluded /\ Types /\ SleepInv /\ [Next]_vars => SleepInv'
<1> SUFFICES ASSUME Excluded, Types, SleepInv, [Next]_vars PROVE SleepInv'
  OBVIOUS
<1>0. /\ op \in [kind : Kinds, at : Steps, held : BOOLEAN]
      /\ op.kind = "none" => op = Free
  BY DEF Types, Ops
<1> USE DEF SleepInv, Running, At, Free, server, limit, policy, memory
<1>1. ASSUME NEW p \in Player, JoinStep(p) PROVE SleepInv'
  BY <1>1 DEF JoinStep, Join, Try, WakeFor, WakeLooks, WakeBegins, Begin
<1>2. CASE TimePasses
  BY <1>0, <1>2 DEF TimePasses
<1>3. CASE Decides
  BY <1>0, <1>3 DEF Decides
<1>4. CASE FallAsleep
  BY <1>0, <1>4 DEF FallAsleep, Begin
<1>5. CASE SleepLooks
  <2>1. CASE End /\ UNCHANGED desired
    BY <1>0, <1>5, <2>1 DEF SleepLooks, End
  <2>2. CASE /\ enabled /\ desired = "running"
             /\ desired' = "sleeping" /\ Go("stopping")
    <3>1. op.kind = "sleep" /\ op'.kind = "sleep" /\ op'.at = "stopping"
      BY <1>0, <1>5, <2>2, OpGoesOn DEF SleepLooks, Go
    <3>2. desired = "running"
      BY <2>2
    <3>3. ~listening
      BY <3>1, <3>2
    <3> QED BY <1>5, <2>2, <3>1, <3>3 DEF SleepLooks
  <2> QED BY <1>5, <2>1, <2>2 DEF SleepLooks
<1>6. CASE SleepStops
  BY <1>0, <1>6 DEF SleepStops, Go, StopContainer
<1>7. CASE SleepStopFails
  BY <1>0, <1>7 DEF SleepStopFails, End, StopFails
<1>8. CASE SleepListens
  BY <1>0, <1>8 DEF SleepListens, Listen, End
<1>9. CASE ResumeLooks
  BY <1>0, <1>9 DEF ResumeLooks, LeaveSleep, Release, Begin
<1>10. CASE ResumeListens
  BY <1>0, <1>10 DEF ResumeListens, Listen, End
<1>11. CASE WakeReleases
  <2>1. CASE desired # "sleeping"
    BY <1>0, <1>11, <2>1 DEF WakeReleases, End
  <2>2. CASE desired = "sleeping"
    <3>0. op' = [op EXCEPT !.at = "prepare", !.held = listening] /\ op.kind = "wake"
      BY <1>11, <2>2 DEF WakeReleases
    <3>1. op'.kind = "wake" /\ op'.at = "prepare"
      BY <1>0, <3>0, OpGoesOn
    <3>2. enabled /\ enabled' = enabled
      BY <1>11, <2>2 DEF WakeReleases
    <3> QED BY <1>11, <2>2, <3>1, <3>2 DEF WakeReleases, LeaveSleep, Release
  <2> QED BY <2>1, <2>2
<1>12. CASE StartBegins
  BY <1>0, <1>12 DEF StartBegins, Go
<1>13. CASE Prepare
  <2>1. CASE container = "on"
    BY <1>0, <1>13, <2>1 DEF Prepare, Started, Starts, End
  <2>2. CASE container # "on"
    <3>0. Go("launch") /\ op.at = "prepare"
      BY <1>13, <2>2 DEF Prepare, Starts
    <3>1. op'.kind = op.kind /\ op'.at = "launch"
      BY <1>0, <3>0, OpGoesOn DEF Go
    <3> QED BY <1>13, <2>2, <3>0, <3>1 DEF Prepare, LeaveSleep, Release
  <2> QED BY <2>1, <2>2
<1>14. CASE PrepareFails
  BY <1>0, <1>14 DEF PrepareFails, Starts, Go
<1>15. CASE Launch
  BY <1>0, <1>15 DEF Launch, Starts, Go
<1>16. CASE LaunchFails
  BY <1>0, <1>16 DEF LaunchFails, Starts, Go
<1>17. CASE Ready
  BY <1>0, <1>17 DEF Ready, Started, Starts, End
<1>18. CASE ReadyFails
  BY <1>0, <1>18 DEF ReadyFails, Starts, Go
<1>19. CASE WakeFails
  BY <1>0, <1>19 DEF WakeFails, Go, Listen
<1>20. CASE WakeSettles
  BY <1>0, <1>20 DEF WakeSettles, End, LeaveSleep, Release, Silent
<1>21. CASE StartFails
  BY <1>0, <1>21 DEF StartFails, End, LeaveSleep, Release, Silent
<1>22. CASE AutoFails
  BY <1>0, <1>22 DEF AutoFails, End
<1>23. CASE OwnerStarts
  BY <1>0, <1>23 DEF OwnerStarts, Begin
<1>24. CASE OwnerStops
  BY <1>0, <1>24 DEF OwnerStops, Begin, LeaveSleep, Release
<1>25. CASE StopStops
  BY <1>0, <1>25 DEF StopStops, End, StopContainer, StopFails
<1>26. CASE SaveSleep
  BY <1>0, <1>26 DEF SaveSleep, Begin
<1>27. CASE OtherBegins
  BY <1>0, <1>27 DEF OtherBegins, Begin
<1>28. CASE OtherEnds
  BY <1>0, <1>28 DEF OtherEnds, End
<1>29. CASE ReconcileLooks
  BY <1>0, <1>29 DEF ReconcileLooks
<1>30. CASE Reconcile
  BY <1>0, <1>30 DEF Reconcile, BroughtBack, RecoverStart, AutoStart, Begin, Excluded, Stale, LeftAlone
<1>31. CASE Dies
  BY <1>0, <1>31 DEF Dies
<1>32. CASE StartedOutside
  BY <1>0, <1>32 DEF StartedOutside
<1>33. CASE AgentRestarts
  BY <1>0, <1>33 DEF AgentRestarts, Excluded
<1>34. CASE GetsOnline
  BY <1>0, <1>34 DEF GetsOnline
<1>35. CASE UNCHANGED vars
  BY <1>35 DEF vars
<1> HIDE DEF SleepInv, Running, At, Free, server, limit, policy, memory
<1> QED BY <1>1, <1>2, <1>3, <1>4, <1>5, <1>6, <1>7, <1>8, <1>9, <1>10,
           <1>11, <1>12, <1>13, <1>14, <1>15, <1>16, <1>17, <1>18, <1>19,
           <1>20, <1>21, <1>22, <1>23, <1>24, <1>25, <1>26, <1>27, <1>28,
           <1>29, <1>30, <1>31, <1>32, <1>33, <1>34, <1>35
     DEF Next, OpSteps, SleepSteps, StartSteps, JoinStep

(* The server begins awake and without an operation. *)
LEMMA InitSleepInv == Init => SleepInv
BY DEF Init, SleepInv, Free, Running, At

LEMMA SleepInvHolds == Excluded /\ Spec => []SleepInv
<1>1. Excluded => []Excluded
  OBVIOUS
<1> QED BY <1>1, InitSleepInv, SleepInvKept, TypesHold, PTL DEF Spec

(* Whenever Playkeeper starts the server's container, the stand-in has let *)
(* go of the game port and the sleep period is over.                       *)
THEOREM ThePortIsHandedOver == Excluded /\ Spec => []PortHandedOver
<1>1. SleepInv => PortHandedOver
  BY DEF SleepInv, PortHandedOver
<1> QED BY <1>1, SleepInvHolds, PTL

(* Between operations, only a server that is meant to sleep has a stand-in *)
(* answering for it, and none sleeps whose owner turned sleep off.         *)
THEOREM SleepsAsMeant == Excluded /\ Spec => []AsleepAsMeant
<1>1. SleepInv => AsleepAsMeant
  BY DEF SleepInv, AsleepAsMeant, At, Free
<1> QED BY <1>1, SleepInvHolds, PTL

(* The stand-in answers only for a server that is down and meant to sleep. *)
THEOREM TheStandInIsMeant == Excluded /\ Spec => []StandInAsMeant
<1> QED BY ThePortIsHandedOver, SleepsAsMeant, PTL DEF StandInAsMeant

(* No start runs against the owner: a container is only started while the  *)
(* server is meant to run, and joins, sleeps and automatic starts leave a  *)
(* server alone that its owner stopped.                                    *)
THEOREM StartsAsMeant == Excluded /\ Spec => StartsOnlyIfMeant
<1> DEFINE Meant ==
      /\ op.at = "launch" /\ container' = "on" => desired = "running"
      /\ desired = "stopped" /\ op.kind \in {"wake", "auto", "sleep", "resume"}
           => desired' = "stopped"
<1>1. SleepInv => (op.at = "launch" /\ container' = "on" => desired = "running")
  BY DEF SleepInv
<1>2. ASSUME Types, SleepInv, [Next]_vars, desired = "stopped",
             op.kind \in {"wake", "auto", "sleep", "resume"}
      PROVE  desired' = "stopped"
  <2>1. /\ op # Free
        /\ op.kind = "sleep" => op.at = "begun"
    BY <1>2 DEF SleepInv, Free
  <2>2. CASE OpSteps
    BY <1>2, <2>1, <2>2
       DEF OpSteps, SleepSteps, StartSteps, SleepLooks, SleepStops,
           SleepStopFails, SleepListens, WakeReleases, StartBegins, Prepare,
           PrepareFails, Launch, LaunchFails, Ready, ReadyFails, WakeFails,
           WakeSettles, StartFails, AutoFails, ResumeListens, StopStops,
           OtherEnds, At, Starts, SleepInv
  <2>3. CASE ~OpSteps
    <3>1. CASE \E p \in Player : JoinStep(p)
      BY <1>2, <3>1 DEF JoinStep, Join, Try, WakeFor, WakeLooks, WakeBegins
    <3>2. CASE TimePasses \/ Decides \/ FallAsleep \/ ResumeLooks
      BY <1>2, <2>1, <3>2 DEF TimePasses, Decides, FallAsleep, ResumeLooks
    <3>3. CASE OwnerStarts \/ OwnerStops \/ SaveSleep \/ OtherBegins
      BY <1>2, <2>1, <3>3 DEF OwnerStarts, OwnerStops,
             SaveSleep, OtherBegins, Begin
    <3>4. CASE ReconcileLooks \/ Reconcile \/ GetsOnline \/ Dies \/ StartedOutside
               \/ AgentRestarts
      BY <1>2, <3>4 DEF ReconcileLooks, Reconcile, GetsOnline, Dies, StartedOutside,
               AgentRestarts
    <3>5. CASE UNCHANGED vars
      BY <1>2, <3>5 DEF vars
    <3> QED BY <1>2, <2>3, <3>1, <3>2, <3>3, <3>4, <3>5 DEF Next, JoinStep
  <2> QED BY <2>2, <2>3
<1>3. Types /\ SleepInv /\ [Next]_vars => [Meant]_vars
  BY <1>1, <1>2
<1> QED BY <1>3, TypesHold, SleepInvHolds, PTL DEF Spec, StartsOnlyIfMeant

=============================================================================
