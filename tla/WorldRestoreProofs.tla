-------------------------- MODULE WorldRestoreProofs --------------------------
(***************************************************************************)
(* Proofs about WorldRestore, for any restores, faults and crashes and     *)
(* whatever the switches say unless a theorem assumes otherwise.  The      *)
(* invariants come in layers, each proved from those below it: types and   *)
(* journals, who holds the lock for which restore, when the server is      *)
(* stopped, that one restore runs at a time, what the restore of a server  *)
(* moved in may do, what is set aside; then, with one failing step at      *)
(* most, what journals, folders and settings say of each other at every    *)
(* step; and, whatever fails, where each world may be and which is whole.  *)
(***************************************************************************)
EXTENDS WorldRestore, FiniteSetTheorems, TLAPS

(* The steps that read or write the journal of the restore they belong to. *)
JournalSteps ==
    {"aside", "moveIn", "undo1", "putBack1", "rescue", "save", "check", "unsave",
     "undo2", "clear", "putBack2", "dropFailed", "launch", "await", "keep",
     "dropAside", "dropAside2", "revert", "revStop", "back1", "back2", "back3",
     "startPrev", "fwd1", "fwd2", "fwdSave", "fwdJournal"}
JournalHeld == pc \in JournalSteps => cur \in Restores /\ journal[cur] # NoJournal

TypeInv == TypeOK /\ JournalHeld

(* A journal, whatever it says, is not the lack of one; and what is        *)
(* written over a journal's state leaves a journal.                        *)
LEMMA JournalIsNone == \A j \in Journals : j # NoJournal
BY NoJournalAssumption DEF Journals, Worlds

LEMMA JournalWritten ==
    ASSUME NEW r \in Restores, NEW j \in Journals,
           journal \in [Restores -> Journals \cup {NoJournal}],
           journal' = [journal EXCEPT ![r] = j]
    PROVE  /\ journal' \in [Restores -> Journals \cup {NoJournal}]
           /\ journal'[r] # NoJournal
BY JournalIsNone

LEMMA JournalState ==
    ASSUME NEW r \in Restores,
           NEW st \in {"moving", "checking", "kept", "reverting"},
           journal \in [Restores -> Journals \cup {NoJournal}],
           journal[r] # NoJournal,
           journal' = [journal EXCEPT ![r].state = st]
    PROVE  /\ journal' \in [Restores -> Journals \cup {NoJournal}]
           /\ journal'[r] # NoJournal
<1> DEFINE j == [journal[r] EXCEPT !.state = st]
<1>1. j \in Journals
  BY DEF Journals
<1>2. journal' = [journal EXCEPT ![r] = j]
  OBVIOUS
<1>. QED
  BY <1>1, <1>2, JournalWritten

(* Only the state it is written with changes in a journal. *)
LEMMA JournalRewritten ==
    ASSUME NEW r \in Restores,
           NEW st \in {"moving", "checking", "kept", "reverting"},
           journal \in [Restores -> Journals \cup {NoJournal}],
           journal[r] # NoJournal,
           journal' = [journal EXCEPT ![r].state = st]
    PROVE  /\ journal'[r].state = st /\ journal'[r].hadLive = journal[r].hadLive
           /\ journal'[r].prev = journal[r].prev
           /\ journal'[r] # NoJournal
           /\ \A q \in Restores \ {r} : journal'[q] = journal[q]
<1> DEFINE j == [journal[r] EXCEPT !.state = st]
<1>1. j.state = st /\ j.hadLive = journal[r].hadLive /\ j.prev = journal[r].prev
  BY DEF Journals
<1>2. j \in Journals
  BY DEF Journals
<1>3. journal' = [journal EXCEPT ![r] = j]
  OBVIOUS
<1> HIDE DEF j
<1>. QED
  BY <1>1, <1>2, <1>3, JournalIsNone

(* The server begins in one of three ways, all of the right types. *)
LEMMA TypeInit == Init => TypeInv
<1> SUFFICES ASSUME Init PROVE TypeInv
  OBVIOUS
<1> USE RestoresAssumption, BoundAssumption DEF Worlds, Journals
<1>1. /\ live \in Worlds \cup {None} /\ settings \in Worlds
      /\ played \subseteq Worlds /\ box \in {"stopped", "starting", "online"}
      /\ desired \in {"running", "stopped"} /\ cur \in Restores \cup {None}
      /\ kind \in {"none", "restore"}
  BY DEF Init
<1>2. pc \in {"idle", "stop"}
  BY DEF Init
<1>3. /\ stage \in [Restores -> BOOLEAN]
      /\ staged \in [Restores -> Worlds \cup {None}]
      /\ op \in [Restores -> {"none", "running", "succeeded", "failed"}]
      /\ asked \in [Restores -> {"no", "empty", "world", "moved"}]
      /\ journal \in [Restores -> Journals \cup {NoJournal}]
      /\ aside \in [Restores -> Worlds \cup {None}]
      /\ failed \in [Restores -> Worlds \cup {None}]
      /\ broken \in [Worlds -> {"no", "copy", "stage"}]
      /\ was \in [Restores -> Worlds \cup {None}]
  BY DEF Init
<1>4. /\ rollback \subseteq Worlds /\ discarded \subseteq Worlds
      /\ ran \in [world : Worlds, settings : Worlds]
      /\ settled \subseteq Restores /\ toPrune \subseteq Restores
      /\ why = "intentional" /\ agent = "up" /\ wasUp = FALSE
      /\ result = "failed" /\ faults \in 0 .. MaxFaults
      /\ crashes \in 0 .. MaxCrashes
  BY DEF Init
<1>5. TypeOK
  BY <1>1, <1>2, <1>3, <1>4 DEF TypeOK
<1>6. JournalHeld
  BY <1>2 DEF JournalHeld, JournalSteps
<1>. QED
  BY <1>5, <1>6 DEF TypeInv

(* Every action keeps the types, and takes no journal from the restore     *)
(* whose steps need it.                                                    *)
LEMMA TypeNext == TypeInv /\ [Next]_vars => TypeInv'
<1> SUFFICES ASSUME TypeInv, [Next]_vars PROVE TypeInv'
  OBVIOUS
<1> USE RestoresAssumption, BoundAssumption
    DEF TypeInv, TypeOK, JournalHeld, JournalSteps, Worlds,
        worlds, stages, conts, locks, notes, hist
<1>1. ASSUME NEW r \in Restores, Stop(r) PROVE TypeInv'
  BY <1>1 DEF Stop, At, SameLock, Quiet, StopServer, Fault, Cut, Release
<1>2. ASSUME NEW r \in Restores, SaveRollback(r) PROVE TypeInv'
  BY <1>2 DEF SaveRollback, At, SameLock
<1>3. ASSUME NEW r \in Restores, WriteJournal(r) PROVE TypeInv'
  <2>1. CASE pc' = "giveUp"
    BY <1>3, <2>1 DEF WriteJournal, At, SameLock, Fault
  <2> DEFINE j == [state |-> "moving", hadLive |-> live # None, prev |-> settings]
  <2>2. CASE pc' # "giveUp"
    <3>1. j \in Journals
      BY DEF Journals
    <3>2. /\ journal' \in [Restores -> Journals \cup {NoJournal}]
          /\ journal'[r] # NoJournal
      BY <1>3, <2>2, <3>1, JournalWritten DEF WriteJournal
    <3>. QED
      BY <1>3, <2>2, <3>2 DEF WriteJournal, At, SameLock, Fault
  <2>. QED
    BY <1>3, <2>1, <2>2 DEF WriteJournal, At, SameLock, Fault
<1>4. ASSUME NEW r \in Restores, GiveUp(r) PROVE TypeInv'
  BY <1>4 DEF GiveUp, At, SameLock, Quiet, StartServer, StartFailed
<1>5. ASSUME NEW r \in Restores, AwaitPrevious(r) PROVE TypeInv'
  BY <1>5 DEF AwaitPrevious, At, SameLock, Quiet
<1>6. ASSUME NEW r \in Restores, SetAside(r) PROVE TypeInv'
  BY <1>6 DEF SetAside, At, SameLock, Quiet, Fault
<1>7. ASSUME NEW r \in Restores, MoveIn(r) PROVE TypeInv'
  BY <1>7 DEF MoveIn, At, SameLock, Quiet, Fault
<1>8. ASSUME NEW r \in Restores, UndoMoveIn(r) PROVE TypeInv'
  <2>1. CASE journal' = journal
    BY <1>8, <2>1 DEF UndoMoveIn, At, SameLock, Undoing, Quiet, HadLive, Fault
  <2>2. CASE journal' = [journal EXCEPT ![r].state = "reverting"]
    <3>1. journal[r] # NoJournal
      BY <1>8 DEF UndoMoveIn, At, Undoing
    <3>2. /\ journal' \in [Restores -> Journals \cup {NoJournal}]
          /\ journal'[r] # NoJournal
      BY <2>2, <3>1, JournalState
    <3>. QED
      BY <1>8, <3>2 DEF UndoMoveIn, At, SameLock, Undoing, Quiet, HadLive, Fault
  <2>. QED
    BY <1>8, <2>1, <2>2 DEF UndoMoveIn, At, SameLock, Undoing, Quiet, HadLive, Fault
<1>9. ASSUME NEW r \in Restores, PutBackUnmoved(r) PROVE TypeInv'
  BY <1>9 DEF PutBackUnmoved, At, SameLock, Quiet, Fault
<1>10. ASSUME NEW r \in Restores, RescueStaged(r) PROVE TypeInv'
  BY <1>10 DEF RescueStaged, At, SameLock, Quiet, Fault, FailKeepingStage
<1>11. ASSUME NEW r \in Restores, SaveRestored(r) PROVE TypeInv'
  BY <1>11 DEF SaveRestored, At, SameLock, Quiet, Fault
<1>12. ASSUME NEW r \in Restores, JournalChecking(r) PROVE TypeInv'
  <2>1. CASE journal' = journal
    BY <1>12, <2>1 DEF JournalChecking, At, SameLock, Quiet, Fault
  <2>2. CASE journal' = [journal EXCEPT ![r].state = "checking"]
    <3>1. journal[r] # NoJournal
      BY <1>12 DEF JournalChecking, At
    <3>2. /\ journal' \in [Restores -> Journals \cup {NoJournal}]
          /\ journal'[r] # NoJournal
      BY <2>2, <3>1, JournalState
    <3>. QED
      BY <1>12, <3>2 DEF JournalChecking, At, SameLock, Quiet, Fault
  <2>. QED
    BY <1>12, <2>1, <2>2 DEF JournalChecking, At, SameLock, Quiet, Fault
<1>13. ASSUME NEW r \in Restores, UnsaveRestored(r) PROVE TypeInv'
  BY <1>13 DEF UnsaveRestored, At, SameLock, Quiet, Fault, Journals
<1>14. ASSUME NEW r \in Restores, UndoSettings(r) PROVE TypeInv'
  <2>1. CASE journal' = journal
    BY <1>14, <2>1 DEF UndoSettings, At, SameLock, Undoing, Quiet, HadLive, Fault
  <2>2. CASE journal' = [journal EXCEPT ![r].state = "reverting"]
    <3>1. journal[r] # NoJournal
      BY <1>14 DEF UndoSettings, At, Undoing
    <3>2. /\ journal' \in [Restores -> Journals \cup {NoJournal}]
          /\ journal'[r] # NoJournal
      BY <2>2, <3>1, JournalState
    <3>. QED
      BY <1>14, <3>2 DEF UndoSettings, At, SameLock, Undoing, Quiet, HadLive, Fault
  <2>. QED
    BY <1>14, <2>1, <2>2 DEF UndoSettings, At, SameLock, Undoing, Quiet, HadLive,
       Fault
<1>15. ASSUME NEW r \in Restores, ClearLive(r) PROVE TypeInv'
  BY <1>15 DEF ClearLive, At, SameLock, Quiet, Fault, FailKeepingStage
<1>16. ASSUME NEW r \in Restores, PutBackMoved(r) PROVE TypeInv'
  BY <1>16 DEF PutBackMoved, At, SameLock, Quiet, Fault, FailKeepingStage
<1>17. ASSUME NEW r \in Restores, DropFailed(r) PROVE TypeInv'
  BY <1>17 DEF DropFailed, At, SameLock, Quiet
<1>18. ASSUME NEW r \in Restores, Launch(r) PROVE TypeInv'
  BY <1>18 DEF Launch, At, SameLock, StartServer, StartFailed, FinishFailed, Release
<1>19. ASSUME NEW r \in Restores, Await(r) PROVE TypeInv'
  BY <1>19 DEF Await, At, SameLock, Quiet, FinishFailed, Release
<1>20. ASSUME NEW r \in Restores, Keep(r) PROVE TypeInv'
  <2>1. CASE journal' = journal
    BY <1>20, <2>1 DEF Keep, At, SameLock, Quiet, Fault
  <2>2. CASE journal' = [journal EXCEPT ![r].state = "kept"]
    <3>1. journal[r] # NoJournal
      BY <1>20 DEF Keep, At
    <3>2. /\ journal' \in [Restores -> Journals \cup {NoJournal}]
          /\ journal'[r] # NoJournal
      BY <2>2, <3>1, JournalState
    <3>. QED
      BY <1>20, <3>2 DEF Keep, At, SameLock, Quiet, Fault
  <2>. QED
    BY <1>20, <2>1, <2>2 DEF Keep, At, SameLock, Quiet, Fault
<1>21. ASSUME NEW r \in Restores, Revert(r) PROVE TypeInv'
  <2>1. CASE journal' = journal
    BY <1>21, <2>1 DEF Revert, At, SameLock, Quiet, Fault, FailKeepingStage
  <2>2. CASE journal' = [journal EXCEPT ![r].state = "reverting"]
    <3>1. journal[r] # NoJournal
      BY <1>21 DEF Revert, At
    <3>2. /\ journal' \in [Restores -> Journals \cup {NoJournal}]
          /\ journal'[r] # NoJournal
      BY <2>2, <3>1, JournalState
    <3>. QED
      BY <1>21, <3>2 DEF Revert, At, SameLock, Quiet, Fault, FailKeepingStage
  <2>. QED
    BY <1>21, <2>1, <2>2 DEF Revert, At, SameLock, Quiet, Fault, FailKeepingStage
<1>22. ASSUME NEW r \in Restores, RevertStop(r) PROVE TypeInv'
  BY <1>22 DEF RevertStop, At, SameLock, Quiet, StopServer, Fault, Cut, Release,
     FailKeepingStage
<1>23. ASSUME NEW r \in Restores, BackClear(r) PROVE TypeInv'
  BY <1>23 DEF BackClear, At, SameLock, Fault, PutPreviousBack, BackFailed,
     FailKeepingStage, SettleFailed, Release, Settling
<1>24. ASSUME NEW r \in Restores, BackMove(r) PROVE TypeInv'
  BY <1>24 DEF BackMove, At, SameLock, Fault, PutPreviousBack, BackFailed,
     FailKeepingStage, SettleFailed, Release, Settling
<1>25. ASSUME NEW r \in Restores, BackSave(r) PROVE TypeInv'
  BY <1>25 DEF BackSave, At, SameLock, Fault, PutPreviousBack, BackFailed,
     FailKeepingStage, SettleFailed, Release, Settling, Journals
<1>26. ASSUME NEW r \in Restores, StartPrevious(r) PROVE TypeInv'
  BY <1>26 DEF StartPrevious, At, SameLock, Quiet, StartServer, StartFailed
<1>27. ASSUME NEW r \in Restores, DropAside(r) PROVE TypeInv'
  BY <1>27 DEF DropAside, At, SameLock, Quiet
<1>28. ASSUME NEW r \in Restores, DropAsideRest(r) PROVE TypeInv'
  BY <1>28 DEF DropAsideRest, At, SameLock, Fault, SettleFailed, Release, Settling
<1>29. ASSUME NEW r \in Restores, DropStage(r) PROVE TypeInv'
  BY <1>29 DEF DropStage, At, SameLock, Fault, SettleFailed, Release, Settling
<1>30. ASSUME NEW r \in Restores, DropStageRest(r) PROVE TypeInv'
  BY <1>30 DEF DropStageRest, At, SameLock, Settling, Release
<1>31. ASSUME NEW r \in Restores, End(r) PROVE TypeInv'
  BY <1>31 DEF End, At, SameLock, Quiet, Release
<1>32. ASSUME NEW r \in Restores, Recover(r) PROVE TypeInv'
  BY <1>32 DEF Recover, At, SameLock, Quiet, Journals
<1>33. ASSUME NEW r \in Restores, Adopt(r) PROVE TypeInv'
  <2>1. CASE pc' # "fwd1"
    BY <1>33, <2>1 DEF Adopt, At, SameLock, Quiet, Release
  <2> DEFINE j == [state |-> "moving", hadLive |-> FALSE, prev |-> settings]
  <2>2. CASE pc' = "fwd1"
    <3>1. j \in Journals
      BY DEF Journals
    <3>2. /\ journal' \in [Restores -> Journals \cup {NoJournal}]
          /\ journal'[r] # NoJournal
      BY <1>33, <2>2, <3>1, JournalWritten DEF Adopt, Release
    <3>. QED
      BY <1>33, <2>2, <3>2 DEF Adopt, At, SameLock, Quiet, Release
  <2>. QED
    BY <1>33, <2>1, <2>2 DEF Adopt, At, SameLock, Quiet, Release
<1>34. ASSUME NEW r \in Restores, ForwardClear(r) PROVE TypeInv'
  BY <1>34 DEF ForwardClear, At, SameLock, Quiet, Fault, ForwardFailed
<1>35. ASSUME NEW r \in Restores, ForwardMove(r) PROVE TypeInv'
  BY <1>35 DEF ForwardMove, At, SameLock, Quiet, Fault, ForwardFailed
<1>36. ASSUME NEW r \in Restores, ForwardSave(r) PROVE TypeInv'
  BY <1>36 DEF ForwardSave, At, SameLock, Quiet, Fault, ForwardFailed
<1>37. ASSUME NEW r \in Restores, ForwardJournal(r) PROVE TypeInv'
  <2>1. CASE journal' = journal
    BY <1>37, <2>1 DEF ForwardJournal, At, SameLock, Quiet, Fault, ForwardFailed
  <2>2. CASE journal' = [journal EXCEPT ![r].state = "checking"]
    <3>1. journal[r] # NoJournal
      BY <1>37 DEF ForwardJournal, At
    <3>2. /\ journal' \in [Restores -> Journals \cup {NoJournal}]
          /\ journal'[r] # NoJournal
      BY <2>2, <3>1, JournalState
    <3>. QED
      BY <1>37, <3>2 DEF ForwardJournal, At, SameLock, Quiet, Fault, ForwardFailed
  <2>. QED
    BY <1>37, <2>1, <2>2 DEF ForwardJournal, At, SameLock, Quiet, Fault, ForwardFailed
<1>38. ASSUME NEW r \in Restores, SettleSwap(r) PROVE TypeInv'
  BY <1>38 DEF SettleSwap, At, SameLock, SettleFailed, Release
<1>39. ASSUME NEW r \in Restores, Prune(r) PROVE TypeInv'
  BY <1>39 DEF Prune
<1>40. ASSUME NEW r \in Restores, StageArchive(r) PROVE TypeInv'
  BY <1>40 DEF StageArchive, Free
<1>41. ASSUME NEW r \in Restores, ApplyAsked(r) PROVE TypeInv'
  BY <1>41 DEF ApplyAsked
<1>42. ASSUME NEW r \in Restores, ApplyBusy(r) PROVE TypeInv'
  BY <1>42 DEF ApplyBusy
<1>43. ASSUME NEW r \in Restores, ApplyBegin(r) PROVE TypeInv'
  BY <1>43 DEF ApplyBegin, Free
<1>44. ASSUME NEW r \in Restores, DiscardStage(r) PROVE TypeInv'
  BY <1>44 DEF DiscardStage, Free
<1>45. ASSUME NEW r \in Restores, MoveBackByHand(r) PROVE TypeInv'
  BY <1>45 DEF MoveBackByHand, Journaled
<1>46. ASSUME NEW r \in Restores, DiscardCopy(r) PROVE TypeInv'
  BY <1>46 DEF DiscardCopy, Free, Journaled
<1>47. CASE AgentStart
  BY <1>47 DEF AgentStart
<1>48. CASE AgentUp
  BY <1>48 DEF AgentUp
<1>49. CASE AgentExit
  BY <1>49 DEF AgentExit
<1>50. CASE SettleNext
  BY <1>50 DEF SettleNext, Release, SameLock, Journaled
<1>51. CASE Halt
  BY <1>51 DEF Halt, StopServer, Fault, Cut, Release, SameLock
<1>52. CASE LaunchOwn
  BY <1>52 DEF LaunchOwn, StartServer, StartFailed, Release, SameLock, OwnStartFailed
<1>53. CASE AwaitOwn
  BY <1>53 DEF AwaitOwn, Release, SameLock, OwnStartFailed
<1>54. CASE GameOnline
  BY <1>54 DEF GameOnline
<1>55. CASE GameExit
  BY <1>55 DEF GameExit
<1>56. CASE SettleTick
  BY <1>56 DEF SettleTick, Free
<1>57. CASE AutoStart
  BY <1>57 DEF AutoStart, Free
<1>58. CASE StartAsked
  BY <1>58 DEF StartAsked, Free
<1>59. CASE RestartAsked
  BY <1>59 DEF RestartAsked, Free
<1>60. CASE StopAsked
  BY <1>60 DEF StopAsked, Free
<1>61. CASE Crash
  BY <1>61 DEF Crash
<1>62. CASE AgentStop
  BY <1>62 DEF AgentStop
<1>63. CASE UNCHANGED vars
  BY <1>63 DEF vars
<1> HIDE DEF TypeInv, TypeOK, JournalHeld, JournalSteps, Worlds, worlds,
        stages, conts, locks, notes, hist
<1>64. ASSUME NEW r \in Restores, RestoreStep(r) PROVE TypeInv'
  BY <1>64, <1>1, <1>2, <1>3, <1>4, <1>5, <1>6, <1>7, <1>8, <1>9, <1>10,
     <1>11, <1>12, <1>13, <1>14, <1>15, <1>16, <1>17, <1>18, <1>19, <1>20,
     <1>21, <1>22, <1>23, <1>24, <1>25, <1>26, <1>27, <1>28, <1>29, <1>30,
     <1>31, <1>32, <1>33, <1>34, <1>35, <1>36, <1>37, <1>38
  DEF RestoreStep
<1>65. CASE AgentStep
  BY <1>65, <1>39, <1>47, <1>48, <1>49, <1>50, <1>51, <1>52, <1>53, <1>64
  DEF AgentStep
<1>. QED
  BY <1>40, <1>41, <1>42, <1>43, <1>44, <1>45, <1>46, <1>54, <1>55, <1>56,
     <1>57, <1>58, <1>59, <1>60, <1>61, <1>62, <1>63, <1>65
  DEF Next

(* The type invariant of the swap holds whatever the constants are. *)
THEOREM TypeCorrect == Spec => []TypeOK
<1>1. TypeInv => TypeOK
  BY DEF TypeInv
<1>. QED
  BY <1>1, TypeInit, TypeNext, PTL DEF Spec

-----------------------------------------------------------------------------
(* The steps only a restore, or its resumption, takes, and those only a    *)
(* start, a stop or a settle takes.                                        *)
RestoreOnly ==
    {"stop", "rollback", "journal", "giveUp", "awaitPrev", "aside", "moveIn",
     "undo1", "putBack1", "rescue", "save", "check", "unsave", "undo2", "clear",
     "putBack2", "dropFailed", "launch", "await", "keep", "revert", "revStop",
     "startPrev", "end", "recover", "fwd1", "fwd2", "fwdSave", "fwdJournal"}
Restoring == kind \in {"restore", "recover"}

LockInv ==
    /\ pc = "idle" => kind = "none"
    /\ pc \in RestoreOnly => Restoring
    /\ pc \in {"launchOwn", "awaitOwn", "halt"} =>
          kind \notin {"none", "restore", "recover", "prune"}
    /\ pc = "settle" => kind \in {"settle", "start"}
    /\ pc = "settle1" => Settling
    /\ pc \in {"back1", "back2", "back3", "dropAside", "dropAside2", "drop", "drop2"}
          => Restoring \/ Settling
    /\ Restoring => cur \in Restores /\ op[cur] = "running"
    /\ \A q \in Restores : op[q] = "running" =>
          \/ Restoring /\ cur = q
          \/ kind \in {"none", "prune"} /\ agent # "up"
    /\ \A p, q \in Restores : op[p] = "running" /\ op[q] = "running" => p = q
    /\ \A q \in Restores : op[q] = "none" => journal[q] = NoJournal

LEMMA LockInit == Init => LockInv
BY RestoresAssumption DEF Init, LockInv, RestoreOnly, Restoring, Settling

(* Only one operation runs at a time, and a restore that is not over holds *)
(* the lock, or its agent is stopping, down or starting.                   *)
LEMMA LockNext == TypeInv /\ LockInv /\ [Next]_vars => LockInv'
<1> SUFFICES ASSUME TypeInv, LockInv, [Next]_vars PROVE LockInv'
  OBVIOUS
<1> USE RestoresAssumption
    DEF TypeInv, TypeOK, LockInv, RestoreOnly, Restoring, Settling, Free,
        worlds, stages, conts, locks, notes, hist
<1>1. ASSUME NEW r \in Restores, Stop(r) PROVE LockInv'
  BY <1>1 DEF Stop, At, SameLock, Quiet, StopServer, Fault, Cut, Release
<1>2. ASSUME NEW r \in Restores, SaveRollback(r) PROVE LockInv'
  BY <1>2 DEF SaveRollback, At, SameLock
<1>3. ASSUME NEW r \in Restores, WriteJournal(r) PROVE LockInv'
  BY <1>3 DEF WriteJournal, At, SameLock, Fault
<1>4. ASSUME NEW r \in Restores, GiveUp(r) PROVE LockInv'
  BY <1>4 DEF GiveUp, At, SameLock, Quiet, StartServer, StartFailed
<1>5. ASSUME NEW r \in Restores, AwaitPrevious(r) PROVE LockInv'
  BY <1>5 DEF AwaitPrevious, At, SameLock, Quiet
<1>6. ASSUME NEW r \in Restores, SetAside(r) PROVE LockInv'
  BY <1>6 DEF SetAside, At, SameLock, Quiet, Fault
<1>7. ASSUME NEW r \in Restores, MoveIn(r) PROVE LockInv'
  BY <1>7 DEF MoveIn, At, SameLock, Quiet, Fault
<1>8. ASSUME NEW r \in Restores, UndoMoveIn(r) PROVE LockInv'
  BY <1>8 DEF UndoMoveIn, At, SameLock, Undoing, Quiet, HadLive, Fault
<1>9. ASSUME NEW r \in Restores, PutBackUnmoved(r) PROVE LockInv'
  BY <1>9 DEF PutBackUnmoved, At, SameLock, Quiet, Fault
<1>10. ASSUME NEW r \in Restores, RescueStaged(r) PROVE LockInv'
  BY <1>10 DEF RescueStaged, At, SameLock, Quiet, Fault, FailKeepingStage
<1>11. ASSUME NEW r \in Restores, SaveRestored(r) PROVE LockInv'
  BY <1>11 DEF SaveRestored, At, SameLock, Quiet, Fault
<1>12. ASSUME NEW r \in Restores, JournalChecking(r) PROVE LockInv'
  BY <1>12 DEF JournalChecking, At, SameLock, Quiet, Fault
<1>13. ASSUME NEW r \in Restores, UnsaveRestored(r) PROVE LockInv'
  BY <1>13 DEF UnsaveRestored, At, SameLock, Quiet, Fault
<1>14. ASSUME NEW r \in Restores, UndoSettings(r) PROVE LockInv'
  BY <1>14 DEF UndoSettings, At, SameLock, Undoing, Quiet, HadLive, Fault
<1>15. ASSUME NEW r \in Restores, ClearLive(r) PROVE LockInv'
  BY <1>15 DEF ClearLive, At, SameLock, Quiet, Fault, FailKeepingStage
<1>16. ASSUME NEW r \in Restores, PutBackMoved(r) PROVE LockInv'
  BY <1>16 DEF PutBackMoved, At, SameLock, Quiet, Fault, FailKeepingStage
<1>17. ASSUME NEW r \in Restores, DropFailed(r) PROVE LockInv'
  BY <1>17 DEF DropFailed, At, SameLock, Quiet
<1>18. ASSUME NEW r \in Restores, Launch(r) PROVE LockInv'
  BY <1>18 DEF Launch, At, SameLock, StartServer, StartFailed, FinishFailed,
     Release
<1>19. ASSUME NEW r \in Restores, Await(r) PROVE LockInv'
  BY <1>19 DEF Await, At, SameLock, Quiet, FinishFailed, Release
<1>20. ASSUME NEW r \in Restores, Keep(r) PROVE LockInv'
  BY <1>20 DEF Keep, At, SameLock, Quiet, Fault
<1>21. ASSUME NEW r \in Restores, Revert(r) PROVE LockInv'
  BY <1>21 DEF Revert, At, SameLock, Quiet, Fault, FailKeepingStage
<1>22. ASSUME NEW r \in Restores, RevertStop(r) PROVE LockInv'
  BY <1>22 DEF RevertStop, At, SameLock, Quiet, StopServer, Fault, Cut,
     Release, FailKeepingStage
<1>23. ASSUME NEW r \in Restores, BackClear(r) PROVE LockInv'
  BY <1>23 DEF BackClear, At, SameLock, Fault, PutPreviousBack, BackFailed,
     FailKeepingStage, SettleFailed, Release, Settling
<1>24. ASSUME NEW r \in Restores, BackMove(r) PROVE LockInv'
  BY <1>24 DEF BackMove, At, SameLock, Fault, PutPreviousBack, BackFailed,
     FailKeepingStage, SettleFailed, Release, Settling
<1>25. ASSUME NEW r \in Restores, BackSave(r) PROVE LockInv'
  BY <1>25 DEF BackSave, At, SameLock, Fault, PutPreviousBack, BackFailed,
     FailKeepingStage, SettleFailed, Release, Settling
<1>26. ASSUME NEW r \in Restores, StartPrevious(r) PROVE LockInv'
  BY <1>26 DEF StartPrevious, At, SameLock, Quiet, StartServer, StartFailed
<1>27. ASSUME NEW r \in Restores, DropAside(r) PROVE LockInv'
  BY <1>27 DEF DropAside, At, SameLock, Quiet
<1>28. ASSUME NEW r \in Restores, DropAsideRest(r) PROVE LockInv'
  BY <1>28 DEF DropAsideRest, At, SameLock, Fault, SettleFailed, Release,
     Settling
<1>29. ASSUME NEW r \in Restores, DropStage(r) PROVE LockInv'
  BY <1>29 DEF DropStage, At, SameLock, Fault, SettleFailed, Release,
     Settling
<1>30. ASSUME NEW r \in Restores, DropStageRest(r) PROVE LockInv'
  BY <1>30 DEF DropStageRest, At, SameLock, Settling, Release
<1>31. ASSUME NEW r \in Restores, End(r) PROVE LockInv'
  BY <1>31 DEF End, At, SameLock, Quiet, Release
<1>32. ASSUME NEW r \in Restores, Recover(r) PROVE LockInv'
  BY <1>32 DEF Recover, At, SameLock, Quiet, Journals, Worlds
<1>33. ASSUME NEW r \in Restores, Adopt(r) PROVE LockInv'
  BY <1>33 DEF Adopt, At, SameLock, Quiet, Release
<1>34. ASSUME NEW r \in Restores, ForwardClear(r) PROVE LockInv'
  BY <1>34 DEF ForwardClear, At, SameLock, Quiet, Fault, ForwardFailed
<1>35. ASSUME NEW r \in Restores, ForwardMove(r) PROVE LockInv'
  BY <1>35 DEF ForwardMove, At, SameLock, Quiet, Fault, ForwardFailed
<1>36. ASSUME NEW r \in Restores, ForwardSave(r) PROVE LockInv'
  BY <1>36 DEF ForwardSave, At, SameLock, Quiet, Fault, ForwardFailed
<1>37. ASSUME NEW r \in Restores, ForwardJournal(r) PROVE LockInv'
  BY <1>37 DEF ForwardJournal, At, SameLock, Quiet, Fault, ForwardFailed
<1>38. ASSUME NEW r \in Restores, SettleSwap(r) PROVE LockInv'
  BY <1>38 DEF SettleSwap, At, SameLock, SettleFailed, Release
<1>39. ASSUME NEW r \in Restores, Prune(r) PROVE LockInv'
  BY <1>39 DEF Prune
<1>40. ASSUME NEW r \in Restores, StageArchive(r) PROVE LockInv'
  BY <1>40 DEF StageArchive, Free
<1>41. ASSUME NEW r \in Restores, ApplyAsked(r) PROVE LockInv'
  BY <1>41 DEF ApplyAsked
<1>42. ASSUME NEW r \in Restores, ApplyBusy(r) PROVE LockInv'
  BY <1>42 DEF ApplyBusy
<1>43. ASSUME NEW r \in Restores, ApplyBegin(r) PROVE LockInv'
  BY <1>43 DEF ApplyBegin, Free
<1>44. ASSUME NEW r \in Restores, DiscardStage(r) PROVE LockInv'
  BY <1>44 DEF DiscardStage, Free
<1>45. ASSUME NEW r \in Restores, MoveBackByHand(r) PROVE LockInv'
  BY <1>45 DEF MoveBackByHand, Journaled
<1>46. ASSUME NEW r \in Restores, DiscardCopy(r) PROVE LockInv'
  BY <1>46 DEF DiscardCopy, Free, Journaled
<1>47. CASE AgentStart
  BY <1>47 DEF AgentStart
<1>48. CASE AgentUp
  BY <1>48 DEF AgentUp
<1>49. CASE AgentExit
  BY <1>49 DEF AgentExit
<1>50. CASE SettleNext
  BY <1>50 DEF SettleNext, Release, SameLock, Journaled
<1>51. CASE Halt
  BY <1>51 DEF Halt, StopServer, Fault, Cut, Release, SameLock
<1>52. CASE LaunchOwn
  BY <1>52 DEF LaunchOwn, StartServer, StartFailed, Release, SameLock,
     OwnStartFailed
<1>53. CASE AwaitOwn
  BY <1>53 DEF AwaitOwn, Release, SameLock, OwnStartFailed
<1>54. CASE GameOnline
  BY <1>54 DEF GameOnline
<1>55. CASE GameExit
  BY <1>55 DEF GameExit
<1>56. CASE SettleTick
  BY <1>56 DEF SettleTick, Free
<1>57. CASE AutoStart
  BY <1>57 DEF AutoStart, Free
<1>58. CASE StartAsked
  BY <1>58 DEF StartAsked, Free
<1>59. CASE RestartAsked
  BY <1>59 DEF RestartAsked, Free
<1>60. CASE StopAsked
  BY <1>60 DEF StopAsked, Free
<1>61. CASE Crash
  BY <1>61 DEF Crash
<1>62. CASE AgentStop
  BY <1>62 DEF AgentStop
<1>63. CASE UNCHANGED vars
  BY <1>63 DEF vars
<1> HIDE DEF TypeInv, TypeOK, LockInv, RestoreOnly, Restoring, Settling,
        Free, worlds, stages, conts, locks, notes, hist
<1>64. ASSUME NEW r \in Restores, RestoreStep(r) PROVE LockInv'
  BY <1>64, <1>1, <1>2, <1>3, <1>4, <1>5, <1>6, <1>7, <1>8, <1>9, <1>10,
     <1>11, <1>12, <1>13, <1>14, <1>15, <1>16, <1>17, <1>18, <1>19, <1>20,
     <1>21, <1>22, <1>23, <1>24, <1>25, <1>26, <1>27, <1>28, <1>29, <1>30,
     <1>31, <1>32, <1>33, <1>34, <1>35, <1>36, <1>37, <1>38
  DEF RestoreStep
<1>65. CASE AgentStep
  BY <1>65, <1>39, <1>47, <1>48, <1>49, <1>50, <1>51, <1>52, <1>53, <1>64
  DEF AgentStep
<1>. QED
  BY <1>40, <1>41, <1>42, <1>43, <1>44, <1>45, <1>46, <1>54, <1>55, <1>56,
     <1>57, <1>58, <1>59, <1>60, <1>61, <1>62, <1>63, <1>65
  DEF Next

-----------------------------------------------------------------------------
(* Moving r: its swap may have to go forward, with its world still staged. *)
Forward(r) == journal[r] # NoJournal /\ journal[r].state = "moving" /\ staged[r] # None

StoppedSteps ==
    {"rollback", "journal", "aside", "moveIn", "undo1", "putBack1", "rescue",
     "save", "check", "unsave", "undo2", "clear", "putBack2", "dropFailed",
     "giveUp", "back1", "back2", "fwd2"}

BoxInv ==
    /\ RunsInPlace
    /\ pc \in StoppedSteps => box = "stopped"
    /\ pc \in {"stop", "rollback", "journal"} => journal[cur] = NoJournal
    /\ pc \in {"save", "check", "unsave", "undo2", "clear", "putBack2",
               "dropFailed", "giveUp", "launch", "await", "keep", "revStop",
               "startPrev", "fwdSave", "fwdJournal"} => ~Forward(cur)
    /\ pc \in {"back1", "back2", "back3"} /\ Restoring => ~Forward(cur)
    /\ pc = "fwd1" /\ staged[cur] # None => box = "stopped"
    /\ \A q \in Restores : Forward(q) /\ op[q] = "running" => box = "stopped"

LEMMA BoxInit == Init => BoxInv
BY RestoresAssumption DEF Init, BoxInv, RunsInPlace, Forward, StoppedSteps, Worlds

(* The server is stopped at every step that moves a world, and stays so    *)
(* for as long as an interrupted swap may still go forward.                *)
LEMMA BoxNext == TypeInv /\ LockInv /\ BoxInv /\ [Next]_vars => BoxInv'
<1> SUFFICES ASSUME TypeInv, LockInv, BoxInv, [Next]_vars PROVE BoxInv'
  OBVIOUS
<1> USE RestoresAssumption
    DEF TypeInv, TypeOK, JournalHeld, JournalSteps, LockInv, RestoreOnly,
        Restoring, Settling, BoxInv, RunsInPlace, Forward, StoppedSteps, Free,
        Worlds, worlds, stages, conts, locks, notes, hist
<1>1. ASSUME NEW r \in Restores, Stop(r) PROVE BoxInv'
  BY <1>1 DEF Stop, At, SameLock, Quiet, StopServer, Fault, Cut, Release
<1>2. ASSUME NEW r \in Restores, SaveRollback(r) PROVE BoxInv'
  BY <1>2 DEF SaveRollback, At, SameLock
<1>3. ASSUME NEW r \in Restores, WriteJournal(r) PROVE BoxInv'
  BY <1>3 DEF WriteJournal, At, SameLock, Fault
<1>4. ASSUME NEW r \in Restores, GiveUp(r) PROVE BoxInv'
  BY <1>4 DEF GiveUp, At, SameLock, Quiet, StartServer, StartFailed
<1>5. ASSUME NEW r \in Restores, AwaitPrevious(r) PROVE BoxInv'
  BY <1>5 DEF AwaitPrevious, At, SameLock, Quiet
<1>6. ASSUME NEW r \in Restores, SetAside(r) PROVE BoxInv'
  BY <1>6 DEF SetAside, At, SameLock, Quiet, Fault
<1>7. ASSUME NEW r \in Restores, MoveIn(r) PROVE BoxInv'
  BY <1>7 DEF MoveIn, At, SameLock, Quiet, Fault
<1>8. ASSUME NEW r \in Restores, UndoMoveIn(r) PROVE BoxInv'
  BY <1>8 DEF UndoMoveIn, At, SameLock, Undoing, Quiet, HadLive, Fault
<1>9. ASSUME NEW r \in Restores, PutBackUnmoved(r) PROVE BoxInv'
  BY <1>9 DEF PutBackUnmoved, At, SameLock, Quiet, Fault
<1>10. ASSUME NEW r \in Restores, RescueStaged(r) PROVE BoxInv'
  BY <1>10 DEF RescueStaged, At, SameLock, Quiet, Fault, FailKeepingStage
<1>11. ASSUME NEW r \in Restores, SaveRestored(r) PROVE BoxInv'
  BY <1>11 DEF SaveRestored, At, SameLock, Quiet, Fault
<1>12. ASSUME NEW r \in Restores, JournalChecking(r) PROVE BoxInv'
  <2>1. CASE journal' = journal
    BY <1>12, <2>1 DEF JournalChecking, At, SameLock, Quiet, Fault
  <2>2. CASE journal' = [journal EXCEPT ![r].state = "checking"]
    <3>1. journal[r] # NoJournal
      BY <1>12 DEF JournalChecking, At
    <3>2. /\ journal'[r].state = "checking"
          /\ \A q \in Restores \ {r} : journal'[q] = journal[q]
      BY <2>2, <3>1, JournalRewritten
    <3>. QED
      BY <1>12, <3>1, <3>2 DEF JournalChecking, At, SameLock, Quiet, Fault
  <2>. QED
    BY <1>12, <2>1, <2>2 DEF JournalChecking, At, SameLock, Quiet, Fault
<1>13. ASSUME NEW r \in Restores, UnsaveRestored(r) PROVE BoxInv'
  BY <1>13 DEF UnsaveRestored, At, SameLock, Quiet, Fault
<1>14. ASSUME NEW r \in Restores, UndoSettings(r) PROVE BoxInv'
  <2>1. CASE journal' = journal
    BY <1>14, <2>1 DEF UndoSettings, At, SameLock, Undoing, Quiet, HadLive, Fault
  <2>2. CASE journal' = [journal EXCEPT ![r].state = "reverting"]
    <3>1. journal[r] # NoJournal
      BY <1>14 DEF UndoSettings, At, Undoing
    <3>2. /\ journal'[r].state = "reverting"
          /\ \A q \in Restores \ {r} : journal'[q] = journal[q]
      BY <2>2, <3>1, JournalRewritten
    <3>. QED
      BY <1>14, <3>1, <3>2 DEF UndoSettings, At, SameLock, Undoing, Quiet, HadLive,
         Fault
  <2>. QED
    BY <1>14, <2>1, <2>2 DEF UndoSettings, At, SameLock, Undoing, Quiet, HadLive,
       Fault
<1>15. ASSUME NEW r \in Restores, ClearLive(r) PROVE BoxInv'
  BY <1>15 DEF ClearLive, At, SameLock, Quiet, Fault, FailKeepingStage
<1>16. ASSUME NEW r \in Restores, PutBackMoved(r) PROVE BoxInv'
  BY <1>16 DEF PutBackMoved, At, SameLock, Quiet, Fault, FailKeepingStage
<1>17. ASSUME NEW r \in Restores, DropFailed(r) PROVE BoxInv'
  BY <1>17 DEF DropFailed, At, SameLock, Quiet
<1>18. ASSUME NEW r \in Restores, Launch(r) PROVE BoxInv'
  BY <1>18 DEF Launch, At, SameLock, StartServer, StartFailed, FinishFailed,
     Release
<1>19. ASSUME NEW r \in Restores, Await(r) PROVE BoxInv'
  BY <1>19 DEF Await, At, SameLock, Quiet, FinishFailed, Release
<1>20. ASSUME NEW r \in Restores, Keep(r) PROVE BoxInv'
  <2>1. CASE journal' = journal
    BY <1>20, <2>1 DEF Keep, At, SameLock, Quiet, Fault
  <2>2. CASE journal' = [journal EXCEPT ![r].state = "kept"]
    <3>1. journal[r] # NoJournal
      BY <1>20 DEF Keep, At
    <3>2. /\ journal'[r].state = "kept"
          /\ \A q \in Restores \ {r} : journal'[q] = journal[q]
      BY <2>2, <3>1, JournalRewritten
    <3>. QED
      BY <1>20, <3>1, <3>2 DEF Keep, At, SameLock, Quiet, Fault
  <2>. QED
    BY <1>20, <2>1, <2>2 DEF Keep, At, SameLock, Quiet, Fault
<1>21. ASSUME NEW r \in Restores, Revert(r) PROVE BoxInv'
  <2>1. CASE pc' # "revStop"
    BY <1>21, <2>1 DEF Revert, At, SameLock, Quiet, Fault, FailKeepingStage
  <2>2. CASE pc' = "revStop"
    <3>1. journal[r] # NoJournal
      BY <1>21 DEF Revert, At
    <3>2. /\ journal'[r].state = "reverting"
          /\ \A q \in Restores \ {r} : journal'[q] = journal[q]
      BY <1>21, <2>2, <3>1, JournalRewritten DEF Revert, FailKeepingStage
    <3>. QED
      BY <1>21, <2>2, <3>1, <3>2 DEF Revert, At, SameLock, Quiet, Fault,
         FailKeepingStage
  <2>. QED
    BY <1>21, <2>1, <2>2 DEF Revert, At, SameLock, Quiet, Fault, FailKeepingStage
<1>22. ASSUME NEW r \in Restores, RevertStop(r) PROVE BoxInv'
  BY <1>22 DEF RevertStop, At, SameLock, Quiet, StopServer, Fault, Cut,
     Release, FailKeepingStage
<1>23. ASSUME NEW r \in Restores, BackClear(r) PROVE BoxInv'
  BY <1>23 DEF BackClear, At, SameLock, Fault, PutPreviousBack, BackFailed,
     FailKeepingStage, SettleFailed, Release, Settling
<1>24. ASSUME NEW r \in Restores, BackMove(r) PROVE BoxInv'
  BY <1>24 DEF BackMove, At, SameLock, Fault, PutPreviousBack, BackFailed,
     FailKeepingStage, SettleFailed, Release, Settling
<1>25. ASSUME NEW r \in Restores, BackSave(r) PROVE BoxInv'
  BY <1>25 DEF BackSave, At, SameLock, Fault, PutPreviousBack, BackFailed,
     FailKeepingStage, SettleFailed, Release, Settling
<1>26. ASSUME NEW r \in Restores, StartPrevious(r) PROVE BoxInv'
  BY <1>26 DEF StartPrevious, At, SameLock, Quiet, StartServer, StartFailed
<1>27. ASSUME NEW r \in Restores, DropAside(r) PROVE BoxInv'
  BY <1>27 DEF DropAside, At, SameLock, Quiet
<1>28. ASSUME NEW r \in Restores, DropAsideRest(r) PROVE BoxInv'
  BY <1>28 DEF DropAsideRest, At, SameLock, Fault, SettleFailed, Release,
     Settling
<1>29. ASSUME NEW r \in Restores, DropStage(r) PROVE BoxInv'
  BY <1>29 DEF DropStage, At, SameLock, Fault, SettleFailed, Release,
     Settling
<1>30. ASSUME NEW r \in Restores, DropStageRest(r) PROVE BoxInv'
  BY <1>30 DEF DropStageRest, At, SameLock, Settling, Release
<1>31. ASSUME NEW r \in Restores, End(r) PROVE BoxInv'
  BY <1>31 DEF End, At, SameLock, Quiet, Release
<1>32. ASSUME NEW r \in Restores, Recover(r) PROVE BoxInv'
  <2>1. journal[r].state \in {"moving", "checking", "kept", "reverting"}
    BY <1>32 DEF Recover, At, Journals
  <2>. QED
    BY <1>32, <2>1 DEF Recover, At, SameLock, Quiet
<1>33. ASSUME NEW r \in Restores, Adopt(r) PROVE BoxInv'
  BY <1>33 DEF Adopt, At, SameLock, Quiet, Release
<1>34. ASSUME NEW r \in Restores, ForwardClear(r) PROVE BoxInv'
  BY <1>34 DEF ForwardClear, At, SameLock, Quiet, Fault, ForwardFailed
<1>35. ASSUME NEW r \in Restores, ForwardMove(r) PROVE BoxInv'
  BY <1>35 DEF ForwardMove, At, SameLock, Quiet, Fault, ForwardFailed
<1>36. ASSUME NEW r \in Restores, ForwardSave(r) PROVE BoxInv'
  BY <1>36 DEF ForwardSave, At, SameLock, Quiet, Fault, ForwardFailed
<1>37. ASSUME NEW r \in Restores, ForwardJournal(r) PROVE BoxInv'
  <2>1. CASE journal' = journal
    BY <1>37, <2>1 DEF ForwardJournal, At, SameLock, Quiet, Fault, ForwardFailed
  <2>2. CASE journal' = [journal EXCEPT ![r].state = "checking"]
    <3>1. journal[r] # NoJournal
      BY <1>37 DEF ForwardJournal, At
    <3>2. /\ journal'[r].state = "checking"
          /\ \A q \in Restores \ {r} : journal'[q] = journal[q]
      BY <2>2, <3>1, JournalRewritten
    <3>. QED
      BY <1>37, <3>1, <3>2 DEF ForwardJournal, At, SameLock, Quiet, Fault,
         ForwardFailed
  <2>. QED
    BY <1>37, <2>1, <2>2 DEF ForwardJournal, At, SameLock, Quiet, Fault, ForwardFailed
<1>38. ASSUME NEW r \in Restores, SettleSwap(r) PROVE BoxInv'
  BY <1>38 DEF SettleSwap, At, SameLock, SettleFailed, Release
<1>39. ASSUME NEW r \in Restores, Prune(r) PROVE BoxInv'
  BY <1>39 DEF Prune
<1>40. ASSUME NEW r \in Restores, StageArchive(r) PROVE BoxInv'
  BY <1>40 DEF StageArchive, Free
<1>41. ASSUME NEW r \in Restores, ApplyAsked(r) PROVE BoxInv'
  BY <1>41 DEF ApplyAsked
<1>42. ASSUME NEW r \in Restores, ApplyBusy(r) PROVE BoxInv'
  BY <1>42 DEF ApplyBusy
<1>43. ASSUME NEW r \in Restores, ApplyBegin(r) PROVE BoxInv'
  BY <1>43 DEF ApplyBegin, Free
<1>44. ASSUME NEW r \in Restores, DiscardStage(r) PROVE BoxInv'
  BY <1>44 DEF DiscardStage, Free
<1>45. ASSUME NEW r \in Restores, MoveBackByHand(r) PROVE BoxInv'
  BY <1>45 DEF MoveBackByHand, Journaled
<1>46. ASSUME NEW r \in Restores, DiscardCopy(r) PROVE BoxInv'
  BY <1>46 DEF DiscardCopy, Free, Journaled
<1>47. CASE AgentStart
  BY <1>47 DEF AgentStart
<1>48. CASE AgentUp
  BY <1>48 DEF AgentUp
<1>49. CASE AgentExit
  BY <1>49 DEF AgentExit
<1>50. CASE SettleNext
  BY <1>50 DEF SettleNext, Release, SameLock, Journaled
<1>51. CASE Halt
  BY <1>51 DEF Halt, StopServer, Fault, Cut, Release, SameLock
<1>52. CASE LaunchOwn
  BY <1>52 DEF LaunchOwn, StartServer, StartFailed, Release, SameLock,
     OwnStartFailed
<1>53. CASE AwaitOwn
  BY <1>53 DEF AwaitOwn, Release, SameLock, OwnStartFailed
<1>54. CASE GameOnline
  BY <1>54 DEF GameOnline
<1>55. CASE GameExit
  BY <1>55 DEF GameExit
<1>56. CASE SettleTick
  BY <1>56 DEF SettleTick, Free
<1>57. CASE AutoStart
  BY <1>57 DEF AutoStart, Free
<1>58. CASE StartAsked
  BY <1>58 DEF StartAsked, Free
<1>59. CASE RestartAsked
  BY <1>59 DEF RestartAsked, Free
<1>60. CASE StopAsked
  BY <1>60 DEF StopAsked, Free
<1>61. CASE Crash
  BY <1>61 DEF Crash
<1>62. CASE AgentStop
  BY <1>62 DEF AgentStop
<1>63. CASE UNCHANGED vars
  BY <1>63 DEF vars
<1> HIDE DEF TypeInv, TypeOK, JournalHeld, JournalSteps, LockInv,
        RestoreOnly, Restoring, Settling, BoxInv, RunsInPlace, Forward,
        StoppedSteps, Free, Worlds, worlds, stages, conts, locks, notes, hist
<1>64. ASSUME NEW r \in Restores, RestoreStep(r) PROVE BoxInv'
  BY <1>64, <1>1, <1>2, <1>3, <1>4, <1>5, <1>6, <1>7, <1>8, <1>9, <1>10,
     <1>11, <1>12, <1>13, <1>14, <1>15, <1>16, <1>17, <1>18, <1>19, <1>20,
     <1>21, <1>22, <1>23, <1>24, <1>25, <1>26, <1>27, <1>28, <1>29, <1>30,
     <1>31, <1>32, <1>33, <1>34, <1>35, <1>36, <1>37, <1>38
  DEF RestoreStep
<1>65. CASE AgentStep
  BY <1>65, <1>39, <1>47, <1>48, <1>49, <1>50, <1>51, <1>52, <1>53, <1>64
  DEF AgentStep
<1>. QED
  BY <1>40, <1>41, <1>42, <1>43, <1>44, <1>45, <1>46, <1>54, <1>55, <1>56,
     <1>57, <1>58, <1>59, <1>60, <1>61, <1>62, <1>63, <1>65
  DEF Next

(* No step of a restore, of its undo, of its resumption after a crash or   *)
(* of a settle moves a world the server runs, for any number of restores,  *)
(* faults and crashes, even if stages are discarded late and requests      *)
(* overtaken.                                                              *)
THEOREM NothingMovesUnderTheServer == Spec => []RunsInPlace
<1>1. BoxInv => RunsInPlace
  BY DEF BoxInv
<1>. QED
  BY <1>1, TypeInit, TypeNext, LockInit, LockNext, BoxInit, BoxNext, PTL DEF Spec
-----------------------------------------------------------------------------
(* One restore at a time: requests that are overtaken by another restore   *)
(* (SlowApply) are left out, unless there is just one restore.             *)
Apart == SlowApply => \A p, q \in Restores : p = q

(* While a restore runs, no other one keeps a journal, and none is settled. *)
HoldInv ==
    /\ agent \in {"up", "stopping"} => toPrune = {}
    /\ kind = "prune"
          => agent = "starting" /\ cur \in Restores /\ op[cur] # "running"
    /\ \A q \in toPrune : op[q] # "running"
    /\ \A p, q \in Journaled : p = q
    /\ \A q \in Restores : op[q] = "running" => Journaled \subseteq {q}

LEMMA HoldInit == Init => HoldInv
BY RestoresAssumption DEF Init, HoldInv, Journaled

LEMMA HoldNext == Apart /\ TypeInv /\ LockInv /\ HoldInv /\ [Next]_vars => HoldInv'
<1> SUFFICES ASSUME Apart, TypeInv, LockInv, HoldInv, [Next]_vars PROVE HoldInv'
  OBVIOUS
<1> USE RestoresAssumption
    DEF TypeInv, TypeOK, JournalHeld, JournalSteps, LockInv, RestoreOnly,
        Restoring, Settling, HoldInv, Journaled, Free,
        Worlds, worlds, stages, conts, locks, notes, hist
<1>1. ASSUME NEW r \in Restores, Stop(r) PROVE HoldInv'
  BY <1>1 DEF Stop, At, SameLock, Quiet, StopServer, Fault, Cut, Release
<1>2. ASSUME NEW r \in Restores, SaveRollback(r) PROVE HoldInv'
  BY <1>2 DEF SaveRollback, At, SameLock
<1>3. ASSUME NEW r \in Restores, WriteJournal(r) PROVE HoldInv'
  BY <1>3 DEF WriteJournal, At, SameLock, Fault
<1>4. ASSUME NEW r \in Restores, GiveUp(r) PROVE HoldInv'
  BY <1>4 DEF GiveUp, At, SameLock, Quiet, StartServer, StartFailed
<1>5. ASSUME NEW r \in Restores, AwaitPrevious(r) PROVE HoldInv'
  BY <1>5 DEF AwaitPrevious, At, SameLock, Quiet
<1>6. ASSUME NEW r \in Restores, SetAside(r) PROVE HoldInv'
  BY <1>6 DEF SetAside, At, SameLock, Quiet, Fault
<1>7. ASSUME NEW r \in Restores, MoveIn(r) PROVE HoldInv'
  BY <1>7 DEF MoveIn, At, SameLock, Quiet, Fault
<1>8. ASSUME NEW r \in Restores, UndoMoveIn(r) PROVE HoldInv'
  <2>1. CASE journal' = journal
    BY <1>8, <2>1 DEF UndoMoveIn, At, SameLock, Undoing, Quiet, HadLive, Fault
  <2>2. CASE journal' = [journal EXCEPT ![r].state = "reverting"]
    <3>1. journal[r] # NoJournal
      BY <1>8 DEF UndoMoveIn, At, Undoing
    <3>2. /\ journal'[r].state = "reverting"
          /\ journal'[r].hadLive = journal[r].hadLive
          /\ journal'[r].prev = journal[r].prev
          /\ journal'[r] # NoJournal
          /\ \A q \in Restores \ {r} : journal'[q] = journal[q]
      BY <2>2, <3>1, JournalRewritten
    <3>. QED
      BY <1>8, <3>1, <3>2 DEF UndoMoveIn, At, SameLock, Undoing, Quiet, HadLive,
         Fault
  <2>. QED
    BY <1>8, <2>1, <2>2 DEF UndoMoveIn, Undoing
<1>9. ASSUME NEW r \in Restores, PutBackUnmoved(r) PROVE HoldInv'
  BY <1>9 DEF PutBackUnmoved, At, SameLock, Quiet, Fault
<1>10. ASSUME NEW r \in Restores, RescueStaged(r) PROVE HoldInv'
  BY <1>10 DEF RescueStaged, At, SameLock, Quiet, Fault, FailKeepingStage
<1>11. ASSUME NEW r \in Restores, SaveRestored(r) PROVE HoldInv'
  BY <1>11 DEF SaveRestored, At, SameLock, Quiet, Fault
<1>12. ASSUME NEW r \in Restores, JournalChecking(r) PROVE HoldInv'
  <2>1. CASE journal' = journal
    BY <1>12, <2>1 DEF JournalChecking, At, SameLock, Quiet, Fault
  <2>2. CASE journal' = [journal EXCEPT ![r].state = "checking"]
    <3>1. journal[r] # NoJournal
      BY <1>12 DEF JournalChecking, At
    <3>2. /\ journal'[r].state = "checking"
          /\ journal'[r].hadLive = journal[r].hadLive
          /\ journal'[r].prev = journal[r].prev
          /\ journal'[r] # NoJournal
          /\ \A q \in Restores \ {r} : journal'[q] = journal[q]
      BY <2>2, <3>1, JournalRewritten
    <3>. QED
      BY <1>12, <3>1, <3>2 DEF JournalChecking, At, SameLock, Quiet, Fault
  <2>. QED
    BY <1>12, <2>1, <2>2 DEF JournalChecking
<1>13. ASSUME NEW r \in Restores, UnsaveRestored(r) PROVE HoldInv'
  BY <1>13 DEF UnsaveRestored, At, SameLock, Quiet, Fault
<1>14. ASSUME NEW r \in Restores, UndoSettings(r) PROVE HoldInv'
  <2>1. CASE journal' = journal
    BY <1>14, <2>1 DEF UndoSettings, At, SameLock, Undoing, Quiet, HadLive, Fault
  <2>2. CASE journal' = [journal EXCEPT ![r].state = "reverting"]
    <3>1. journal[r] # NoJournal
      BY <1>14 DEF UndoSettings, At, Undoing
    <3>2. /\ journal'[r].state = "reverting"
          /\ journal'[r].hadLive = journal[r].hadLive
          /\ journal'[r].prev = journal[r].prev
          /\ journal'[r] # NoJournal
          /\ \A q \in Restores \ {r} : journal'[q] = journal[q]
      BY <2>2, <3>1, JournalRewritten
    <3>. QED
      BY <1>14, <3>1, <3>2 DEF UndoSettings, At, SameLock, Undoing, Quiet, HadLive,
         Fault
  <2>. QED
    BY <1>14, <2>1, <2>2 DEF UndoSettings, Undoing
<1>15. ASSUME NEW r \in Restores, ClearLive(r) PROVE HoldInv'
  BY <1>15 DEF ClearLive, At, SameLock, Quiet, Fault, FailKeepingStage
<1>16. ASSUME NEW r \in Restores, PutBackMoved(r) PROVE HoldInv'
  BY <1>16 DEF PutBackMoved, At, SameLock, Quiet, Fault, FailKeepingStage
<1>17. ASSUME NEW r \in Restores, DropFailed(r) PROVE HoldInv'
  BY <1>17 DEF DropFailed, At, SameLock, Quiet
<1>18. ASSUME NEW r \in Restores, Launch(r) PROVE HoldInv'
  BY <1>18 DEF Launch, At, SameLock, StartServer, StartFailed, FinishFailed, Release
<1>19. ASSUME NEW r \in Restores, Await(r) PROVE HoldInv'
  BY <1>19 DEF Await, At, SameLock, Quiet, FinishFailed, Release
<1>20. ASSUME NEW r \in Restores, Keep(r) PROVE HoldInv'
  <2>1. CASE journal' = journal
    BY <1>20, <2>1 DEF Keep, At, SameLock, Quiet, Fault
  <2>2. CASE journal' = [journal EXCEPT ![r].state = "kept"]
    <3>1. journal[r] # NoJournal
      BY <1>20 DEF Keep, At
    <3>2. /\ journal'[r].state = "kept" /\ journal'[r].hadLive = journal[r].hadLive
          /\ journal'[r].prev = journal[r].prev
          /\ journal'[r] # NoJournal
          /\ \A q \in Restores \ {r} : journal'[q] = journal[q]
      BY <2>2, <3>1, JournalRewritten
    <3>. QED
      BY <1>20, <3>1, <3>2 DEF Keep, At, SameLock, Quiet, Fault
  <2>. QED
    BY <1>20, <2>1, <2>2 DEF Keep
<1>21. ASSUME NEW r \in Restores, Revert(r) PROVE HoldInv'
  <2>1. CASE journal' = journal
    BY <1>21, <2>1 DEF Revert, At, SameLock, Quiet, Fault, FailKeepingStage
  <2>2. CASE journal' = [journal EXCEPT ![r].state = "reverting"]
    <3>1. journal[r] # NoJournal
      BY <1>21 DEF Revert, At
    <3>2. /\ journal'[r].state = "reverting"
          /\ journal'[r].hadLive = journal[r].hadLive
          /\ journal'[r].prev = journal[r].prev
          /\ journal'[r] # NoJournal
          /\ \A q \in Restores \ {r} : journal'[q] = journal[q]
      BY <2>2, <3>1, JournalRewritten
    <3>. QED
      BY <1>21, <3>1, <3>2 DEF Revert, At, SameLock, Quiet, Fault, FailKeepingStage
  <2>. QED
    BY <1>21, <2>1, <2>2 DEF Revert, FailKeepingStage
<1>22. ASSUME NEW r \in Restores, RevertStop(r) PROVE HoldInv'
  BY <1>22 DEF RevertStop, At, SameLock, Quiet, StopServer, Fault, Cut, Release,
     FailKeepingStage
<1>23. ASSUME NEW r \in Restores, BackClear(r) PROVE HoldInv'
  BY <1>23 DEF BackClear, At, SameLock, Fault, PutPreviousBack, BackFailed,
     FailKeepingStage, SettleFailed, Release, Settling
<1>24. ASSUME NEW r \in Restores, BackMove(r) PROVE HoldInv'
  BY <1>24 DEF BackMove, At, SameLock, Fault, PutPreviousBack, BackFailed,
     FailKeepingStage, SettleFailed, Release, Settling
<1>25. ASSUME NEW r \in Restores, BackSave(r) PROVE HoldInv'
  BY <1>25 DEF BackSave, At, SameLock, Fault, PutPreviousBack, BackFailed,
     FailKeepingStage, SettleFailed, Release, Settling
<1>26. ASSUME NEW r \in Restores, StartPrevious(r) PROVE HoldInv'
  BY <1>26 DEF StartPrevious, At, SameLock, Quiet, StartServer, StartFailed
<1>27. ASSUME NEW r \in Restores, DropAside(r) PROVE HoldInv'
  BY <1>27 DEF DropAside, At, SameLock, Quiet
<1>28. ASSUME NEW r \in Restores, DropAsideRest(r) PROVE HoldInv'
  BY <1>28 DEF DropAsideRest, At, SameLock, Fault, SettleFailed, Release, Settling
<1>29. ASSUME NEW r \in Restores, DropStage(r) PROVE HoldInv'
  BY <1>29 DEF DropStage, At, SameLock, Fault, SettleFailed, Release, Settling
<1>30. ASSUME NEW r \in Restores, DropStageRest(r) PROVE HoldInv'
  BY <1>30 DEF DropStageRest, At, SameLock, Settling, Release
<1>31. ASSUME NEW r \in Restores, End(r) PROVE HoldInv'
  BY <1>31 DEF End, At, SameLock, Quiet, Release
<1>32. ASSUME NEW r \in Restores, Recover(r) PROVE HoldInv'
  BY <1>32 DEF Recover, At, Journals, SameLock, Quiet
<1>33. ASSUME NEW r \in Restores, Adopt(r) PROVE HoldInv'
  BY <1>33 DEF Adopt, At, SameLock, Quiet, Release
<1>34. ASSUME NEW r \in Restores, ForwardClear(r) PROVE HoldInv'
  BY <1>34 DEF ForwardClear, At, SameLock, Quiet, Fault, ForwardFailed
<1>35. ASSUME NEW r \in Restores, ForwardMove(r) PROVE HoldInv'
  BY <1>35 DEF ForwardMove, At, SameLock, Quiet, Fault, ForwardFailed
<1>36. ASSUME NEW r \in Restores, ForwardSave(r) PROVE HoldInv'
  BY <1>36 DEF ForwardSave, At, SameLock, Quiet, Fault, ForwardFailed
<1>37. ASSUME NEW r \in Restores, ForwardJournal(r) PROVE HoldInv'
  <2>1. CASE journal' = journal
    BY <1>37, <2>1 DEF ForwardJournal, At, SameLock, Quiet, Fault, ForwardFailed
  <2>2. CASE journal' = [journal EXCEPT ![r].state = "checking"]
    <3>1. journal[r] # NoJournal
      BY <1>37 DEF ForwardJournal, At
    <3>2. /\ journal'[r].state = "checking"
          /\ journal'[r].hadLive = journal[r].hadLive
          /\ journal'[r].prev = journal[r].prev
          /\ journal'[r] # NoJournal
          /\ \A q \in Restores \ {r} : journal'[q] = journal[q]
      BY <2>2, <3>1, JournalRewritten
    <3>. QED
      BY <1>37, <3>1, <3>2 DEF ForwardJournal, At, SameLock, Quiet, Fault,
         ForwardFailed
  <2>. QED
    BY <1>37, <2>1, <2>2 DEF ForwardJournal, ForwardFailed
<1>38. ASSUME NEW r \in Restores, SettleSwap(r) PROVE HoldInv'
  BY <1>38 DEF SettleSwap, At, SameLock, SettleFailed, Release
<1>39. ASSUME NEW r \in Restores, Prune(r) PROVE HoldInv'
  BY <1>39 DEF Prune
<1>40. ASSUME NEW r \in Restores, StageArchive(r) PROVE HoldInv'
  BY <1>40 DEF StageArchive, Free
<1>41. ASSUME NEW r \in Restores, ApplyAsked(r) PROVE HoldInv'
  BY <1>41 DEF ApplyAsked
<1>42. ASSUME NEW r \in Restores, ApplyBusy(r) PROVE HoldInv'
  BY <1>42 DEF ApplyBusy
<1>43. ASSUME NEW r \in Restores, ApplyBegin(r) PROVE HoldInv'
  BY <1>43 DEF ApplyBegin, Apart, RestoreRefusal, Busy
<1>44. ASSUME NEW r \in Restores, DiscardStage(r) PROVE HoldInv'
  BY <1>44 DEF DiscardStage, Free
<1>45. ASSUME NEW r \in Restores, MoveBackByHand(r) PROVE HoldInv'
  BY <1>45 DEF MoveBackByHand, Journaled
<1>46. ASSUME NEW r \in Restores, DiscardCopy(r) PROVE HoldInv'
  BY <1>46 DEF DiscardCopy, Free, Journaled
<1>47. CASE AgentStart
  BY <1>47 DEF AgentStart
<1>48. CASE AgentUp
  BY <1>48 DEF AgentUp
<1>49. CASE AgentExit
  BY <1>49 DEF AgentExit
<1>50. CASE SettleNext
  BY <1>50 DEF SettleNext, Release, SameLock, Journaled
<1>51. CASE Halt
  BY <1>51 DEF Halt, StopServer, Fault, Cut, Release, SameLock
<1>52. CASE LaunchOwn
  BY <1>52 DEF LaunchOwn, StartServer, StartFailed, Release, SameLock,
     OwnStartFailed
<1>53. CASE AwaitOwn
  BY <1>53 DEF AwaitOwn, Release, SameLock, OwnStartFailed
<1>54. CASE GameOnline
  BY <1>54 DEF GameOnline
<1>55. CASE GameExit
  BY <1>55 DEF GameExit
<1>56. CASE SettleTick
  BY <1>56 DEF SettleTick, Free
<1>57. CASE AutoStart
  BY <1>57 DEF AutoStart, Free
<1>58. CASE StartAsked
  BY <1>58 DEF StartAsked, Free
<1>59. CASE RestartAsked
  BY <1>59 DEF RestartAsked, Free
<1>60. CASE StopAsked
  BY <1>60 DEF StopAsked, Free
<1>61. CASE Crash
  BY <1>61 DEF Crash
<1>62. CASE AgentStop
  BY <1>62 DEF AgentStop
<1>63. CASE UNCHANGED vars
  BY <1>63 DEF vars
<1> HIDE DEF TypeInv, TypeOK, JournalHeld, JournalSteps, LockInv,
        RestoreOnly, Restoring, Settling, HoldInv, Journaled, Free,
        Worlds, worlds, stages, conts, locks, notes, hist
<1>64. ASSUME NEW r \in Restores, RestoreStep(r) PROVE HoldInv'
  BY <1>64, <1>1, <1>2, <1>3, <1>4, <1>5, <1>6, <1>7, <1>8, <1>9, <1>10,
     <1>11, <1>12, <1>13, <1>14, <1>15, <1>16, <1>17, <1>18, <1>19, <1>20,
     <1>21, <1>22, <1>23, <1>24, <1>25, <1>26, <1>27, <1>28, <1>29, <1>30,
     <1>31, <1>32, <1>33, <1>34, <1>35, <1>36, <1>37, <1>38
  DEF RestoreStep
<1>65. CASE AgentStep
  BY <1>65, <1>39, <1>47, <1>48, <1>49, <1>50, <1>51, <1>52, <1>53, <1>64
  DEF AgentStep
<1>. QED
  BY <1>40, <1>41, <1>42, <1>43, <1>44, <1>45, <1>46, <1>54, <1>55, <1>56,
     <1>57, <1>58, <1>59, <1>60, <1>61, <1>62, <1>63, <1>65
  DEF Next

-----------------------------------------------------------------------------
(* A server moved in that stays stopped: its restore is made with it, for  *)
(* a server that did not run and had no world, so nothing is put back.     *)
MovedInv ==
    /\ \A q \in Restores : asked[q] = "moved" =>
          op[q] # "none" /\ (op[q] = "running" => ~wasUp)
    /\ pc \in {"stop", "rollback", "journal"} /\ asked[cur] = "moved" => live = None
    /\ \A q \in Journaled : /\ journal[q].state = "reverting" => HadLive(q)
                            /\ asked[q] = "moved" => ~HadLive(q)
    /\ Restoring /\ pc \in {"revert", "revStop", "back1", "back2", "back3",
                             "startPrev"} => HadLive(cur)

LEMMA MovedInit == Init => MovedInv
BY RestoresAssumption DEF Init, MovedInv, Journaled, Restoring

LEMMA MovedNext == TypeInv /\ LockInv /\ MovedInv /\ [Next]_vars => MovedInv'
<1> SUFFICES ASSUME TypeInv, LockInv, MovedInv, [Next]_vars PROVE MovedInv'
  OBVIOUS
<1> USE RestoresAssumption
    DEF TypeInv, TypeOK, JournalHeld, JournalSteps, LockInv, RestoreOnly,
        Restoring, Settling, MovedInv, Journaled, HadLive, Free,
        worlds, stages, conts, locks, notes, hist
<1>1. ASSUME NEW r \in Restores, Stop(r) PROVE MovedInv'
  BY <1>1 DEF Stop, At, SameLock, Quiet, StopServer, Fault, Cut, Release
<1>2. ASSUME NEW r \in Restores, SaveRollback(r) PROVE MovedInv'
  BY <1>2 DEF SaveRollback, At, SameLock
<1>3. ASSUME NEW r \in Restores, WriteJournal(r) PROVE MovedInv'
  BY <1>3 DEF WriteJournal, At, SameLock, Fault
<1>4. ASSUME NEW r \in Restores, GiveUp(r) PROVE MovedInv'
  BY <1>4 DEF GiveUp, At, SameLock, Quiet, StartServer, StartFailed
<1>5. ASSUME NEW r \in Restores, AwaitPrevious(r) PROVE MovedInv'
  BY <1>5 DEF AwaitPrevious, At, SameLock, Quiet
<1>6. ASSUME NEW r \in Restores, SetAside(r) PROVE MovedInv'
  BY <1>6 DEF SetAside, At, SameLock, Quiet, Fault
<1>7. ASSUME NEW r \in Restores, MoveIn(r) PROVE MovedInv'
  BY <1>7 DEF MoveIn, At, SameLock, Quiet, Fault
<1>8. ASSUME NEW r \in Restores, UndoMoveIn(r) PROVE MovedInv'
  <2>1. CASE journal' = journal
    BY <1>8, <2>1 DEF UndoMoveIn, At, SameLock, Undoing, Quiet, HadLive, Fault
  <2>2. CASE journal' = [journal EXCEPT ![r].state = "reverting"]
    <3>1. journal[r] # NoJournal
      BY <1>8 DEF UndoMoveIn, At, Undoing
    <3>2. /\ journal'[r].state = "reverting"
          /\ journal'[r].hadLive = journal[r].hadLive
          /\ journal'[r].prev = journal[r].prev
          /\ journal'[r] # NoJournal
          /\ \A q \in Restores \ {r} : journal'[q] = journal[q]
      BY <2>2, <3>1, JournalRewritten
    <3>. QED
      BY <1>8, <3>1, <3>2 DEF UndoMoveIn, At, SameLock, Undoing, Quiet, HadLive,
         Fault
  <2>. QED
    BY <1>8, <2>1, <2>2 DEF UndoMoveIn, Undoing
<1>9. ASSUME NEW r \in Restores, PutBackUnmoved(r) PROVE MovedInv'
  BY <1>9 DEF PutBackUnmoved, At, SameLock, Quiet, Fault
<1>10. ASSUME NEW r \in Restores, RescueStaged(r) PROVE MovedInv'
  BY <1>10 DEF RescueStaged, At, SameLock, Quiet, Fault, FailKeepingStage
<1>11. ASSUME NEW r \in Restores, SaveRestored(r) PROVE MovedInv'
  BY <1>11 DEF SaveRestored, At, SameLock, Quiet, Fault
<1>12. ASSUME NEW r \in Restores, JournalChecking(r) PROVE MovedInv'
  <2>1. CASE journal' = journal
    BY <1>12, <2>1 DEF JournalChecking, At, SameLock, Quiet, Fault
  <2>2. CASE journal' = [journal EXCEPT ![r].state = "checking"]
    <3>1. journal[r] # NoJournal
      BY <1>12 DEF JournalChecking, At
    <3>2. /\ journal'[r].state = "checking"
          /\ journal'[r].hadLive = journal[r].hadLive
          /\ journal'[r].prev = journal[r].prev
          /\ journal'[r] # NoJournal
          /\ \A q \in Restores \ {r} : journal'[q] = journal[q]
      BY <2>2, <3>1, JournalRewritten
    <3>. QED
      BY <1>12, <3>1, <3>2 DEF JournalChecking, At, SameLock, Quiet, Fault
  <2>. QED
    BY <1>12, <2>1, <2>2 DEF JournalChecking
<1>13. ASSUME NEW r \in Restores, UnsaveRestored(r) PROVE MovedInv'
  BY <1>13 DEF UnsaveRestored, At, SameLock, Quiet, Fault
<1>14. ASSUME NEW r \in Restores, UndoSettings(r) PROVE MovedInv'
  <2>1. CASE journal' = journal
    BY <1>14, <2>1 DEF UndoSettings, At, SameLock, Undoing, Quiet, HadLive, Fault
  <2>2. CASE journal' = [journal EXCEPT ![r].state = "reverting"]
    <3>1. journal[r] # NoJournal
      BY <1>14 DEF UndoSettings, At, Undoing
    <3>2. /\ journal'[r].state = "reverting"
          /\ journal'[r].hadLive = journal[r].hadLive
          /\ journal'[r].prev = journal[r].prev
          /\ journal'[r] # NoJournal
          /\ \A q \in Restores \ {r} : journal'[q] = journal[q]
      BY <2>2, <3>1, JournalRewritten
    <3>. QED
      BY <1>14, <3>1, <3>2 DEF UndoSettings, At, SameLock, Undoing, Quiet, HadLive,
         Fault
  <2>. QED
    BY <1>14, <2>1, <2>2 DEF UndoSettings, Undoing
<1>15. ASSUME NEW r \in Restores, ClearLive(r) PROVE MovedInv'
  BY <1>15 DEF ClearLive, At, SameLock, Quiet, Fault, FailKeepingStage
<1>16. ASSUME NEW r \in Restores, PutBackMoved(r) PROVE MovedInv'
  BY <1>16 DEF PutBackMoved, At, SameLock, Quiet, Fault, FailKeepingStage
<1>17. ASSUME NEW r \in Restores, DropFailed(r) PROVE MovedInv'
  BY <1>17 DEF DropFailed, At, SameLock, Quiet
<1>18. ASSUME NEW r \in Restores, Launch(r) PROVE MovedInv'
  BY <1>18 DEF Launch, At, SameLock, StartServer, StartFailed, FinishFailed, Release
<1>19. ASSUME NEW r \in Restores, Await(r) PROVE MovedInv'
  BY <1>19 DEF Await, At, SameLock, Quiet, FinishFailed, Release
<1>20. ASSUME NEW r \in Restores, Keep(r) PROVE MovedInv'
  <2>1. CASE journal' = journal
    BY <1>20, <2>1 DEF Keep, At, SameLock, Quiet, Fault
  <2>2. CASE journal' = [journal EXCEPT ![r].state = "kept"]
    <3>1. journal[r] # NoJournal
      BY <1>20 DEF Keep, At
    <3>2. /\ journal'[r].state = "kept" /\ journal'[r].hadLive = journal[r].hadLive
          /\ journal'[r].prev = journal[r].prev
          /\ journal'[r] # NoJournal
          /\ \A q \in Restores \ {r} : journal'[q] = journal[q]
      BY <2>2, <3>1, JournalRewritten
    <3>. QED
      BY <1>20, <3>1, <3>2 DEF Keep, At, SameLock, Quiet, Fault
  <2>. QED
    BY <1>20, <2>1, <2>2 DEF Keep
<1>21. ASSUME NEW r \in Restores, Revert(r) PROVE MovedInv'
  <2>1. CASE journal' = journal
    BY <1>21, <2>1 DEF Revert, At, SameLock, Quiet, Fault, FailKeepingStage
  <2>2. CASE journal' = [journal EXCEPT ![r].state = "reverting"]
    <3>1. journal[r] # NoJournal
      BY <1>21 DEF Revert, At
    <3>2. /\ journal'[r].state = "reverting"
          /\ journal'[r].hadLive = journal[r].hadLive
          /\ journal'[r].prev = journal[r].prev
          /\ journal'[r] # NoJournal
          /\ \A q \in Restores \ {r} : journal'[q] = journal[q]
      BY <2>2, <3>1, JournalRewritten
    <3>. QED
      BY <1>21, <3>1, <3>2 DEF Revert, At, SameLock, Quiet, Fault, FailKeepingStage
  <2>. QED
    BY <1>21, <2>1, <2>2 DEF Revert, FailKeepingStage
<1>22. ASSUME NEW r \in Restores, RevertStop(r) PROVE MovedInv'
  BY <1>22 DEF RevertStop, At, SameLock, Quiet, StopServer, Fault, Cut, Release,
     FailKeepingStage
<1>23. ASSUME NEW r \in Restores, BackClear(r) PROVE MovedInv'
  BY <1>23 DEF BackClear, At, SameLock, Fault, PutPreviousBack, BackFailed,
     FailKeepingStage, SettleFailed, Release, Settling
<1>24. ASSUME NEW r \in Restores, BackMove(r) PROVE MovedInv'
  BY <1>24 DEF BackMove, At, SameLock, Fault, PutPreviousBack, BackFailed,
     FailKeepingStage, SettleFailed, Release, Settling
<1>25. ASSUME NEW r \in Restores, BackSave(r) PROVE MovedInv'
  BY <1>25 DEF BackSave, At, SameLock, Fault, PutPreviousBack, BackFailed,
     FailKeepingStage, SettleFailed, Release, Settling
<1>26. ASSUME NEW r \in Restores, StartPrevious(r) PROVE MovedInv'
  BY <1>26 DEF StartPrevious, At, SameLock, Quiet, StartServer, StartFailed
<1>27. ASSUME NEW r \in Restores, DropAside(r) PROVE MovedInv'
  BY <1>27 DEF DropAside, At, SameLock, Quiet
<1>28. ASSUME NEW r \in Restores, DropAsideRest(r) PROVE MovedInv'
  BY <1>28 DEF DropAsideRest, At, SameLock, Fault, SettleFailed, Release, Settling
<1>29. ASSUME NEW r \in Restores, DropStage(r) PROVE MovedInv'
  BY <1>29 DEF DropStage, At, SameLock, Fault, SettleFailed, Release, Settling
<1>30. ASSUME NEW r \in Restores, DropStageRest(r) PROVE MovedInv'
  BY <1>30 DEF DropStageRest, At, SameLock, Settling, Release
<1>31. ASSUME NEW r \in Restores, End(r) PROVE MovedInv'
  BY <1>31 DEF End, At, SameLock, Quiet, Release
<1>32. ASSUME NEW r \in Restores, Recover(r) PROVE MovedInv'
  BY <1>32 DEF Recover, At, Journals, SameLock, Quiet
<1>33. ASSUME NEW r \in Restores, Adopt(r) PROVE MovedInv'
  BY <1>33 DEF Adopt, At, SameLock, Quiet, Release
<1>34. ASSUME NEW r \in Restores, ForwardClear(r) PROVE MovedInv'
  BY <1>34 DEF ForwardClear, At, SameLock, Quiet, Fault, ForwardFailed
<1>35. ASSUME NEW r \in Restores, ForwardMove(r) PROVE MovedInv'
  BY <1>35 DEF ForwardMove, At, SameLock, Quiet, Fault, ForwardFailed
<1>36. ASSUME NEW r \in Restores, ForwardSave(r) PROVE MovedInv'
  BY <1>36 DEF ForwardSave, At, SameLock, Quiet, Fault, ForwardFailed
<1>37. ASSUME NEW r \in Restores, ForwardJournal(r) PROVE MovedInv'
  <2>1. CASE journal' = journal
    BY <1>37, <2>1 DEF ForwardJournal, At, SameLock, Quiet, Fault, ForwardFailed
  <2>2. CASE journal' = [journal EXCEPT ![r].state = "checking"]
    <3>1. journal[r] # NoJournal
      BY <1>37 DEF ForwardJournal, At
    <3>2. /\ journal'[r].state = "checking"
          /\ journal'[r].hadLive = journal[r].hadLive
          /\ journal'[r].prev = journal[r].prev
          /\ journal'[r] # NoJournal
          /\ \A q \in Restores \ {r} : journal'[q] = journal[q]
      BY <2>2, <3>1, JournalRewritten
    <3>. QED
      BY <1>37, <3>1, <3>2 DEF ForwardJournal, At, SameLock, Quiet, Fault,
         ForwardFailed
  <2>. QED
    BY <1>37, <2>1, <2>2 DEF ForwardJournal, ForwardFailed
<1>38. ASSUME NEW r \in Restores, SettleSwap(r) PROVE MovedInv'
  BY <1>38 DEF SettleSwap, At, SameLock, SettleFailed, Release
<1>39. ASSUME NEW r \in Restores, Prune(r) PROVE MovedInv'
  BY <1>39 DEF Prune
<1>40. ASSUME NEW r \in Restores, StageArchive(r) PROVE MovedInv'
  BY <1>40 DEF StageArchive, Free
<1>41. ASSUME NEW r \in Restores, ApplyAsked(r) PROVE MovedInv'
  BY <1>41 DEF ApplyAsked
<1>42. ASSUME NEW r \in Restores, ApplyBusy(r) PROVE MovedInv'
  BY <1>42 DEF ApplyBusy
<1>43. ASSUME NEW r \in Restores, ApplyBegin(r) PROVE MovedInv'
  BY <1>43 DEF ApplyBegin, Free
<1>44. ASSUME NEW r \in Restores, DiscardStage(r) PROVE MovedInv'
  BY <1>44 DEF DiscardStage, Free
<1>45. ASSUME NEW r \in Restores, MoveBackByHand(r) PROVE MovedInv'
  BY <1>45 DEF MoveBackByHand, Journaled
<1>46. ASSUME NEW r \in Restores, DiscardCopy(r) PROVE MovedInv'
  BY <1>46 DEF DiscardCopy, Free, Journaled
<1>47. CASE AgentStart
  BY <1>47 DEF AgentStart
<1>48. CASE AgentUp
  BY <1>48 DEF AgentUp
<1>49. CASE AgentExit
  BY <1>49 DEF AgentExit
<1>50. CASE SettleNext
  BY <1>50 DEF SettleNext, Release, SameLock, Journaled
<1>51. CASE Halt
  BY <1>51 DEF Halt, StopServer, Fault, Cut, Release, SameLock
<1>52. CASE LaunchOwn
  BY <1>52 DEF LaunchOwn, StartServer, StartFailed, Release, SameLock,
     OwnStartFailed
<1>53. CASE AwaitOwn
  BY <1>53 DEF AwaitOwn, Release, SameLock, OwnStartFailed
<1>54. CASE GameOnline
  BY <1>54 DEF GameOnline
<1>55. CASE GameExit
  BY <1>55 DEF GameExit
<1>56. CASE SettleTick
  BY <1>56 DEF SettleTick, Free
<1>57. CASE AutoStart
  BY <1>57 DEF AutoStart, Free
<1>58. CASE StartAsked
  BY <1>58 DEF StartAsked, Free
<1>59. CASE RestartAsked
  BY <1>59 DEF RestartAsked, Free
<1>60. CASE StopAsked
  BY <1>60 DEF StopAsked, Free
<1>61. CASE Crash
  BY <1>61 DEF Crash
<1>62. CASE AgentStop
  BY <1>62 DEF AgentStop
<1>63. CASE UNCHANGED vars
  BY <1>63 DEF vars
<1> HIDE DEF TypeInv, TypeOK, JournalHeld, JournalSteps, LockInv,
        RestoreOnly, Restoring, Settling, MovedInv, Journaled, HadLive, Free,
        worlds, stages, conts, locks, notes, hist
<1>64. ASSUME NEW r \in Restores, RestoreStep(r) PROVE MovedInv'
  BY <1>64, <1>1, <1>2, <1>3, <1>4, <1>5, <1>6, <1>7, <1>8, <1>9, <1>10,
     <1>11, <1>12, <1>13, <1>14, <1>15, <1>16, <1>17, <1>18, <1>19, <1>20,
     <1>21, <1>22, <1>23, <1>24, <1>25, <1>26, <1>27, <1>28, <1>29, <1>30,
     <1>31, <1>32, <1>33, <1>34, <1>35, <1>36, <1>37, <1>38
  DEF RestoreStep
<1>65. CASE AgentStep
  BY <1>65, <1>39, <1>47, <1>48, <1>49, <1>50, <1>51, <1>52, <1>53, <1>64
  DEF AgentStep
<1>. QED
  BY <1>40, <1>41, <1>42, <1>43, <1>44, <1>45, <1>46, <1>54, <1>55, <1>56,
     <1>57, <1>58, <1>59, <1>60, <1>61, <1>62, <1>63, <1>65
  DEF Next

(* The restore of a server moved in that stays stopped does not start it.  *)
StaysStopped ==
    kind \in {"restore", "recover"} /\ asked[cur] = "moved" /\ box = "stopped"
       => box' = "stopped"

LEMMA MovedStays ==
    TypeInv /\ LockInv /\ MovedInv /\ [Next]_vars => StaysStopped
<1> SUFFICES ASSUME TypeInv, LockInv, MovedInv, [Next]_vars PROVE StaysStopped
  OBVIOUS
<1> USE RestoresAssumption
    DEF TypeInv, TypeOK, JournalHeld, JournalSteps, LockInv, RestoreOnly,
        Restoring, Settling, MovedInv, StaysStopped, Journaled, HadLive, Free,
        worlds, stages, conts, locks, notes, hist
<1>1. ASSUME NEW r \in Restores, Stop(r) PROVE StaysStopped
  BY <1>1 DEF Stop, At, SameLock, Quiet, StopServer, Fault, Cut, Release
<1>2. ASSUME NEW r \in Restores, SaveRollback(r) PROVE StaysStopped
  BY <1>2 DEF SaveRollback, At, SameLock
<1>3. ASSUME NEW r \in Restores, WriteJournal(r) PROVE StaysStopped
  BY <1>3 DEF WriteJournal, At, SameLock, Fault
<1>4. ASSUME NEW r \in Restores, GiveUp(r) PROVE StaysStopped
  BY <1>4 DEF GiveUp, At, SameLock, Quiet, StartServer, StartFailed
<1>5. ASSUME NEW r \in Restores, AwaitPrevious(r) PROVE StaysStopped
  BY <1>5 DEF AwaitPrevious, At, SameLock, Quiet
<1>6. ASSUME NEW r \in Restores, SetAside(r) PROVE StaysStopped
  BY <1>6 DEF SetAside, At, SameLock, Quiet, Fault
<1>7. ASSUME NEW r \in Restores, MoveIn(r) PROVE StaysStopped
  BY <1>7 DEF MoveIn, At, SameLock, Quiet, Fault
<1>8. ASSUME NEW r \in Restores, UndoMoveIn(r) PROVE StaysStopped
  BY <1>8 DEF UndoMoveIn, At, SameLock, Undoing, Quiet, HadLive, Fault
<1>9. ASSUME NEW r \in Restores, PutBackUnmoved(r) PROVE StaysStopped
  BY <1>9 DEF PutBackUnmoved, At, SameLock, Quiet, Fault
<1>10. ASSUME NEW r \in Restores, RescueStaged(r) PROVE StaysStopped
  BY <1>10 DEF RescueStaged, At, SameLock, Quiet, Fault, FailKeepingStage
<1>11. ASSUME NEW r \in Restores, SaveRestored(r) PROVE StaysStopped
  BY <1>11 DEF SaveRestored, At, SameLock, Quiet, Fault
<1>12. ASSUME NEW r \in Restores, JournalChecking(r) PROVE StaysStopped
  BY <1>12 DEF JournalChecking, At, SameLock, Quiet, Fault
<1>13. ASSUME NEW r \in Restores, UnsaveRestored(r) PROVE StaysStopped
  BY <1>13 DEF UnsaveRestored, At, SameLock, Quiet, Fault
<1>14. ASSUME NEW r \in Restores, UndoSettings(r) PROVE StaysStopped
  BY <1>14 DEF UndoSettings, At, SameLock, Undoing, Quiet, HadLive, Fault
<1>15. ASSUME NEW r \in Restores, ClearLive(r) PROVE StaysStopped
  BY <1>15 DEF ClearLive, At, SameLock, Quiet, Fault, FailKeepingStage
<1>16. ASSUME NEW r \in Restores, PutBackMoved(r) PROVE StaysStopped
  BY <1>16 DEF PutBackMoved, At, SameLock, Quiet, Fault, FailKeepingStage
<1>17. ASSUME NEW r \in Restores, DropFailed(r) PROVE StaysStopped
  BY <1>17 DEF DropFailed, At, SameLock, Quiet
<1>18. ASSUME NEW r \in Restores, Launch(r) PROVE StaysStopped
  BY <1>18 DEF Launch, At, SameLock, StartServer, StartFailed, FinishFailed, Release
<1>19. ASSUME NEW r \in Restores, Await(r) PROVE StaysStopped
  BY <1>19 DEF Await, At, SameLock, Quiet, FinishFailed, Release
<1>20. ASSUME NEW r \in Restores, Keep(r) PROVE StaysStopped
  BY <1>20 DEF Keep, At, SameLock, Quiet, Fault
<1>21. ASSUME NEW r \in Restores, Revert(r) PROVE StaysStopped
  BY <1>21 DEF Revert, At, SameLock, Quiet, Fault, FailKeepingStage
<1>22. ASSUME NEW r \in Restores, RevertStop(r) PROVE StaysStopped
  BY <1>22 DEF RevertStop, At, SameLock, Quiet, StopServer, Fault, Cut, Release,
     FailKeepingStage
<1>23. ASSUME NEW r \in Restores, BackClear(r) PROVE StaysStopped
  BY <1>23 DEF BackClear, At, SameLock, Fault, PutPreviousBack, BackFailed,
     FailKeepingStage, SettleFailed, Release, Settling
<1>24. ASSUME NEW r \in Restores, BackMove(r) PROVE StaysStopped
  BY <1>24 DEF BackMove, At, SameLock, Fault, PutPreviousBack, BackFailed,
     FailKeepingStage, SettleFailed, Release, Settling
<1>25. ASSUME NEW r \in Restores, BackSave(r) PROVE StaysStopped
  BY <1>25 DEF BackSave, At, SameLock, Fault, PutPreviousBack, BackFailed,
     FailKeepingStage, SettleFailed, Release, Settling
<1>26. ASSUME NEW r \in Restores, StartPrevious(r) PROVE StaysStopped
  BY <1>26 DEF StartPrevious, At, SameLock, Quiet, StartServer, StartFailed
<1>27. ASSUME NEW r \in Restores, DropAside(r) PROVE StaysStopped
  BY <1>27 DEF DropAside, At, SameLock, Quiet
<1>28. ASSUME NEW r \in Restores, DropAsideRest(r) PROVE StaysStopped
  BY <1>28 DEF DropAsideRest, At, SameLock, Fault, SettleFailed, Release, Settling
<1>29. ASSUME NEW r \in Restores, DropStage(r) PROVE StaysStopped
  BY <1>29 DEF DropStage, At, SameLock, Fault, SettleFailed, Release, Settling
<1>30. ASSUME NEW r \in Restores, DropStageRest(r) PROVE StaysStopped
  BY <1>30 DEF DropStageRest, At, SameLock, Settling, Release
<1>31. ASSUME NEW r \in Restores, End(r) PROVE StaysStopped
  BY <1>31 DEF End, At, SameLock, Quiet, Release
<1>32. ASSUME NEW r \in Restores, Recover(r) PROVE StaysStopped
  BY <1>32 DEF Recover, At, Journals, SameLock, Quiet
<1>33. ASSUME NEW r \in Restores, Adopt(r) PROVE StaysStopped
  BY <1>33 DEF Adopt, At, SameLock, Quiet, Release
<1>34. ASSUME NEW r \in Restores, ForwardClear(r) PROVE StaysStopped
  BY <1>34 DEF ForwardClear, At, SameLock, Quiet, Fault, ForwardFailed
<1>35. ASSUME NEW r \in Restores, ForwardMove(r) PROVE StaysStopped
  BY <1>35 DEF ForwardMove, At, SameLock, Quiet, Fault, ForwardFailed
<1>36. ASSUME NEW r \in Restores, ForwardSave(r) PROVE StaysStopped
  BY <1>36 DEF ForwardSave, At, SameLock, Quiet, Fault, ForwardFailed
<1>37. ASSUME NEW r \in Restores, ForwardJournal(r) PROVE StaysStopped
  BY <1>37 DEF ForwardJournal, At, SameLock, Quiet, Fault, ForwardFailed
<1>38. ASSUME NEW r \in Restores, SettleSwap(r) PROVE StaysStopped
  BY <1>38 DEF SettleSwap, At, SameLock, SettleFailed, Release
<1>39. ASSUME NEW r \in Restores, Prune(r) PROVE StaysStopped
  BY <1>39 DEF Prune
<1>40. ASSUME NEW r \in Restores, StageArchive(r) PROVE StaysStopped
  BY <1>40 DEF StageArchive, Free
<1>41. ASSUME NEW r \in Restores, ApplyAsked(r) PROVE StaysStopped
  BY <1>41 DEF ApplyAsked
<1>42. ASSUME NEW r \in Restores, ApplyBusy(r) PROVE StaysStopped
  BY <1>42 DEF ApplyBusy
<1>43. ASSUME NEW r \in Restores, ApplyBegin(r) PROVE StaysStopped
  BY <1>43 DEF ApplyBegin, Free
<1>44. ASSUME NEW r \in Restores, DiscardStage(r) PROVE StaysStopped
  BY <1>44 DEF DiscardStage, Free
<1>45. ASSUME NEW r \in Restores, MoveBackByHand(r) PROVE StaysStopped
  BY <1>45 DEF MoveBackByHand, Journaled
<1>46. ASSUME NEW r \in Restores, DiscardCopy(r) PROVE StaysStopped
  BY <1>46 DEF DiscardCopy, Free, Journaled
<1>47. CASE AgentStart
  BY <1>47 DEF AgentStart
<1>48. CASE AgentUp
  BY <1>48 DEF AgentUp
<1>49. CASE AgentExit
  BY <1>49 DEF AgentExit
<1>50. CASE SettleNext
  BY <1>50 DEF SettleNext, Release, SameLock, Journaled
<1>51. CASE Halt
  BY <1>51 DEF Halt, StopServer, Fault, Cut, Release, SameLock
<1>52. CASE LaunchOwn
  BY <1>52 DEF LaunchOwn, StartServer, StartFailed, Release, SameLock,
     OwnStartFailed
<1>53. CASE AwaitOwn
  BY <1>53 DEF AwaitOwn, Release, SameLock, OwnStartFailed
<1>54. CASE GameOnline
  BY <1>54 DEF GameOnline
<1>55. CASE GameExit
  BY <1>55 DEF GameExit
<1>56. CASE SettleTick
  BY <1>56 DEF SettleTick, Free
<1>57. CASE AutoStart
  BY <1>57 DEF AutoStart, Free
<1>58. CASE StartAsked
  BY <1>58 DEF StartAsked, Free
<1>59. CASE RestartAsked
  BY <1>59 DEF RestartAsked, Free
<1>60. CASE StopAsked
  BY <1>60 DEF StopAsked, Free
<1>61. CASE Crash
  BY <1>61 DEF Crash
<1>62. CASE AgentStop
  BY <1>62 DEF AgentStop
<1>63. CASE UNCHANGED vars
  BY <1>63 DEF vars
<1> HIDE DEF TypeInv, TypeOK, JournalHeld, JournalSteps, LockInv, RestoreOnly,
        Restoring, Settling, MovedInv, StaysStopped, Journaled, HadLive, Free,
        worlds, stages, conts, locks, notes, hist
<1>64. ASSUME NEW r \in Restores, RestoreStep(r) PROVE StaysStopped
  BY <1>64, <1>1, <1>2, <1>3, <1>4, <1>5, <1>6, <1>7, <1>8, <1>9, <1>10,
     <1>11, <1>12, <1>13, <1>14, <1>15, <1>16, <1>17, <1>18, <1>19, <1>20,
     <1>21, <1>22, <1>23, <1>24, <1>25, <1>26, <1>27, <1>28, <1>29, <1>30,
     <1>31, <1>32, <1>33, <1>34, <1>35, <1>36, <1>37, <1>38
  DEF RestoreStep
<1>65. CASE AgentStep
  BY <1>65, <1>39, <1>47, <1>48, <1>49, <1>50, <1>51, <1>52, <1>53, <1>64
  DEF AgentStep
<1>. QED
  BY <1>40, <1>41, <1>42, <1>43, <1>44, <1>45, <1>46, <1>54, <1>55, <1>56,
     <1>57, <1>58, <1>59, <1>60, <1>61, <1>62, <1>63, <1>65
  DEF Next

(* RestoresApart, for any number of restores: none begins to swap worlds   *)
(* while another's journal is kept (OneUnsettled), and the restore of a    *)
(* server moved in that stays stopped never starts it                      *)
(* (MovedInStaysStopped), whatever steps fail and however often the agent  *)
(* dies, stops or discards stages late; if what a restore's request was    *)
(* told still holds when its operation begins, or there is one restore.    *)
THEOREM RestoresStayApart == ASSUME Apart PROVE Spec => RestoresApart
<1>1. ASSUME TypeInv, HoldInv PROVE OneUnsettled
  <2>1. CASE Journaled = {}
    BY <2>1, FS_EmptySet DEF OneUnsettled
  <2>2. CASE Journaled # {}
    <3>1. PICK r \in Journaled : Journaled = {r}
      BY <1>1, <2>2 DEF HoldInv
    <3>2. Cardinality(Journaled) = 1
      BY <3>1, FS_Singleton
    <3>. QED
      BY <3>2 DEF OneUnsettled
  <2>. QED
    BY <2>1, <2>2
<1>2. TypeInv /\ LockInv /\ MovedInv /\ [Next]_vars =>
        [StaysStopped]_vars
  BY MovedStays
<1>. QED
  BY Apart, <1>1, <1>2, TypeInit, TypeNext, LockInit, LockNext, HoldInit, HoldNext,
     MovedInit, MovedNext, PTL
  DEF Spec, RestoresApart, MovedInStaysStopped, StaysStopped

-----------------------------------------------------------------------------
(* What is set aside is the world that its restore found and archived.     *)
AsideInv ==
    /\ \A q \in Restores : aside[q] # None => aside[q] = was[q]
    /\ \A q \in Restores : op[q] = "none" => aside[q] = None /\ was[q] = None
    /\ pc \in {"stop", "rollback", "journal"} => aside[cur] = None
    /\ pc = "journal" /\ asked[cur] = "world" => live \in rollback
    /\ \A q \in Restores : asked[q] = "world" /\ was[q] # None
          => was[q] \in rollback
    /\ pc = "aside" => live = was[cur] /\ live # None
    /\ pc \in {"dropAside", "dropAside2"} /\ Restoring => ~Forward(cur)
    /\ pc \in {"fwd1", "fwd2"} => journal[cur].state = "moving"
    /\ pc \in {"moveIn", "undo1", "putBack1", "rescue", "fwd2", "putBack2",
               "back2"} => live = None
    /\ \A q \in Restores : op[q] = "running" /\ Forward(q) /\ HadLive(q) =>
          \/ live = was[q] /\ live # None /\ aside[q] = None
          \/ live = None /\ aside[q] = was[q] /\ aside[q] # None

LEMMA AsideInit == Init => AsideInv
BY RestoresAssumption DEF Init, AsideInv, Forward, HadLive

LEMMA AsideNext ==
    TypeInv /\ LockInv /\ BoxInv /\ HoldInv /\ AsideInv /\ [Next]_vars => AsideInv'
<1> SUFFICES ASSUME TypeInv, LockInv, BoxInv, HoldInv, AsideInv, [Next]_vars
             PROVE AsideInv'
  OBVIOUS
<1> USE RestoresAssumption
    DEF TypeInv, TypeOK, JournalHeld, JournalSteps, LockInv, RestoreOnly,
        Restoring, Settling, BoxInv, Forward, StoppedSteps, HoldInv, AsideInv,
        Journaled, HadLive, Free,
        worlds, stages, conts, locks, notes, hist
<1>1. ASSUME NEW r \in Restores, Stop(r) PROVE AsideInv'
  BY <1>1 DEF Stop, At, SameLock, Quiet, StopServer, Fault, Cut, Release
<1>2. ASSUME NEW r \in Restores, SaveRollback(r) PROVE AsideInv'
  BY <1>2 DEF SaveRollback, At, SameLock
<1>3. ASSUME NEW r \in Restores, WriteJournal(r) PROVE AsideInv'
  <2>1. CASE UNCHANGED <<journal, was>>
    BY <1>3, <2>1 DEF WriteJournal, At, SameLock, Fault
  <2> DEFINE j == [state |-> "moving", hadLive |-> live # None, prev |-> settings]
  <2>2. CASE /\ journal' = [journal EXCEPT ![r] = j]
             /\ was' = [was EXCEPT ![r] = live]
             /\ pc' = IF live # None THEN "aside" ELSE "moveIn"
    <3>1. /\ r \in Restores /\ aside[r] = None /\ cur = r /\ pc = "journal"
          /\ journal[r] = NoJournal
      BY <1>3 DEF WriteJournal, At
    <3>2. UNCHANGED <<live, aside, staged, op, asked, rollback, kind, cur>>
      BY <1>3 DEF WriteJournal, SameLock
    <3>3. /\ was'[r] = live /\ journal'[r] = j
          /\ \A q \in Restores \ {r} : was'[q] = was[q] /\ journal'[q] = journal[q]
      BY <2>2
    <3>4. j.hadLive <=> live # None
      OBVIOUS
    <3> HIDE DEF j
    <3>5. ASSUME NEW q \in Restores
          PROVE  /\ aside'[q] # None => aside'[q] = was'[q]
                 /\ op'[q] = "none" => aside'[q] = None /\ was'[q] = None
                 /\ asked'[q] = "world" /\ was'[q] # None => was'[q] \in rollback'
                 /\ op'[q] = "running" /\ Forward(q)' /\ HadLive(q)' =>
                      \/ live' = was'[q] /\ live' # None /\ aside'[q] = None
                      \/ live' = None /\ aside'[q] = was'[q] /\ aside'[q] # None
      BY <3>1, <3>2, <3>3, <3>4
    <3>. QED
      BY <2>2, <3>1, <3>2, <3>3, <3>5
  <2>. QED
    BY <1>3, <2>1, <2>2 DEF WriteJournal
<1>4. ASSUME NEW r \in Restores, GiveUp(r) PROVE AsideInv'
  BY <1>4 DEF GiveUp, At, SameLock, Quiet, StartServer, StartFailed
<1>5. ASSUME NEW r \in Restores, AwaitPrevious(r) PROVE AsideInv'
  BY <1>5 DEF AwaitPrevious, At, SameLock, Quiet
<1>6. ASSUME NEW r \in Restores, SetAside(r) PROVE AsideInv'
  BY <1>6 DEF SetAside, At, SameLock, Quiet, Fault
<1>7. ASSUME NEW r \in Restores, MoveIn(r) PROVE AsideInv'
  BY <1>7 DEF MoveIn, At, SameLock, Quiet, Fault
<1>8. ASSUME NEW r \in Restores, UndoMoveIn(r) PROVE AsideInv'
  <2>1. CASE journal' = journal
    BY <1>8, <2>1 DEF UndoMoveIn, At, SameLock, Undoing, Quiet, HadLive, Fault
  <2>2. CASE journal' = [journal EXCEPT ![r].state = "reverting"]
    <3>1. journal[r] # NoJournal
      BY <1>8 DEF UndoMoveIn, At, Undoing
    <3>2. /\ journal'[r].state = "reverting"
          /\ journal'[r].hadLive = journal[r].hadLive
          /\ journal'[r].prev = journal[r].prev
          /\ journal'[r] # NoJournal
          /\ \A q \in Restores \ {r} : journal'[q] = journal[q]
      BY <2>2, <3>1, JournalRewritten
    <3>. QED
      BY <1>8, <3>1, <3>2 DEF UndoMoveIn, At, SameLock, Undoing, Quiet, HadLive,
         Fault
  <2>. QED
    BY <1>8, <2>1, <2>2 DEF UndoMoveIn, Undoing
<1>9. ASSUME NEW r \in Restores, PutBackUnmoved(r) PROVE AsideInv'
  BY <1>9 DEF PutBackUnmoved, At, SameLock, Quiet, Fault
<1>10. ASSUME NEW r \in Restores, RescueStaged(r) PROVE AsideInv'
  BY <1>10 DEF RescueStaged, At, SameLock, Quiet, Fault, FailKeepingStage
<1>11. ASSUME NEW r \in Restores, SaveRestored(r) PROVE AsideInv'
  BY <1>11 DEF SaveRestored, At, SameLock, Quiet, Fault
<1>12. ASSUME NEW r \in Restores, JournalChecking(r) PROVE AsideInv'
  <2>1. CASE journal' = journal
    BY <1>12, <2>1 DEF JournalChecking, At, SameLock, Quiet, Fault
  <2>2. CASE journal' = [journal EXCEPT ![r].state = "checking"]
    <3>1. journal[r] # NoJournal
      BY <1>12 DEF JournalChecking, At
    <3>2. /\ journal'[r].state = "checking"
          /\ journal'[r].hadLive = journal[r].hadLive
          /\ journal'[r].prev = journal[r].prev
          /\ journal'[r] # NoJournal
          /\ \A q \in Restores \ {r} : journal'[q] = journal[q]
      BY <2>2, <3>1, JournalRewritten
    <3>. QED
      BY <1>12, <3>1, <3>2 DEF JournalChecking, At, SameLock, Quiet, Fault
  <2>. QED
    BY <1>12, <2>1, <2>2 DEF JournalChecking
<1>13. ASSUME NEW r \in Restores, UnsaveRestored(r) PROVE AsideInv'
  BY <1>13 DEF UnsaveRestored, At, SameLock, Quiet, Fault
<1>14. ASSUME NEW r \in Restores, UndoSettings(r) PROVE AsideInv'
  <2>1. CASE journal' = journal
    BY <1>14, <2>1 DEF UndoSettings, At, SameLock, Undoing, Quiet, HadLive, Fault
  <2>2. CASE journal' = [journal EXCEPT ![r].state = "reverting"]
    <3>1. journal[r] # NoJournal
      BY <1>14 DEF UndoSettings, At, Undoing
    <3>2. /\ journal'[r].state = "reverting"
          /\ journal'[r].hadLive = journal[r].hadLive
          /\ journal'[r].prev = journal[r].prev
          /\ journal'[r] # NoJournal
          /\ \A q \in Restores \ {r} : journal'[q] = journal[q]
      BY <2>2, <3>1, JournalRewritten
    <3>. QED
      BY <1>14, <3>1, <3>2 DEF UndoSettings, At, SameLock, Undoing, Quiet, HadLive,
         Fault
  <2>. QED
    BY <1>14, <2>1, <2>2 DEF UndoSettings, Undoing
<1>15. ASSUME NEW r \in Restores, ClearLive(r) PROVE AsideInv'
  BY <1>15 DEF ClearLive, At, SameLock, Quiet, Fault, FailKeepingStage
<1>16. ASSUME NEW r \in Restores, PutBackMoved(r) PROVE AsideInv'
  BY <1>16 DEF PutBackMoved, At, SameLock, Quiet, Fault, FailKeepingStage
<1>17. ASSUME NEW r \in Restores, DropFailed(r) PROVE AsideInv'
  BY <1>17 DEF DropFailed, At, SameLock, Quiet
<1>18. ASSUME NEW r \in Restores, Launch(r) PROVE AsideInv'
  BY <1>18 DEF Launch, At, SameLock, StartServer, StartFailed, FinishFailed, Release
<1>19. ASSUME NEW r \in Restores, Await(r) PROVE AsideInv'
  BY <1>19 DEF Await, At, SameLock, Quiet, FinishFailed, Release
<1>20. ASSUME NEW r \in Restores, Keep(r) PROVE AsideInv'
  <2>1. CASE journal' = journal
    BY <1>20, <2>1 DEF Keep, At, SameLock, Quiet, Fault
  <2>2. CASE journal' = [journal EXCEPT ![r].state = "kept"]
    <3>1. journal[r] # NoJournal
      BY <1>20 DEF Keep, At
    <3>2. /\ journal'[r].state = "kept" /\ journal'[r].hadLive = journal[r].hadLive
          /\ journal'[r].prev = journal[r].prev
          /\ journal'[r] # NoJournal
          /\ \A q \in Restores \ {r} : journal'[q] = journal[q]
      BY <2>2, <3>1, JournalRewritten
    <3>. QED
      BY <1>20, <3>1, <3>2 DEF Keep, At, SameLock, Quiet, Fault
  <2>. QED
    BY <1>20, <2>1, <2>2 DEF Keep
<1>21. ASSUME NEW r \in Restores, Revert(r) PROVE AsideInv'
  <2>1. CASE journal' = journal
    BY <1>21, <2>1 DEF Revert, At, SameLock, Quiet, Fault, FailKeepingStage
  <2>2. CASE journal' = [journal EXCEPT ![r].state = "reverting"]
    <3>1. journal[r] # NoJournal
      BY <1>21 DEF Revert, At
    <3>2. /\ journal'[r].state = "reverting"
          /\ journal'[r].hadLive = journal[r].hadLive
          /\ journal'[r].prev = journal[r].prev
          /\ journal'[r] # NoJournal
          /\ \A q \in Restores \ {r} : journal'[q] = journal[q]
      BY <2>2, <3>1, JournalRewritten
    <3>. QED
      BY <1>21, <3>1, <3>2 DEF Revert, At, SameLock, Quiet, Fault, FailKeepingStage
  <2>. QED
    BY <1>21, <2>1, <2>2 DEF Revert, FailKeepingStage
<1>22. ASSUME NEW r \in Restores, RevertStop(r) PROVE AsideInv'
  BY <1>22 DEF RevertStop, At, SameLock, Quiet, StopServer, Fault, Cut, Release,
     FailKeepingStage
<1>23. ASSUME NEW r \in Restores, BackClear(r) PROVE AsideInv'
  BY <1>23 DEF BackClear, At, SameLock, Fault, PutPreviousBack, BackFailed,
     FailKeepingStage, SettleFailed, Release, Settling
<1>24. ASSUME NEW r \in Restores, BackMove(r) PROVE AsideInv'
  BY <1>24 DEF BackMove, At, SameLock, Fault, PutPreviousBack, BackFailed,
     FailKeepingStage, SettleFailed, Release, Settling
<1>25. ASSUME NEW r \in Restores, BackSave(r) PROVE AsideInv'
  BY <1>25 DEF BackSave, At, SameLock, Fault, PutPreviousBack, BackFailed,
     FailKeepingStage, SettleFailed, Release, Settling
<1>26. ASSUME NEW r \in Restores, StartPrevious(r) PROVE AsideInv'
  BY <1>26 DEF StartPrevious, At, SameLock, Quiet, StartServer, StartFailed
<1>27. ASSUME NEW r \in Restores, DropAside(r) PROVE AsideInv'
  BY <1>27 DEF DropAside, At, SameLock, Quiet
<1>28. ASSUME NEW r \in Restores, DropAsideRest(r) PROVE AsideInv'
  BY <1>28 DEF DropAsideRest, At, SameLock, Fault, SettleFailed, Release, Settling
<1>29. ASSUME NEW r \in Restores, DropStage(r) PROVE AsideInv'
  BY <1>29 DEF DropStage, At, SameLock, Fault, SettleFailed, Release, Settling
<1>30. ASSUME NEW r \in Restores, DropStageRest(r) PROVE AsideInv'
  BY <1>30 DEF DropStageRest, At, SameLock, Settling, Release
<1>31. ASSUME NEW r \in Restores, End(r) PROVE AsideInv'
  BY <1>31 DEF End, At, SameLock, Quiet, Release
<1>32. ASSUME NEW r \in Restores, Recover(r) PROVE AsideInv'
  BY <1>32 DEF Recover, At, Journals, SameLock, Quiet
<1>33. ASSUME NEW r \in Restores, Adopt(r) PROVE AsideInv'
  BY <1>33 DEF Adopt, At, SameLock, Quiet, Release
<1>34. ASSUME NEW r \in Restores, ForwardClear(r) PROVE AsideInv'
  <2>1. r = cur /\ pc = "fwd1" /\ SameLock /\ Quiet
        /\ UNCHANGED <<failed, staged, broken, stages, settings, op, conts>>
    BY <1>34 DEF ForwardClear, At
  <2>2. CASE UNCHANGED <<live, aside>>
    BY <1>34, <2>1, <2>2 DEF ForwardClear, SameLock, Quiet, ForwardFailed
  <2>3. CASE /\ staged[r] # None /\ live # None /\ HadLive(r) /\ aside[r] = None
             /\ pc' = "fwd2" /\ aside' = [aside EXCEPT ![r] = live] /\ live' = None
    <3>1. aside'[r] = live /\ \A q \in Restores \ {r} : aside'[q] = aside[q]
      BY <2>3
    <3>2. live = was[r]
      BY <2>1, <2>3
    <3>. QED
      BY <2>1, <2>3, <3>1, <3>2 DEF SameLock, Quiet
  <2>. QED
    BY <1>34, <2>1, <2>2, <2>3 DEF ForwardClear
<1>35. ASSUME NEW r \in Restores, ForwardMove(r) PROVE AsideInv'
  BY <1>35 DEF ForwardMove, At, SameLock, Quiet, Fault, ForwardFailed
<1>36. ASSUME NEW r \in Restores, ForwardSave(r) PROVE AsideInv'
  BY <1>36 DEF ForwardSave, At, SameLock, Quiet, Fault, ForwardFailed
<1>37. ASSUME NEW r \in Restores, ForwardJournal(r) PROVE AsideInv'
  <2>1. CASE journal' = journal
    BY <1>37, <2>1 DEF ForwardJournal, At, SameLock, Quiet, Fault, ForwardFailed
  <2>2. CASE journal' = [journal EXCEPT ![r].state = "checking"]
    <3>1. journal[r] # NoJournal
      BY <1>37 DEF ForwardJournal, At
    <3>2. /\ journal'[r].state = "checking"
          /\ journal'[r].hadLive = journal[r].hadLive
          /\ journal'[r].prev = journal[r].prev
          /\ journal'[r] # NoJournal
          /\ \A q \in Restores \ {r} : journal'[q] = journal[q]
      BY <2>2, <3>1, JournalRewritten
    <3>. QED
      BY <1>37, <3>1, <3>2 DEF ForwardJournal, At, SameLock, Quiet, Fault,
         ForwardFailed
  <2>. QED
    BY <1>37, <2>1, <2>2 DEF ForwardJournal, ForwardFailed
<1>38. ASSUME NEW r \in Restores, SettleSwap(r) PROVE AsideInv'
  BY <1>38 DEF SettleSwap, At, SameLock, SettleFailed, Release
<1>39. ASSUME NEW r \in Restores, Prune(r) PROVE AsideInv'
  BY <1>39 DEF Prune
<1>40. ASSUME NEW r \in Restores, StageArchive(r) PROVE AsideInv'
  BY <1>40 DEF StageArchive, Free
<1>41. ASSUME NEW r \in Restores, ApplyAsked(r) PROVE AsideInv'
  BY <1>41 DEF ApplyAsked
<1>42. ASSUME NEW r \in Restores, ApplyBusy(r) PROVE AsideInv'
  BY <1>42 DEF ApplyBusy
<1>43. ASSUME NEW r \in Restores, ApplyBegin(r) PROVE AsideInv'
  BY <1>43 DEF ApplyBegin, Free
<1>44. ASSUME NEW r \in Restores, DiscardStage(r) PROVE AsideInv'
  BY <1>44 DEF DiscardStage, Free
<1>45. ASSUME NEW r \in Restores, MoveBackByHand(r) PROVE AsideInv'
  BY <1>45 DEF MoveBackByHand, Journaled
<1>46. ASSUME NEW r \in Restores, DiscardCopy(r) PROVE AsideInv'
  BY <1>46 DEF DiscardCopy, Free, Journaled
<1>47. CASE AgentStart
  BY <1>47 DEF AgentStart
<1>48. CASE AgentUp
  BY <1>48 DEF AgentUp
<1>49. CASE AgentExit
  BY <1>49 DEF AgentExit
<1>50. CASE SettleNext
  BY <1>50 DEF SettleNext, Release, SameLock, Journaled
<1>51. CASE Halt
  BY <1>51 DEF Halt, StopServer, Fault, Cut, Release, SameLock
<1>52. CASE LaunchOwn
  BY <1>52 DEF LaunchOwn, StartServer, StartFailed, Release, SameLock,
     OwnStartFailed
<1>53. CASE AwaitOwn
  BY <1>53 DEF AwaitOwn, Release, SameLock, OwnStartFailed
<1>54. CASE GameOnline
  BY <1>54 DEF GameOnline
<1>55. CASE GameExit
  BY <1>55 DEF GameExit
<1>56. CASE SettleTick
  BY <1>56 DEF SettleTick, Free
<1>57. CASE AutoStart
  BY <1>57 DEF AutoStart, Free
<1>58. CASE StartAsked
  BY <1>58 DEF StartAsked, Free
<1>59. CASE RestartAsked
  BY <1>59 DEF RestartAsked, Free
<1>60. CASE StopAsked
  BY <1>60 DEF StopAsked, Free
<1>61. CASE Crash
  BY <1>61 DEF Crash
<1>62. CASE AgentStop
  BY <1>62 DEF AgentStop
<1>63. CASE UNCHANGED vars
  BY <1>63 DEF vars
<1> HIDE DEF TypeInv, TypeOK, JournalHeld, JournalSteps, LockInv, RestoreOnly,
        Restoring, Settling, BoxInv, Forward, StoppedSteps, HoldInv, AsideInv,
        Journaled, HadLive, Free,
        worlds, stages, conts, locks, notes, hist
<1>64. ASSUME NEW r \in Restores, RestoreStep(r) PROVE AsideInv'
  BY <1>64, <1>1, <1>2, <1>3, <1>4, <1>5, <1>6, <1>7, <1>8, <1>9, <1>10,
     <1>11, <1>12, <1>13, <1>14, <1>15, <1>16, <1>17, <1>18, <1>19, <1>20,
     <1>21, <1>22, <1>23, <1>24, <1>25, <1>26, <1>27, <1>28, <1>29, <1>30,
     <1>31, <1>32, <1>33, <1>34, <1>35, <1>36, <1>37, <1>38
  DEF RestoreStep
<1>65. CASE AgentStep
  BY <1>65, <1>39, <1>47, <1>48, <1>49, <1>50, <1>51, <1>52, <1>53, <1>64
  DEF AgentStep
<1>. QED
  BY <1>40, <1>41, <1>42, <1>43, <1>44, <1>45, <1>46, <1>54, <1>55, <1>56,
     <1>57, <1>58, <1>59, <1>60, <1>61, <1>62, <1>63, <1>65
  DEF Next

(* AsideArchived, for any number of restores: what a restore has set aside *)
(* has a verified rollback archive if its request saw a world, whatever    *)
(* steps fail and however often the agent dies and resumes the swap.       *)
THEOREM WhatIsAsideIsArchived == ASSUME Apart PROVE Spec => []AsideArchived
<1>1. TypeInv /\ AsideInv => AsideArchived
  BY DEF AsideInv, AsideArchived
<1>. QED
  BY Apart, <1>1, TypeInit, TypeNext, LockInit, LockNext, BoxInit, BoxNext, HoldInit,
     HoldNext, AsideInit, AsideNext, PTL DEF Spec

-----------------------------------------------------------------------------
(* What a restore promises about worlds and settings together.             *)

(* One step fails at most, and no stage is discarded once its restore was  *)
(* applied: with a second failing step, or such a discard, the code does   *)
(* break the promises below.                                               *)
OneFault == MaxFaults <= 1 /\ ~LateDiscard

(* w may be run with the settings c. *)
Matches(w, c) == \/ w \in {None, Fresh, c}
                 \/ \E q \in Restores : w = q /\ was[q] = None /\ op[q] = "failed"
NoneAside == \A q \in Restores : aside[q] = None

(* Where a restore's journal and world are: nothing was replaced, all of   *)
(* it was, and either of them or what is left for want of another world.   *)
In(q, states) == journal[q].state \in states
Back(q) == live = was[q] /\ settings = journal[q].prev
There(q) == live = q /\ settings = q
Over(q) == Back(q) \/ There(q) \/ (~HadLive(q) /\ live = q /\ op[q] = "failed")

(* What a kept journal says of the folders and the settings. *)
Journal(q) ==
    /\ HadLive(q) <=> was[q] # None
    /\ ~HadLive(q) => NoneAside
    /\ Matches(was[q], journal[q].prev)
    /\ settings \in {journal[q].prev, q}
    /\ In(q, {"checking", "kept"}) => There(q) /\ staged[q] = None
    /\ In(q, {"checking"}) /\ HadLive(q) => aside[q] = was[q]
    /\ In(q, {"kept"}) => Restored(q)
    /\ op[q] = "succeeded" => In(q, {"checking", "kept"})

(* Before the swap is through, or while it is undone, each world is in one *)
(* of a few places, and the settings are the previous ones until the       *)
(* restored world has left its stage.                                      *)
Unswapped(q) ==
    /\ staged[q] # None => settings = journal[q].prev
    /\ HadLive(q) /\ staged[q] # None => \/ live = was[q] /\ aside[q] = None
                                         \/ live = None /\ aside[q] = was[q]
    /\ HadLive(q) /\ staged[q] = None => \/ live = q /\ aside[q] = was[q]
                                         \/ live = None /\ aside[q] = was[q]
                                         \/ live = was[q] /\ aside[q] = None
    /\ In(q, {"moving"}) /\ HadLive(q) /\ staged[q] = None /\ op[q] = "running"
          => live = q
    /\ ~HadLive(q) /\ staged[q] # None => live = None
    /\ ~HadLive(q) /\ staged[q] = None => live = q \/ Back(q)

JournalsInv ==
    \A q \in Journaled :
        Journal(q) /\ (In(q, {"moving", "reverting"}) => Unswapped(q))

(* What holds without a journal, of requests, and of stages left settled.  *)
RestInv ==
    /\ Journaled = {} => Matches(live, settings) /\ (live = None => NoneAside)
    /\ \A q \in Restores :
          /\ staged[q] \in {q, None}
          /\ op[q] = "none" => /\ asked[q] # "no" => stage[q]
                               /\ stage[q] => staged[q] = q
          /\ op[q] = "running" /\ journal[q] = NoJournal /\ staged[q] # None
                => was[q] = None
    /\ \A q \in settled : /\ op[q] \notin {"none", "running"}
                          /\ q \in Journaled => Over(q) /\ live # None
    /\ agent = "starting" =>
          /\ settled = {} /\ kind \in {"none", "prune"}
          /\ \A q \in Restores : op[q] = "none" => asked[q] = "no"
    /\ box = "online" => ran.world \in played

(* A restored world leaves its stage for good, and replaces another one. *)
PlaceInv ==
    \A q \in Restores :
        /\ live = q => op[q] # "none" /\ staged[q] = None
        /\ \A p \in Restores : was[p] = q => op[q] # "none" /\ staged[q] = None
        /\ was[q] # q

(* What each step of a restore or a settle finds. *)
StepsInv ==
    /\ pc \in {"stop", "rollback", "journal"}
          => staged[cur] = cur /\ (wasUp => live # None)
    /\ pc \in {"stop", "rollback", "journal", "giveUp", "aside", "moveIn", "undo1",
               "putBack1", "save", "check", "unsave", "undo2", "clear", "putBack2",
               "dropFailed"}
          => kind = "restore" /\ (cur \in Journaled /\ wasUp => HadLive(cur))
    /\ pc = "aside" => In(cur, {"moving"}) /\ HadLive(cur) /\ staged[cur] = cur
    /\ pc = "moveIn" => In(cur, {"moving"}) /\ staged[cur] = cur
    /\ pc \in {"undo1", "putBack1"} =>
          In(cur, {"moving", "reverting"}) /\ HadLive(cur) /\ staged[cur] = cur
    /\ pc # "rescue"
    /\ pc \in {"undo1", "putBack1", "unsave", "undo2", "clear", "putBack2"}
          => faults = MaxFaults
    /\ pc \in {"save", "check", "unsave", "undo2", "fwdSave", "fwdJournal"}
          => In(cur, {"moving"}) /\ staged[cur] = None /\ live = cur
    /\ pc = "clear" => live = cur
    /\ pc \in {"clear", "putBack2"} =>
          /\ staged[cur] = None
          /\ In(cur, IF HadLive(cur) THEN {"reverting"} ELSE {"moving"})
    /\ pc \in {"save", "undo2", "clear", "putBack2"} => settings = journal[cur].prev
    /\ pc \in {"check", "fwdJournal"} => settings = cur
    /\ pc \in {"dropFailed", "startPrev"} =>
          Back(cur) /\ In(cur, {"moving", "reverting"})
    /\ pc \in {"giveUp", "awaitPrev"} /\ cur \in Journaled => Back(cur)
    /\ pc \in {"launch", "await", "keep"} => In(cur, {"checking"})
    /\ pc = "keep" => Restored(cur)
    /\ pc = "revert" => /\ In(cur, {"moving", "checking", "reverting"})
                        /\ result = "failed"
    /\ pc \in {"revStop", "back1", "back2", "back3"} =>
          In(cur, {"moving", "reverting"}) /\ HadLive(cur)
    /\ Restoring /\ pc \in {"revStop", "back1", "back2", "back3", "startPrev"}
          => In(cur, {"reverting"})
    /\ pc \in {"settle1", "back1"} => cur \notin settled
    /\ pc = "back2" => aside[cur] = was[cur]
    /\ pc = "back3" => live = was[cur] /\ aside[cur] = None
    /\ pc \in {"drop", "drop2"} /\ cur \in Journaled => Over(cur)
    /\ pc \in {"dropAside", "dropAside2"} => In(cur, {"kept"})
    /\ pc = "fwd2" => staged[cur] = cur
    /\ kind \in {"settle", "start"} =>
          /\ pc \in {"settle", "settle1", "drop", "drop2", "dropAside", "dropAside2"}
                => live # None
          /\ pc \in {"settle1", "drop", "drop2", "dropAside", "dropAside2"}
                => op[cur] # "none"
    /\ Restoring /\ pc # "recover" /\ result = "succeeded" =>
          /\ There(cur) /\ Restored(cur)
          /\ cur \in Journaled => In(cur, {"checking", "kept"})

LEMMA SwapInit == Init => JournalsInv /\ RestInv /\ PlaceInv /\ StepsInv
<1> SUFFICES ASSUME Init PROVE JournalsInv /\ RestInv /\ PlaceInv /\ StepsInv
  OBVIOUS
<1>1. Journaled = {} /\ NoneAside
  BY DEF Init, Journaled, NoneAside
<1>2. JournalsInv
  BY <1>1 DEF JournalsInv
<1>3. Matches(live, settings)
  BY DEF Init, Matches
<1>4. RestInv
  BY <1>1, <1>3 DEF Init, RestInv
<1>5. PlaceInv
  BY RestoresAssumption DEF Init, PlaceInv
<1>6. StepsInv
  BY <1>1, RestoresAssumption DEF Init, StepsInv, Restoring
<1>. QED
  BY <1>2, <1>4, <1>5, <1>6

LEMMA RestNext ==
    ASSUME OneFault, TypeInv, LockInv, BoxInv, HoldInv, MovedInv, AsideInv,
           JournalsInv, RestInv, PlaceInv, StepsInv, [Next]_vars
    PROVE  RestInv'
<1>0. ASSUME pc \in RestoreOnly \/ Restoring
      PROVE  /\ Restoring /\ cur \in Restores /\ op[cur] = "running"
             /\ cur \notin settled
             /\ Journaled \subseteq {cur}
  <2>1. Restoring
    BY <1>0 DEF LockInv
  <2>2. cur \in Restores /\ op[cur] = "running"
    BY <2>1 DEF LockInv
  <2>3. Journaled \subseteq {cur}
    BY <2>2 DEF HoldInv
  <2>4. cur \notin settled
    BY <2>2 DEF RestInv
  <2>. QED
    BY <2>1, <2>2, <2>3, <2>4
<1>30. ASSUME NEW r \in Restores, DropStageRest(r) PROVE RestInv'
  <2>1. /\ cur = r /\ pc = "drop2"
        /\ UNCHANGED <<live, aside, failed, broken, settings, op, asked, was, played,
                       box, ran>>
        /\ stage' = [stage EXCEPT ![r] = FALSE]
        /\ journal' = [journal EXCEPT ![r] = NoJournal]
        /\ staged' = [staged EXCEPT ![r] = None] /\ settled' = settled \ {r}
        /\ UNCHANGED agent
        /\ kind' = kind \/ kind' = "none"
    BY <1>30 DEF DropStageRest, At, SameLock, Release, locks, hist, conts
  <2>2. /\ Journaled' = Journaled \ {r}
        /\ \A q \in Restores \ {r} : /\ journal'[q] = journal[q]
                                     /\ stage'[q] = stage[q]
                                     /\ staged'[q] = staged[q]
        /\ journal'[r] = NoJournal /\ ~stage'[r] /\ staged'[r] = None
    BY <2>1 DEF TypeInv, TypeOK, Journaled
  <2>3. Journaled' = {} => Matches(live, settings) /\ (live = None => NoneAside)
    <3>1. CASE r \in Journaled
      <4>1. Over(r) /\ Journal(r)
        BY <2>1, <3>1 DEF StepsInv, JournalsInv
      <4>2. live # None => Matches(live, settings)
        BY <3>1, <4>1 DEF Over, Back, There, Journal, Matches, Journaled
      <4>3. live = None => Matches(live, settings) /\ NoneAside
        BY <3>1, <4>1, RestoresAssumption DEF Over, Back, There, Journal, Matches,
           Journaled
      <4>. QED
        BY <4>2, <4>3
    <3>2. CASE r \notin Journaled
      BY <2>2, <3>2 DEF RestInv
    <3>. QED
      BY <3>1, <3>2
  <2>4. /\ (Matches(live, settings) => Matches(live, settings)')
        /\ (NoneAside => NoneAside')
    BY <2>1 DEF Matches, NoneAside
  <2>5. op[r] = "none" => asked[r] = "no"
    BY <2>1 DEF RestInv, StepsInv, LockInv, HoldInv, Restoring, Settling
  <2>6. ASSUME NEW q \in Restores
        PROVE  /\ staged'[q] \in {q, None}
               /\ op'[q] = "none" => /\ asked'[q] # "no" => stage'[q]
                                     /\ stage'[q] => staged'[q] = q
               /\ op'[q] = "running" /\ journal'[q] = NoJournal /\ staged'[q] # None
                     => was'[q] = None
    BY <2>1, <2>2, <2>5 DEF RestInv
  <2>7. ASSUME NEW q \in settled'
        PROVE  /\ op'[q] \notin {"none", "running"}
               /\ (q \in Journaled' => Over(q)' /\ live' # None)
    <3>1. q \in settled /\ q \in Restores /\ q # r
      BY <2>1 DEF TypeInv, TypeOK
    <3>2. /\ op[q] \notin {"none", "running"}
          /\ (q \in Journaled => Over(q) /\ live # None)
      BY <3>1 DEF RestInv
    <3>3. Over(q) => Over(q)'
      BY <2>1, <2>2, <3>1 DEF Over, Back, There, HadLive
    <3>. QED
      BY <2>1, <2>2, <3>1, <3>2, <3>3
  <2>. QED
    BY <2>1, <2>3, <2>4, <2>6, <2>7 DEF RestInv
<1>31. ASSUME NEW r \in Restores, End(r) PROVE RestInv'
  <2>1. /\ op[r] = "running" /\ op' = [op EXCEPT ![r] = result]
        /\ result \in {"succeeded", "failed"}
        /\ UNCHANGED <<live, aside, failed, staged, stage, journal, settings, asked,
                       settled, agent, was, played, box, ran>>
        /\ r \notin settled /\ kind' = "none"
    BY <1>31, <1>0 DEF End, At, Release, Quiet, TypeInv, TypeOK, RestoreOnly,
       worlds, stages, hist, conts
  <2>2. \A q \in Restores \ {r} : op'[q] = op[q]
    BY <2>1
  <2>3. op'[r] \in {"succeeded", "failed"}
    BY <2>1 DEF TypeInv, TypeOK
  <2>4. /\ (Matches(live, settings) => Matches(live, settings)')
        /\ (NoneAside => NoneAside') /\ Journaled' = Journaled
    BY <2>1, <2>2 DEF Matches, NoneAside, Journaled
  <2>5. ASSUME NEW q \in Restores
        PROVE  /\ staged'[q] \in {q, None}
               /\ op'[q] = "none" => /\ asked'[q] # "no" => stage'[q]
                                     /\ stage'[q] => staged'[q] = q
               /\ op'[q] = "running" /\ journal'[q] = NoJournal /\ staged'[q] # None
                     => was'[q] = None
    BY <2>1, <2>2, <2>3 DEF RestInv
  <2>6. ASSUME NEW q \in settled'
        PROVE  /\ op'[q] \notin {"none", "running"}
               /\ (q \in Journaled' => Over(q)' /\ live' # None)
    <3>1. q \in settled /\ q \in Restores /\ q # r
      BY <2>1 DEF TypeInv, TypeOK
    <3>2. /\ op[q] \notin {"none", "running"}
          /\ (q \in Journaled => Over(q) /\ live # None)
      BY <3>1 DEF RestInv
    <3>3. Over(q) => Over(q)'
      BY <2>1, <2>2, <3>1 DEF Over, Back, There, HadLive
    <3>. QED
      BY <2>1, <2>2, <2>4, <3>1, <3>2, <3>3
  <2>. QED
    BY <2>1, <2>4, <2>5, <2>6 DEF RestInv
<1> USE RestoresAssumption
    DEF TypeInv, TypeOK, JournalHeld, JournalSteps, LockInv, RestoreOnly,
        Restoring, Settling, BoxInv, RunsInPlace, Forward, StoppedSteps,
        HoldInv, MovedInv, AsideInv, JournalsInv, RestInv, PlaceInv, StepsInv,
        Journal, Unswapped, Over, Back, There, In, Matches, NoneAside, Restored,
        OneFault, Journaled, HadLive, Free, worlds, stages, conts, locks, notes,
        hist
<1>1. ASSUME NEW r \in Restores, Stop(r) PROVE RestInv'
  BY <1>1 DEF Stop, At, SameLock, Quiet, StopServer, Fault, Cut, Release
<1>2. ASSUME NEW r \in Restores, SaveRollback(r) PROVE RestInv'
  BY <1>2 DEF SaveRollback, At, SameLock
<1>3. ASSUME NEW r \in Restores, WriteJournal(r) PROVE RestInv'
  <2>1. CASE UNCHANGED <<journal, was>>
    BY <1>3, <2>1 DEF WriteJournal, At, SameLock, Fault
  <2> DEFINE j == [state |-> "moving", hadLive |-> live # None, prev |-> settings]
  <2>2. CASE journal' = [journal EXCEPT ![r] = j] /\ was' = [was EXCEPT ![r] = live]
    <3>1. /\ cur = r /\ pc = "journal" /\ journal[r] = NoJournal
          /\ UNCHANGED <<live, staged, settings, op, asked, stage, settled, agent,
                         box, ran, played>>
      BY <1>3 DEF WriteJournal, At, SameLock
    <3>2. j \in Journals
      BY DEF Journals
    <3>3. /\ journal'[r] # NoJournal
          /\ \A q \in Restores \ {r} : was'[q] = was[q] /\ journal'[q] = journal[q]
      BY <2>2, <3>2, JournalIsNone
    <3>4. op[r] = "running" /\ r \notin settled
      BY <1>3, <1>0 DEF WriteJournal, At
    <3> HIDE DEF j
    <3>. QED
      BY <3>1, <3>3, <3>4
  <2>. QED
    BY <1>3, <2>1, <2>2 DEF WriteJournal
<1>4. ASSUME NEW r \in Restores, GiveUp(r) PROVE RestInv'
  BY <1>4 DEF GiveUp, At, SameLock, Quiet, StartServer, StartFailed
<1>5. ASSUME NEW r \in Restores, AwaitPrevious(r) PROVE RestInv'
  BY <1>5 DEF AwaitPrevious, At, SameLock, Quiet
<1>6. ASSUME NEW r \in Restores, SetAside(r) PROVE RestInv'
  BY <1>6 DEF SetAside, At, SameLock, Quiet, Fault
<1>7. ASSUME NEW r \in Restores, MoveIn(r) PROVE RestInv'
  BY <1>7 DEF MoveIn, At, SameLock, Quiet, Fault
<1>8. ASSUME NEW r \in Restores, UndoMoveIn(r) PROVE RestInv'
  <2>1. CASE journal' = journal
    BY <1>8, <2>1 DEF UndoMoveIn, At, SameLock, Undoing, Quiet, HadLive, Fault
  <2>2. CASE journal' = [journal EXCEPT ![r].state = "reverting"]
    <3>1. journal[r] # NoJournal
      BY <1>8 DEF UndoMoveIn, At, Undoing
    <3>2. /\ journal'[r].state = "reverting"
          /\ journal'[r].hadLive = journal[r].hadLive
          /\ journal'[r].prev = journal[r].prev
          /\ journal'[r] # NoJournal
          /\ \A q \in Restores \ {r} : journal'[q] = journal[q]
      BY ONLY r \in Restores, TypeInv, <2>2, <3>1, JournalRewritten
    <3>. QED
      BY <1>8, <3>1, <3>2 DEF UndoMoveIn, At, SameLock, Undoing, Quiet, HadLive,
         Fault
  <2>. QED
    BY <1>8, <2>1, <2>2 DEF UndoMoveIn, Undoing
<1>9. ASSUME NEW r \in Restores, PutBackUnmoved(r) PROVE RestInv'
  BY <1>9 DEF PutBackUnmoved, At, SameLock, Quiet, Fault
<1>10. ASSUME NEW r \in Restores, RescueStaged(r) PROVE RestInv'
  BY <1>10 DEF RescueStaged, At, SameLock, Quiet, Fault, FailKeepingStage
<1>11. ASSUME NEW r \in Restores, SaveRestored(r) PROVE RestInv'
  BY <1>11 DEF SaveRestored, At, SameLock, Quiet, Fault
<1>12. ASSUME NEW r \in Restores, JournalChecking(r) PROVE RestInv'
  <2>1. CASE journal' = journal
    BY <1>12, <2>1 DEF JournalChecking, At, SameLock, Quiet, Fault
  <2>2. CASE journal' = [journal EXCEPT ![r].state = "checking"]
    <3>1. journal[r] # NoJournal
      BY <1>12 DEF JournalChecking, At
    <3>2. /\ journal'[r].state = "checking"
          /\ journal'[r].hadLive = journal[r].hadLive
          /\ journal'[r].prev = journal[r].prev
          /\ journal'[r] # NoJournal
          /\ \A q \in Restores \ {r} : journal'[q] = journal[q]
      BY ONLY r \in Restores, TypeInv, <2>2, <3>1, JournalRewritten
    <3>. QED
      BY <1>12, <3>1, <3>2 DEF JournalChecking, At, SameLock, Quiet, Fault
  <2>. QED
    BY <1>12, <2>1, <2>2 DEF JournalChecking
<1>13. ASSUME NEW r \in Restores, UnsaveRestored(r) PROVE RestInv'
  BY <1>13 DEF UnsaveRestored, At, SameLock, Quiet, Fault
<1>14. ASSUME NEW r \in Restores, UndoSettings(r) PROVE RestInv'
  <2>1. CASE journal' = journal
    BY <1>14, <2>1 DEF UndoSettings, At, SameLock, Undoing, Quiet, HadLive, Fault
  <2>2. CASE journal' = [journal EXCEPT ![r].state = "reverting"]
    <3>1. journal[r] # NoJournal
      BY <1>14 DEF UndoSettings, At, Undoing
    <3>2. /\ journal'[r].state = "reverting"
          /\ journal'[r].hadLive = journal[r].hadLive
          /\ journal'[r].prev = journal[r].prev
          /\ journal'[r] # NoJournal
          /\ \A q \in Restores \ {r} : journal'[q] = journal[q]
      BY ONLY r \in Restores, TypeInv, <2>2, <3>1, JournalRewritten
    <3>. QED
      BY <1>14, <3>1, <3>2 DEF UndoSettings, At, SameLock, Undoing, Quiet, HadLive,
         Fault
  <2>. QED
    BY <1>14, <2>1, <2>2 DEF UndoSettings, Undoing
<1>15. ASSUME NEW r \in Restores, ClearLive(r) PROVE RestInv'
  BY <1>15 DEF ClearLive, At, SameLock, Quiet, Fault, FailKeepingStage
<1>16. ASSUME NEW r \in Restores, PutBackMoved(r) PROVE RestInv'
  BY <1>16 DEF PutBackMoved, At, SameLock, Quiet, Fault, FailKeepingStage
<1>17. ASSUME NEW r \in Restores, DropFailed(r) PROVE RestInv'
  BY <1>17 DEF DropFailed, At, SameLock, Quiet
<1>18. ASSUME NEW r \in Restores, Launch(r) PROVE RestInv'
  BY <1>18 DEF Launch, At, SameLock, StartServer, StartFailed, FinishFailed, Release
<1>19. ASSUME NEW r \in Restores, Await(r) PROVE RestInv'
  BY <1>19 DEF Await, At, SameLock, Quiet, FinishFailed, Release
<1>20. ASSUME NEW r \in Restores, Keep(r) PROVE RestInv'
  <2>1. CASE journal' = journal
    BY <1>20, <2>1 DEF Keep, At, SameLock, Quiet, Fault
  <2>2. CASE journal' = [journal EXCEPT ![r].state = "kept"]
    <3>1. journal[r] # NoJournal
      BY <1>20 DEF Keep, At
    <3>2. /\ journal'[r].state = "kept" /\ journal'[r].hadLive = journal[r].hadLive
          /\ journal'[r].prev = journal[r].prev
          /\ journal'[r] # NoJournal
          /\ \A q \in Restores \ {r} : journal'[q] = journal[q]
      BY ONLY r \in Restores, TypeInv, <2>2, <3>1, JournalRewritten
    <3>. QED
      BY <1>20, <3>1, <3>2 DEF Keep, At, SameLock, Quiet, Fault
  <2>. QED
    BY <1>20, <2>1, <2>2 DEF Keep
<1>21. ASSUME NEW r \in Restores, Revert(r) PROVE RestInv'
  <2>1. CASE journal' = journal
    BY <1>21, <2>1 DEF Revert, At, SameLock, Quiet, Fault, FailKeepingStage
  <2>2. CASE journal' = [journal EXCEPT ![r].state = "reverting"]
    <3>1. journal[r] # NoJournal
      BY <1>21 DEF Revert, At
    <3>2. /\ journal'[r].state = "reverting"
          /\ journal'[r].hadLive = journal[r].hadLive
          /\ journal'[r].prev = journal[r].prev
          /\ journal'[r] # NoJournal
          /\ \A q \in Restores \ {r} : journal'[q] = journal[q]
      BY ONLY r \in Restores, TypeInv, <2>2, <3>1, JournalRewritten
    <3>. QED
      BY <1>21, <3>1, <3>2 DEF Revert, At, SameLock, Quiet, Fault, FailKeepingStage
  <2>. QED
    BY <1>21, <2>1, <2>2 DEF Revert, FailKeepingStage
<1>22. ASSUME NEW r \in Restores, RevertStop(r) PROVE RestInv'
  BY <1>22 DEF RevertStop, At, SameLock, Quiet, StopServer, Fault, Cut, Release,
     FailKeepingStage
<1>23. ASSUME NEW r \in Restores, BackClear(r) PROVE RestInv'
  BY <1>23 DEF BackClear, At, SameLock, Fault, PutPreviousBack, BackFailed,
     FailKeepingStage, SettleFailed, Release, Settling
<1>24. ASSUME NEW r \in Restores, BackMove(r) PROVE RestInv'
  BY <1>24 DEF BackMove, At, SameLock, Fault, PutPreviousBack, BackFailed,
     FailKeepingStage, SettleFailed, Release, Settling
<1>25. ASSUME NEW r \in Restores, BackSave(r) PROVE RestInv'
  BY <1>25 DEF BackSave, At, SameLock, Fault, PutPreviousBack, BackFailed,
     FailKeepingStage, SettleFailed, Release, Settling
<1>26. ASSUME NEW r \in Restores, StartPrevious(r) PROVE RestInv'
  BY <1>26 DEF StartPrevious, At, SameLock, Quiet, StartServer, StartFailed
<1>27. ASSUME NEW r \in Restores, DropAside(r) PROVE RestInv'
  BY <1>27 DEF DropAside, At, SameLock, Quiet
<1>28. ASSUME NEW r \in Restores, DropAsideRest(r) PROVE RestInv'
  BY <1>28 DEF DropAsideRest, At, SameLock, Fault, SettleFailed, Release, Settling
<1>29. ASSUME NEW r \in Restores, DropStage(r) PROVE RestInv'
  BY <1>29 DEF DropStage, At, SameLock, Fault, SettleFailed, Release, Settling
<1>32. ASSUME NEW r \in Restores, Recover(r) PROVE RestInv'
  BY <1>32 DEF Recover, At, Journals, SameLock, Quiet
<1>33. ASSUME NEW r \in Restores, Adopt(r) PROVE RestInv'
  BY <1>33 DEF Adopt, At, SameLock, Quiet, Release
<1>34. ASSUME NEW r \in Restores, ForwardClear(r) PROVE RestInv'
  BY <1>34 DEF ForwardClear, At, SameLock, Quiet, Fault, ForwardFailed
<1>35. ASSUME NEW r \in Restores, ForwardMove(r) PROVE RestInv'
  BY <1>35 DEF ForwardMove, At, SameLock, Quiet, Fault, ForwardFailed
<1>36. ASSUME NEW r \in Restores, ForwardSave(r) PROVE RestInv'
  BY <1>36 DEF ForwardSave, At, SameLock, Quiet, Fault, ForwardFailed
<1>37. ASSUME NEW r \in Restores, ForwardJournal(r) PROVE RestInv'
  <2>1. CASE journal' = journal
    BY <1>37, <2>1 DEF ForwardJournal, At, SameLock, Quiet, Fault, ForwardFailed
  <2>2. CASE journal' = [journal EXCEPT ![r].state = "checking"]
    <3>1. journal[r] # NoJournal
      BY <1>37 DEF ForwardJournal, At
    <3>2. /\ journal'[r].state = "checking"
          /\ journal'[r].hadLive = journal[r].hadLive
          /\ journal'[r].prev = journal[r].prev
          /\ journal'[r] # NoJournal
          /\ \A q \in Restores \ {r} : journal'[q] = journal[q]
      BY ONLY r \in Restores, TypeInv, <2>2, <3>1, JournalRewritten
    <3>. QED
      BY <1>37, <3>1, <3>2 DEF ForwardJournal, At, SameLock, Quiet, Fault,
         ForwardFailed
  <2>. QED
    BY <1>37, <2>1, <2>2 DEF ForwardJournal, ForwardFailed
<1>38. ASSUME NEW r \in Restores, SettleSwap(r) PROVE RestInv'
  BY <1>38 DEF SettleSwap, At, SameLock, SettleFailed, Release
<1>39. ASSUME NEW r \in Restores, Prune(r) PROVE RestInv'
  BY <1>39 DEF Prune
<1>40. ASSUME NEW r \in Restores, StageArchive(r) PROVE RestInv'
  BY <1>40 DEF StageArchive, Free
<1>41. ASSUME NEW r \in Restores, ApplyAsked(r) PROVE RestInv'
  BY <1>41 DEF ApplyAsked
<1>42. ASSUME NEW r \in Restores, ApplyBusy(r) PROVE RestInv'
  BY <1>42 DEF ApplyBusy
<1>43. ASSUME NEW r \in Restores, ApplyBegin(r) PROVE RestInv'
  BY <1>43 DEF ApplyBegin, Free
<1>44. ASSUME NEW r \in Restores, DiscardStage(r) PROVE RestInv'
  BY <1>44 DEF DiscardStage, Free
<1>45. ASSUME NEW r \in Restores, MoveBackByHand(r) PROVE RestInv'
  BY <1>45 DEF MoveBackByHand, Journaled
<1>46. ASSUME NEW r \in Restores, DiscardCopy(r) PROVE RestInv'
  BY <1>46 DEF DiscardCopy, Free, Journaled
<1>47. CASE AgentStart
  BY <1>47 DEF AgentStart
<1>48. CASE AgentUp
  BY <1>48 DEF AgentUp
<1>49. CASE AgentExit
  BY <1>49 DEF AgentExit
<1>50. CASE SettleNext
  BY <1>50 DEF SettleNext, Release, SameLock, Journaled
<1>51. CASE Halt
  BY <1>51 DEF Halt, StopServer, Fault, Cut, Release, SameLock
<1>52. CASE LaunchOwn
  BY <1>52 DEF LaunchOwn, StartServer, StartFailed, Release, SameLock,
     OwnStartFailed
<1>53. CASE AwaitOwn
  BY <1>53 DEF AwaitOwn, Release, SameLock, OwnStartFailed
<1>54. CASE GameOnline
  BY <1>54 DEF GameOnline
<1>55. CASE GameExit
  BY <1>55 DEF GameExit
<1>56. CASE SettleTick
  BY <1>56 DEF SettleTick, Free
<1>57. CASE AutoStart
  BY <1>57 DEF AutoStart, Free
<1>58. CASE StartAsked
  BY <1>58 DEF StartAsked, Free
<1>59. CASE RestartAsked
  BY <1>59 DEF RestartAsked, Free
<1>60. CASE StopAsked
  BY <1>60 DEF StopAsked, Free
<1>61. CASE Crash
  BY <1>61 DEF Crash
<1>62. CASE AgentStop
  BY <1>62 DEF AgentStop
<1>63. CASE UNCHANGED vars
  BY <1>63 DEF vars
<1> HIDE DEF TypeInv, TypeOK, JournalHeld, JournalSteps, LockInv, RestoreOnly,
       Restoring, Settling, BoxInv, RunsInPlace, Forward, StoppedSteps, HoldInv,
       MovedInv, AsideInv, JournalsInv, RestInv, PlaceInv, StepsInv, Journal,
       Unswapped, Over, Back, There, In, Matches, NoneAside, Restored, OneFault,
       Journaled, HadLive, Free, worlds, stages, conts, locks, notes, hist
<1>64. ASSUME NEW r \in Restores, RestoreStep(r) PROVE RestInv'
  BY <1>64, <1>1, <1>2, <1>3, <1>4, <1>5, <1>6, <1>7, <1>8, <1>9, <1>10,
     <1>11, <1>12, <1>13, <1>14, <1>15, <1>16, <1>17, <1>18, <1>19, <1>20,
     <1>21, <1>22, <1>23, <1>24, <1>25, <1>26, <1>27, <1>28, <1>29, <1>30,
     <1>31, <1>32, <1>33, <1>34, <1>35, <1>36, <1>37, <1>38
  DEF RestoreStep
<1>65. CASE AgentStep
  BY <1>65, <1>39, <1>47, <1>48, <1>49, <1>50, <1>51, <1>52, <1>53, <1>64
  DEF AgentStep
<1>. QED
  BY <1>40, <1>41, <1>42, <1>43, <1>44, <1>45, <1>46, <1>54, <1>55, <1>56,
     <1>57, <1>58, <1>59, <1>60, <1>61, <1>62, <1>63, <1>65
  DEF Next

LEMMA JournalsKept ==
    ASSUME JournalsInv,
           UNCHANGED <<journal, live, aside, staged, settings, op, was, played,
                       asked>>
    PROVE  JournalsInv'
BY DEF JournalsInv, Journaled, Journal, Unswapped, In, Back, There, HadLive, Matches,
       NoneAside, Restored

LEMMA JournalsNext ==
    ASSUME OneFault, TypeInv, LockInv, BoxInv, HoldInv, MovedInv, AsideInv,
           JournalsInv, RestInv, PlaceInv, StepsInv, [Next]_vars
    PROVE  JournalsInv'
<1>0. ASSUME pc \in RestoreOnly \/ Restoring
      PROVE  /\ Restoring /\ cur \in Restores /\ op[cur] = "running"
             /\ cur \notin settled
             /\ Journaled \subseteq {cur}
  <2>1. Restoring
    BY <1>0 DEF LockInv
  <2>2. cur \in Restores /\ op[cur] = "running"
    BY <2>1 DEF LockInv
  <2>3. Journaled \subseteq {cur}
    BY <2>2 DEF HoldInv
  <2>4. cur \notin settled
    BY <2>2 DEF RestInv
  <2>. QED
    BY <2>1, <2>2, <2>3, <2>4
<1>8. ASSUME NEW r \in Restores, UndoMoveIn(r) PROVE JournalsInv'
  <2>1. /\ cur = r /\ pc = "undo1"
        /\ UNCHANGED <<live, aside, staged, settings, op, was, played, asked>>
    BY <1>8 DEF UndoMoveIn, At, Quiet, Undoing, worlds, hist
  <2>2. r \in Journaled
    BY <2>1 DEF TypeInv, JournalHeld, JournalSteps, Journaled
  <2>3. CASE journal' = journal
    BY <2>1, <2>3, JournalsKept
  <2>4. CASE journal' = [journal EXCEPT ![r].state = "reverting"]
    <3>1. /\ journal'[r].state = "reverting"
          /\ journal'[r].hadLive = journal[r].hadLive
          /\ journal'[r].prev = journal[r].prev /\ journal'[r] # NoJournal
          /\ \A q \in Restores \ {r} : journal'[q] = journal[q]
      BY <2>2, <2>4, JournalRewritten DEF TypeInv, TypeOK, Journaled
    <3>2. Journaled = {r} /\ Journaled' = {r}
      BY <2>2, <3>1 DEF Journaled, HoldInv
    <3>3. Journal(r) /\ (In(r, {"moving", "reverting"}) => Unswapped(r))
      BY <2>2 DEF JournalsInv
    <3>4. HadLive(r) /\ In(r, {"moving", "reverting"}) /\ op[r] = "running"
      BY <1>0, <2>1 DEF StepsInv, MovedInv, RestoreOnly
    <3>5. Journal(r)'
      BY <2>1, <3>1, <3>3, <3>4 DEF Journal, Unswapped, In, There, Back, Matches,
         NoneAside, HadLive, Restored
    <3>6. In(r, {"moving", "reverting"})' => Unswapped(r)'
      BY <2>1, <3>1, <3>3, <3>4 DEF Journal, Unswapped, In, There, Back, Matches,
         NoneAside, HadLive
    <3>. QED
      BY <3>2, <3>5, <3>6 DEF JournalsInv
  <2>. QED
    BY <1>8, <2>3, <2>4 DEF UndoMoveIn, Undoing
<1>12. ASSUME NEW r \in Restores, JournalChecking(r) PROVE JournalsInv'
  <2>1. /\ cur = r /\ pc = "check"
        /\ UNCHANGED <<live, aside, staged, settings, op, was, played, asked>>
    BY <1>12 DEF JournalChecking, At, Quiet, worlds, hist
  <2>2. r \in Journaled
    BY <2>1 DEF TypeInv, JournalHeld, JournalSteps, Journaled
  <2>3. CASE journal' = journal
    BY <2>1, <2>3, JournalsKept
  <2>4. CASE journal' = [journal EXCEPT ![r].state = "checking"]
    <3>1. /\ journal'[r].state = "checking"
          /\ journal'[r].hadLive = journal[r].hadLive
          /\ journal'[r].prev = journal[r].prev /\ journal'[r] # NoJournal
          /\ \A q \in Restores \ {r} : journal'[q] = journal[q]
      BY <2>2, <2>4, JournalRewritten DEF TypeInv, TypeOK, Journaled
    <3>2. Journaled = {r} /\ Journaled' = {r}
      BY <2>2, <3>1 DEF Journaled, HoldInv
    <3>3. Journal(r) /\ (In(r, {"moving", "reverting"}) => Unswapped(r))
      BY <2>2 DEF JournalsInv
    <3>4. /\ live = r /\ settings = r /\ staged[r] = None /\ was[r] # r
          /\ In(r, {"moving"}) /\ op[r] = "running"
      BY <1>0, <2>1 DEF StepsInv, PlaceInv, RestoreOnly
    <3>5. Journal(r)'
      BY <2>1, <3>1, <3>3, <3>4 DEF Journal, Unswapped, In, There, Back, Matches,
         NoneAside, HadLive, Restored
    <3>6. In(r, {"moving", "reverting"})' => Unswapped(r)'
      BY <2>1, <3>1, <3>3, <3>4 DEF Journal, Unswapped, In, There, Back, Matches,
         NoneAside, HadLive
    <3>. QED
      BY <3>2, <3>5, <3>6 DEF JournalsInv
  <2>. QED
    BY <1>12, <2>3, <2>4 DEF JournalChecking
<1>14. ASSUME NEW r \in Restores, UndoSettings(r) PROVE JournalsInv'
  <2>1. /\ cur = r /\ pc = "undo2"
        /\ UNCHANGED <<live, aside, staged, settings, op, was, played, asked>>
    BY <1>14 DEF UndoSettings, At, Quiet, Undoing, worlds, hist
  <2>2. r \in Journaled
    BY <2>1 DEF TypeInv, JournalHeld, JournalSteps, Journaled
  <2>3. CASE journal' = journal
    BY <2>1, <2>3, JournalsKept
  <2>4. CASE journal' = [journal EXCEPT ![r].state = "reverting"]
    <3>1. /\ journal'[r].state = "reverting"
          /\ journal'[r].hadLive = journal[r].hadLive
          /\ journal'[r].prev = journal[r].prev /\ journal'[r] # NoJournal
          /\ \A q \in Restores \ {r} : journal'[q] = journal[q]
      BY <2>2, <2>4, JournalRewritten DEF TypeInv, TypeOK, Journaled
    <3>2. Journaled = {r} /\ Journaled' = {r}
      BY <2>2, <3>1 DEF Journaled, HoldInv
    <3>3. Journal(r) /\ (In(r, {"moving", "reverting"}) => Unswapped(r))
      BY <2>2 DEF JournalsInv
    <3>4. /\ live = r /\ staged[r] = None /\ settings = journal[r].prev
          /\ In(r, {"moving", "reverting"}) /\ op[r] = "running"
      BY <1>0, <2>1 DEF StepsInv, MovedInv, In, RestoreOnly
    <3>5. Journal(r)'
      BY <2>1, <3>1, <3>3, <3>4 DEF Journal, Unswapped, In, There, Back, Matches,
         NoneAside, HadLive, Restored
    <3>6. In(r, {"moving", "reverting"})' => Unswapped(r)'
      BY <2>1, <3>1, <3>3, <3>4 DEF Journal, Unswapped, In, There, Back, Matches,
         NoneAside, HadLive
    <3>. QED
      BY <3>2, <3>5, <3>6 DEF JournalsInv
  <2>. QED
    BY <1>14, <2>3, <2>4 DEF UndoSettings, Undoing
<1>20. ASSUME NEW r \in Restores, Keep(r) PROVE JournalsInv'
  <2>1. /\ cur = r /\ pc = "keep"
        /\ UNCHANGED <<live, aside, staged, settings, op, was, played, asked>>
    BY <1>20 DEF Keep, At, Quiet, worlds, hist
  <2>2. r \in Journaled
    BY <2>1 DEF TypeInv, JournalHeld, JournalSteps, Journaled
  <2>3. CASE journal' = journal
    BY <2>1, <2>3, JournalsKept
  <2>4. CASE journal' = [journal EXCEPT ![r].state = "kept"]
    <3>1. /\ journal'[r].state = "kept" /\ journal'[r].hadLive = journal[r].hadLive
          /\ journal'[r].prev = journal[r].prev /\ journal'[r] # NoJournal
          /\ \A q \in Restores \ {r} : journal'[q] = journal[q]
      BY <2>2, <2>4, JournalRewritten DEF TypeInv, TypeOK, Journaled
    <3>2. Journaled = {r} /\ Journaled' = {r}
      BY <2>2, <3>1 DEF Journaled, HoldInv
    <3>3. Journal(r) /\ (In(r, {"moving", "reverting"}) => Unswapped(r))
      BY <2>2 DEF JournalsInv
    <3>4. In(r, {"checking"}) /\ Restored(r) /\ op[r] = "running"
      BY <1>0, <2>1 DEF StepsInv, RestoreOnly
    <3>5. Journal(r)'
      BY <2>1, <3>1, <3>3, <3>4 DEF Journal, Unswapped, In, There, Back, Matches,
         NoneAside, HadLive, Restored
    <3>6. In(r, {"moving", "reverting"})' => Unswapped(r)'
      BY <2>1, <3>1, <3>3, <3>4 DEF Journal, Unswapped, In, There, Back, Matches,
         NoneAside, HadLive
    <3>. QED
      BY <3>2, <3>5, <3>6 DEF JournalsInv
  <2>. QED
    BY <1>20, <2>3, <2>4 DEF Keep
<1>21. ASSUME NEW r \in Restores, Revert(r) PROVE JournalsInv'
  <2>1. /\ cur = r /\ pc = "revert"
        /\ UNCHANGED <<live, aside, staged, settings, op, was, played, asked>>
    BY <1>21 DEF Revert, At, Quiet, worlds, hist
  <2>2. r \in Journaled
    BY <2>1 DEF TypeInv, JournalHeld, JournalSteps, Journaled
  <2>3. CASE journal' = journal
    BY <2>1, <2>3, JournalsKept
  <2>4. CASE journal' = [journal EXCEPT ![r].state = "reverting"]
    <3>1. /\ journal'[r].state = "reverting"
          /\ journal'[r].hadLive = journal[r].hadLive
          /\ journal'[r].prev = journal[r].prev /\ journal'[r] # NoJournal
          /\ \A q \in Restores \ {r} : journal'[q] = journal[q]
      BY <2>2, <2>4, JournalRewritten DEF TypeInv, TypeOK, Journaled
    <3>2. Journaled = {r} /\ Journaled' = {r}
      BY <2>2, <3>1 DEF Journaled, HoldInv
    <3>3. Journal(r) /\ (In(r, {"moving", "reverting"}) => Unswapped(r))
      BY <2>2 DEF JournalsInv
    <3>4. /\ HadLive(r) /\ In(r, {"moving", "checking", "reverting"})
          /\ op[r] = "running"
      BY <1>0, <2>1 DEF StepsInv, MovedInv, RestoreOnly
    <3>5. Journal(r)'
      BY <2>1, <3>1, <3>3, <3>4 DEF Journal, Unswapped, In, There, Back, Matches,
         NoneAside, HadLive, Restored
    <3>6. In(r, {"moving", "reverting"})' => Unswapped(r)'
      BY <2>1, <3>1, <3>3, <3>4 DEF Journal, Unswapped, In, There, Back, Matches,
         NoneAside, HadLive
    <3>. QED
      BY <3>2, <3>5, <3>6 DEF JournalsInv
  <2>. QED
    BY <1>21, <2>3, <2>4 DEF Revert, FailKeepingStage
<1>37. ASSUME NEW r \in Restores, ForwardJournal(r) PROVE JournalsInv'
  <2>1. /\ cur = r /\ pc = "fwdJournal"
        /\ UNCHANGED <<live, aside, staged, settings, op, was, played, asked>>
    BY <1>37 DEF ForwardJournal, At, Quiet, worlds, hist
  <2>2. r \in Journaled
    BY <2>1 DEF TypeInv, JournalHeld, JournalSteps, Journaled
  <2>3. CASE journal' = journal
    BY <2>1, <2>3, JournalsKept
  <2>4. CASE journal' = [journal EXCEPT ![r].state = "checking"]
    <3>1. /\ journal'[r].state = "checking"
          /\ journal'[r].hadLive = journal[r].hadLive
          /\ journal'[r].prev = journal[r].prev /\ journal'[r] # NoJournal
          /\ \A q \in Restores \ {r} : journal'[q] = journal[q]
      BY <2>2, <2>4, JournalRewritten DEF TypeInv, TypeOK, Journaled
    <3>2. Journaled = {r} /\ Journaled' = {r}
      BY <2>2, <3>1 DEF Journaled, HoldInv
    <3>3. Journal(r) /\ (In(r, {"moving", "reverting"}) => Unswapped(r))
      BY <2>2 DEF JournalsInv
    <3>4. /\ live = r /\ settings = r /\ staged[r] = None /\ was[r] # r
          /\ In(r, {"moving"}) /\ op[r] = "running"
      BY <1>0, <2>1 DEF StepsInv, PlaceInv, RestoreOnly
    <3>5. Journal(r)'
      BY <2>1, <3>1, <3>3, <3>4 DEF Journal, Unswapped, In, There, Back, Matches,
         NoneAside, HadLive, Restored
    <3>6. In(r, {"moving", "reverting"})' => Unswapped(r)'
      BY <2>1, <3>1, <3>3, <3>4 DEF Journal, Unswapped, In, There, Back, Matches,
         NoneAside, HadLive
    <3>. QED
      BY <3>2, <3>5, <3>6 DEF JournalsInv
  <2>. QED
    BY <1>37, <2>3, <2>4 DEF ForwardJournal, ForwardFailed
<1>3. ASSUME NEW r \in Restores, WriteJournal(r) PROVE JournalsInv'
  <2>1. /\ cur = r /\ pc = "journal"
        /\ UNCHANGED <<live, aside, staged, settings, op, played, asked>>
    BY <1>3 DEF WriteJournal, At, worlds, notes
  <2>2. /\ journal[r] = NoJournal /\ op[r] = "running" /\ staged[r] = r
        /\ aside[r] = None
    BY <2>1, <1>0 DEF BoxInv, StepsInv, AsideInv, RestoreOnly
  <2>3. Journaled = {}
    BY <2>2 DEF HoldInv, Journaled
  <2>4. CASE UNCHANGED <<journal, was>>
    BY <2>3, <2>4 DEF JournalsInv, Journaled
  <2> DEFINE j == [state |-> "moving", hadLive |-> live # None, prev |-> settings]
  <2>5. CASE journal' = [journal EXCEPT ![r] = j] /\ was' = [was EXCEPT ![r] = live]
    <3>1. j \in Journals
      BY DEF Journals, TypeInv, TypeOK
    <3>2. j.state = "moving" /\ (j.hadLive <=> live # None) /\ j.prev = settings
      OBVIOUS
    <3> HIDE DEF j
    <3>3. /\ journal'[r] = j /\ was'[r] = live
          /\ \A q \in Restores \ {r} : journal'[q] = journal[q] /\ was'[q] = was[q]
      BY <2>5 DEF TypeInv, TypeOK
    <3>4. Journaled' = {r}
      BY <2>3, <3>1, <3>3, JournalIsNone DEF Journaled
    <3>5. Matches(live, settings) /\ (live = None => NoneAside)
      BY <2>3 DEF RestInv
    <3>6. Matches(live, settings)'
      BY <2>1, <2>2, <3>3, <3>5 DEF Matches
    <3>7. Journal(r)' /\ Unswapped(r)'
      <4>1. /\ In(r, {"moving"})' /\ ~In(r, {"checking", "kept"})'
            /\ (HadLive(r)' <=> live # None)
        BY <3>2, <3>3 DEF In, HadLive
      <4>2. /\ was'[r] = live' /\ journal'[r].prev = settings' /\ staged'[r] # None
            /\ aside'[r] = None /\ op'[r] = "running" /\ (NoneAside => NoneAside')
        BY <2>1, <2>2, <3>2, <3>3, RestoresAssumption DEF NoneAside
      <4>3. ~In(r, {"kept"})' /\ ~In(r, {"checking"})'
        BY <3>2, <3>3 DEF In
      <4>. QED
        BY <2>1, <3>5, <3>6, <4>1, <4>2, <4>3 DEF Journal, Unswapped
    <3>. QED
      BY <3>4, <3>7 DEF JournalsInv
  <2>. QED
    BY <1>3, <2>4, <2>5 DEF WriteJournal
<1>15. ASSUME NEW r \in Restores, ClearLive(r) PROVE JournalsInv'
  <2>1. /\ cur = r /\ pc = "clear"
        /\ UNCHANGED <<aside, staged, settings, op, played, asked, was, journal>>
        /\ live' \in {live, None}
    BY <1>15 DEF ClearLive, At, SameLock, Quiet, stages, hist, worlds
  <2>2. r \in Journaled /\ Journaled' = {r}
    BY <2>1 DEF TypeInv, JournalHeld, JournalSteps, Journaled, HoldInv
  <2>3. /\ live = r /\ staged[r] = None /\ settings = journal[r].prev /\ was[r] # r
        /\ In(r, IF HadLive(r) THEN {"reverting"} ELSE {"moving"})
    BY <2>1 DEF StepsInv, PlaceInv
  <2>4. Journal(r) /\ (In(r, {"moving", "reverting"}) => Unswapped(r))
    BY <2>2 DEF JournalsInv
  <2>5. UNCHANGED <<In(r, {"moving"}), In(r, {"checking"}), In(r, {"kept"}), In(r,
                    {"checking", "kept"}), HadLive(r)>>
    BY <2>1 DEF In, HadLive
  <2>6. r # None /\ op[r] # "succeeded"
    BY <1>0, <2>1, RestoresAssumption DEF RestoreOnly
  <2>7. /\ ~In(r, {"checking", "kept"}) /\ ~In(r, {"kept"}) /\ ~In(r, {"checking"})
        /\ In(r, {"moving", "reverting"})
    BY <2>3 DEF In
  <2>8. Unswapped(r)'
    BY <2>1, <2>3, <2>4, <2>5, <2>6, <2>7 DEF Journal, Unswapped, Back, In
  <2>9. Journal(r)'
    BY <2>1, <2>4, <2>5, <2>6, <2>7 DEF Journal, NoneAside, Matches
  <2>. QED
    BY <2>2, <2>8, <2>9 DEF JournalsInv
<1>23. ASSUME NEW r \in Restores, BackClear(r) PROVE JournalsInv'
  <2>1. /\ cur = r /\ pc = "back1"
        /\ UNCHANGED <<aside, staged, settings, op, played, asked, was, journal>>
        /\ live' = live \/ (aside[r] # None /\ live # None /\ live' = None)
    BY <1>23 DEF BackClear, PutPreviousBack, At, stages, hist
  <2>2. r \in Journaled /\ Journaled' = {r}
    BY <2>1 DEF TypeInv, JournalHeld, JournalSteps, Journaled, HoldInv
  <2>3. /\ In(r, {"moving", "reverting"}) /\ HadLive(r)
        /\ (op[r] = "running" => In(r, {"reverting"}))
    BY <2>1 DEF StepsInv, LockInv, HoldInv, Restoring, Settling
  <2>4. Journal(r) /\ Unswapped(r)
    BY <2>2, <2>3 DEF JournalsInv
  <2>5. /\ ~In(r, {"checking", "kept"}) /\ ~In(r, {"kept"}) /\ ~In(r, {"checking"})
        /\ (op[r] = "running" => ~In(r, {"moving"}))
    BY <2>3 DEF In
  <2>6. UNCHANGED <<In(r, {"moving"}), In(r, {"checking"}), In(r, {"kept"}), In(r,
                    {"checking", "kept"}), HadLive(r)>>
    BY <2>1 DEF In, HadLive
  <2>7. CASE live' = live
    <3>1. Journal(r)' /\ Unswapped(r)'
      BY <2>1, <2>4, <2>5, <2>6, <2>7 DEF Journal, Unswapped, NoneAside, Matches,
         There, Back
    <3>. QED
      BY <2>2, <3>1 DEF JournalsInv
  <2>8. CASE aside[r] # None /\ live # None /\ live' = None
    <3>1. staged[r] = None
      BY <2>3, <2>4, <2>8 DEF Unswapped
    <3>2. op[r] # "succeeded"
      BY <2>4, <2>5 DEF Journal
    <3>3. Unswapped(r)'
      BY <2>1, <2>3, <2>4, <2>5, <2>6, <2>8, <3>1 DEF Unswapped
    <3>4. Journal(r)'
      BY <2>1, <2>4, <2>5, <2>6, <3>2 DEF Journal, NoneAside, Matches
    <3>. QED
      BY <2>2, <3>3, <3>4 DEF JournalsInv
  <2>. QED
    BY <2>1, <2>7, <2>8
<1>52. CASE LaunchOwn
  <2>1. UNCHANGED <<aside, staged, settings, op, played, asked, was, journal>>
    BY <1>52 DEF LaunchOwn, StartServer, StartFailed, worlds, stages, notes, hist
  <2>2. live' = live \/ (live = None /\ CanStart(None))
    BY <1>52 DEF LaunchOwn, StartServer, StartFailed, worlds
  <2>3. ASSUME NEW q \in Journaled PROVE live' = live
    <3>1. CASE CanStart(None)
      <4>1. q \in settled
        BY <3>1, RestoresAssumption DEF CanStart, StartRefusal, Journaled
      <4>. QED
        BY <2>2, <4>1 DEF RestInv
    <3>. QED
      BY <2>2, <3>1
  <2>. QED
    BY <2>1, <2>3 DEF JournalsInv, Journal, Unswapped, In, There, Back, HadLive,
       NoneAside, Matches,
       Restored, Journaled
<1> USE RestoresAssumption
    DEF TypeInv, TypeOK, JournalHeld, JournalSteps, LockInv, RestoreOnly,
        Restoring, Settling, BoxInv, RunsInPlace, Forward, StoppedSteps,
        HoldInv, MovedInv, AsideInv, JournalsInv, RestInv, PlaceInv, StepsInv,
        Journal, Unswapped, Over, Back, There, In, Matches, NoneAside, Restored,
        OneFault, Journaled, HadLive, Free, worlds, stages, conts, locks, notes,
        hist
<1>1. ASSUME NEW r \in Restores, Stop(r) PROVE JournalsInv'
  BY <1>1 DEF Stop, At, SameLock, Quiet, StopServer, Fault, Cut, Release
<1>2. ASSUME NEW r \in Restores, SaveRollback(r) PROVE JournalsInv'
  BY <1>2 DEF SaveRollback, At, SameLock
<1>4. ASSUME NEW r \in Restores, GiveUp(r) PROVE JournalsInv'
  BY <1>4 DEF GiveUp, At, SameLock, Quiet, StartServer, StartFailed
<1>5. ASSUME NEW r \in Restores, AwaitPrevious(r) PROVE JournalsInv'
  BY <1>5 DEF AwaitPrevious, At, SameLock, Quiet
<1>6. ASSUME NEW r \in Restores, SetAside(r) PROVE JournalsInv'
  BY <1>6 DEF SetAside, At, SameLock, Quiet, Fault
<1>7. ASSUME NEW r \in Restores, MoveIn(r) PROVE JournalsInv'
  BY <1>7 DEF MoveIn, At, SameLock, Quiet, Fault
<1>9. ASSUME NEW r \in Restores, PutBackUnmoved(r) PROVE JournalsInv'
  BY <1>9 DEF PutBackUnmoved, At, SameLock, Quiet, Fault
<1>10. ASSUME NEW r \in Restores, RescueStaged(r) PROVE JournalsInv'
  BY <1>10 DEF RescueStaged, At, SameLock, Quiet, Fault, FailKeepingStage
<1>11. ASSUME NEW r \in Restores, SaveRestored(r) PROVE JournalsInv'
  BY <1>11 DEF SaveRestored, At, SameLock, Quiet, Fault
<1>13. ASSUME NEW r \in Restores, UnsaveRestored(r) PROVE JournalsInv'
  BY <1>13 DEF UnsaveRestored, At, SameLock, Quiet, Fault
<1>16. ASSUME NEW r \in Restores, PutBackMoved(r) PROVE JournalsInv'
  BY <1>16 DEF PutBackMoved, At, SameLock, Quiet, Fault, FailKeepingStage
<1>17. ASSUME NEW r \in Restores, DropFailed(r) PROVE JournalsInv'
  BY <1>17 DEF DropFailed, At, SameLock, Quiet
<1>18. ASSUME NEW r \in Restores, Launch(r) PROVE JournalsInv'
  BY <1>18 DEF Launch, At, SameLock, StartServer, StartFailed, FinishFailed, Release
<1>19. ASSUME NEW r \in Restores, Await(r) PROVE JournalsInv'
  BY <1>19 DEF Await, At, SameLock, Quiet, FinishFailed, Release
<1>22. ASSUME NEW r \in Restores, RevertStop(r) PROVE JournalsInv'
  BY <1>22 DEF RevertStop, At, SameLock, Quiet, StopServer, Fault, Cut, Release,
     FailKeepingStage
<1>24. ASSUME NEW r \in Restores, BackMove(r) PROVE JournalsInv'
  BY <1>24 DEF BackMove, At, SameLock, Fault, PutPreviousBack, BackFailed,
     FailKeepingStage, SettleFailed, Release, Settling
<1>25. ASSUME NEW r \in Restores, BackSave(r) PROVE JournalsInv'
  BY <1>25 DEF BackSave, At, SameLock, Fault, PutPreviousBack, BackFailed,
     FailKeepingStage, SettleFailed, Release, Settling
<1>26. ASSUME NEW r \in Restores, StartPrevious(r) PROVE JournalsInv'
  BY <1>26 DEF StartPrevious, At, SameLock, Quiet, StartServer, StartFailed
<1>27. ASSUME NEW r \in Restores, DropAside(r) PROVE JournalsInv'
  BY <1>27 DEF DropAside, At, SameLock, Quiet
<1>28. ASSUME NEW r \in Restores, DropAsideRest(r) PROVE JournalsInv'
  BY <1>28 DEF DropAsideRest, At, SameLock, Fault, SettleFailed, Release, Settling
<1>29. ASSUME NEW r \in Restores, DropStage(r) PROVE JournalsInv'
  BY <1>29 DEF DropStage, At, SameLock, Fault, SettleFailed, Release, Settling
<1>30. ASSUME NEW r \in Restores, DropStageRest(r) PROVE JournalsInv'
  BY <1>30 DEF DropStageRest, At, SameLock, Settling, Release
<1>31. ASSUME NEW r \in Restores, End(r) PROVE JournalsInv'
  BY <1>31 DEF End, At, SameLock, Quiet, Release
<1>32. ASSUME NEW r \in Restores, Recover(r) PROVE JournalsInv'
  BY <1>32 DEF Recover, At, Journals, SameLock, Quiet
<1>33. ASSUME NEW r \in Restores, Adopt(r) PROVE JournalsInv'
  BY <1>33 DEF Adopt, At, SameLock, Quiet, Release
<1>34. ASSUME NEW r \in Restores, ForwardClear(r) PROVE JournalsInv'
  BY <1>34 DEF ForwardClear, At, SameLock, Quiet, Fault, ForwardFailed
<1>35. ASSUME NEW r \in Restores, ForwardMove(r) PROVE JournalsInv'
  BY <1>35 DEF ForwardMove, At, SameLock, Quiet, Fault, ForwardFailed
<1>36. ASSUME NEW r \in Restores, ForwardSave(r) PROVE JournalsInv'
  BY <1>36 DEF ForwardSave, At, SameLock, Quiet, Fault, ForwardFailed
<1>38. ASSUME NEW r \in Restores, SettleSwap(r) PROVE JournalsInv'
  BY <1>38 DEF SettleSwap, At, SameLock, SettleFailed, Release
<1>39. ASSUME NEW r \in Restores, Prune(r) PROVE JournalsInv'
  BY <1>39 DEF Prune
<1>40. ASSUME NEW r \in Restores, StageArchive(r) PROVE JournalsInv'
  BY <1>40 DEF StageArchive, Free
<1>41. ASSUME NEW r \in Restores, ApplyAsked(r) PROVE JournalsInv'
  BY <1>41 DEF ApplyAsked
<1>42. ASSUME NEW r \in Restores, ApplyBusy(r) PROVE JournalsInv'
  BY <1>42 DEF ApplyBusy
<1>43. ASSUME NEW r \in Restores, ApplyBegin(r) PROVE JournalsInv'
  BY <1>43 DEF ApplyBegin, Free
<1>44. ASSUME NEW r \in Restores, DiscardStage(r) PROVE JournalsInv'
  BY <1>44 DEF DiscardStage, Free
<1>45. ASSUME NEW r \in Restores, MoveBackByHand(r) PROVE JournalsInv'
  BY <1>45 DEF MoveBackByHand, Journaled
<1>46. ASSUME NEW r \in Restores, DiscardCopy(r) PROVE JournalsInv'
  BY <1>46 DEF DiscardCopy, Free, Journaled
<1>47. CASE AgentStart
  BY <1>47 DEF AgentStart
<1>48. CASE AgentUp
  BY <1>48 DEF AgentUp
<1>49. CASE AgentExit
  BY <1>49 DEF AgentExit
<1>50. CASE SettleNext
  BY <1>50 DEF SettleNext, Release, SameLock, Journaled
<1>51. CASE Halt
  BY <1>51 DEF Halt, StopServer, Fault, Cut, Release, SameLock
<1>53. CASE AwaitOwn
  BY <1>53 DEF AwaitOwn, Release, SameLock, OwnStartFailed
<1>54. CASE GameOnline
  BY <1>54 DEF GameOnline
<1>55. CASE GameExit
  BY <1>55 DEF GameExit
<1>56. CASE SettleTick
  BY <1>56 DEF SettleTick, Free
<1>57. CASE AutoStart
  BY <1>57 DEF AutoStart, Free
<1>58. CASE StartAsked
  BY <1>58 DEF StartAsked, Free
<1>59. CASE RestartAsked
  BY <1>59 DEF RestartAsked, Free
<1>60. CASE StopAsked
  BY <1>60 DEF StopAsked, Free
<1>61. CASE Crash
  BY <1>61 DEF Crash
<1>62. CASE AgentStop
  BY <1>62 DEF AgentStop
<1>63. CASE UNCHANGED vars
  BY <1>63 DEF vars
<1> HIDE DEF TypeInv, TypeOK, JournalHeld, JournalSteps, LockInv, RestoreOnly,
       Restoring, Settling, BoxInv, RunsInPlace, Forward, StoppedSteps, HoldInv,
       MovedInv, AsideInv, JournalsInv, RestInv, PlaceInv, StepsInv, Journal,
       Unswapped, Over, Back, There, In, Matches, NoneAside, Restored, OneFault,
       Journaled, HadLive, Free, worlds, stages, conts, locks, notes, hist
<1>64. ASSUME NEW r \in Restores, RestoreStep(r) PROVE JournalsInv'
  BY <1>64, <1>1, <1>2, <1>3, <1>4, <1>5, <1>6, <1>7, <1>8, <1>9, <1>10,
     <1>11, <1>12, <1>13, <1>14, <1>15, <1>16, <1>17, <1>18, <1>19, <1>20,
     <1>21, <1>22, <1>23, <1>24, <1>25, <1>26, <1>27, <1>28, <1>29, <1>30,
     <1>31, <1>32, <1>33, <1>34, <1>35, <1>36, <1>37, <1>38
  DEF RestoreStep
<1>65. CASE AgentStep
  BY <1>65, <1>39, <1>47, <1>48, <1>49, <1>50, <1>51, <1>52, <1>53, <1>64
  DEF AgentStep
<1>. QED
  BY <1>40, <1>41, <1>42, <1>43, <1>44, <1>45, <1>46, <1>54, <1>55, <1>56,
     <1>57, <1>58, <1>59, <1>60, <1>61, <1>62, <1>63, <1>65
  DEF Next

LEMMA PlaceNext ==
    ASSUME OneFault, TypeInv, LockInv, BoxInv, HoldInv, MovedInv, AsideInv,
           JournalsInv, RestInv, PlaceInv, StepsInv, [Next]_vars
    PROVE  PlaceInv'
<1>0. ASSUME pc \in RestoreOnly \/ Restoring
      PROVE  /\ Restoring /\ cur \in Restores /\ op[cur] = "running"
             /\ cur \notin settled
             /\ Journaled \subseteq {cur}
  <2>1. Restoring
    BY <1>0 DEF LockInv
  <2>2. cur \in Restores /\ op[cur] = "running"
    BY <2>1 DEF LockInv
  <2>3. Journaled \subseteq {cur}
    BY <2>2 DEF HoldInv
  <2>4. cur \notin settled
    BY <2>2 DEF RestInv
  <2>. QED
    BY <2>1, <2>2, <2>3, <2>4
<1> USE RestoresAssumption
    DEF TypeInv, TypeOK, JournalHeld, JournalSteps, LockInv, RestoreOnly,
        Restoring, Settling, BoxInv, RunsInPlace, Forward, StoppedSteps,
        HoldInv, MovedInv, AsideInv, JournalsInv, RestInv, PlaceInv, StepsInv,
        Journal, Unswapped, Over, Back, There, In, Matches, NoneAside, Restored,
        OneFault, Journaled, HadLive, Free, worlds, stages, conts, locks, notes,
        hist
<1>1. ASSUME NEW r \in Restores, Stop(r) PROVE PlaceInv'
  BY <1>1 DEF Stop, At, SameLock, Quiet, StopServer, Fault, Cut, Release
<1>2. ASSUME NEW r \in Restores, SaveRollback(r) PROVE PlaceInv'
  BY <1>2 DEF SaveRollback, At, SameLock
<1>3. ASSUME NEW r \in Restores, WriteJournal(r) PROVE PlaceInv'
  BY <1>3 DEF WriteJournal, At, SameLock, Fault
<1>4. ASSUME NEW r \in Restores, GiveUp(r) PROVE PlaceInv'
  BY <1>4 DEF GiveUp, At, SameLock, Quiet, StartServer, StartFailed
<1>5. ASSUME NEW r \in Restores, AwaitPrevious(r) PROVE PlaceInv'
  BY <1>5 DEF AwaitPrevious, At, SameLock, Quiet
<1>6. ASSUME NEW r \in Restores, SetAside(r) PROVE PlaceInv'
  BY <1>6 DEF SetAside, At, SameLock, Quiet, Fault
<1>7. ASSUME NEW r \in Restores, MoveIn(r) PROVE PlaceInv'
  BY <1>7 DEF MoveIn, At, SameLock, Quiet, Fault
<1>8. ASSUME NEW r \in Restores, UndoMoveIn(r) PROVE PlaceInv'
  <2>1. CASE journal' = journal
    BY <1>8, <2>1 DEF UndoMoveIn, At, SameLock, Undoing, Quiet, HadLive, Fault
  <2>2. CASE journal' = [journal EXCEPT ![r].state = "reverting"]
    <3>1. journal[r] # NoJournal
      BY <1>8 DEF UndoMoveIn, At, Undoing
    <3>2. /\ journal'[r].state = "reverting"
          /\ journal'[r].hadLive = journal[r].hadLive
          /\ journal'[r].prev = journal[r].prev
          /\ journal'[r] # NoJournal
          /\ \A q \in Restores \ {r} : journal'[q] = journal[q]
      BY ONLY r \in Restores, TypeInv, <2>2, <3>1, JournalRewritten
    <3>. QED
      BY <1>8, <3>1, <3>2 DEF UndoMoveIn, At, SameLock, Undoing, Quiet, HadLive,
         Fault
  <2>. QED
    BY <1>8, <2>1, <2>2 DEF UndoMoveIn, Undoing
<1>9. ASSUME NEW r \in Restores, PutBackUnmoved(r) PROVE PlaceInv'
  BY <1>9 DEF PutBackUnmoved, At, SameLock, Quiet, Fault
<1>10. ASSUME NEW r \in Restores, RescueStaged(r) PROVE PlaceInv'
  BY <1>10 DEF RescueStaged, At, SameLock, Quiet, Fault, FailKeepingStage
<1>11. ASSUME NEW r \in Restores, SaveRestored(r) PROVE PlaceInv'
  BY <1>11 DEF SaveRestored, At, SameLock, Quiet, Fault
<1>12. ASSUME NEW r \in Restores, JournalChecking(r) PROVE PlaceInv'
  <2>1. CASE journal' = journal
    BY <1>12, <2>1 DEF JournalChecking, At, SameLock, Quiet, Fault
  <2>2. CASE journal' = [journal EXCEPT ![r].state = "checking"]
    <3>1. journal[r] # NoJournal
      BY <1>12 DEF JournalChecking, At
    <3>2. /\ journal'[r].state = "checking"
          /\ journal'[r].hadLive = journal[r].hadLive
          /\ journal'[r].prev = journal[r].prev
          /\ journal'[r] # NoJournal
          /\ \A q \in Restores \ {r} : journal'[q] = journal[q]
      BY ONLY r \in Restores, TypeInv, <2>2, <3>1, JournalRewritten
    <3>. QED
      BY <1>12, <3>1, <3>2 DEF JournalChecking, At, SameLock, Quiet, Fault
  <2>. QED
    BY <1>12, <2>1, <2>2 DEF JournalChecking
<1>13. ASSUME NEW r \in Restores, UnsaveRestored(r) PROVE PlaceInv'
  BY <1>13 DEF UnsaveRestored, At, SameLock, Quiet, Fault
<1>14. ASSUME NEW r \in Restores, UndoSettings(r) PROVE PlaceInv'
  <2>1. CASE journal' = journal
    BY <1>14, <2>1 DEF UndoSettings, At, SameLock, Undoing, Quiet, HadLive, Fault
  <2>2. CASE journal' = [journal EXCEPT ![r].state = "reverting"]
    <3>1. journal[r] # NoJournal
      BY <1>14 DEF UndoSettings, At, Undoing
    <3>2. /\ journal'[r].state = "reverting"
          /\ journal'[r].hadLive = journal[r].hadLive
          /\ journal'[r].prev = journal[r].prev
          /\ journal'[r] # NoJournal
          /\ \A q \in Restores \ {r} : journal'[q] = journal[q]
      BY ONLY r \in Restores, TypeInv, <2>2, <3>1, JournalRewritten
    <3>. QED
      BY <1>14, <3>1, <3>2 DEF UndoSettings, At, SameLock, Undoing, Quiet, HadLive,
         Fault
  <2>. QED
    BY <1>14, <2>1, <2>2 DEF UndoSettings, Undoing
<1>15. ASSUME NEW r \in Restores, ClearLive(r) PROVE PlaceInv'
  BY <1>15 DEF ClearLive, At, SameLock, Quiet, Fault, FailKeepingStage
<1>16. ASSUME NEW r \in Restores, PutBackMoved(r) PROVE PlaceInv'
  BY <1>16 DEF PutBackMoved, At, SameLock, Quiet, Fault, FailKeepingStage
<1>17. ASSUME NEW r \in Restores, DropFailed(r) PROVE PlaceInv'
  BY <1>17 DEF DropFailed, At, SameLock, Quiet
<1>18. ASSUME NEW r \in Restores, Launch(r) PROVE PlaceInv'
  BY <1>18 DEF Launch, At, SameLock, StartServer, StartFailed, FinishFailed, Release
<1>19. ASSUME NEW r \in Restores, Await(r) PROVE PlaceInv'
  BY <1>19 DEF Await, At, SameLock, Quiet, FinishFailed, Release
<1>20. ASSUME NEW r \in Restores, Keep(r) PROVE PlaceInv'
  <2>1. CASE journal' = journal
    BY <1>20, <2>1 DEF Keep, At, SameLock, Quiet, Fault
  <2>2. CASE journal' = [journal EXCEPT ![r].state = "kept"]
    <3>1. journal[r] # NoJournal
      BY <1>20 DEF Keep, At
    <3>2. /\ journal'[r].state = "kept" /\ journal'[r].hadLive = journal[r].hadLive
          /\ journal'[r].prev = journal[r].prev
          /\ journal'[r] # NoJournal
          /\ \A q \in Restores \ {r} : journal'[q] = journal[q]
      BY ONLY r \in Restores, TypeInv, <2>2, <3>1, JournalRewritten
    <3>. QED
      BY <1>20, <3>1, <3>2 DEF Keep, At, SameLock, Quiet, Fault
  <2>. QED
    BY <1>20, <2>1, <2>2 DEF Keep
<1>21. ASSUME NEW r \in Restores, Revert(r) PROVE PlaceInv'
  <2>1. CASE journal' = journal
    BY <1>21, <2>1 DEF Revert, At, SameLock, Quiet, Fault, FailKeepingStage
  <2>2. CASE journal' = [journal EXCEPT ![r].state = "reverting"]
    <3>1. journal[r] # NoJournal
      BY <1>21 DEF Revert, At
    <3>2. /\ journal'[r].state = "reverting"
          /\ journal'[r].hadLive = journal[r].hadLive
          /\ journal'[r].prev = journal[r].prev
          /\ journal'[r] # NoJournal
          /\ \A q \in Restores \ {r} : journal'[q] = journal[q]
      BY ONLY r \in Restores, TypeInv, <2>2, <3>1, JournalRewritten
    <3>. QED
      BY <1>21, <3>1, <3>2 DEF Revert, At, SameLock, Quiet, Fault, FailKeepingStage
  <2>. QED
    BY <1>21, <2>1, <2>2 DEF Revert, FailKeepingStage
<1>22. ASSUME NEW r \in Restores, RevertStop(r) PROVE PlaceInv'
  BY <1>22 DEF RevertStop, At, SameLock, Quiet, StopServer, Fault, Cut, Release,
     FailKeepingStage
<1>23. ASSUME NEW r \in Restores, BackClear(r) PROVE PlaceInv'
  BY <1>23 DEF BackClear, At, SameLock, Fault, PutPreviousBack, BackFailed,
     FailKeepingStage, SettleFailed, Release, Settling
<1>24. ASSUME NEW r \in Restores, BackMove(r) PROVE PlaceInv'
  BY <1>24 DEF BackMove, At, SameLock, Fault, PutPreviousBack, BackFailed,
     FailKeepingStage, SettleFailed, Release, Settling
<1>25. ASSUME NEW r \in Restores, BackSave(r) PROVE PlaceInv'
  BY <1>25 DEF BackSave, At, SameLock, Fault, PutPreviousBack, BackFailed,
     FailKeepingStage, SettleFailed, Release, Settling
<1>26. ASSUME NEW r \in Restores, StartPrevious(r) PROVE PlaceInv'
  BY <1>26 DEF StartPrevious, At, SameLock, Quiet, StartServer, StartFailed
<1>27. ASSUME NEW r \in Restores, DropAside(r) PROVE PlaceInv'
  BY <1>27 DEF DropAside, At, SameLock, Quiet
<1>28. ASSUME NEW r \in Restores, DropAsideRest(r) PROVE PlaceInv'
  BY <1>28 DEF DropAsideRest, At, SameLock, Fault, SettleFailed, Release, Settling
<1>29. ASSUME NEW r \in Restores, DropStage(r) PROVE PlaceInv'
  BY <1>29 DEF DropStage, At, SameLock, Fault, SettleFailed, Release, Settling
<1>30. ASSUME NEW r \in Restores, DropStageRest(r) PROVE PlaceInv'
  BY <1>30 DEF DropStageRest, At, SameLock, Settling, Release
<1>31. ASSUME NEW r \in Restores, End(r) PROVE PlaceInv'
  BY <1>31 DEF End, At, SameLock, Quiet, Release
<1>32. ASSUME NEW r \in Restores, Recover(r) PROVE PlaceInv'
  BY <1>32 DEF Recover, At, Journals, SameLock, Quiet
<1>33. ASSUME NEW r \in Restores, Adopt(r) PROVE PlaceInv'
  BY <1>33 DEF Adopt, At, SameLock, Quiet, Release
<1>34. ASSUME NEW r \in Restores, ForwardClear(r) PROVE PlaceInv'
  BY <1>34 DEF ForwardClear, At, SameLock, Quiet, Fault, ForwardFailed
<1>35. ASSUME NEW r \in Restores, ForwardMove(r) PROVE PlaceInv'
  BY <1>35 DEF ForwardMove, At, SameLock, Quiet, Fault, ForwardFailed
<1>36. ASSUME NEW r \in Restores, ForwardSave(r) PROVE PlaceInv'
  BY <1>36 DEF ForwardSave, At, SameLock, Quiet, Fault, ForwardFailed
<1>37. ASSUME NEW r \in Restores, ForwardJournal(r) PROVE PlaceInv'
  <2>1. CASE journal' = journal
    BY <1>37, <2>1 DEF ForwardJournal, At, SameLock, Quiet, Fault, ForwardFailed
  <2>2. CASE journal' = [journal EXCEPT ![r].state = "checking"]
    <3>1. journal[r] # NoJournal
      BY <1>37 DEF ForwardJournal, At
    <3>2. /\ journal'[r].state = "checking"
          /\ journal'[r].hadLive = journal[r].hadLive
          /\ journal'[r].prev = journal[r].prev
          /\ journal'[r] # NoJournal
          /\ \A q \in Restores \ {r} : journal'[q] = journal[q]
      BY ONLY r \in Restores, TypeInv, <2>2, <3>1, JournalRewritten
    <3>. QED
      BY <1>37, <3>1, <3>2 DEF ForwardJournal, At, SameLock, Quiet, Fault,
         ForwardFailed
  <2>. QED
    BY <1>37, <2>1, <2>2 DEF ForwardJournal, ForwardFailed
<1>38. ASSUME NEW r \in Restores, SettleSwap(r) PROVE PlaceInv'
  BY <1>38 DEF SettleSwap, At, SameLock, SettleFailed, Release
<1>39. ASSUME NEW r \in Restores, Prune(r) PROVE PlaceInv'
  BY <1>39 DEF Prune
<1>40. ASSUME NEW r \in Restores, StageArchive(r) PROVE PlaceInv'
  BY <1>40 DEF StageArchive, Free
<1>41. ASSUME NEW r \in Restores, ApplyAsked(r) PROVE PlaceInv'
  BY <1>41 DEF ApplyAsked
<1>42. ASSUME NEW r \in Restores, ApplyBusy(r) PROVE PlaceInv'
  BY <1>42 DEF ApplyBusy
<1>43. ASSUME NEW r \in Restores, ApplyBegin(r) PROVE PlaceInv'
  BY <1>43 DEF ApplyBegin, Free
<1>44. ASSUME NEW r \in Restores, DiscardStage(r) PROVE PlaceInv'
  BY <1>44 DEF DiscardStage, Free
<1>45. ASSUME NEW r \in Restores, MoveBackByHand(r) PROVE PlaceInv'
  BY <1>45 DEF MoveBackByHand, Journaled
<1>46. ASSUME NEW r \in Restores, DiscardCopy(r) PROVE PlaceInv'
  BY <1>46 DEF DiscardCopy, Free, Journaled
<1>47. CASE AgentStart
  BY <1>47 DEF AgentStart
<1>48. CASE AgentUp
  BY <1>48 DEF AgentUp
<1>49. CASE AgentExit
  BY <1>49 DEF AgentExit
<1>50. CASE SettleNext
  BY <1>50 DEF SettleNext, Release, SameLock, Journaled
<1>51. CASE Halt
  BY <1>51 DEF Halt, StopServer, Fault, Cut, Release, SameLock
<1>52. CASE LaunchOwn
  BY <1>52 DEF LaunchOwn, StartServer, StartFailed, Release, SameLock,
     OwnStartFailed
<1>53. CASE AwaitOwn
  BY <1>53 DEF AwaitOwn, Release, SameLock, OwnStartFailed
<1>54. CASE GameOnline
  BY <1>54 DEF GameOnline
<1>55. CASE GameExit
  BY <1>55 DEF GameExit
<1>56. CASE SettleTick
  BY <1>56 DEF SettleTick, Free
<1>57. CASE AutoStart
  BY <1>57 DEF AutoStart, Free
<1>58. CASE StartAsked
  BY <1>58 DEF StartAsked, Free
<1>59. CASE RestartAsked
  BY <1>59 DEF RestartAsked, Free
<1>60. CASE StopAsked
  BY <1>60 DEF StopAsked, Free
<1>61. CASE Crash
  BY <1>61 DEF Crash
<1>62. CASE AgentStop
  BY <1>62 DEF AgentStop
<1>63. CASE UNCHANGED vars
  BY <1>63 DEF vars
<1> HIDE DEF TypeInv, TypeOK, JournalHeld, JournalSteps, LockInv, RestoreOnly,
       Restoring, Settling, BoxInv, RunsInPlace, Forward, StoppedSteps, HoldInv,
       MovedInv, AsideInv, JournalsInv, RestInv, PlaceInv, StepsInv, Journal,
       Unswapped, Over, Back, There, In, Matches, NoneAside, Restored, OneFault,
       Journaled, HadLive, Free, worlds, stages, conts, locks, notes, hist
<1>64. ASSUME NEW r \in Restores, RestoreStep(r) PROVE PlaceInv'
  BY <1>64, <1>1, <1>2, <1>3, <1>4, <1>5, <1>6, <1>7, <1>8, <1>9, <1>10,
     <1>11, <1>12, <1>13, <1>14, <1>15, <1>16, <1>17, <1>18, <1>19, <1>20,
     <1>21, <1>22, <1>23, <1>24, <1>25, <1>26, <1>27, <1>28, <1>29, <1>30,
     <1>31, <1>32, <1>33, <1>34, <1>35, <1>36, <1>37, <1>38
  DEF RestoreStep
<1>65. CASE AgentStep
  BY <1>65, <1>39, <1>47, <1>48, <1>49, <1>50, <1>51, <1>52, <1>53, <1>64
  DEF AgentStep
<1>. QED
  BY <1>40, <1>41, <1>42, <1>43, <1>44, <1>45, <1>46, <1>54, <1>55, <1>56,
     <1>57, <1>58, <1>59, <1>60, <1>61, <1>62, <1>63, <1>65
  DEF Next

(* With one failing step at most, the step that fails is the last to. *)
LEMMA FaultSpent ==
    ASSUME OneFault, TypeInv, Fault PROVE faults # MaxFaults /\ faults' = MaxFaults
BY BoundAssumption DEF OneFault, TypeInv, TypeOK, Fault

LEMMA StepsNext ==
    ASSUME OneFault, TypeInv, LockInv, BoxInv, HoldInv, MovedInv, AsideInv,
           JournalsInv, RestInv, PlaceInv, StepsInv, [Next]_vars
    PROVE  StepsInv'
<1>0. ASSUME pc \in RestoreOnly \/ Restoring
      PROVE  /\ Restoring /\ cur \in Restores /\ op[cur] = "running"
             /\ cur \notin settled
             /\ Journaled \subseteq {cur}
  <2>1. Restoring
    BY <1>0 DEF LockInv
  <2>2. cur \in Restores /\ op[cur] = "running"
    BY <2>1 DEF LockInv
  <2>3. Journaled \subseteq {cur}
    BY <2>2 DEF HoldInv
  <2>4. cur \notin settled
    BY <2>2 DEF RestInv
  <2>. QED
    BY <2>1, <2>2, <2>3, <2>4
<1>43. ASSUME NEW r \in Restores, ApplyBegin(r) PROVE StepsInv'
  <2>1. /\ cur' = r /\ pc' = "stop" /\ kind' = "restore" /\ result' = "failed"
        /\ (wasUp' => box # "stopped") /\ UNCHANGED <<live, staged, journal>>
        /\ op[r] = "none" /\ asked[r] # "no" /\ agent = "up"
    BY <1>43 DEF ApplyBegin, worlds, stages, Free
  <2>2. staged[r] = r /\ journal[r] = NoJournal
    BY <2>1 DEF RestInv, LockInv
  <2>3. wasUp' => live # None
    BY <2>1, RestoresAssumption DEF BoxInv, RunsInPlace, TypeInv, TypeOK, Worlds
  <2>. QED
    BY <2>1, <2>2, <2>3 DEF StepsInv, Journaled, Restoring
<1>3. ASSUME NEW r \in Restores, WriteJournal(r) PROVE StepsInv'
  <2>1. /\ cur = r /\ pc = "journal"
        /\ UNCHANGED <<live, aside, staged, settings, op, played, asked, wasUp,
                       result, kind, cur>>
    BY <1>3 DEF WriteJournal, At, SameLock, locks, worlds, notes
  <2>2. /\ journal[r] = NoJournal /\ staged[r] = r /\ kind = "restore"
        /\ (wasUp => live # None)
        /\ live # r /\ r # None
    BY <2>1, RestoresAssumption DEF BoxInv, StepsInv, PlaceInv
  <2>3. result = "failed"
    BY <2>1, <2>2 DEF StepsInv, There, Restoring, TypeInv, TypeOK
  <2> DEFINE j == [state |-> "moving", hadLive |-> live # None, prev |-> settings]
  <2>4. CASE pc' = "giveUp" /\ UNCHANGED <<journal, was>>
    BY <2>1, <2>2, <2>3, <2>4 DEF StepsInv, Journaled
  <2>5. CASE /\ journal' = [journal EXCEPT ![r] = j]
             /\ pc' = IF live # None THEN "aside" ELSE "moveIn"
    <3>1. j.state = "moving" /\ (j.hadLive <=> live # None)
      OBVIOUS
    <3> HIDE DEF j
    <3>2. journal'[r] = j
      BY <2>5 DEF TypeInv, TypeOK
    <3>3. In(r, {"moving"})' /\ (HadLive(r)' <=> live # None)
      BY <3>1, <3>2 DEF In, HadLive
    <3>. QED
      BY <2>1, <2>2, <2>3, <2>5, <3>3 DEF StepsInv
  <2>. QED
    BY <1>3, <2>4, <2>5 DEF WriteJournal
<1>7. ASSUME NEW r \in Restores, MoveIn(r) PROVE StepsInv'
  <2>1. /\ cur = r /\ pc = "moveIn"
        /\ UNCHANGED <<aside, settings, op, played, asked, was, journal, wasUp, kind,
                       cur, result>>
    BY <1>7 DEF MoveIn, At, SameLock, Quiet, locks, stages, hist
  <2>2. /\ In(r, {"moving"}) /\ staged[r] = r /\ kind = "restore" /\ live = None
        /\ r # None
        /\ (r \in Journaled /\ wasUp => HadLive(r))
    BY <2>1, RestoresAssumption DEF StepsInv, AsideInv
  <2>3. result = "failed" /\ r \in Journaled
    BY <2>1, <2>2, RestoresAssumption DEF StepsInv, There, Restoring, TypeInv,
       TypeOK, JournalHeld, JournalSteps, Journaled
  <2>4. settings = journal[r].prev /\ (~HadLive(r) => was[r] = None)
    BY <2>2, <2>3 DEF JournalsInv, Journal, Unswapped, In
  <2>5. In(r, {"moving"})' /\ HadLive(r)' = HadLive(r) /\ Journaled' = Journaled
    BY <2>1, <2>2 DEF In, HadLive, Journaled
  <2>6. CASE live' = r /\ staged'[r] = None /\ pc' = "save"
    BY <2>1, <2>2, <2>3, <2>4, <2>5, <2>6 DEF StepsInv
  <2>7. CASE /\ Fault /\ UNCHANGED <<live, staged>>
             /\ pc' = IF HadLive(r) THEN "undo1" ELSE "drop"
    <3>1. faults' = MaxFaults
      BY <2>7, FaultSpent
    <3>2. In(r, {"moving", "reverting"})'
      BY <2>5 DEF In
    <3>3. ~HadLive(r) => Over(r)'
      BY <2>1, <2>2, <2>4, <2>7 DEF Over, Back
    <3>. QED
      BY <2>1, <2>2, <2>3, <2>5, <2>7, <3>1, <3>2, <3>3 DEF StepsInv
  <2>. QED
    BY <1>7, <2>2, <2>6, <2>7 DEF MoveIn, TypeInv, TypeOK
<1>11. ASSUME NEW r \in Restores, SaveRestored(r) PROVE StepsInv'
  <2>1. /\ cur = r /\ pc = "save"
        /\ UNCHANGED <<live, staged, aside, op, was, journal, wasUp, kind, cur,
                       result>>
    BY <1>11 DEF SaveRestored, At, SameLock, Quiet, locks, stages, worlds, hist
  <2>2. /\ In(r, {"moving"}) /\ staged[r] = None /\ kind = "restore" /\ live = r
        /\ r # None
        /\ settings = journal[r].prev /\ (r \in Journaled /\ wasUp => HadLive(r))
    BY <2>1, RestoresAssumption DEF StepsInv
  <2>3. r \in Journaled
    BY <2>1 DEF TypeInv, JournalHeld, JournalSteps, Journaled
  <2>4. result = "failed"
    BY <2>1, <2>2, <2>3 DEF StepsInv, In, Restoring, TypeInv, TypeOK
  <2>5. In(r, {"moving"})' /\ HadLive(r)' = HadLive(r) /\ Journaled' = Journaled
    BY <2>1, <2>2 DEF In, HadLive, Journaled
  <2>6. CASE settings' = r /\ pc' = "check"
    BY <2>1, <2>2, <2>4, <2>5, <2>6 DEF StepsInv
  <2>7. CASE Fault /\ pc' = "undo2" /\ settings' = settings
    <3>1. faults' = MaxFaults
      BY <2>7, FaultSpent
    <3>. QED
      BY <2>1, <2>2, <2>4, <2>5, <2>7, <3>1 DEF StepsInv
  <2>. QED
    BY <1>11, <2>6, <2>7 DEF SaveRestored
<1>12. ASSUME NEW r \in Restores, JournalChecking(r) PROVE StepsInv'
  <2>1. /\ cur = r /\ pc = "check"
        /\ UNCHANGED <<live, staged, settings, op, was, wasUp, kind, cur, result>>
    BY <1>12 DEF JournalChecking, At, SameLock, Quiet, locks, worlds, hist
  <2>2. /\ In(r, {"moving"}) /\ staged[r] = None /\ kind = "restore" /\ live = r
        /\ r # None
        /\ (r \in Journaled /\ wasUp => HadLive(r))
    BY <2>1, RestoresAssumption DEF StepsInv
  <2>3. r \in Journaled
    BY <2>1 DEF TypeInv, JournalHeld, JournalSteps, Journaled
  <2>4. result = "failed"
    BY <2>1, <2>2, <2>3 DEF StepsInv, In, Restoring, TypeInv, TypeOK
  <2>5. CASE journal' = [journal EXCEPT ![r].state = "checking"] /\ pc' = "launch"
    <3>1. journal'[r].state = "checking"
      BY <2>3, <2>5, JournalRewritten DEF Journaled, TypeInv, TypeOK
    <3>2. In(r, {"checking"})'
      BY <3>1 DEF In
    <3>. QED
      BY <2>1, <2>4, <2>5, <3>2 DEF StepsInv
  <2>6. CASE Fault /\ pc' = "unsave" /\ UNCHANGED journal
    <3>1. faults' = MaxFaults
      BY <2>6, FaultSpent
    <3>2. In(r, {"moving"})' /\ HadLive(r)' = HadLive(r) /\ Journaled' = Journaled
      BY <2>2, <2>6 DEF In, HadLive, Journaled
    <3>. QED
      BY <2>1, <2>2, <2>4, <2>6, <3>1, <3>2 DEF StepsInv
  <2>. QED
    BY <1>12, <2>5, <2>6 DEF JournalChecking
<1>14. ASSUME NEW r \in Restores, UndoSettings(r) PROVE StepsInv'
  <2>1. /\ cur = r /\ pc = "undo2" /\ pc' = "clear"
        /\ UNCHANGED <<live, staged, settings, op, was, wasUp, kind, cur, result>>
    BY <1>14 DEF UndoSettings, Undoing, At, SameLock, Quiet, locks, worlds, hist
  <2>2. /\ In(r, {"moving"}) /\ staged[r] = None /\ kind = "restore" /\ live = r
        /\ r # None
        /\ settings = journal[r].prev /\ (r \in Journaled /\ wasUp => HadLive(r))
        /\ faults = MaxFaults
    BY <2>1, RestoresAssumption DEF StepsInv
  <2>3. r \in Journaled
    BY <2>1 DEF TypeInv, JournalHeld, JournalSteps, Journaled
  <2>4. result = "failed"
    BY <2>1, <2>2, <2>3 DEF StepsInv, In, Restoring, TypeInv, TypeOK
  <2>5. ~Fault
    BY <2>2, FaultSpent
  <2>6. CASE /\ HadLive(r) /\ UNCHANGED faults
             /\ journal' = [journal EXCEPT ![r].state = "reverting"]
    <3>1. /\ journal'[r].state = "reverting"
          /\ journal'[r].hadLive = journal[r].hadLive
          /\ journal'[r].prev = journal[r].prev
      BY <2>3, <2>6, JournalRewritten DEF Journaled, TypeInv, TypeOK
    <3>2. In(r, {"reverting"})' /\ HadLive(r)'
      BY <2>6, <3>1 DEF In, HadLive
    <3>. QED
      BY <2>1, <2>2, <2>4, <2>6, <3>1, <3>2 DEF StepsInv
  <2>7. CASE ~HadLive(r) /\ UNCHANGED <<journal, faults>>
    <3>1. In(r, {"moving"})' /\ ~HadLive(r)' /\ Journaled' = Journaled
      BY <2>2, <2>7 DEF In, HadLive, Journaled
    <3>. QED
      BY <2>1, <2>2, <2>3, <2>4, <2>7, <3>1 DEF StepsInv
  <2>. QED
    BY <1>14, <2>5, <2>6, <2>7 DEF UndoSettings, Undoing
<1>20. ASSUME NEW r \in Restores, Keep(r) PROVE StepsInv'
  <2>1. /\ cur = r /\ pc = "keep" /\ result' = "succeeded"
        /\ UNCHANGED <<live, staged, settings, op, was, played, asked, wasUp, kind,
                       cur>>
    BY <1>20 DEF Keep, At, SameLock, Quiet, locks, worlds, hist
  <2>2. /\ In(r, {"checking"}) /\ Restored(r) /\ op[r] = "running" /\ Restoring
        /\ kind \notin {"settle", "start"}
    BY <2>1, <1>0 DEF StepsInv, RestoreOnly, Restoring
  <2>3. r \in Journaled
    BY <2>1 DEF TypeInv, JournalHeld, JournalSteps, Journaled
  <2>4. There(r) /\ There(r)' /\ Restored(r)'
    BY <2>1, <2>2, <2>3 DEF JournalsInv, Journal, There, In, Restored
  <2>5. Over(r)'
    BY <2>4 DEF Over, There
  <2>6. CASE /\ journal' = [journal EXCEPT ![r].state = "kept"]
             /\ pc' \in {"drop", "dropAside"}
    <3>1. journal'[r].state = "kept"
      BY <2>3, <2>6, JournalRewritten DEF Journaled, TypeInv, TypeOK
    <3>2. In(r, {"checking", "kept"})' /\ In(r, {"kept"})'
      BY <3>1 DEF In
    <3>. QED
      BY <2>1, <2>2, <2>4, <2>5, <2>6, <3>2 DEF StepsInv
  <2>7. CASE pc' = "drop" /\ UNCHANGED journal
    <3>1. In(r, {"checking", "kept"})'
      BY <2>2, <2>7 DEF In
    <3>. QED
      BY <2>1, <2>2, <2>4, <2>5, <2>7, <3>1 DEF StepsInv
  <2>. QED
    BY <1>20, <2>6, <2>7 DEF Keep
<1>21. ASSUME NEW r \in Restores, Revert(r) PROVE StepsInv'
  <2>1. /\ cur = r /\ pc = "revert"
        /\ UNCHANGED <<live, settings, asked, played, kind, cur>>
        /\ (result' = result \/ result' = "failed")
    BY <1>21 DEF Revert, At, SameLock, Quiet, locks, worlds, hist, FailKeepingStage
  <2>2. In(r, {"moving", "checking", "reverting"}) /\ HadLive(r) /\ Restoring
    BY <2>1, <1>0 DEF StepsInv, MovedInv, RestoreOnly
  <2>3. r \in Journaled
    BY <2>1 DEF TypeInv, JournalHeld, JournalSteps, Journaled
  <2>4. CASE /\ journal' = [journal EXCEPT ![r].state = "reverting"]
             /\ pc' = "revStop" /\ UNCHANGED <<result, faults>>
    <3>1. /\ journal'[r].state = "reverting"
          /\ journal'[r].hadLive = journal[r].hadLive
      BY <2>3, <2>4, JournalRewritten DEF Journaled, TypeInv, TypeOK
    <3>2. In(r, {"moving", "reverting"})' /\ In(r, {"reverting"})' /\ HadLive(r)'
      BY <2>2, <3>1 DEF In, HadLive
    <3>3. result = "failed"
      BY <2>1 DEF StepsInv, TypeInv, TypeOK
    <3>. QED
      BY <2>1, <2>2, <2>4, <3>2, <3>3 DEF StepsInv, Restoring
  <2>5. CASE pc' = "end" /\ result' = "failed"
    BY <2>1, <2>2, <2>5 DEF StepsInv, Restoring
  <2>. QED
    BY <1>21, <2>4, <2>5 DEF Revert, FailKeepingStage
<1>37. ASSUME NEW r \in Restores, ForwardJournal(r) PROVE StepsInv'
  <2>1. /\ cur = r /\ pc = "fwdJournal"
        /\ UNCHANGED <<live, staged, settings, op, played, asked, kind, cur>>
    BY <1>37 DEF ForwardJournal, At, SameLock, Quiet, locks, worlds, hist
  <2>2. In(r, {"moving"}) /\ Restoring
    BY <2>1, <1>0 DEF StepsInv, RestoreOnly
  <2>3. r \in Journaled
    BY <2>1 DEF TypeInv, JournalHeld, JournalSteps, Journaled
  <2>4. result = "failed"
    BY <2>1, <2>2, <2>3 DEF StepsInv, In, Restoring, TypeInv, TypeOK
  <2>5. CASE /\ journal' = [journal EXCEPT ![r].state = "checking"]
             /\ pc' = "launch" /\ UNCHANGED result
    <3>1. journal'[r].state = "checking"
      BY <2>3, <2>5, JournalRewritten DEF Journaled, TypeInv, TypeOK
    <3>2. In(r, {"checking"})'
      BY <3>1 DEF In
    <3>. QED
      BY <2>1, <2>4, <2>5, <3>2 DEF StepsInv
  <2>6. CASE pc' \in {"revert", "end"} /\ result' = "failed" /\ UNCHANGED journal
    <3>1. In(r, {"moving", "checking", "reverting"})'
      BY <2>2, <2>6 DEF In
    <3>. QED
      BY <2>1, <2>6, <3>1 DEF StepsInv
  <2>. QED
    BY <1>37, <2>5, <2>6 DEF ForwardJournal, ForwardFailed
<1> USE RestoresAssumption
    DEF TypeInv, TypeOK, JournalHeld, JournalSteps, LockInv, RestoreOnly,
        Restoring, Settling, BoxInv, RunsInPlace, Forward, StoppedSteps,
        HoldInv, MovedInv, AsideInv, JournalsInv, RestInv, PlaceInv, StepsInv,
        Journal, Unswapped, Over, Back, There, In, Matches, NoneAside, Restored,
        OneFault, Journaled, HadLive, Free, worlds, stages, conts, locks, notes,
        hist
<1>1. ASSUME NEW r \in Restores, Stop(r) PROVE StepsInv'
  BY <1>1 DEF Stop, At, SameLock, Quiet, StopServer, Fault, Cut, Release
<1>2. ASSUME NEW r \in Restores, SaveRollback(r) PROVE StepsInv'
  BY <1>2 DEF SaveRollback, At, SameLock
<1>4. ASSUME NEW r \in Restores, GiveUp(r) PROVE StepsInv'
  BY <1>4 DEF GiveUp, At, SameLock, Quiet, StartServer, StartFailed
<1>5. ASSUME NEW r \in Restores, AwaitPrevious(r) PROVE StepsInv'
  BY <1>5 DEF AwaitPrevious, At, SameLock, Quiet
<1>6. ASSUME NEW r \in Restores, SetAside(r) PROVE StepsInv'
  BY <1>6 DEF SetAside, At, SameLock, Quiet, Fault
<1>8. ASSUME NEW r \in Restores, UndoMoveIn(r) PROVE StepsInv'
  <2>1. CASE journal' = journal
    BY <1>8, <2>1 DEF UndoMoveIn, At, SameLock, Undoing, Quiet, HadLive, Fault
  <2>2. CASE journal' = [journal EXCEPT ![r].state = "reverting"]
    <3>1. journal[r] # NoJournal
      BY <1>8 DEF UndoMoveIn, At, Undoing
    <3>2. /\ journal'[r].state = "reverting"
          /\ journal'[r].hadLive = journal[r].hadLive
          /\ journal'[r].prev = journal[r].prev
          /\ journal'[r] # NoJournal
          /\ \A q \in Restores \ {r} : journal'[q] = journal[q]
      BY ONLY r \in Restores, TypeInv, <2>2, <3>1, JournalRewritten
    <3>. QED
      BY <1>8, <3>1, <3>2 DEF UndoMoveIn, At, SameLock, Undoing, Quiet, HadLive,
         Fault
  <2>. QED
    BY <1>8, <2>1, <2>2 DEF UndoMoveIn, Undoing
<1>9. ASSUME NEW r \in Restores, PutBackUnmoved(r) PROVE StepsInv'
  BY <1>9 DEF PutBackUnmoved, At, SameLock, Quiet, Fault
<1>10. ASSUME NEW r \in Restores, RescueStaged(r) PROVE StepsInv'
  BY <1>10 DEF RescueStaged, At, SameLock, Quiet, Fault, FailKeepingStage
<1>13. ASSUME NEW r \in Restores, UnsaveRestored(r) PROVE StepsInv'
  BY <1>13 DEF UnsaveRestored, At, SameLock, Quiet, Fault
<1>15. ASSUME NEW r \in Restores, ClearLive(r) PROVE StepsInv'
  BY <1>15 DEF ClearLive, At, SameLock, Quiet, Fault, FailKeepingStage
<1>16. ASSUME NEW r \in Restores, PutBackMoved(r) PROVE StepsInv'
  BY <1>16 DEF PutBackMoved, At, SameLock, Quiet, Fault, FailKeepingStage
<1>17. ASSUME NEW r \in Restores, DropFailed(r) PROVE StepsInv'
  BY <1>17 DEF DropFailed, At, SameLock, Quiet
<1>18. ASSUME NEW r \in Restores, Launch(r) PROVE StepsInv'
  BY <1>18 DEF Launch, At, SameLock, StartServer, StartFailed, FinishFailed, Release
<1>19. ASSUME NEW r \in Restores, Await(r) PROVE StepsInv'
  BY <1>19 DEF Await, At, SameLock, Quiet, FinishFailed, Release
<1>22. ASSUME NEW r \in Restores, RevertStop(r) PROVE StepsInv'
  BY <1>22 DEF RevertStop, At, SameLock, Quiet, StopServer, Fault, Cut, Release,
     FailKeepingStage
<1>23. ASSUME NEW r \in Restores, BackClear(r) PROVE StepsInv'
  BY <1>23 DEF BackClear, At, SameLock, Fault, PutPreviousBack, BackFailed,
     FailKeepingStage, SettleFailed, Release, Settling
<1>24. ASSUME NEW r \in Restores, BackMove(r) PROVE StepsInv'
  BY <1>24 DEF BackMove, At, SameLock, Fault, PutPreviousBack, BackFailed,
     FailKeepingStage, SettleFailed, Release, Settling
<1>25. ASSUME NEW r \in Restores, BackSave(r) PROVE StepsInv'
  BY <1>25 DEF BackSave, At, SameLock, Fault, PutPreviousBack, BackFailed,
     FailKeepingStage, SettleFailed, Release, Settling
<1>26. ASSUME NEW r \in Restores, StartPrevious(r) PROVE StepsInv'
  BY <1>26 DEF StartPrevious, At, SameLock, Quiet, StartServer, StartFailed
<1>27. ASSUME NEW r \in Restores, DropAside(r) PROVE StepsInv'
  BY <1>27 DEF DropAside, At, SameLock, Quiet
<1>28. ASSUME NEW r \in Restores, DropAsideRest(r) PROVE StepsInv'
  BY <1>28 DEF DropAsideRest, At, SameLock, Fault, SettleFailed, Release, Settling
<1>29. ASSUME NEW r \in Restores, DropStage(r) PROVE StepsInv'
  BY <1>29 DEF DropStage, At, SameLock, Fault, SettleFailed, Release, Settling
<1>30. ASSUME NEW r \in Restores, DropStageRest(r) PROVE StepsInv'
  BY <1>30 DEF DropStageRest, At, SameLock, Settling, Release
<1>31. ASSUME NEW r \in Restores, End(r) PROVE StepsInv'
  BY <1>31 DEF End, At, SameLock, Quiet, Release
<1>32. ASSUME NEW r \in Restores, Recover(r) PROVE StepsInv'
  BY <1>32 DEF Recover, At, Journals, SameLock, Quiet
<1>33. ASSUME NEW r \in Restores, Adopt(r) PROVE StepsInv'
  BY <1>33 DEF Adopt, At, SameLock, Quiet, Release
<1>34. ASSUME NEW r \in Restores, ForwardClear(r) PROVE StepsInv'
  BY <1>34 DEF ForwardClear, At, SameLock, Quiet, Fault, ForwardFailed
<1>35. ASSUME NEW r \in Restores, ForwardMove(r) PROVE StepsInv'
  BY <1>35 DEF ForwardMove, At, SameLock, Quiet, Fault, ForwardFailed
<1>36. ASSUME NEW r \in Restores, ForwardSave(r) PROVE StepsInv'
  BY <1>36 DEF ForwardSave, At, SameLock, Quiet, Fault, ForwardFailed
<1>38. ASSUME NEW r \in Restores, SettleSwap(r) PROVE StepsInv'
  BY <1>38 DEF SettleSwap, At, SameLock, SettleFailed, Release
<1>39. ASSUME NEW r \in Restores, Prune(r) PROVE StepsInv'
  BY <1>39 DEF Prune
<1>40. ASSUME NEW r \in Restores, StageArchive(r) PROVE StepsInv'
  BY <1>40 DEF StageArchive, Free
<1>41. ASSUME NEW r \in Restores, ApplyAsked(r) PROVE StepsInv'
  BY <1>41 DEF ApplyAsked
<1>42. ASSUME NEW r \in Restores, ApplyBusy(r) PROVE StepsInv'
  BY <1>42 DEF ApplyBusy
<1>44. ASSUME NEW r \in Restores, DiscardStage(r) PROVE StepsInv'
  BY <1>44 DEF DiscardStage, Free
<1>45. ASSUME NEW r \in Restores, MoveBackByHand(r) PROVE StepsInv'
  BY <1>45 DEF MoveBackByHand, Journaled
<1>46. ASSUME NEW r \in Restores, DiscardCopy(r) PROVE StepsInv'
  BY <1>46 DEF DiscardCopy, Free, Journaled
<1>47. CASE AgentStart
  BY <1>47 DEF AgentStart
<1>48. CASE AgentUp
  BY <1>48 DEF AgentUp
<1>49. CASE AgentExit
  BY <1>49 DEF AgentExit
<1>50. CASE SettleNext
  BY <1>50 DEF SettleNext, Release, SameLock, Journaled
<1>51. CASE Halt
  BY <1>51 DEF Halt, StopServer, Fault, Cut, Release, SameLock
<1>52. CASE LaunchOwn
  BY <1>52 DEF LaunchOwn, StartServer, StartFailed, Release, SameLock,
     OwnStartFailed
<1>53. CASE AwaitOwn
  BY <1>53 DEF AwaitOwn, Release, SameLock, OwnStartFailed
<1>54. CASE GameOnline
  BY <1>54 DEF GameOnline
<1>55. CASE GameExit
  BY <1>55 DEF GameExit
<1>56. CASE SettleTick
  BY <1>56 DEF SettleTick, Free, SettleDue
<1>57. CASE AutoStart
  BY <1>57 DEF AutoStart, Free
<1>58. CASE StartAsked
  BY <1>58 DEF StartAsked, Free, SettleDue
<1>59. CASE RestartAsked
  BY <1>59 DEF RestartAsked, Free
<1>60. CASE StopAsked
  BY <1>60 DEF StopAsked, Free
<1>61. CASE Crash
  BY <1>61 DEF Crash
<1>62. CASE AgentStop
  BY <1>62 DEF AgentStop
<1>63. CASE UNCHANGED vars
  BY <1>63 DEF vars
<1> HIDE DEF TypeInv, TypeOK, JournalHeld, JournalSteps, LockInv, RestoreOnly,
       Restoring, Settling, BoxInv, RunsInPlace, Forward, StoppedSteps, HoldInv,
       MovedInv, AsideInv, JournalsInv, RestInv, PlaceInv, StepsInv, Journal,
       Unswapped, Over, Back, There, In, Matches, NoneAside, Restored, OneFault,
       Journaled, HadLive, Free, worlds, stages, conts, locks, notes, hist
<1>64. ASSUME NEW r \in Restores, RestoreStep(r) PROVE StepsInv'
  BY <1>64, <1>1, <1>2, <1>3, <1>4, <1>5, <1>6, <1>7, <1>8, <1>9, <1>10,
     <1>11, <1>12, <1>13, <1>14, <1>15, <1>16, <1>17, <1>18, <1>19, <1>20,
     <1>21, <1>22, <1>23, <1>24, <1>25, <1>26, <1>27, <1>28, <1>29, <1>30,
     <1>31, <1>32, <1>33, <1>34, <1>35, <1>36, <1>37, <1>38
  DEF RestoreStep
<1>65. CASE AgentStep
  BY <1>65, <1>39, <1>47, <1>48, <1>49, <1>50, <1>51, <1>52, <1>53, <1>64
  DEF AgentStep
<1>. QED
  BY <1>40, <1>41, <1>42, <1>43, <1>44, <1>45, <1>46, <1>54, <1>55, <1>56,
     <1>57, <1>58, <1>59, <1>60, <1>61, <1>62, <1>63, <1>65
  DEF Next

(* All of it. *)
SwapInv ==
    /\ TypeInv /\ LockInv /\ BoxInv /\ HoldInv /\ MovedInv /\ AsideInv
    /\ JournalsInv /\ RestInv /\ PlaceInv /\ StepsInv

LEMMA SwapInvInit == Init => SwapInv
BY TypeInit, LockInit, BoxInit, HoldInit, MovedInit, AsideInit, SwapInit DEF SwapInv

LEMMA SwapInvNext == Apart /\ OneFault /\ SwapInv /\ [Next]_vars => SwapInv'
BY TypeNext, LockNext, BoxNext, HoldNext, MovedNext, AsideNext, JournalsNext,
   RestNext,
   PlaceNext, StepsNext DEF SwapInv

-----------------------------------------------------------------------------
LEMMA RunsNext ==
    ASSUME OneFault, TypeInv, LockInv, BoxInv, HoldInv, MovedInv, AsideInv,
           JournalsInv, RestInv, PlaceInv, StepsInv, RunsMatched, [Next]_vars
    PROVE  RunsMatched'
<1>0. ASSUME pc \in RestoreOnly \/ Restoring
      PROVE  /\ Restoring /\ cur \in Restores /\ op[cur] = "running"
             /\ cur \notin settled
             /\ Journaled \subseteq {cur}
  <2>1. Restoring
    BY <1>0 DEF LockInv
  <2>2. cur \in Restores /\ op[cur] = "running"
    BY <2>1 DEF LockInv
  <2>3. Journaled \subseteq {cur}
    BY <2>2 DEF HoldInv
  <2>4. cur \notin settled
    BY <2>2 DEF RestInv
  <2>. QED
    BY <2>1, <2>2, <2>3, <2>4
<1>52. CASE LaunchOwn
  <2>1. UNCHANGED <<settings, op, was, journal>>
    BY <1>52 DEF LaunchOwn, StartServer, StartFailed, stages, notes, hist
  <2>2. \/ UNCHANGED <<box, ran>>
        \/ /\ CanStart(None)
           /\ ran' = [world |-> IF live = None THEN Fresh ELSE live,
                      settings |-> settings]
    BY <1>52 DEF LaunchOwn, StartServer, StartFailed
  <2>3. CanStart(None) => Matches(live, settings)
    <3>1. SUFFICES ASSUME CanStart(None), NEW q \in Journaled
                   PROVE  Matches(live, settings)
      BY DEF RestInv
    <3>2. q \in settled
      BY <3>1, RestoresAssumption DEF CanStart, StartRefusal, Journaled
    <3>3. Over(q) /\ Journal(q)
      BY <3>2 DEF RestInv, JournalsInv
    <3>4. CASE Back(q)
      BY <3>3, <3>4 DEF Back, Journal
    <3>5. CASE There(q)
      BY <3>5 DEF There, Matches
    <3>6. CASE ~HadLive(q) /\ live = q /\ op[q] = "failed"
      BY <3>3, <3>6 DEF Journal, Matches, Journaled
    <3>. QED
      BY <3>3, <3>4, <3>5, <3>6 DEF Over
  <2>. QED
    BY <2>1, <2>2, <2>3 DEF RunsMatched, Matches
<1> USE RestoresAssumption
    DEF TypeInv, TypeOK, JournalHeld, JournalSteps, LockInv, RestoreOnly,
        Restoring, Settling, BoxInv, RunsInPlace, Forward, StoppedSteps,
        HoldInv, MovedInv, AsideInv, JournalsInv, RestInv, PlaceInv, StepsInv,
        Journal, Unswapped, Over, Back, There, In, Matches, NoneAside, Restored,
        OneFault, RunsMatched, Journaled, HadLive, Free, worlds, stages, conts,
        locks, notes, hist
<1>1. ASSUME NEW r \in Restores, Stop(r) PROVE RunsMatched'
  BY <1>1 DEF Stop, At, SameLock, Quiet, StopServer, Fault, Cut, Release
<1>2. ASSUME NEW r \in Restores, SaveRollback(r) PROVE RunsMatched'
  BY <1>2 DEF SaveRollback, At, SameLock
<1>3. ASSUME NEW r \in Restores, WriteJournal(r) PROVE RunsMatched'
  BY <1>3 DEF WriteJournal, At, SameLock, Fault
<1>4. ASSUME NEW r \in Restores, GiveUp(r) PROVE RunsMatched'
  BY <1>4 DEF GiveUp, At, SameLock, Quiet, StartServer, StartFailed
<1>5. ASSUME NEW r \in Restores, AwaitPrevious(r) PROVE RunsMatched'
  BY <1>5 DEF AwaitPrevious, At, SameLock, Quiet
<1>6. ASSUME NEW r \in Restores, SetAside(r) PROVE RunsMatched'
  BY <1>6 DEF SetAside, At, SameLock, Quiet, Fault
<1>7. ASSUME NEW r \in Restores, MoveIn(r) PROVE RunsMatched'
  BY <1>7 DEF MoveIn, At, SameLock, Quiet, Fault
<1>8. ASSUME NEW r \in Restores, UndoMoveIn(r) PROVE RunsMatched'
  BY <1>8 DEF UndoMoveIn, At, SameLock, Undoing, Quiet, HadLive, Fault
<1>9. ASSUME NEW r \in Restores, PutBackUnmoved(r) PROVE RunsMatched'
  BY <1>9 DEF PutBackUnmoved, At, SameLock, Quiet, Fault
<1>10. ASSUME NEW r \in Restores, RescueStaged(r) PROVE RunsMatched'
  BY <1>10 DEF RescueStaged, At, SameLock, Quiet, Fault, FailKeepingStage
<1>11. ASSUME NEW r \in Restores, SaveRestored(r) PROVE RunsMatched'
  BY <1>11 DEF SaveRestored, At, SameLock, Quiet, Fault
<1>12. ASSUME NEW r \in Restores, JournalChecking(r) PROVE RunsMatched'
  BY <1>12 DEF JournalChecking, At, SameLock, Quiet, Fault
<1>13. ASSUME NEW r \in Restores, UnsaveRestored(r) PROVE RunsMatched'
  BY <1>13 DEF UnsaveRestored, At, SameLock, Quiet, Fault
<1>14. ASSUME NEW r \in Restores, UndoSettings(r) PROVE RunsMatched'
  BY <1>14 DEF UndoSettings, At, SameLock, Undoing, Quiet, HadLive, Fault
<1>15. ASSUME NEW r \in Restores, ClearLive(r) PROVE RunsMatched'
  BY <1>15 DEF ClearLive, At, SameLock, Quiet, Fault, FailKeepingStage
<1>16. ASSUME NEW r \in Restores, PutBackMoved(r) PROVE RunsMatched'
  BY <1>16 DEF PutBackMoved, At, SameLock, Quiet, Fault, FailKeepingStage
<1>17. ASSUME NEW r \in Restores, DropFailed(r) PROVE RunsMatched'
  BY <1>17 DEF DropFailed, At, SameLock, Quiet
<1>18. ASSUME NEW r \in Restores, Launch(r) PROVE RunsMatched'
  BY <1>18 DEF Launch, At, SameLock, StartServer, StartFailed, FinishFailed, Release
<1>19. ASSUME NEW r \in Restores, Await(r) PROVE RunsMatched'
  BY <1>19 DEF Await, At, SameLock, Quiet, FinishFailed, Release
<1>20. ASSUME NEW r \in Restores, Keep(r) PROVE RunsMatched'
  BY <1>20 DEF Keep, At, SameLock, Quiet, Fault
<1>21. ASSUME NEW r \in Restores, Revert(r) PROVE RunsMatched'
  BY <1>21 DEF Revert, At, SameLock, Quiet, Fault, FailKeepingStage
<1>22. ASSUME NEW r \in Restores, RevertStop(r) PROVE RunsMatched'
  BY <1>22 DEF RevertStop, At, SameLock, Quiet, StopServer, Fault, Cut, Release,
     FailKeepingStage
<1>23. ASSUME NEW r \in Restores, BackClear(r) PROVE RunsMatched'
  BY <1>23 DEF BackClear, At, SameLock, Fault, PutPreviousBack, BackFailed,
     FailKeepingStage, SettleFailed, Release, Settling
<1>24. ASSUME NEW r \in Restores, BackMove(r) PROVE RunsMatched'
  BY <1>24 DEF BackMove, At, SameLock, Fault, PutPreviousBack, BackFailed,
     FailKeepingStage, SettleFailed, Release, Settling
<1>25. ASSUME NEW r \in Restores, BackSave(r) PROVE RunsMatched'
  BY <1>25 DEF BackSave, At, SameLock, Fault, PutPreviousBack, BackFailed,
     FailKeepingStage, SettleFailed, Release, Settling
<1>26. ASSUME NEW r \in Restores, StartPrevious(r) PROVE RunsMatched'
  BY <1>26 DEF StartPrevious, At, SameLock, Quiet, StartServer, StartFailed
<1>27. ASSUME NEW r \in Restores, DropAside(r) PROVE RunsMatched'
  BY <1>27 DEF DropAside, At, SameLock, Quiet
<1>28. ASSUME NEW r \in Restores, DropAsideRest(r) PROVE RunsMatched'
  BY <1>28 DEF DropAsideRest, At, SameLock, Fault, SettleFailed, Release, Settling
<1>29. ASSUME NEW r \in Restores, DropStage(r) PROVE RunsMatched'
  BY <1>29 DEF DropStage, At, SameLock, Fault, SettleFailed, Release, Settling
<1>30. ASSUME NEW r \in Restores, DropStageRest(r) PROVE RunsMatched'
  BY <1>30 DEF DropStageRest, At, SameLock, Settling, Release
<1>31. ASSUME NEW r \in Restores, End(r) PROVE RunsMatched'
  BY <1>31 DEF End, At, SameLock, Quiet, Release
<1>32. ASSUME NEW r \in Restores, Recover(r) PROVE RunsMatched'
  BY <1>32 DEF Recover, At, Journals, SameLock, Quiet
<1>33. ASSUME NEW r \in Restores, Adopt(r) PROVE RunsMatched'
  BY <1>33 DEF Adopt, At, SameLock, Quiet, Release
<1>34. ASSUME NEW r \in Restores, ForwardClear(r) PROVE RunsMatched'
  BY <1>34 DEF ForwardClear, At, SameLock, Quiet, Fault, ForwardFailed
<1>35. ASSUME NEW r \in Restores, ForwardMove(r) PROVE RunsMatched'
  BY <1>35 DEF ForwardMove, At, SameLock, Quiet, Fault, ForwardFailed
<1>36. ASSUME NEW r \in Restores, ForwardSave(r) PROVE RunsMatched'
  BY <1>36 DEF ForwardSave, At, SameLock, Quiet, Fault, ForwardFailed
<1>37. ASSUME NEW r \in Restores, ForwardJournal(r) PROVE RunsMatched'
  BY <1>37 DEF ForwardJournal, At, SameLock, Quiet, Fault, ForwardFailed
<1>38. ASSUME NEW r \in Restores, SettleSwap(r) PROVE RunsMatched'
  BY <1>38 DEF SettleSwap, At, SameLock, SettleFailed, Release
<1>39. ASSUME NEW r \in Restores, Prune(r) PROVE RunsMatched'
  BY <1>39 DEF Prune
<1>40. ASSUME NEW r \in Restores, StageArchive(r) PROVE RunsMatched'
  BY <1>40 DEF StageArchive, Free
<1>41. ASSUME NEW r \in Restores, ApplyAsked(r) PROVE RunsMatched'
  BY <1>41 DEF ApplyAsked
<1>42. ASSUME NEW r \in Restores, ApplyBusy(r) PROVE RunsMatched'
  BY <1>42 DEF ApplyBusy
<1>43. ASSUME NEW r \in Restores, ApplyBegin(r) PROVE RunsMatched'
  BY <1>43 DEF ApplyBegin, Free
<1>44. ASSUME NEW r \in Restores, DiscardStage(r) PROVE RunsMatched'
  BY <1>44 DEF DiscardStage, Free
<1>45. ASSUME NEW r \in Restores, MoveBackByHand(r) PROVE RunsMatched'
  BY <1>45 DEF MoveBackByHand, Journaled
<1>46. ASSUME NEW r \in Restores, DiscardCopy(r) PROVE RunsMatched'
  BY <1>46 DEF DiscardCopy, Free, Journaled
<1>47. CASE AgentStart
  BY <1>47 DEF AgentStart
<1>48. CASE AgentUp
  BY <1>48 DEF AgentUp
<1>49. CASE AgentExit
  BY <1>49 DEF AgentExit
<1>50. CASE SettleNext
  BY <1>50 DEF SettleNext, Release, SameLock, Journaled
<1>51. CASE Halt
  BY <1>51 DEF Halt, StopServer, Fault, Cut, Release, SameLock
<1>53. CASE AwaitOwn
  BY <1>53 DEF AwaitOwn, Release, SameLock, OwnStartFailed
<1>54. CASE GameOnline
  BY <1>54 DEF GameOnline
<1>55. CASE GameExit
  BY <1>55 DEF GameExit
<1>56. CASE SettleTick
  BY <1>56 DEF SettleTick, Free
<1>57. CASE AutoStart
  BY <1>57 DEF AutoStart, Free
<1>58. CASE StartAsked
  BY <1>58 DEF StartAsked, Free
<1>59. CASE RestartAsked
  BY <1>59 DEF RestartAsked, Free
<1>60. CASE StopAsked
  BY <1>60 DEF StopAsked, Free
<1>61. CASE Crash
  BY <1>61 DEF Crash
<1>62. CASE AgentStop
  BY <1>62 DEF AgentStop
<1>63. CASE UNCHANGED vars
  BY <1>63 DEF vars
<1> HIDE DEF TypeInv, TypeOK, JournalHeld, JournalSteps, LockInv, RestoreOnly,
       Restoring, Settling, BoxInv, RunsInPlace, Forward, StoppedSteps, HoldInv,
       MovedInv, AsideInv, JournalsInv, RestInv, PlaceInv, StepsInv, Journal,
       Unswapped, Over, Back, There, In, Matches, NoneAside, Restored, OneFault,
       RunsMatched, Journaled, HadLive, Free, worlds, stages, conts, locks,
       notes, hist
<1>64. ASSUME NEW r \in Restores, RestoreStep(r) PROVE RunsMatched'
  BY <1>64, <1>1, <1>2, <1>3, <1>4, <1>5, <1>6, <1>7, <1>8, <1>9, <1>10,
     <1>11, <1>12, <1>13, <1>14, <1>15, <1>16, <1>17, <1>18, <1>19, <1>20,
     <1>21, <1>22, <1>23, <1>24, <1>25, <1>26, <1>27, <1>28, <1>29, <1>30,
     <1>31, <1>32, <1>33, <1>34, <1>35, <1>36, <1>37, <1>38
  DEF RestoreStep
<1>65. CASE AgentStep
  BY <1>65, <1>39, <1>47, <1>48, <1>49, <1>50, <1>51, <1>52, <1>53, <1>64
  DEF AgentStep
<1>. QED
  BY <1>40, <1>41, <1>42, <1>43, <1>44, <1>45, <1>46, <1>54, <1>55, <1>56,
     <1>57, <1>58, <1>59, <1>60, <1>61, <1>62, <1>63, <1>65
  DEF Next

(* RunsMatched, for any number of restores and crashes, with one failing   *)
(* step at most: whatever starts the server, a restore, its undo, its      *)
(* resumption or a start between an interrupted restore and its settling,  *)
(* no world runs with another one's settings.                              *)
THEOREM NoWorldRunsMixed == ASSUME Apart, OneFault PROVE Spec => []RunsMatched
<1>1. Init => RunsMatched
  BY DEF Init, RunsMatched
<1>2. SwapInv /\ RunsMatched /\ [Next]_vars => RunsMatched'
  BY OneFault, RunsNext DEF SwapInv
<1>. QED
  BY Apart, OneFault, <1>1, <1>2, SwapInvInit, SwapInvNext, PTL DEF Spec

(* A restore is reported done only where its world is. *)
DoneWhenRestored ==
    \A r \in Restores : op[r] # "succeeded" /\ op'[r] = "succeeded"
                        => Restored(r) /\ live = r /\ settings = r

LEMMA DoneNext ==
    ASSUME TypeInv, LockInv, StepsInv, [Next]_vars PROVE DoneWhenRestored
<1> USE RestoresAssumption
    DEF TypeInv, TypeOK, worlds, stages, conts, locks, notes, hist,
        DoneWhenRestored
<1>1. ASSUME NEW r \in Restores, Stop(r) PROVE DoneWhenRestored
  BY <1>1 DEF Stop, At, SameLock, Quiet, StopServer, Fault, Cut, Release
<1>2. ASSUME NEW r \in Restores, SaveRollback(r) PROVE DoneWhenRestored
  BY <1>2 DEF SaveRollback, At, SameLock
<1>3. ASSUME NEW r \in Restores, WriteJournal(r) PROVE DoneWhenRestored
  BY <1>3 DEF WriteJournal, At, SameLock, Fault
<1>4. ASSUME NEW r \in Restores, GiveUp(r) PROVE DoneWhenRestored
  BY <1>4 DEF GiveUp, At, SameLock, Quiet, StartServer, StartFailed
<1>5. ASSUME NEW r \in Restores, AwaitPrevious(r) PROVE DoneWhenRestored
  BY <1>5 DEF AwaitPrevious, At, SameLock, Quiet
<1>6. ASSUME NEW r \in Restores, SetAside(r) PROVE DoneWhenRestored
  BY <1>6 DEF SetAside, At, SameLock, Quiet, Fault
<1>7. ASSUME NEW r \in Restores, MoveIn(r) PROVE DoneWhenRestored
  BY <1>7 DEF MoveIn, At, SameLock, Quiet, Fault
<1>8. ASSUME NEW r \in Restores, UndoMoveIn(r) PROVE DoneWhenRestored
  BY <1>8 DEF UndoMoveIn, At, SameLock, Undoing, Quiet, HadLive, Fault
<1>9. ASSUME NEW r \in Restores, PutBackUnmoved(r) PROVE DoneWhenRestored
  BY <1>9 DEF PutBackUnmoved, At, SameLock, Quiet, Fault
<1>10. ASSUME NEW r \in Restores, RescueStaged(r) PROVE DoneWhenRestored
  BY <1>10 DEF RescueStaged, At, SameLock, Quiet, Fault, FailKeepingStage
<1>11. ASSUME NEW r \in Restores, SaveRestored(r) PROVE DoneWhenRestored
  BY <1>11 DEF SaveRestored, At, SameLock, Quiet, Fault
<1>12. ASSUME NEW r \in Restores, JournalChecking(r) PROVE DoneWhenRestored
  BY <1>12 DEF JournalChecking, At, SameLock, Quiet, Fault
<1>13. ASSUME NEW r \in Restores, UnsaveRestored(r) PROVE DoneWhenRestored
  BY <1>13 DEF UnsaveRestored, At, SameLock, Quiet, Fault
<1>14. ASSUME NEW r \in Restores, UndoSettings(r) PROVE DoneWhenRestored
  BY <1>14 DEF UndoSettings, At, SameLock, Undoing, Quiet, HadLive, Fault
<1>15. ASSUME NEW r \in Restores, ClearLive(r) PROVE DoneWhenRestored
  BY <1>15 DEF ClearLive, At, SameLock, Quiet, Fault, FailKeepingStage
<1>16. ASSUME NEW r \in Restores, PutBackMoved(r) PROVE DoneWhenRestored
  BY <1>16 DEF PutBackMoved, At, SameLock, Quiet, Fault, FailKeepingStage
<1>17. ASSUME NEW r \in Restores, DropFailed(r) PROVE DoneWhenRestored
  BY <1>17 DEF DropFailed, At, SameLock, Quiet
<1>18. ASSUME NEW r \in Restores, Launch(r) PROVE DoneWhenRestored
  BY <1>18 DEF Launch, At, SameLock, StartServer, StartFailed, FinishFailed, Release
<1>19. ASSUME NEW r \in Restores, Await(r) PROVE DoneWhenRestored
  BY <1>19 DEF Await, At, SameLock, Quiet, FinishFailed, Release
<1>20. ASSUME NEW r \in Restores, Keep(r) PROVE DoneWhenRestored
  BY <1>20 DEF Keep, At, SameLock, Quiet, Fault
<1>21. ASSUME NEW r \in Restores, Revert(r) PROVE DoneWhenRestored
  BY <1>21 DEF Revert, At, SameLock, Quiet, Fault, FailKeepingStage
<1>22. ASSUME NEW r \in Restores, RevertStop(r) PROVE DoneWhenRestored
  BY <1>22 DEF RevertStop, At, SameLock, Quiet, StopServer, Fault, Cut, Release,
     FailKeepingStage
<1>23. ASSUME NEW r \in Restores, BackClear(r) PROVE DoneWhenRestored
  BY <1>23 DEF BackClear, At, SameLock, Fault, PutPreviousBack, BackFailed,
     FailKeepingStage, SettleFailed, Release, Settling
<1>24. ASSUME NEW r \in Restores, BackMove(r) PROVE DoneWhenRestored
  BY <1>24 DEF BackMove, At, SameLock, Fault, PutPreviousBack, BackFailed,
     FailKeepingStage, SettleFailed, Release, Settling
<1>25. ASSUME NEW r \in Restores, BackSave(r) PROVE DoneWhenRestored
  BY <1>25 DEF BackSave, At, SameLock, Fault, PutPreviousBack, BackFailed,
     FailKeepingStage, SettleFailed, Release, Settling
<1>26. ASSUME NEW r \in Restores, StartPrevious(r) PROVE DoneWhenRestored
  BY <1>26 DEF StartPrevious, At, SameLock, Quiet, StartServer, StartFailed
<1>27. ASSUME NEW r \in Restores, DropAside(r) PROVE DoneWhenRestored
  BY <1>27 DEF DropAside, At, SameLock, Quiet
<1>28. ASSUME NEW r \in Restores, DropAsideRest(r) PROVE DoneWhenRestored
  BY <1>28 DEF DropAsideRest, At, SameLock, Fault, SettleFailed, Release, Settling
<1>29. ASSUME NEW r \in Restores, DropStage(r) PROVE DoneWhenRestored
  BY <1>29 DEF DropStage, At, SameLock, Fault, SettleFailed, Release, Settling
<1>30. ASSUME NEW r \in Restores, DropStageRest(r) PROVE DoneWhenRestored
  BY <1>30 DEF DropStageRest, At, SameLock, Settling, Release
<1>31. ASSUME NEW r \in Restores, End(r) PROVE DoneWhenRestored
  <2>1. /\ cur = r /\ pc = "end" /\ op' = [op EXCEPT ![r] = result]
    BY <1>31 DEF End, At
  <2>2. Restoring
    BY <2>1 DEF LockInv, RestoreOnly
  <2>3. result = "succeeded" => There(r) /\ Restored(r)
    BY <2>1, <2>2 DEF StepsInv
  <2>. QED
    BY <2>1, <2>3 DEF DoneWhenRestored, There, TypeInv, TypeOK
<1>32. ASSUME NEW r \in Restores, Recover(r) PROVE DoneWhenRestored
  BY <1>32 DEF Recover, At, Journals, SameLock, Quiet
<1>33. ASSUME NEW r \in Restores, Adopt(r) PROVE DoneWhenRestored
  BY <1>33 DEF Adopt, At, SameLock, Quiet, Release
<1>34. ASSUME NEW r \in Restores, ForwardClear(r) PROVE DoneWhenRestored
  BY <1>34 DEF ForwardClear, At, SameLock, Quiet, Fault, ForwardFailed
<1>35. ASSUME NEW r \in Restores, ForwardMove(r) PROVE DoneWhenRestored
  BY <1>35 DEF ForwardMove, At, SameLock, Quiet, Fault, ForwardFailed
<1>36. ASSUME NEW r \in Restores, ForwardSave(r) PROVE DoneWhenRestored
  BY <1>36 DEF ForwardSave, At, SameLock, Quiet, Fault, ForwardFailed
<1>37. ASSUME NEW r \in Restores, ForwardJournal(r) PROVE DoneWhenRestored
  BY <1>37 DEF ForwardJournal, At, SameLock, Quiet, Fault, ForwardFailed
<1>38. ASSUME NEW r \in Restores, SettleSwap(r) PROVE DoneWhenRestored
  BY <1>38 DEF SettleSwap, At, SameLock, SettleFailed, Release
<1>39. ASSUME NEW r \in Restores, Prune(r) PROVE DoneWhenRestored
  BY <1>39 DEF Prune
<1>40. ASSUME NEW r \in Restores, StageArchive(r) PROVE DoneWhenRestored
  BY <1>40 DEF StageArchive, Free
<1>41. ASSUME NEW r \in Restores, ApplyAsked(r) PROVE DoneWhenRestored
  BY <1>41 DEF ApplyAsked
<1>42. ASSUME NEW r \in Restores, ApplyBusy(r) PROVE DoneWhenRestored
  BY <1>42 DEF ApplyBusy
<1>43. ASSUME NEW r \in Restores, ApplyBegin(r) PROVE DoneWhenRestored
  BY <1>43 DEF ApplyBegin, Free
<1>44. ASSUME NEW r \in Restores, DiscardStage(r) PROVE DoneWhenRestored
  BY <1>44 DEF DiscardStage, Free
<1>45. ASSUME NEW r \in Restores, MoveBackByHand(r) PROVE DoneWhenRestored
  BY <1>45 DEF MoveBackByHand, Journaled
<1>46. ASSUME NEW r \in Restores, DiscardCopy(r) PROVE DoneWhenRestored
  BY <1>46 DEF DiscardCopy, Free, Journaled
<1>47. CASE AgentStart
  BY <1>47 DEF AgentStart
<1>48. CASE AgentUp
  BY <1>48 DEF AgentUp
<1>49. CASE AgentExit
  BY <1>49 DEF AgentExit
<1>50. CASE SettleNext
  BY <1>50 DEF SettleNext, Release, SameLock, Journaled
<1>51. CASE Halt
  BY <1>51 DEF Halt, StopServer, Fault, Cut, Release, SameLock
<1>52. CASE LaunchOwn
  BY <1>52 DEF LaunchOwn, StartServer, StartFailed, Release, SameLock,
     OwnStartFailed
<1>53. CASE AwaitOwn
  BY <1>53 DEF AwaitOwn, Release, SameLock, OwnStartFailed
<1>54. CASE GameOnline
  BY <1>54 DEF GameOnline
<1>55. CASE GameExit
  BY <1>55 DEF GameExit
<1>56. CASE SettleTick
  BY <1>56 DEF SettleTick, Free
<1>57. CASE AutoStart
  BY <1>57 DEF AutoStart, Free
<1>58. CASE StartAsked
  BY <1>58 DEF StartAsked, Free
<1>59. CASE RestartAsked
  BY <1>59 DEF RestartAsked, Free
<1>60. CASE StopAsked
  BY <1>60 DEF StopAsked, Free
<1>61. CASE Crash
  BY <1>61 DEF Crash
<1>62. CASE AgentStop
  BY <1>62 DEF AgentStop
<1>63. CASE UNCHANGED vars
  BY <1>63 DEF vars
<1> HIDE DEF TypeInv, TypeOK, worlds, stages, conts, locks, notes, hist, DoneWhenRestored
<1>64. ASSUME NEW r \in Restores, RestoreStep(r) PROVE DoneWhenRestored
  BY <1>64, <1>1, <1>2, <1>3, <1>4, <1>5, <1>6, <1>7, <1>8, <1>9, <1>10,
     <1>11, <1>12, <1>13, <1>14, <1>15, <1>16, <1>17, <1>18, <1>19, <1>20,
     <1>21, <1>22, <1>23, <1>24, <1>25, <1>26, <1>27, <1>28, <1>29, <1>30,
     <1>31, <1>32, <1>33, <1>34, <1>35, <1>36, <1>37, <1>38
  DEF RestoreStep
<1>65. CASE AgentStep
  BY <1>65, <1>39, <1>47, <1>48, <1>49, <1>50, <1>51, <1>52, <1>53, <1>64
  DEF AgentStep
<1>. QED
  BY <1>40, <1>41, <1>42, <1>43, <1>44, <1>45, <1>46, <1>54, <1>55, <1>56,
     <1>57, <1>58, <1>59, <1>60, <1>61, <1>62, <1>63, <1>65
  DEF Next

(* SucceededMeansRestored, for any number of restores and crashes, with    *)
(* one failing step at most: a restore is reported done only once its      *)
(* world is in place under its settings, and players could join it unless  *)
(* it is one that was moved in to stay stopped.                            *)
THEOREM DoneMeansRestored ==
    ASSUME Apart, OneFault PROVE Spec => SucceededMeansRestored
<1>1. SwapInv /\ [Next]_vars => [DoneWhenRestored]_vars
  BY DoneNext DEF SwapInv
<1>. QED
  BY Apart, OneFault, <1>1, SwapInvInit, SwapInvNext, PTL
  DEF Spec, SucceededMeansRestored, DoneWhenRestored

-----------------------------------------------------------------------------
(* A step of the swap as WorldSwap sees it. *)
SwapStep == [Promise!Next]_<<Home, Conf, Trying>>

(* The one restore that may still be undone says where the home is. *)
LEMMA HomeNow ==
    /\ Trying = {} => Home = live /\ Conf = settings
    /\ \A q \in Restores : Trying = {q} => Home = was[q] /\ Conf = journal[q].prev
BY DEF Home, Conf

LEMMA HomeThen ==
    /\ Trying' = {} => Home' = live' /\ Conf' = settings'
    /\ \A q \in Restores : Trying' = {q}
          => Home' = was'[q] /\ Conf' = journal'[q].prev
BY DEF Home, Conf

LEMMA SwapStutters ==
    ASSUME UNCHANGED <<journal, was, live, settings>> PROVE SwapStep
<1>1. Trying' = Trying
  BY DEF Trying, Journaled, HadLive
<1>. QED
  BY <1>1 DEF SwapStep, Home, Conf

(* While a restore may be undone, the home is not where the folders are. *)
LEMMA WorldsMove ==
    ASSUME NEW q \in Restores, Trying = {q}, UNCHANGED <<journal, was>>
    PROVE  SwapStep
<1>1. Trying' = Trying
  BY DEF Trying, Journaled, HadLive
<1>2. Home' = Home /\ Conf' = Conf
  BY <1>1, HomeNow, HomeThen
<1>. QED
  BY <1>1, <1>2 DEF SwapStep

LEMMA TryingIs ==
    ASSUME TypeInv, HoldInv
    PROVE  /\ Trying = {} \/ \E q \in Journaled : Trying = {q}
           /\ \A q \in Journaled :
                 \/ In(q, {"moving"})
                 \/ HadLive(q) /\ In(q, {"reverting", "checking"})
                 => Trying = {q}
<1>1. Trying \subseteq Journaled /\ (\A p, q \in Journaled : p = q)
  BY DEF Trying, HoldInv
<1>2. ASSUME NEW q \in Journaled,
             In(q, {"moving"}) \/ (HadLive(q) /\ In(q, {"reverting", "checking"}))
      PROVE  Trying = {q}
  <2>1. q \in Trying
    BY <1>2 DEF Trying, In
  <2>. QED
    BY <1>1, <2>1
<1>3. Trying = {} \/ \E q \in Journaled : Trying = {q}
  BY <1>1
<1>. QED
  BY <1>2, <1>3

LEMMA SwapNext ==
    ASSUME OneFault, TypeInv, LockInv, BoxInv, HoldInv, MovedInv, AsideInv,
           JournalsInv, RestInv, PlaceInv, StepsInv, [Next]_vars
    PROVE  SwapStep
<1>1. ASSUME NEW r \in Restores, Stop(r) PROVE SwapStep
  BY <1>1, SwapStutters DEF Stop, At, SameLock, Quiet, StopServer, Fault, Cut,
     Release, vars, worlds, stages, notes, hist
<1>2. ASSUME NEW r \in Restores, SaveRollback(r) PROVE SwapStep
  BY <1>2, SwapStutters DEF SaveRollback, At, SameLock, Quiet, vars, worlds, stages,
     notes, hist
<1>3. ASSUME NEW r \in Restores, WriteJournal(r) PROVE SwapStep
  <2>1. cur = r /\ pc = "journal" /\ UNCHANGED <<live, settings>>
    BY <1>3 DEF WriteJournal, At, worlds
  <2>2. op[r] = "running" /\ journal[r] = NoJournal
    BY <2>1 DEF BoxInv, LockInv, RestoreOnly
  <2>3. Journaled = {} /\ Trying = {}
    BY <2>2 DEF HoldInv, Journaled, Trying
  <2>4. CASE UNCHANGED <<journal, was>>
    BY <2>1, <2>4, SwapStutters
  <2> DEFINE j == [state |-> "moving", hadLive |-> live # None, prev |-> settings]
  <2>5. CASE journal' = [journal EXCEPT ![r] = j] /\ was' = [was EXCEPT ![r] = live]
    <3>1. j \in Journals /\ j.state = "moving" /\ j.prev = settings
      BY DEF Journals, TypeInv, TypeOK
    <3> HIDE DEF j
    <3>2. /\ journal'[r] = j /\ was'[r] = live /\ j # NoJournal
          /\ \A q \in Restores \ {r} : journal'[q] = journal[q]
      BY <2>5, <3>1, JournalIsNone DEF TypeInv, TypeOK
    <3>3. Journaled' = {r}
      BY <2>3, <3>2 DEF Journaled
    <3>4. Trying' = {r}
      BY <3>1, <3>2, <3>3 DEF Trying
    <3>5. Promise!Begin(r)
      BY <2>1, <2>3, <3>1, <3>2, <3>4, HomeNow, HomeThen DEF Promise!Begin
    <3>. QED
      BY <3>5 DEF SwapStep, Promise!Next
  <2>. QED
    BY <1>3, <2>4, <2>5 DEF WriteJournal
<1>4. ASSUME NEW r \in Restores, GiveUp(r) PROVE SwapStep
  <2>1. /\ UNCHANGED <<journal, was, settings>>
        /\ live' \in {live, IF live = None THEN Fresh ELSE live}
    BY <1>4 DEF GiveUp, Quiet, StartServer, StartFailed, worlds, stages, hist
  <2>2. CASE live' = live
    BY <2>1, <2>2, SwapStutters
  <2>3. CASE live = None /\ live' = Fresh /\ Trying = {}
    <3>1. Trying' = {}
      BY <2>1, <2>3 DEF Trying, Journaled, HadLive
    <3>2. Promise!Make
      BY <2>1, <2>3, <3>1, HomeNow, HomeThen DEF Promise!Make
    <3>. QED
      BY <3>2 DEF SwapStep, Promise!Next
  <2>4. CASE Trying # {}
    <3>1. PICK q \in Journaled : Trying = {q}
      BY <2>4, TryingIs
    <3>. QED
      BY <2>1, <3>1, WorldsMove DEF Journaled
  <2>. QED
    BY <2>1, <2>2, <2>3, <2>4
<1>5. ASSUME NEW r \in Restores, AwaitPrevious(r) PROVE SwapStep
  BY <1>5, SwapStutters DEF AwaitPrevious, At, SameLock, Quiet, vars, worlds,
     stages, notes, hist
<1>6. ASSUME NEW r \in Restores, SetAside(r) PROVE SwapStep
  <2>1. cur = r /\ pc = "aside" /\ UNCHANGED <<journal, was>>
    BY <1>6 DEF SetAside, At, Quiet, stages, hist
  <2>2. r \in Journaled
    BY <2>1 DEF TypeInv, JournalHeld, JournalSteps, Journaled
  <2>3. In(r, {"moving"})
    BY <2>1 DEF StepsInv
  <2>4. Trying = {r}
    BY <2>2, <2>3, TryingIs DEF In
  <2>. QED
    BY <2>1, <2>4, WorldsMove
<1>7. ASSUME NEW r \in Restores, MoveIn(r) PROVE SwapStep
  <2>1. cur = r /\ pc = "moveIn" /\ UNCHANGED <<journal, was>>
    BY <1>7 DEF MoveIn, At, Quiet, stages, hist
  <2>2. r \in Journaled
    BY <2>1 DEF TypeInv, JournalHeld, JournalSteps, Journaled
  <2>3. In(r, {"moving"})
    BY <2>1 DEF StepsInv
  <2>4. Trying = {r}
    BY <2>2, <2>3, TryingIs DEF In
  <2>. QED
    BY <2>1, <2>4, WorldsMove
<1>8. ASSUME NEW r \in Restores, UndoMoveIn(r) PROVE SwapStep
  <2>1. cur = r /\ pc = "undo1" /\ UNCHANGED <<live, settings, was>>
    BY <1>8 DEF UndoMoveIn, Undoing, At, Quiet, worlds, hist
  <2>2. CASE UNCHANGED journal
    BY <2>1, <2>2, SwapStutters
  <2>3. CASE HadLive(r) /\ journal' = [journal EXCEPT ![r].state = "reverting"]
    <3>1. r \in Journaled
      BY <2>1 DEF TypeInv, JournalHeld, JournalSteps, Journaled
    <3>2. /\ journal'[r].state = "reverting" /\ HadLive(r)'
          /\ journal'[r].prev = journal[r].prev
          /\ journal'[r] # NoJournal
          /\ \A q \in Restores \ {r} : journal'[q] = journal[q]
      BY <2>3, <3>1, JournalRewritten DEF TypeInv, TypeOK, Journaled, HadLive
    <3>3. In(r, {"moving", "reverting", "checking"})
      BY <2>1 DEF StepsInv, In
    <3>4. Trying = {r} /\ Journaled = {r}
      BY <2>3, <3>1, <3>3, TryingIs DEF In, HoldInv
    <3>5. Trying' = {r}
      BY <3>2, <3>4 DEF Trying, Journaled
    <3>. QED
      BY <2>1, <3>2, <3>4, <3>5, HomeNow, HomeThen DEF SwapStep
  <2>. QED
    BY <1>8, <2>2, <2>3 DEF UndoMoveIn, Undoing
<1>9. ASSUME NEW r \in Restores, PutBackUnmoved(r) PROVE SwapStep
  <2>1. cur = r /\ pc = "putBack1" /\ UNCHANGED <<journal, was>>
    BY <1>9 DEF PutBackUnmoved, At, Quiet, stages, hist
  <2>2. r \in Journaled
    BY <2>1 DEF TypeInv, JournalHeld, JournalSteps, Journaled
  <2>3. HadLive(r) /\ In(r, {"moving", "reverting"})
    BY <2>1 DEF StepsInv
  <2>4. Trying = {r}
    BY <2>2, <2>3, TryingIs DEF In
  <2>. QED
    BY <2>1, <2>4, WorldsMove
<1>10. ASSUME NEW r \in Restores, RescueStaged(r) PROVE SwapStep
  BY <1>10, SwapStutters DEF RescueStaged, At, SameLock, Quiet, Fault,
     FailKeepingStage, vars, worlds, stages, notes, hist
<1>11. ASSUME NEW r \in Restores, SaveRestored(r) PROVE SwapStep
  <2>1. cur = r /\ pc = "save" /\ UNCHANGED <<journal, was>>
    BY <1>11 DEF SaveRestored, At, Quiet, stages, hist
  <2>2. r \in Journaled
    BY <2>1 DEF TypeInv, JournalHeld, JournalSteps, Journaled
  <2>3. In(r, {"moving"})
    BY <2>1 DEF StepsInv
  <2>4. Trying = {r}
    BY <2>2, <2>3, TryingIs DEF In
  <2>. QED
    BY <2>1, <2>4, WorldsMove
<1>12. ASSUME NEW r \in Restores, JournalChecking(r) PROVE SwapStep
  <2>1. cur = r /\ pc = "check" /\ UNCHANGED <<live, settings, was>>
    BY <1>12 DEF JournalChecking, At, Quiet, worlds, hist
  <2>2. CASE UNCHANGED journal
    BY <2>1, <2>2, SwapStutters
  <2>3. CASE journal' = [journal EXCEPT ![r].state = "checking"]
    <3>1. r \in Journaled
      BY <2>1 DEF TypeInv, JournalHeld, JournalSteps, Journaled
    <3>2. /\ journal'[r].state = "checking" /\ HadLive(r)' = HadLive(r)
          /\ journal'[r].prev = journal[r].prev
          /\ journal'[r] # NoJournal
          /\ \A q \in Restores \ {r} : journal'[q] = journal[q]
      BY <2>3, <3>1, JournalRewritten DEF TypeInv, TypeOK, Journaled, HadLive
    <3>3. Journaled = {r} /\ In(r, {"moving"}) /\ live = r /\ settings = r
      BY <2>1, <3>1 DEF StepsInv, HoldInv, JournalsInv, Journal, There, In
    <3>4. Trying = {r}
      BY <3>1, <3>3, TryingIs
    <3>5. CASE HadLive(r)
      <4>1. Trying' = {r}
        BY <3>2, <3>3, <3>5 DEF Trying, Journaled
      <4>. QED
        BY <2>1, <3>2, <3>4, <4>1, HomeNow, HomeThen DEF SwapStep
    <3>6. CASE ~HadLive(r)
      <4>1. Trying' = {}
        BY <3>2, <3>3, <3>6 DEF Trying, Journaled
      <4>2. Promise!Commit(r)
        BY <2>1, <3>3, <3>4, <4>1, HomeThen DEF Promise!Commit
      <4>. QED
        BY <4>2 DEF SwapStep, Promise!Next
    <3>. QED
      BY <3>5, <3>6
  <2>. QED
    BY <1>12, <2>2, <2>3 DEF JournalChecking
<1>13. ASSUME NEW r \in Restores, UnsaveRestored(r) PROVE SwapStep
  <2>1. cur = r /\ pc = "unsave" /\ UNCHANGED <<journal, was>>
    BY <1>13 DEF UnsaveRestored, At, Quiet, stages, hist
  <2>2. r \in Journaled
    BY <2>1 DEF TypeInv, JournalHeld, JournalSteps, Journaled
  <2>3. In(r, {"moving"})
    BY <2>1 DEF StepsInv
  <2>4. Trying = {r}
    BY <2>2, <2>3, TryingIs DEF In
  <2>. QED
    BY <2>1, <2>4, WorldsMove
<1>14. ASSUME NEW r \in Restores, UndoSettings(r) PROVE SwapStep
  <2>1. cur = r /\ pc = "undo2" /\ UNCHANGED <<live, settings, was>>
    BY <1>14 DEF UndoSettings, Undoing, At, Quiet, worlds, hist
  <2>2. CASE UNCHANGED journal
    BY <2>1, <2>2, SwapStutters
  <2>3. CASE HadLive(r) /\ journal' = [journal EXCEPT ![r].state = "reverting"]
    <3>1. r \in Journaled
      BY <2>1 DEF TypeInv, JournalHeld, JournalSteps, Journaled
    <3>2. /\ journal'[r].state = "reverting" /\ HadLive(r)'
          /\ journal'[r].prev = journal[r].prev
          /\ journal'[r] # NoJournal
          /\ \A q \in Restores \ {r} : journal'[q] = journal[q]
      BY <2>3, <3>1, JournalRewritten DEF TypeInv, TypeOK, Journaled, HadLive
    <3>3. In(r, {"moving", "reverting", "checking"})
      BY <2>1 DEF StepsInv, In
    <3>4. Trying = {r} /\ Journaled = {r}
      BY <2>3, <3>1, <3>3, TryingIs DEF In, HoldInv
    <3>5. Trying' = {r}
      BY <3>2, <3>4 DEF Trying, Journaled
    <3>. QED
      BY <2>1, <3>2, <3>4, <3>5, HomeNow, HomeThen DEF SwapStep
  <2>. QED
    BY <1>14, <2>2, <2>3 DEF UndoSettings, Undoing
<1>15. ASSUME NEW r \in Restores, ClearLive(r) PROVE SwapStep
  <2>1. cur = r /\ pc = "clear" /\ UNCHANGED <<journal, was>>
    BY <1>15 DEF ClearLive, At, Quiet, stages, hist
  <2>2. r \in Journaled
    BY <2>1 DEF TypeInv, JournalHeld, JournalSteps, Journaled
  <2>3. In(r, IF HadLive(r) THEN {"reverting"} ELSE {"moving"})
    BY <2>1 DEF StepsInv
  <2>4. Trying = {r}
    BY <2>2, <2>3, TryingIs DEF In
  <2>. QED
    BY <2>1, <2>4, WorldsMove
<1>16. ASSUME NEW r \in Restores, PutBackMoved(r) PROVE SwapStep
  <2>1. cur = r /\ pc = "putBack2" /\ UNCHANGED <<journal, was>>
    BY <1>16 DEF PutBackMoved, At, Quiet, stages, hist
  <2>2. r \in Journaled
    BY <2>1 DEF TypeInv, JournalHeld, JournalSteps, Journaled
  <2>3. In(r, IF HadLive(r) THEN {"reverting"} ELSE {"moving"})
    BY <2>1 DEF StepsInv
  <2>4. Trying = {r}
    BY <2>2, <2>3, TryingIs DEF In
  <2>. QED
    BY <2>1, <2>4, WorldsMove
<1>17. ASSUME NEW r \in Restores, DropFailed(r) PROVE SwapStep
  BY <1>17, SwapStutters DEF DropFailed, At, SameLock, Quiet, vars, worlds, stages,
     notes, hist
<1>18. ASSUME NEW r \in Restores, Launch(r) PROVE SwapStep
  <2>1. /\ UNCHANGED <<journal, was, settings>>
        /\ live' \in {live, IF live = None THEN Fresh ELSE live}
    BY <1>18 DEF Launch, StartServer, StartFailed, worlds, stages, hist
  <2>2. CASE live' = live
    BY <2>1, <2>2, SwapStutters
  <2>3. CASE live = None /\ live' = Fresh /\ Trying = {}
    <3>1. Trying' = {}
      BY <2>1, <2>3 DEF Trying, Journaled, HadLive
    <3>2. Promise!Make
      BY <2>1, <2>3, <3>1, HomeNow, HomeThen DEF Promise!Make
    <3>. QED
      BY <3>2 DEF SwapStep, Promise!Next
  <2>4. CASE Trying # {}
    <3>1. PICK q \in Journaled : Trying = {q}
      BY <2>4, TryingIs
    <3>. QED
      BY <2>1, <3>1, WorldsMove DEF Journaled
  <2>. QED
    BY <2>1, <2>2, <2>3, <2>4
<1>19. ASSUME NEW r \in Restores, Await(r) PROVE SwapStep
  BY <1>19, SwapStutters DEF Await, At, SameLock, Quiet, FinishFailed, Release,
     vars, worlds, stages, notes, hist
<1>20. ASSUME NEW r \in Restores, Keep(r) PROVE SwapStep
  <2>1. cur = r /\ pc = "keep" /\ UNCHANGED <<live, settings, was>>
    BY <1>20 DEF Keep, At, Quiet, worlds, hist
  <2>2. CASE UNCHANGED journal
    BY <2>1, <2>2, SwapStutters
  <2>3. CASE journal' = [journal EXCEPT ![r].state = "kept"]
    <3>1. r \in Journaled
      BY <2>1 DEF TypeInv, JournalHeld, JournalSteps, Journaled
    <3>2. /\ journal'[r].state = "kept" /\ HadLive(r)' = HadLive(r)
          /\ journal'[r].prev = journal[r].prev
          /\ journal'[r] # NoJournal
          /\ \A q \in Restores \ {r} : journal'[q] = journal[q]
      BY <2>3, <3>1, JournalRewritten DEF TypeInv, TypeOK, Journaled, HadLive
    <3>3. Journaled = {r} /\ In(r, {"checking"}) /\ live = r /\ settings = r
      BY <2>1, <3>1 DEF StepsInv, HoldInv, JournalsInv, Journal, There, In
    <3>4. Trying' = {}
      BY <3>2, <3>3 DEF Trying, Journaled
    <3>5. CASE HadLive(r)
      <4>1. Trying = {r}
        BY <3>1, <3>3, <3>5, TryingIs DEF In
      <4>2. Promise!Commit(r)
        BY <2>1, <3>3, <3>4, <4>1, HomeThen DEF Promise!Commit
      <4>. QED
        BY <4>2 DEF SwapStep, Promise!Next
    <3>6. CASE ~HadLive(r)
      <4>1. Trying = {}
        BY <3>3, <3>6 DEF Trying, In
      <4>. QED
        BY <2>1, <3>4, <4>1, HomeNow, HomeThen DEF SwapStep
    <3>. QED
      BY <3>5, <3>6
  <2>. QED
    BY <1>20, <2>2, <2>3 DEF Keep
<1>21. ASSUME NEW r \in Restores, Revert(r) PROVE SwapStep
  <2>1. cur = r /\ pc = "revert" /\ UNCHANGED <<live, settings, was>>
    BY <1>21 DEF Revert, At, Quiet, worlds, hist
  <2>a. HadLive(r)
    BY <2>1 DEF MovedInv, RestoreOnly, LockInv
  <2>2. CASE UNCHANGED journal
    BY <2>1, <2>2, SwapStutters
  <2>3. CASE HadLive(r) /\ journal' = [journal EXCEPT ![r].state = "reverting"]
    <3>1. r \in Journaled
      BY <2>1 DEF TypeInv, JournalHeld, JournalSteps, Journaled
    <3>2. /\ journal'[r].state = "reverting" /\ HadLive(r)'
          /\ journal'[r].prev = journal[r].prev
          /\ journal'[r] # NoJournal
          /\ \A q \in Restores \ {r} : journal'[q] = journal[q]
      BY <2>3, <3>1, JournalRewritten DEF TypeInv, TypeOK, Journaled, HadLive
    <3>3. In(r, {"moving", "reverting", "checking"})
      BY <2>1 DEF StepsInv, In
    <3>4. Trying = {r} /\ Journaled = {r}
      BY <2>3, <3>1, <3>3, TryingIs DEF In, HoldInv
    <3>5. Trying' = {r}
      BY <3>2, <3>4 DEF Trying, Journaled
    <3>. QED
      BY <2>1, <3>2, <3>4, <3>5, HomeNow, HomeThen DEF SwapStep
  <2>. QED
    BY <1>21, <2>a, <2>2, <2>3 DEF Revert
<1>22. ASSUME NEW r \in Restores, RevertStop(r) PROVE SwapStep
  BY <1>22, SwapStutters DEF RevertStop, At, SameLock, Quiet, StopServer, Fault,
     Cut, Release, FailKeepingStage, vars, worlds, stages, notes, hist
<1>23. ASSUME NEW r \in Restores, BackClear(r) PROVE SwapStep
  <2>1. cur = r /\ pc = "back1" /\ UNCHANGED <<journal, was>>
    BY <1>23 DEF BackClear, At, PutPreviousBack, stages, hist
  <2>2. r \in Journaled
    BY <2>1 DEF TypeInv, JournalHeld, JournalSteps, Journaled
  <2>3. HadLive(r) /\ In(r, {"moving", "reverting"})
    BY <2>1 DEF StepsInv
  <2>4. Trying = {r}
    BY <2>2, <2>3, TryingIs DEF In
  <2>. QED
    BY <2>1, <2>4, WorldsMove
<1>24. ASSUME NEW r \in Restores, BackMove(r) PROVE SwapStep
  <2>1. cur = r /\ pc = "back2" /\ UNCHANGED <<journal, was>>
    BY <1>24 DEF BackMove, At, PutPreviousBack, stages, hist
  <2>2. r \in Journaled
    BY <2>1 DEF TypeInv, JournalHeld, JournalSteps, Journaled
  <2>3. HadLive(r) /\ In(r, {"moving", "reverting"})
    BY <2>1 DEF StepsInv
  <2>4. Trying = {r}
    BY <2>2, <2>3, TryingIs DEF In
  <2>. QED
    BY <2>1, <2>4, WorldsMove
<1>25. ASSUME NEW r \in Restores, BackSave(r) PROVE SwapStep
  <2>1. cur = r /\ pc = "back3" /\ UNCHANGED <<journal, was>>
    BY <1>25 DEF BackSave, At, PutPreviousBack, stages, hist
  <2>2. r \in Journaled
    BY <2>1 DEF TypeInv, JournalHeld, JournalSteps, Journaled
  <2>3. HadLive(r) /\ In(r, {"moving", "reverting"})
    BY <2>1 DEF StepsInv
  <2>4. Trying = {r}
    BY <2>2, <2>3, TryingIs DEF In
  <2>. QED
    BY <2>1, <2>4, WorldsMove
<1>26. ASSUME NEW r \in Restores, StartPrevious(r) PROVE SwapStep
  <2>1. /\ UNCHANGED <<journal, was, settings>>
        /\ live' \in {live, IF live = None THEN Fresh ELSE live}
    BY <1>26 DEF StartPrevious, Quiet, StartServer, StartFailed, worlds, stages, hist
  <2>2. CASE live' = live
    BY <2>1, <2>2, SwapStutters
  <2>3. CASE live = None /\ live' = Fresh /\ Trying = {}
    <3>1. Trying' = {}
      BY <2>1, <2>3 DEF Trying, Journaled, HadLive
    <3>2. Promise!Make
      BY <2>1, <2>3, <3>1, HomeNow, HomeThen DEF Promise!Make
    <3>. QED
      BY <3>2 DEF SwapStep, Promise!Next
  <2>4. CASE Trying # {}
    <3>1. PICK q \in Journaled : Trying = {q}
      BY <2>4, TryingIs
    <3>. QED
      BY <2>1, <3>1, WorldsMove DEF Journaled
  <2>. QED
    BY <2>1, <2>2, <2>3, <2>4
<1>27. ASSUME NEW r \in Restores, DropAside(r) PROVE SwapStep
  BY <1>27, SwapStutters DEF DropAside, At, SameLock, Quiet, vars, worlds, stages,
     notes, hist
<1>28. ASSUME NEW r \in Restores, DropAsideRest(r) PROVE SwapStep
  BY <1>28, SwapStutters DEF DropAsideRest, At, SameLock, Fault, SettleFailed,
     Release, Settling, Quiet, vars, worlds, stages, notes, hist
<1>29. ASSUME NEW r \in Restores, DropStage(r) PROVE SwapStep
  BY <1>29, SwapStutters DEF DropStage, At, SameLock, Fault, SettleFailed, Release,
     Settling, Quiet, vars, worlds, stages, notes, hist
<1>30. ASSUME NEW r \in Restores, DropStageRest(r) PROVE SwapStep
  <2>1. /\ cur = r /\ pc = "drop2" /\ UNCHANGED <<live, settings, was>>
        /\ journal' = [journal EXCEPT ![r] = NoJournal]
    BY <1>30 DEF DropStageRest, At, hist
  <2>2. /\ Journaled' = Journaled \ {r}
        /\ \A q \in Restores \ {r} : journal'[q] = journal[q]
    BY <2>1 DEF Journaled, TypeInv, TypeOK
  <2>3. CASE r \notin Journaled
    <3>1. journal' = journal
      BY <2>1, <2>3 DEF Journaled, TypeInv, TypeOK
    <3>. QED
      BY <2>1, <3>1, SwapStutters
  <2>4. CASE r \in Journaled
    <3>1. Journaled = {r} /\ Trying' = {}
      BY <2>2, <2>4 DEF HoldInv, Trying
    <3>2. CASE Trying = {}
      BY <2>1, <3>1, <3>2, HomeNow, HomeThen DEF SwapStep
    <3>3. CASE Trying # {}
      <4>1. Trying = {r}
        BY <3>1, <3>3, TryingIs
      <4>2. Over(r) /\ Journal(r)
        BY <2>1, <2>4 DEF StepsInv, JournalsInv
      <4>3. /\ Home = was[r] /\ Conf = journal[r].prev /\ Home' = live
            /\ Conf' = settings
        BY <2>1, <3>1, <4>1, HomeNow, HomeThen
      <4>4. Promise!Commit(r) \/ Promise!Abort(r) \/ Promise!Leave(r)
        <5>1. CASE Back(r)
          BY <3>1, <4>1, <4>3, <5>1 DEF Back, Promise!Abort
        <5>2. CASE There(r)
          BY <3>1, <4>1, <4>3, <5>2 DEF There, Promise!Commit
        <5>3. CASE ~HadLive(r) /\ live = r /\ ~There(r)
          BY <3>1, <4>1, <4>2, <4>3, <5>3 DEF There, Journal, Promise!Leave
        <5>. QED
          BY <4>2, <5>1, <5>2, <5>3 DEF Over
      <4>. QED
        BY <4>4 DEF SwapStep, Promise!Next
    <3>. QED
      BY <3>2, <3>3
  <2>. QED
    BY <2>3, <2>4
<1>31. ASSUME NEW r \in Restores, End(r) PROVE SwapStep
  BY <1>31, SwapStutters DEF End, At, SameLock, Quiet, Release, vars, worlds,
     stages, notes, hist
<1>32. ASSUME NEW r \in Restores, Recover(r) PROVE SwapStep
  BY <1>32, SwapStutters DEF Recover, At, Journals, SameLock, Quiet, vars, worlds,
     stages, notes, hist
<1>33. ASSUME NEW r \in Restores, Adopt(r) PROVE SwapStep
  <2>1. /\ cur = r /\ pc = "recover" /\ journal[r] = NoJournal
        /\ UNCHANGED <<live, settings, was>>
    BY <1>33 DEF Adopt, At, Quiet, worlds, hist
  <2>2. CASE UNCHANGED journal
    BY <2>1, <2>2, SwapStutters
  <2> DEFINE j == [state |-> "moving", hadLive |-> FALSE, prev |-> settings]
  <2>3. CASE journal' = [journal EXCEPT ![r] = j] /\ live = None /\ staged[r] # None
    <3>1. op[r] = "running" /\ was[r] = None
      BY <2>1, <2>3 DEF LockInv, RestoreOnly, RestInv
    <3>2. Journaled = {} /\ Trying = {}
      BY <2>1, <3>1 DEF HoldInv, Journaled, Trying
    <3>3. j \in Journals /\ j.state = "moving" /\ j.prev = settings
      BY DEF Journals, TypeInv, TypeOK
    <3> HIDE DEF j
    <3>4. /\ journal'[r] = j /\ j # NoJournal
          /\ \A q \in Restores \ {r} : journal'[q] = journal[q]
      BY <2>3, <3>3, JournalIsNone DEF TypeInv, TypeOK
    <3>5. Journaled' = {r}
      BY <3>2, <3>4 DEF Journaled
    <3>6. Trying' = {r}
      BY <3>3, <3>4, <3>5 DEF Trying
    <3>7. Promise!Begin(r)
      BY <2>1, <2>3, <3>1, <3>2, <3>3, <3>4, <3>6, HomeNow, HomeThen DEF Promise!Begin
    <3>. QED
      BY <3>7 DEF SwapStep, Promise!Next
  <2>. QED
    BY <1>33, <2>2, <2>3 DEF Adopt
<1>34. ASSUME NEW r \in Restores, ForwardClear(r) PROVE SwapStep
  <2>1. cur = r /\ pc = "fwd1" /\ UNCHANGED <<journal, was>>
    BY <1>34 DEF ForwardClear, At, Quiet, stages, hist
  <2>2. r \in Journaled
    BY <2>1 DEF TypeInv, JournalHeld, JournalSteps, Journaled
  <2>3. In(r, {"moving"})
    BY <2>1 DEF AsideInv, In
  <2>4. Trying = {r}
    BY <2>2, <2>3, TryingIs DEF In
  <2>. QED
    BY <2>1, <2>4, WorldsMove
<1>35. ASSUME NEW r \in Restores, ForwardMove(r) PROVE SwapStep
  <2>1. cur = r /\ pc = "fwd2" /\ UNCHANGED <<journal, was>>
    BY <1>35 DEF ForwardMove, At, Quiet, stages, hist
  <2>2. r \in Journaled
    BY <2>1 DEF TypeInv, JournalHeld, JournalSteps, Journaled
  <2>3. In(r, {"moving"})
    BY <2>1 DEF AsideInv, In
  <2>4. Trying = {r}
    BY <2>2, <2>3, TryingIs DEF In
  <2>. QED
    BY <2>1, <2>4, WorldsMove
<1>36. ASSUME NEW r \in Restores, ForwardSave(r) PROVE SwapStep
  <2>1. cur = r /\ pc = "fwdSave" /\ UNCHANGED <<journal, was>>
    BY <1>36 DEF ForwardSave, At, Quiet, stages, hist
  <2>2. r \in Journaled
    BY <2>1 DEF TypeInv, JournalHeld, JournalSteps, Journaled
  <2>3. In(r, {"moving"})
    BY <2>1 DEF StepsInv
  <2>4. Trying = {r}
    BY <2>2, <2>3, TryingIs DEF In
  <2>. QED
    BY <2>1, <2>4, WorldsMove
<1>37. ASSUME NEW r \in Restores, ForwardJournal(r) PROVE SwapStep
  <2>1. cur = r /\ pc = "fwdJournal" /\ UNCHANGED <<live, settings, was>>
    BY <1>37 DEF ForwardJournal, At, Quiet, worlds, hist
  <2>2. CASE UNCHANGED journal
    BY <2>1, <2>2, SwapStutters
  <2>3. CASE journal' = [journal EXCEPT ![r].state = "checking"]
    <3>1. r \in Journaled
      BY <2>1 DEF TypeInv, JournalHeld, JournalSteps, Journaled
    <3>2. /\ journal'[r].state = "checking" /\ HadLive(r)' = HadLive(r)
          /\ journal'[r].prev = journal[r].prev
          /\ journal'[r] # NoJournal
          /\ \A q \in Restores \ {r} : journal'[q] = journal[q]
      BY <2>3, <3>1, JournalRewritten DEF TypeInv, TypeOK, Journaled, HadLive
    <3>3. Journaled = {r} /\ In(r, {"moving"}) /\ live = r /\ settings = r
      BY <2>1, <3>1 DEF StepsInv, HoldInv, JournalsInv, Journal, There, In
    <3>4. Trying = {r}
      BY <3>1, <3>3, TryingIs
    <3>5. CASE HadLive(r)
      <4>1. Trying' = {r}
        BY <3>2, <3>3, <3>5 DEF Trying, Journaled
      <4>. QED
        BY <2>1, <3>2, <3>4, <4>1, HomeNow, HomeThen DEF SwapStep
    <3>6. CASE ~HadLive(r)
      <4>1. Trying' = {}
        BY <3>2, <3>3, <3>6 DEF Trying, Journaled
      <4>2. Promise!Commit(r)
        BY <2>1, <3>3, <3>4, <4>1, HomeThen DEF Promise!Commit
      <4>. QED
        BY <4>2 DEF SwapStep, Promise!Next
    <3>. QED
      BY <3>5, <3>6
  <2>. QED
    BY <1>37, <2>2, <2>3 DEF ForwardJournal
<1>38. ASSUME NEW r \in Restores, SettleSwap(r) PROVE SwapStep
  BY <1>38, SwapStutters DEF SettleSwap, At, SameLock, SettleFailed, Release, Quiet,
     vars, worlds, stages, notes, hist
<1>39. ASSUME NEW r \in Restores, Prune(r) PROVE SwapStep
  BY <1>39, SwapStutters DEF Prune, Quiet, vars, worlds, stages, notes, hist
<1>40. ASSUME NEW r \in Restores, StageArchive(r) PROVE SwapStep
  BY <1>40, SwapStutters DEF StageArchive, Free, Quiet, vars, worlds, stages, notes,
     hist
<1>41. ASSUME NEW r \in Restores, ApplyAsked(r) PROVE SwapStep
  BY <1>41, SwapStutters DEF ApplyAsked, Quiet, vars, worlds, stages, notes, hist
<1>42. ASSUME NEW r \in Restores, ApplyBusy(r) PROVE SwapStep
  BY <1>42, SwapStutters DEF ApplyBusy, Quiet, vars, worlds, stages, notes, hist
<1>43. ASSUME NEW r \in Restores, ApplyBegin(r) PROVE SwapStep
  BY <1>43, SwapStutters DEF ApplyBegin, Free, Quiet, vars, worlds, stages, notes,
     hist
<1>44. ASSUME NEW r \in Restores, DiscardStage(r) PROVE SwapStep
  <2>1. /\ op[r] = "none" /\ journal' = [journal EXCEPT ![r] = NoJournal]
        /\ UNCHANGED <<live, settings, was>>
    BY <1>44 DEF DiscardStage, OneFault, hist
  <2>2. journal' = journal
    BY <2>1 DEF LockInv, TypeInv, TypeOK
  <2>. QED
    BY <2>1, <2>2, SwapStutters
<1>45. ASSUME NEW r \in Restores, MoveBackByHand(r) PROVE SwapStep
  <2>1. /\ live = None /\ (aside[r] # None \/ r \in Journaled)
        /\ UNCHANGED <<journal, was>>
    BY <1>45 DEF MoveBackByHand, stages, hist
  <2>2. PICK q \in Journaled : TRUE
    BY <2>1 DEF RestInv, NoneAside
  <2>3. Journal(q) /\ ~In(q, {"checking", "kept"})
    BY <2>1, <2>2, RestoresAssumption DEF JournalsInv, Journal, There, Journaled
  <2>4. In(q, {"moving", "reverting"})
    BY <2>3 DEF In, Journaled, Journals, TypeInv, TypeOK
  <2>5. Trying = {q}
    BY <2>4, TryingIs DEF MovedInv, In
  <2>. QED
    BY <2>1, <2>5, WorldsMove DEF Journaled
<1>46. ASSUME NEW r \in Restores, DiscardCopy(r) PROVE SwapStep
  BY <1>46, SwapStutters DEF DiscardCopy, Free, Journaled, Quiet, vars, worlds,
     stages, notes, hist
<1>47. CASE AgentStart
  BY <1>47, SwapStutters DEF AgentStart, Quiet, vars, worlds, stages, notes, hist
<1>48. CASE AgentUp
  BY <1>48, SwapStutters DEF AgentUp, Quiet, vars, worlds, stages, notes, hist
<1>49. CASE AgentExit
  BY <1>49, SwapStutters DEF AgentExit, Quiet, vars, worlds, stages, notes, hist
<1>50. CASE SettleNext
  BY <1>50, SwapStutters DEF SettleNext, Release, SameLock, Journaled, Quiet, vars,
     worlds, stages, notes, hist
<1>51. CASE Halt
  BY <1>51, SwapStutters DEF Halt, StopServer, Fault, Cut, Release, SameLock, Quiet,
     vars, worlds, stages, notes, hist
<1>52. CASE LaunchOwn
  <2>1. /\ UNCHANGED <<journal, was, settings>>
        /\ live' \in {live, IF live = None THEN Fresh ELSE live}
    BY <1>52 DEF LaunchOwn, StartServer, StartFailed, worlds, stages, notes, hist
  <2>2. CASE live' = live
    BY <2>1, <2>2, SwapStutters
  <2>3. CASE live = None /\ live' = Fresh /\ Trying = {}
    <3>1. Trying' = {}
      BY <2>1, <2>3 DEF Trying, Journaled, HadLive
    <3>2. Promise!Make
      BY <2>1, <2>3, <3>1, HomeNow, HomeThen DEF Promise!Make
    <3>. QED
      BY <3>2 DEF SwapStep, Promise!Next
  <2>4. CASE Trying # {}
    <3>1. PICK q \in Journaled : Trying = {q}
      BY <2>4, TryingIs
    <3>. QED
      BY <2>1, <3>1, WorldsMove DEF Journaled
  <2>. QED
    BY <2>1, <2>2, <2>3, <2>4
<1>53. CASE AwaitOwn
  BY <1>53, SwapStutters DEF AwaitOwn, Release, SameLock, OwnStartFailed, Quiet,
     vars, worlds, stages, notes, hist
<1>54. CASE GameOnline
  BY <1>54, SwapStutters DEF GameOnline, Quiet, vars, worlds, stages, notes, hist
<1>55. CASE GameExit
  BY <1>55, SwapStutters DEF GameExit, Quiet, vars, worlds, stages, notes, hist
<1>56. CASE SettleTick
  BY <1>56, SwapStutters DEF SettleTick, Free, Quiet, vars, worlds, stages, notes,
     hist
<1>57. CASE AutoStart
  BY <1>57, SwapStutters DEF AutoStart, Free, Quiet, vars, worlds, stages, notes, hist
<1>58. CASE StartAsked
  BY <1>58, SwapStutters DEF StartAsked, Free, Quiet, vars, worlds, stages, notes,
     hist
<1>59. CASE RestartAsked
  BY <1>59, SwapStutters DEF RestartAsked, Free, Quiet, vars, worlds, stages, notes,
     hist
<1>60. CASE StopAsked
  BY <1>60, SwapStutters DEF StopAsked, Free, Quiet, vars, worlds, stages, notes, hist
<1>61. CASE Crash
  BY <1>61, SwapStutters DEF Crash, Quiet, vars, worlds, stages, notes, hist
<1>62. CASE AgentStop
  BY <1>62, SwapStutters DEF AgentStop, Quiet, vars, worlds, stages, notes, hist
<1>63. CASE UNCHANGED vars
  BY <1>63, SwapStutters DEF vars, Quiet, worlds, stages, notes, hist
<1>64. ASSUME NEW r \in Restores, RestoreStep(r) PROVE SwapStep
  BY <1>64, <1>1, <1>2, <1>3, <1>4, <1>5, <1>6, <1>7, <1>8, <1>9, <1>10,
     <1>11, <1>12, <1>13, <1>14, <1>15, <1>16, <1>17, <1>18, <1>19, <1>20,
     <1>21, <1>22, <1>23, <1>24, <1>25, <1>26, <1>27, <1>28, <1>29, <1>30,
     <1>31, <1>32, <1>33, <1>34, <1>35, <1>36, <1>37, <1>38
  DEF RestoreStep
<1>65. CASE AgentStep
  BY <1>65, <1>39, <1>47, <1>48, <1>49, <1>50, <1>51, <1>52, <1>53, <1>64
  DEF AgentStep
<1>. QED
  BY <1>40, <1>41, <1>42, <1>43, <1>44, <1>45, <1>46, <1>54, <1>55, <1>56,
     <1>57, <1>58, <1>59, <1>60, <1>61, <1>62, <1>63, <1>65
  DEF Next

(* AllOrNothing, for any number of restores and crashes, with one failing  *)
(* step at most: the steps of the swap, of its undo, of its resumption and *)
(* of settling implement WorldSwap, in which a server's world and settings *)
(* are replaced together or not at all.                                    *)
THEOREM SwapImplementsWorldSwap ==
    ASSUME Apart, OneFault PROVE Spec => AllOrNothing
<1>1. Init => Promise!Init
  <2> SUFFICES ASSUME Init PROVE Promise!Init
    OBVIOUS
  <2>1. Trying = {}
    BY DEF Init, Trying, Journaled
  <2>2. live \in {Prior, None} /\ settings \in Restores \cup {Prior}
    BY DEF Init
  <2>. QED
    BY <2>1, <2>2, HomeNow DEF Promise!Init
<1>2. SwapInv /\ [Next]_vars => SwapStep
  BY OneFault, SwapNext DEF SwapInv
<1>. QED
  BY Apart, OneFault, <1>1, <1>2, SwapInvInit, SwapInvNext, PTL
  DEF Spec, AllOrNothing, Promise!Spec, Promise!vars, SwapStep

-----------------------------------------------------------------------------
(* No world is lost, whatever fails and however often.                     *)

(* The model keeps no order of the copies set aside but the journals; with *)
(* several restores, whose stages may be discarded with their journals,    *)
(* the newest copy, which the owner is told to move back, can't be told.   *)
Told == LateDiscard => \A p, q \in Restores : p = q

(* What an agent that starts has forgotten, and what a settle works on. *)
RequestsInv ==
    /\ agent = "starting" =>
          /\ settled = {} /\ kind \in {"none", "prune"}
          /\ \A q \in Restores : op[q] = "none" => asked[q] = "no"
    /\ \A q \in settled : op[q] \notin {"none", "running"}
    /\ kind \in {"settle", "start"} /\ pc \notin {"settle", "launchOwn", "awaitOwn"}
          => cur \in Restores /\ op[cur] \notin {"none", "running"}
    /\ pc \in {"settle1", "back1", "back2", "back3"} => cur \notin settled

(* A restored world that has not left its stage is nowhere else, and never *)
(* was; nor is one that is not extracted.                                  *)
StagedInv ==
    /\ box = "online" => ran.world \in played
    /\ \A q \in Restores :
          /\ staged[q] \in {q, None}
          /\ op[q] = "none" \/ staged[q] = q =>
                q \notin played /\ live # q /\ \A p \in Restores : aside[p] # q
          /\ staged[q] = q => broken[q] # "copy"
          /\ op[q] = "none" => /\ asked[q] # "no" => stage[q]
                               /\ stage[q] => staged[q] = q
                               /\ failed[q] = None
          /\ op[q] = "running" /\ journal[q] = NoJournal /\ staged[q] # None
                => aside[q] = None /\ failed[q] = None /\ was[q] = None

(* A world is in the data folder or set aside by one restore at most. *)
UniqueInv ==
    /\ live # None => \A q \in Restores : aside[q] # live
    /\ \A p, q \in Restores : p # q /\ aside[p] # None => aside[p] # aside[q]

(* While a journal is kept, the world it replaces is set aside or in the   *)
(* data folder; with no world anywhere, none is left that was played.      *)
Homed(q) ==
    /\ HadLive(q) /\ live = None => aside[q] # None
    /\ ~HadLive(q) => aside[q] = None
    /\ ~HadLive(q) /\ live = None => NoneAside
    /\ ~HadLive(q) /\ staged[q] # None => live = None
    /\ aside[q] # None => live \in {None, q}
    /\ In(q, {"checking", "kept"}) => live # None
    /\ q \in settled /\ live = None => ~HadLive(q)
    /\ q \in settled /\ ~HadLive(q) => staged[q] = None

HomesInv ==
    /\ \A q \in Journaled : Homed(q)
    /\ live = None /\ NoneAside => played \subseteq discarded
    /\ \A q \in Restores :
          op[q] = "running" /\ journal[q] = NoJournal /\ live = None => NoneAside

(* What each step finds, whatever failed before it. *)
FoundInv ==
    /\ pc \in {"stop", "rollback", "journal"}
          => staged[cur] = cur /\ failed[cur] = None /\ was[cur] = None
    /\ pc \in {"aside", "moveIn", "undo1", "putBack1", "rescue"}
          => staged[cur] = cur /\ failed[cur] = None
    /\ pc \in {"aside", "undo1", "putBack1", "rescue"} => HadLive(cur)
    /\ pc = "fwd2" => staged[cur] = cur
    /\ pc \in {"save", "check", "unsave", "undo2", "clear"} =>
          /\ live = cur /\ cur \notin played /\ failed[cur] = None
          /\ staged[cur] = None /\ ~In(cur, {"checking"})
          /\ HadLive(cur) => aside[cur] # None
          /\ ~HadLive(cur) => NoneAside /\ played \subseteq discarded
    /\ pc \in {"putBack2", "dropFailed"} => failed[cur] = cur /\ cur \notin played
    /\ pc \in {"fwdSave", "fwdJournal", "launch", "await", "keep", "startPrev"}
          => live # None
    /\ pc \in {"launch", "await", "keep"} => In(cur, {"checking"})
    /\ pc = "keep" => asked[cur] = "moved" \/ live \in played
    /\ pc \in {"aside", "moveIn", "undo1", "putBack1", "rescue", "save", "check",
               "unsave", "undo2", "clear", "putBack2", "revert", "revStop", "back1",
               "back2", "back3", "fwd1", "fwd2", "fwdSave", "fwdJournal"}
          => ~In(cur, {"kept"})
    /\ pc \in {"aside", "revStop", "back1", "back2", "back3"} => ~In(cur, {"checking"})
    /\ pc = "drop" /\ Settling /\ cur \in Journaled /\ ~HadLive(cur) => staged[cur] = None
    /\ pc \in {"dropAside", "dropAside2"} => In(cur, {"kept"})
    /\ pc \in {"dropFailed", "giveUp", "awaitPrev", "startPrev", "drop", "drop2"}
          /\ cur \in Journaled /\ live = None => ~HadLive(cur)

(* No world is in use or may be again whose copy's deletion began. *)
WholeInv ==
    /\ CopyNeverBack
    /\ \A q \in Journaled : aside[q] # None =>
          IF In(q, {"kept"}) THEN Restored(q) ELSE broken[aside[q]] # "copy"
    /\ live = None => \/ \E q \in Journaled : aside[q] # None
                      \/ \A q \in Restores : aside[q] # None => broken[aside[q]] # "copy"
    /\ PlayedWorldsSurvive

(* An agent that starts has settled nothing, and only what is over settles. *)
LEMMA RequestsNext ==
    ASSUME TypeInv, LockInv, HoldInv, RequestsInv, [Next]_vars
    PROVE  RequestsInv'
<1> USE RestoresAssumption
    DEF TypeInv, TypeOK, JournalHeld, JournalSteps, LockInv, RestoreOnly,
        Restoring, Settling, HoldInv, Journaled, Free, RequestsInv,
        worlds, stages, conts, locks, notes, hist
<1>1. ASSUME NEW r \in Restores, Stop(r) PROVE RequestsInv'
  BY <1>1 DEF Stop, At, SameLock, Quiet, StopServer, Fault, Cut, Release
<1>2. ASSUME NEW r \in Restores, SaveRollback(r) PROVE RequestsInv'
  BY <1>2 DEF SaveRollback, At, SameLock
<1>3. ASSUME NEW r \in Restores, WriteJournal(r) PROVE RequestsInv'
  BY <1>3 DEF WriteJournal, At, SameLock, Fault
<1>4. ASSUME NEW r \in Restores, GiveUp(r) PROVE RequestsInv'
  BY <1>4 DEF GiveUp, At, SameLock, Quiet, StartServer, StartFailed
<1>5. ASSUME NEW r \in Restores, AwaitPrevious(r) PROVE RequestsInv'
  BY <1>5 DEF AwaitPrevious, At, SameLock, Quiet
<1>6. ASSUME NEW r \in Restores, SetAside(r) PROVE RequestsInv'
  BY <1>6 DEF SetAside, At, SameLock, Quiet, Fault
<1>7. ASSUME NEW r \in Restores, MoveIn(r) PROVE RequestsInv'
  BY <1>7 DEF MoveIn, At, SameLock, Quiet, Fault
<1>8. ASSUME NEW r \in Restores, UndoMoveIn(r) PROVE RequestsInv'
  <2>1. CASE journal' = journal
    BY <1>8, <2>1 DEF UndoMoveIn, At, SameLock, Undoing, Quiet, HadLive, Fault
  <2>2. CASE journal' = [journal EXCEPT ![r].state = "reverting"]
    <3>1. journal[r] # NoJournal
      BY <1>8 DEF UndoMoveIn, At, Undoing
    <3>2. /\ journal'[r].state = "reverting"
          /\ journal'[r].hadLive = journal[r].hadLive
          /\ journal'[r].prev = journal[r].prev
          /\ journal'[r] # NoJournal
          /\ \A q \in Restores \ {r} : journal'[q] = journal[q]
      BY <2>2, <3>1, JournalRewritten
    <3>. QED
      BY <1>8, <3>1, <3>2 DEF UndoMoveIn, At, SameLock, Undoing, Quiet, HadLive,
         Fault
  <2>. QED
    BY <1>8, <2>1, <2>2 DEF UndoMoveIn, Undoing
<1>9. ASSUME NEW r \in Restores, PutBackUnmoved(r) PROVE RequestsInv'
  BY <1>9 DEF PutBackUnmoved, At, SameLock, Quiet, Fault
<1>10. ASSUME NEW r \in Restores, RescueStaged(r) PROVE RequestsInv'
  BY <1>10 DEF RescueStaged, At, SameLock, Quiet, Fault, FailKeepingStage
<1>11. ASSUME NEW r \in Restores, SaveRestored(r) PROVE RequestsInv'
  BY <1>11 DEF SaveRestored, At, SameLock, Quiet, Fault
<1>12. ASSUME NEW r \in Restores, JournalChecking(r) PROVE RequestsInv'
  <2>1. CASE journal' = journal
    BY <1>12, <2>1 DEF JournalChecking, At, SameLock, Quiet, Fault
  <2>2. CASE journal' = [journal EXCEPT ![r].state = "checking"]
    <3>1. journal[r] # NoJournal
      BY <1>12 DEF JournalChecking, At
    <3>2. /\ journal'[r].state = "checking"
          /\ journal'[r].hadLive = journal[r].hadLive
          /\ journal'[r].prev = journal[r].prev
          /\ journal'[r] # NoJournal
          /\ \A q \in Restores \ {r} : journal'[q] = journal[q]
      BY <2>2, <3>1, JournalRewritten
    <3>. QED
      BY <1>12, <3>1, <3>2 DEF JournalChecking, At, SameLock, Quiet, Fault
  <2>. QED
    BY <1>12, <2>1, <2>2 DEF JournalChecking
<1>13. ASSUME NEW r \in Restores, UnsaveRestored(r) PROVE RequestsInv'
  BY <1>13 DEF UnsaveRestored, At, SameLock, Quiet, Fault
<1>14. ASSUME NEW r \in Restores, UndoSettings(r) PROVE RequestsInv'
  <2>1. CASE journal' = journal
    BY <1>14, <2>1 DEF UndoSettings, At, SameLock, Undoing, Quiet, HadLive, Fault
  <2>2. CASE journal' = [journal EXCEPT ![r].state = "reverting"]
    <3>1. journal[r] # NoJournal
      BY <1>14 DEF UndoSettings, At, Undoing
    <3>2. /\ journal'[r].state = "reverting"
          /\ journal'[r].hadLive = journal[r].hadLive
          /\ journal'[r].prev = journal[r].prev
          /\ journal'[r] # NoJournal
          /\ \A q \in Restores \ {r} : journal'[q] = journal[q]
      BY <2>2, <3>1, JournalRewritten
    <3>. QED
      BY <1>14, <3>1, <3>2 DEF UndoSettings, At, SameLock, Undoing, Quiet, HadLive,
         Fault
  <2>. QED
    BY <1>14, <2>1, <2>2 DEF UndoSettings, Undoing
<1>15. ASSUME NEW r \in Restores, ClearLive(r) PROVE RequestsInv'
  BY <1>15 DEF ClearLive, At, SameLock, Quiet, Fault, FailKeepingStage
<1>16. ASSUME NEW r \in Restores, PutBackMoved(r) PROVE RequestsInv'
  BY <1>16 DEF PutBackMoved, At, SameLock, Quiet, Fault, FailKeepingStage
<1>17. ASSUME NEW r \in Restores, DropFailed(r) PROVE RequestsInv'
  BY <1>17 DEF DropFailed, At, SameLock, Quiet
<1>18. ASSUME NEW r \in Restores, Launch(r) PROVE RequestsInv'
  BY <1>18 DEF Launch, At, SameLock, StartServer, StartFailed, FinishFailed, Release
<1>19. ASSUME NEW r \in Restores, Await(r) PROVE RequestsInv'
  BY <1>19 DEF Await, At, SameLock, Quiet, FinishFailed, Release
<1>20. ASSUME NEW r \in Restores, Keep(r) PROVE RequestsInv'
  <2>1. CASE journal' = journal
    BY <1>20, <2>1 DEF Keep, At, SameLock, Quiet, Fault
  <2>2. CASE journal' = [journal EXCEPT ![r].state = "kept"]
    <3>1. journal[r] # NoJournal
      BY <1>20 DEF Keep, At
    <3>2. /\ journal'[r].state = "kept" /\ journal'[r].hadLive = journal[r].hadLive
          /\ journal'[r].prev = journal[r].prev
          /\ journal'[r] # NoJournal
          /\ \A q \in Restores \ {r} : journal'[q] = journal[q]
      BY <2>2, <3>1, JournalRewritten
    <3>. QED
      BY <1>20, <3>1, <3>2 DEF Keep, At, SameLock, Quiet, Fault
  <2>. QED
    BY <1>20, <2>1, <2>2 DEF Keep
<1>21. ASSUME NEW r \in Restores, Revert(r) PROVE RequestsInv'
  <2>1. CASE journal' = journal
    BY <1>21, <2>1 DEF Revert, At, SameLock, Quiet, Fault, FailKeepingStage
  <2>2. CASE journal' = [journal EXCEPT ![r].state = "reverting"]
    <3>1. journal[r] # NoJournal
      BY <1>21 DEF Revert, At
    <3>2. /\ journal'[r].state = "reverting"
          /\ journal'[r].hadLive = journal[r].hadLive
          /\ journal'[r].prev = journal[r].prev
          /\ journal'[r] # NoJournal
          /\ \A q \in Restores \ {r} : journal'[q] = journal[q]
      BY <2>2, <3>1, JournalRewritten
    <3>. QED
      BY <1>21, <3>1, <3>2 DEF Revert, At, SameLock, Quiet, Fault, FailKeepingStage
  <2>. QED
    BY <1>21, <2>1, <2>2 DEF Revert, FailKeepingStage
<1>22. ASSUME NEW r \in Restores, RevertStop(r) PROVE RequestsInv'
  BY <1>22 DEF RevertStop, At, SameLock, Quiet, StopServer, Fault, Cut, Release,
     FailKeepingStage
<1>23. ASSUME NEW r \in Restores, BackClear(r) PROVE RequestsInv'
  BY <1>23 DEF BackClear, At, SameLock, Fault, PutPreviousBack, BackFailed,
     FailKeepingStage, SettleFailed, Release, Settling
<1>24. ASSUME NEW r \in Restores, BackMove(r) PROVE RequestsInv'
  BY <1>24 DEF BackMove, At, SameLock, Fault, PutPreviousBack, BackFailed,
     FailKeepingStage, SettleFailed, Release, Settling
<1>25. ASSUME NEW r \in Restores, BackSave(r) PROVE RequestsInv'
  BY <1>25 DEF BackSave, At, SameLock, Fault, PutPreviousBack, BackFailed,
     FailKeepingStage, SettleFailed, Release, Settling
<1>26. ASSUME NEW r \in Restores, StartPrevious(r) PROVE RequestsInv'
  BY <1>26 DEF StartPrevious, At, SameLock, Quiet, StartServer, StartFailed
<1>27. ASSUME NEW r \in Restores, DropAside(r) PROVE RequestsInv'
  BY <1>27 DEF DropAside, At, SameLock, Quiet
<1>28. ASSUME NEW r \in Restores, DropAsideRest(r) PROVE RequestsInv'
  BY <1>28 DEF DropAsideRest, At, SameLock, Fault, SettleFailed, Release, Settling
<1>29. ASSUME NEW r \in Restores, DropStage(r) PROVE RequestsInv'
  BY <1>29 DEF DropStage, At, SameLock, Fault, SettleFailed, Release, Settling
<1>30. ASSUME NEW r \in Restores, DropStageRest(r) PROVE RequestsInv'
  BY <1>30 DEF DropStageRest, At, SameLock, Settling, Release
<1>31. ASSUME NEW r \in Restores, End(r) PROVE RequestsInv'
  BY <1>31 DEF End, At, SameLock, Quiet, Release
<1>32. ASSUME NEW r \in Restores, Recover(r) PROVE RequestsInv'
  BY <1>32 DEF Recover, At, Journals, SameLock, Quiet
<1>33. ASSUME NEW r \in Restores, Adopt(r) PROVE RequestsInv'
  BY <1>33 DEF Adopt, At, SameLock, Quiet, Release
<1>34. ASSUME NEW r \in Restores, ForwardClear(r) PROVE RequestsInv'
  BY <1>34 DEF ForwardClear, At, SameLock, Quiet, Fault, ForwardFailed
<1>35. ASSUME NEW r \in Restores, ForwardMove(r) PROVE RequestsInv'
  BY <1>35 DEF ForwardMove, At, SameLock, Quiet, Fault, ForwardFailed
<1>36. ASSUME NEW r \in Restores, ForwardSave(r) PROVE RequestsInv'
  BY <1>36 DEF ForwardSave, At, SameLock, Quiet, Fault, ForwardFailed
<1>37. ASSUME NEW r \in Restores, ForwardJournal(r) PROVE RequestsInv'
  <2>1. CASE journal' = journal
    BY <1>37, <2>1 DEF ForwardJournal, At, SameLock, Quiet, Fault, ForwardFailed
  <2>2. CASE journal' = [journal EXCEPT ![r].state = "checking"]
    <3>1. journal[r] # NoJournal
      BY <1>37 DEF ForwardJournal, At
    <3>2. /\ journal'[r].state = "checking"
          /\ journal'[r].hadLive = journal[r].hadLive
          /\ journal'[r].prev = journal[r].prev
          /\ journal'[r] # NoJournal
          /\ \A q \in Restores \ {r} : journal'[q] = journal[q]
      BY <2>2, <3>1, JournalRewritten
    <3>. QED
      BY <1>37, <3>1, <3>2 DEF ForwardJournal, At, SameLock, Quiet, Fault,
         ForwardFailed
  <2>. QED
    BY <1>37, <2>1, <2>2 DEF ForwardJournal, ForwardFailed
<1>38. ASSUME NEW r \in Restores, SettleSwap(r) PROVE RequestsInv'
  BY <1>38 DEF SettleSwap, At, SameLock, SettleFailed, Release
<1>39. ASSUME NEW r \in Restores, Prune(r) PROVE RequestsInv'
  BY <1>39 DEF Prune
<1>40. ASSUME NEW r \in Restores, StageArchive(r) PROVE RequestsInv'
  BY <1>40 DEF StageArchive, Free
<1>41. ASSUME NEW r \in Restores, ApplyAsked(r) PROVE RequestsInv'
  BY <1>41 DEF ApplyAsked
<1>42. ASSUME NEW r \in Restores, ApplyBusy(r) PROVE RequestsInv'
  BY <1>42 DEF ApplyBusy
<1>43. ASSUME NEW r \in Restores, ApplyBegin(r) PROVE RequestsInv'
  BY <1>43 DEF ApplyBegin, Apart, RestoreRefusal, Busy
<1>44. ASSUME NEW r \in Restores, DiscardStage(r) PROVE RequestsInv'
  BY <1>44 DEF DiscardStage, Free
<1>45. ASSUME NEW r \in Restores, MoveBackByHand(r) PROVE RequestsInv'
  BY <1>45 DEF MoveBackByHand, Journaled
<1>46. ASSUME NEW r \in Restores, DiscardCopy(r) PROVE RequestsInv'
  BY <1>46 DEF DiscardCopy, Free, Journaled
<1>47. CASE AgentStart
  BY <1>47 DEF AgentStart
<1>48. CASE AgentUp
  BY <1>48 DEF AgentUp
<1>49. CASE AgentExit
  BY <1>49 DEF AgentExit
<1>50. CASE SettleNext
  BY <1>50 DEF SettleNext, Release, SameLock, Journaled
<1>51. CASE Halt
  BY <1>51 DEF Halt, StopServer, Fault, Cut, Release, SameLock
<1>52. CASE LaunchOwn
  BY <1>52 DEF LaunchOwn, StartServer, StartFailed, Release, SameLock,
     OwnStartFailed
<1>53. CASE AwaitOwn
  BY <1>53 DEF AwaitOwn, Release, SameLock, OwnStartFailed
<1>54. CASE GameOnline
  BY <1>54 DEF GameOnline
<1>55. CASE GameExit
  BY <1>55 DEF GameExit
<1>56. CASE SettleTick
  BY <1>56 DEF SettleTick, Free
<1>57. CASE AutoStart
  BY <1>57 DEF AutoStart, Free
<1>58. CASE StartAsked
  BY <1>58 DEF StartAsked, Free
<1>59. CASE RestartAsked
  BY <1>59 DEF RestartAsked, Free
<1>60. CASE StopAsked
  BY <1>60 DEF StopAsked, Free
<1>61. CASE Crash
  BY <1>61 DEF Crash
<1>62. CASE AgentStop
  BY <1>62 DEF AgentStop
<1>63. CASE UNCHANGED vars
  BY <1>63 DEF vars
<1> HIDE DEF TypeInv, TypeOK, JournalHeld, JournalSteps, LockInv, RestoreOnly,
        Restoring, Settling, HoldInv, Journaled, Free, RequestsInv,
        worlds, stages, conts, locks, notes, hist
<1>64. ASSUME NEW r \in Restores, RestoreStep(r) PROVE RequestsInv'
  BY <1>64, <1>1, <1>2, <1>3, <1>4, <1>5, <1>6, <1>7, <1>8, <1>9, <1>10,
     <1>11, <1>12, <1>13, <1>14, <1>15, <1>16, <1>17, <1>18, <1>19, <1>20,
     <1>21, <1>22, <1>23, <1>24, <1>25, <1>26, <1>27, <1>28, <1>29, <1>30,
     <1>31, <1>32, <1>33, <1>34, <1>35, <1>36, <1>37, <1>38
  DEF RestoreStep
<1>65. CASE AgentStep
  BY <1>65, <1>39, <1>47, <1>48, <1>49, <1>50, <1>51, <1>52, <1>53, <1>64
  DEF AgentStep
<1>. QED
  BY <1>40, <1>41, <1>42, <1>43, <1>44, <1>45, <1>46, <1>54, <1>55, <1>56,
     <1>57, <1>58, <1>59, <1>60, <1>61, <1>62, <1>63, <1>65
  DEF Next

(* A staged world moves into the data folder by the swap alone, once.      *)
LEMMA StagedNext ==
    ASSUME TypeInv, LockInv, BoxInv, HoldInv, AsideInv, RequestsInv,
           StagedInv, [Next]_vars
    PROVE  StagedInv'
<1> USE RestoresAssumption
    DEF TypeInv, TypeOK, JournalHeld, JournalSteps, LockInv, RestoreOnly,
        Restoring, Settling, HoldInv, Journaled, Free, RequestsInv, BoxInv,
        RunsInPlace, AsideInv, StagedInv, Worlds,
        worlds, stages, conts, locks, notes, hist
<1>1. ASSUME NEW r \in Restores, Stop(r) PROVE StagedInv'
  BY <1>1 DEF Stop, At, SameLock, Quiet, StopServer, Fault, Cut, Release
<1>2. ASSUME NEW r \in Restores, SaveRollback(r) PROVE StagedInv'
  BY <1>2 DEF SaveRollback, At, SameLock
<1>3. ASSUME NEW r \in Restores, WriteJournal(r) PROVE StagedInv'
  <2>1. CASE Fault /\ pc' = "giveUp" /\ UNCHANGED <<journal, was>>
    BY <1>3, <2>1 DEF WriteJournal, At, SameLock, Fault
  <2> DEFINE j == [state |-> "moving", hadLive |-> live # None, prev |-> settings]
  <2>2. CASE /\ journal' = [journal EXCEPT ![r] = j]
             /\ was' = [was EXCEPT ![r] = live]
    <3>1. /\ cur = r /\ pc = "journal" /\ journal[r] = NoJournal
          /\ UNCHANGED <<live, aside, failed, staged, broken, stage, op, asked, played,
                         box, ran>>
      BY <1>3 DEF WriteJournal, At, SameLock
    <3>2. journal'[r] # NoJournal
      <4>1. j \in Journals
        BY DEF Journals
      <4>. QED
        BY <2>2, <4>1, JournalIsNone
    <3>3. \A q \in Restores \ {r} : journal'[q] = journal[q] /\ was'[q] = was[q]
      BY <2>2
    <3> HIDE DEF j
    <3>. QED
      BY <3>1, <3>2, <3>3
  <2>. QED
    BY <1>3, <2>1, <2>2 DEF WriteJournal
<1>4. ASSUME NEW r \in Restores, GiveUp(r) PROVE StagedInv'
  BY <1>4 DEF GiveUp, At, SameLock, Quiet, StartServer, StartFailed
<1>5. ASSUME NEW r \in Restores, AwaitPrevious(r) PROVE StagedInv'
  BY <1>5 DEF AwaitPrevious, At, SameLock, Quiet
<1>6. ASSUME NEW r \in Restores, SetAside(r) PROVE StagedInv'
  BY <1>6 DEF SetAside, At, SameLock, Quiet, Fault
<1>7. ASSUME NEW r \in Restores, MoveIn(r) PROVE StagedInv'
  BY <1>7 DEF MoveIn, At, SameLock, Quiet, Fault
<1>8. ASSUME NEW r \in Restores, UndoMoveIn(r) PROVE StagedInv'
  <2>1. CASE journal' = journal
    BY <1>8, <2>1 DEF UndoMoveIn, At, SameLock, Undoing, Quiet, HadLive, Fault
  <2>2. CASE journal' = [journal EXCEPT ![r].state = "reverting"]
    <3>1. journal[r] # NoJournal
      BY <1>8 DEF UndoMoveIn, At, Undoing
    <3>2. /\ journal'[r].state = "reverting"
          /\ journal'[r].hadLive = journal[r].hadLive
          /\ journal'[r].prev = journal[r].prev
          /\ journal'[r] # NoJournal
          /\ \A q \in Restores \ {r} : journal'[q] = journal[q]
      BY <2>2, <3>1, JournalRewritten
    <3>. QED
      BY <1>8, <3>1, <3>2 DEF UndoMoveIn, At, SameLock, Undoing, Quiet, HadLive,
         Fault
  <2>. QED
    BY <1>8, <2>1, <2>2 DEF UndoMoveIn, Undoing
<1>9. ASSUME NEW r \in Restores, PutBackUnmoved(r) PROVE StagedInv'
  BY <1>9 DEF PutBackUnmoved, At, SameLock, Quiet, Fault
<1>10. ASSUME NEW r \in Restores, RescueStaged(r) PROVE StagedInv'
  BY <1>10 DEF RescueStaged, At, SameLock, Quiet, Fault, FailKeepingStage
<1>11. ASSUME NEW r \in Restores, SaveRestored(r) PROVE StagedInv'
  BY <1>11 DEF SaveRestored, At, SameLock, Quiet, Fault
<1>12. ASSUME NEW r \in Restores, JournalChecking(r) PROVE StagedInv'
  <2>1. CASE journal' = journal
    BY <1>12, <2>1 DEF JournalChecking, At, SameLock, Quiet, Fault
  <2>2. CASE journal' = [journal EXCEPT ![r].state = "checking"]
    <3>1. journal[r] # NoJournal
      BY <1>12 DEF JournalChecking, At
    <3>2. /\ journal'[r].state = "checking"
          /\ journal'[r].hadLive = journal[r].hadLive
          /\ journal'[r].prev = journal[r].prev
          /\ journal'[r] # NoJournal
          /\ \A q \in Restores \ {r} : journal'[q] = journal[q]
      BY <2>2, <3>1, JournalRewritten
    <3>. QED
      BY <1>12, <3>1, <3>2 DEF JournalChecking, At, SameLock, Quiet, Fault
  <2>. QED
    BY <1>12, <2>1, <2>2 DEF JournalChecking
<1>13. ASSUME NEW r \in Restores, UnsaveRestored(r) PROVE StagedInv'
  BY <1>13 DEF UnsaveRestored, At, SameLock, Quiet, Fault
<1>14. ASSUME NEW r \in Restores, UndoSettings(r) PROVE StagedInv'
  <2>1. CASE journal' = journal
    BY <1>14, <2>1 DEF UndoSettings, At, SameLock, Undoing, Quiet, HadLive, Fault
  <2>2. CASE journal' = [journal EXCEPT ![r].state = "reverting"]
    <3>1. journal[r] # NoJournal
      BY <1>14 DEF UndoSettings, At, Undoing
    <3>2. /\ journal'[r].state = "reverting"
          /\ journal'[r].hadLive = journal[r].hadLive
          /\ journal'[r].prev = journal[r].prev
          /\ journal'[r] # NoJournal
          /\ \A q \in Restores \ {r} : journal'[q] = journal[q]
      BY <2>2, <3>1, JournalRewritten
    <3>. QED
      BY <1>14, <3>1, <3>2 DEF UndoSettings, At, SameLock, Undoing, Quiet, HadLive,
         Fault
  <2>. QED
    BY <1>14, <2>1, <2>2 DEF UndoSettings, Undoing
<1>15. ASSUME NEW r \in Restores, ClearLive(r) PROVE StagedInv'
  BY <1>15 DEF ClearLive, At, SameLock, Quiet, Fault, FailKeepingStage
<1>16. ASSUME NEW r \in Restores, PutBackMoved(r) PROVE StagedInv'
  BY <1>16 DEF PutBackMoved, At, SameLock, Quiet, Fault, FailKeepingStage
<1>17. ASSUME NEW r \in Restores, DropFailed(r) PROVE StagedInv'
  BY <1>17 DEF DropFailed, At, SameLock, Quiet
<1>18. ASSUME NEW r \in Restores, Launch(r) PROVE StagedInv'
  BY <1>18 DEF Launch, At, SameLock, StartServer, StartFailed, FinishFailed, Release
<1>19. ASSUME NEW r \in Restores, Await(r) PROVE StagedInv'
  BY <1>19 DEF Await, At, SameLock, Quiet, FinishFailed, Release
<1>20. ASSUME NEW r \in Restores, Keep(r) PROVE StagedInv'
  <2>1. CASE journal' = journal
    BY <1>20, <2>1 DEF Keep, At, SameLock, Quiet, Fault
  <2>2. CASE journal' = [journal EXCEPT ![r].state = "kept"]
    <3>1. journal[r] # NoJournal
      BY <1>20 DEF Keep, At
    <3>2. /\ journal'[r].state = "kept" /\ journal'[r].hadLive = journal[r].hadLive
          /\ journal'[r].prev = journal[r].prev
          /\ journal'[r] # NoJournal
          /\ \A q \in Restores \ {r} : journal'[q] = journal[q]
      BY <2>2, <3>1, JournalRewritten
    <3>. QED
      BY <1>20, <3>1, <3>2 DEF Keep, At, SameLock, Quiet, Fault
  <2>. QED
    BY <1>20, <2>1, <2>2 DEF Keep
<1>21. ASSUME NEW r \in Restores, Revert(r) PROVE StagedInv'
  <2>1. CASE journal' = journal
    BY <1>21, <2>1 DEF Revert, At, SameLock, Quiet, Fault, FailKeepingStage
  <2>2. CASE journal' = [journal EXCEPT ![r].state = "reverting"]
    <3>1. journal[r] # NoJournal
      BY <1>21 DEF Revert, At
    <3>2. /\ journal'[r].state = "reverting"
          /\ journal'[r].hadLive = journal[r].hadLive
          /\ journal'[r].prev = journal[r].prev
          /\ journal'[r] # NoJournal
          /\ \A q \in Restores \ {r} : journal'[q] = journal[q]
      BY <2>2, <3>1, JournalRewritten
    <3>. QED
      BY <1>21, <3>1, <3>2 DEF Revert, At, SameLock, Quiet, Fault, FailKeepingStage
  <2>. QED
    BY <1>21, <2>1, <2>2 DEF Revert, FailKeepingStage
<1>22. ASSUME NEW r \in Restores, RevertStop(r) PROVE StagedInv'
  BY <1>22 DEF RevertStop, At, SameLock, Quiet, StopServer, Fault, Cut, Release,
     FailKeepingStage
<1>23. ASSUME NEW r \in Restores, BackClear(r) PROVE StagedInv'
  BY <1>23 DEF BackClear, At, SameLock, Fault, PutPreviousBack, BackFailed,
     FailKeepingStage, SettleFailed, Release, Settling
<1>24. ASSUME NEW r \in Restores, BackMove(r) PROVE StagedInv'
  BY <1>24 DEF BackMove, At, SameLock, Fault, PutPreviousBack, BackFailed,
     FailKeepingStage, SettleFailed, Release, Settling
<1>25. ASSUME NEW r \in Restores, BackSave(r) PROVE StagedInv'
  BY <1>25 DEF BackSave, At, SameLock, Fault, PutPreviousBack, BackFailed,
     FailKeepingStage, SettleFailed, Release, Settling
<1>26. ASSUME NEW r \in Restores, StartPrevious(r) PROVE StagedInv'
  BY <1>26 DEF StartPrevious, At, SameLock, Quiet, StartServer, StartFailed
<1>27. ASSUME NEW r \in Restores, DropAside(r) PROVE StagedInv'
  BY <1>27 DEF DropAside, At, SameLock, Quiet
<1>28. ASSUME NEW r \in Restores, DropAsideRest(r) PROVE StagedInv'
  BY <1>28 DEF DropAsideRest, At, SameLock, Fault, SettleFailed, Release, Settling
<1>29. ASSUME NEW r \in Restores, DropStage(r) PROVE StagedInv'
  BY <1>29 DEF DropStage, At, SameLock, Fault, SettleFailed, Release, Settling
<1>30. ASSUME NEW r \in Restores, DropStageRest(r) PROVE StagedInv'
  BY <1>30 DEF DropStageRest, At, SameLock, Settling, Release
<1>31. ASSUME NEW r \in Restores, End(r) PROVE StagedInv'
  BY <1>31 DEF End, At, SameLock, Quiet, Release
<1>32. ASSUME NEW r \in Restores, Recover(r) PROVE StagedInv'
  BY <1>32 DEF Recover, At, Journals, SameLock, Quiet
<1>33. ASSUME NEW r \in Restores, Adopt(r) PROVE StagedInv'
  BY <1>33 DEF Adopt, At, SameLock, Quiet, Release
<1>34. ASSUME NEW r \in Restores, ForwardClear(r) PROVE StagedInv'
  BY <1>34 DEF ForwardClear, At, SameLock, Quiet, Fault, ForwardFailed
<1>35. ASSUME NEW r \in Restores, ForwardMove(r) PROVE StagedInv'
  BY <1>35 DEF ForwardMove, At, SameLock, Quiet, Fault, ForwardFailed
<1>36. ASSUME NEW r \in Restores, ForwardSave(r) PROVE StagedInv'
  BY <1>36 DEF ForwardSave, At, SameLock, Quiet, Fault, ForwardFailed
<1>37. ASSUME NEW r \in Restores, ForwardJournal(r) PROVE StagedInv'
  <2>1. CASE journal' = journal
    BY <1>37, <2>1 DEF ForwardJournal, At, SameLock, Quiet, Fault, ForwardFailed
  <2>2. CASE journal' = [journal EXCEPT ![r].state = "checking"]
    <3>1. journal[r] # NoJournal
      BY <1>37 DEF ForwardJournal, At
    <3>2. /\ journal'[r].state = "checking"
          /\ journal'[r].hadLive = journal[r].hadLive
          /\ journal'[r].prev = journal[r].prev
          /\ journal'[r] # NoJournal
          /\ \A q \in Restores \ {r} : journal'[q] = journal[q]
      BY <2>2, <3>1, JournalRewritten
    <3>. QED
      BY <1>37, <3>1, <3>2 DEF ForwardJournal, At, SameLock, Quiet, Fault,
         ForwardFailed
  <2>. QED
    BY <1>37, <2>1, <2>2 DEF ForwardJournal, ForwardFailed
<1>38. ASSUME NEW r \in Restores, SettleSwap(r) PROVE StagedInv'
  BY <1>38 DEF SettleSwap, At, SameLock, SettleFailed, Release
<1>39. ASSUME NEW r \in Restores, Prune(r) PROVE StagedInv'
  BY <1>39 DEF Prune
<1>40. ASSUME NEW r \in Restores, StageArchive(r) PROVE StagedInv'
  BY <1>40 DEF StageArchive, Free
<1>41. ASSUME NEW r \in Restores, ApplyAsked(r) PROVE StagedInv'
  BY <1>41 DEF ApplyAsked
<1>42. ASSUME NEW r \in Restores, ApplyBusy(r) PROVE StagedInv'
  BY <1>42 DEF ApplyBusy
<1>43. ASSUME NEW r \in Restores, ApplyBegin(r) PROVE StagedInv'
  BY <1>43 DEF ApplyBegin, Apart, RestoreRefusal, Busy
<1>44. ASSUME NEW r \in Restores, DiscardStage(r) PROVE StagedInv'
  BY <1>44 DEF DiscardStage, Free
<1>45. ASSUME NEW r \in Restores, MoveBackByHand(r) PROVE StagedInv'
  BY <1>45 DEF MoveBackByHand, Journaled
<1>46. ASSUME NEW r \in Restores, DiscardCopy(r) PROVE StagedInv'
  BY <1>46 DEF DiscardCopy, Free, Journaled
<1>47. CASE AgentStart
  BY <1>47 DEF AgentStart
<1>48. CASE AgentUp
  BY <1>48 DEF AgentUp
<1>49. CASE AgentExit
  BY <1>49 DEF AgentExit
<1>50. CASE SettleNext
  BY <1>50 DEF SettleNext, Release, SameLock, Journaled
<1>51. CASE Halt
  BY <1>51 DEF Halt, StopServer, Fault, Cut, Release, SameLock
<1>52. CASE LaunchOwn
  BY <1>52 DEF LaunchOwn, StartServer, StartFailed, Release, SameLock,
     OwnStartFailed
<1>53. CASE AwaitOwn
  BY <1>53 DEF AwaitOwn, Release, SameLock, OwnStartFailed
<1>54. CASE GameOnline
  BY <1>54 DEF GameOnline
<1>55. CASE GameExit
  BY <1>55 DEF GameExit
<1>56. CASE SettleTick
  BY <1>56 DEF SettleTick, Free
<1>57. CASE AutoStart
  BY <1>57 DEF AutoStart, Free
<1>58. CASE StartAsked
  BY <1>58 DEF StartAsked, Free
<1>59. CASE RestartAsked
  BY <1>59 DEF RestartAsked, Free
<1>60. CASE StopAsked
  BY <1>60 DEF StopAsked, Free
<1>61. CASE Crash
  BY <1>61 DEF Crash
<1>62. CASE AgentStop
  BY <1>62 DEF AgentStop
<1>63. CASE UNCHANGED vars
  BY <1>63 DEF vars
<1> HIDE DEF TypeInv, TypeOK, JournalHeld, JournalSteps, LockInv, RestoreOnly,
        Restoring, Settling, HoldInv, Journaled, Free, RequestsInv, BoxInv,
        RunsInPlace, AsideInv, StagedInv, Worlds,
        worlds, stages, conts, locks, notes, hist
<1>64. ASSUME NEW r \in Restores, RestoreStep(r) PROVE StagedInv'
  BY <1>64, <1>1, <1>2, <1>3, <1>4, <1>5, <1>6, <1>7, <1>8, <1>9, <1>10,
     <1>11, <1>12, <1>13, <1>14, <1>15, <1>16, <1>17, <1>18, <1>19, <1>20,
     <1>21, <1>22, <1>23, <1>24, <1>25, <1>26, <1>27, <1>28, <1>29, <1>30,
     <1>31, <1>32, <1>33, <1>34, <1>35, <1>36, <1>37, <1>38
  DEF RestoreStep
<1>65. CASE AgentStep
  BY <1>65, <1>39, <1>47, <1>48, <1>49, <1>50, <1>51, <1>52, <1>53, <1>64
  DEF AgentStep
<1>. QED
  BY <1>40, <1>41, <1>42, <1>43, <1>44, <1>45, <1>46, <1>54, <1>55, <1>56,
     <1>57, <1>58, <1>59, <1>60, <1>61, <1>62, <1>63, <1>65
  DEF Next

(* A world set aside is neither the live one nor set aside twice.          *)
LEMMA UniqueNext ==
    ASSUME TypeInv, LockInv, BoxInv, HoldInv, AsideInv, RequestsInv,
           StagedInv, UniqueInv, [Next]_vars
    PROVE  UniqueInv'
<1> USE RestoresAssumption
    DEF TypeInv, TypeOK, JournalHeld, JournalSteps, LockInv, RestoreOnly,
        Restoring, Settling, HoldInv, Journaled, Free, BoxInv, StoppedSteps,
        RunsInPlace, AsideInv, StagedInv, Worlds,
        worlds, stages, conts, locks, notes, hist, UniqueInv
<1>1. ASSUME NEW r \in Restores, Stop(r) PROVE UniqueInv'
  BY <1>1 DEF Stop, At, SameLock, Quiet, StopServer, Fault, Cut, Release
<1>2. ASSUME NEW r \in Restores, SaveRollback(r) PROVE UniqueInv'
  BY <1>2 DEF SaveRollback, At, SameLock
<1>3. ASSUME NEW r \in Restores, WriteJournal(r) PROVE UniqueInv'
  BY <1>3 DEF WriteJournal, At, SameLock, Fault
<1>4. ASSUME NEW r \in Restores, GiveUp(r) PROVE UniqueInv'
  BY <1>4 DEF GiveUp, At, SameLock, Quiet, StartServer, StartFailed, CanStart,
     DirsRefused, WorldMissing
<1>5. ASSUME NEW r \in Restores, AwaitPrevious(r) PROVE UniqueInv'
  BY <1>5 DEF AwaitPrevious, At, SameLock, Quiet
<1>6. ASSUME NEW r \in Restores, SetAside(r) PROVE UniqueInv'
  BY <1>6 DEF SetAside, At, SameLock, Quiet, Fault
<1>7. ASSUME NEW r \in Restores, MoveIn(r) PROVE UniqueInv'
  BY <1>7 DEF MoveIn, At, SameLock, Quiet, Fault
<1>8. ASSUME NEW r \in Restores, UndoMoveIn(r) PROVE UniqueInv'
  <2>1. CASE journal' = journal
    BY <1>8, <2>1 DEF UndoMoveIn, At, SameLock, Undoing, Quiet, HadLive, Fault
  <2>2. CASE journal' = [journal EXCEPT ![r].state = "reverting"]
    <3>1. journal[r] # NoJournal
      BY <1>8 DEF UndoMoveIn, At, Undoing
    <3>2. /\ journal'[r].state = "reverting"
          /\ journal'[r].hadLive = journal[r].hadLive
          /\ journal'[r].prev = journal[r].prev
          /\ journal'[r] # NoJournal
          /\ \A q \in Restores \ {r} : journal'[q] = journal[q]
      BY <2>2, <3>1, JournalRewritten
    <3>. QED
      BY <1>8, <3>1, <3>2 DEF UndoMoveIn, At, SameLock, Undoing, Quiet, HadLive,
         Fault
  <2>. QED
    BY <1>8, <2>1, <2>2 DEF UndoMoveIn, Undoing
<1>9. ASSUME NEW r \in Restores, PutBackUnmoved(r) PROVE UniqueInv'
  BY <1>9 DEF PutBackUnmoved, At, SameLock, Quiet, Fault
<1>10. ASSUME NEW r \in Restores, RescueStaged(r) PROVE UniqueInv'
  BY <1>10 DEF RescueStaged, At, SameLock, Quiet, Fault, FailKeepingStage
<1>11. ASSUME NEW r \in Restores, SaveRestored(r) PROVE UniqueInv'
  BY <1>11 DEF SaveRestored, At, SameLock, Quiet, Fault
<1>12. ASSUME NEW r \in Restores, JournalChecking(r) PROVE UniqueInv'
  <2>1. CASE journal' = journal
    BY <1>12, <2>1 DEF JournalChecking, At, SameLock, Quiet, Fault
  <2>2. CASE journal' = [journal EXCEPT ![r].state = "checking"]
    <3>1. journal[r] # NoJournal
      BY <1>12 DEF JournalChecking, At
    <3>2. /\ journal'[r].state = "checking"
          /\ journal'[r].hadLive = journal[r].hadLive
          /\ journal'[r].prev = journal[r].prev
          /\ journal'[r] # NoJournal
          /\ \A q \in Restores \ {r} : journal'[q] = journal[q]
      BY <2>2, <3>1, JournalRewritten
    <3>. QED
      BY <1>12, <3>1, <3>2 DEF JournalChecking, At, SameLock, Quiet, Fault
  <2>. QED
    BY <1>12, <2>1, <2>2 DEF JournalChecking
<1>13. ASSUME NEW r \in Restores, UnsaveRestored(r) PROVE UniqueInv'
  BY <1>13 DEF UnsaveRestored, At, SameLock, Quiet, Fault
<1>14. ASSUME NEW r \in Restores, UndoSettings(r) PROVE UniqueInv'
  <2>1. CASE journal' = journal
    BY <1>14, <2>1 DEF UndoSettings, At, SameLock, Undoing, Quiet, HadLive, Fault
  <2>2. CASE journal' = [journal EXCEPT ![r].state = "reverting"]
    <3>1. journal[r] # NoJournal
      BY <1>14 DEF UndoSettings, At, Undoing
    <3>2. /\ journal'[r].state = "reverting"
          /\ journal'[r].hadLive = journal[r].hadLive
          /\ journal'[r].prev = journal[r].prev
          /\ journal'[r] # NoJournal
          /\ \A q \in Restores \ {r} : journal'[q] = journal[q]
      BY <2>2, <3>1, JournalRewritten
    <3>. QED
      BY <1>14, <3>1, <3>2 DEF UndoSettings, At, SameLock, Undoing, Quiet, HadLive,
         Fault
  <2>. QED
    BY <1>14, <2>1, <2>2 DEF UndoSettings, Undoing
<1>15. ASSUME NEW r \in Restores, ClearLive(r) PROVE UniqueInv'
  BY <1>15 DEF ClearLive, At, SameLock, Quiet, Fault, FailKeepingStage
<1>16. ASSUME NEW r \in Restores, PutBackMoved(r) PROVE UniqueInv'
  BY <1>16 DEF PutBackMoved, At, SameLock, Quiet, Fault, FailKeepingStage
<1>17. ASSUME NEW r \in Restores, DropFailed(r) PROVE UniqueInv'
  BY <1>17 DEF DropFailed, At, SameLock, Quiet
<1>18. ASSUME NEW r \in Restores, Launch(r) PROVE UniqueInv'
  BY <1>18 DEF Launch, At, SameLock, StartServer, StartFailed, FinishFailed,
     Release, CanStart, DirsRefused, WorldMissing
<1>19. ASSUME NEW r \in Restores, Await(r) PROVE UniqueInv'
  BY <1>19 DEF Await, At, SameLock, Quiet, FinishFailed, Release
<1>20. ASSUME NEW r \in Restores, Keep(r) PROVE UniqueInv'
  <2>1. CASE journal' = journal
    BY <1>20, <2>1 DEF Keep, At, SameLock, Quiet, Fault
  <2>2. CASE journal' = [journal EXCEPT ![r].state = "kept"]
    <3>1. journal[r] # NoJournal
      BY <1>20 DEF Keep, At
    <3>2. /\ journal'[r].state = "kept" /\ journal'[r].hadLive = journal[r].hadLive
          /\ journal'[r].prev = journal[r].prev
          /\ journal'[r] # NoJournal
          /\ \A q \in Restores \ {r} : journal'[q] = journal[q]
      BY <2>2, <3>1, JournalRewritten
    <3>. QED
      BY <1>20, <3>1, <3>2 DEF Keep, At, SameLock, Quiet, Fault
  <2>. QED
    BY <1>20, <2>1, <2>2 DEF Keep
<1>21. ASSUME NEW r \in Restores, Revert(r) PROVE UniqueInv'
  <2>1. CASE journal' = journal
    BY <1>21, <2>1 DEF Revert, At, SameLock, Quiet, Fault, FailKeepingStage
  <2>2. CASE journal' = [journal EXCEPT ![r].state = "reverting"]
    <3>1. journal[r] # NoJournal
      BY <1>21 DEF Revert, At
    <3>2. /\ journal'[r].state = "reverting"
          /\ journal'[r].hadLive = journal[r].hadLive
          /\ journal'[r].prev = journal[r].prev
          /\ journal'[r] # NoJournal
          /\ \A q \in Restores \ {r} : journal'[q] = journal[q]
      BY <2>2, <3>1, JournalRewritten
    <3>. QED
      BY <1>21, <3>1, <3>2 DEF Revert, At, SameLock, Quiet, Fault, FailKeepingStage
  <2>. QED
    BY <1>21, <2>1, <2>2 DEF Revert, FailKeepingStage
<1>22. ASSUME NEW r \in Restores, RevertStop(r) PROVE UniqueInv'
  BY <1>22 DEF RevertStop, At, SameLock, Quiet, StopServer, Fault, Cut, Release,
     FailKeepingStage
<1>23. ASSUME NEW r \in Restores, BackClear(r) PROVE UniqueInv'
  BY <1>23 DEF BackClear, At, SameLock, Fault, PutPreviousBack, BackFailed,
     FailKeepingStage, SettleFailed, Release, Settling
<1>24. ASSUME NEW r \in Restores, BackMove(r) PROVE UniqueInv'
  BY <1>24 DEF BackMove, At, SameLock, Fault, PutPreviousBack, BackFailed,
     FailKeepingStage, SettleFailed, Release, Settling
<1>25. ASSUME NEW r \in Restores, BackSave(r) PROVE UniqueInv'
  BY <1>25 DEF BackSave, At, SameLock, Fault, PutPreviousBack, BackFailed,
     FailKeepingStage, SettleFailed, Release, Settling
<1>26. ASSUME NEW r \in Restores, StartPrevious(r) PROVE UniqueInv'
  BY <1>26 DEF StartPrevious, At, SameLock, Quiet, StartServer, StartFailed,
     CanStart, DirsRefused, WorldMissing
<1>27. ASSUME NEW r \in Restores, DropAside(r) PROVE UniqueInv'
  BY <1>27 DEF DropAside, At, SameLock, Quiet
<1>28. ASSUME NEW r \in Restores, DropAsideRest(r) PROVE UniqueInv'
  BY <1>28 DEF DropAsideRest, At, SameLock, Fault, SettleFailed, Release, Settling
<1>29. ASSUME NEW r \in Restores, DropStage(r) PROVE UniqueInv'
  BY <1>29 DEF DropStage, At, SameLock, Fault, SettleFailed, Release, Settling
<1>30. ASSUME NEW r \in Restores, DropStageRest(r) PROVE UniqueInv'
  BY <1>30 DEF DropStageRest, At, SameLock, Settling, Release
<1>31. ASSUME NEW r \in Restores, End(r) PROVE UniqueInv'
  BY <1>31 DEF End, At, SameLock, Quiet, Release
<1>32. ASSUME NEW r \in Restores, Recover(r) PROVE UniqueInv'
  BY <1>32 DEF Recover, At, Journals, SameLock, Quiet
<1>33. ASSUME NEW r \in Restores, Adopt(r) PROVE UniqueInv'
  BY <1>33 DEF Adopt, At, SameLock, Quiet, Release
<1>34. ASSUME NEW r \in Restores, ForwardClear(r) PROVE UniqueInv'
  BY <1>34 DEF ForwardClear, At, SameLock, Quiet, Fault, ForwardFailed
<1>35. ASSUME NEW r \in Restores, ForwardMove(r) PROVE UniqueInv'
  BY <1>35 DEF ForwardMove, At, SameLock, Quiet, Fault, ForwardFailed
<1>36. ASSUME NEW r \in Restores, ForwardSave(r) PROVE UniqueInv'
  BY <1>36 DEF ForwardSave, At, SameLock, Quiet, Fault, ForwardFailed
<1>37. ASSUME NEW r \in Restores, ForwardJournal(r) PROVE UniqueInv'
  <2>1. CASE journal' = journal
    BY <1>37, <2>1 DEF ForwardJournal, At, SameLock, Quiet, Fault, ForwardFailed
  <2>2. CASE journal' = [journal EXCEPT ![r].state = "checking"]
    <3>1. journal[r] # NoJournal
      BY <1>37 DEF ForwardJournal, At
    <3>2. /\ journal'[r].state = "checking"
          /\ journal'[r].hadLive = journal[r].hadLive
          /\ journal'[r].prev = journal[r].prev
          /\ journal'[r] # NoJournal
          /\ \A q \in Restores \ {r} : journal'[q] = journal[q]
      BY <2>2, <3>1, JournalRewritten
    <3>. QED
      BY <1>37, <3>1, <3>2 DEF ForwardJournal, At, SameLock, Quiet, Fault,
         ForwardFailed
  <2>. QED
    BY <1>37, <2>1, <2>2 DEF ForwardJournal, ForwardFailed
<1>38. ASSUME NEW r \in Restores, SettleSwap(r) PROVE UniqueInv'
  BY <1>38 DEF SettleSwap, At, SameLock, SettleFailed, Release
<1>39. ASSUME NEW r \in Restores, Prune(r) PROVE UniqueInv'
  BY <1>39 DEF Prune
<1>40. ASSUME NEW r \in Restores, StageArchive(r) PROVE UniqueInv'
  BY <1>40 DEF StageArchive, Free
<1>41. ASSUME NEW r \in Restores, ApplyAsked(r) PROVE UniqueInv'
  BY <1>41 DEF ApplyAsked
<1>42. ASSUME NEW r \in Restores, ApplyBusy(r) PROVE UniqueInv'
  BY <1>42 DEF ApplyBusy
<1>43. ASSUME NEW r \in Restores, ApplyBegin(r) PROVE UniqueInv'
  BY <1>43 DEF ApplyBegin, Apart, RestoreRefusal, Busy
<1>44. ASSUME NEW r \in Restores, DiscardStage(r) PROVE UniqueInv'
  BY <1>44 DEF DiscardStage, Free
<1>45. ASSUME NEW r \in Restores, MoveBackByHand(r) PROVE UniqueInv'
  BY <1>45 DEF MoveBackByHand, Journaled
<1>46. ASSUME NEW r \in Restores, DiscardCopy(r) PROVE UniqueInv'
  BY <1>46 DEF DiscardCopy, Free, Journaled
<1>47. CASE AgentStart
  BY <1>47 DEF AgentStart
<1>48. CASE AgentUp
  BY <1>48 DEF AgentUp
<1>49. CASE AgentExit
  BY <1>49 DEF AgentExit
<1>50. CASE SettleNext
  BY <1>50 DEF SettleNext, Release, SameLock, Journaled
<1>51. CASE Halt
  BY <1>51 DEF Halt, StopServer, Fault, Cut, Release, SameLock
<1>52. CASE LaunchOwn
  BY <1>52 DEF LaunchOwn, StartServer, StartFailed, Release, SameLock,
     OwnStartFailed, CanStart, DirsRefused, WorldMissing
<1>53. CASE AwaitOwn
  BY <1>53 DEF AwaitOwn, Release, SameLock, OwnStartFailed
<1>54. CASE GameOnline
  BY <1>54 DEF GameOnline
<1>55. CASE GameExit
  BY <1>55 DEF GameExit
<1>56. CASE SettleTick
  BY <1>56 DEF SettleTick, Free
<1>57. CASE AutoStart
  BY <1>57 DEF AutoStart, Free
<1>58. CASE StartAsked
  BY <1>58 DEF StartAsked, Free
<1>59. CASE RestartAsked
  BY <1>59 DEF RestartAsked, Free
<1>60. CASE StopAsked
  BY <1>60 DEF StopAsked, Free
<1>61. CASE Crash
  BY <1>61 DEF Crash
<1>62. CASE AgentStop
  BY <1>62 DEF AgentStop
<1>63. CASE UNCHANGED vars
  BY <1>63 DEF vars
<1> HIDE DEF TypeInv, TypeOK, JournalHeld, JournalSteps, LockInv, RestoreOnly,
        Restoring, Settling, HoldInv, Journaled, Free, BoxInv, StoppedSteps,
        RunsInPlace, AsideInv, StagedInv, Worlds,
        worlds, stages, conts, locks, notes, hist, UniqueInv
<1>64. ASSUME NEW r \in Restores, RestoreStep(r) PROVE UniqueInv'
  BY <1>64, <1>1, <1>2, <1>3, <1>4, <1>5, <1>6, <1>7, <1>8, <1>9, <1>10,
     <1>11, <1>12, <1>13, <1>14, <1>15, <1>16, <1>17, <1>18, <1>19, <1>20,
     <1>21, <1>22, <1>23, <1>24, <1>25, <1>26, <1>27, <1>28, <1>29, <1>30,
     <1>31, <1>32, <1>33, <1>34, <1>35, <1>36, <1>37, <1>38
  DEF RestoreStep
<1>65. CASE AgentStep
  BY <1>65, <1>39, <1>47, <1>48, <1>49, <1>50, <1>51, <1>52, <1>53, <1>64
  DEF AgentStep
<1>. QED
  BY <1>40, <1>41, <1>42, <1>43, <1>44, <1>45, <1>46, <1>54, <1>55, <1>56,
     <1>57, <1>58, <1>59, <1>60, <1>61, <1>62, <1>63, <1>65
  DEF Next

(* A journal's previous world has a place, after every step.               *)
LEMMA HomesNext ==
    ASSUME Apart, TypeInv, LockInv, BoxInv, HoldInv, AsideInv, RequestsInv,
           StagedInv, UniqueInv, HomesInv, FoundInv, [Next]_vars
    PROVE  HomesInv'
<1> USE RestoresAssumption
    DEF TypeInv, TypeOK, JournalHeld, JournalSteps, LockInv, RestoreOnly,
        Restoring, Settling, HoldInv, Journaled, Free, BoxInv, StoppedSteps,
        RunsInPlace, AsideInv, StagedInv, Worlds,
        worlds, stages, conts, locks, notes, hist, UniqueInv, HomesInv, Homed,
        FoundInv, RequestsInv, HadLive, NoneAside, In
<1>1. ASSUME NEW r \in Restores, Stop(r) PROVE HomesInv'
  BY <1>1 DEF Stop, At, SameLock, Quiet, StopServer, Fault, Cut, Release
<1>2. ASSUME NEW r \in Restores, SaveRollback(r) PROVE HomesInv'
  BY <1>2 DEF SaveRollback, At, SameLock
<1>3. ASSUME NEW r \in Restores, WriteJournal(r) PROVE HomesInv'
  <2>1. CASE UNCHANGED <<journal, was>>
    BY <1>3, <2>1 DEF WriteJournal, At, SameLock, Fault
  <2> DEFINE j == [state |-> "moving", hadLive |-> live # None, prev |-> settings]
  <2>2. CASE journal' = [journal EXCEPT ![r] = j]
    <3>1. /\ cur = r /\ pc = "journal" /\ journal[r] = NoJournal /\ op[r] = "running"
          /\ UNCHANGED <<live, aside, failed, staged, op, settled, played, discarded>>
      BY <1>3 DEF WriteJournal, At, SameLock
    <3>2. /\ aside[r] = None /\ (live = None => NoneAside) /\ Journaled = {}
          /\ r \notin settled
      BY <3>1 DEF NoneAside
    <3>3. journal'[r] = j /\ \A q \in Restores \ {r} : journal'[q] = NoJournal
      BY <2>2, <3>1, <3>2
    <3>4. HadLive(r)' = (live # None) /\ ~In(r, {"checking", "kept"})'
      BY <3>3
    <3> HIDE DEF j
    <3>5. Homed(r)'
      BY ONLY r \in Restores, RestoresAssumption, <3>1, <3>2, <3>4
    <3>6. \A q \in Restores \ {r} : journal'[q] = NoJournal
      BY <3>3
    <3>7. \A q \in Journaled' : Homed(q)'
      BY <3>5, <3>6
    <3>8. live' = None /\ NoneAside' => played' \subseteq discarded'
      BY <3>1
    <3>9. ASSUME NEW q \in Restores, op'[q] = "running", live' = None
          PROVE  NoneAside'
      BY <3>1, <3>2, <3>9
    <3>. QED
      BY <3>7, <3>8, <3>9
  <2>. QED
    BY <1>3, <2>1, <2>2 DEF WriteJournal
<1>4. ASSUME NEW r \in Restores, GiveUp(r) PROVE HomesInv'
  <2>1. /\ UNCHANGED <<aside, staged, journal, op, settled, played, discarded>>
    BY <1>4 DEF GiveUp, At, SameLock, Quiet, StartServer, StartFailed
  <2>2. CASE live' = live
    BY <2>1, <2>2
  <2>3. CASE live = None /\ live' = Fresh
    <3>1. NoneAside /\ \A q \in Journaled : staged[q] = None \/ q \in settled
      BY <1>4, <2>3 DEF GiveUp, At, StartServer, StartFailed, CanStart, DirsRefused,
         WorldMissing, StagedRestoredWorld
    <3>2. ASSUME NEW q \in Journaled PROVE Homed(q)'
      BY <2>1, <2>3, <3>1, <3>2
    <3>. QED
      BY <2>1, <2>3, <3>1, <3>2
  <2>. QED
    BY <1>4, <2>2, <2>3 DEF GiveUp, StartServer, StartFailed
<1>5. ASSUME NEW r \in Restores, AwaitPrevious(r) PROVE HomesInv'
  BY <1>5 DEF AwaitPrevious, At, SameLock, Quiet
<1>6. ASSUME NEW r \in Restores, SetAside(r) PROVE HomesInv'
  <2>1. CASE UNCHANGED <<aside, live>>
    BY <1>6, <2>1 DEF SetAside, At, SameLock, Quiet, Fault
  <2>2. CASE aside' = [aside EXCEPT ![r] = live] /\ live' = None
    <3>1. /\ cur = r /\ pc = "aside" /\ op[r] = "running"
          /\ UNCHANGED <<staged, journal, op, settled, played, discarded>>
      BY <1>6 DEF SetAside, At, SameLock, Quiet
    <3>2. /\ r \in Journaled /\ HadLive(r) /\ live # None /\ r \notin settled
          /\ ~In(r, {"checking", "kept"})
      BY <3>1
    <3>3. \A q \in Restores : journal[q] # NoJournal \/ op[q] = "running" => q = r
      BY <3>1, <3>2
    <3>4. aside'[r] # None
      BY <2>2, <3>2
    <3>5. Homed(r)'
      BY <2>2, <3>1, <3>2, <3>4
    <3>. QED
      BY <2>2, <3>1, <3>2, <3>3, <3>4, <3>5
  <2>. QED
    BY <1>6, <2>1, <2>2 DEF SetAside
<1>7. ASSUME NEW r \in Restores, MoveIn(r) PROVE HomesInv'
  BY <1>7 DEF MoveIn, At, SameLock, Quiet, Fault
<1>8. ASSUME NEW r \in Restores, UndoMoveIn(r) PROVE HomesInv'
  <2>1. CASE journal' = journal
    BY <1>8, <2>1 DEF UndoMoveIn, At, SameLock, Undoing, Quiet, HadLive, Fault
  <2>2. CASE journal' = [journal EXCEPT ![r].state = "reverting"]
    <3>1. journal[r] # NoJournal
      BY <1>8 DEF UndoMoveIn, At, Undoing
    <3>2. /\ journal'[r].state = "reverting"
          /\ journal'[r].hadLive = journal[r].hadLive
          /\ journal'[r].prev = journal[r].prev
          /\ journal'[r] # NoJournal
          /\ \A q \in Restores \ {r} : journal'[q] = journal[q]
      BY <2>2, <3>1, JournalRewritten
    <3>. QED
      BY <1>8, <3>1, <3>2 DEF UndoMoveIn, At, SameLock, Undoing, Quiet, HadLive,
         Fault
  <2>. QED
    BY <1>8, <2>1, <2>2 DEF UndoMoveIn, Undoing
<1>9. ASSUME NEW r \in Restores, PutBackUnmoved(r) PROVE HomesInv'
  BY <1>9 DEF PutBackUnmoved, At, SameLock, Quiet, Fault
<1>10. ASSUME NEW r \in Restores, RescueStaged(r) PROVE HomesInv'
  BY <1>10 DEF RescueStaged, At, SameLock, Quiet, Fault, FailKeepingStage
<1>11. ASSUME NEW r \in Restores, SaveRestored(r) PROVE HomesInv'
  BY <1>11 DEF SaveRestored, At, SameLock, Quiet, Fault
<1>12. ASSUME NEW r \in Restores, JournalChecking(r) PROVE HomesInv'
  <2>1. CASE journal' = journal
    BY <1>12, <2>1 DEF JournalChecking, At, SameLock, Quiet, Fault
  <2>2. CASE journal' = [journal EXCEPT ![r].state = "checking"]
    <3>1. journal[r] # NoJournal
      BY <1>12 DEF JournalChecking, At
    <3>2. /\ journal'[r].state = "checking"
          /\ journal'[r].hadLive = journal[r].hadLive
          /\ journal'[r].prev = journal[r].prev
          /\ journal'[r] # NoJournal
          /\ \A q \in Restores \ {r} : journal'[q] = journal[q]
      BY <2>2, <3>1, JournalRewritten
    <3>. QED
      BY <1>12, <3>1, <3>2 DEF JournalChecking, At, SameLock, Quiet, Fault
  <2>. QED
    BY <1>12, <2>1, <2>2 DEF JournalChecking
<1>13. ASSUME NEW r \in Restores, UnsaveRestored(r) PROVE HomesInv'
  BY <1>13 DEF UnsaveRestored, At, SameLock, Quiet, Fault
<1>14. ASSUME NEW r \in Restores, UndoSettings(r) PROVE HomesInv'
  <2>1. CASE journal' = journal
    BY <1>14, <2>1 DEF UndoSettings, At, SameLock, Undoing, Quiet, HadLive, Fault
  <2>2. CASE journal' = [journal EXCEPT ![r].state = "reverting"]
    <3>1. journal[r] # NoJournal
      BY <1>14 DEF UndoSettings, At, Undoing
    <3>2. /\ journal'[r].state = "reverting"
          /\ journal'[r].hadLive = journal[r].hadLive
          /\ journal'[r].prev = journal[r].prev
          /\ journal'[r] # NoJournal
          /\ \A q \in Restores \ {r} : journal'[q] = journal[q]
      BY <2>2, <3>1, JournalRewritten
    <3>. QED
      BY <1>14, <3>1, <3>2 DEF UndoSettings, At, SameLock, Undoing, Quiet, HadLive,
         Fault
  <2>. QED
    BY <1>14, <2>1, <2>2 DEF UndoSettings, Undoing
<1>15. ASSUME NEW r \in Restores, ClearLive(r) PROVE HomesInv'
  <2>1. CASE UNCHANGED live
    BY <1>15, <2>1 DEF ClearLive, At, SameLock, Quiet, Fault, FailKeepingStage
  <2>2. CASE live' = None
    <3>1. /\ cur = r /\ pc = "clear" /\ op[r] = "running"
          /\ UNCHANGED <<aside, staged, journal, op, settled, played, discarded>>
      BY <1>15 DEF ClearLive, At, SameLock, Quiet
    <3>2. /\ Journaled = {r} /\ live = r /\ staged[r] = None /\ r \notin settled
          /\ HadLive(r) => aside[r] # None
          /\ ~HadLive(r) => NoneAside /\ played \subseteq discarded
      BY <3>1
    <3>3. ~In(r, {"checking", "kept"})
      BY <3>1, <3>2
    <3>. QED
      BY <2>2, <3>1, <3>2, <3>3
  <2>. QED
    BY <1>15, <2>1, <2>2 DEF ClearLive
<1>16. ASSUME NEW r \in Restores, PutBackMoved(r) PROVE HomesInv'
  BY <1>16 DEF PutBackMoved, At, SameLock, Quiet, Fault, FailKeepingStage
<1>17. ASSUME NEW r \in Restores, DropFailed(r) PROVE HomesInv'
  BY <1>17 DEF DropFailed, At, SameLock, Quiet
<1>18. ASSUME NEW r \in Restores, Launch(r) PROVE HomesInv'
  BY <1>18 DEF Launch, At, SameLock, StartServer, StartFailed, FinishFailed,
     Release, CanStart, DirsRefused, WorldMissing
<1>19. ASSUME NEW r \in Restores, Await(r) PROVE HomesInv'
  BY <1>19 DEF Await, At, SameLock, Quiet, FinishFailed, Release
<1>20. ASSUME NEW r \in Restores, Keep(r) PROVE HomesInv'
  <2>1. CASE journal' = journal
    BY <1>20, <2>1 DEF Keep, At, SameLock, Quiet, Fault
  <2>2. CASE journal' = [journal EXCEPT ![r].state = "kept"]
    <3>1. journal[r] # NoJournal
      BY <1>20 DEF Keep, At
    <3>2. /\ journal'[r].state = "kept" /\ journal'[r].hadLive = journal[r].hadLive
          /\ journal'[r].prev = journal[r].prev
          /\ journal'[r] # NoJournal
          /\ \A q \in Restores \ {r} : journal'[q] = journal[q]
      BY <2>2, <3>1, JournalRewritten
    <3>. QED
      BY <1>20, <3>1, <3>2 DEF Keep, At, SameLock, Quiet, Fault
  <2>. QED
    BY <1>20, <2>1, <2>2 DEF Keep
<1>21. ASSUME NEW r \in Restores, Revert(r) PROVE HomesInv'
  <2>1. CASE journal' = journal
    BY <1>21, <2>1 DEF Revert, At, SameLock, Quiet, Fault, FailKeepingStage
  <2>2. CASE journal' = [journal EXCEPT ![r].state = "reverting"]
    <3>1. journal[r] # NoJournal
      BY <1>21 DEF Revert, At
    <3>2. /\ journal'[r].state = "reverting"
          /\ journal'[r].hadLive = journal[r].hadLive
          /\ journal'[r].prev = journal[r].prev
          /\ journal'[r] # NoJournal
          /\ \A q \in Restores \ {r} : journal'[q] = journal[q]
      BY <2>2, <3>1, JournalRewritten
    <3>. QED
      BY <1>21, <3>1, <3>2 DEF Revert, At, SameLock, Quiet, Fault, FailKeepingStage
  <2>. QED
    BY <1>21, <2>1, <2>2 DEF Revert, FailKeepingStage
<1>22. ASSUME NEW r \in Restores, RevertStop(r) PROVE HomesInv'
  BY <1>22 DEF RevertStop, At, SameLock, Quiet, StopServer, Fault, Cut, Release,
     FailKeepingStage
<1>23. ASSUME NEW r \in Restores, BackClear(r) PROVE HomesInv'
  <2>1. CASE UNCHANGED live
    BY <1>23, <2>1 DEF BackClear, PutPreviousBack, At, SameLock, Fault, BackFailed,
       SettleFailed, Release, FailKeepingStage
  <2>2. CASE aside[r] # None /\ live' = None
    <3>1. /\ cur = r /\ pc = "back1" /\ r \notin settled
          /\ UNCHANGED <<aside, staged, journal, op, settled, played, discarded>>
      BY <1>23 DEF BackClear, PutPreviousBack, At
    <3>2. r \in Journaled /\ HadLive(r) /\ ~In(r, {"checking", "kept"})
      BY <2>2, <3>1
    <3>3. \A q \in Restores : journal[q] # NoJournal => q = r
      BY <3>2
    <3>4. \A q \in Restores : op[q] = "running" => q = r
      BY <3>2
    <3>. QED
      BY <2>2, <3>1, <3>2, <3>3, <3>4
  <2>. QED
    BY <1>23, <2>1, <2>2 DEF BackClear
<1>24. ASSUME NEW r \in Restores, BackMove(r) PROVE HomesInv'
  BY <1>24 DEF BackMove, At, SameLock, Fault, PutPreviousBack, BackFailed,
     FailKeepingStage, SettleFailed, Release, Settling
<1>25. ASSUME NEW r \in Restores, BackSave(r) PROVE HomesInv'
  BY <1>25 DEF BackSave, At, SameLock, Fault, PutPreviousBack, BackFailed,
     FailKeepingStage, SettleFailed, Release, Settling
<1>26. ASSUME NEW r \in Restores, StartPrevious(r) PROVE HomesInv'
  BY <1>26 DEF StartPrevious, At, SameLock, Quiet, StartServer, StartFailed,
     CanStart, DirsRefused, WorldMissing
<1>27. ASSUME NEW r \in Restores, DropAside(r) PROVE HomesInv'
  BY <1>27 DEF DropAside, At, SameLock, Quiet
<1>28. ASSUME NEW r \in Restores, DropAsideRest(r) PROVE HomesInv'
  BY <1>28 DEF DropAsideRest, At, SameLock, Fault, SettleFailed, Release, Settling
<1>29. ASSUME NEW r \in Restores, DropStage(r) PROVE HomesInv'
  BY <1>29 DEF DropStage, At, SameLock, Fault, SettleFailed, Release, Settling
<1>30. ASSUME NEW r \in Restores, DropStageRest(r) PROVE HomesInv'
  BY <1>30 DEF DropStageRest, At, SameLock, Settling, Release
<1>31. ASSUME NEW r \in Restores, End(r) PROVE HomesInv'
  BY <1>31 DEF End, At, SameLock, Quiet, Release
<1>32. ASSUME NEW r \in Restores, Recover(r) PROVE HomesInv'
  BY <1>32 DEF Recover, At, Journals, SameLock, Quiet
<1>33. ASSUME NEW r \in Restores, Adopt(r) PROVE HomesInv'
  BY <1>33 DEF Adopt, At, SameLock, Quiet, Release
<1>34. ASSUME NEW r \in Restores, ForwardClear(r) PROVE HomesInv'
  BY <1>34 DEF ForwardClear, At, SameLock, Quiet, Fault, ForwardFailed
<1>35. ASSUME NEW r \in Restores, ForwardMove(r) PROVE HomesInv'
  BY <1>35 DEF ForwardMove, At, SameLock, Quiet, Fault, ForwardFailed
<1>36. ASSUME NEW r \in Restores, ForwardSave(r) PROVE HomesInv'
  BY <1>36 DEF ForwardSave, At, SameLock, Quiet, Fault, ForwardFailed
<1>37. ASSUME NEW r \in Restores, ForwardJournal(r) PROVE HomesInv'
  <2>1. CASE journal' = journal
    BY <1>37, <2>1 DEF ForwardJournal, At, SameLock, Quiet, Fault, ForwardFailed
  <2>2. CASE journal' = [journal EXCEPT ![r].state = "checking"]
    <3>1. journal[r] # NoJournal
      BY <1>37 DEF ForwardJournal, At
    <3>2. /\ journal'[r].state = "checking"
          /\ journal'[r].hadLive = journal[r].hadLive
          /\ journal'[r].prev = journal[r].prev
          /\ journal'[r] # NoJournal
          /\ \A q \in Restores \ {r} : journal'[q] = journal[q]
      BY <2>2, <3>1, JournalRewritten
    <3>. QED
      BY <1>37, <3>1, <3>2 DEF ForwardJournal, At, SameLock, Quiet, Fault,
         ForwardFailed
  <2>. QED
    BY <1>37, <2>1, <2>2 DEF ForwardJournal, ForwardFailed
<1>38. ASSUME NEW r \in Restores, SettleSwap(r) PROVE HomesInv'
  BY <1>38 DEF SettleSwap, At, SameLock, SettleFailed, Release
<1>39. ASSUME NEW r \in Restores, Prune(r) PROVE HomesInv'
  BY <1>39 DEF Prune
<1>40. ASSUME NEW r \in Restores, StageArchive(r) PROVE HomesInv'
  BY <1>40 DEF StageArchive, Free
<1>41. ASSUME NEW r \in Restores, ApplyAsked(r) PROVE HomesInv'
  BY <1>41 DEF ApplyAsked
<1>42. ASSUME NEW r \in Restores, ApplyBusy(r) PROVE HomesInv'
  BY <1>42 DEF ApplyBusy
<1>43. ASSUME NEW r \in Restores, ApplyBegin(r) PROVE HomesInv'
  <2>1. /\ op[r] = "none" /\ op' = [op EXCEPT ![r] = "running"]
        /\ UNCHANGED <<live, aside, staged, journal, settled, played, discarded>>
    BY <1>43 DEF ApplyBegin
  <2>2. live = None => NoneAside
    BY <1>43 DEF ApplyBegin, Apart, RestoreRefusal, WorldMissing
  <2>. QED
    BY <1>43, <2>1, <2>2
<1>44. ASSUME NEW r \in Restores, DiscardStage(r) PROVE HomesInv'
  BY <1>44 DEF DiscardStage, Free
<1>45. ASSUME NEW r \in Restores, MoveBackByHand(r) PROVE HomesInv'
  BY <1>45 DEF MoveBackByHand, Journaled
<1>46. ASSUME NEW r \in Restores, DiscardCopy(r) PROVE HomesInv'
  BY <1>46 DEF DiscardCopy, Free, Journaled
<1>47. CASE AgentStart
  BY <1>47 DEF AgentStart
<1>48. CASE AgentUp
  BY <1>48 DEF AgentUp
<1>49. CASE AgentExit
  BY <1>49 DEF AgentExit
<1>50. CASE SettleNext
  BY <1>50 DEF SettleNext, Release, SameLock, Journaled
<1>51. CASE Halt
  BY <1>51 DEF Halt, StopServer, Fault, Cut, Release, SameLock
<1>52. CASE LaunchOwn
  <2>1. /\ UNCHANGED <<aside, staged, journal, op, settled, played, discarded>>
    BY <1>52 DEF LaunchOwn, At, SameLock, Quiet, StartServer, StartFailed
  <2>2. CASE live' = live
    BY <2>1, <2>2
  <2>3. CASE live = None /\ live' = Fresh
    <3>1. NoneAside /\ \A q \in Journaled : staged[q] = None \/ q \in settled
      BY <1>52, <2>3 DEF LaunchOwn, At, StartServer, StartFailed, CanStart, DirsRefused,
         WorldMissing, StagedRestoredWorld
    <3>2. ASSUME NEW q \in Journaled PROVE Homed(q)'
      BY <2>1, <2>3, <3>1, <3>2
    <3>. QED
      BY <2>1, <2>3, <3>1, <3>2
  <2>. QED
    BY <1>52, <2>2, <2>3 DEF LaunchOwn, StartServer, StartFailed
<1>53. CASE AwaitOwn
  BY <1>53 DEF AwaitOwn, Release, SameLock, OwnStartFailed
<1>54. CASE GameOnline
  BY <1>54 DEF GameOnline
<1>55. CASE GameExit
  BY <1>55 DEF GameExit
<1>56. CASE SettleTick
  BY <1>56 DEF SettleTick, Free
<1>57. CASE AutoStart
  BY <1>57 DEF AutoStart, Free
<1>58. CASE StartAsked
  BY <1>58 DEF StartAsked, Free
<1>59. CASE RestartAsked
  BY <1>59 DEF RestartAsked, Free
<1>60. CASE StopAsked
  BY <1>60 DEF StopAsked, Free
<1>61. CASE Crash
  BY <1>61 DEF Crash
<1>62. CASE AgentStop
  BY <1>62 DEF AgentStop
<1>63. CASE UNCHANGED vars
  BY <1>63 DEF vars
<1> HIDE DEF TypeInv, TypeOK, JournalHeld, JournalSteps, LockInv, RestoreOnly,
        Restoring, Settling, HoldInv, Journaled, Free, BoxInv, StoppedSteps,
        RunsInPlace, AsideInv, StagedInv, Worlds,
        worlds, stages, conts, locks, notes, hist, UniqueInv, HomesInv, Homed,
        FoundInv, RequestsInv, HadLive, NoneAside, In
<1>64. ASSUME NEW r \in Restores, RestoreStep(r) PROVE HomesInv'
  BY <1>64, <1>1, <1>2, <1>3, <1>4, <1>5, <1>6, <1>7, <1>8, <1>9, <1>10,
     <1>11, <1>12, <1>13, <1>14, <1>15, <1>16, <1>17, <1>18, <1>19, <1>20,
     <1>21, <1>22, <1>23, <1>24, <1>25, <1>26, <1>27, <1>28, <1>29, <1>30,
     <1>31, <1>32, <1>33, <1>34, <1>35, <1>36, <1>37, <1>38
  DEF RestoreStep
<1>65. CASE AgentStep
  BY <1>65, <1>39, <1>47, <1>48, <1>49, <1>50, <1>51, <1>52, <1>53, <1>64
  DEF AgentStep
<1>. QED
  BY <1>40, <1>41, <1>42, <1>43, <1>44, <1>45, <1>46, <1>54, <1>55, <1>56,
     <1>57, <1>58, <1>59, <1>60, <1>61, <1>62, <1>63, <1>65
  DEF Next

(* Each step leaves what the next one relies on.                           *)
LEMMA FoundNext ==
    ASSUME Apart, TypeInv, LockInv, BoxInv, HoldInv, AsideInv, RequestsInv,
           StagedInv, UniqueInv, HomesInv, FoundInv, [Next]_vars
    PROVE  FoundInv'
<1> USE RestoresAssumption
    DEF TypeInv, TypeOK, JournalHeld, JournalSteps, LockInv, RestoreOnly,
        Restoring, Settling, HoldInv, Journaled, Free, BoxInv, StoppedSteps,
        RunsInPlace, AsideInv, StagedInv, Worlds,
        worlds, stages, conts, locks, notes, hist, UniqueInv, HomesInv, Homed,
        FoundInv, RequestsInv, HadLive, NoneAside, In
<1>1. ASSUME NEW r \in Restores, Stop(r) PROVE FoundInv'
  BY <1>1 DEF Stop, At, SameLock, Quiet, StopServer, Fault, Cut, Release
<1>2. ASSUME NEW r \in Restores, SaveRollback(r) PROVE FoundInv'
  BY <1>2 DEF SaveRollback, At, SameLock
<1>3. ASSUME NEW r \in Restores, WriteJournal(r) PROVE FoundInv'
  <2>1. CASE Fault /\ pc' = "giveUp" /\ UNCHANGED <<journal, was>>
    BY <1>3, <2>1 DEF WriteJournal, At, SameLock, Fault
  <2> DEFINE j == [state |-> "moving", hadLive |-> live # None, prev |-> settings]
  <2>2. CASE /\ journal' = [journal EXCEPT ![r] = j]
             /\ pc' = IF live # None THEN "aside" ELSE "moveIn"
    <3>1. /\ cur = r /\ pc = "journal" /\ cur' = cur
          /\ UNCHANGED <<live, aside, failed, staged, op, settled, played, discarded>>
      BY <1>3 DEF WriteJournal, At, SameLock
    <3>2. journal'[r] = j
      BY <2>2, <3>1
    <3>3. HadLive(r)' = (live # None) /\ ~In(r, {"checking", "kept"})'
      BY <3>2
    <3> HIDE DEF j
    <3>4. staged[r] = r /\ failed[r] = None
      BY <3>1
    <3>5. CASE live # None /\ pc' = "aside"
      BY <3>1, <3>3, <3>4, <3>5
    <3>6. CASE pc' = "moveIn"
      BY <3>1, <3>3, <3>4, <3>6
    <3>. QED
      BY <2>2, <3>5, <3>6
  <2>. QED
    BY <1>3, <2>1, <2>2 DEF WriteJournal
<1>4. ASSUME NEW r \in Restores, GiveUp(r) PROVE FoundInv'
  BY <1>4 DEF GiveUp, At, SameLock, Quiet, StartServer, StartFailed, CanStart,
     DirsRefused, WorldMissing
<1>5. ASSUME NEW r \in Restores, AwaitPrevious(r) PROVE FoundInv'
  BY <1>5 DEF AwaitPrevious, At, SameLock, Quiet
<1>6. ASSUME NEW r \in Restores, SetAside(r) PROVE FoundInv'
  BY <1>6 DEF SetAside, At, SameLock, Quiet, Fault
<1>7. ASSUME NEW r \in Restores, MoveIn(r) PROVE FoundInv'
  BY <1>7 DEF MoveIn, At, SameLock, Quiet, Fault
<1>8. ASSUME NEW r \in Restores, UndoMoveIn(r) PROVE FoundInv'
  <2>1. CASE journal' = journal
    BY <1>8, <2>1 DEF UndoMoveIn, At, SameLock, Undoing, Quiet, HadLive, Fault
  <2>2. CASE journal' = [journal EXCEPT ![r].state = "reverting"]
    <3>1. journal[r] # NoJournal
      BY <1>8 DEF UndoMoveIn, At, Undoing
    <3>2. /\ journal'[r].state = "reverting"
          /\ journal'[r].hadLive = journal[r].hadLive
          /\ journal'[r].prev = journal[r].prev
          /\ journal'[r] # NoJournal
          /\ \A q \in Restores \ {r} : journal'[q] = journal[q]
      BY <2>2, <3>1, JournalRewritten
    <3>. QED
      BY <1>8, <3>1, <3>2 DEF UndoMoveIn, At, SameLock, Undoing, Quiet, HadLive,
         Fault
  <2>. QED
    BY <1>8, <2>1, <2>2 DEF UndoMoveIn, Undoing
<1>9. ASSUME NEW r \in Restores, PutBackUnmoved(r) PROVE FoundInv'
  BY <1>9 DEF PutBackUnmoved, At, SameLock, Quiet, Fault
<1>10. ASSUME NEW r \in Restores, RescueStaged(r) PROVE FoundInv'
  BY <1>10 DEF RescueStaged, At, SameLock, Quiet, Fault, FailKeepingStage
<1>11. ASSUME NEW r \in Restores, SaveRestored(r) PROVE FoundInv'
  BY <1>11 DEF SaveRestored, At, SameLock, Quiet, Fault
<1>12. ASSUME NEW r \in Restores, JournalChecking(r) PROVE FoundInv'
  <2>1. CASE Fault /\ pc' = "unsave" /\ UNCHANGED journal
    BY <1>12, <2>1 DEF JournalChecking, At, SameLock, Quiet, Fault
  <2>2. CASE /\ journal' = [journal EXCEPT ![r].state = "checking"]
             /\ pc' = "launch"
    <3>1. journal[r] # NoJournal
      BY <1>12 DEF JournalChecking, At
    <3>2. /\ journal'[r].state = "checking"
          /\ journal'[r].hadLive = journal[r].hadLive
          /\ journal'[r].prev = journal[r].prev
          /\ journal'[r] # NoJournal
          /\ \A q \in Restores \ {r} : journal'[q] = journal[q]
      BY <2>2, <3>1, JournalRewritten
    <3>. QED
      BY <1>12, <2>2, <3>1, <3>2 DEF JournalChecking, At, SameLock, Quiet, HadLive
  <2>. QED
    BY <1>12, <2>1, <2>2 DEF JournalChecking
<1>13. ASSUME NEW r \in Restores, UnsaveRestored(r) PROVE FoundInv'
  BY <1>13 DEF UnsaveRestored, At, SameLock, Quiet, Fault
<1>14. ASSUME NEW r \in Restores, UndoSettings(r) PROVE FoundInv'
  <2>1. CASE journal' = journal
    BY <1>14, <2>1 DEF UndoSettings, At, SameLock, Undoing, Quiet, HadLive, Fault
  <2>2. CASE journal' = [journal EXCEPT ![r].state = "reverting"]
    <3>1. journal[r] # NoJournal
      BY <1>14 DEF UndoSettings, At, Undoing
    <3>2. /\ journal'[r].state = "reverting"
          /\ journal'[r].hadLive = journal[r].hadLive
          /\ journal'[r].prev = journal[r].prev
          /\ journal'[r] # NoJournal
          /\ \A q \in Restores \ {r} : journal'[q] = journal[q]
      BY <2>2, <3>1, JournalRewritten
    <3>. QED
      BY <1>14, <3>1, <3>2 DEF UndoSettings, At, SameLock, Undoing, Quiet, HadLive,
         Fault
  <2>. QED
    BY <1>14, <2>1, <2>2 DEF UndoSettings, Undoing
<1>15. ASSUME NEW r \in Restores, ClearLive(r) PROVE FoundInv'
  BY <1>15 DEF ClearLive, At, SameLock, Quiet, Fault, FailKeepingStage
<1>16. ASSUME NEW r \in Restores, PutBackMoved(r) PROVE FoundInv'
  BY <1>16 DEF PutBackMoved, At, SameLock, Quiet, Fault, FailKeepingStage
<1>17. ASSUME NEW r \in Restores, DropFailed(r) PROVE FoundInv'
  BY <1>17 DEF DropFailed, At, SameLock, Quiet
<1>18. ASSUME NEW r \in Restores, Launch(r) PROVE FoundInv'
  BY <1>18 DEF Launch, At, SameLock, StartServer, StartFailed, FinishFailed,
     Release, CanStart, DirsRefused, WorldMissing
<1>19. ASSUME NEW r \in Restores, Await(r) PROVE FoundInv'
  BY <1>19 DEF Await, At, SameLock, Quiet, FinishFailed, Release
<1>20. ASSUME NEW r \in Restores, Keep(r) PROVE FoundInv'
  <2>1. CASE Fault /\ pc' = "drop" /\ UNCHANGED journal
    BY <1>20, <2>1 DEF Keep, At, SameLock, Quiet, Fault
  <2>2. CASE /\ journal' = [journal EXCEPT ![r].state = "kept"]
             /\ pc' = IF HadLive(r) THEN "dropAside" ELSE "drop"
    <3>1. journal[r] # NoJournal
      BY <1>20 DEF Keep, At
    <3>2. /\ journal'[r].state = "kept"
          /\ journal'[r].hadLive = journal[r].hadLive
          /\ journal'[r].prev = journal[r].prev
          /\ journal'[r] # NoJournal
          /\ \A q \in Restores \ {r} : journal'[q] = journal[q]
      BY <2>2, <3>1, JournalRewritten
    <3>. QED
      BY <1>20, <2>2, <3>1, <3>2 DEF Keep, At, SameLock, Quiet, HadLive
  <2>. QED
    BY <1>20, <2>1, <2>2 DEF Keep
<1>21. ASSUME NEW r \in Restores, Revert(r) PROVE FoundInv'
  <2>1. CASE Fault /\ FailKeepingStage /\ UNCHANGED journal
    BY <1>21, <2>1 DEF Revert, At, SameLock, Quiet, Fault, FailKeepingStage
  <2>2. CASE /\ journal' = [journal EXCEPT ![r].state = "reverting"]
             /\ pc' = "revStop"
    <3>1. journal[r] # NoJournal
      BY <1>21 DEF Revert, At
    <3>2. /\ journal'[r].state = "reverting"
          /\ journal'[r].hadLive = journal[r].hadLive
          /\ journal'[r].prev = journal[r].prev
          /\ journal'[r] # NoJournal
          /\ \A q \in Restores \ {r} : journal'[q] = journal[q]
      BY <2>2, <3>1, JournalRewritten
    <3>. QED
      BY <1>21, <2>2, <3>1, <3>2 DEF Revert, At, SameLock, Quiet, HadLive
  <2>. QED
    BY <1>21, <2>1, <2>2 DEF Revert
<1>22. ASSUME NEW r \in Restores, RevertStop(r) PROVE FoundInv'
  BY <1>22 DEF RevertStop, At, SameLock, Quiet, StopServer, Fault, Cut, Release,
     FailKeepingStage
<1>23. ASSUME NEW r \in Restores, BackClear(r) PROVE FoundInv'
  BY <1>23 DEF BackClear, At, SameLock, Fault, PutPreviousBack, BackFailed,
     FailKeepingStage, SettleFailed, Release, Settling
<1>24. ASSUME NEW r \in Restores, BackMove(r) PROVE FoundInv'
  BY <1>24 DEF BackMove, At, SameLock, Fault, PutPreviousBack, BackFailed,
     FailKeepingStage, SettleFailed, Release, Settling
<1>25. ASSUME NEW r \in Restores, BackSave(r) PROVE FoundInv'
  BY <1>25 DEF BackSave, At, SameLock, Fault, PutPreviousBack, BackFailed,
     FailKeepingStage, SettleFailed, Release, Settling
<1>26. ASSUME NEW r \in Restores, StartPrevious(r) PROVE FoundInv'
  BY <1>26 DEF StartPrevious, At, SameLock, Quiet, StartServer, StartFailed,
     CanStart, DirsRefused, WorldMissing
<1>27. ASSUME NEW r \in Restores, DropAside(r) PROVE FoundInv'
  BY <1>27 DEF DropAside, At, SameLock, Quiet
<1>28. ASSUME NEW r \in Restores, DropAsideRest(r) PROVE FoundInv'
  BY <1>28 DEF DropAsideRest, At, SameLock, Fault, SettleFailed, Release, Settling
<1>29. ASSUME NEW r \in Restores, DropStage(r) PROVE FoundInv'
  BY <1>29 DEF DropStage, At, SameLock, Fault, SettleFailed, Release, Settling
<1>30. ASSUME NEW r \in Restores, DropStageRest(r) PROVE FoundInv'
  BY <1>30 DEF DropStageRest, At, SameLock, Settling, Release
<1>31. ASSUME NEW r \in Restores, End(r) PROVE FoundInv'
  BY <1>31 DEF End, At, SameLock, Quiet, Release
<1>32. ASSUME NEW r \in Restores, Recover(r) PROVE FoundInv'
  BY <1>32 DEF Recover, At, Journals, SameLock, Quiet
<1>33. ASSUME NEW r \in Restores, Adopt(r) PROVE FoundInv'
  BY <1>33 DEF Adopt, At, SameLock, Quiet, Release
<1>34. ASSUME NEW r \in Restores, ForwardClear(r) PROVE FoundInv'
  BY <1>34 DEF ForwardClear, At, SameLock, Quiet, Fault, ForwardFailed
<1>35. ASSUME NEW r \in Restores, ForwardMove(r) PROVE FoundInv'
  BY <1>35 DEF ForwardMove, At, SameLock, Quiet, Fault, ForwardFailed
<1>36. ASSUME NEW r \in Restores, ForwardSave(r) PROVE FoundInv'
  BY <1>36 DEF ForwardSave, At, SameLock, Quiet, Fault, ForwardFailed
<1>37. ASSUME NEW r \in Restores, ForwardJournal(r) PROVE FoundInv'
  <2>1. CASE Fault /\ ForwardFailed(r) /\ UNCHANGED journal
    BY <1>37, <2>1 DEF ForwardJournal, At, SameLock, Quiet, Fault, ForwardFailed
  <2>2. CASE /\ journal' = [journal EXCEPT ![r].state = "checking"]
             /\ pc' = "launch"
    <3>1. journal[r] # NoJournal
      BY <1>37 DEF ForwardJournal, At
    <3>2. /\ journal'[r].state = "checking"
          /\ journal'[r].hadLive = journal[r].hadLive
          /\ journal'[r].prev = journal[r].prev
          /\ journal'[r] # NoJournal
          /\ \A q \in Restores \ {r} : journal'[q] = journal[q]
      BY <2>2, <3>1, JournalRewritten
    <3>. QED
      BY <1>37, <2>2, <3>1, <3>2 DEF ForwardJournal, At, SameLock, Quiet, HadLive
  <2>. QED
    BY <1>37, <2>1, <2>2 DEF ForwardJournal
<1>38. ASSUME NEW r \in Restores, SettleSwap(r) PROVE FoundInv'
  BY <1>38 DEF SettleSwap, At, SameLock, SettleFailed, Release
<1>39. ASSUME NEW r \in Restores, Prune(r) PROVE FoundInv'
  BY <1>39 DEF Prune
<1>40. ASSUME NEW r \in Restores, StageArchive(r) PROVE FoundInv'
  BY <1>40 DEF StageArchive, Free
<1>41. ASSUME NEW r \in Restores, ApplyAsked(r) PROVE FoundInv'
  BY <1>41 DEF ApplyAsked
<1>42. ASSUME NEW r \in Restores, ApplyBusy(r) PROVE FoundInv'
  BY <1>42 DEF ApplyBusy
<1>43. ASSUME NEW r \in Restores, ApplyBegin(r) PROVE FoundInv'
  BY <1>43 DEF ApplyBegin, Apart, RestoreRefusal, Busy
<1>44. ASSUME NEW r \in Restores, DiscardStage(r) PROVE FoundInv'
  BY <1>44 DEF DiscardStage, Free
<1>45. ASSUME NEW r \in Restores, MoveBackByHand(r) PROVE FoundInv'
  BY <1>45 DEF MoveBackByHand, Journaled
<1>46. ASSUME NEW r \in Restores, DiscardCopy(r) PROVE FoundInv'
  BY <1>46 DEF DiscardCopy, Free, Journaled
<1>47. CASE AgentStart
  BY <1>47 DEF AgentStart
<1>48. CASE AgentUp
  BY <1>48 DEF AgentUp
<1>49. CASE AgentExit
  BY <1>49 DEF AgentExit
<1>50. CASE SettleNext
  BY <1>50 DEF SettleNext, Release, SameLock, Journaled
<1>51. CASE Halt
  BY <1>51 DEF Halt, StopServer, Fault, Cut, Release, SameLock
<1>52. CASE LaunchOwn
  BY <1>52 DEF LaunchOwn, StartServer, StartFailed, Release, SameLock,
     OwnStartFailed, CanStart, DirsRefused, WorldMissing
<1>53. CASE AwaitOwn
  BY <1>53 DEF AwaitOwn, Release, SameLock, OwnStartFailed
<1>54. CASE GameOnline
  BY <1>54 DEF GameOnline
<1>55. CASE GameExit
  BY <1>55 DEF GameExit
<1>56. CASE SettleTick
  BY <1>56 DEF SettleTick, Free
<1>57. CASE AutoStart
  BY <1>57 DEF AutoStart, Free
<1>58. CASE StartAsked
  BY <1>58 DEF StartAsked, Free
<1>59. CASE RestartAsked
  BY <1>59 DEF RestartAsked, Free
<1>60. CASE StopAsked
  BY <1>60 DEF StopAsked, Free
<1>61. CASE Crash
  BY <1>61 DEF Crash
<1>62. CASE AgentStop
  BY <1>62 DEF AgentStop
<1>63. CASE UNCHANGED vars
  BY <1>63 DEF vars
<1> HIDE DEF TypeInv, TypeOK, JournalHeld, JournalSteps, LockInv, RestoreOnly,
        Restoring, Settling, HoldInv, Journaled, Free, BoxInv, StoppedSteps,
        RunsInPlace, AsideInv, StagedInv, Worlds,
        worlds, stages, conts, locks, notes, hist, UniqueInv, HomesInv, Homed,
        FoundInv, RequestsInv, HadLive, NoneAside, In
<1>64. ASSUME NEW r \in Restores, RestoreStep(r) PROVE FoundInv'
  BY <1>64, <1>1, <1>2, <1>3, <1>4, <1>5, <1>6, <1>7, <1>8, <1>9, <1>10,
     <1>11, <1>12, <1>13, <1>14, <1>15, <1>16, <1>17, <1>18, <1>19, <1>20,
     <1>21, <1>22, <1>23, <1>24, <1>25, <1>26, <1>27, <1>28, <1>29, <1>30,
     <1>31, <1>32, <1>33, <1>34, <1>35, <1>36, <1>37, <1>38
  DEF RestoreStep
<1>65. CASE AgentStep
  BY <1>65, <1>39, <1>47, <1>48, <1>49, <1>50, <1>51, <1>52, <1>53, <1>64
  DEF AgentStep
<1>. QED
  BY <1>40, <1>41, <1>42, <1>43, <1>44, <1>45, <1>46, <1>54, <1>55, <1>56,
     <1>57, <1>58, <1>59, <1>60, <1>61, <1>62, <1>63, <1>65
  DEF Next

(* A deletion begins only of what nothing will put back.                   *)
LEMMA WholeNext ==
    ASSUME Apart, Told, TypeInv, LockInv, BoxInv, HoldInv, AsideInv,
           RequestsInv, StagedInv, UniqueInv, HomesInv, FoundInv, WholeInv,
           [Next]_vars
    PROVE  WholeInv'
<1> USE RestoresAssumption
    DEF TypeInv, TypeOK, JournalHeld, JournalSteps, LockInv, RestoreOnly,
        Restoring, Settling, HoldInv, Journaled, Free, BoxInv, StoppedSteps,
        RunsInPlace, AsideInv, StagedInv, Worlds,
        worlds, stages, conts, locks, notes, hist, UniqueInv, HomesInv, Homed,
        FoundInv, RequestsInv, HadLive, NoneAside, In, WholeInv,
        CopyNeverBack, PlayedWorldsSurvive, OnDisk, Restored
<1>1. ASSUME NEW r \in Restores, Stop(r) PROVE WholeInv'
  BY <1>1 DEF Stop, At, SameLock, Quiet, StopServer, Fault, Cut, Release
<1>2. ASSUME NEW r \in Restores, SaveRollback(r) PROVE WholeInv'
  BY <1>2 DEF SaveRollback, At, SameLock
<1>3. ASSUME NEW r \in Restores, WriteJournal(r) PROVE WholeInv'
  BY <1>3 DEF WriteJournal, At, SameLock, Fault
<1>4. ASSUME NEW r \in Restores, GiveUp(r) PROVE WholeInv'
  BY <1>4 DEF GiveUp, At, SameLock, Quiet, StartServer, StartFailed, CanStart,
     DirsRefused, WorldMissing
<1>5. ASSUME NEW r \in Restores, AwaitPrevious(r) PROVE WholeInv'
  BY <1>5 DEF AwaitPrevious, At, SameLock, Quiet
<1>6. ASSUME NEW r \in Restores, SetAside(r) PROVE WholeInv'
  BY <1>6 DEF SetAside, At, SameLock, Quiet, Fault
<1>7. ASSUME NEW r \in Restores, MoveIn(r) PROVE WholeInv'
  BY <1>7 DEF MoveIn, At, SameLock, Quiet, Fault
<1>8. ASSUME NEW r \in Restores, UndoMoveIn(r) PROVE WholeInv'
  <2>1. CASE journal' = journal
    BY <1>8, <2>1 DEF UndoMoveIn, At, SameLock, Undoing, Quiet, HadLive, Fault
  <2>2. CASE journal' = [journal EXCEPT ![r].state = "reverting"]
    <3>1. journal[r] # NoJournal
      BY <1>8 DEF UndoMoveIn, At, Undoing
    <3>2. /\ journal'[r].state = "reverting"
          /\ journal'[r].hadLive = journal[r].hadLive
          /\ journal'[r].prev = journal[r].prev
          /\ journal'[r] # NoJournal
          /\ \A q \in Restores \ {r} : journal'[q] = journal[q]
      BY <2>2, <3>1, JournalRewritten
    <3>. QED
      BY <1>8, <3>1, <3>2 DEF UndoMoveIn, At, SameLock, Undoing, Quiet, HadLive,
         Fault
  <2>. QED
    BY <1>8, <2>1, <2>2 DEF UndoMoveIn, Undoing
<1>9. ASSUME NEW r \in Restores, PutBackUnmoved(r) PROVE WholeInv'
  BY <1>9 DEF PutBackUnmoved, At, SameLock, Quiet, Fault
<1>10. ASSUME NEW r \in Restores, RescueStaged(r) PROVE WholeInv'
  BY <1>10 DEF RescueStaged, At, SameLock, Quiet, Fault, FailKeepingStage
<1>11. ASSUME NEW r \in Restores, SaveRestored(r) PROVE WholeInv'
  BY <1>11 DEF SaveRestored, At, SameLock, Quiet, Fault
<1>12. ASSUME NEW r \in Restores, JournalChecking(r) PROVE WholeInv'
  <2>1. CASE journal' = journal
    BY <1>12, <2>1 DEF JournalChecking, At, SameLock, Quiet, Fault
  <2>2. CASE journal' = [journal EXCEPT ![r].state = "checking"]
    <3>1. journal[r] # NoJournal
      BY <1>12 DEF JournalChecking, At
    <3>2. /\ journal'[r].state = "checking"
          /\ journal'[r].hadLive = journal[r].hadLive
          /\ journal'[r].prev = journal[r].prev
          /\ journal'[r] # NoJournal
          /\ \A q \in Restores \ {r} : journal'[q] = journal[q]
      BY <2>2, <3>1, JournalRewritten
    <3>. QED
      BY <1>12, <3>1, <3>2 DEF JournalChecking, At, SameLock, Quiet, Fault
  <2>. QED
    BY <1>12, <2>1, <2>2 DEF JournalChecking
<1>13. ASSUME NEW r \in Restores, UnsaveRestored(r) PROVE WholeInv'
  BY <1>13 DEF UnsaveRestored, At, SameLock, Quiet, Fault
<1>14. ASSUME NEW r \in Restores, UndoSettings(r) PROVE WholeInv'
  <2>1. CASE journal' = journal
    BY <1>14, <2>1 DEF UndoSettings, At, SameLock, Undoing, Quiet, HadLive, Fault
  <2>2. CASE journal' = [journal EXCEPT ![r].state = "reverting"]
    <3>1. journal[r] # NoJournal
      BY <1>14 DEF UndoSettings, At, Undoing
    <3>2. /\ journal'[r].state = "reverting"
          /\ journal'[r].hadLive = journal[r].hadLive
          /\ journal'[r].prev = journal[r].prev
          /\ journal'[r] # NoJournal
          /\ \A q \in Restores \ {r} : journal'[q] = journal[q]
      BY <2>2, <3>1, JournalRewritten
    <3>. QED
      BY <1>14, <3>1, <3>2 DEF UndoSettings, At, SameLock, Undoing, Quiet, HadLive,
         Fault
  <2>. QED
    BY <1>14, <2>1, <2>2 DEF UndoSettings, Undoing
<1>15. ASSUME NEW r \in Restores, ClearLive(r) PROVE WholeInv'
  BY <1>15 DEF ClearLive, At, SameLock, Quiet, Fault, FailKeepingStage
<1>16. ASSUME NEW r \in Restores, PutBackMoved(r) PROVE WholeInv'
  BY <1>16 DEF PutBackMoved, At, SameLock, Quiet, Fault, FailKeepingStage
<1>17. ASSUME NEW r \in Restores, DropFailed(r) PROVE WholeInv'
  BY <1>17 DEF DropFailed, At, SameLock, Quiet
<1>18. ASSUME NEW r \in Restores, Launch(r) PROVE WholeInv'
  BY <1>18 DEF Launch, At, SameLock, StartServer, StartFailed, FinishFailed,
     Release, CanStart, DirsRefused, WorldMissing
<1>19. ASSUME NEW r \in Restores, Await(r) PROVE WholeInv'
  BY <1>19 DEF Await, At, SameLock, Quiet, FinishFailed, Release
<1>20. ASSUME NEW r \in Restores, Keep(r) PROVE WholeInv'
  <2>1. CASE journal' = journal
    BY <1>20, <2>1 DEF Keep, At, SameLock, Quiet, Fault
  <2>2. CASE journal' = [journal EXCEPT ![r].state = "kept"]
    <3>1. journal[r] # NoJournal
      BY <1>20 DEF Keep, At
    <3>2. /\ journal'[r].state = "kept" /\ journal'[r].hadLive = journal[r].hadLive
          /\ journal'[r].prev = journal[r].prev
          /\ journal'[r] # NoJournal
          /\ \A q \in Restores \ {r} : journal'[q] = journal[q]
      BY <2>2, <3>1, JournalRewritten
    <3>. QED
      BY <1>20, <3>1, <3>2 DEF Keep, At, SameLock, Quiet, Fault
  <2>. QED
    BY <1>20, <2>1, <2>2 DEF Keep
<1>21. ASSUME NEW r \in Restores, Revert(r) PROVE WholeInv'
  <2>1. CASE journal' = journal
    BY <1>21, <2>1 DEF Revert, At, SameLock, Quiet, Fault, FailKeepingStage
  <2>2. CASE journal' = [journal EXCEPT ![r].state = "reverting"]
    <3>1. journal[r] # NoJournal
      BY <1>21 DEF Revert, At
    <3>2. /\ journal'[r].state = "reverting"
          /\ journal'[r].hadLive = journal[r].hadLive
          /\ journal'[r].prev = journal[r].prev
          /\ journal'[r] # NoJournal
          /\ \A q \in Restores \ {r} : journal'[q] = journal[q]
      BY <2>2, <3>1, JournalRewritten
    <3>. QED
      BY <1>21, <3>1, <3>2 DEF Revert, At, SameLock, Quiet, Fault, FailKeepingStage
  <2>. QED
    BY <1>21, <2>1, <2>2 DEF Revert, FailKeepingStage
<1>22. ASSUME NEW r \in Restores, RevertStop(r) PROVE WholeInv'
  BY <1>22 DEF RevertStop, At, SameLock, Quiet, StopServer, Fault, Cut, Release,
     FailKeepingStage
<1>23. ASSUME NEW r \in Restores, BackClear(r) PROVE WholeInv'
  BY <1>23 DEF BackClear, At, SameLock, Fault, PutPreviousBack, BackFailed,
     FailKeepingStage, SettleFailed, Release, Settling
<1>24. ASSUME NEW r \in Restores, BackMove(r) PROVE WholeInv'
  BY <1>24 DEF BackMove, At, SameLock, Fault, PutPreviousBack, BackFailed,
     FailKeepingStage, SettleFailed, Release, Settling
<1>25. ASSUME NEW r \in Restores, BackSave(r) PROVE WholeInv'
  BY <1>25 DEF BackSave, At, SameLock, Fault, PutPreviousBack, BackFailed,
     FailKeepingStage, SettleFailed, Release, Settling
<1>26. ASSUME NEW r \in Restores, StartPrevious(r) PROVE WholeInv'
  BY <1>26 DEF StartPrevious, At, SameLock, Quiet, StartServer, StartFailed,
     CanStart, DirsRefused, WorldMissing
<1>27. ASSUME NEW r \in Restores, DropAside(r) PROVE WholeInv'
  BY <1>27 DEF DropAside, At, SameLock, Quiet
<1>28. ASSUME NEW r \in Restores, DropAsideRest(r) PROVE WholeInv'
  BY <1>28 DEF DropAsideRest, At, SameLock, Fault, SettleFailed, Release, Settling
<1>29. ASSUME NEW r \in Restores, DropStage(r) PROVE WholeInv'
  BY <1>29 DEF DropStage, At, SameLock, Fault, SettleFailed, Release, Settling
<1>30. ASSUME NEW r \in Restores, DropStageRest(r) PROVE WholeInv'
  BY <1>30 DEF DropStageRest, At, SameLock, Settling, Release
<1>31. ASSUME NEW r \in Restores, End(r) PROVE WholeInv'
  BY <1>31 DEF End, At, SameLock, Quiet, Release
<1>32. ASSUME NEW r \in Restores, Recover(r) PROVE WholeInv'
  BY <1>32 DEF Recover, At, Journals, SameLock, Quiet
<1>33. ASSUME NEW r \in Restores, Adopt(r) PROVE WholeInv'
  BY <1>33 DEF Adopt, At, SameLock, Quiet, Release
<1>34. ASSUME NEW r \in Restores, ForwardClear(r) PROVE WholeInv'
  BY <1>34 DEF ForwardClear, At, SameLock, Quiet, Fault, ForwardFailed
<1>35. ASSUME NEW r \in Restores, ForwardMove(r) PROVE WholeInv'
  BY <1>35 DEF ForwardMove, At, SameLock, Quiet, Fault, ForwardFailed
<1>36. ASSUME NEW r \in Restores, ForwardSave(r) PROVE WholeInv'
  BY <1>36 DEF ForwardSave, At, SameLock, Quiet, Fault, ForwardFailed
<1>37. ASSUME NEW r \in Restores, ForwardJournal(r) PROVE WholeInv'
  <2>1. CASE journal' = journal
    BY <1>37, <2>1 DEF ForwardJournal, At, SameLock, Quiet, Fault, ForwardFailed
  <2>2. CASE journal' = [journal EXCEPT ![r].state = "checking"]
    <3>1. journal[r] # NoJournal
      BY <1>37 DEF ForwardJournal, At
    <3>2. /\ journal'[r].state = "checking"
          /\ journal'[r].hadLive = journal[r].hadLive
          /\ journal'[r].prev = journal[r].prev
          /\ journal'[r] # NoJournal
          /\ \A q \in Restores \ {r} : journal'[q] = journal[q]
      BY <2>2, <3>1, JournalRewritten
    <3>. QED
      BY <1>37, <3>1, <3>2 DEF ForwardJournal, At, SameLock, Quiet, Fault,
         ForwardFailed
  <2>. QED
    BY <1>37, <2>1, <2>2 DEF ForwardJournal, ForwardFailed
<1>38. ASSUME NEW r \in Restores, SettleSwap(r) PROVE WholeInv'
  BY <1>38 DEF SettleSwap, At, SameLock, SettleFailed, Release
<1>39. ASSUME NEW r \in Restores, Prune(r) PROVE WholeInv'
  BY <1>39 DEF Prune
<1>40. ASSUME NEW r \in Restores, StageArchive(r) PROVE WholeInv'
  BY <1>40 DEF StageArchive, Free
<1>41. ASSUME NEW r \in Restores, ApplyAsked(r) PROVE WholeInv'
  BY <1>41 DEF ApplyAsked
<1>42. ASSUME NEW r \in Restores, ApplyBusy(r) PROVE WholeInv'
  BY <1>42 DEF ApplyBusy
<1>43. ASSUME NEW r \in Restores, ApplyBegin(r) PROVE WholeInv'
  BY <1>43 DEF ApplyBegin, Apart, RestoreRefusal, Busy
<1>44. ASSUME NEW r \in Restores, DiscardStage(r) PROVE WholeInv'
  BY <1>44 DEF DiscardStage, Free, Told
<1>45. ASSUME NEW r \in Restores, MoveBackByHand(r) PROVE WholeInv'
  BY <1>45 DEF MoveBackByHand, Journaled
<1>46. ASSUME NEW r \in Restores, DiscardCopy(r) PROVE WholeInv'
  BY <1>46 DEF DiscardCopy, Free, Journaled
<1>47. CASE AgentStart
  BY <1>47 DEF AgentStart
<1>48. CASE AgentUp
  BY <1>48 DEF AgentUp
<1>49. CASE AgentExit
  BY <1>49 DEF AgentExit
<1>50. CASE SettleNext
  BY <1>50 DEF SettleNext, Release, SameLock, Journaled
<1>51. CASE Halt
  BY <1>51 DEF Halt, StopServer, Fault, Cut, Release, SameLock
<1>52. CASE LaunchOwn
  BY <1>52 DEF LaunchOwn, StartServer, StartFailed, Release, SameLock,
     OwnStartFailed, CanStart, DirsRefused, WorldMissing
<1>53. CASE AwaitOwn
  BY <1>53 DEF AwaitOwn, Release, SameLock, OwnStartFailed
<1>54. CASE GameOnline
  BY <1>54 DEF GameOnline
<1>55. CASE GameExit
  BY <1>55 DEF GameExit
<1>56. CASE SettleTick
  BY <1>56 DEF SettleTick, Free
<1>57. CASE AutoStart
  BY <1>57 DEF AutoStart, Free
<1>58. CASE StartAsked
  BY <1>58 DEF StartAsked, Free
<1>59. CASE RestartAsked
  BY <1>59 DEF RestartAsked, Free
<1>60. CASE StopAsked
  BY <1>60 DEF StopAsked, Free
<1>61. CASE Crash
  BY <1>61 DEF Crash
<1>62. CASE AgentStop
  BY <1>62 DEF AgentStop
<1>63. CASE UNCHANGED vars
  BY <1>63 DEF vars
<1> HIDE DEF TypeInv, TypeOK, JournalHeld, JournalSteps, LockInv, RestoreOnly,
        Restoring, Settling, HoldInv, Journaled, Free, BoxInv, StoppedSteps,
        RunsInPlace, AsideInv, StagedInv, Worlds,
        worlds, stages, conts, locks, notes, hist, UniqueInv, HomesInv, Homed,
        FoundInv, RequestsInv, HadLive, NoneAside, In, WholeInv,
        CopyNeverBack, PlayedWorldsSurvive, OnDisk, Restored
<1>64. ASSUME NEW r \in Restores, RestoreStep(r) PROVE WholeInv'
  BY <1>64, <1>1, <1>2, <1>3, <1>4, <1>5, <1>6, <1>7, <1>8, <1>9, <1>10,
     <1>11, <1>12, <1>13, <1>14, <1>15, <1>16, <1>17, <1>18, <1>19, <1>20,
     <1>21, <1>22, <1>23, <1>24, <1>25, <1>26, <1>27, <1>28, <1>29, <1>30,
     <1>31, <1>32, <1>33, <1>34, <1>35, <1>36, <1>37, <1>38
  DEF RestoreStep
<1>65. CASE AgentStep
  BY <1>65, <1>39, <1>47, <1>48, <1>49, <1>50, <1>51, <1>52, <1>53, <1>64
  DEF AgentStep
<1>. QED
  BY <1>40, <1>41, <1>42, <1>43, <1>44, <1>45, <1>46, <1>54, <1>55, <1>56,
     <1>57, <1>58, <1>59, <1>60, <1>61, <1>62, <1>63, <1>65
  DEF Next

(* A server begins with all of this, its restore, if any, not begun yet.   *)
LEMMA KeptInit ==
    Init => RequestsInv /\ StagedInv /\ UniqueInv /\ HomesInv /\ FoundInv /\ WholeInv
<1> SUFFICES ASSUME Init
             PROVE  /\ RequestsInv /\ StagedInv /\ UniqueInv
                    /\ HomesInv /\ FoundInv /\ WholeInv
  OBVIOUS
<1> USE RestoresAssumption DEF Init, Worlds
<1>1. RequestsInv
  BY DEF RequestsInv
<1>2. StagedInv
  BY DEF StagedInv
<1>3. UniqueInv
  BY DEF UniqueInv
<1>4. HomesInv
  BY DEF HomesInv, NoneAside, Journaled
<1>5. FoundInv
  BY DEF FoundInv, Journaled, Settling
<1>6. WholeInv
  BY DEF WholeInv, CopyNeverBack, PlayedWorldsSurvive, OnDisk, Journaled
<1>. QED
  BY <1>1, <1>2, <1>3, <1>4, <1>5, <1>6

(* A step that makes an empty world and starts it passed startServer's     *)
(* refusals.                                                               *)
LEMMA EmptyStarts ==
    ASSUME TypeInv, BoxInv, HomesInv, [Next]_vars,
           live = None, live' = Fresh, box' = "starting"
    PROVE  played \subseteq discarded
<1>1. box = "stopped"
  BY RestoresAssumption DEF TypeInv, TypeOK, BoxInv, RunsInPlace, Worlds
<1> USE <1>1 DEF conts, worlds, vars
<1>2. ASSUME NEW r \in Restores, RestoreStep(r) PROVE ~DirsRefused
  BY <1>2 DEF RestoreStep, Stop, SaveRollback, WriteJournal, GiveUp, AwaitPrevious,
     SetAside, MoveIn, UndoMoveIn, PutBackUnmoved, RescueStaged, SaveRestored,
     JournalChecking, UnsaveRestored, UndoSettings, ClearLive, PutBackMoved,
     DropFailed, Launch, Await, Keep, Revert, RevertStop, BackClear, BackMove,
     BackSave, StartPrevious, DropAside, DropAsideRest, DropStage, DropStageRest,
     End, Recover, Adopt, ForwardClear, ForwardMove, ForwardSave, ForwardJournal,
     SettleSwap, StopServer, StartFailed, Undoing, PutPreviousBack, CanStart
<1>3. ASSUME Next, ~\E r \in Restores : RestoreStep(r) PROVE ~DirsRefused
  BY <1>3 DEF Next, AgentStep, AgentStart, AgentUp, AgentExit, SettleNext, Halt,
     LaunchOwn, AwaitOwn, Prune, GameOnline, GameExit, SettleTick, AutoStart,
     StartAsked, RestartAsked, StopAsked, Crash, AgentStop, StageArchive, ApplyAsked,
     ApplyBusy, ApplyBegin, DiscardStage, MoveBackByHand, DiscardCopy, StopServer,
     StartFailed, CanStart
<1>. QED
  BY <1>2, <1>3 DEF HomesInv, NoneAside, DirsRefused, WorldMissing

(* No world that was played is lost, put back broken or replaced by an     *)
(* empty one (WorldsKept), whatever fails, however often and wherever the  *)
(* agent stops.                                                            *)
THEOREM NoWorldIsLost == ASSUME Apart, Told PROVE Spec => WorldsKept
<1> DEFINE Inv == /\ TypeInv /\ LockInv /\ BoxInv /\ HoldInv /\ AsideInv
                  /\ RequestsInv /\ StagedInv /\ UniqueInv /\ HomesInv /\ FoundInv
                  /\ WholeInv
<1>1. Init => Inv
  BY TypeInit, LockInit, BoxInit, HoldInit, AsideInit, KeptInit
<1>2. Inv /\ [Next]_vars => Inv'
  BY Apart, Told, TypeNext, LockNext, BoxNext, HoldNext, AsideNext, RequestsNext,
     StagedNext, UniqueNext, HomesNext, FoundNext, WholeNext
<1>3. Inv => PlayedWorldsSurvive /\ CopyNeverBack
  BY DEF WholeInv
<1>4. Inv /\ [Next]_vars
          => [live = None /\ live' = Fresh /\ box' = "starting"
              => played \subseteq discarded]_vars
  BY EmptyStarts
<1>. QED
  BY <1>1, <1>2, <1>3, <1>4, PTL DEF Spec, WorldsKept, EmptyOnlyWithoutWorlds
=============================================================================
