-------------------------- MODULE SavingPauseProofs --------------------------
(***************************************************************************)
(* Proofs about SavingPause, for any number of container runs, lost        *)
(* commands and crashes.  The invariants come in layers: types, who holds  *)
(* the saving lock, what the console's queue and reply say of the game,    *)
(* what the record of a pause says of the game, and what may be queued     *)
(* while the world is copied.                                              *)
(***************************************************************************)
EXTENDS SavingPause, TLAPS

(* The steps of the backup that hold the saving lock. *)
Holding == {"pause", "off", "offWait", "flush", "flushWait", "copy", "on", "onWait",
            "commit"}

(* Who may send save-on, or must not be disturbed by one, has the lock. *)
LockInv ==
    /\ pc \in Holding => lock = "backup"
    /\ \A w \in Resumers : rpc[w] \in {"on", "onWait"} => lock = w

(* Nothing is queued for a game that isn't online, nor once the command    *)
(* someone waits for was answered; save-on's reply tells what the game     *)
(* does from then on.                                                      *)
ConsoleInv ==
    /\ box # "online" => queue = <<>>
    /\ reply # "none" => queue = <<>>
    /\ reply \in {"on", "already"} => saving
    /\ box = "starting" => saving

(* What doesn't save, or is about to be told not to, has a pause on record *)
(* that is as old as the container's run.                                  *)
RecordInv ==
    /\ box = "online" /\ (~saving \/ Queued("off")) => rec = run
    /\ pc \in {"lock", "pause"} /\ run = ran => rec \in {None, run}
    /\ pc = "off" /\ run = ran => rec = run
    /\ ran <= run

(* From save-off's reply on nothing turns saving on or off but the backup, *)
(* and once the world was written during the copy the game saves, as the   *)
(* first save-on is told.                                                  *)
CopyInv ==
    /\ pc \in {"flush", "flushWait", "copy"} => ~Queued("on") /\ ~Queued("off")
    /\ pc \in {"on", "onWait"} /\ ~failing => ~Queued("off")
    /\ pc \in {"copy", "on", "onWait"} /\ ~failing /\ first /\ torn /\ box = "online"
         => saving
    /\ pc = "onWait" /\ ~failing /\ first /\ torn => reply # "on"
    /\ pc = "commit" /\ first => ~torn

-----------------------------------------------------------------------------
(* The console's queue. *)

(* A command that is sent is last in the queue. *)
LEMMA QueueSent ==
    ASSUME NEW cmd \in Commands, queue \in Seq(Commands), queue' = Append(queue, cmd)
    PROVE  /\ queue' \in Seq(Commands)
           /\ \A c \in Commands : Queued(c)' <=> Queued(c) \/ c = cmd
<1>1. Len(queue') = Len(queue) + 1 /\ queue'[Len(queue) + 1] = cmd
  OBVIOUS
<1>2. \A i \in 1 .. Len(queue) : queue'[i] = queue[i]
  OBVIOUS
<1>3. Len(queue) \in Nat
  OBVIOUS
<1>. QED
  BY <1>1, <1>2, <1>3 DEF Queued

(* Running the oldest command leaves the others. *)
LEMMA QueueRun ==
    ASSUME queue \in Seq(Commands), queue # <<>>, queue' = Tail(queue)
    PROVE  /\ queue' \in Seq(Commands)
           /\ Head(queue) \in Commands /\ Queued(Head(queue))
           /\ \A c \in Commands : Queued(c)' => Queued(c)
<1>1. Len(queue) \in Nat \ {0} /\ Len(queue') = Len(queue) - 1
  OBVIOUS
<1>2. \A i \in 1 .. Len(queue') : queue'[i] = queue[i + 1]
  OBVIOUS
<1>3. Head(queue) = queue[1] /\ queue[1] \in Commands
  BY <1>1
<1>. QED
  BY <1>1, <1>2, <1>3 DEF Queued

(* Nothing is queued in an empty queue. *)
LEMMA QueueEmpty ==
    /\ queue = <<>> => \A c \in Commands : ~Queued(c)
    /\ queue' = <<>> => \A c \in Commands : ~Queued(c)'
BY DEF Queued

(* What is queued depends on the queue alone. *)
LEMMA QueueSame == queue' = queue => \A c \in Commands : Queued(c)' <=> Queued(c)
BY DEF Queued

(* The console in one step: it is left alone, gets a command, or loses     *)
(* something.                                                              *)
LEMMA SendTypes ==
    ASSUME queue \in Seq(Commands), NEW cmd \in Commands, Send(cmd)
    PROVE  /\ queue' \in Seq(Commands) /\ reply' = "none"
           /\ UNCHANGED <<box, run, saving, lost, crashes>>
BY QueueSent DEF Send, bounds

-----------------------------------------------------------------------------
(* Types, in two parts: what is true or false, and the rest. *)

Switches ==
    saving \in BOOLEAN /\ failing \in BOOLEAN /\ first \in BOOLEAN /\ torn \in BOOLEAN

Shapes ==
    /\ box \in {"stopped", "starting", "online"}
    /\ run \in 1 .. MaxRuns
    /\ queue \in Seq(Commands)
    /\ reply \in {"none", "off", "saved", "on", "already"}
    /\ rec \in {None} \cup 1 .. MaxRuns
    /\ agent \in {"down", "up", "stopping"}
    /\ op \in {"none", "backup", "other"}
    /\ lock \in {"free", "backup"} \cup Resumers
    /\ pc \in {"idle", "lock", "pause", "off", "offWait", "flush", "flushWait",
               "copy", "on", "onWait", "commit", "end"}
    /\ ran \in 1 .. MaxRuns
    /\ rpc \in [Resumers -> {"idle", "look", "on", "onWait"}]
    /\ lost \in 0 .. MaxLost
    /\ crashes \in 0 .. MaxCrashes

(* The two parts together are the type invariant. *)
LEMMA TypeParts == (TypeOK <=> Switches /\ Shapes) /\ (TypeOK' <=> Switches' /\ Shapes')
BY DEF TypeOK, Switches, Shapes

(* The first state has them. *)
LEMMA TypeInit == Init => TypeOK
<1>. SUFFICES ASSUME Init PROVE TypeOK
  OBVIOUS
<1>1. Switches
  BY DEF Init, Switches
<1>2. Shapes
  BY BoundAssumption DEF Init, Shapes
<1>. QED
  BY <1>1, <1>2, TypeParts

(* Each step keeps the switches true or false. *)
LEMMA SwitchStep == Switches /\ [Next]_vars => Switches'
<1>. SUFFICES ASSUME Switches, [Next]_vars PROVE Switches'
  OBVIOUS
<1>. USE DEF backup, game, bounds, Switches
<1>1. CASE BackupBegin
  BY <1>1 DEF BackupBegin
<1>2. CASE BackupLock
  BY <1>2 DEF BackupLock, Elsewhere
<1>3. CASE Pause
  BY <1>3 DEF Pause, Record
<1>4. CASE SendOff
  BY <1>4 DEF SendOff, NotSent, Cancelled, Lose, Undo, Go, Send
<1>5. CASE OffReply
  BY <1>5 DEF OffReply, NoReply, Cancelled, Lose, Undo, Go
<1>6. CASE SendFlush
  BY <1>6 DEF SendFlush, NotSent, Cancelled, Lose, Undo, Go, Send
<1>7. CASE FlushReply
  BY <1>7 DEF FlushReply, NoReply, Cancelled, Lose, Undo, Go
<1>8. CASE Copy
  BY <1>8 DEF Copy, Undo, Go
<1>9. CASE SendOn
  BY <1>9 DEF SendOn, Go, Send
<1>10. CASE OnReply
  BY <1>10 DEF OnReply, Clear, Go
<1>11. CASE OnFailed
  BY <1>11 DEF OnFailed, NotSent, NoReply, Lose, Clear
<1>12. CASE Commit
  BY <1>12 DEF Commit, Go
<1>13. CASE BackupEnd
  BY <1>13 DEF BackupEnd, Go
<1>14. CASE Run
  BY <1>14 DEF Run
<1>15. ASSUME NEW w \in Resumers, ResumeBegin(w) PROVE Switches'
  BY <1>15 DEF ResumeBegin, Resumer, Others
<1>16. ASSUME NEW w \in Resumers, Look(w) PROVE Switches'
  BY <1>16 DEF Look, Over, Clear, Resumer, Others
<1>17. ASSUME NEW w \in Resumers, ResumeSend(w) PROVE Switches'
  BY <1>17 DEF ResumeSend, NotSent, Lose, Resumer, Others, Send
<1>18. ASSUME NEW w \in Resumers, ResumeReply(w) PROVE Switches'
  BY <1>18 DEF ResumeReply, NoReply, Cancelled, Lose, Clear, Resumer, Others
<1>19. CASE OtherBegin \/ OtherEnd
  BY <1>19 DEF OtherBegin, OtherEnd
<1>20. CASE BoxStop
  BY <1>20 DEF BoxStop
<1>21. CASE BoxStart
  BY <1>21 DEF BoxStart
<1>22. CASE BoxOnline
  BY <1>22 DEF BoxOnline
<1>23. CASE AutoSave
  BY <1>23 DEF AutoSave
<1>24. CASE SaveOnByOther
  BY <1>24 DEF SaveOnByOther
<1>25. CASE Crash
  BY <1>25 DEF Crash
<1>26. CASE AgentStop \/ AgentRestart
  BY <1>26 DEF AgentStop, AgentRestart
<1>27. CASE UNCHANGED vars
  BY <1>27 DEF vars
<1>. QED
  BY <1>1, <1>2, <1>3, <1>4, <1>5, <1>6, <1>7, <1>8, <1>9, <1>10, <1>11, <1>12, <1>13,
     <1>14, <1>15, <1>16, <1>17, <1>18, <1>19, <1>20, <1>21, <1>22, <1>23, <1>24, <1>25,
     <1>26, <1>27 DEF Next, BackupStep, ResumeStep

(* Each step keeps the rest in its types. *)
LEMMA ShapeStep == Shapes /\ [Next]_vars => Shapes'
<1>. SUFFICES ASSUME Shapes, [Next]_vars PROVE Shapes'
  OBVIOUS
<1>. USE DEF backup, game, bounds, Shapes
<1>1. CASE BackupBegin
  BY <1>1, BoundAssumption DEF BackupBegin
<1>2. CASE BackupLock
  BY <1>2, BoundAssumption DEF BackupLock, Elsewhere
<1>3. CASE Pause
  BY <1>3, BoundAssumption DEF Pause, Record
<1>4. CASE SendOff
  BY <1>4, BoundAssumption, SendTypes DEF SendOff, NotSent, Cancelled, Lose, Undo, Go,
     Commands
<1>5. CASE OffReply
  BY <1>5, BoundAssumption DEF OffReply, NoReply, Cancelled, Lose, Undo, Go
<1>6. CASE SendFlush
  BY <1>6, BoundAssumption, SendTypes DEF SendFlush, NotSent, Cancelled, Lose, Undo, Go,
     Commands
<1>7. CASE FlushReply
  BY <1>7, BoundAssumption DEF FlushReply, NoReply, Cancelled, Lose, Undo, Go
<1>8. CASE Copy
  BY <1>8, BoundAssumption DEF Copy, Undo, Go
<1>9. CASE SendOn
  BY <1>9, BoundAssumption, SendTypes DEF SendOn, Go, Commands
<1>10. CASE OnReply
  BY <1>10, BoundAssumption DEF OnReply, Clear, Go
<1>11. CASE OnFailed
  BY <1>11, BoundAssumption DEF OnFailed, NotSent, NoReply, Lose, Clear
<1>12. CASE Commit
  BY <1>12, BoundAssumption DEF Commit, Go
<1>13. CASE BackupEnd
  BY <1>13, BoundAssumption DEF BackupEnd, Go
<1>14. CASE Run
  BY <1>14, BoundAssumption, QueueRun DEF Run, Commands
<1>15. ASSUME NEW w \in Resumers, ResumeBegin(w) PROVE Shapes'
  BY <1>15, BoundAssumption DEF ResumeBegin, Resumer, Others
<1>16. ASSUME NEW w \in Resumers, Look(w) PROVE Shapes'
  BY <1>16, BoundAssumption DEF Look, Over, Clear, Resumer, Others, Resumers
<1>17. ASSUME NEW w \in Resumers, ResumeSend(w) PROVE Shapes'
  BY <1>17, BoundAssumption, SendTypes DEF ResumeSend, NotSent, Lose, Resumer, Others,
     Commands
<1>18. ASSUME NEW w \in Resumers, ResumeReply(w) PROVE Shapes'
  BY <1>18, BoundAssumption DEF ResumeReply, NoReply, Cancelled, Lose, Clear, Resumer,
     Others
<1>19. CASE OtherBegin \/ OtherEnd
  BY <1>19, BoundAssumption DEF OtherBegin, OtherEnd
<1>20. CASE BoxStop
  BY <1>20, BoundAssumption DEF BoxStop
<1>21. CASE BoxStart
  BY <1>21, BoundAssumption DEF BoxStart
<1>22. CASE BoxOnline
  BY <1>22, BoundAssumption DEF BoxOnline
<1>23. CASE AutoSave
  BY <1>23, BoundAssumption DEF AutoSave
<1>24. CASE SaveOnByOther
  BY <1>24, BoundAssumption DEF SaveOnByOther
<1>25. CASE Crash
  BY <1>25, BoundAssumption DEF Crash
<1>26. CASE AgentStop \/ AgentRestart
  BY <1>26, BoundAssumption DEF AgentStop, AgentRestart
<1>27. CASE UNCHANGED vars
  BY <1>27, BoundAssumption DEF vars
<1>. QED
  BY <1>1, <1>2, <1>3, <1>4, <1>5, <1>6, <1>7, <1>8, <1>9, <1>10, <1>11, <1>12, <1>13,
     <1>14, <1>15, <1>16, <1>17, <1>18, <1>19, <1>20, <1>21, <1>22, <1>23, <1>24, <1>25,
     <1>26, <1>27 DEF Next, BackupStep, ResumeStep

(* Every variable keeps its type, whatever the agent and the game do. *)
THEOREM PauseTypeCorrect == Spec => []TypeOK
<1>1. TypeOK /\ [Next]_vars => TypeOK'
  BY TypeParts, SwitchStep, ShapeStep
<1>. QED
  BY <1>1, TypeInit, PTL DEF Spec

-----------------------------------------------------------------------------
(* Who holds the saving lock. *)

(* Each step leaves the lock with who needs it. *)
LEMMA LockStep == Shapes /\ LockInv /\ [Next]_vars => LockInv'
<1>. SUFFICES ASSUME Shapes, LockInv, [Next]_vars PROVE LockInv'
  OBVIOUS
<1>. USE DEF backup, game, bounds, LockInv, Holding, Resumers, Shapes
<1>1. CASE BackupBegin
  BY <1>1 DEF BackupBegin
<1>2. CASE BackupLock
  BY <1>2 DEF BackupLock, Elsewhere
<1>3. CASE Pause
  BY <1>3 DEF Pause, Record
<1>4. CASE SendOff
  BY <1>4 DEF SendOff, NotSent, Cancelled, Lose, Undo, Go, Send
<1>5. CASE OffReply
  BY <1>5 DEF OffReply, NoReply, Cancelled, Lose, Undo, Go
<1>6. CASE SendFlush
  BY <1>6 DEF SendFlush, NotSent, Cancelled, Lose, Undo, Go, Send
<1>7. CASE FlushReply
  BY <1>7 DEF FlushReply, NoReply, Cancelled, Lose, Undo, Go
<1>8. CASE Copy
  BY <1>8 DEF Copy, Undo, Go
<1>9. CASE SendOn
  BY <1>9 DEF SendOn, Go, Send
<1>10. CASE OnReply
  BY <1>10 DEF OnReply, Clear, Go
<1>11. CASE OnFailed
  BY <1>11 DEF OnFailed, NotSent, NoReply, Lose, Clear
<1>12. CASE Commit
  BY <1>12 DEF Commit, Go
<1>13. CASE BackupEnd
  BY <1>13 DEF BackupEnd, Go
<1>14. CASE Run
  BY <1>14 DEF Run
<1>15. ASSUME NEW w \in Resumers, ResumeBegin(w) PROVE LockInv'
  BY <1>15 DEF ResumeBegin, Resumer, Others
<1>16. ASSUME NEW w \in Resumers, Look(w) PROVE LockInv'
  BY <1>16 DEF Look, Over, Clear, Resumer, Others
<1>17. ASSUME NEW w \in Resumers, ResumeSend(w) PROVE LockInv'
  BY <1>17 DEF ResumeSend, NotSent, Lose, Resumer, Others, Send
<1>18. ASSUME NEW w \in Resumers, ResumeReply(w) PROVE LockInv'
  BY <1>18 DEF ResumeReply, NoReply, Cancelled, Lose, Clear, Resumer, Others
<1>19. CASE OtherBegin \/ OtherEnd
  BY <1>19 DEF OtherBegin, OtherEnd
<1>20. CASE BoxStop
  BY <1>20 DEF BoxStop
<1>21. CASE BoxStart
  BY <1>21 DEF BoxStart
<1>22. CASE BoxOnline
  BY <1>22 DEF BoxOnline
<1>23. CASE AutoSave
  BY <1>23 DEF AutoSave
<1>24. CASE SaveOnByOther
  BY <1>24 DEF SaveOnByOther
<1>25. CASE Crash
  BY <1>25 DEF Crash
<1>26. CASE AgentStop \/ AgentRestart
  BY <1>26 DEF AgentStop, AgentRestart
<1>27. CASE UNCHANGED vars
  BY <1>27 DEF vars
<1>. QED
  BY <1>1, <1>2, <1>3, <1>4, <1>5, <1>6, <1>7, <1>8, <1>9, <1>10, <1>11, <1>12, <1>13,
     <1>14, <1>15, <1>16, <1>17, <1>18, <1>19, <1>20, <1>21, <1>22, <1>23, <1>24, <1>25,
     <1>26, <1>27 DEF Next, BackupStep, ResumeStep

-----------------------------------------------------------------------------
(* The console. *)

(* Each step keeps what the queue and the reply say. *)
LEMMA ConsoleStep == Switches /\ Shapes /\ ConsoleInv /\ [Next]_vars => ConsoleInv'
<1>. SUFFICES ASSUME Switches, Shapes, ConsoleInv, [Next]_vars PROVE ConsoleInv'
  OBVIOUS
<1>. USE DEF backup, game, bounds, ConsoleInv
<1>1. CASE BackupBegin
  BY <1>1 DEF BackupBegin
<1>2. CASE BackupLock
  BY <1>2 DEF BackupLock, Elsewhere
<1>3. CASE Pause
  BY <1>3 DEF Pause, Record
<1>4. CASE SendOff
  BY <1>4 DEF SendOff, NotSent, Cancelled, Lose, Undo, Go, Send
<1>5. CASE OffReply
  BY <1>5 DEF OffReply, NoReply, Cancelled, Lose, Undo, Go
<1>6. CASE SendFlush
  BY <1>6 DEF SendFlush, NotSent, Cancelled, Lose, Undo, Go, Send
<1>7. CASE FlushReply
  BY <1>7 DEF FlushReply, NoReply, Cancelled, Lose, Undo, Go
<1>8. CASE Copy
  BY <1>8 DEF Copy, Undo, Go
<1>9. CASE SendOn
  BY <1>9 DEF SendOn, Go, Send
<1>10. CASE OnReply
  BY <1>10 DEF OnReply, Clear, Go
<1>11. CASE OnFailed
  BY <1>11 DEF OnFailed, NotSent, NoReply, Lose, Clear
<1>12. CASE Commit
  BY <1>12 DEF Commit, Go
<1>13. CASE BackupEnd
  BY <1>13 DEF BackupEnd, Go
<1>14. CASE Run
  BY <1>14, QueueRun DEF Run, Commands, Shapes
<1>15. ASSUME NEW w \in Resumers, ResumeBegin(w) PROVE ConsoleInv'
  BY <1>15 DEF ResumeBegin, Resumer, Others
<1>16. ASSUME NEW w \in Resumers, Look(w) PROVE ConsoleInv'
  BY <1>16 DEF Look, Over, Clear, Resumer, Others
<1>17. ASSUME NEW w \in Resumers, ResumeSend(w) PROVE ConsoleInv'
  BY <1>17 DEF ResumeSend, NotSent, Lose, Resumer, Others, Send
<1>18. ASSUME NEW w \in Resumers, ResumeReply(w) PROVE ConsoleInv'
  BY <1>18 DEF ResumeReply, NoReply, Cancelled, Lose, Clear, Resumer, Others
<1>19. CASE OtherBegin \/ OtherEnd
  BY <1>19 DEF OtherBegin, OtherEnd
<1>20. CASE BoxStop
  BY <1>20 DEF BoxStop
<1>21. CASE BoxStart
  BY <1>21 DEF BoxStart
<1>22. CASE BoxOnline
  BY <1>22 DEF BoxOnline
<1>23. CASE AutoSave
  BY <1>23 DEF AutoSave
<1>24. CASE SaveOnByOther
  BY <1>24 DEF SaveOnByOther
<1>25. CASE Crash
  BY <1>25 DEF Crash
<1>26. CASE AgentStop \/ AgentRestart
  BY <1>26 DEF AgentStop, AgentRestart
<1>27. CASE UNCHANGED vars
  BY <1>27 DEF vars
<1>. QED
  BY <1>1, <1>2, <1>3, <1>4, <1>5, <1>6, <1>7, <1>8, <1>9, <1>10, <1>11, <1>12, <1>13,
     <1>14, <1>15, <1>16, <1>17, <1>18, <1>19, <1>20, <1>21, <1>22, <1>23, <1>24, <1>25,
     <1>26, <1>27 DEF Next, BackupStep, ResumeStep

-----------------------------------------------------------------------------
(* What is on record of a pause. *)

(* With backups that wait for the reconciler to have seen a restart, each  *)
(* step keeps what the record says of the game.                            *)
LEMMA RecordStep ==
    ~QuickBackup /\ Switches /\ Shapes /\ LockInv /\ ConsoleInv /\ RecordInv /\ [Next]_vars => RecordInv'
<1>. SUFFICES ASSUME ~QuickBackup, Switches, Shapes, LockInv, ConsoleInv, RecordInv, [Next]_vars
              PROVE RecordInv'
  OBVIOUS
<1>. USE DEF backup, game, bounds, Commands, Holding, Resumers, Switches, Shapes,
         LockInv, ConsoleInv, RecordInv
<1>1. CASE BackupBegin
  BY <1>1, QueueSame DEF BackupBegin
<1>2. CASE BackupLock
  BY <1>2, QueueSame DEF BackupLock, Elsewhere
<1>3. CASE Pause
  BY <1>3, NoneAssumption, QueueSame DEF Pause, Record
<1>4. CASE SendOff
  BY <1>4, QueueSent, QueueSame DEF SendOff, NotSent, Cancelled, Lose, Undo, Go, Send
<1>5. CASE OffReply
  BY <1>5, QueueSame, QueueEmpty DEF OffReply, NoReply, Cancelled, Lose, Undo, Go
<1>6. CASE SendFlush
  BY <1>6, QueueSent, QueueSame DEF SendFlush, NotSent, Cancelled, Lose, Undo, Go, Send
<1>7. CASE FlushReply
  BY <1>7, QueueSame, QueueEmpty DEF FlushReply, NoReply, Cancelled, Lose, Undo, Go
<1>8. CASE Copy
  BY <1>8, QueueSame DEF Copy, Undo, Go
<1>9. CASE SendOn
  BY <1>9, QueueSent, QueueSame DEF SendOn, Go, Send
<1>10. CASE OnReply
  BY <1>10, QueueSame, QueueEmpty DEF OnReply, Clear, Go
<1>11. CASE OnFailed
  BY <1>11, QueueSame, QueueEmpty DEF OnFailed, NotSent, NoReply, Lose, Clear
<1>12. CASE Commit
  BY <1>12, QueueSame DEF Commit, Go
<1>13. CASE BackupEnd
  BY <1>13, QueueSame DEF BackupEnd, Go
<1>14. CASE Run
  BY <1>14, QueueRun, QueueEmpty DEF Run
<1>15. ASSUME NEW w \in Resumers, ResumeBegin(w) PROVE RecordInv'
  BY <1>15, QueueSame DEF ResumeBegin, Resumer, Others
<1>16. ASSUME NEW w \in Resumers, Look(w) PROVE RecordInv'
  BY <1>16, NoneAssumption, QueueSame DEF Look, Over, Clear, Resumer, Others
<1>17. ASSUME NEW w \in Resumers, ResumeSend(w) PROVE RecordInv'
  BY <1>17, QueueSent, QueueSame DEF ResumeSend, NotSent, Lose, Resumer, Others, Send
<1>18. ASSUME NEW w \in Resumers, ResumeReply(w) PROVE RecordInv'
  BY <1>18, QueueSame, QueueEmpty DEF ResumeReply, NoReply, Cancelled, Lose, Clear,
     Resumer, Others
<1>19. CASE OtherBegin \/ OtherEnd
  BY <1>19, QueueSame DEF OtherBegin, OtherEnd
<1>20. CASE BoxStop
  BY <1>20, QueueEmpty DEF BoxStop
<1>21. CASE BoxStart
  BY <1>21, QueueSame, QueueEmpty DEF BoxStart
<1>22. CASE BoxOnline
  BY <1>22, QueueSame, QueueEmpty DEF BoxOnline
<1>23. CASE AutoSave
  BY <1>23, QueueSame DEF AutoSave
<1>24. CASE SaveOnByOther
  BY <1>24, QueueSame DEF SaveOnByOther
<1>25. CASE Crash
  BY <1>25, QueueSame DEF Crash
<1>26. CASE AgentStop \/ AgentRestart
  BY <1>26, QueueSame DEF AgentStop, AgentRestart
<1>27. CASE UNCHANGED vars
  BY <1>27, QueueSame DEF vars
<1>. QED
  BY <1>1, <1>2, <1>3, <1>4, <1>5, <1>6, <1>7, <1>8, <1>9, <1>10, <1>11, <1>12, <1>13,
     <1>14, <1>15, <1>16, <1>17, <1>18, <1>19, <1>20, <1>21, <1>22, <1>23, <1>24, <1>25,
     <1>26, <1>27 DEF Next, BackupStep, ResumeStep

-----------------------------------------------------------------------------
(* What may happen to the game while the world is copied. *)

(* Each step keeps the game from being told to save during a copy. *)
LEMMA CopyStep ==
    Switches /\ Shapes /\ LockInv /\ ConsoleInv /\ CopyInv /\ [Next]_vars => CopyInv'
<1>. SUFFICES ASSUME Switches, Shapes, LockInv, ConsoleInv, CopyInv, [Next]_vars
              PROVE CopyInv'
  OBVIOUS
<1>. USE DEF backup, game, bounds, Commands, Holding, Resumers, Switches, Shapes,
         LockInv, ConsoleInv, CopyInv
<1>1. CASE BackupBegin
  BY <1>1, QueueSame DEF BackupBegin
<1>2. CASE BackupLock
  BY <1>2, QueueSame DEF BackupLock, Elsewhere
<1>3. CASE Pause
  BY <1>3, QueueSame DEF Pause, Record
<1>4. CASE SendOff
  BY <1>4, QueueSent, QueueSame DEF SendOff, NotSent, Cancelled, Lose, Undo, Go, Send
<1>5. CASE OffReply
  BY <1>5, QueueSame, QueueEmpty DEF OffReply, NoReply, Cancelled, Lose, Undo, Go
<1>6. CASE SendFlush
  BY <1>6, QueueSent, QueueSame DEF SendFlush, NotSent, Cancelled, Lose, Undo, Go, Send
<1>7. CASE FlushReply
  BY <1>7, QueueSame, QueueEmpty DEF FlushReply, NoReply, Cancelled, Lose, Undo, Go
<1>8. CASE Copy
  BY <1>8, QueueSame DEF Copy, Undo, Go
<1>9. CASE SendOn
  BY <1>9, QueueSent, QueueSame DEF SendOn, Go, Send
<1>10. CASE OnReply
  BY <1>10, QueueSame, QueueEmpty DEF OnReply, Clear, Go
<1>11. CASE OnFailed
  BY <1>11, QueueSame, QueueEmpty DEF OnFailed, NotSent, NoReply, Lose, Clear
<1>12. CASE Commit
  BY <1>12, QueueSame DEF Commit, Go
<1>13. CASE BackupEnd
  BY <1>13, QueueSame DEF BackupEnd, Go
<1>14. CASE Run
  BY <1>14, QueueRun, QueueEmpty DEF Run
<1>15. ASSUME NEW w \in Resumers, ResumeBegin(w) PROVE CopyInv'
  BY <1>15, QueueSame DEF ResumeBegin, Resumer, Others
<1>16. ASSUME NEW w \in Resumers, Look(w) PROVE CopyInv'
  BY <1>16, QueueSame DEF Look, Over, Clear, Resumer, Others
<1>17. ASSUME NEW w \in Resumers, ResumeSend(w) PROVE CopyInv'
  BY <1>17, QueueSent, QueueSame DEF ResumeSend, NotSent, Lose, Resumer, Others, Send
<1>18. ASSUME NEW w \in Resumers, ResumeReply(w) PROVE CopyInv'
  BY <1>18, QueueSame, QueueEmpty DEF ResumeReply, NoReply, Cancelled, Lose, Clear,
     Resumer, Others
<1>19. CASE OtherBegin \/ OtherEnd
  BY <1>19, QueueSame DEF OtherBegin, OtherEnd
<1>20. CASE BoxStop
  BY <1>20, QueueEmpty DEF BoxStop
<1>21. CASE BoxStart
  BY <1>21, QueueSame, QueueEmpty DEF BoxStart
<1>22. CASE BoxOnline
  BY <1>22, QueueSame, QueueEmpty DEF BoxOnline
<1>23. CASE AutoSave
  BY <1>23, QueueSame DEF AutoSave
<1>24. CASE SaveOnByOther
  BY <1>24, QueueSame DEF SaveOnByOther
<1>25. CASE Crash
  BY <1>25, QueueSame DEF Crash
<1>26. CASE AgentStop \/ AgentRestart
  BY <1>26, QueueSame DEF AgentStop, AgentRestart
<1>27. CASE UNCHANGED vars
  BY <1>27, QueueSame DEF vars
<1>. QED
  BY <1>1, <1>2, <1>3, <1>4, <1>5, <1>6, <1>7, <1>8, <1>9, <1>10, <1>11, <1>12, <1>13,
     <1>14, <1>15, <1>16, <1>17, <1>18, <1>19, <1>20, <1>21, <1>22, <1>23, <1>24, <1>25,
     <1>26, <1>27 DEF Next, BackupStep, ResumeStep

-----------------------------------------------------------------------------
(* The invariants hold in the first state. *)
LEMMA InvInit == Init => LockInv /\ ConsoleInv /\ RecordInv /\ CopyInv
BY BoundAssumption, QueueEmpty
   DEF Init, LockInv, ConsoleInv, RecordInv, CopyInv, Holding, Commands

(* What holds whatever a backup waits for before it begins. *)
PauseInv == Switches /\ Shapes /\ LockInv /\ ConsoleInv /\ CopyInv

(* They hold in the first state. *)
LEMMA PauseInvInit == Init => PauseInv
BY TypeInit, TypeParts, InvInit DEF PauseInv

(* Each step keeps them. *)
LEMMA PauseInvStep == PauseInv /\ [Next]_vars => PauseInv'
BY SwitchStep, ShapeStep, LockStep, ConsoleStep, CopyStep DEF PauseInv

(* If a backup only begins once the reconciler has seen that the server    *)
(* restarted since a pause was recorded, a running server that doesn't     *)
(* save has its pause on record, whatever is lost and whenever the agent   *)
(* dies: makeBackup records it before save-off, and what clears it has     *)
(* save-on's reply or a container that saves by itself.                    *)
THEOREM PausesRemembered == ASSUME ~QuickBackup PROVE Spec => []PauseRemembered
<1>1. Init => PauseInv /\ RecordInv
  BY PauseInvInit, InvInit
<1>2. PauseInv /\ RecordInv /\ [Next]_vars => (PauseInv /\ RecordInv)'
  BY PauseInvStep, RecordStep DEF PauseInv
<1>3. PauseInv /\ RecordInv => PauseRemembered
  BY NoneAssumption DEF PauseInv, Shapes, RecordInv, PauseRemembered
<1>. QED
  BY <1>1, <1>2, <1>3, PTL DEF Spec

(* While a backup copies the world no save-on of the agent's is on its way *)
(* to the game: the saving lock keeps hSavingResume and the reconciler     *)
(* out, and what was sent before it was answered before.                   *)
THEOREM NoSaveOnInACopy == Spec => []CopyUndisturbed
<1>1. PauseInv => CopyUndisturbed
  BY DEF PauseInv, CopyInv, CopyUndisturbed
<1>. QED
  BY <1>1, PauseInvInit, PauseInvStep, PTL DEF Spec

(* A backup whose first save-on was answered is kept only if nothing wrote *)
(* the world while it was copied: what wrote it had turned saving on, and  *)
(* save-on's reply tells.                                                  *)
THEOREM KeptCopiesAreOfOneMoment == Spec => []OneMomentUnlessRetried
<1>1. PauseInv => OneMomentUnlessRetried
  BY DEF PauseInv, CopyInv, OneMomentUnlessRetried
<1>. QED
  BY <1>1, PauseInvInit, PauseInvStep, PTL DEF Spec

(* The agent doesn't disturb its own copy, and discards one that something *)
(* else disturbed.                                                         *)
THEOREM CopiesAreOfOneMoment == Spec => []CopyOfOneMoment
<1>. QED
  BY NoSaveOnInACopy, KeptCopiesAreOfOneMoment, PTL DEF CopyOfOneMoment
=============================================================================
