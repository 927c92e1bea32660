-------------------------- MODULE ServerMoveProofs --------------------------
(***************************************************************************)
(* The safety properties of ServerMove, for any machines, moves, plays and *)
(* faults.  None is inductive.  The invariant is built in layers, each     *)
(* kept by every step given the ones before it: what the mover's goroutine *)
(* holds is what the move's row says (MoverInv), where the server is and   *)
(* where copies of it are (PlaceInv), what the limits count (LimitInv),    *)
(* which copy is the newest (WorldInv), and whether it runs (RunInv).      *)
(***************************************************************************)
EXTENDS ServerMove, TLAPS

-----------------------------------------------------------------------------
(* Types                                                                   *)

Movers == [pc : Steps, from : Somewhere, to : Somewhere, ran : BOOLEAN,
           start : BOOLEAN, resume : BOOLEAN, world : 0..MaxWorld,
           then : {"begin", "failed"}, pass : 0..2]
Rows == [from : Somewhere, to : Somewhere, ran : BOOLEAN, made : BOOLEAN]
Copy == [st : {"none", "making", "broken"} \cup Whole, world : 0..MaxWorld,
         start : BOOLEAN]
Listings == [on : Somewhere, has : BOOLEAN, old : BOOLEAN, went : BOOLEAN]
Syncs == [on : Somewhere, counts : BOOLEAN]

(* The mover goes on with the rest of its fields as they are. *)
LEMMA GoIs ==
    ASSUME mover \in Movers, NEW pc \in Steps, Go(pc)
    PROVE  /\ mover' \in Movers /\ mover'.pc = pc
           /\ mover'.from = mover.from /\ mover'.to = mover.to
           /\ mover'.ran = mover.ran /\ mover'.start = mover.start
           /\ mover'.world = mover.world
  BY DEF Movers, Go

(* The server's part of a move ends. *)
LEMMA EndsIs ==
    ASSUME mover \in Movers, NEW pc \in Steps, Ends(pc)
    PROVE  mover' \in Movers /\ mover'.pc = pc
<1>1. 0 \in 0..MaxWorld
  BY MoveBoundsAssumption
<1>2. Idle \in Movers
  BY <1>1 DEF Idle, Movers, Steps, Somewhere
<1>. QED
  BY <1>2 DEF Ends, Movers

(* A step before the requests go there fails. *)
LEMMA AbandonIs ==
    ASSUME mover \in Movers, Abandon
    PROVE  /\ mover' \in Movers /\ mover'.pc = "abandon"
           /\ mover'.from = mover.from /\ mover'.to = mover.to
           /\ mover'.ran = mover.ran
  BY DEF Movers, Abandon, Steps

(* Stopping and starting a machine's server changes whether it runs. *)
LEMMA StoppedIs ==
    ASSUME copy \in [Machine -> Copy], NEW m
    PROVE  /\ Stopped(copy, m) \in [Machine -> Copy]
           /\ \A n \in Machine :
                /\ Stopped(copy, m)[n].world = copy[n].world
                /\ Stopped(copy, m)[n].start = copy[n].start
                /\ Stopped(copy, m)[n].st = IF n = m /\ copy[n].st = "running"
                                            THEN "stopped" ELSE copy[n].st
  BY DEF Stopped, Copy, Whole

LEMMA StartedIs ==
    ASSUME copy \in [Machine -> Copy], NEW m
    PROVE  /\ Started(copy, m) \in [Machine -> Copy]
           /\ \A n \in Machine :
                /\ Started(copy, m)[n].world = copy[n].world
                /\ Started(copy, m)[n].start = copy[n].start
                /\ Started(copy, m)[n].st = IF n = m /\ copy[n].st = "stopped"
                                            THEN "running" ELSE copy[n].st
  BY DEF Started, Copy, Whole

(* The agent takes the folder that was sent to it. *)
LEMMA TakenIs ==
    ASSUME copy \in [Machine -> Copy], mover \in Movers, NEW m, Taken(m)
    PROVE  /\ copy' \in [Machine -> Copy]
           /\ \A n \in Machine :
                copy'[n] = IF n = m THEN [st |-> "making", world |-> mover.world,
                                          start |-> mover.start]
                                    ELSE copy[n]
  BY DEF Taken, Copy, Movers

(* A move begins: with its row there already, or with its row to write. *)
LEMMA AskFoundIs ==
    ASSUME mover \in Movers, AskFound
    PROVE  /\ mover' \in Movers /\ mover'.from = mover.from /\ mover'.to = mover.to
           /\ Moving => /\ mover'.pc = "there" /\ mover'.ran = mover.ran
                        /\ mover'.start = (mover.ran /\ ~held)
           /\ ~Moving => /\ mover'.pc = "row"
                         /\ mover'.ran = (copy[mover.from].st = "running")
<1>1. CASE Moving
  <2>1. mover' = [mover EXCEPT !.pc = "there", !.start = mover.ran /\ ~held]
    BY <1>1 DEF AskFound
  <2>2. (mover.ran /\ ~held) \in BOOLEAN
    OBVIOUS
  <2>. QED
    BY <1>1, <2>1, <2>2 DEF Movers, Steps
<1>2. CASE ~Moving
  <2>1. mover' = [mover EXCEPT !.pc = "row", !.ran = copy[mover.from].st = "running"]
    BY <1>2 DEF AskFound
  <2>2. (copy[mover.from].st = "running") \in BOOLEAN
    OBVIOUS
  <2>. QED
    BY <1>2, <2>1, <2>2 DEF Movers, Steps
<1>. QED
  BY <1>1, <1>2

LEMMA WriteRowIs ==
    ASSUME mover \in Movers, WriteRow
    PROVE  /\ mover' \in Movers /\ mover'.pc = "there"
           /\ mover'.from = mover.from /\ mover'.to = mover.to
           /\ mover'.ran = (mover.ran \/ restart = mover.from)
           /\ mover'.start = (mover'.ran /\ ~held)
           /\ mv' \in Rows /\ mv'.from = mover.from /\ mv'.to = mover.to
           /\ mv'.ran = mover'.ran /\ ~mv'.made
<1> DEFINE ran == mover.ran \/ restart = mover.from
<1>1. /\ mv' = [NoMove EXCEPT !.from = mover.from, !.to = mover.to, !.ran = ran]
      /\ mover' = [mover EXCEPT !.pc = "there", !.ran = ran, !.start = ran /\ ~held]
  BY DEF WriteRow
<1>2. ran \in BOOLEAN /\ (ran /\ ~held) \in BOOLEAN
  OBVIOUS
<1> HIDE DEF ran
<1>3. /\ mover' \in Movers /\ mover'.pc = "there"
      /\ mover'.from = mover.from /\ mover'.to = mover.to
      /\ mover'.ran = ran /\ mover'.start = (ran /\ ~held)
  BY <1>1, <1>2 DEF Movers, Steps
<1>4. /\ mv' \in Rows /\ mv'.from = mover.from /\ mv'.to = mover.to
      /\ mv'.ran = ran /\ ~mv'.made
  BY <1>1, <1>2 DEF Movers, Rows, NoMove
<1>. QED
  BY <1>3, <1>4 DEF ran

(* What TypeOK says, with its sets named. *)
Types ==
    /\ {record, disputed, restart, retry} \subseteq Somewhere /\ home \in Machine
    /\ cmove \in {"none", "running", "stopped"} /\ mv \in Rows
    /\ left \in [Machine -> {"none", "here", "gone"}]
    /\ {held, wants, deleted} \subseteq BOOLEAN /\ mover \in Movers
    /\ pausing \in Machine \cup {"no", "marked", "unstopped"}
    /\ listing \in Listings /\ sync \in Syncs
    /\ copy \in [Machine -> Copy] /\ limit \in [Machine -> BOOLEAN]
    /\ newest \in 0..MaxWorld /\ moves \in 0..MaxMoves /\ faults \in 0..MaxFaults

LEMMA TypesAre == TypeOK <=> Types
  BY DEF TypeOK, Types, Movers, Rows, Copy, Listings, Syncs

LEMMA TypeInit == Init => Types
<1> SUFFICES ASSUME Init PROVE Types
  OBVIOUS
<1>1. 0 \in 0..MaxWorld /\ 0 \in 0..MaxMoves /\ 0 \in 0..MaxFaults
  BY MoveBoundsAssumption
<1>2. NoMove \in Rows /\ NoListing \in Listings /\ NoSync \in Syncs
  BY DEF NoMove, NoListing, NoSync, Rows, Listings, Syncs, Somewhere
<1>3. Idle \in Movers /\ NoCopy \in Copy
  BY <1>1 DEF Idle, NoCopy, Movers, Copy, Steps, Somewhere
<1>4. [NoCopy EXCEPT !.st = "running"] \in Copy
  BY <1>3 DEF Copy, Whole
<1>. QED
  BY <1>1, <1>2, <1>3, <1>4 DEF Init, Types, Somewhere

(* Leaving a copy deletes it, or not. *)
LEMMA LeaveCopyIs ==
    ASSUME Types, NEW m, LeaveCopy(m)
    PROVE  /\ copy' \in [Machine -> Copy] /\ listing' \in Listings
           /\ left' \in [Machine -> {"none", "here", "gone"}]
<1>1. NoCopy \in Copy
  BY MoveBoundsAssumption DEF NoCopy, Copy
<1>2. left' \in [Machine -> {"none", "here", "gone"}]
  BY DEF LeaveCopy, Types
<1>3. copy' \in [Machine -> Copy]
  BY <1>1 DEF LeaveCopy, Types
<1>4. listing' \in Listings
  BY DEF LeaveCopy, Types, Listings
<1>. QED
  BY <1>2, <1>3, <1>4

(* From where its server is sent to where it is made, the mover works on   *)
(* the move that the row records: what a restart resumes is what it did.   *)
InMove == {"there", "waitAgain", "deleteOld", "stop", "copy", "moveIn", "made", "wait",
           "state", "limits", "switch", "abandon"}
Over == {"heldStop", "leaveFrom", "abStart", "leaveTo", "apart", "done", "failed"}

AsTheRow == mover.from = mv.from /\ mover.to = mv.to /\ mover.ran = mv.ran
Distinct(x, y) == x \in Machine /\ y \in Machine \ {x}

MoverInv ==
    /\ mover.pc \in InMove => Moving
    /\ mover.pc \in Over \cup {"row"} => ~Moving
    /\ mover.pc \in InMove \/ (At("ask") /\ Moving) => AsTheRow
    /\ mover.pc \in {"ask", "row", "heldStop", "leaveFrom", "abStart", "leaveTo"} =>
          Distinct(mover.from, mover.to)
    /\ Moving => Distinct(mv.from, mv.to)
    /\ At("waitAgain") => mv.made

LEMMA TypeStep == Types /\ MoverInv /\ [Next]_vars => Types'
<1> SUFFICES ASSUME Types, MoverInv, [Next]_vars PROVE Types'
  OBVIOUS
<1>m. /\ mover \in Movers /\ copy \in [Machine -> Copy] /\ mv \in Rows
      /\ {"there", "stop", "waitAgain", "state", "deleteOld", "copy", "made", "wait",
          "limits", "switch", "heldStop", "leaveFrom", "abStart", "leaveTo", "done",
          "failed", "apart"} \subseteq Steps
  BY DEF Types, Steps
<1>i. NoMove \in Rows /\ NoListing \in Listings /\ NoSync \in Syncs /\ Idle \in Movers
      /\ NoCopy \in Copy
  BY MoveBoundsAssumption DEF NoMove, NoListing, NoSync, Rows, Listings, Syncs, Somewhere,
     Idle, NoCopy, Movers, Copy, Steps
<1>t. mover.then \in {"begin", "failed"} /\ {"begin", "failed", "apart"} \subseteq Steps
  BY <1>m DEF Movers, Steps
<1>a. NoFault => faults' \in 0..MaxFaults
  BY DEF NoFault, Types
<1>b. Fault => faults' \in 0..MaxFaults
  BY MoveBoundsAssumption DEF Fault, Types
<1> HIDE DEF Fault
<1> USE DEF Types, tables, tasks, agents, history
<1>1. CASE MoverSteps
  <2>1. CASE Begin
    <3>1. mover' \in Movers
      <4>1. CASE Ends("apart")
        BY <4>1, <1>m, EndsIs
      <4>2. CASE mover' = [mover EXCEPT !.pc = "abandon", !.from = mv.from, !.to = mv.to,
                                        !.ran = mv.ran, !.then = "begin"]
        BY <4>2, <1>m DEF Movers, Rows, Steps
      <4>3. CASE mover' = [mover EXCEPT !.pc = "ask", !.from = mv.from, !.to = mv.to,
                                        !.ran = mv.ran, !.resume = TRUE]
        BY <4>3, <1>m DEF Movers, Rows, Steps
      <4>4. CASE mover' = [mover EXCEPT !.pc = "ask", !.from = record, !.to = home,
                                        !.resume = FALSE]
        BY <4>4, <1>m DEF Movers, Steps, Somewhere
      <4>. QED
        BY <2>1, <4>1, <4>2, <4>3, <4>4 DEF Begin
    <3>. QED
      BY <2>1, <3>1, <1>a DEF Begin
  <2>2. CASE AskFound
    BY <2>2, <1>m, <1>a, AskFoundIs DEF AskFound
  <2>3. CASE AskGone
    <3>1. mover' \in Movers
      <4>1. CASE Ends("apart")
        BY <4>1, <1>m, EndsIs
      <4>2. CASE mover' = [mover EXCEPT !.pc = "leaveTo", !.then = "begin"]
        BY <4>2, <1>m DEF Movers
      <4>. QED
        BY <2>3, <4>1, <4>2 DEF AskGone
    <3>2. record' \in Somewhere
      BY <2>3 DEF AskGone, Somewhere
    <3>3. mv' \in Rows /\ left' \in [Machine -> {"none", "here", "gone"}]
      BY <2>3, <1>i DEF AskGone
    <3>. QED
      BY <2>3, <3>1, <3>2, <3>3, <1>a DEF AskGone
  <2>4. CASE There
    BY <2>4, <1>a, <1>m, GoIs DEF There, Whole
  <2>5. CASE WaitAgain
    BY <2>5, <1>a, <1>m, GoIs DEF WaitAgain
  <2>6. CASE DeleteOld
    BY <2>6, <1>a, <1>m, <1>i, GoIs, AbandonIs DEF DeleteOld
  <2>7. CASE StopFrom
    BY <2>7, <1>a, <1>m, GoIs, StoppedIs DEF StopFrom
  <2>8. CASE CopyFolder
    <3>1. CASE Abandon
      BY <2>8, <3>1, <1>a, <1>m, AbandonIs DEF CopyFolder
    <3>2. CASE mover' = [mover EXCEPT !.pc = "moveIn", !.world = copy[mover.from].world]
      <4>1. mover.from \in Machine
        BY <2>8 DEF CopyFolder, MoverInv, InMove, AsTheRow, Distinct, At
      <4>2. copy[mover.from].world \in 0..MaxWorld
        BY <4>1, <1>m DEF Copy
      <4>3. mover' \in Movers
        BY <3>2, <4>2, <1>m DEF Movers, Steps
      <4>. QED
        BY <2>8, <4>3, <1>a DEF CopyFolder
    <3>. QED
      BY <2>8, <3>1, <3>2 DEF CopyFolder
  <2>9. CASE MoveIn
    <3>1. mover' \in Movers
      BY <2>9, <1>m, GoIs DEF MoveIn
    <3>2. copy' \in [Machine -> Copy]
      BY <2>9, <1>m, TakenIs DEF MoveIn
    <3>3. mv' \in Rows
      BY <2>9, <1>m DEF MoveIn, Rows
    <3>. QED
      BY <2>9, <3>1, <3>2, <3>3, <1>a DEF MoveIn
  <2>10. CASE NameMade
    <3>1. mover' \in Movers
      BY <2>10, <1>m, GoIs DEF NameMade
    <3>2. mv' \in Rows
      BY <2>10, <1>m DEF NameMade, Rows
    <3>. QED
      BY <2>10, <3>1, <3>2, <1>a DEF NameMade
  <2>11. CASE Wait
    BY <2>11, <1>a, <1>m, GoIs, AbandonIs DEF Wait
  <2>12. CASE CopyState
    BY <2>12, <1>a, <1>m, GoIs DEF CopyState
  <2>13. CASE SendLimits
    BY <2>13, <1>a, <1>m, GoIs DEF SendLimits
  <2>14. CASE SwitchServer
    <3>1. mover' \in Movers
      BY <2>14, <1>m, GoIs DEF SwitchServer
    <3>2. record' \in Somewhere /\ disputed' \in Somewhere /\ restart' \in Somewhere
      BY <2>14, <1>m DEF SwitchServer, Movers, Somewhere
    <3>3. left' \in [Machine -> {"none", "here", "gone"}]
      BY <2>14 DEF SwitchServer
    <3>4. listing' \in Listings
      BY <2>14 DEF SwitchServer, Listings
    <3>. QED
      BY <2>14, <3>1, <3>2, <3>3, <3>4, <1>i, <1>a DEF SwitchServer
  <2>15. CASE HeldStop
    BY <2>15, <1>a, <1>m, GoIs, StoppedIs DEF HeldStop
  <2>16. CASE LeaveFrom
    <3>1. mover' \in Movers
      BY <2>16, <1>m, EndsIs DEF LeaveFrom, LeaveStep
    <3>2. /\ copy' \in [Machine -> Copy] /\ listing' \in Listings
          /\ left' \in [Machine -> {"none", "here", "gone"}]
      BY <2>16, LeaveCopyIs DEF LeaveFrom, LeaveStep
    <3>. QED
      BY <2>16, <3>1, <3>2, <1>a DEF LeaveFrom, LeaveStep
  <2>17. CASE EndMove
    BY <2>17, <1>a, <1>m, <1>i, GoIs DEF EndMove
  <2>18. CASE StartAgain
    <3>1. copy' \in [Machine -> Copy] /\ restart' \in Somewhere
      BY <2>18, <1>m, StartedIs DEF StartAgain, Starts, Somewhere, Movers
    <3>2. mover' \in Movers
      BY <2>18, <1>m, GoIs DEF StartAgain
    <3>3. wants' \in BOOLEAN /\ faults' \in 0..MaxFaults
      BY <2>18, <1>a, <1>b DEF StartAgain, Starts
    <3>. QED
      BY <2>18, <3>1, <3>2, <3>3 DEF StartAgain
  <2>19. CASE LeaveTo
    <3>1. mover' \in Movers
      BY <2>19, <1>m, <1>t, EndsIs DEF LeaveTo, LeaveStep
    <3>2. /\ copy' \in [Machine -> Copy] /\ listing' \in Listings
          /\ left' \in [Machine -> {"none", "here", "gone"}]
      BY <2>19, LeaveCopyIs DEF LeaveTo, LeaveStep
    <3>. QED
      BY <2>19, <3>1, <3>2, <1>a DEF LeaveTo, LeaveStep
  <2>20. CASE LookApart
    <3>1. mover' \in Movers
      <4>1. CASE Go("done") \/ Go("failed")
        BY <4>1, <1>m, GoIs
      <4>2. CASE /\ mover.pass < 2
                 /\ mover' = [Idle EXCEPT !.pc = "begin", !.pass = mover.pass + 1]
        <5>1. mover.pass \in 0..2
          BY <1>m DEF Movers
        <5>2. mover.pass + 1 \in 0..2
          BY <4>2, <5>1
        <5>. QED
          BY <4>2, <5>2, <1>i DEF Movers, Steps
      <4>. QED
        BY <2>20, <4>1, <4>2 DEF LookApart
    <3>. QED
      BY <2>20, <3>1, <1>a DEF LookApart
  <2>21. CASE MoveDone
    BY <2>21, <1>a, <1>m, <1>i DEF MoveDone
  <2>22. CASE MoveFailed
    BY <2>22, <1>a, <1>m, <1>i DEF MoveFailed
  <2>23. CASE WriteRow
    BY <2>23, <1>m, <1>a, WriteRowIs DEF WriteRow
  <2>. QED
    BY <1>1, <2>1, <2>2, <2>3, <2>4, <2>5, <2>6, <2>7, <2>8, <2>9, <2>10, <2>11,
       <2>12, <2>13, <2>14, <2>15, <2>16, <2>17, <2>18, <2>19, <2>20, <2>21,
       <2>22, <2>23 DEF MoverSteps
<1>2. ASSUME NEW m \in Machine, StartMove(m) PROVE Types'
  <2>1. mover' \in Movers
    BY <1>2, <1>i DEF StartMove, Movers, Steps
  <2>2. moves' \in 0..MaxMoves
    BY <1>2, MoveBoundsAssumption DEF StartMove
  <2>. QED
    BY <1>2, <2>1, <2>2, <1>a DEF StartMove
<1>3. ASSUME NEW m \in Machine, List(m) PROVE Types'
  <2>1. listing' \in Listings
    <3>1. (copy[m].st # "none") \in BOOLEAN /\ m \in Somewhere
      BY DEF Somewhere
    <3>. QED
      BY <1>3, <3>1, <1>i DEF List, Listings
  <2>. QED
    BY <1>3, <2>1, <1>a DEF List
<1>4. ASSUME NEW m \in Machine, SyncReads(m) PROVE Types'
  <2>1. sync' \in Syncs
    <3>1. (copy[m].st # "none" /\ ~HiddenNow(m)) \in BOOLEAN /\ m \in Somewhere
      BY DEF Somewhere
    <3>. QED
      BY <1>4, <3>1, <1>i DEF SyncReads, Syncs
  <2>. QED
    BY <1>4, <2>1, <1>a DEF SyncReads
<1>5. ASSUME NEW m \in Machine, Leftover(m) PROVE Types'
  <2>1. /\ copy' \in [Machine -> Copy] /\ listing' \in Listings
        /\ left' \in [Machine -> {"none", "here", "gone"}]
    BY <1>5, LeaveCopyIs DEF Leftover
  <2>. QED
    BY <1>5, <2>1, <1>a DEF Leftover
<1>6. ASSUME NEW m \in Machine, MoveInEnds(m) PROVE Types'
  <2>1. copy' \in [Machine -> Copy]
    BY <1>6, <1>m DEF MoveInEnds, Copy, Whole
  <2>. QED
    BY <1>6, <2>1, <1>a DEF MoveInEnds
<1>7. ASSUME NEW m \in Machine, MoveInFails(m) PROVE Types'
  <2>1. copy' \in [Machine -> Copy]
    BY <1>7, <1>m DEF MoveInFails, Copy, Whole
  <2>. QED
    BY <1>7, <2>1, <1>b DEF MoveInFails
<1>8. CASE ResumeMove
  <2>1. mover' \in Movers
    BY <1>8, <1>i DEF ResumeMove, Movers, Steps
  <2>. QED
    BY <1>8, <2>1, <1>a DEF ResumeMove
<1>9. CASE StartAgainFails
  <2>1. copy' \in [Machine -> Copy] /\ restart' \in Somewhere
    BY <1>9, <1>m, StartedIs DEF StartAgainFails, Somewhere, Movers
  <2>2. mover' \in Movers
    BY <1>9, <1>m, GoIs DEF StartAgainFails
  <2>. QED
    BY <1>9, <2>1, <2>2, <1>b DEF StartAgainFails
<1>10. CASE StepFails
  <2>1. mover' \in Movers
    <3>1. CASE Abandon
      BY <3>1, <1>m, AbandonIs
    <3>2. CASE \E pc \in Steps : Go(pc)
      BY <3>2, <1>m, GoIs
    <3>3. CASE \E pc \in Steps : Ends(pc)
      BY <3>3, <1>m, EndsIs
    <3>. QED
      BY <1>10, <3>1, <3>2, <3>3, <1>m, <1>t DEF StepFails
  <2>2. copy' \in [Machine -> Copy]
    BY <1>10, <1>m, StoppedIs, TakenIs DEF StepFails
  <2>3. limit' = limit
    BY <1>10 DEF StepFails
  <2>. QED
    BY <1>10, <2>1, <2>2, <2>3, <1>b DEF StepFails
<1>11. CASE RetryLooks
  BY <1>11, <1>a DEF RetryLooks, Somewhere
<1>12. CASE RetryStarts
  <2>1. copy' \in [Machine -> Copy] /\ restart' \in Somewhere /\ retry' \in Somewhere
    BY <1>12, <1>m, StartedIs DEF RetryStarts, Starts, Somewhere
  <2>2. wants' \in BOOLEAN /\ faults' \in 0..MaxFaults
    BY <1>12, <1>a, <1>b DEF RetryStarts, Starts
  <2>. QED
    BY <1>12, <2>1, <2>2 DEF RetryStarts
<1>13. CASE RetryFails
  BY <1>13, <1>a DEF RetryFails, Somewhere
<1>14. CASE PauseMarks
  BY <1>14, <1>a, <1>m DEF PauseMarks
<1>15. CASE PauseLooks
  <2>1. pausing' \in Machine
    BY <1>15 DEF PauseLooks, Somewhere
  <2>. QED
    BY <1>15, <2>1, <1>a DEF PauseLooks
<1>16. CASE PauseStops
  BY <1>16, <1>a, <1>b, <1>m, StoppedIs DEF PauseStops
<1>17. CASE Renew
  BY <1>17, <1>a, <1>m DEF Renew
<1>18. ASSUME NEW on \in BOOLEAN, UserRuns(on) PROVE Types'
  <2>1. record \in Machine
    BY <1>18 DEF UserRuns, Reached, Somewhere
  <2>2. copy' \in [Machine -> Copy]
    BY <1>18, <2>1, <1>m DEF UserRuns, Copy, Whole
  <2>. QED
    BY <1>18, <2>2, <1>a DEF UserRuns, Somewhere
<1>19. CASE UserDeletes
  BY <1>19, <1>a, <1>m, <1>i DEF UserDeletes
<1>20. CASE Play
  <2>1. newest + 1 \in 0..MaxWorld
    BY <1>20, MoveBoundsAssumption DEF Play
  <2>2. copy' \in [Machine -> Copy]
    BY <1>20, <2>1, <1>m DEF Play, Copy
  <2>. QED
    BY <1>20, <2>1, <2>2, <1>a DEF Play
<1>21. CASE Claim
  <2>1. listing.on \in Somewhere
    BY DEF Listings
  <2>2. record' \in Somewhere /\ disputed' \in Somewhere
    BY <1>21, <2>1 DEF Claim, Somewhere
  <2>3. left' \in [Machine -> {"none", "here", "gone"}]
    BY <1>21 DEF Claim
  <2>. QED
    BY <1>21, <2>2, <2>3, <1>i, <1>a DEF Claim
<1>22. CASE SyncSends
  <2>1. limit' \in [Machine -> BOOLEAN]
    BY <1>22 DEF SyncSends, Syncs
  <2>. QED
    BY <1>22, <2>1, <1>i, <1>a DEF SyncSends
<1>23. CASE Restart
  BY <1>23, <1>b, <1>i DEF Restart, Somewhere
<1>24. CASE UNCHANGED vars
  BY <1>24, <1>a, <1>m DEF vars
<1>. QED
  BY <1>1, <1>2, <1>3, <1>4, <1>5, <1>6, <1>7, <1>8, <1>9, <1>10, <1>11, <1>12,
     <1>13, <1>14, <1>15, <1>16, <1>17, <1>18, <1>19, <1>20, <1>21, <1>22,
     <1>23, <1>24 DEF Next

LEMMA MoverInit == Init => MoverInv
  BY DEF Init, MoverInv, Idle, NoMove, Moving, At, InMove, Over

LEMMA MoverStep == Types /\ MoverInv /\ [Next]_vars => MoverInv'
<1> SUFFICES ASSUME Types, MoverInv, [Next]_vars PROVE MoverInv'
  OBVIOUS
<1> USE DEF At
<1>m. /\ mover \in Movers /\ mv \in Rows /\ InMove \cup Over \subseteq Steps
      /\ mover.then \in {"begin", "failed"}
  BY DEF Types, Steps, InMove, Over, Movers
<1>u. UNCHANGED <<mover, mv>> => MoverInv'
  BY DEF MoverInv, AsTheRow, Distinct, Moving
<1>r. mover' = Idle /\ UNCHANGED mv => MoverInv'
  BY DEF MoverInv, AsTheRow, Distinct, Moving, Idle, InMove, Over
<1>e. ASSUME NEW pc \in {"begin", "apart", "failed"}, Ends(pc), UNCHANGED mv,
             pc # "begin" => ~Moving
      PROVE  MoverInv'
  <2>1. mover'.pc = pc
    BY <1>e, <1>m, EndsIs DEF Steps
  <2>. QED
    BY <2>1, <1>e DEF MoverInv, AsTheRow, Distinct, Moving, InMove, Over
<1>g. ASSUME NEW pc \in InMove \ {"waitAgain", "abandon"}, Go(pc), UNCHANGED mv,
             mover.pc \in InMove
      PROVE  MoverInv'
  <2>1. /\ mover'.pc = pc /\ mover'.from = mover.from /\ mover'.to = mover.to
        /\ mover'.ran = mover.ran
    BY <1>g, <1>m, GoIs
  <2>. QED
    BY <2>1, <1>g DEF MoverInv, AsTheRow, Distinct, Moving, InMove, Over
<1>b. ASSUME Abandon, UNCHANGED mv, mover.pc \in InMove \/ (At("ask") /\ Moving)
      PROVE  MoverInv'
  <2>1. /\ mover'.pc = "abandon" /\ mover'.from = mover.from /\ mover'.to = mover.to
        /\ mover'.ran = mover.ran
    BY <1>b, <1>m, AbandonIs
  <2>. QED
    BY <2>1, <1>b DEF MoverInv, AsTheRow, Distinct, Moving, InMove, Over
<1>o. ASSUME NEW pc \in {"leaveFrom", "leaveTo", "done", "failed"}, Go(pc), ~Moving',
             pc \in {"done", "failed"} \/ mover.pc \in {"heldStop", "abStart"}
      PROVE  MoverInv'
  <2>1. mover'.pc = pc /\ mover'.from = mover.from /\ mover'.to = mover.to
    BY <1>o, <1>m, GoIs DEF Over
  <2>. QED
    BY <2>1, <1>o DEF MoverInv, AsTheRow, Distinct, Moving, InMove, Over
<1> USE DEF tables, tasks, agents, history
<1>1. CASE MoverSteps
  <2>1. CASE Begin
    <3>1. CASE Ends("apart")
      BY <2>1, <3>1, <1>e DEF Begin, MoverInv, InMove, Over, Ends
    <3>2. CASE Moving /\ mover'.pc = "abandon"
      <4>1. mover'.from = mv.from /\ mover'.to = mv.to /\ mover'.ran = mv.ran /\ mv' = mv
        BY <2>1, <3>2, <1>m DEF Begin, Ends, Movers, Idle
      <4>. QED
        BY <3>2, <4>1 DEF MoverInv, AsTheRow, Distinct, Moving, InMove, Over
    <3>3. CASE Moving /\ mover'.pc = "ask"
      <4>1. mover'.from = mv.from /\ mover'.to = mv.to /\ mover'.ran = mv.ran /\ mv' = mv
        BY <2>1, <3>3, <1>m DEF Begin, Ends, Movers, Idle
      <4>. QED
        BY <3>3, <4>1 DEF MoverInv, AsTheRow, Distinct, Moving, InMove, Over
    <3>4. CASE ~Moving /\ mover'.pc = "ask"
      <4>1. mover'.from = record /\ mover'.to = home /\ mv' = mv /\ Apart
        BY <2>1, <3>4, <1>m DEF Begin, Ends, Movers, Idle
      <4>2. Distinct(record, home)
        BY <4>1 DEF Distinct, Apart, Types, Somewhere
      <4>. QED
        BY <3>4, <4>1, <4>2 DEF MoverInv, AsTheRow, Distinct, Moving, InMove, Over
    <3>. QED
      <4>1. mover' = [mover EXCEPT !.pc = "abandon", !.from = mv.from, !.to = mv.to,
                                   !.ran = mv.ran, !.then = "begin"] => mover'.pc = "abandon"
        BY <1>m DEF Movers
      <4>2. mover' = [mover EXCEPT !.pc = "ask", !.from = mv.from, !.to = mv.to,
                                   !.ran = mv.ran, !.resume = TRUE] => mover'.pc = "ask"
        BY <1>m DEF Movers
      <4>3. mover' = [mover EXCEPT !.pc = "ask", !.from = record, !.to = home,
                                   !.resume = FALSE] => mover'.pc = "ask"
        BY <1>m DEF Movers
      <4>. QED
        BY <2>1, <3>1, <3>2, <3>3, <3>4, <4>1, <4>2, <4>3 DEF Begin
  <2>2. CASE AskFound
    <3>1. Distinct(mover.from, mover.to) /\ (Moving => AsTheRow) /\ mv' = mv
      BY <2>2 DEF AskFound, MoverInv
    <3>. QED
      BY <2>2, <3>1, <1>m, AskFoundIs DEF MoverInv, AsTheRow, Distinct, InMove, Over, Moving
  <2>3. CASE AskGone
    <3>1. CASE Moving
      <4>1. /\ mover'.pc = "leaveTo" /\ ~Moving'
            /\ mover'.from = mover.from /\ mover'.to = mover.to
        BY <2>3, <3>1, <1>m DEF AskGone, Movers, Moving
      <4>. QED
        BY <2>3, <4>1 DEF AskGone, MoverInv, AsTheRow, Distinct, InMove, Over
    <3>2. CASE ~Moving
      BY <2>3, <3>2, <1>e DEF AskGone
    <3>. QED
      BY <3>1, <3>2
  <2>4. CASE There
    <3>1. CASE Go("waitAgain")
      <4>1. /\ mover'.pc = "waitAgain" /\ mover'.from = mover.from /\ mover'.to = mover.to
            /\ mover'.ran = mover.ran
        BY <3>1, <1>m, GoIs DEF InMove
      <4>2. mv.made /\ mv' = mv
        <5>1. CASE mv.made
          BY <2>4, <5>1 DEF There
        <5>2. CASE ~mv.made
          BY <2>4, <3>1, <4>1, <5>2, <1>m, GoIs DEF There, InMove
        <5>. QED
          BY <5>1, <5>2
      <4>. QED
        BY <2>4, <4>1, <4>2 DEF There, MoverInv, AsTheRow, Distinct, Moving, InMove, Over
    <3>2. CASE Go("stop") \/ Go("state") \/ Go("deleteOld")
      BY <2>4, <3>2, <1>g DEF There, InMove
    <3>. QED
      BY <2>4, <3>1, <3>2 DEF There
  <2>5. CASE WaitAgain
    BY <2>5, <1>g DEF WaitAgain, InMove
  <2>6. CASE DeleteOld
    BY <2>6, <1>g, <1>b DEF DeleteOld, InMove
  <2>7. CASE StopFrom
    BY <2>7, <1>g DEF StopFrom, InMove
  <2>8. CASE CopyFolder
    <3>1. CASE Abandon
      BY <2>8, <3>1, <1>b DEF CopyFolder, InMove
    <3>2. CASE mover' = [mover EXCEPT !.pc = "moveIn", !.world = copy[mover.from].world]
      <4>1. /\ mover'.pc = "moveIn" /\ mover'.from = mover.from /\ mover'.to = mover.to
            /\ mover'.ran = mover.ran
        BY <3>2, <1>m DEF Movers
      <4>. QED
        BY <2>8, <4>1 DEF CopyFolder, MoverInv, AsTheRow, Distinct, Moving, InMove, Over
    <3>. QED
      BY <2>8, <3>1, <3>2 DEF CopyFolder
  <2>9. CASE MoveIn
    <3>1. /\ mover'.pc = "made" /\ mover'.from = mover.from /\ mover'.to = mover.to
          /\ mover'.ran = mover.ran
      BY <2>9, <1>m, GoIs DEF MoveIn, InMove
    <3>2. mv'.from = mv.from /\ mv'.to = mv.to /\ mv'.ran = mv.ran
      BY <2>9, <1>m DEF MoveIn, Rows
    <3>3. Moving /\ AsTheRow /\ Distinct(mv.from, mv.to)
      BY <2>9 DEF MoveIn, MoverInv, InMove
    <3>4. Moving'
      BY <3>2, <3>3, MachineAssumption DEF Moving, NoMove, Distinct
    <3>. QED
      BY <3>1, <3>2, <3>3, <3>4 DEF MoverInv, AsTheRow, Distinct, InMove, Over
  <2>10. CASE NameMade
    <3>1. /\ mover'.pc = "wait" /\ mover'.from = mover.from /\ mover'.to = mover.to
          /\ mover'.ran = mover.ran
      BY <2>10, <1>m, GoIs DEF NameMade, InMove
    <3>2. mv'.from = mv.from /\ mv'.to = mv.to /\ mv'.ran = mv.ran
      BY <2>10, <1>m DEF NameMade, Rows
    <3>3. Moving /\ AsTheRow /\ Distinct(mv.from, mv.to)
      BY <2>10 DEF NameMade, MoverInv, InMove
    <3>4. Moving'
      BY <3>2, <3>3, MachineAssumption DEF Moving, NoMove, Distinct
    <3>. QED
      BY <3>1, <3>2, <3>3, <3>4 DEF MoverInv, AsTheRow, Distinct, InMove, Over
  <2>11. CASE Wait
    BY <2>11, <1>g, <1>b DEF Wait, InMove
  <2>12. CASE CopyState
    BY <2>12, <1>g DEF CopyState, InMove
  <2>13. CASE SendLimits
    BY <2>13, <1>g DEF SendLimits, InMove
  <2>14. CASE SwitchServer
    <3>1. mover'.pc = "heldStop" /\ mover'.from = mover.from /\ mover'.to = mover.to
      BY <2>14, <1>m, GoIs DEF SwitchServer, Over
    <3>2. ~Moving' /\ Distinct(mover.from, mover.to)
      BY <2>14 DEF SwitchServer, MoverInv, InMove, Moving, AsTheRow
    <3>. QED
      BY <3>1, <3>2 DEF MoverInv, AsTheRow, Distinct, InMove, Over
  <2>15. CASE HeldStop
    BY <2>15, <1>o DEF HeldStop, MoverInv, Over, Moving
  <2>16. CASE LeaveFrom
    BY <2>16, <1>e, <1>m DEF LeaveFrom, LeaveStep, MoverInv, Over, Moving
  <2>17. CASE EndMove
    <3>1. mover'.pc = "abStart" /\ mover'.from = mover.from /\ mover'.to = mover.to
      BY <2>17, <1>m, GoIs DEF EndMove, Over
    <3>2. ~Moving' /\ Distinct(mover.from, mover.to)
      BY <2>17 DEF EndMove, Moving, MoverInv, InMove, AsTheRow, Distinct
    <3>. QED
      BY <3>1, <3>2 DEF MoverInv, AsTheRow, Distinct, InMove, Over
  <2>18. CASE StartAgain
    BY <2>18, <1>o DEF StartAgain, Starts, MoverInv, Over, Moving
  <2>19. CASE LeaveTo
    BY <2>19, <1>e, <1>m DEF LeaveTo, LeaveStep, MoverInv, Over, Moving
  <2>20. CASE LookApart
    <3>1. CASE mover' = [Idle EXCEPT !.pc = "begin", !.pass = mover.pass + 1]
      <4>1. mover'.pc = "begin" /\ mv' = mv
        BY <2>20, <3>1 DEF LookApart, Idle
      <4>. QED
        BY <4>1 DEF MoverInv, AsTheRow, Distinct, Moving, InMove, Over
    <3>2. CASE Go("done") \/ Go("failed")
      BY <2>20, <3>2, <1>o DEF LookApart, MoverInv, Over, Moving
    <3>. QED
      BY <2>20, <3>1, <3>2 DEF LookApart
  <2>21. CASE MoveDone
    BY <2>21, <1>r DEF MoveDone
  <2>22. CASE MoveFailed
    BY <2>22, <1>r DEF MoveFailed
  <2>23. CASE WriteRow
    <3>1. Distinct(mover.from, mover.to)
      BY <2>23 DEF WriteRow, MoverInv
    <3>2. Moving'
      BY <2>23, <3>1, <1>m, WriteRowIs, MachineAssumption DEF Moving, NoMove, Distinct
    <3>. QED
      BY <2>23, <3>1, <3>2, <1>m, WriteRowIs DEF MoverInv, AsTheRow, Distinct, InMove, Over
  <2>. QED
    BY <1>1, <2>1, <2>2, <2>3, <2>4, <2>5, <2>6, <2>7, <2>8, <2>9, <2>10, <2>11,
       <2>12, <2>13, <2>14, <2>15, <2>16, <2>17, <2>18, <2>19, <2>20, <2>21,
       <2>22, <2>23 DEF MoverSteps
<1>2. ASSUME NEW m \in Machine, StartMove(m) PROVE MoverInv'
  <2>1. mover'.pc = "begin" /\ mv' = mv
    BY <1>2 DEF StartMove, Idle
  <2>. QED
    BY <2>1 DEF MoverInv, AsTheRow, Distinct, Moving, InMove, Over
<1>3. ASSUME NEW m \in Machine, List(m) PROVE MoverInv'
  BY <1>3, <1>u DEF List
<1>4. ASSUME NEW m \in Machine, SyncReads(m) PROVE MoverInv'
  BY <1>4, <1>u DEF SyncReads
<1>5. ASSUME NEW m \in Machine, Leftover(m) PROVE MoverInv'
  BY <1>5, <1>u DEF Leftover
<1>6. ASSUME NEW m \in Machine, MoveInEnds(m) PROVE MoverInv'
  BY <1>6, <1>u DEF MoveInEnds
<1>7. ASSUME NEW m \in Machine, MoveInFails(m) PROVE MoverInv'
  BY <1>7, <1>u DEF MoveInFails
<1>8. CASE ResumeMove
  <2>1. mover'.pc = "begin" /\ mv' = mv
    BY <1>8 DEF ResumeMove, Idle
  <2>. QED
    BY <2>1 DEF MoverInv, AsTheRow, Distinct, Moving, InMove, Over
<1>9. CASE StartAgainFails
  BY <1>9, <1>o DEF StartAgainFails, MoverInv, Over, Moving
<1>10. CASE StepFails
  <2>1. mv' = mv
    BY <1>10 DEF StepFails
  <2>2. CASE mover.pc \in {"ask", "row"} /\ IF Moving THEN Abandon ELSE Go("failed")
    <3>1. CASE Moving
      BY <2>1, <2>2, <3>1, <1>b DEF MoverInv
    <3>2. CASE ~Moving
      BY <2>1, <2>2, <3>2, <1>o DEF Moving
    <3>. QED
      BY <3>1, <3>2
  <2>3. CASE Abandon /\ mover.pc \in InMove
    BY <2>1, <2>3, <1>b
  <2>4. CASE At("waitAgain") /\ Go("deleteOld")
    BY <2>1, <2>4, <1>g DEF InMove
  <2>5. CASE /\ mover.pc \in {"leaveFrom", "leaveTo"}
             /\ Ends(IF At("leaveFrom") THEN "apart" ELSE mover.then)
    BY <2>1, <2>5, <1>e, <1>m DEF MoverInv, Over
  <2>6. CASE At("heldStop") /\ Go("leaveFrom")
    BY <2>1, <2>6, <1>o DEF MoverInv, Over, Moving
  <2>. QED
    BY <1>10, <2>2, <2>3, <2>4, <2>5, <2>6 DEF StepFails, InMove
<1>11. CASE RetryLooks
  BY <1>11, <1>u DEF RetryLooks
<1>12. CASE RetryStarts
  BY <1>12, <1>u DEF RetryStarts, Starts
<1>13. CASE RetryFails
  BY <1>13, <1>u DEF RetryFails
<1>14. CASE PauseMarks
  BY <1>14, <1>u DEF PauseMarks
<1>15. CASE PauseLooks
  BY <1>15, <1>u DEF PauseLooks
<1>16. CASE PauseStops
  BY <1>16, <1>u DEF PauseStops
<1>17. CASE Renew
  BY <1>17, <1>u DEF Renew
<1>18. ASSUME NEW on \in BOOLEAN, UserRuns(on) PROVE MoverInv'
  BY <1>18, <1>u DEF UserRuns
<1>19. CASE UserDeletes
  BY <1>19, <1>u DEF UserDeletes
<1>20. CASE Play
  BY <1>20, <1>u DEF Play
<1>21. CASE Claim
  BY <1>21, <1>u DEF Claim
<1>22. CASE SyncSends
  BY <1>22, <1>u DEF SyncSends
<1>23. CASE Restart
  BY <1>23, <1>r DEF Restart
<1>24. CASE UNCHANGED vars
  BY <1>24, <1>u DEF vars
<1>. QED
  BY <1>1, <1>2, <1>3, <1>4, <1>5, <1>6, <1>7, <1>8, <1>9, <1>10, <1>11, <1>12,
     <1>13, <1>14, <1>15, <1>16, <1>17, <1>18, <1>19, <1>20, <1>21, <1>22,
     <1>23, <1>24 DEF Next

-----------------------------------------------------------------------------
(* Where the server is                                                     *)

(* Until its customer deletes it, the move's row and the mover agree with  *)
(* its record on where it comes from, ...                                  *)
Located ==
    /\ record \in Machine /\ disputed = None
    /\ Moving => mv.from = record
    /\ mover.pc \in {"ask", "row"} => mover.from = record
    /\ At("heldStop") => mover.to = record
    /\ At("abStart") => mover.from = record

(* ... the machine of its record has it, and so has the one its requests   *)
(* are about to go to, ...                                                 *)
Switching == {"state", "limits", "switch"}
HasIt ==
    /\ copy[record].st \in Whole /\ left[record] = "none"
    /\ mover.pc \in Switching => copy[mv.to].st \in Whole

(* ... and no listing on its way says otherwise: what it shows elsewhere   *)
(* is hidden.                                                              *)
Listed ==
    listing # NoListing =>
      /\ listing.on \in Machine
      /\ listing.has => listing.on = record \/ Hidden(listing.on)
      /\ listing.on = record => listing.has \/ listing.old

PlaceInv == ~deleted => Located /\ HasIt /\ CopiesKnown /\ Listed

LEMMA PlaceInit == Init => PlaceInv
<1> SUFFICES ASSUME Init PROVE Located /\ HasIt /\ CopiesKnown /\ Listed
  BY DEF PlaceInv
<1>1. Located
  BY MachineAssumption DEF Init, Located, At, Idle, Moving
<1>2. HasIt
  BY DEF Init, HasIt, Idle, Switching, Whole, NoCopy
<1>3. CopiesKnown
  BY DEF Init, CopiesKnown, NoCopy
<1>. QED
  BY <1>1, <1>2, <1>3 DEF Init, Listed

(* The machine it comes from still has it when it is asked. *)
LEMMA NeverGone ==
    ASSUME Located, HasIt PROVE ~AskGone
  BY DEF AskGone, Located, HasIt, Whole, At

(* What hides a copy hides none on the machine of its record. *)
LEMMA InTheOpen ==
    ASSUME MoverInv, Located, HasIt PROVE ~Hidden(record)
<1>1. mv.to # record
  BY MachineAssumption DEF MoverInv, Located, Moving, NoMove, Distinct
<1>. QED
  BY <1>1 DEF Hidden, HiddenNow, HasIt

(* No listing moves its record, or disputes it. *)
LEMMA ClaimKeeps ==
    ASSUME MoverInv, Located, HasIt, Listed, Claim
    PROVE  record' = record /\ disputed' = disputed
<1>1. /\ listing.has => listing.on = record \/ Hidden(listing.on)
      /\ listing.on = record => listing.has \/ listing.old
  BY DEF Claim, Listed
<1>2. record # None /\ disputed = None
  BY MachineAssumption DEF Located
<1>. QED
  BY <1>1, <1>2, InTheOpen DEF Claim

LEMMA LocatedStep ==
    ASSUME Types, MoverInv, Located, HasIt, Listed, [Next]_vars PROVE Located'
<1> USE DEF At
<1>m. /\ mover \in Movers /\ mv \in Rows
      /\ InMove \cup Over \cup {"ask", "begin"} \subseteq Steps
      /\ mover.then \in {"begin", "failed"}
  BY DEF Types, Steps, InMove, Over, Movers
<1>u. UNCHANGED <<record, disputed, mv, mover>> => Located'
  BY DEF Located, Moving
<1>k. /\ UNCHANGED <<record, disputed, mv>> /\ mover'.pc \notin {"ask", "row", "heldStop", "abStart"}
      => Located'
  BY DEF Located, Moving
<1>g. ASSUME NEW pc \in (InMove \cup Over) \ {"heldStop", "abStart"}, Go(pc),
             UNCHANGED <<record, disputed, mv>>
      PROVE  Located'
  BY <1>g, <1>k, <1>m, GoIs DEF InMove, Over
<1>e. ASSUME NEW pc \in {"begin", "apart", "failed"}, Ends(pc),
             UNCHANGED <<record, disputed, mv>>
      PROVE  Located'
  BY <1>e, <1>k, <1>m, EndsIs DEF Over
<1>b. Abandon /\ UNCHANGED <<record, disputed, mv>> => Located'
  BY <1>k, <1>m, AbandonIs
<1>i. mover' = Idle /\ UNCHANGED <<record, disputed, mv>> => Located'
  BY <1>k DEF Idle
<1> USE DEF tables, tasks, agents, history
<1>1. CASE MoverSteps
  <2>1. CASE Begin
    <3>1. UNCHANGED <<record, disputed, mv>>
      BY <2>1 DEF Begin
    <3>2. CASE Moving /\ mover'.pc = "ask" /\ mover'.from = mv.from
      BY <3>1, <3>2 DEF Located, Moving
    <3>3. CASE ~Moving /\ mover'.pc = "ask" /\ mover'.from = record
      BY <3>1, <3>3 DEF Located, Moving
    <3>4. CASE mover'.pc = "abandon"
      BY <3>1, <3>4, <1>k
    <3>5. CASE Ends("apart")
      BY <3>1, <3>5, <1>e
    <3>. QED
      BY <2>1, <3>2, <3>3, <3>4, <3>5, <1>m DEF Begin, Movers
  <2>2. CASE AskFound
    BY <2>2, <1>m, AskFoundIs DEF AskFound, Located, Moving
  <2>3. CASE AskGone
    BY <2>3, NeverGone
  <2>4. CASE There
    BY <2>4, <1>g DEF There, InMove, Over
  <2>5. CASE WaitAgain
    BY <2>5, <1>g DEF WaitAgain, InMove, Over
  <2>6. CASE DeleteOld
    BY <2>6, <1>g, <1>b DEF DeleteOld, InMove
  <2>7. CASE StopFrom
    BY <2>7, <1>g DEF StopFrom, InMove, Over
  <2>8. CASE CopyFolder
    <3>1. CASE mover' = [mover EXCEPT !.pc = "moveIn", !.world = copy[mover.from].world]
      <4>1. mover'.pc = "moveIn"
        BY <3>1, <1>m DEF Movers
      <4>. QED
        BY <2>8, <4>1, <1>k DEF CopyFolder
    <3>. QED
      BY <2>8, <3>1, <1>b DEF CopyFolder
  <2>9. CASE MoveIn
    <3>1. mover'.pc = "made" /\ UNCHANGED <<record, disputed>>
      BY <2>9, <1>m, GoIs DEF MoveIn, InMove
    <3>2. mv'.from = mv.from /\ Moving
      BY <2>9, <1>m DEF MoveIn, Rows, MoverInv, InMove
    <3>. QED
      BY <3>1, <3>2 DEF Located
  <2>10. CASE NameMade
    <3>1. mover'.pc = "wait" /\ UNCHANGED <<record, disputed>>
      BY <2>10, <1>m, GoIs DEF NameMade, InMove
    <3>2. mv'.from = mv.from /\ Moving
      BY <2>10, <1>m DEF NameMade, Rows, MoverInv, InMove
    <3>. QED
      BY <3>1, <3>2 DEF Located
  <2>11. CASE Wait
    BY <2>11, <1>g, <1>b DEF Wait, InMove
  <2>12. CASE CopyState
    BY <2>12, <1>g DEF CopyState, InMove, Over
  <2>13. CASE SendLimits
    BY <2>13, <1>g DEF SendLimits, InMove, Over
  <2>14. CASE SwitchServer
    <3>1. mover'.pc = "heldStop" /\ mover'.to = mover.to
      BY <2>14, <1>m, GoIs DEF SwitchServer, Over
    <3>2. mover.to \in Machine
      BY <2>14 DEF SwitchServer, MoverInv, InMove, AsTheRow, Distinct
    <3>3. record' = mover.to /\ disputed' = None /\ mv' = NoMove
      BY <2>14 DEF SwitchServer
    <3>. QED
      BY <3>1, <3>2, <3>3 DEF Located, Moving
  <2>15. CASE HeldStop
    BY <2>15, <1>g DEF HeldStop, InMove, Over
  <2>16. CASE LeaveFrom
    BY <2>16, <1>e, <1>m DEF LeaveFrom, LeaveStep
  <2>17. CASE EndMove
    <3>1. mover'.pc = "abStart" /\ mover'.from = mover.from
      BY <2>17, <1>m, GoIs DEF EndMove, Over
    <3>2. mover.from = mv.from /\ Moving /\ mv' = NoMove /\ UNCHANGED <<record, disputed>>
      BY <2>17 DEF EndMove, MoverInv, InMove, AsTheRow
    <3>. QED
      BY <3>1, <3>2 DEF Located, Moving
  <2>18. CASE StartAgain
    BY <2>18, <1>g DEF StartAgain, Starts, Over
  <2>19. CASE LeaveTo
    BY <2>19, <1>e, <1>m DEF LeaveTo, LeaveStep
  <2>20. CASE LookApart
    <3>1. CASE mover' = [Idle EXCEPT !.pc = "begin", !.pass = mover.pass + 1]
      <4>1. mover'.pc = "begin"
        BY <3>1 DEF Idle
      <4>. QED
        BY <2>20, <4>1, <1>k DEF LookApart
    <3>. QED
      BY <2>20, <3>1, <1>g DEF LookApart, Over
  <2>21. CASE MoveDone
    BY <2>21, <1>i DEF MoveDone
  <2>22. CASE MoveFailed
    BY <2>22, <1>i DEF MoveFailed
  <2>23. CASE WriteRow
    BY <2>23, <1>m, WriteRowIs DEF WriteRow, Located, Moving
  <2>. QED
    BY <1>1, <2>1, <2>2, <2>3, <2>4, <2>5, <2>6, <2>7, <2>8, <2>9, <2>10, <2>11,
       <2>12, <2>13, <2>14, <2>15, <2>16, <2>17, <2>18, <2>19, <2>20, <2>21,
       <2>22, <2>23 DEF MoverSteps
<1>2. ASSUME NEW m \in Machine, StartMove(m) PROVE Located'
  <2>1. mover'.pc = "begin"
    BY <1>2 DEF StartMove, Idle
  <2>. QED
    BY <1>2, <2>1, <1>k DEF StartMove
<1>3. ASSUME NEW m \in Machine, List(m) PROVE Located'
  BY <1>3, <1>u DEF List
<1>4. ASSUME NEW m \in Machine, SyncReads(m) PROVE Located'
  BY <1>4, <1>u DEF SyncReads
<1>5. ASSUME NEW m \in Machine, Leftover(m) PROVE Located'
  BY <1>5, <1>u DEF Leftover
<1>6. ASSUME NEW m \in Machine, MoveInEnds(m) PROVE Located'
  BY <1>6, <1>u DEF MoveInEnds
<1>7. ASSUME NEW m \in Machine, MoveInFails(m) PROVE Located'
  BY <1>7, <1>u DEF MoveInFails
<1>8. CASE ResumeMove
  <2>1. mover'.pc = "begin"
    BY <1>8 DEF ResumeMove, Idle
  <2>. QED
    BY <1>8, <2>1, <1>k DEF ResumeMove
<1>9. CASE StartAgainFails
  BY <1>9, <1>g DEF StartAgainFails, Over
<1>10. CASE StepFails
  <2>1. UNCHANGED <<record, disputed, mv>>
    BY <1>10 DEF StepFails
  <2>2. CASE Abandon
    BY <2>1, <2>2, <1>b
  <2>3. CASE Go("failed") \/ Go("deleteOld") \/ Go("leaveFrom")
    BY <2>1, <2>3, <1>g DEF InMove, Over
  <2>4. CASE Ends(IF At("leaveFrom") THEN "apart" ELSE mover.then)
    BY <2>1, <2>4, <1>e, <1>m
  <2>. QED
    BY <1>10, <2>2, <2>3, <2>4 DEF StepFails
<1>11. CASE RetryLooks
  BY <1>11, <1>u DEF RetryLooks
<1>12. CASE RetryStarts
  BY <1>12, <1>u DEF RetryStarts, Starts
<1>13. CASE RetryFails
  BY <1>13, <1>u DEF RetryFails
<1>14. CASE PauseMarks
  BY <1>14, <1>u DEF PauseMarks
<1>15. CASE PauseLooks
  BY <1>15, <1>u DEF PauseLooks
<1>16. CASE PauseStops
  BY <1>16, <1>u DEF PauseStops
<1>17. CASE Renew
  BY <1>17, <1>u DEF Renew
<1>18. ASSUME NEW on \in BOOLEAN, UserRuns(on) PROVE Located'
  BY <1>18, <1>u DEF UserRuns
<1>19. CASE UserDeletes
  BY <1>19, <1>u DEF UserDeletes
<1>20. CASE Play
  BY <1>20, <1>u DEF Play
<1>21. CASE Claim
  BY <1>21, <1>u, ClaimKeeps DEF Claim
<1>22. CASE SyncSends
  BY <1>22, <1>u DEF SyncSends
<1>23. CASE Restart
  BY <1>23, <1>i DEF Restart
<1>24. CASE UNCHANGED vars
  BY <1>24, <1>u DEF vars
<1>. QED
  BY <1>1, <1>2, <1>3, <1>4, <1>5, <1>6, <1>7, <1>8, <1>9, <1>10, <1>11, <1>12,
     <1>13, <1>14, <1>15, <1>16, <1>17, <1>18, <1>19, <1>20, <1>21, <1>22,
     <1>23, <1>24 DEF Next

(* Leaving a copy leaves the server, and what becomes the server.          *)
LEMMA LeaveKeeps ==
    ASSUME Types, NEW m, LeaveCopy(m), NEW n \in Machine, n = record \/ n = mv.to
    PROVE  copy'[n] = copy[n] /\ left'[n] \in {left[n], "none"}
  BY DEF LeaveCopy, Types

LEMMA HasItStep ==
    ASSUME Types, MoverInv, Located, HasIt, Listed, [Next]_vars, ~deleted'
    PROVE  HasIt'
<1> USE DEF At
<1>m. /\ mover \in Movers /\ mv \in Rows /\ copy \in [Machine -> Copy]
      /\ left \in [Machine -> {"none", "here", "gone"}]
      /\ InMove \cup Over \cup {"ask", "begin"} \subseteq Steps
      /\ mover.then \in {"begin", "failed"}
  BY DEF Types, Steps, InMove, Over, Movers
<1>r. /\ record \in Machine /\ copy[record].st \in Whole /\ left[record] = "none"
      /\ mover.pc \in Switching => copy[mv.to].st \in Whole
  BY DEF Located, HasIt
<1>t. Moving => mv.to \in Machine /\ mv.to # record
  BY DEF MoverInv, Located, Distinct
<1>s. mover.pc \in InMove => Moving /\ mover.from = mv.from /\ mover.to = mv.to
  BY DEF MoverInv, AsTheRow
<1>k. ASSUME UNCHANGED <<record, mv>>, left'[record] = "none",
             \A n \in Machine : copy[n].st \in Whole => copy'[n].st \in Whole,
             mover'.pc \in Switching => mover.pc \in Switching
      PROVE  HasIt'
  BY <1>k, <1>r, <1>s, <1>t DEF HasIt, Switching, InMove
<1>u. UNCHANGED <<record, mv, left, copy, mover>> => HasIt'
  BY <1>k, <1>r
<1>n. ASSUME UNCHANGED <<record, mv, left, copy>>, mover'.pc \notin Switching
      PROVE  HasIt'
  BY <1>n, <1>k, <1>r
<1>g. ASSUME NEW pc \in (InMove \cup Over) \ Switching, Go(pc),
             UNCHANGED <<record, mv, left, copy>>
      PROVE  HasIt'
  BY <1>g, <1>n, <1>m, GoIs
<1>w. ASSUME Go("state"), copy[mover.to].st \in Whole, mover.pc \in InMove,
             UNCHANGED <<record, mv, left, copy>>
      PROVE  HasIt'
  BY <1>w, <1>r, <1>s DEF HasIt
<1>e. ASSUME NEW pc \in {"begin", "apart", "failed"}, Ends(pc),
             UNCHANGED <<record, mv, left, copy>>
      PROVE  HasIt'
  BY <1>e, <1>n, <1>m, EndsIs DEF Over, Switching
<1>b. Abandon /\ UNCHANGED <<record, mv, left, copy>> => HasIt'
  BY <1>n, <1>m, AbandonIs DEF Switching
<1>d. ASSUME NEW m,
             copy' \in {copy, Stopped(copy, m), Started(copy, m)},
             UNCHANGED <<record, mv, left>>,
             mover'.pc \in Switching => mover.pc \in Switching
      PROVE  HasIt'
  <2>1. \A n \in Machine : copy[n].st \in Whole => copy'[n].st \in Whole
    BY <1>d, <1>m, StoppedIs, StartedIs DEF Whole
  <2>. QED
    BY <1>d, <2>1, <1>k, <1>r
<1>l. ASSUME NEW m, LeaveCopy(m) \/ UNCHANGED <<copy, left>>, UNCHANGED <<record, mv>>,
             mover'.pc \in Switching => mover.pc \in Switching
      PROVE  HasIt'
  <2>1. /\ copy'[record] = copy[record] /\ left'[record] = "none"
        /\ mover'.pc \in Switching => copy'[mv.to] = copy[mv.to]
    BY <1>l, <1>r, <1>s, <1>t, LeaveKeeps DEF Switching, InMove
  <2>. QED
    BY <1>l, <2>1, <1>r DEF HasIt
<1>p. /\ Switching \subseteq InMove /\ Switching \cap Over = {}
      /\ {"ask", "begin", "abandon", "stop", "copy"} \cap Switching = {} /\ Idle.pc \notin Switching
  BY DEF Switching, InMove, Over, Idle
<1> USE DEF tables, tasks, agents, history
<1>1. CASE MoverSteps
  <2>1. CASE Begin
    <3>1. mover'.pc \in {"ask", "abandon", "apart"}
      <4>1. Ends("apart") => mover'.pc = "apart"
        BY <1>m, EndsIs DEF Over
      <4>. QED
        BY <2>1, <4>1, <1>m DEF Begin, Movers
    <3>. QED
      BY <2>1, <3>1, <1>n DEF Begin, Switching
  <2>2. CASE AskFound
    BY <2>2, <1>m, <1>n, AskFoundIs DEF AskFound, Switching
  <2>3. CASE AskGone
    BY <2>3, NeverGone
  <2>4. CASE There
    <3>1. CASE Go("state")
      <4>1. copy[mover.to].st \in Whole
        <5>1. Go("state") => ~Go("stop") /\ ~Go("waitAgain") /\ ~Go("deleteOld")
          BY <1>m, GoIs DEF InMove
        <5>. QED
          BY <2>4, <3>1, <5>1 DEF There
      <4>. QED
        BY <2>4, <3>1, <4>1, <1>w DEF There, InMove
    <3>. QED
      BY <2>4, <3>1, <1>g DEF There, InMove, Switching
  <2>5. CASE WaitAgain
    BY <2>5, <1>g, <1>w DEF WaitAgain, InMove, Switching
  <2>6. CASE DeleteOld
    <3>1. CASE Abandon /\ UNCHANGED copy
      BY <2>6, <3>1, <1>b DEF DeleteOld
    <3>2. CASE Go("stop") /\ copy' = [copy EXCEPT ![mover.to] = NoCopy]
      <4>1. copy'[record] = copy[record]
        BY <2>6, <3>2, <1>m, <1>s, <1>t DEF DeleteOld, InMove
      <4>2. mover'.pc = "stop"
        BY <3>2, <1>m, GoIs DEF InMove
      <4>. QED
        BY <2>6, <4>1, <4>2, <1>r, <1>p DEF DeleteOld, HasIt
    <3>. QED
      BY <2>6, <3>1, <3>2 DEF DeleteOld
  <2>7. CASE StopFrom
    BY <2>7, <1>d, <1>s, <1>m, <1>p, GoIs DEF StopFrom, InMove
  <2>8. CASE CopyFolder
    <3>1. mover'.pc \notin Switching
      BY <2>8, <1>m, AbandonIs DEF CopyFolder, Movers, Switching
    <3>. QED
      BY <2>8, <3>1, <1>n DEF CopyFolder
  <2>9. CASE MoveIn
    <3>1. copy'[record] = copy[record]
      BY <2>9, <1>m, <1>r, <1>s, <1>t, TakenIs DEF MoveIn, InMove
    <3>2. mover'.pc = "made"
      BY <2>9, <1>m, GoIs DEF MoveIn, InMove
    <3>. QED
      BY <2>9, <3>1, <3>2, <1>r DEF MoveIn, HasIt, Switching
  <2>10. CASE NameMade
    <3>1. mover'.pc = "wait"
      BY <2>10, <1>m, GoIs DEF NameMade, InMove
    <3>. QED
      BY <2>10, <3>1, <1>r DEF NameMade, HasIt, Switching
  <2>11. CASE Wait
    BY <2>11, <1>g, <1>w, <1>b DEF Wait, InMove, Switching
  <2>12. CASE CopyState
    <3>1. mover.pc \in Switching
      BY <2>12 DEF CopyState, Switching
    <3>. QED
      BY <2>12, <3>1, <1>r, <1>k DEF CopyState
  <2>13. CASE SendLimits
    <3>1. mover.pc \in Switching
      BY <2>13 DEF SendLimits, Switching
    <3>. QED
      BY <2>13, <3>1, <1>r, <1>k DEF SendLimits
  <2>14. CASE SwitchServer
    <3>1. mover'.pc = "heldStop"
      BY <2>14, <1>m, GoIs DEF SwitchServer, Over
    <3>2. /\ record' = mv.to /\ mv.to \in Machine /\ mover.from = record /\ mover.to = mv.to
          /\ copy[mv.to].st \in Whole /\ mv.to # record
      BY <2>14, <1>r, <1>s, <1>t DEF SwitchServer, InMove, Switching, Located
    <3>3. left'[mv.to] = "none"
      BY <2>14, <3>2, <1>m DEF SwitchServer
    <3>4. copy' = copy
      BY <2>14 DEF SwitchServer
    <3>. QED
      BY <3>1, <3>2, <3>3, <3>4 DEF HasIt, Switching
  <2>15. CASE HeldStop
    <3>1. mover.to = record /\ mover'.pc = "leaveFrom"
      BY <2>15, <1>m, GoIs DEF HeldStop, Located, Over
    <3>. QED
      BY <2>15, <3>1, <1>d, <1>r DEF HeldStop, Switching
  <2>16. CASE LeaveFrom
    <3>1. mover'.pc \notin Switching
      BY <2>16, <1>m, EndsIs DEF LeaveFrom, LeaveStep, Over, Switching
    <3>. QED
      BY <2>16, <3>1, <1>l DEF LeaveFrom, LeaveStep
  <2>17. CASE EndMove
    <3>1. mover'.pc = "abStart"
      BY <2>17, <1>m, GoIs DEF EndMove, Over
    <3>2. left'[record] = "none"
      BY <2>17, <1>m, <1>r, <1>s, <1>t DEF EndMove, InMove
    <3>. QED
      BY <2>17, <3>1, <3>2, <1>r DEF EndMove, HasIt, Switching
  <2>18. CASE StartAgain
    <3>1. mover.from = record /\ mover'.pc = "leaveTo"
      BY <2>18, <1>m, GoIs DEF StartAgain, Starts, Located, Over
    <3>. QED
      BY <2>18, <3>1, <1>d, <1>r DEF StartAgain, Starts, Switching
  <2>19. CASE LeaveTo
    <3>1. mover'.pc \notin Switching
      BY <2>19, <1>m, EndsIs DEF LeaveTo, LeaveStep, Over, Switching
    <3>. QED
      BY <2>19, <3>1, <1>l DEF LeaveTo, LeaveStep
  <2>20. CASE LookApart
    <3>1. mover'.pc \notin Switching
      BY <2>20, <1>m, GoIs DEF LookApart, Idle, Switching, Over
    <3>. QED
      BY <2>20, <3>1, <1>n DEF LookApart
  <2>21. CASE MoveDone
    BY <2>21, <1>n, <1>p DEF MoveDone
  <2>22. CASE MoveFailed
    BY <2>22, <1>n, <1>p DEF MoveFailed
  <2>23. CASE WriteRow
    BY <2>23, <1>m, <1>r, WriteRowIs DEF WriteRow, HasIt, Switching
  <2>. QED
    BY <1>1, <2>1, <2>2, <2>3, <2>4, <2>5, <2>6, <2>7, <2>8, <2>9, <2>10, <2>11,
       <2>12, <2>13, <2>14, <2>15, <2>16, <2>17, <2>18, <2>19, <2>20, <2>21,
       <2>22, <2>23 DEF MoverSteps
<1>2. ASSUME NEW m \in Machine, StartMove(m) PROVE HasIt'
  BY <1>2, <1>n DEF StartMove, Idle, Switching
<1>3. ASSUME NEW m \in Machine, List(m) PROVE HasIt'
  BY <1>3, <1>u DEF List
<1>4. ASSUME NEW m \in Machine, SyncReads(m) PROVE HasIt'
  BY <1>4, <1>u DEF SyncReads
<1>5. ASSUME NEW m \in Machine, Leftover(m) PROVE HasIt'
  BY <1>5, <1>l DEF Leftover
<1>6. ASSUME NEW m \in Machine, MoveInEnds(m) PROVE HasIt'
  <2>1. \A n \in Machine : copy[n].st \in Whole => copy'[n].st \in Whole
    BY <1>6, <1>m DEF MoveInEnds, Copy, Whole
  <2>. QED
    BY <1>6, <2>1, <1>k, <1>r DEF MoveInEnds
<1>7. ASSUME NEW m \in Machine, MoveInFails(m) PROVE HasIt'
  <2>1. \A n \in Machine : copy[n].st \in Whole => copy'[n].st \in Whole
    BY <1>7, <1>m DEF MoveInFails, Copy, Whole
  <2>. QED
    BY <1>7, <2>1, <1>k, <1>r DEF MoveInFails
<1>8. CASE ResumeMove
  BY <1>8, <1>n DEF ResumeMove, Idle, Switching
<1>9. CASE StartAgainFails
  <2>1. mover.from = record /\ mover'.pc = "leaveTo"
    BY <1>9, <1>m, GoIs DEF StartAgainFails, Located, Over
  <2>. QED
    BY <1>9, <2>1, <1>d, <1>r DEF StartAgainFails, Switching
<1>10. CASE StepFails
  <2>1. UNCHANGED <<record, mv, left>>
    BY <1>10 DEF StepFails
  <2>2. CASE Abandon /\ copy' \in {copy, Stopped(copy, mover.from)}
    <3>1. mover'.pc \notin Switching
      BY <2>2, <1>m, AbandonIs DEF Switching
    <3>2. \A n \in Machine : copy[n].st \in Whole => copy'[n].st \in Whole
      BY <2>2, <1>m, StoppedIs DEF Whole
    <3>. QED
      BY <2>1, <3>1, <3>2, <1>k, <1>r
  <2>3. CASE At("moveIn") /\ Abandon /\ Taken(mover.to)
    <3>1. mover'.pc \notin Switching
      BY <2>3, <1>m, AbandonIs DEF Switching
    <3>2. copy'[record] = copy[record]
      BY <2>3, <1>m, <1>r, <1>s, <1>t, TakenIs DEF InMove
    <3>. QED
      BY <2>1, <3>1, <3>2, <1>r DEF HasIt
  <2>4. CASE copy' = copy /\ (Go("failed") \/ Go("deleteOld") \/ Go("leaveFrom"))
    BY <2>1, <2>4, <1>g DEF InMove, Over, Switching
  <2>5. CASE copy' = copy /\ Ends(IF At("leaveFrom") THEN "apart" ELSE mover.then)
    BY <2>1, <2>5, <1>e, <1>m
  <2>. QED
    BY <1>10, <2>2, <2>3, <2>4, <2>5 DEF StepFails
<1>11. CASE RetryLooks
  BY <1>11, <1>u DEF RetryLooks
<1>12. CASE RetryStarts
  <2>1. mover' = mover /\ UNCHANGED <<record, mv, left>>
    BY <1>12 DEF RetryStarts, Starts
  <2>2. \A n \in Machine : copy[n].st \in Whole => copy'[n].st \in Whole
    BY <1>12, <1>m, StartedIs DEF RetryStarts, Starts, Whole
  <2>. QED
    BY <2>1, <2>2, <1>k, <1>r
<1>13. CASE RetryFails
  BY <1>13, <1>u DEF RetryFails
<1>14. CASE PauseMarks
  BY <1>14, <1>u DEF PauseMarks
<1>15. CASE PauseLooks
  BY <1>15, <1>u DEF PauseLooks
<1>16. CASE PauseStops
  <2>1. mover' = mover /\ UNCHANGED <<record, mv, left>>
    BY <1>16 DEF PauseStops
  <2>2. \A n \in Machine : copy[n].st \in Whole => copy'[n].st \in Whole
    BY <1>16, <1>m, StoppedIs DEF PauseStops, Whole
  <2>. QED
    BY <2>1, <2>2, <1>k, <1>r
<1>17. CASE Renew
  BY <1>17, <1>u DEF Renew
<1>18. ASSUME NEW on \in BOOLEAN, UserRuns(on) PROVE HasIt'
  <2>1. mover' = mover /\ UNCHANGED <<record, mv, left>>
    BY <1>18 DEF UserRuns
  <2>2. \A n \in Machine : copy[n].st \in Whole => copy'[n].st \in Whole
    BY <1>18, <1>m, <1>r DEF UserRuns, Whole, Copy
  <2>. QED
    BY <2>1, <2>2, <1>k, <1>r
<1>19. CASE UserDeletes
  BY <1>19 DEF UserDeletes
<1>20. CASE Play
  <2>1. mover' = mover /\ UNCHANGED <<record, mv, left>>
    BY <1>20 DEF Play
  <2>2. \A n \in Machine : copy[n].st \in Whole => copy'[n].st \in Whole
    BY <1>20, <1>m, <1>r DEF Play, Whole, Copy
  <2>. QED
    BY <2>1, <2>2, <1>k, <1>r
<1>21. CASE Claim
  <2>1. UNCHANGED <<record, mv, copy, mover>>
    BY <1>21, ClaimKeeps DEF Claim
  <2>2. left'[record] = "none"
    BY <1>21, <1>m, <1>r DEF Claim
  <2>. QED
    BY <2>1, <2>2, <1>k
<1>22. CASE SyncSends
  BY <1>22, <1>u DEF SyncSends
<1>23. CASE Restart
  BY <1>23, <1>n, <1>p DEF Restart
<1>24. CASE UNCHANGED vars
  BY <1>24, <1>u DEF vars
<1>. QED
  BY <1>1, <1>2, <1>3, <1>4, <1>5, <1>6, <1>7, <1>8, <1>9, <1>10, <1>11, <1>12,
     <1>13, <1>14, <1>15, <1>16, <1>17, <1>18, <1>19, <1>20, <1>21, <1>22,
     <1>23, <1>24 DEF Next

(* What leaving a copy does to the others. *)
LEMMA LeaveForgetsNone ==
    ASSUME Types, NEW m, LeaveCopy(m), NEW n \in Machine, copy'[n].st # "none"
    PROVE  /\ copy[n].st # "none"
           /\ left[n] = "here" => record = n \/ mv.to = n \/ left'[n] = "here"
<1>1. CASE record = m \/ mv.to = m
  BY <1>1 DEF LeaveCopy, Types
<1>2. CASE record # m /\ mv.to # m /\ copy[m].st = "making"
  BY <1>2 DEF LeaveCopy, Types
<1>3. CASE record # m /\ mv.to # m /\ copy[m].st # "making"
  <2>1. n # m
    BY <1>3 DEF LeaveCopy, Types, NoCopy
  <2>. QED
    BY <1>3, <2>1 DEF LeaveCopy, Types
<1>. QED
  BY <1>1, <1>2, <1>3

LEMMA CopiesStep ==
    ASSUME Types, MoverInv, Located, HasIt, Listed, CopiesKnown, [Next]_vars, ~deleted, ~deleted'
    PROVE  CopiesKnown'
<1> USE DEF At
<1>m. /\ mover \in Movers /\ mv \in Rows /\ copy \in [Machine -> Copy]
      /\ left \in [Machine -> {"none", "here", "gone"}]
  BY DEF Types
<1>c. \A n \in Machine : copy[n].st # "none" =>
        record = n \/ mv.to = n \/ left[n] = "here"
  BY DEF CopiesKnown
<1>s. mover.pc \in InMove => Moving /\ mover.from = mv.from /\ mover.to = mv.to
  BY DEF MoverInv, AsTheRow
<1>r. Moving => mv.from = record /\ mv.to \in Machine
  BY DEF Located, MoverInv, Distinct
<1>k. ASSUME UNCHANGED record, mv'.to = mv.to,
             \A n \in Machine : /\ copy'[n].st # "none" => copy[n].st # "none" \/ mv.to = n
                                /\ left[n] = "here" => left'[n] = "here"
      PROVE  CopiesKnown'
  BY <1>k, <1>c DEF CopiesKnown
<1>u. UNCHANGED <<record, mv, left, copy>> => CopiesKnown'
  BY <1>k
<1>d. ASSUME NEW m, copy' \in {copy, Stopped(copy, m), Started(copy, m)},
             UNCHANGED <<record, mv, left>>
      PROVE  CopiesKnown'
  <2>1. \A n \in Machine : copy'[n].st # "none" => copy[n].st # "none"
    BY <1>d, <1>m, StoppedIs, StartedIs
  <2>. QED
    BY <1>d, <2>1, <1>k
<1>l. ASSUME NEW m, LeaveCopy(m) \/ UNCHANGED <<copy, left>>, UNCHANGED <<record, mv>>
      PROVE  CopiesKnown'
  BY <1>l, <1>c, <1>u, LeaveForgetsNone DEF CopiesKnown
<1> USE DEF tables, tasks, agents, history
<1>1. CASE MoverSteps
  <2>1. CASE Begin
    BY <2>1, <1>u DEF Begin
  <2>2. CASE AskFound
    BY <2>2, <1>u DEF AskFound
  <2>3. CASE AskGone
    BY <2>3, NeverGone
  <2>4. CASE There
    BY <2>4, <1>u DEF There
  <2>5. CASE WaitAgain
    BY <2>5, <1>u DEF WaitAgain
  <2>6. CASE DeleteOld
    BY <2>6, <1>k, <1>m DEF DeleteOld, NoCopy
  <2>7. CASE StopFrom
    BY <2>7, <1>d DEF StopFrom
  <2>8. CASE CopyFolder
    BY <2>8, <1>u DEF CopyFolder
  <2>9. CASE MoveIn
    <3>1. mv'.to = mv.to /\ mover.to = mv.to
      BY <2>9, <1>m, <1>s DEF MoveIn, Rows, InMove
    <3>2. \A n \in Machine : copy'[n].st # "none" => copy[n].st # "none" \/ mv.to = n
      BY <2>9, <3>1, <1>m, TakenIs DEF MoveIn
    <3>. QED
      BY <2>9, <3>1, <3>2, <1>k DEF MoveIn
  <2>10. CASE NameMade
    <3>1. mv'.to = mv.to
      BY <2>10, <1>m DEF NameMade, Rows
    <3>. QED
      BY <2>10, <3>1, <1>k DEF NameMade
  <2>11. CASE Wait
    BY <2>11, <1>u DEF Wait
  <2>12. CASE CopyState
    BY <2>12, <1>u DEF CopyState
  <2>13. CASE SendLimits
    BY <2>13, <1>u DEF SendLimits
  <2>14. CASE SwitchServer
    <3>1. /\ record' = mv.to /\ mover.from = record /\ mover.to = mv.to /\ copy' = copy
          /\ mv.to # record
      BY <2>14, <1>r, <1>s DEF SwitchServer, InMove, MoverInv, Distinct
    <3>2. \A n \in Machine : (left[n] = "here" /\ n # mv.to) \/ n = record => left'[n] = "here"
      BY <2>14, <3>1, <1>m DEF SwitchServer
    <3>. QED
      BY <3>1, <3>2, <1>c DEF CopiesKnown
  <2>15. CASE HeldStop
    BY <2>15, <1>d DEF HeldStop
  <2>16. CASE LeaveFrom
    BY <2>16, <1>l DEF LeaveFrom, LeaveStep
  <2>17. CASE EndMove
    <3>1. \A n \in Machine : left[n] = "here" \/ mv.to = n => left'[n] = "here"
      BY <2>17, <1>m DEF EndMove
    <3>. QED
      BY <2>17, <3>1, <1>c DEF EndMove, CopiesKnown
  <2>18. CASE StartAgain
    BY <2>18, <1>d DEF StartAgain, Starts
  <2>19. CASE LeaveTo
    BY <2>19, <1>l DEF LeaveTo, LeaveStep
  <2>20. CASE LookApart
    BY <2>20, <1>u DEF LookApart
  <2>21. CASE MoveDone
    BY <2>21, <1>u DEF MoveDone
  <2>22. CASE MoveFailed
    BY <2>22, <1>u DEF MoveFailed
  <2>23. CASE WriteRow
    <3>1. mv.to = None
      BY <2>23 DEF WriteRow, MoverInv, Moving, NoMove
    <3>2. UNCHANGED <<record, left, copy>>
      BY <2>23 DEF WriteRow
    <3>. QED
      BY <3>1, <3>2, <1>c, MachineAssumption DEF CopiesKnown
  <2>. QED
    BY <1>1, <2>1, <2>2, <2>3, <2>4, <2>5, <2>6, <2>7, <2>8, <2>9, <2>10, <2>11,
       <2>12, <2>13, <2>14, <2>15, <2>16, <2>17, <2>18, <2>19, <2>20, <2>21,
       <2>22, <2>23 DEF MoverSteps
<1>2. ASSUME NEW m \in Machine, StartMove(m) PROVE CopiesKnown'
  BY <1>2, <1>u DEF StartMove
<1>3. ASSUME NEW m \in Machine, List(m) PROVE CopiesKnown'
  BY <1>3, <1>u DEF List
<1>4. ASSUME NEW m \in Machine, SyncReads(m) PROVE CopiesKnown'
  BY <1>4, <1>u DEF SyncReads
<1>5. ASSUME NEW m \in Machine, Leftover(m) PROVE CopiesKnown'
  BY <1>5, <1>l DEF Leftover
<1>6. ASSUME NEW m \in Machine, MoveInEnds(m) PROVE CopiesKnown'
  BY <1>6, <1>k, <1>m DEF MoveInEnds, Copy
<1>7. ASSUME NEW m \in Machine, MoveInFails(m) PROVE CopiesKnown'
  BY <1>7, <1>k, <1>m DEF MoveInFails, Copy
<1>8. CASE ResumeMove
  BY <1>8, <1>u DEF ResumeMove
<1>9. CASE StartAgainFails
  BY <1>9, <1>d DEF StartAgainFails
<1>10. CASE StepFails
  <2>1. CASE copy' \in {copy, Stopped(copy, mover.from)}
    BY <1>10, <2>1, <1>d DEF StepFails
  <2>2. CASE At("moveIn") /\ Taken(mover.to)
    <3>1. \A n \in Machine : copy'[n].st # "none" => copy[n].st # "none" \/ mv.to = n
      BY <2>2, <1>m, <1>s, TakenIs DEF InMove
    <3>. QED
      BY <1>10, <3>1, <1>k DEF StepFails
  <2>. QED
    BY <1>10, <2>1, <2>2 DEF StepFails
<1>11. CASE RetryLooks
  BY <1>11, <1>u DEF RetryLooks
<1>12. CASE RetryStarts
  BY <1>12, <1>d DEF RetryStarts, Starts
<1>13. CASE RetryFails
  BY <1>13, <1>u DEF RetryFails
<1>14. CASE PauseMarks
  BY <1>14, <1>u DEF PauseMarks
<1>15. CASE PauseLooks
  BY <1>15, <1>u DEF PauseLooks
<1>16. CASE PauseStops
  BY <1>16, <1>d DEF PauseStops
<1>17. CASE Renew
  BY <1>17, <1>u DEF Renew
<1>18. ASSUME NEW on \in BOOLEAN, UserRuns(on) PROVE CopiesKnown'
  BY <1>18, <1>k, <1>m DEF UserRuns, Copy
<1>19. CASE UserDeletes
  BY <1>19 DEF UserDeletes
<1>20. CASE Play
  BY <1>20, <1>k, <1>m DEF Play, Copy
<1>21. CASE Claim
  <2>1. \A n \in Machine : left[n] = "here" => left'[n] = "here"
    BY <1>21, <1>m DEF Claim
  <2>2. UNCHANGED <<record, mv, copy>>
    BY <1>21, ClaimKeeps DEF Claim
  <2>. QED
    BY <2>1, <2>2, <1>k
<1>22. CASE SyncSends
  BY <1>22, <1>u DEF SyncSends
<1>23. CASE Restart
  BY <1>23, <1>u DEF Restart
<1>24. CASE UNCHANGED vars
  BY <1>24, <1>u DEF vars
<1>. QED
  BY <1>1, <1>2, <1>3, <1>4, <1>5, <1>6, <1>7, <1>8, <1>9, <1>10, <1>11, <1>12,
     <1>13, <1>14, <1>15, <1>16, <1>17, <1>18, <1>19, <1>20, <1>21, <1>22,
     <1>23, <1>24 DEF Next

(* A copy that is left stays hidden from a listing that shows it. *)
LEMMA LeaveHides ==
    ASSUME Types, NEW m, LeaveCopy(m), listing.on \in Machine, listing # NoListing
    PROVE  /\ listing'.on = listing.on /\ listing'.has = listing.has
           /\ listing'.old = listing.old /\ listing' # NoListing
           /\ Hidden(listing.on) =>
                \/ record = listing.on \/ mv.to = listing.on
                \/ left'[listing.on] = "here"
                \/ left'[listing.on] = "gone" /\ listing'.went
<1>1. listing \in Listings /\ left \in [Machine -> {"none", "here", "gone"}]
  BY DEF Types
<1>2. /\ listing'.on = listing.on /\ listing'.has = listing.has
      /\ listing'.old = listing.old
  BY <1>1 DEF LeaveCopy, Listings
<1>3. listing' # NoListing
  BY <1>2, MachineAssumption DEF NoListing
<1>4. CASE listing.on # m
  BY <1>1, <1>4 DEF LeaveCopy, Hidden, HiddenNow
<1>5. CASE listing.on = m
  <2>1. CASE record = m \/ mv.to = m
    BY <1>2, <1>3, <1>5, <2>1
  <2>2. CASE record # m /\ mv.to # m /\ copy[m].st = "making"
    BY <1>2, <1>3, <1>5, <2>2 DEF LeaveCopy, Hidden, HiddenNow
  <2>3. CASE record # m /\ mv.to # m /\ copy[m].st # "making"
    BY <1>1, <1>2, <1>3, <1>5, <2>3 DEF LeaveCopy, Listings
  <2>. QED
    BY <2>1, <2>2, <2>3
<1>. QED
  BY <1>2, <1>3, <1>4, <1>5

LEMMA ListedStep ==
    ASSUME Types, MoverInv, Located, HasIt, CopiesKnown, Listed, [Next]_vars, ~deleted
    PROVE  Listed'
<1> USE DEF At
<1>m. /\ mover \in Movers /\ mv \in Rows /\ listing \in Listings
      /\ left \in [Machine -> {"none", "here", "gone"}]
  BY DEF Types
<1>s. mover.pc \in InMove => Moving /\ mover.from = mv.from /\ mover.to = mv.to
  BY DEF MoverInv, AsTheRow
<1>r. Moving => mv.from = record /\ mv.to \in Machine /\ mv.to # record
  BY DEF Located, MoverInv, Distinct
<1>u. UNCHANGED <<record, mv, left, listing>> => Listed'
  BY DEF Listed, Hidden, HiddenNow
<1>k. ASSUME UNCHANGED <<record, left, listing>>, mv'.to = mv.to \/ mv.to = None
      PROVE  Listed'
  BY <1>k, MachineAssumption DEF Listed, Hidden, HiddenNow
<1>n. listing' = NoListing => Listed'
  BY DEF Listed
<1>l. ASSUME NEW m \in Machine, LeaveCopy(m) \/ UNCHANGED <<left, listing>>, UNCHANGED <<record, mv>>
      PROVE  Listed'
  <2>1. CASE LeaveCopy(m) /\ listing # NoListing
    BY <1>l, <2>1, LeaveHides DEF Listed, Hidden, HiddenNow
  <2>2. CASE LeaveCopy(m) /\ listing = NoListing
    <3>1. listing.on = None
      BY <2>2 DEF NoListing
    <3>2. listing' = listing
      BY <1>l, <2>2, <3>1, MachineAssumption DEF LeaveCopy
    <3>. QED
      BY <2>2, <3>2, <1>n
  <2>. QED
    BY <1>l, <2>1, <2>2, <1>u
<1> USE DEF tables, tasks, agents, history
<1>1. CASE MoverSteps
  <2>1. CASE Begin
    BY <2>1, <1>u DEF Begin
  <2>2. CASE AskFound
    BY <2>2, <1>u DEF AskFound
  <2>3. CASE AskGone
    BY <2>3, NeverGone
  <2>4. CASE There
    BY <2>4, <1>u DEF There
  <2>5. CASE WaitAgain
    BY <2>5, <1>u DEF WaitAgain
  <2>6. CASE DeleteOld
    BY <2>6, <1>u DEF DeleteOld
  <2>7. CASE StopFrom
    BY <2>7, <1>u DEF StopFrom
  <2>8. CASE CopyFolder
    BY <2>8, <1>u DEF CopyFolder
  <2>9. CASE MoveIn
    BY <2>9, <1>k, <1>m DEF MoveIn, Rows
  <2>10. CASE NameMade
    BY <2>10, <1>k, <1>m DEF NameMade, Rows
  <2>11. CASE Wait
    BY <2>11, <1>u DEF Wait
  <2>12. CASE CopyState
    BY <2>12, <1>u DEF CopyState
  <2>13. CASE SendLimits
    BY <2>13, <1>u DEF SendLimits
  <2>14. CASE SwitchServer
    <3>1. /\ record' = mv.to /\ mover.from = record /\ mover.to = mv.to /\ mv' = NoMove
          /\ mv.to # record /\ {record, mv.to} \subseteq Machine
      BY <2>14, <1>r, <1>s DEF SwitchServer, InMove, Located
    <3>2. left' = [left EXCEPT ![mv.to] = "none", ![record] = "here"]
      BY <2>14, <3>1 DEF SwitchServer
    <3>3. /\ listing'.on = listing.on /\ listing'.has = listing.has
          /\ listing'.went = listing.went
          /\ listing.on # mv.to => listing'.old = listing.old
          /\ listing.on = mv.to => listing'.old
      BY <2>14, <3>1, <1>m DEF SwitchServer, Listings
    <3>4. CASE listing = NoListing
      BY <2>14, <3>1, <3>4, <1>n, MachineAssumption DEF SwitchServer, NoListing
    <3>5. CASE listing # NoListing
      <4>1. listing.on \in Machine /\ (listing.has => listing.on = record \/ Hidden(listing.on))
        BY <3>5 DEF Listed
      <4>2. listing.on \notin {record, mv.to} => left'[listing.on] = left[listing.on]
        BY <3>1, <3>2, <4>1, <1>m
      <4>3. left'[record] = "here"
        BY <3>1, <3>2, <1>m
      <4>. QED
        BY <3>1, <3>3, <4>1, <4>2, <4>3 DEF Listed, Hidden, HiddenNow
    <3>. QED
      BY <3>4, <3>5
  <2>15. CASE HeldStop
    BY <2>15, <1>u DEF HeldStop
  <2>16. CASE LeaveFrom
    <3>1. mover.from \in Machine
      BY <2>16 DEF LeaveFrom, LeaveStep, MoverInv, Distinct
    <3>. QED
      BY <2>16, <3>1, <1>l DEF LeaveFrom, LeaveStep
  <2>17. CASE EndMove
    <3>1. UNCHANGED <<record, listing>> /\ mv' = NoMove
      BY <2>17 DEF EndMove
    <3>2. \A n \in Machine : left'[n] = IF n = mv.to THEN "here" ELSE left[n]
      BY <2>17, <1>m DEF EndMove
    <3>. QED
      BY <3>1, <3>2 DEF Listed, Hidden, HiddenNow
  <2>18. CASE StartAgain
    BY <2>18, <1>u DEF StartAgain, Starts
  <2>19. CASE LeaveTo
    <3>1. mover.to \in Machine
      BY <2>19 DEF LeaveTo, LeaveStep, MoverInv, Distinct
    <3>. QED
      BY <2>19, <3>1, <1>l DEF LeaveTo, LeaveStep
  <2>20. CASE LookApart
    BY <2>20, <1>u DEF LookApart
  <2>21. CASE MoveDone
    BY <2>21, <1>u DEF MoveDone
  <2>22. CASE MoveFailed
    BY <2>22, <1>u DEF MoveFailed
  <2>23. CASE WriteRow
    BY <2>23, <1>k DEF WriteRow, MoverInv, Moving, NoMove
  <2>. QED
    BY <1>1, <2>1, <2>2, <2>3, <2>4, <2>5, <2>6, <2>7, <2>8, <2>9, <2>10, <2>11,
       <2>12, <2>13, <2>14, <2>15, <2>16, <2>17, <2>18, <2>19, <2>20, <2>21,
       <2>22, <2>23 DEF MoverSteps
<1>2. ASSUME NEW m \in Machine, StartMove(m) PROVE Listed'
  BY <1>2, <1>u DEF StartMove
<1>3. ASSUME NEW m \in Machine, List(m) PROVE Listed'
  <2>1. /\ listing'.on = m /\ listing'.has = (copy[m].st # "none")
        /\ UNCHANGED <<record, mv, left>>
    BY <1>3 DEF List, NoListing
  <2>2. listing'.has => m = record \/ HiddenNow(m)
    BY <2>1 DEF CopiesKnown, HiddenNow
  <2>3. m = record => listing'.has
    BY <2>1 DEF HasIt, Whole
  <2>. QED
    BY <2>1, <2>2, <2>3 DEF Listed, Hidden, HiddenNow
<1>4. ASSUME NEW m \in Machine, SyncReads(m) PROVE Listed'
  BY <1>4, <1>u DEF SyncReads
<1>5. ASSUME NEW m \in Machine, Leftover(m) PROVE Listed'
  BY <1>5, <1>l DEF Leftover
<1>6. ASSUME NEW m \in Machine, MoveInEnds(m) PROVE Listed'
  BY <1>6, <1>u DEF MoveInEnds
<1>7. ASSUME NEW m \in Machine, MoveInFails(m) PROVE Listed'
  BY <1>7, <1>u DEF MoveInFails
<1>8. CASE ResumeMove
  BY <1>8, <1>u DEF ResumeMove
<1>9. CASE StartAgainFails
  BY <1>9, <1>u DEF StartAgainFails
<1>10. CASE StepFails
  BY <1>10, <1>u DEF StepFails
<1>11. CASE RetryLooks
  BY <1>11, <1>u DEF RetryLooks
<1>12. CASE RetryStarts
  BY <1>12, <1>u DEF RetryStarts, Starts
<1>13. CASE RetryFails
  BY <1>13, <1>u DEF RetryFails
<1>14. CASE PauseMarks
  BY <1>14, <1>u DEF PauseMarks
<1>15. CASE PauseLooks
  BY <1>15, <1>u DEF PauseLooks
<1>16. CASE PauseStops
  BY <1>16, <1>u DEF PauseStops
<1>17. CASE Renew
  BY <1>17, <1>u DEF Renew
<1>18. ASSUME NEW on \in BOOLEAN, UserRuns(on) PROVE Listed'
  BY <1>18, <1>u DEF UserRuns
<1>19. CASE UserDeletes
  BY <1>19, <1>u DEF UserDeletes
<1>20. CASE Play
  BY <1>20, <1>u DEF Play
<1>21. CASE Claim
  BY <1>21, <1>n DEF Claim
<1>22. CASE SyncSends
  BY <1>22, <1>u DEF SyncSends
<1>23. CASE Restart
  BY <1>23, <1>n DEF Restart
<1>24. CASE UNCHANGED vars
  BY <1>24, <1>u DEF vars
<1>. QED
  BY <1>1, <1>2, <1>3, <1>4, <1>5, <1>6, <1>7, <1>8, <1>9, <1>10, <1>11, <1>12,
     <1>13, <1>14, <1>15, <1>16, <1>17, <1>18, <1>19, <1>20, <1>21, <1>22,
     <1>23, <1>24 DEF Next

(* Only the customer deletes it, and what is deleted stays deleted. *)
LEMMA DeletedOnce ==
    ASSUME [Next]_vars PROVE deleted' = deleted \/ (UserDeletes /\ deleted')
<1> DEFINE Kept == deleted' = deleted \/ (UserDeletes /\ deleted')
<1> USE DEF history
<1>1. CASE MoverSteps
  <2>1. CASE Begin
    BY <2>1 DEF Begin
  <2>2. CASE AskFound
    BY <2>2 DEF AskFound
  <2>3. CASE AskGone
    BY <2>3 DEF AskGone
  <2>4. CASE There
    BY <2>4 DEF There
  <2>5. CASE WaitAgain
    BY <2>5 DEF WaitAgain
  <2>6. CASE DeleteOld
    BY <2>6 DEF DeleteOld
  <2>7. CASE StopFrom
    BY <2>7 DEF StopFrom
  <2>8. CASE CopyFolder
    BY <2>8 DEF CopyFolder
  <2>9. CASE MoveIn
    BY <2>9 DEF MoveIn
  <2>10. CASE NameMade
    BY <2>10 DEF NameMade
  <2>11. CASE Wait
    BY <2>11 DEF Wait
  <2>12. CASE CopyState
    BY <2>12 DEF CopyState
  <2>13. CASE SendLimits
    BY <2>13 DEF SendLimits
  <2>14. CASE SwitchServer
    BY <2>14 DEF SwitchServer
  <2>15. CASE HeldStop
    BY <2>15 DEF HeldStop
  <2>16. CASE LeaveFrom
    BY <2>16 DEF LeaveFrom, LeaveStep
  <2>17. CASE EndMove
    BY <2>17 DEF EndMove
  <2>18. CASE StartAgain
    BY <2>18 DEF StartAgain, Starts
  <2>19. CASE LeaveTo
    BY <2>19 DEF LeaveTo, LeaveStep
  <2>20. CASE LookApart
    BY <2>20 DEF LookApart
  <2>21. CASE MoveDone
    BY <2>21 DEF MoveDone
  <2>22. CASE MoveFailed
    BY <2>22 DEF MoveFailed
  <2>23. CASE WriteRow
    BY <2>23 DEF WriteRow
  <2>. QED
    BY <1>1, <2>1, <2>2, <2>3, <2>4, <2>5, <2>6, <2>7, <2>8, <2>9, <2>10, <2>11,
       <2>12, <2>13, <2>14, <2>15, <2>16, <2>17, <2>18, <2>19, <2>20, <2>21,
       <2>22, <2>23 DEF MoverSteps
<1>2. ASSUME NEW m \in Machine, StartMove(m) PROVE Kept
  BY <1>2 DEF StartMove
<1>3. ASSUME NEW m \in Machine, List(m) PROVE Kept
  BY <1>3 DEF List
<1>4. ASSUME NEW m \in Machine, SyncReads(m) PROVE Kept
  BY <1>4 DEF SyncReads
<1>5. ASSUME NEW m \in Machine, Leftover(m) PROVE Kept
  BY <1>5 DEF Leftover
<1>6. ASSUME NEW m \in Machine, MoveInEnds(m) PROVE Kept
  BY <1>6 DEF MoveInEnds
<1>7. ASSUME NEW m \in Machine, MoveInFails(m) PROVE Kept
  BY <1>7 DEF MoveInFails
<1>8. CASE ResumeMove
  BY <1>8 DEF ResumeMove
<1>9. CASE StartAgainFails
  BY <1>9 DEF StartAgainFails
<1>10. CASE StepFails
  BY <1>10 DEF StepFails
<1>11. CASE RetryLooks
  BY <1>11 DEF RetryLooks
<1>12. CASE RetryStarts
  BY <1>12 DEF RetryStarts, Starts
<1>13. CASE RetryFails
  BY <1>13 DEF RetryFails
<1>14. CASE PauseMarks
  BY <1>14 DEF PauseMarks
<1>15. CASE PauseLooks
  BY <1>15 DEF PauseLooks
<1>16. CASE PauseStops
  BY <1>16 DEF PauseStops
<1>17. CASE Renew
  BY <1>17 DEF Renew
<1>18. ASSUME NEW on \in BOOLEAN, UserRuns(on) PROVE Kept
  BY <1>18 DEF UserRuns
<1>19. CASE UserDeletes
  BY <1>19 DEF UserDeletes
<1>20. CASE Play
  BY <1>20 DEF Play
<1>21. CASE Claim
  BY <1>21 DEF Claim
<1>22. CASE SyncSends
  BY <1>22 DEF SyncSends
<1>23. CASE Restart
  BY <1>23 DEF Restart
<1>24. CASE UNCHANGED vars
  BY <1>24 DEF vars
<1>. QED
  BY <1>1, <1>2, <1>3, <1>4, <1>5, <1>6, <1>7, <1>8, <1>9, <1>10, <1>11, <1>12,
     <1>13, <1>14, <1>15, <1>16, <1>17, <1>18, <1>19, <1>20, <1>21, <1>22,
     <1>23, <1>24 DEF Next

LEMMA PlaceStep ==
    ASSUME Types, MoverInv, PlaceInv, [Next]_vars PROVE PlaceInv'
<1> SUFFICES ASSUME ~deleted' PROVE Located' /\ HasIt' /\ CopiesKnown' /\ Listed'
  BY DEF PlaceInv
<1>1. ~deleted
  BY DeletedOnce DEF UserDeletes
<1>. QED
  BY <1>1, LocatedStep, HasItStep, CopiesStep, ListedStep DEF PlaceInv

-----------------------------------------------------------------------------
(* After its deletion                                                      *)

(* What copies there still are will be deleted, and a move that asked for  *)
(* it before copies nothing.                                               *)
Late == {"waitAgain", "moveIn", "made", "wait", "state", "limits", "switch"}
Gone ==
    /\ \A m \in Machine : copy[m].st # "none" =>
          record # m /\ (left[m] = "here" \/ mv.to = m)
    /\ Moving => ~mv.made /\ copy[mv.from].st = "none"
    /\ mover.pc \in {"ask", "row"} => copy[mover.from].st = "none"
    /\ mover.pc \notin Late

GoneInv == deleted => Gone

LEMMA GoneStays ==
    ASSUME Types, MoverInv, Gone, [Next]_vars PROVE Gone'
<1> USE DEF At
<1>m. /\ mover \in Movers /\ mv \in Rows /\ copy \in [Machine -> Copy]
      /\ left \in [Machine -> {"none", "here", "gone"}]
      /\ InMove \cup Over \cup {"ask", "begin"} \subseteq Steps
      /\ mover.then \in {"begin", "failed"}
  BY DEF Types, Steps, InMove, Over, Movers
<1>g. /\ \A m \in Machine : copy[m].st # "none" =>
            record # m /\ (left[m] = "here" \/ mv.to = m)
      /\ Moving => ~mv.made /\ copy[mv.from].st = "none"
      /\ mover.pc \in {"ask", "row"} => copy[mover.from].st = "none"
      /\ mover.pc \notin Late
  BY DEF Gone
<1>s. /\ mover.pc \in InMove => Moving /\ mover.from = mv.from /\ mover.to = mv.to
      /\ Moving => mv.from \in Machine /\ mv.to \in Machine
      /\ mover.pc \in {"ask", "row", "heldStop", "leaveFrom", "abStart", "leaveTo"} =>
           mover.from \in Machine /\ mover.to \in Machine
  BY DEF MoverInv, AsTheRow, Distinct
<1>q. /\ {"ask", "row", "begin", "there", "deleteOld", "stop", "copy", "abandon"}
           \cap Late = {}
      /\ Over \cap (Late \cup {"ask", "row"}) = {} /\ Idle.pc \notin Late \cup {"ask", "row"}
  BY DEF Late, Over, Idle
<1>k. ASSUME UNCHANGED <<record, mv>>,
             mover' = mover \/ mover'.pc \notin Late \cup {"ask", "row"},
             \A n \in Machine : copy'[n].st # "none" =>
                copy[n].st # "none" /\ (left[n] = "here" => left'[n] = "here")
      PROVE  Gone'
  <2>1. \A n \in Machine : copy'[n].st # "none" =>
           record # n /\ (left'[n] = "here" \/ mv.to = n)
    BY <1>k, <1>g
  <2>2. \A n \in Machine : copy[n].st = "none" => copy'[n].st = "none"
    BY <1>k
  <2>3. Moving => ~mv.made /\ copy'[mv.from].st = "none"
    BY <2>2, <1>g, <1>s
  <2>4. mover'.pc \in {"ask", "row"} => copy'[mover'.from].st = "none"
    BY <1>k, <2>2, <1>g, <1>s
  <2>. QED
    BY <1>k, <2>1, <2>3, <2>4, <1>g DEF Gone, Moving
<1>u. UNCHANGED <<record, mv, copy, left, mover>> => Gone'
  BY <1>k
<1>n. UNCHANGED <<record, mv, copy, left>> /\ mover'.pc \notin Late \cup {"ask", "row"}
      => Gone'
  BY <1>k
<1>d. ASSUME NEW m, copy' \in {copy, Stopped(copy, m), Started(copy, m)},
             UNCHANGED <<record, mv, left>>,
             mover' = mover \/ mover'.pc \notin Late \cup {"ask", "row"}
      PROVE  Gone'
  <2>1. \A n \in Machine : copy'[n].st # "none" => copy[n].st # "none"
    BY <1>d, <1>m, StoppedIs, StartedIs
  <2>. QED
    BY <1>d, <2>1, <1>k
<1>l. ASSUME NEW m \in Machine, LeaveCopy(m) \/ UNCHANGED <<copy, left>>,
             UNCHANGED <<record, mv>>,
             mover' = mover \/ mover'.pc \notin Late \cup {"ask", "row"}
      PROVE  Gone'
  <2>1. CASE UNCHANGED <<copy, left>>
    BY <1>l, <2>1, <1>k
  <2>2. CASE LeaveCopy(m) /\ mv.to # m
    <3>1. \A n \in Machine : copy'[n].st # "none" =>
             copy[n].st # "none" /\ (left[n] = "here" => left'[n] = "here")
      <4>1. SUFFICES ASSUME NEW n \in Machine, copy'[n].st # "none"
                     PROVE  copy[n].st # "none" /\ (left[n] = "here" => left'[n] = "here")
        OBVIOUS
      <4>2. copy[n].st # "none"
        BY <2>2, <4>1, LeaveForgetsNone
      <4>3. left'[n] = left[n] \/ n = m
        BY <2>2, <1>m DEF LeaveCopy
      <4>4. n = m => left' = left
        <5>1. CASE record = m
          BY <4>2, <5>1, <1>g
        <5>2. CASE record # m /\ copy[m].st # "making"
          BY <2>2, <4>1, <5>2, <1>m DEF LeaveCopy, NoCopy
        <5>3. CASE record # m /\ copy[m].st = "making"
          BY <2>2, <5>3 DEF LeaveCopy
        <5>. QED
          BY <5>1, <5>2, <5>3
      <4>. QED
        BY <4>2, <4>3, <4>4
    <3>. QED
      BY <1>l, <3>1, <1>k
  <2>3. CASE LeaveCopy(m) /\ mv.to = m
    <3>1. UNCHANGED copy /\ left' = [left EXCEPT ![m] = "none"]
      BY <2>3 DEF LeaveCopy
    <3>2. \A n \in Machine : copy'[n].st # "none" =>
             record # n /\ (left'[n] = "here" \/ mv.to = n)
      BY <2>3, <3>1, <1>g, <1>m
    <3>. QED
      BY <1>l, <3>1, <3>2, <1>g DEF Gone, Moving
  <2>. QED
    BY <1>l, <2>1, <2>2, <2>3
<1>a. ASSUME Abandon, UNCHANGED <<record, mv, copy, left>> PROVE Gone'
  BY <1>a, <1>n, <1>q, <1>m, AbandonIs
<1>e. ASSUME NEW pc \in {"begin", "apart", "failed"}, Ends(pc)
      PROVE  mover'.pc \notin Late \cup {"ask", "row"}
  BY <1>e, <1>q, <1>m, EndsIs DEF Over, Late
<1>o. ASSUME NEW pc \in Over \cup {"stop", "deleteOld", "copy"}, Go(pc)
      PROVE  mover'.pc \notin Late \cup {"ask", "row"}
  BY <1>o, <1>q, <1>m, GoIs DEF InMove
<1> USE DEF tables, tasks, agents, history
<1>1. CASE MoverSteps
  <2>1. CASE Begin
    <3>1. UNCHANGED <<record, mv, copy, left>>
      BY <2>1 DEF Begin
    <3>2. CASE /\ mover'.pc = "ask"
               /\ (mover'.from = record /\ Apart) \/ (mover'.from = mv.from /\ Moving)
      <4>1. copy[mover'.from].st = "none"
        <5>1. Apart => record \in Machine
          BY DEF Apart, Types, Somewhere
        <5>. QED
          BY <3>2, <5>1, <1>g
      <4>. QED
        BY <3>1, <3>2, <4>1, <1>g, <1>q DEF Gone, Moving
    <3>3. CASE Ends("apart")
      BY <3>1, <3>3, <1>n, <1>e
    <3>4. CASE mover'.pc = "abandon"
      BY <3>1, <3>4, <1>n, <1>q
    <3>5. mover' = [mover EXCEPT !.pc = "abandon", !.from = mv.from, !.to = mv.to,
                                 !.ran = mv.ran, !.then = "begin"] => mover'.pc = "abandon"
      BY <1>m DEF Movers
    <3>6. mover' = [mover EXCEPT !.pc = "ask", !.from = mv.from, !.to = mv.to,
                                 !.ran = mv.ran, !.resume = TRUE] =>
             mover'.pc = "ask" /\ mover'.from = mv.from
      BY <1>m DEF Movers
    <3>7. mover' = [mover EXCEPT !.pc = "ask", !.from = record, !.to = home,
                                 !.resume = FALSE] => mover'.pc = "ask" /\ mover'.from = record
      BY <1>m DEF Movers
    <3>. QED
      BY <2>1, <3>2, <3>3, <3>4, <3>5, <3>6, <3>7 DEF Begin
  <2>2. CASE AskFound
    BY <2>2, <1>g DEF AskFound
  <2>3. CASE AskGone
    <3>1. record' \in {record, None} /\ copy' = copy
      BY <2>3 DEF AskGone
    <3>2. CASE Moving
      <4>1. left' = [left EXCEPT ![mv.to] = "here"] /\ mv' = NoMove /\ mover'.pc = "leaveTo"
        BY <2>3, <3>2, <1>m DEF AskGone, Movers
      <4>2. \A n \in Machine : copy[n].st # "none" => record' # n /\ left'[n] = "here"
        BY <3>1, <4>1, <1>g, <1>m, MachineAssumption
      <4>. QED
        BY <3>1, <4>1, <4>2, <1>q DEF Gone, Moving, Over
    <3>3. CASE ~Moving
      <4>1. UNCHANGED <<left, mv>> /\ mover'.pc \notin Late \cup {"ask", "row"}
        BY <2>3, <3>3, <1>e DEF AskGone
      <4>. QED
        BY <3>1, <3>3, <4>1, <1>g, MachineAssumption DEF Gone, Moving
    <3>. QED
      BY <3>2, <3>3
  <2>4. CASE There
    <3>1. ~mv.made /\ UNCHANGED <<record, mv, copy, left>>
      BY <2>4, <1>g, <1>s DEF There, InMove
    <3>2. Go("stop") \/ Go("deleteOld")
      BY <2>4, <3>1 DEF There
    <3>. QED
      BY <3>1, <3>2, <1>n, <1>o
  <2>5. CASE WaitAgain
    BY <2>5, <1>g DEF WaitAgain, Late
  <2>6. CASE DeleteOld
    <3>1. CASE Abandon /\ UNCHANGED copy
      BY <2>6, <3>1, <1>a DEF DeleteOld
    <3>2. CASE Go("stop") /\ copy' = [copy EXCEPT ![mover.to] = NoCopy]
      <4>1. \A n \in Machine : copy'[n].st # "none" => copy[n].st # "none"
        BY <3>2, <1>m DEF NoCopy
      <4>. QED
        BY <2>6, <3>2, <4>1, <1>k, <1>o DEF DeleteOld
    <3>. QED
      BY <2>6, <3>1, <3>2 DEF DeleteOld
  <2>7. CASE StopFrom
    BY <2>7, <1>d, <1>o DEF StopFrom
  <2>8. CASE CopyFolder
    <3>1. copy[mover.from].st = "none"
      BY <2>8, <1>g, <1>s DEF CopyFolder, InMove
    <3>. QED
      BY <2>8, <3>1, <1>a DEF CopyFolder
  <2>9. CASE MoveIn
    BY <2>9, <1>g DEF MoveIn, Late
  <2>10. CASE NameMade
    BY <2>10, <1>g DEF NameMade, Late
  <2>11. CASE Wait
    BY <2>11, <1>g DEF Wait, Late
  <2>12. CASE CopyState
    BY <2>12, <1>g DEF CopyState, Late
  <2>13. CASE SendLimits
    BY <2>13, <1>g DEF SendLimits, Late
  <2>14. CASE SwitchServer
    BY <2>14, <1>g DEF SwitchServer, Late
  <2>15. CASE HeldStop
    BY <2>15, <1>d, <1>o DEF HeldStop, Over
  <2>16. CASE LeaveFrom
    BY <2>16, <1>l, <1>s, <1>e DEF LeaveFrom, LeaveStep
  <2>17. CASE EndMove
    <3>1. UNCHANGED <<record, copy>> /\ left' = [left EXCEPT ![mv.to] = "here"] /\ mv' = NoMove
      BY <2>17 DEF EndMove
    <3>2. \A n \in Machine : copy[n].st # "none" => record # n /\ left'[n] = "here"
      BY <3>1, <1>g, <1>m
    <3>3. mover'.pc \notin Late \cup {"ask", "row"}
      BY <2>17, <1>o DEF EndMove, Over
    <3>. QED
      BY <3>1, <3>2, <3>3 DEF Gone, Moving
  <2>18. CASE StartAgain
    <3>1. copy' \in {copy, Started(copy, mover.from)} /\ UNCHANGED <<record, mv, left>>
      BY <2>18 DEF StartAgain, Starts
    <3>2. mover'.pc \notin Late \cup {"ask", "row"}
      BY <2>18, <1>o DEF StartAgain, Over
    <3>. QED
      BY <3>1, <3>2, <1>d
  <2>19. CASE LeaveTo
    <3>1. mover'.pc \notin Late \cup {"ask", "row"}
      BY <2>19, <1>m, <1>e DEF LeaveTo, LeaveStep
    <3>. QED
      BY <2>19, <3>1, <1>l, <1>s DEF LeaveTo, LeaveStep
  <2>20. CASE LookApart
    <3>1. mover'.pc \in {"done", "begin", "failed"}
      BY <2>20, <1>m, GoIs DEF LookApart, Idle, Over
    <3>. QED
      BY <2>20, <3>1, <1>n, <1>q DEF LookApart, Over
  <2>21. CASE MoveDone
    BY <2>21, <1>n, <1>q DEF MoveDone
  <2>22. CASE MoveFailed
    BY <2>22, <1>n, <1>q DEF MoveFailed
  <2>23. CASE WriteRow
    <3>1. copy[mover.from].st = "none" /\ ~Moving /\ UNCHANGED <<record, copy, left>>
      BY <2>23, <1>g DEF WriteRow, MoverInv
    <3>2. mv'.from = mover.from /\ ~mv'.made /\ mover'.pc = "there"
      BY <2>23, <1>m, WriteRowIs
    <3>3. \A n \in Machine : copy[n].st # "none" => record # n /\ left[n] = "here"
      BY <3>1, <1>g, MachineAssumption DEF Moving, NoMove
    <3>. QED
      BY <3>1, <3>2, <3>3, <1>q DEF Gone
  <2>. QED
    BY <1>1, <2>1, <2>2, <2>3, <2>4, <2>5, <2>6, <2>7, <2>8, <2>9, <2>10, <2>11,
       <2>12, <2>13, <2>14, <2>15, <2>16, <2>17, <2>18, <2>19, <2>20, <2>21,
       <2>22, <2>23 DEF MoverSteps
<1>2. ASSUME NEW m \in Machine, StartMove(m) PROVE Gone'
  <2>1. mover'.pc = "begin"
    BY <1>2 DEF StartMove, Idle
  <2>. QED
    BY <1>2, <2>1, <1>n, <1>q DEF StartMove
<1>3. ASSUME NEW m \in Machine, List(m) PROVE Gone'
  BY <1>3, <1>u DEF List
<1>4. ASSUME NEW m \in Machine, SyncReads(m) PROVE Gone'
  BY <1>4, <1>u DEF SyncReads
<1>5. ASSUME NEW m \in Machine, Leftover(m) PROVE Gone'
  BY <1>5, <1>l DEF Leftover
<1>6. ASSUME NEW m \in Machine, MoveInEnds(m) PROVE Gone'
  BY <1>6, <1>k, <1>m DEF MoveInEnds, Copy
<1>7. ASSUME NEW m \in Machine, MoveInFails(m) PROVE Gone'
  BY <1>7, <1>k, <1>m DEF MoveInFails, Copy
<1>8. CASE ResumeMove
  <2>1. mover'.pc = "begin"
    BY <1>8 DEF ResumeMove, Idle
  <2>. QED
    BY <1>8, <2>1, <1>n, <1>q DEF ResumeMove
<1>9. CASE StartAgainFails
  <2>1. mover'.pc \notin Late \cup {"ask", "row"}
    BY <1>9, <1>o DEF StartAgainFails, Over
  <2>. QED
    BY <1>9, <2>1, <1>d DEF StartAgainFails
<1>10. CASE StepFails
  <2>1. UNCHANGED <<record, mv, left>>
    BY <1>10 DEF StepFails
  <2>2. mover'.pc \notin Late \cup {"ask", "row"}
    <3>1. CASE Go("failed") \/ Go("leaveFrom") \/ Go("deleteOld")
      BY <3>1, <1>o DEF Over
    <3>2. CASE Ends(IF At("leaveFrom") THEN "apart" ELSE mover.then)
      BY <3>2, <1>m, <1>e
    <3>3. CASE Abandon
      BY <3>3, <1>m, <1>q, AbandonIs
    <3>. QED
      BY <1>10, <3>1, <3>2, <3>3 DEF StepFails
  <2>3. copy' \in {copy, Stopped(copy, mover.from)}
    BY <1>10, <1>g DEF StepFails, Late
  <2>. QED
    BY <2>1, <2>2, <2>3, <1>d
<1>11. CASE RetryLooks
  BY <1>11, <1>u DEF RetryLooks
<1>12. CASE RetryStarts
  BY <1>12, <1>d DEF RetryStarts, Starts
<1>13. CASE RetryFails
  BY <1>13, <1>u DEF RetryFails
<1>14. CASE PauseMarks
  BY <1>14, <1>u DEF PauseMarks
<1>15. CASE PauseLooks
  BY <1>15, <1>u DEF PauseLooks
<1>16. CASE PauseStops
  BY <1>16, <1>d DEF PauseStops
<1>17. CASE Renew
  BY <1>17, <1>u DEF Renew
<1>18. ASSUME NEW on \in BOOLEAN, UserRuns(on) PROVE Gone'
  BY <1>18, <1>k, <1>m DEF UserRuns, Copy
<1>19. CASE UserDeletes
  BY <1>19, <1>k, <1>m DEF UserDeletes, NoCopy
<1>20. CASE Play
  BY <1>20, <1>k, <1>m DEF Play, Copy
<1>21. CASE Claim
  <2>1. \A n \in Machine : left[n] = "here" => left'[n] = "here"
    BY <1>21, <1>m DEF Claim
  <2>2. UNCHANGED <<mv, copy, mover>>
    BY <1>21 DEF Claim
  <2>3. \/ record' \in {record, None}
        \/ record' = listing.on /\ left[listing.on] # "here" /\ mv.to # listing.on
    BY <1>21 DEF Claim, Hidden, HiddenNow
  <2>4. \A n \in Machine : copy[n].st # "none" => record' # n /\ (left'[n] = "here" \/ mv.to = n)
    BY <2>1, <2>3, <1>g, MachineAssumption
  <2>. QED
    BY <2>2, <2>4, <1>g DEF Gone, Moving
<1>22. CASE SyncSends
  BY <1>22, <1>u DEF SyncSends
<1>23. CASE Restart
  BY <1>23, <1>n, <1>q DEF Restart
<1>24. CASE UNCHANGED vars
  BY <1>24, <1>u DEF vars
<1>. QED
  BY <1>1, <1>2, <1>3, <1>4, <1>5, <1>6, <1>7, <1>8, <1>9, <1>10, <1>11, <1>12,
     <1>13, <1>14, <1>15, <1>16, <1>17, <1>18, <1>19, <1>20, <1>21, <1>22,
     <1>23, <1>24 DEF Next

LEMMA GoneStep ==
    ASSUME Types, MoverInv, PlaceInv, GoneInv, [Next]_vars PROVE GoneInv'
<1>1. CASE deleted
  BY <1>1, GoneStays DEF GoneInv
<1>2. CASE ~deleted /\ ~deleted'
  BY <1>2 DEF GoneInv
<1>3. CASE ~deleted /\ UserDeletes
  <2>1. Located /\ CopiesKnown
    BY <1>3 DEF PlaceInv
  <2>2. /\ ~Moving /\ mv' = mv /\ mover' = mover /\ record' = record /\ left' = left
        /\ copy' = [copy EXCEPT ![record] = NoCopy]
    BY <1>3 DEF UserDeletes, Reached, tables
  <2>3. mv.to = None
    BY <2>2 DEF Moving, NoMove
  <2>4. \A n \in Machine : copy'[n].st # "none" => copy[n].st # "none" /\ n # record
    BY <2>1, <2>2 DEF Types, NoCopy, Located
  <2>5. copy'[record].st = "none"
    BY <2>1, <2>2 DEF Types, NoCopy, Located
  <2>6. \A n \in Machine : copy'[n].st # "none" => left[n] = "here"
    BY <1>3, <2>3, <2>4, MachineAssumption, <2>1 DEF CopiesKnown
  <2>7. mover.pc \in {"ask", "row"} => mover.from = record
    BY <2>1 DEF Located
  <2>8. mover.pc \notin Late
    BY <2>2 DEF MoverInv, InMove, Late
  <2>. QED
    BY <2>2, <2>4, <2>5, <2>6, <2>7, <2>8 DEF GoneInv, Gone, Moving
<1>. QED
  BY <1>1, <1>2, <1>3, DeletedOnce

-----------------------------------------------------------------------------
(* What the disk limits count                                              *)

(* The machine of the server's record counts it, and so does the one its   *)
(* requests are about to go to; limits on their way to it do as well.      *)
Counted ==
    /\ limit[record]
    /\ sync.on = record => sync.counts
    /\ At("switch") => sync = NoSync /\ limit[mv.to]

LimitInv == ~deleted => Counted

LEMMA LimitInit == Init => LimitInv
<1> SUFFICES ASSUME Init PROVE Counted
  BY DEF LimitInv
<1>1. sync.on = None /\ record \in Machine /\ limit[record] /\ mover.pc = "idle"
  BY DEF Init, NoSync, Idle
<1>. QED
  BY <1>1, MachineAssumption DEF Counted, At

LEMMA CountedStep ==
    ASSUME Types, MoverInv, Located, HasIt, Listed, Counted, [Next]_vars
    PROVE  Counted'
<1> USE DEF At
<1>m. /\ mover \in Movers /\ mv \in Rows /\ limit \in [Machine -> BOOLEAN]
      /\ sync \in Syncs /\ InMove \cup Over \cup {"ask", "begin"} \subseteq Steps
      /\ mover.then \in {"begin", "failed"}
  BY DEF Types, Steps, InMove, Over, Movers
<1>s. /\ record \in Machine /\ (mover.pc \in InMove => Moving)
      /\ mover.pc \in InMove => mover.from = mv.from /\ mover.to = mv.to
      /\ Moving => mv.to \in Machine /\ mv.to # record
  BY DEF Located, MoverInv, AsTheRow, Distinct
<1>u. UNCHANGED <<record, mv, limit, sync, mover>> => Counted'
  BY DEF Counted
<1>n. UNCHANGED <<record, limit, sync>> /\ mover'.pc # "switch" => Counted'
  BY DEF Counted
<1>g. ASSUME NEW pc \in (InMove \cup Over) \ {"switch"}, Go(pc),
             UNCHANGED <<record, limit, sync>>
      PROVE  Counted'
  BY <1>g, <1>n, <1>m, GoIs
<1>e. ASSUME NEW pc \in {"begin", "apart", "failed"}, Ends(pc),
             UNCHANGED <<record, limit, sync>>
      PROVE  Counted'
  BY <1>e, <1>n, <1>m, EndsIs DEF Over
<1>b. Abandon /\ UNCHANGED <<record, limit, sync>> => Counted'
  BY <1>n, <1>m, AbandonIs
<1>i. Idle.pc = "idle"
  BY DEF Idle
<1> USE DEF tables, tasks, agents, history
<1>1. CASE MoverSteps
  <2>1. CASE Begin
    <3>1. mover'.pc \in {"ask", "abandon", "apart"}
      <4>1. Ends("apart") => mover'.pc = "apart"
        BY <1>m, EndsIs DEF Over
      <4>. QED
        BY <2>1, <4>1, <1>m DEF Begin, Movers
    <3>. QED
      BY <2>1, <3>1, <1>n DEF Begin
  <2>2. CASE AskFound
    BY <2>2, <1>n, <1>m, AskFoundIs DEF AskFound
  <2>3. CASE AskGone
    BY <2>3, NeverGone
  <2>4. CASE There
    BY <2>4, <1>g DEF There, InMove, Over
  <2>5. CASE WaitAgain
    BY <2>5, <1>g DEF WaitAgain, InMove, Over
  <2>6. CASE DeleteOld
    BY <2>6, <1>g, <1>b DEF DeleteOld, InMove
  <2>7. CASE StopFrom
    BY <2>7, <1>g DEF StopFrom, InMove, Over
  <2>8. CASE CopyFolder
    BY <2>8, <1>n, <1>b, <1>m DEF CopyFolder, Movers
  <2>9. CASE MoveIn
    BY <2>9, <1>g DEF MoveIn, InMove, Over
  <2>10. CASE NameMade
    BY <2>10, <1>g DEF NameMade, InMove, Over
  <2>11. CASE Wait
    BY <2>11, <1>g, <1>b DEF Wait, InMove
  <2>12. CASE CopyState
    BY <2>12, <1>g DEF CopyState, InMove, Over
  <2>13. CASE SendLimits
    <3>1. mover.to = mv.to /\ mv.to \in Machine /\ limit' = [limit EXCEPT ![mv.to] = TRUE]
      BY <2>13, <1>s DEF SendLimits, InMove
    <3>2. limit'[record] /\ limit'[mv.to]
      BY <3>1, <1>m, <1>s DEF Counted
    <3>3. sync = NoSync /\ UNCHANGED <<record, mv, sync>>
      BY <2>13 DEF SendLimits
    <3>. QED
      BY <3>2, <3>3 DEF Counted
  <2>14. CASE SwitchServer
    <3>1. /\ mover.to = mv.to /\ mv.to \in Machine /\ record' = mv.to
          /\ UNCHANGED <<limit, sync>>
      BY <2>14, <1>s DEF SwitchServer, InMove
    <3>2. mover'.pc = "heldStop"
      BY <2>14, <1>m, GoIs DEF SwitchServer, Over
    <3>3. sync = NoSync /\ limit[mv.to]
      BY <2>14 DEF SwitchServer, Counted
    <3>4. sync.on # mv.to
      BY <3>1, <3>3, MachineAssumption DEF NoSync
    <3>. QED
      BY <3>1, <3>2, <3>3, <3>4 DEF Counted
  <2>15. CASE HeldStop
    BY <2>15, <1>g DEF HeldStop, InMove, Over
  <2>16. CASE LeaveFrom
    BY <2>16, <1>e, <1>m DEF LeaveFrom, LeaveStep
  <2>17. CASE EndMove
    BY <2>17, <1>g DEF EndMove, InMove, Over
  <2>18. CASE StartAgain
    BY <2>18, <1>g DEF StartAgain, Starts, Over
  <2>19. CASE LeaveTo
    BY <2>19, <1>e, <1>m DEF LeaveTo, LeaveStep
  <2>20. CASE LookApart
    <3>1. mover'.pc # "switch"
      BY <2>20, <1>m, GoIs DEF LookApart, Idle, Over
    <3>. QED
      BY <2>20, <3>1, <1>n DEF LookApart
  <2>21. CASE MoveDone
    BY <2>21, <1>n, <1>i DEF MoveDone
  <2>22. CASE MoveFailed
    BY <2>22, <1>n, <1>i DEF MoveFailed
  <2>23. CASE WriteRow
    BY <2>23, <1>n, <1>m, WriteRowIs DEF WriteRow
  <2>. QED
    BY <1>1, <2>1, <2>2, <2>3, <2>4, <2>5, <2>6, <2>7, <2>8, <2>9, <2>10, <2>11,
       <2>12, <2>13, <2>14, <2>15, <2>16, <2>17, <2>18, <2>19, <2>20, <2>21,
       <2>22, <2>23 DEF MoverSteps
<1>2. ASSUME NEW m \in Machine, StartMove(m) PROVE Counted'
  BY <1>2, <1>n, <1>i DEF StartMove, Idle
<1>3. ASSUME NEW m \in Machine, List(m) PROVE Counted'
  BY <1>3, <1>u DEF List
<1>4. ASSUME NEW m \in Machine, SyncReads(m) PROVE Counted'
  <2>1. UNCHANGED <<record, mv, limit, mover>> /\ mover.pc # "switch"
    BY <1>4 DEF SyncReads
  <2>2. sync'.on = m /\ sync'.counts = (copy[m].st # "none" /\ ~HiddenNow(m))
    BY <1>4 DEF SyncReads
  <2>3. m = record => sync'.counts
    BY <2>2, InTheOpen DEF HasIt, Whole, Hidden
  <2>. QED
    BY <2>1, <2>2, <2>3 DEF Counted
<1>5. ASSUME NEW m \in Machine, Leftover(m) PROVE Counted'
  BY <1>5, <1>u DEF Leftover
<1>6. ASSUME NEW m \in Machine, MoveInEnds(m) PROVE Counted'
  BY <1>6, <1>u DEF MoveInEnds
<1>7. ASSUME NEW m \in Machine, MoveInFails(m) PROVE Counted'
  BY <1>7, <1>u DEF MoveInFails
<1>8. CASE ResumeMove
  BY <1>8, <1>n, <1>i DEF ResumeMove, Idle
<1>9. CASE StartAgainFails
  BY <1>9, <1>g DEF StartAgainFails, Over
<1>10. CASE StepFails
  <2>1. UNCHANGED <<record, limit, sync>>
    BY <1>10 DEF StepFails
  <2>2. CASE Abandon
    BY <2>1, <2>2, <1>b
  <2>3. CASE Go("failed") \/ Go("deleteOld") \/ Go("leaveFrom")
    BY <2>1, <2>3, <1>g DEF InMove, Over
  <2>4. CASE Ends(IF At("leaveFrom") THEN "apart" ELSE mover.then)
    BY <2>1, <2>4, <1>e, <1>m
  <2>. QED
    BY <1>10, <2>2, <2>3, <2>4 DEF StepFails
<1>11. CASE RetryLooks
  BY <1>11, <1>u DEF RetryLooks
<1>12. CASE RetryStarts
  BY <1>12, <1>u DEF RetryStarts, Starts
<1>13. CASE RetryFails
  BY <1>13, <1>u DEF RetryFails
<1>14. CASE PauseMarks
  BY <1>14, <1>u DEF PauseMarks
<1>15. CASE PauseLooks
  BY <1>15, <1>u DEF PauseLooks
<1>16. CASE PauseStops
  BY <1>16, <1>u DEF PauseStops
<1>17. CASE Renew
  BY <1>17, <1>u DEF Renew
<1>18. ASSUME NEW on \in BOOLEAN, UserRuns(on) PROVE Counted'
  BY <1>18, <1>u DEF UserRuns
<1>19. CASE UserDeletes
  BY <1>19, <1>u DEF UserDeletes
<1>20. CASE Play
  BY <1>20, <1>u DEF Play
<1>21. CASE Claim
  BY <1>21, <1>u, ClaimKeeps DEF Claim
<1>22. CASE SyncSends
  <2>1. UNCHANGED <<record, mv, mover>> /\ mover.pc # "switch" /\ sync' = NoSync
    BY <1>22 DEF SyncSends, Counted
  <2>2. limit'[record]
    BY <1>22, <1>m, <1>s DEF SyncSends, Counted
  <2>3. sync'.on # record
    BY <2>1, <1>s, MachineAssumption DEF NoSync
  <2>. QED
    BY <2>1, <2>2, <2>3 DEF Counted
<1>23. CASE Restart
  <2>1. UNCHANGED <<record, limit>> /\ mover'.pc = "idle" /\ sync' = NoSync
    BY <1>23, <1>i DEF Restart
  <2>2. sync'.on # record
    BY <2>1, <1>s, MachineAssumption DEF NoSync
  <2>. QED
    BY <2>1, <2>2 DEF Counted
<1>24. CASE UNCHANGED vars
  BY <1>24, <1>u DEF vars
<1>. QED
  BY <1>1, <1>2, <1>3, <1>4, <1>5, <1>6, <1>7, <1>8, <1>9, <1>10, <1>11, <1>12,
     <1>13, <1>14, <1>15, <1>16, <1>17, <1>18, <1>19, <1>20, <1>21, <1>22,
     <1>23, <1>24 DEF Next

LEMMA LimitStep ==
    ASSUME Types, MoverInv, PlaceInv, LimitInv, [Next]_vars PROVE LimitInv'
<1>1. CASE deleted'
  BY <1>1 DEF LimitInv
<1>2. CASE ~deleted'
  <2>1. ~deleted
    BY <1>2, DeletedOnce
  <2>. QED
    BY <2>1, CountedStep DEF PlaceInv, LimitInv
<1>. QED
  BY <1>1, <1>2

-----------------------------------------------------------------------------
(* The tables and the agents agree, whatever the windows                   *)

TableInv == Types /\ MoverInv /\ PlaceInv /\ GoneInv /\ LimitInv

LEMMA TableInit == Init => TableInv
  BY TypeInit, MoverInit, PlaceInit, LimitInit DEF TableInv, GoneInv, Init

LEMMA TableStep == TableInv /\ [Next]_vars => TableInv'
<1> SUFFICES ASSUME TableInv, [Next]_vars PROVE TableInv'
  OBVIOUS
<1>1. Types /\ MoverInv /\ PlaceInv /\ GoneInv /\ LimitInv
  BY DEF TableInv
<1>2. Types'
  BY <1>1, TypeStep
<1>3. MoverInv'
  BY <1>1, MoverStep
<1>4. PlaceInv' /\ GoneInv' /\ LimitInv'
  BY <1>1, PlaceStep, GoneStep, LimitStep
<1>. QED
  BY <1>2, <1>3, <1>4 DEF TableInv

(* The rows, the agents' copies and the mover's goroutine have their types, *)
(* for any machines and bounds.                                             *)
THEOREM MoveTypeCorrect == Spec => []TypeOK
<1>1. TableInv => TypeOK
  BY TypesAre DEF TableInv
<1>. QED
  BY <1>1, TableInit, TableStep, PTL DEF Spec

(* TablesAgree: wherever a move stops, at any step that fails and any       *)
(* restart, the dashboard knows where the server and every copy of it are,  *)
(* and the machine its requests go to counts it against its disk limit; for *)
(* any number of machines and moves, and with every window open.            *)
THEOREM TheTablesAgree == Spec => []TablesAgree
<1>1. ASSUME TableInv PROVE TablesAgree
  <2>1. StaysKnown
    BY <1>1, MachineAssumption DEF TableInv, PlaceInv, Located, StaysKnown
  <2>2. CopiesKnown
    BY <1>1 DEF TableInv, PlaceInv, CopiesKnown
  <2>3. CASE deleted
    <3>1. record \in Machine => copy[record].st = "none"
      BY <1>1, <2>3 DEF TableInv, GoneInv, Gone
    <3>2. record # None => record \in Machine
      BY <1>1 DEF TableInv, Types, Somewhere
    <3>. QED
      BY <2>1, <2>2, <3>1, <3>2
      DEF TablesAgree, NoneForgotten, CountedWhereItIs, Reached, Whole
  <2>4. CASE ~deleted
    BY <1>1, <2>1, <2>2, <2>4
    DEF TableInv, LimitInv, Counted, TablesAgree, NoneForgotten, CountedWhereItIs
  <2>. QED
    BY <2>3, <2>4
<1>. QED
  BY <1>1, TableInit, TableStep, PTL DEF Spec

-----------------------------------------------------------------------------
(* The newest world, with lateRestart closed                               *)

RestartsInTime == "lateRestart" \notin Windows

(* From the upload on the server stays stopped where it is, so that it is  *)
(* not played, and a copy that this move made has the world as it is: the  *)
(* mover knows which are its own, and after a restart the row does.        *)
Sent == {"made", "wait", "state", "limits", "switch"}
Ours == mv.made \/ mover.pc \in Sent
Sound == Whole \cup {"making"}

Newest ==
    /\ copy[record].world = newest
    /\ Ours \/ At("moveIn") => copy[record].st = "stopped"
    /\ At("moveIn") => mover.world = newest
    /\ Ours /\ copy[mv.to].st \in Sound => copy[mv.to].world = newest

WorldInv == ~deleted => Newest

LEMMA WorldInit == Init => WorldInv
<1> SUFFICES ASSUME Init PROVE Newest
  BY DEF WorldInv
<1>1. mover.pc = "idle" /\ ~mv.made
  BY DEF Init, Idle, NoMove
<1>2. copy[record].world = newest
  BY DEF Init, NoCopy
<1>. QED
  BY <1>1, <1>2 DEF Newest, Ours, Sent, At

LEMMA NewestStep ==
    ASSUME RestartsInTime, Types, MoverInv, Located, HasIt, Listed, Newest, [Next]_vars
    PROVE  ~deleted' => Newest'
<1> SUFFICES ASSUME ~deleted' PROVE Newest'
  OBVIOUS
<1> USE DEF At
<1>m. /\ mover \in Movers /\ mv \in Rows /\ copy \in [Machine -> Copy]
      /\ InMove \cup Over \cup {"ask", "begin"} \subseteq Steps
      /\ mover.then \in {"begin", "failed"}
  BY DEF Types, Steps, InMove, Over, Movers
<1>s. /\ mover.pc \in InMove => Moving /\ mover.from = mv.from /\ mover.to = mv.to
      /\ Ours => Moving
  BY DEF MoverInv, AsTheRow, Ours, Sent, InMove, Moving, NoMove
<1>t. /\ record \in Machine /\ copy[record].st \in Whole
      /\ Moving => mv.from = record /\ mv.to \in Machine /\ mv.to # record
  BY DEF Located, HasIt, MoverInv, Distinct
<1>p. /\ Sent \subseteq InMove /\ "moveIn" \in InMove
      /\ ({"ask", "row", "begin", "abandon", "stop", "copy", "there", "waitAgain", "deleteOld"} \cup Over)
           \cap (Sent \cup {"moveIn"}) = {}
      /\ Idle.pc \notin Sent \cup {"moveIn"}
  BY DEF Sent, InMove, Over, Idle
<1>k. ASSUME UNCHANGED <<record, mv, newest>>, copy'[record].world = copy[record].world,
             Moving /\ copy[record].st = "stopped" => copy'[record].st = "stopped",
             Moving /\ copy'[mv.to].st \in Sound =>
               copy[mv.to].st \in Sound /\ copy'[mv.to].world = copy[mv.to].world,
             mover'.pc \in Sent => Ours, mover' = mover \/ mover'.pc # "moveIn"
      PROVE  Newest'
  BY <1>k, <1>s, <1>p DEF Newest, Ours
<1>u. UNCHANGED <<record, mv, newest, copy, mover>> => Newest'
  BY <1>k DEF Ours
<1>n. ASSUME UNCHANGED <<record, mv, newest, copy>>, mover'.pc # "moveIn",
             mover'.pc \in Sent => Ours
      PROVE  Newest'
  BY <1>n, <1>k
<1>g. ASSUME NEW pc \in (InMove \cup Over) \ {"moveIn"}, Go(pc), pc \in Sent => Ours,
             UNCHANGED <<record, mv, newest, copy>>
      PROVE  Newest'
  BY <1>g, <1>n, <1>m, GoIs
<1>e. ASSUME NEW pc \in {"begin", "apart", "failed"}, Ends(pc),
             UNCHANGED <<record, mv, newest, copy>>
      PROVE  Newest'
  BY <1>e, <1>n, <1>m, <1>p, EndsIs DEF Over
<1>b. Abandon /\ UNCHANGED <<record, mv, newest, copy>> => Newest'
  BY <1>n, <1>m, <1>p, AbandonIs
<1>d. ASSUME NEW m,
             copy' = copy \/ copy' = Stopped(copy, m) \/ (~Moving /\ copy' = Started(copy, m)),
             UNCHANGED <<record, mv, newest>>,
             mover'.pc \in Sent => Ours, mover' = mover \/ mover'.pc # "moveIn"
      PROVE  Newest'
  <2>1. \A n \in Machine :
          /\ copy'[n].world = copy[n].world
          /\ Moving /\ copy[n].st = "stopped" => copy'[n].st = "stopped"
          /\ copy'[n].st \in Sound => copy[n].st \in Sound
    BY <1>d, <1>m, StoppedIs, StartedIs DEF Whole, Sound
  <2>. QED
    BY <1>d, <2>1, <1>k, <1>t
<1>l. ASSUME NEW m, LeaveCopy(m) \/ UNCHANGED copy, UNCHANGED <<record, mv, newest>>,
             mover' = mover \/ mover'.pc \notin Sent \cup {"moveIn"}
      PROVE  Newest'
  <2>1. copy'[record] = copy[record] /\ (Moving => copy'[mv.to] = copy[mv.to])
    BY <1>l, <1>t, LeaveKeeps
  <2>2. mover'.pc \in Sent => Ours
    BY <1>l DEF Ours
  <2>. QED
    BY <1>l, <2>1, <2>2, <1>k
<1> USE DEF tables, tasks, agents, history
<1>1. CASE MoverSteps
  <2>1. CASE Begin
    <3>1. mover'.pc \in {"ask", "abandon", "apart"}
      <4>1. Ends("apart") => mover'.pc = "apart"
        BY <1>m, EndsIs DEF Over
      <4>. QED
        BY <2>1, <4>1, <1>m DEF Begin, Movers
    <3>. QED
      BY <2>1, <3>1, <1>n, <1>p DEF Begin, Over
  <2>2. CASE AskFound
    <3>1. mover'.pc \in {"there", "row"}
      BY <2>2, <1>m, AskFoundIs
    <3>. QED
      BY <2>2, <3>1, <1>n, <1>p DEF AskFound
  <2>3. CASE AskGone
    BY <2>3, NeverGone
  <2>4. CASE There
    <3>1. CASE Go("state")
      <4>1. mv.made
        <5>1. Go("state") => ~Go("stop") /\ ~Go("waitAgain") /\ ~Go("deleteOld")
          BY <1>m, GoIs DEF InMove
        <5>. QED
          BY <2>4, <3>1, <5>1 DEF There
      <4>. QED
        BY <2>4, <3>1, <4>1, <1>g DEF There, InMove, Ours
    <3>. QED
      BY <2>4, <3>1, <1>g, <1>p DEF There, InMove
  <2>5. CASE WaitAgain
    BY <2>5, <1>g, <1>p DEF WaitAgain, InMove, Ours, MoverInv
  <2>6. CASE DeleteOld
    <3>1. CASE Abandon /\ UNCHANGED copy
      BY <2>6, <3>1, <1>b DEF DeleteOld
    <3>2. CASE Go("stop") /\ copy' = [copy EXCEPT ![mover.to] = NoCopy]
      <4>1. /\ copy'[record] = copy[record] /\ copy'[mv.to].st = "none"
            /\ UNCHANGED <<record, mv, newest>>
        BY <2>6, <3>2, <1>m, <1>s, <1>t DEF DeleteOld, InMove, NoCopy
      <4>2. mover'.pc = "stop"
        BY <3>2, <1>m, GoIs DEF InMove
      <4>3. "none" \notin Sound
        BY DEF Sound, Whole
      <4>. QED
        BY <4>1, <4>2, <4>3, <1>k, <1>p
    <3>. QED
      BY <2>6, <3>1, <3>2 DEF DeleteOld
  <2>7. CASE StopFrom
    <3>1. mover'.pc = "copy"
      BY <2>7, <1>m, GoIs DEF StopFrom, InMove
    <3>. QED
      BY <2>7, <3>1, <1>d, <1>p DEF StopFrom
  <2>8. CASE CopyFolder
    <3>1. CASE Abandon
      BY <2>8, <3>1, <1>b DEF CopyFolder
    <3>2. CASE /\ copy[mover.from].st = "stopped"
               /\ mover' = [mover EXCEPT !.pc = "moveIn", !.world = copy[mover.from].world]
      <4>1. mover.from = record /\ UNCHANGED <<record, mv, newest, copy>>
        BY <2>8, <1>s, <1>t DEF CopyFolder, InMove
      <4>2. mover'.pc = "moveIn" /\ mover'.world = copy[record].world
        BY <3>2, <4>1, <1>m DEF Movers
      <4>3. "moveIn" \notin Sent
        BY DEF Sent
      <4>4. copy[record].st = "stopped" /\ copy[record].world = newest
        BY <3>2, <4>1 DEF Newest
      <4>. QED
        BY <4>1, <4>2, <4>3, <4>4 DEF Newest, Ours
    <3>. QED
      BY <2>8, <3>1, <3>2 DEF CopyFolder
  <2>9. CASE MoveIn
    <3>1. mover'.pc = "made" /\ mover.to = mv.to /\ Moving
      BY <2>9, <1>m, <1>s, GoIs DEF MoveIn, InMove
    <3>2. mv'.to = mv.to /\ UNCHANGED <<record, newest>>
      BY <2>9, <1>m DEF MoveIn, Rows
    <3>3. copy'[record] = copy[record] /\ copy'[mv.to].world = mover.world
      BY <2>9, <3>1, <1>m, <1>t, TakenIs DEF MoveIn
    <3>4. mover.world = newest /\ copy[record].st = "stopped"
      BY <2>9 DEF MoveIn, Newest
    <3>. QED
      BY <3>1, <3>2, <3>3, <3>4 DEF Newest, Ours
  <2>10. CASE NameMade
    <3>1. mover'.pc = "wait" /\ mover.pc \in Sent
      BY <2>10, <1>m, GoIs DEF NameMade, InMove, Sent
    <3>2. mv'.to = mv.to /\ UNCHANGED <<record, newest, copy>>
      BY <2>10, <1>m DEF NameMade, Rows
    <3>. QED
      BY <3>1, <3>2 DEF Newest, Ours
  <2>11. CASE Wait
    BY <2>11, <1>g, <1>b, <1>p DEF Wait, InMove, Ours, Sent
  <2>12. CASE CopyState
    BY <2>12, <1>g DEF CopyState, InMove, Ours, Sent
  <2>13. CASE SendLimits
    BY <2>13, <1>g DEF SendLimits, InMove, Ours, Sent
  <2>14. CASE SwitchServer
    <3>1. mover'.pc = "heldStop"
      BY <2>14, <1>m, GoIs DEF SwitchServer, Over
    <3>2. record' = mv.to /\ mv' = NoMove /\ UNCHANGED <<copy, newest>>
      BY <2>14, <1>s DEF SwitchServer, InMove
    <3>3. copy[mv.to].st \in Sound /\ Ours
      BY <2>14 DEF SwitchServer, HasIt, Switching, Sound, Ours, Sent
    <3>4. copy[mv.to].world = newest
      BY <3>3 DEF Newest
    <3>5. ~mv'.made
      BY <3>2 DEF NoMove
    <3>. QED
      BY <3>1, <3>2, <3>4, <3>5 DEF Newest, Ours, Sent
  <2>15. CASE HeldStop
    <3>1. mover'.pc = "leaveFrom"
      BY <2>15, <1>m, GoIs DEF HeldStop, Over
    <3>. QED
      BY <2>15, <3>1, <1>d, <1>p DEF HeldStop, Over
  <2>16. CASE LeaveFrom
    <3>1. mover'.pc \in {"begin", "apart", "failed"}
      BY <2>16, <1>m, EndsIs DEF LeaveFrom, LeaveStep, Over
    <3>. QED
      BY <2>16, <3>1, <1>l, <1>p DEF LeaveFrom, LeaveStep, Over
  <2>17. CASE EndMove
    <3>1. mover'.pc = "abStart"
      BY <2>17, <1>m, GoIs DEF EndMove, Over
    <3>2. UNCHANGED <<record, newest, copy>> /\ ~mv'.made
      BY <2>17 DEF EndMove, NoMove
    <3>. QED
      BY <3>1, <3>2 DEF Newest, Ours, Sent
  <2>18. CASE StartAgain
    <3>1. mover'.pc = "leaveTo" /\ ~Moving
      BY <2>18, <1>m, GoIs DEF StartAgain, Starts, Over, MoverInv
    <3>. QED
      BY <2>18, <3>1, <1>d, <1>p DEF StartAgain, Starts, Over
  <2>19. CASE LeaveTo
    <3>1. mover'.pc \in {"begin", "apart", "failed"}
      BY <2>19, <1>m, EndsIs DEF LeaveTo, LeaveStep, Over
    <3>. QED
      BY <2>19, <3>1, <1>l, <1>p DEF LeaveTo, LeaveStep, Over
  <2>20. CASE LookApart
    <3>1. mover'.pc \in {"begin", "done", "failed"}
      BY <2>20, <1>m, GoIs DEF LookApart, Idle, Over
    <3>. QED
      BY <2>20, <3>1, <1>n, <1>p DEF LookApart, Over
  <2>21. CASE MoveDone
    BY <2>21, <1>n, <1>p DEF MoveDone
  <2>22. CASE MoveFailed
    BY <2>22, <1>n, <1>p DEF MoveFailed
  <2>23. CASE WriteRow
    <3>1. mover'.pc = "there" /\ ~mv'.made
      BY <2>23, <1>m, WriteRowIs
    <3>2. UNCHANGED <<record, newest, copy>>
      BY <2>23 DEF WriteRow
    <3>. QED
      BY <3>1, <3>2, <1>p DEF Newest, Ours
  <2>. QED
    BY <1>1, <2>1, <2>2, <2>3, <2>4, <2>5, <2>6, <2>7, <2>8, <2>9, <2>10, <2>11,
       <2>12, <2>13, <2>14, <2>15, <2>16, <2>17, <2>18, <2>19, <2>20, <2>21,
       <2>22, <2>23 DEF MoverSteps
<1>2. ASSUME NEW m \in Machine, StartMove(m) PROVE Newest'
  BY <1>2, <1>n, <1>p DEF StartMove, Idle
<1>3. ASSUME NEW m \in Machine, List(m) PROVE Newest'
  BY <1>3, <1>u DEF List
<1>4. ASSUME NEW m \in Machine, SyncReads(m) PROVE Newest'
  BY <1>4, <1>u DEF SyncReads
<1>5. ASSUME NEW m \in Machine, Leftover(m) PROVE Newest'
  BY <1>5, <1>l DEF Leftover
<1>6. ASSUME NEW m \in Machine, MoveInEnds(m) PROVE Newest'
  <2>1. \A n \in Machine :
          /\ copy'[n].world = copy[n].world
          /\ copy[n].st \in Whole => copy'[n].st = copy[n].st
          /\ copy'[n].st \in Sound => copy[n].st \in Sound
    BY <1>6, <1>m DEF MoveInEnds, Copy, Whole, Sound
  <2>2. UNCHANGED <<record, mv, newest, mover>>
    BY <1>6 DEF MoveInEnds
  <2>3. mover'.pc \in Sent => Ours
    BY <2>2 DEF Ours
  <2>. QED
    BY <2>1, <2>2, <2>3, <1>k, <1>t
<1>7. ASSUME NEW m \in Machine, MoveInFails(m) PROVE Newest'
  <2>1. \A n \in Machine :
          /\ copy'[n].world = copy[n].world
          /\ copy[n].st \in Whole => copy'[n].st = copy[n].st
          /\ copy'[n].st \in Sound => copy[n].st \in Sound
    BY <1>7, <1>m DEF MoveInFails, Copy, Whole, Sound
  <2>2. UNCHANGED <<record, mv, newest, mover>>
    BY <1>7 DEF MoveInFails
  <2>3. mover'.pc \in Sent => Ours
    BY <2>2 DEF Ours
  <2>. QED
    BY <2>1, <2>2, <2>3, <1>k, <1>t
<1>8. CASE ResumeMove
  BY <1>8, <1>n, <1>p DEF ResumeMove, Idle
<1>9. CASE StartAgainFails
  <2>1. mover'.pc = "leaveTo" /\ ~Moving
    BY <1>9, <1>m, GoIs DEF StartAgainFails, Over, MoverInv
  <2>. QED
    BY <1>9, <2>1, <1>d, <1>p DEF StartAgainFails, Over
<1>10. CASE StepFails
  <2>1. UNCHANGED <<record, mv, newest>>
    BY <1>10 DEF StepFails
  <2>2. CASE Abandon /\ copy' \in {copy, Stopped(copy, mover.from)}
    <3>1. mover'.pc = "abandon"
      BY <2>2, <1>m, AbandonIs
    <3>. QED
      BY <2>1, <2>2, <3>1, <1>d, <1>p
  <2>3. CASE At("moveIn") /\ Abandon /\ Taken(mover.to)
    <3>1. mover'.pc = "abandon" /\ mover.to = mv.to /\ Moving
      BY <2>3, <1>m, <1>s, AbandonIs DEF InMove
    <3>2. copy'[record] = copy[record] /\ copy'[mv.to].world = mover.world
      BY <2>3, <3>1, <1>m, <1>t, TakenIs
    <3>3. mover.world = newest /\ copy[record].st = "stopped"
      BY <2>3 DEF Newest
    <3>. QED
      BY <2>1, <3>1, <3>2, <3>3, <1>p DEF Newest, Ours
  <2>4. CASE copy' = copy /\ (Go("failed") \/ Go("deleteOld") \/ Go("leaveFrom"))
    BY <2>1, <2>4, <1>g, <1>p DEF InMove, Over
  <2>5. CASE copy' = copy /\ Ends(IF At("leaveFrom") THEN "apart" ELSE mover.then)
    BY <2>1, <2>5, <1>e, <1>m
  <2>. QED
    BY <1>10, <2>2, <2>3, <2>4, <2>5 DEF StepFails
<1>11. CASE RetryLooks
  BY <1>11, <1>u DEF RetryLooks
<1>12. CASE RetryStarts
  <2>1. copy' = copy \/ (~Moving /\ copy' = Started(copy, retry))
    BY <1>12 DEF RetryStarts, Starts, RestartsInTime
  <2>2. UNCHANGED <<record, mv, newest, mover>>
    BY <1>12 DEF RetryStarts, Starts
  <2>. QED
    BY <2>1, <2>2, <1>d DEF Ours
<1>13. CASE RetryFails
  BY <1>13, <1>u DEF RetryFails
<1>14. CASE PauseMarks
  BY <1>14, <1>u DEF PauseMarks
<1>15. CASE PauseLooks
  BY <1>15, <1>u DEF PauseLooks
<1>16. CASE PauseStops
  BY <1>16, <1>d DEF PauseStops, Ours
<1>17. CASE Renew
  BY <1>17, <1>u DEF Renew
<1>18. ASSUME NEW on \in BOOLEAN, UserRuns(on) PROVE Newest'
  <2>1. ~Moving /\ UNCHANGED <<record, mv, newest, mover>>
    BY <1>18 DEF UserRuns, Reached
  <2>2. copy'[record].world = copy[record].world
    BY <1>18, <1>m, <1>t DEF UserRuns, Copy
  <2>3. ~Ours
    BY <2>1, <1>s
  <2>4. mover.pc \notin Sent \cup {"moveIn"}
    BY <2>1, <1>s, <1>p
  <2>. QED
    BY <2>1, <2>2, <2>4, <1>k
<1>19. CASE UserDeletes
  BY <1>19 DEF UserDeletes
<1>20. CASE Play
  <2>1. /\ copy[record].st = "running" /\ newest' = newest + 1
        /\ UNCHANGED <<record, mv, mover>>
    BY <1>20 DEF Play
  <2>2. ~Ours /\ mover.pc # "moveIn"
    BY <2>1 DEF Newest
  <2>3. copy'[record].world = newest + 1
    BY <1>20, <1>m, <1>t DEF Play, Copy
  <2>. QED
    BY <2>1, <2>2, <2>3 DEF Newest, Ours
<1>21. CASE Claim
  BY <1>21, <1>u, ClaimKeeps DEF Claim
<1>22. CASE SyncSends
  BY <1>22, <1>u DEF SyncSends
<1>23. CASE Restart
  BY <1>23, <1>n, <1>p DEF Restart
<1>24. CASE UNCHANGED vars
  BY <1>24, <1>u DEF vars
<1>. QED
  BY <1>1, <1>2, <1>3, <1>4, <1>5, <1>6, <1>7, <1>8, <1>9, <1>10, <1>11, <1>12,
     <1>13, <1>14, <1>15, <1>16, <1>17, <1>18, <1>19, <1>20, <1>21, <1>22,
     <1>23, <1>24 DEF Next

LEMMA WorldStep ==
    ASSUME RestartsInTime, Types, MoverInv, PlaceInv, WorldInv, [Next]_vars PROVE WorldInv'
<1>1. CASE deleted'
  BY <1>1 DEF WorldInv
<1>2. CASE ~deleted'
  <2>1. ~deleted
    BY <1>2, DeletedOnce
  <2>. QED
    BY <1>2, <2>1, NewestStep DEF PlaceInv, WorldInv
<1>. QED
  BY <1>1, <1>2

(* NothingPlayedIsLost: wherever a move fails or the dashboard restarts, the *)
(* machine the requests go to has the whole world with all that was ever     *)
(* played, for any machines, moves and plays, if a restart that is owed      *)
(* looks whether its server moved before it starts it.                       *)
THEOREM MovesLoseNothing ==
    ASSUME RestartsInTime PROVE Spec => []NothingPlayedIsLost
<1>1. ASSUME TableInv, WorldInv PROVE NothingPlayedIsLost
  BY <1>1 DEF TableInv, PlaceInv, HasIt, WorldInv, Newest, NothingPlayedIsLost
<1>2. TableInv /\ WorldInv /\ [Next]_vars => WorldInv'
  BY RestartsInTime, WorldStep DEF TableInv
<1>. QED
  BY <1>1, <1>2, TableInit, TableStep, WorldInit, PTL DEF Spec

-----------------------------------------------------------------------------
(* Whether it runs, with the windows closed                                *)

Closed == Windows = {}

(* A customer who is paused decided nothing since, and only where the      *)
(* server is it may have to start again.                                   *)
Decided ==
    /\ held => ~wants
    /\ pausing # "no" => held
    /\ restart \in {None, record}

(* A server that is wanted runs, or somebody is about to start it: the     *)
(* move that goes on or is being given up, or its restart.                 *)
RunsAgain ==
    /\ wants /\ Moving => mv.ran
    /\ wants /\ ~Moving => \/ copy[record].st = "running"
                           \/ restart = record
                           \/ At("abStart") /\ mover.ran

(* A move that asked, and is to write its row, knows or will read it. *)
RowKnows == wants /\ At("row") => mover.ran \/ restart = record

(* This move's copy runs if it is wanted, and only if the server ran. *)
MadeAs ==
    /\ mover.pc \in InMove \ {"abandon"} => (wants => mover.start) /\ (mover.start => mv.ran)
    /\ Ours /\ copy[mv.to].st = "making" =>
         (wants => copy[mv.to].start) /\ (copy[mv.to].start => mv.ran)
    /\ Ours /\ copy[mv.to].st \in Whole =>
         (wants => copy[mv.to].st = "running") /\ (copy[mv.to].st = "running" => mv.ran)

(* A paused customer's server is stopped, or whoever paused it is about to *)
(* stop it, or the move that just sent its requests there is.              *)
HeldStops ==
    held => \/ pausing \in {"marked", "unstopped", record}
            \/ copy[record].st # "running"
            \/ At("heldStop") /\ mover.ran

RunInv == ~deleted => Decided /\ RunsAgain /\ RowKnows /\ MadeAs /\ HeldStops

LEMMA RunInit == Init => RunInv
<1> SUFFICES ASSUME Init PROVE Decided /\ RunsAgain /\ RowKnows /\ MadeAs /\ HeldStops
  BY DEF RunInv
<1>1. mover.pc = "idle" /\ ~mv.made /\ ~Moving
  BY DEF Init, Idle, NoMove, Moving
<1>2. copy[record].st = "running"
  BY DEF Init, NoCopy
<1>3. Decided
  BY DEF Init, Decided
<1>4. RunsAgain
  BY <1>1, <1>2 DEF RunsAgain
<1>5. MadeAs
  BY <1>1 DEF MadeAs, Ours, Sent, InMove
<1>6. HeldStops
  BY DEF Init, HeldStops
<1>7. RowKnows
  BY <1>1 DEF RowKnows, At
<1>. QED
  BY <1>3, <1>4, <1>5, <1>6, <1>7

LEMMA DecidedStep ==
    ASSUME MoverInv, Located, HasIt, Listed, Decided, [Next]_vars PROVE Decided'
<1> USE DEF At, Decided
<1>u. UNCHANGED <<held, wants, pausing, restart, record>> => Decided'
  OBVIOUS
<1> USE DEF tables, tasks, agents, history
<1>1. CASE MoverSteps
  <2>1. CASE Begin
    BY <2>1, <1>u DEF Begin
  <2>2. CASE AskFound
    BY <2>2, <1>u DEF AskFound
  <2>3. CASE AskGone
    BY <2>3, NeverGone
  <2>4. CASE There
    BY <2>4, <1>u DEF There
  <2>5. CASE WaitAgain
    BY <2>5, <1>u DEF WaitAgain
  <2>6. CASE DeleteOld
    BY <2>6, <1>u DEF DeleteOld
  <2>7. CASE StopFrom
    BY <2>7, <1>u DEF StopFrom
  <2>8. CASE CopyFolder
    BY <2>8, <1>u DEF CopyFolder
  <2>9. CASE MoveIn
    BY <2>9, <1>u DEF MoveIn
  <2>10. CASE NameMade
    BY <2>10, <1>u DEF NameMade
  <2>11. CASE Wait
    BY <2>11, <1>u DEF Wait
  <2>12. CASE CopyState
    BY <2>12, <1>u DEF CopyState
  <2>13. CASE SendLimits
    BY <2>13, <1>u DEF SendLimits
  <2>14. CASE SwitchServer
    BY <2>14 DEF SwitchServer
  <2>15. CASE HeldStop
    BY <2>15, <1>u DEF HeldStop
  <2>16. CASE LeaveFrom
    BY <2>16, <1>u DEF LeaveFrom, LeaveStep
  <2>17. CASE EndMove
    BY <2>17, <1>u DEF EndMove
  <2>18. CASE StartAgain
    BY <2>18 DEF StartAgain, Starts, Located
  <2>19. CASE LeaveTo
    BY <2>19, <1>u DEF LeaveTo, LeaveStep
  <2>20. CASE LookApart
    BY <2>20, <1>u DEF LookApart
  <2>21. CASE MoveDone
    BY <2>21, <1>u DEF MoveDone
  <2>22. CASE MoveFailed
    BY <2>22, <1>u DEF MoveFailed
  <2>23. CASE WriteRow
    BY <2>23, <1>u DEF WriteRow
  <2>. QED
    BY <1>1, <2>1, <2>2, <2>3, <2>4, <2>5, <2>6, <2>7, <2>8, <2>9, <2>10, <2>11,
       <2>12, <2>13, <2>14, <2>15, <2>16, <2>17, <2>18, <2>19, <2>20, <2>21,
       <2>22, <2>23 DEF MoverSteps
<1>2. ASSUME NEW m \in Machine, StartMove(m) PROVE Decided'
  BY <1>2, <1>u DEF StartMove
<1>3. ASSUME NEW m \in Machine, List(m) PROVE Decided'
  BY <1>3, <1>u DEF List
<1>4. ASSUME NEW m \in Machine, SyncReads(m) PROVE Decided'
  BY <1>4, <1>u DEF SyncReads
<1>5. ASSUME NEW m \in Machine, Leftover(m) PROVE Decided'
  BY <1>5, <1>u DEF Leftover
<1>6. ASSUME NEW m \in Machine, MoveInEnds(m) PROVE Decided'
  BY <1>6, <1>u DEF MoveInEnds
<1>7. ASSUME NEW m \in Machine, MoveInFails(m) PROVE Decided'
  BY <1>7, <1>u DEF MoveInFails
<1>8. CASE ResumeMove
  BY <1>8, <1>u DEF ResumeMove
<1>9. CASE StartAgainFails
  BY <1>9 DEF StartAgainFails, Located
<1>10. CASE StepFails
  BY <1>10, <1>u DEF StepFails
<1>11. CASE RetryLooks
  BY <1>11 DEF RetryLooks
<1>12. CASE RetryStarts
  BY <1>12 DEF RetryStarts, Starts
<1>13. CASE RetryFails
  BY <1>13, <1>u DEF RetryFails
<1>14. CASE PauseMarks
  BY <1>14 DEF PauseMarks
<1>15. CASE PauseLooks
  BY <1>15, MachineAssumption DEF PauseLooks, Located
<1>16. CASE PauseStops
  BY <1>16, MachineAssumption DEF PauseStops
<1>17. CASE Renew
  BY <1>17 DEF Renew
<1>18. ASSUME NEW on \in BOOLEAN, UserRuns(on) PROVE Decided'
  BY <1>18 DEF UserRuns
<1>19. CASE UserDeletes
  BY <1>19 DEF UserDeletes
<1>20. CASE Play
  BY <1>20, <1>u DEF Play
<1>21. CASE Claim
  BY <1>21, <1>u, ClaimKeeps DEF Claim
<1>22. CASE SyncSends
  BY <1>22, <1>u DEF SyncSends
<1>23. CASE Restart
  BY <1>23, <1>u DEF Restart
<1>24. CASE UNCHANGED vars
  BY <1>24, <1>u DEF vars
<1>. QED
  BY <1>1, <1>2, <1>3, <1>4, <1>5, <1>6, <1>7, <1>8, <1>9, <1>10, <1>11, <1>12,
     <1>13, <1>14, <1>15, <1>16, <1>17, <1>18, <1>19, <1>20, <1>21, <1>22,
     <1>23, <1>24 DEF Next

LEMMA RunsAgainStep ==
    ASSUME Closed, Types, MoverInv, Located, HasIt, Listed, Decided, RunsAgain, RowKnows,
           MadeAs, [Next]_vars
    PROVE  ~deleted' => RunsAgain'
<1> SUFFICES ASSUME ~deleted' PROVE RunsAgain'
  OBVIOUS
<1> USE DEF At
<1>m. /\ mover \in Movers /\ mv \in Rows /\ copy \in [Machine -> Copy]
      /\ {held, wants} \subseteq BOOLEAN
      /\ InMove \cup Over \cup {"ask", "begin"} \subseteq Steps
      /\ mover.then \in {"begin", "failed"}
  BY DEF Types, Steps, InMove, Over, Movers
<1>s. /\ mover.pc \in InMove => Moving /\ AsTheRow
      /\ At("ask") /\ Moving => AsTheRow
      /\ mover.pc \in Over => ~Moving
      /\ Ours => Moving
  BY DEF MoverInv, AsTheRow, Ours, Sent, InMove, Moving, NoMove
<1>t. /\ record \in Machine /\ copy[record].st \in Whole
      /\ Moving => mv.from = record /\ mv.to \in Machine /\ mv.to # record
  BY DEF Located, HasIt, MoverInv, Distinct
<1>k. ASSUME UNCHANGED <<record, mv, restart>>, wants' => wants,
             wants' /\ ~Moving /\ copy[record].st = "running" => copy'[record].st = "running",
             ~At("abStart") \/ mover' = mover
      PROVE  RunsAgain'
  BY <1>k DEF RunsAgain, Moving
<1>u. UNCHANGED <<record, mv, restart, wants, copy>> /\ (~At("abStart") \/ mover' = mover)
      => RunsAgain'
  BY <1>k
<1>l. ASSUME NEW m, LeaveCopy(m) \/ UNCHANGED copy, UNCHANGED <<record, mv, restart, wants>>,
             ~At("abStart") \/ mover' = mover
      PROVE  RunsAgain'
  <2>1. copy'[record] = copy[record]
    BY <1>l, <1>t, LeaveKeeps
  <2>. QED
    BY <1>l, <2>1, <1>k
<1> USE DEF tables, tasks, agents, history
<1>1. CASE MoverSteps
  <2>1. CASE Begin
    BY <2>1, <1>u DEF Begin
  <2>2. CASE AskFound
    <3>1. UNCHANGED <<record, mv, restart, wants, copy>> /\ mover.from = record
      BY <2>2 DEF AskFound, Located
    <3>2. CASE Moving
      BY <2>2, <3>1, <3>2, <1>u DEF AskFound
    <3>3. CASE ~Moving
      BY <2>2, <3>1, <3>3, <1>m DEF RunsAgain, Moving, AskFound
    <3>. QED
      BY <3>2, <3>3
  <2>3. CASE AskGone
    BY <2>3, NeverGone
  <2>4. CASE There
    BY <2>4, <1>u DEF There
  <2>5. CASE WaitAgain
    BY <2>5, <1>u DEF WaitAgain
  <2>6. CASE DeleteOld
    <3>1. Moving /\ UNCHANGED <<record, mv, restart, wants>>
      BY <2>6, <1>s DEF DeleteOld, InMove
    <3>. QED
      BY <2>6, <3>1, <1>k DEF DeleteOld
  <2>7. CASE StopFrom
    <3>1. Moving /\ UNCHANGED <<record, mv, restart, wants>>
      BY <2>7, <1>s DEF StopFrom, InMove
    <3>. QED
      BY <2>7, <3>1, <1>k DEF StopFrom
  <2>8. CASE CopyFolder
    BY <2>8, <1>u DEF CopyFolder
  <2>9. CASE MoveIn
    <3>1. mv'.ran = mv.ran /\ mv'.from = mv.from /\ wants' = wants /\ Moving
      BY <2>9, <1>m, <1>s DEF MoveIn, Rows, InMove
    <3>2. Moving'
      BY <3>1, <1>t, MachineAssumption DEF Moving, NoMove
    <3>. QED
      BY <3>1, <3>2 DEF RunsAgain
  <2>10. CASE NameMade
    <3>1. mv'.ran = mv.ran /\ mv'.from = mv.from /\ wants' = wants /\ Moving
      BY <2>10, <1>m, <1>s DEF NameMade, Rows, InMove
    <3>2. Moving'
      BY <3>1, <1>t, MachineAssumption DEF Moving, NoMove
    <3>. QED
      BY <3>1, <3>2 DEF RunsAgain
  <2>11. CASE Wait
    BY <2>11, <1>u DEF Wait
  <2>12. CASE CopyState
    BY <2>12, <1>u DEF CopyState
  <2>13. CASE SendLimits
    BY <2>13, <1>u DEF SendLimits
  <2>14. CASE SwitchServer
    <3>1. record' = mv.to /\ mv' = NoMove /\ UNCHANGED <<copy, wants>>
      BY <2>14, <1>s DEF SwitchServer, InMove, AsTheRow
    <3>2. copy[mv.to].st \in Whole /\ Ours
      BY <2>14 DEF SwitchServer, HasIt, Switching, Ours, Sent
    <3>3. wants => copy[mv.to].st = "running"
      BY <3>2 DEF MadeAs
    <3>. QED
      BY <3>1, <3>3 DEF RunsAgain, Moving
  <2>15. CASE HeldStop
    <3>1. UNCHANGED <<record, mv, restart, wants>>
      BY <2>15 DEF HeldStop
    <3>2. held \/ copy' = copy
      BY <2>15 DEF HeldStop
    <3>. QED
      BY <2>15, <3>1, <3>2, <1>k DEF HeldStop, Decided
  <2>16. CASE LeaveFrom
    BY <2>16, <1>l DEF LeaveFrom, LeaveStep
  <2>17. CASE EndMove
    <3>1. mover'.pc = "abStart" /\ mover'.ran = mv.ran /\ Moving
      BY <2>17, <1>m, <1>s, GoIs DEF EndMove, Over, InMove, AsTheRow
    <3>2. mv' = NoMove /\ wants' = wants
      BY <2>17 DEF EndMove
    <3>. QED
      BY <3>1, <3>2 DEF RunsAgain, Moving
  <2>18. CASE StartAgain
    <3>1. mover.from = record /\ ~Moving /\ UNCHANGED <<record, mv>>
      BY <2>18, <1>s DEF StartAgain, Located, Over
    <3>2. CASE mover.ran /\ ~held
      <4>1. wants' => copy' = Started(copy, record)
        BY <2>18, <3>1, <3>2 DEF StartAgain, Starts
      <4>2. wants' => copy'[record].st = "running"
        BY <4>1, <1>m, <1>t, StartedIs DEF Whole
      <4>. QED
        BY <3>1, <4>2 DEF RunsAgain, Moving
    <3>3. CASE ~(mover.ran /\ ~held)
      <4>1. UNCHANGED <<copy, restart, wants>>
        BY <2>18, <3>3 DEF StartAgain
      <4>2. wants => copy[record].st = "running" \/ restart = record
        BY <3>1, <3>3 DEF RunsAgain, Decided
      <4>. QED
        BY <3>1, <4>1, <4>2 DEF RunsAgain, Moving
    <3>. QED
      BY <3>2, <3>3
  <2>19. CASE LeaveTo
    BY <2>19, <1>l DEF LeaveTo, LeaveStep
  <2>20. CASE LookApart
    BY <2>20, <1>u DEF LookApart
  <2>21. CASE MoveDone
    BY <2>21, <1>u DEF MoveDone
  <2>22. CASE MoveFailed
    BY <2>22, <1>u DEF MoveFailed
  <2>23. CASE WriteRow
    <3>1. UNCHANGED <<record, restart, wants, copy>> /\ mover.from = record
      BY <2>23 DEF WriteRow, Located
    <3>2. mv'.from = record /\ mover'.pc = "there" /\ mv'.ran = (mover.ran \/ restart = record)
      BY <2>23, <3>1, <1>m, WriteRowIs
    <3>3. Moving'
      BY <3>2, <1>t, MachineAssumption DEF Moving, NoMove
    <3>4. wants => mv'.ran
      BY <2>23, <3>2 DEF WriteRow, RowKnows
    <3>. QED
      BY <3>1, <3>2, <3>3, <3>4 DEF RunsAgain
  <2>. QED
    BY <1>1, <2>1, <2>2, <2>3, <2>4, <2>5, <2>6, <2>7, <2>8, <2>9, <2>10, <2>11,
       <2>12, <2>13, <2>14, <2>15, <2>16, <2>17, <2>18, <2>19, <2>20, <2>21,
       <2>22, <2>23 DEF MoverSteps
<1>2. ASSUME NEW m \in Machine, StartMove(m) PROVE RunsAgain'
  BY <1>2, <1>u DEF StartMove
<1>3. ASSUME NEW m \in Machine, List(m) PROVE RunsAgain'
  BY <1>3, <1>u DEF List
<1>4. ASSUME NEW m \in Machine, SyncReads(m) PROVE RunsAgain'
  BY <1>4, <1>u DEF SyncReads
<1>5. ASSUME NEW m \in Machine, Leftover(m) PROVE RunsAgain'
  BY <1>5, <1>l DEF Leftover
<1>6. ASSUME NEW m \in Machine, MoveInEnds(m) PROVE RunsAgain'
  <2>1. copy'[record] = copy[record]
    BY <1>6, <1>m, <1>t DEF MoveInEnds, Whole
  <2>. QED
    BY <1>6, <2>1, <1>k DEF MoveInEnds
<1>7. ASSUME NEW m \in Machine, MoveInFails(m) PROVE RunsAgain'
  <2>1. copy'[record] = copy[record]
    BY <1>7, <1>m, <1>t DEF MoveInFails, Whole
  <2>. QED
    BY <1>7, <2>1, <1>k DEF MoveInFails
<1>8. CASE ResumeMove
  BY <1>8, <1>u DEF ResumeMove
<1>9. CASE StartAgainFails
  <2>1. mover.from = record /\ ~Moving /\ restart' = record /\ UNCHANGED <<record, mv>>
    BY <1>9, <1>s DEF StartAgainFails, Located, Over
  <2>. QED
    BY <2>1 DEF RunsAgain, Moving
<1>10. CASE StepFails
  <2>1. UNCHANGED <<record, mv, restart, wants>> /\ ~At("abStart")
    BY <1>10 DEF StepFails
  <2>2. CASE copy' = copy
    BY <2>1, <2>2, <1>k
  <2>3. CASE mover.pc \in InMove
    <3>1. Moving
      BY <2>3, <1>s
    <3>. QED
      BY <2>1, <3>1, <1>k
  <2>. QED
    BY <1>10, <2>2, <2>3 DEF StepFails, InMove
<1>11. CASE RetryLooks
  <2>1. UNCHANGED <<record, mv, wants, copy, mover>>
    BY <1>11 DEF RetryLooks
  <2>2. restart' = restart
    BY <1>11 DEF RetryLooks, Decided
  <2>. QED
    BY <2>1, <2>2, <1>u
<1>12. CASE RetryStarts
  <2>1. UNCHANGED <<record, mv, mover>>
    BY <1>12 DEF RetryStarts
  <2>2. CASE UNCHANGED <<copy, restart, wants>>
    BY <2>1, <2>2, <1>u
  <2>3. CASE /\ ~Moving /\ record = retry
             /\ IF held THEN UNCHANGED <<copy, wants>> ELSE Starts(retry)
    <3>1. CASE held
      BY <2>1, <2>3, <3>1 DEF RunsAgain, Decided, Moving
    <3>2. CASE ~held
      <4>1. wants' => copy' = Started(copy, record)
        BY <2>3, <3>2 DEF Starts
      <4>2. wants' => copy'[record].st = "running"
        BY <4>1, <1>m, <1>t, StartedIs DEF Whole
      <4>. QED
        BY <2>1, <2>3, <4>2 DEF RunsAgain, Moving
    <3>. QED
      BY <3>1, <3>2
  <2>. QED
    BY <1>12, <2>2, <2>3 DEF RetryStarts, Closed
<1>13. CASE RetryFails
  BY <1>13, <1>u DEF RetryFails
<1>14. CASE PauseMarks
  BY <1>14 DEF PauseMarks, RunsAgain
<1>15. CASE PauseLooks
  BY <1>15, <1>u DEF PauseLooks
<1>16. CASE PauseStops
  <2>1. held /\ UNCHANGED <<record, mv, restart, wants, mover>>
    BY <1>16, MachineAssumption DEF PauseStops, Decided
  <2>. QED
    BY <2>1, <1>k DEF Decided
<1>17. CASE Renew
  BY <1>17, <1>u DEF Renew
<1>18. ASSUME NEW on \in BOOLEAN, UserRuns(on) PROVE RunsAgain'
  <2>1. ~Moving /\ record' = record /\ mv' = mv /\ wants' = on
    BY <1>18 DEF UserRuns, Reached
  <2>2. on => copy'[record].st = "running"
    BY <1>18, <1>m, <1>t DEF UserRuns
  <2>. QED
    BY <2>1, <2>2 DEF RunsAgain, Moving
<1>19. CASE UserDeletes
  BY <1>19 DEF UserDeletes
<1>20. CASE Play
  <2>1. copy'[record].st = copy[record].st
    BY <1>20, <1>m, <1>t DEF Play
  <2>. QED
    BY <1>20, <2>1, <1>k DEF Play
<1>21. CASE Claim
  BY <1>21, <1>u, ClaimKeeps DEF Claim
<1>22. CASE SyncSends
  BY <1>22, <1>u DEF SyncSends
<1>23. CASE Restart
  BY <1>23, <1>u DEF Restart, Closed
<1>24. CASE UNCHANGED vars
  BY <1>24, <1>u DEF vars
<1>. QED
  BY <1>1, <1>2, <1>3, <1>4, <1>5, <1>6, <1>7, <1>8, <1>9, <1>10, <1>11, <1>12,
     <1>13, <1>14, <1>15, <1>16, <1>17, <1>18, <1>19, <1>20, <1>21, <1>22,
     <1>23, <1>24 DEF Next

(* Only a move that asked comes to where it writes its row. *)
LEMMA OnlyAsked ==
    ASSUME Types, [Next]_vars, ~AskFound PROVE mover' = mover \/ mover'.pc # "row"
<1>m. /\ mover \in Movers /\ InMove \cup Over \subseteq Steps \ {"row"}
      /\ mover.then \in {"begin", "failed"} /\ Idle.pc # "row" /\ {"begin"} \subseteq Steps
  BY DEF Types, Steps, InMove, Over, Movers, Idle
<1>g. ASSUME NEW pc \in InMove \cup Over, Go(pc) PROVE mover'.pc # "row"
  BY <1>g, <1>m, GoIs
<1>e. ASSUME NEW pc \in {"begin", "apart", "failed"}, Ends(pc) PROVE mover'.pc # "row"
  BY <1>e, <1>m, EndsIs DEF Over
<1>b. Abandon => mover'.pc # "row"
  BY <1>m, AbandonIs
<1>1. CASE MoverSteps
  <2>1. CASE Begin
    <3>1. Ends("apart") \/ mover'.pc \in {"ask", "abandon"}
      BY <2>1, <1>m DEF Begin, Movers
    <3>. QED
      BY <3>1, <1>e
  <2>2. CASE There \/ WaitAgain \/ DeleteOld \/ StopFrom
    BY <2>2, <1>g, <1>b DEF There, WaitAgain, DeleteOld, StopFrom, InMove
  <2>3. CASE CopyFolder
    BY <2>3, <1>b, <1>m DEF CopyFolder, Movers
  <2>4. CASE MoveIn \/ NameMade \/ Wait \/ CopyState \/ SendLimits \/ SwitchServer
    BY <2>4, <1>g, <1>b DEF MoveIn, NameMade, Wait, CopyState, SendLimits, SwitchServer,
       InMove, Over
  <2>5. CASE HeldStop \/ EndMove \/ StartAgain
    BY <2>5, <1>g DEF HeldStop, EndMove, StartAgain, Over
  <2>6. CASE LeaveFrom \/ LeaveTo
    BY <2>6, <1>e, <1>m DEF LeaveFrom, LeaveTo, LeaveStep
  <2>7. CASE AskGone
    <3>1. Ends("apart") \/ mover'.pc = "leaveTo"
      BY <2>7, <1>m DEF AskGone, Movers
    <3>. QED
      BY <3>1, <1>e
  <2>8. CASE LookApart
    <3>1. Go("done") \/ Go("failed") \/ mover'.pc = "begin"
      BY <2>8 DEF LookApart, Idle
    <3>. QED
      BY <3>1, <1>g DEF Over
  <2>9. CASE MoveDone \/ MoveFailed
    BY <2>9, <1>m DEF MoveDone, MoveFailed
  <2>10. CASE WriteRow
    BY <2>10, <1>m, WriteRowIs
  <2>. QED
    BY <1>1, <2>1, <2>2, <2>3, <2>4, <2>5, <2>6, <2>7, <2>8, <2>9, <2>10 DEF MoverSteps
<1>2. CASE (\E m \in Machine : StartMove(m)) \/ ResumeMove
  BY <1>2 DEF StartMove, ResumeMove, Idle
<1>3. CASE StartAgainFails
  BY <1>3, <1>g DEF StartAgainFails, Over
<1>4. CASE StepFails
  <2>1. \/ Abandon \/ Go("failed") \/ Go("deleteOld") \/ Go("leaveFrom")
        \/ Ends("apart") \/ Ends(mover.then)
    BY <1>4 DEF StepFails
  <2>. QED
    BY <2>1, <1>b, <1>g, <1>e, <1>m DEF InMove, Over
<1>5. CASE Restart
  BY <1>5, <1>m DEF Restart
<1>6. CASE \/ \E m \in Machine : \/ List(m) \/ SyncReads(m) \/ Leftover(m)
                               \/ MoveInEnds(m) \/ MoveInFails(m)
           \/ RetryLooks \/ RetryStarts \/ RetryFails
           \/ PauseMarks \/ PauseLooks \/ PauseStops \/ Renew
           \/ \E on \in BOOLEAN : UserRuns(on)
           \/ UserDeletes \/ Play \/ Claim \/ SyncSends \/ UNCHANGED vars
  BY <1>6 DEF List, SyncReads, Leftover, MoveInEnds, MoveInFails, RetryLooks, RetryStarts,
     RetryFails, PauseMarks, PauseLooks, PauseStops, Renew, UserRuns, UserDeletes, Play,
     Claim, SyncSends, vars
<1>. QED
  BY <1>1, <1>2, <1>3, <1>4, <1>5, <1>6 DEF Next

LEMMA RowKnowsStep ==
    ASSUME Closed, Types, MoverInv, Located, HasIt, Listed, Decided, RunsAgain, RowKnows,
           [Next]_vars
    PROVE  ~deleted' => RowKnows'
<1> USE DEF At
<1>1. CASE AskFound
  <2>1. UNCHANGED <<wants, restart, record, copy>> /\ mover.from = record /\ mover \in Movers
    BY <1>1 DEF AskFound, Located, tables, agents, history, Types
  <2>2. CASE Moving
    BY <1>1, <2>1, <2>2, AskFoundIs DEF RowKnows
  <2>3. CASE ~Moving
    <3>1. mover'.ran = (copy[record].st = "running")
      BY <1>1, <2>1, <2>3, AskFoundIs
    <3>2. wants => copy[record].st = "running" \/ restart = record
      BY <1>1, <2>3 DEF RunsAgain, AskFound
    <3>. QED
      BY <2>1, <3>1, <3>2 DEF RowKnows
  <2>. QED
    BY <2>2, <2>3
<1>2. CASE ~AskFound /\ mover'.pc = "row"
  <2>1. mover' = mover /\ At("row") /\ ~Moving
    BY <1>2, OnlyAsked DEF MoverInv
  <2>2. ~MoverSteps \/ WriteRow
    BY <2>1, <1>2 DEF MoverSteps, Begin, AskGone, There, WaitAgain, DeleteOld, StopFrom,
       CopyFolder, MoveIn, NameMade, Wait, CopyState, SendLimits, SwitchServer, HeldStop,
       LeaveFrom, LeaveTo, LeaveStep, EndMove, StartAgain, LookApart, MoveDone, MoveFailed
  <2>3. ~WriteRow
    BY <2>1, WriteRowIs DEF Types
  <2>4. ~StartAgainFails /\ ~ResumeMove /\ \A m \in Machine : ~StartMove(m)
    BY <2>1 DEF StartAgainFails, ResumeMove, StartMove
  <2>5. ~RetryStarts
    BY <2>1 DEF RetryStarts, Unasked, Closed
  <2>6. CASE RetryLooks
    BY <2>6, <2>1 DEF RetryLooks, Decided, RowKnows, agents, history
  <2>7. ASSUME NEW on \in BOOLEAN, UserRuns(on) PROVE RowKnows'
    BY <2>7, <2>1 DEF UserRuns, Unasked, Closed, RowKnows
  <2>8. CASE PauseMarks \/ UserDeletes
    BY <2>8 DEF PauseMarks, UserDeletes, RowKnows
  <2>9. CASE Claim
    BY <2>9, <2>1, ClaimKeeps DEF Claim, RowKnows, agents, history
  <2>10. CASE \/ \E m \in Machine : \/ List(m) \/ SyncReads(m) \/ Leftover(m)
                                  \/ MoveInEnds(m) \/ MoveInFails(m)
              \/ RetryFails \/ PauseLooks \/ PauseStops \/ Renew \/ Play \/ SyncSends
              \/ StepFails \/ Restart \/ UNCHANGED vars
    <3>1. UNCHANGED <<wants, restart, record>>
      BY <2>10 DEF List, SyncReads, Leftover, MoveInEnds, MoveInFails, RetryFails,
         PauseLooks, PauseStops, Renew, Play, SyncSends, StepFails, Restart, vars, tables,
         tasks, agents, history
    <3>. QED
      BY <3>1, <2>1 DEF RowKnows
  <2>. QED
    BY <2>2, <2>3, <2>4, <2>5, <2>6, <2>7, <2>8, <2>9, <2>10 DEF Next
<1>3. CASE mover'.pc # "row"
  BY <1>3 DEF RowKnows
<1>. QED
  BY <1>1, <1>2, <1>3

LEMMA MadeAsStep ==
    ASSUME Closed, Types, MoverInv, Located, HasIt, Listed, Decided, RunsAgain, RowKnows,
           MadeAs, [Next]_vars
    PROVE  ~deleted' => MadeAs'
<1> SUFFICES ASSUME ~deleted' PROVE MadeAs'
  OBVIOUS
<1> DEFINE Carries == InMove \ {"abandon"}
<1> USE DEF At
<1>m. /\ mover \in Movers /\ mv \in Rows /\ copy \in [Machine -> Copy]
      /\ {held, wants} \subseteq BOOLEAN
      /\ InMove \cup Over \cup {"ask", "begin"} \subseteq Steps
      /\ mover.then \in {"begin", "failed"}
  BY DEF Types, Steps, InMove, Over, Movers
<1>s. /\ mover.pc \in InMove => Moving /\ AsTheRow
      /\ At("ask") /\ Moving => AsTheRow
      /\ mover.pc \in Over => ~Moving
      /\ Ours => Moving
  BY DEF MoverInv, AsTheRow, Ours, Sent, InMove, Moving, NoMove
<1>t. /\ record \in Machine /\ copy[record].st \in Whole
      /\ Moving => mv.from = record /\ mv.to \in Machine /\ mv.to # record
  BY DEF Located, HasIt, MoverInv, Distinct
<1>p. /\ Sent \subseteq Carries /\ Idle.pc \notin InMove /\ Over \cap InMove = {}
      /\ {"ask", "begin"} \cap InMove = {}
  BY DEF Sent, InMove, Over, Idle
<1>c. mover.pc \in Carries => (wants => mover.start) /\ (mover.start => mv.ran)
  BY DEF MadeAs
<1>k. ASSUME mv' = mv, wants' => wants,
             mover'.pc \in Sent => Ours,
             mover'.pc \in Carries => mover.pc \in Carries /\ mover'.start = mover.start,
             Ours => \/ copy'[mv.to] = copy[mv.to]
                     \/ copy'[mv.to].st \notin Sound
                     \/ ~wants' /\ copy'[mv.to].st = "stopped"
      PROVE  MadeAs'
  <2>1. Ours' => Ours
    BY <1>k DEF Ours
  <2>2. /\ Ours' /\ copy'[mv.to].st = "making" =>
             (wants' => copy'[mv.to].start) /\ (copy'[mv.to].start => mv.ran)
        /\ Ours' /\ copy'[mv.to].st \in Whole =>
             (wants' => copy'[mv.to].st = "running") /\ (copy'[mv.to].st = "running" => mv.ran)
    BY <1>k, <2>1 DEF MadeAs, Sound, Whole
  <2>3. mover'.pc \in Carries => (wants' => mover'.start) /\ (mover'.start => mv.ran)
    BY <1>k, <1>c
  <2>. QED
    BY <1>k, <2>2, <2>3 DEF MadeAs
<1>u. UNCHANGED <<mv, wants, copy, mover>> => MadeAs'
  BY <1>k DEF Ours
<1>n. ASSUME UNCHANGED <<mv, wants, copy>>, mover'.pc \notin Carries
      PROVE  MadeAs'
  BY <1>n, <1>k, <1>p
<1>g. ASSUME NEW pc \in Carries, Go(pc), pc \in Sent => Ours, mover.pc \in Carries,
             UNCHANGED <<mv, wants, copy>>
      PROVE  MadeAs'
  BY <1>g, <1>k, <1>m, GoIs
<1>o. ASSUME NEW pc \in Over, Go(pc), UNCHANGED <<mv, wants, copy>> PROVE MadeAs'
  BY <1>o, <1>n, <1>m, <1>p, GoIs
<1>e. ASSUME NEW pc \in {"begin", "apart", "failed"}, Ends(pc), UNCHANGED <<mv, wants, copy>>
      PROVE  MadeAs'
  BY <1>e, <1>n, <1>m, <1>p, EndsIs DEF Over
<1>b. Abandon /\ UNCHANGED <<mv, wants, copy>> => MadeAs'
  BY <1>n, <1>m, AbandonIs
<1>d. ASSUME mv' = mv, wants' => wants, ~Moving, mover' = mover \/ mover'.pc \notin Carries
      PROVE  MadeAs'
  <2>1. ~Ours /\ mover.pc \notin Carries
    BY <1>d, <1>s
  <2>. QED
    BY <1>d, <2>1, <1>k, <1>p DEF Ours
<1>l. ASSUME NEW m, LeaveCopy(m) \/ UNCHANGED copy, UNCHANGED <<mv, wants>>,
             mover' = mover \/ mover'.pc \notin Carries
      PROVE  MadeAs'
  <2>1. Moving => copy'[mv.to] = copy[mv.to]
    BY <1>l, <1>t, LeaveKeeps
  <2>2. mover'.pc \in Sent => Ours
    BY <1>l, <1>p DEF Ours
  <2>. QED
    BY <1>l, <2>1, <2>2, <1>k, <1>s
<1> USE DEF tables, tasks, agents, history
<1> HIDE DEF Carries
<1>i. Carries = InMove \ {"abandon"}
  BY DEF Carries
<1>1. CASE MoverSteps
  <2>1. CASE Begin
    <3>1. mover'.pc \in {"ask", "abandon", "apart"}
      <4>1. Ends("apart") => mover'.pc = "apart"
        BY <1>m, EndsIs DEF Over
      <4>. QED
        BY <2>1, <4>1, <1>m DEF Begin, Movers
    <3>. QED
      BY <2>1, <3>1, <1>n, <1>p, <1>i DEF Begin, Over
  <2>2. CASE AskFound
    <3>1. UNCHANGED <<mv, wants, copy>>
      BY <2>2 DEF AskFound
    <3>2. CASE Moving
      <4>1. mover'.pc = "there" /\ mover'.start = (mv.ran /\ ~held)
        BY <2>2, <3>2, <1>m, <1>s, AskFoundIs DEF AskFound, AsTheRow
      <4>2. wants => mv.ran /\ ~held
        BY <3>2 DEF RunsAgain, Decided
      <4>3. mv.ran \in BOOLEAN /\ "there" \notin Sent
        BY <1>m DEF Rows, Sent
      <4>. QED
        BY <3>1, <4>1, <4>2, <4>3 DEF MadeAs, Ours
    <3>3. CASE ~Moving
      <4>1. mover'.pc = "row"
        BY <2>2, <3>3, <1>m, AskFoundIs
      <4>. QED
        BY <3>1, <4>1, <1>n, <1>i DEF InMove
    <3>. QED
      BY <3>2, <3>3
  <2>3. CASE AskGone
    BY <2>3, NeverGone
  <2>4. CASE There
    <3>1. CASE Go("state")
      <4>1. mv.made
        <5>1. Go("state") => ~Go("stop") /\ ~Go("waitAgain") /\ ~Go("deleteOld")
          BY <1>m, GoIs DEF InMove
        <5>. QED
          BY <2>4, <3>1, <5>1 DEF There
      <4>. QED
        BY <2>4, <3>1, <4>1, <1>g, <1>i DEF There, InMove, Ours
    <3>. QED
      BY <2>4, <3>1, <1>g, <1>i DEF There, InMove, Sent
  <2>5. CASE WaitAgain
    BY <2>5, <1>g, <1>i DEF WaitAgain, InMove, Ours, Sent, MoverInv
  <2>6. CASE DeleteOld
    <3>1. CASE Abandon /\ UNCHANGED copy
      BY <2>6, <3>1, <1>b DEF DeleteOld
    <3>2. CASE Go("stop") /\ copy' = [copy EXCEPT ![mover.to] = NoCopy]
      <4>1. copy'[mv.to].st = "none" /\ UNCHANGED <<mv, wants>>
        BY <2>6, <3>2, <1>m, <1>s, <1>t DEF DeleteOld, InMove, AsTheRow, NoCopy
      <4>2. mover'.pc = "stop" /\ mover'.start = mover.start
        BY <3>2, <1>m, GoIs DEF InMove
      <4>3. "none" \notin Sound /\ "stop" \notin Sent /\ "deleteOld" \in Carries
        BY <1>i DEF Sound, Whole, Sent, InMove
      <4>. QED
        BY <2>6, <4>1, <4>2, <4>3, <1>k DEF DeleteOld
    <3>. QED
      BY <2>6, <3>1, <3>2 DEF DeleteOld
  <2>7. CASE StopFrom
    <3>1. mover'.pc = "copy" /\ mover'.start = mover.start
      BY <2>7, <1>m, GoIs DEF StopFrom, InMove
    <3>2. mover.from = record /\ mv.to # record /\ mv.to \in Machine
      BY <2>7, <1>s, <1>t DEF StopFrom, InMove, AsTheRow
    <3>3. copy'[mv.to] = copy[mv.to]
      BY <2>7, <3>2, <1>m DEF StopFrom, Stopped
    <3>4. "copy" \notin Sent /\ "stop" \in Carries
      BY <1>i DEF Sent, InMove
    <3>. QED
      BY <2>7, <3>1, <3>3, <3>4, <1>k DEF StopFrom
  <2>8. CASE CopyFolder
    <3>1. CASE Abandon
      BY <2>8, <3>1, <1>b DEF CopyFolder
    <3>2. CASE mover' = [mover EXCEPT !.pc = "moveIn", !.world = copy[mover.from].world]
      <4>1. mover'.pc = "moveIn" /\ mover'.start = mover.start
        BY <3>2, <1>m DEF Movers
      <4>2. "moveIn" \notin Sent /\ "copy" \in Carries
        BY <1>i DEF Sent, InMove
      <4>. QED
        BY <2>8, <4>1, <4>2, <1>k DEF CopyFolder
    <3>. QED
      BY <2>8, <3>1, <3>2 DEF CopyFolder
  <2>9. CASE MoveIn
    <3>1. mover'.pc = "made" /\ mover'.start = mover.start /\ mover.to = mv.to /\ Moving
      BY <2>9, <1>m, <1>s, GoIs DEF MoveIn, InMove, AsTheRow
    <3>2. mv'.to = mv.to /\ mv'.ran = mv.ran /\ wants' = wants
      BY <2>9, <1>m DEF MoveIn, Rows
    <3>3. copy'[mv.to].st = "making" /\ copy'[mv.to].start = mover.start
      BY <2>9, <3>1, <1>m, <1>t, TakenIs DEF MoveIn
    <3>4. (wants => mover.start) /\ (mover.start => mv.ran)
      BY <2>9, <1>c, <1>i DEF MoveIn, InMove
    <3>5. "making" \notin Whole
      BY DEF Whole
    <3>. QED
      BY <3>1, <3>2, <3>3, <3>4, <3>5 DEF MadeAs
  <2>10. CASE NameMade
    <3>1. mover'.pc = "wait" /\ mover'.start = mover.start /\ Ours
      BY <2>10, <1>m, GoIs DEF NameMade, InMove, Ours, Sent
    <3>2. mv'.to = mv.to /\ mv'.ran = mv.ran /\ UNCHANGED <<wants, copy>>
      BY <2>10, <1>m DEF NameMade, Rows
    <3>3. (wants => mover.start) /\ (mover.start => mv.ran)
      BY <2>10, <1>c, <1>i DEF NameMade, InMove
    <3>. QED
      BY <3>1, <3>2, <3>3 DEF MadeAs
  <2>11. CASE Wait
    BY <2>11, <1>g, <1>b, <1>i DEF Wait, InMove, Ours, Sent
  <2>12. CASE CopyState
    BY <2>12, <1>g, <1>i DEF CopyState, InMove, Ours, Sent
  <2>13. CASE SendLimits
    BY <2>13, <1>g, <1>i DEF SendLimits, InMove, Ours, Sent
  <2>14. CASE SwitchServer
    <3>1. mover'.pc = "heldStop" /\ ~mv'.made
      BY <2>14, <1>m, GoIs DEF SwitchServer, Over, NoMove
    <3>2. "heldStop" \notin InMove
      BY DEF InMove
    <3>. QED
      BY <3>1, <3>2 DEF MadeAs, Ours, Sent
  <2>15. CASE HeldStop
    <3>1. mover'.pc = "leaveFrom" /\ ~Moving
      BY <2>15, <1>m, <1>s, GoIs DEF HeldStop, Over
    <3>2. "leaveFrom" \notin Carries
      BY <1>i DEF InMove
    <3>. QED
      BY <2>15, <3>1, <3>2, <1>d DEF HeldStop
  <2>16. CASE LeaveFrom
    <3>1. mover'.pc \in {"begin", "apart", "failed"}
      BY <2>16, <1>m, EndsIs DEF LeaveFrom, LeaveStep, Over
    <3>2. {"begin", "apart", "failed"} \cap Carries = {}
      BY <1>i DEF InMove
    <3>. QED
      BY <2>16, <3>1, <3>2, <1>l DEF LeaveFrom, LeaveStep
  <2>17. CASE EndMove
    <3>1. mover'.pc = "abStart" /\ ~mv'.made
      BY <2>17, <1>m, GoIs DEF EndMove, Over, NoMove
    <3>2. "abStart" \notin InMove
      BY DEF InMove
    <3>. QED
      BY <3>1, <3>2 DEF MadeAs, Ours, Sent
  <2>18. CASE StartAgain
    <3>1. mover'.pc = "leaveTo" /\ ~Moving
      BY <2>18, <1>m, <1>s, GoIs DEF StartAgain, Starts, Over
    <3>2. "leaveTo" \notin Carries
      BY <1>i DEF InMove
    <3>. QED
      BY <2>18, <3>1, <3>2, <1>d DEF StartAgain, Starts
  <2>19. CASE LeaveTo
    <3>1. mover'.pc \in {"begin", "apart", "failed"}
      BY <2>19, <1>m, EndsIs DEF LeaveTo, LeaveStep, Over
    <3>2. {"begin", "apart", "failed"} \cap Carries = {}
      BY <1>i DEF InMove
    <3>. QED
      BY <2>19, <3>1, <3>2, <1>l DEF LeaveTo, LeaveStep
  <2>20. CASE LookApart
    <3>1. mover'.pc \in {"begin", "done", "failed"}
      BY <2>20, <1>m, GoIs DEF LookApart, Idle, Over
    <3>. QED
      BY <2>20, <3>1, <1>n, <1>p, <1>i DEF LookApart, Over
  <2>21. CASE MoveDone
    BY <2>21, <1>n, <1>p, <1>i DEF MoveDone
  <2>22. CASE MoveFailed
    BY <2>22, <1>n, <1>p, <1>i DEF MoveFailed
  <2>23. CASE WriteRow
    <3>1. UNCHANGED <<copy, wants>> /\ mover.from = record /\ mover'.pc = "there" /\ ~mv'.made
          /\ mv'.ran = (mover.ran \/ restart = record) /\ mover'.start = (mv'.ran /\ ~held)
      BY <2>23, <1>m, WriteRowIs DEF WriteRow, Located
    <3>2. wants => (mover.ran \/ restart = record) /\ ~held
      BY <2>23 DEF WriteRow, RowKnows, Decided
    <3>3. mv'.ran \in BOOLEAN /\ "there" \notin Sent
      BY <3>1 DEF Sent
    <3>. QED
      BY <3>1, <3>2, <3>3 DEF MadeAs, Ours
  <2>. QED
    BY <1>1, <2>1, <2>2, <2>3, <2>4, <2>5, <2>6, <2>7, <2>8, <2>9, <2>10, <2>11,
       <2>12, <2>13, <2>14, <2>15, <2>16, <2>17, <2>18, <2>19, <2>20, <2>21,
       <2>22, <2>23 DEF MoverSteps
<1>2. ASSUME NEW m \in Machine, StartMove(m) PROVE MadeAs'
  BY <1>2, <1>n, <1>p, <1>i DEF StartMove, Idle
<1>3. ASSUME NEW m \in Machine, List(m) PROVE MadeAs'
  BY <1>3, <1>u DEF List
<1>4. ASSUME NEW m \in Machine, SyncReads(m) PROVE MadeAs'
  BY <1>4, <1>u DEF SyncReads
<1>5. ASSUME NEW m \in Machine, Leftover(m) PROVE MadeAs'
  BY <1>5, <1>l DEF Leftover
<1>6. ASSUME NEW m \in Machine, MoveInEnds(m) PROVE MadeAs'
  <2>1. UNCHANGED <<mv, wants, mover>> /\ copy[m].st = "making"
        /\ copy' = [copy EXCEPT ![m].st = IF copy[m].start THEN "running" ELSE "stopped"]
    BY <1>6 DEF MoveInEnds
  <2>2. CASE ~Ours \/ m # mv.to
    <3>1. Ours => copy'[mv.to] = copy[mv.to]
      BY <2>1, <2>2, <1>m, <1>s, <1>t
    <3>2. mover'.pc \in Sent => Ours
      BY <2>1 DEF Ours
    <3>. QED
      BY <2>1, <3>1, <3>2, <1>k
  <2>3. CASE Ours /\ m = mv.to
    <3>1. copy'[mv.to].st = IF copy[mv.to].start THEN "running" ELSE "stopped"
      BY <2>1, <2>3, <1>m
    <3>2. (wants => copy[mv.to].start) /\ (copy[mv.to].start => mv.ran)
      BY <2>1, <2>3 DEF MadeAs
    <3>. QED
      BY <2>1, <3>1, <3>2 DEF MadeAs
  <2>. QED
    BY <2>2, <2>3
<1>7. ASSUME NEW m \in Machine, MoveInFails(m) PROVE MadeAs'
  <2>1. UNCHANGED <<mv, wants, mover>> /\ copy' = [copy EXCEPT ![m].st = "broken"]
    BY <1>7 DEF MoveInFails
  <2>2. Ours => copy'[mv.to] = copy[mv.to] \/ copy'[mv.to].st \notin Sound
    BY <2>1, <1>m, <1>s, <1>t DEF Sound, Whole
  <2>3. mover'.pc \in Sent => Ours
    BY <2>1 DEF Ours
  <2>. QED
    BY <2>1, <2>2, <2>3, <1>k
<1>8. CASE ResumeMove
  BY <1>8, <1>n, <1>p, <1>i DEF ResumeMove, Idle
<1>9. CASE StartAgainFails
  <2>1. mover'.pc = "leaveTo" /\ ~Moving
    BY <1>9, <1>m, <1>s, GoIs DEF StartAgainFails, Over
  <2>2. "leaveTo" \notin Carries
    BY <1>i DEF InMove
  <2>. QED
    BY <1>9, <2>1, <2>2, <1>d DEF StartAgainFails
<1>10. CASE StepFails
  <2>1. UNCHANGED <<mv, wants>>
    BY <1>10 DEF StepFails
  <2>2. CASE Abandon /\ copy' = copy
    BY <2>1, <2>2, <1>b
  <2>3. CASE At("stop") /\ Abandon /\ copy' = Stopped(copy, mover.from)
    <3>1. mover'.pc = "abandon" /\ mover.from = record /\ mv.to # record /\ mv.to \in Machine
      BY <2>3, <1>m, <1>s, <1>t, AbandonIs DEF InMove, AsTheRow
    <3>2. copy'[mv.to] = copy[mv.to]
      BY <2>3, <3>1, <1>m DEF Stopped
    <3>3. "abandon" \notin Carries
      BY <1>i
    <3>. QED
      BY <2>1, <3>1, <3>2, <3>3, <1>k, <1>p, <1>i
  <2>4. CASE At("moveIn") /\ Abandon /\ Taken(mover.to)
    <3>1. mover'.pc = "abandon" /\ mover.to = mv.to /\ Moving
      BY <2>4, <1>m, <1>s, AbandonIs DEF InMove, AsTheRow
    <3>2. copy'[mv.to].st = "making" /\ copy'[mv.to].start = mover.start
      BY <2>4, <3>1, <1>m, <1>t, TakenIs
    <3>3. (wants => mover.start) /\ (mover.start => mv.ran)
      BY <2>4, <1>c, <1>i DEF InMove
    <3>4. "making" \notin Whole
      BY DEF Whole
    <3>. QED
      BY <2>1, <3>1, <3>2, <3>3, <3>4 DEF MadeAs
  <2>5. CASE copy' = copy /\ (Go("failed") \/ Go("leaveFrom"))
    BY <2>1, <2>5, <1>o DEF Over
  <2>6. CASE At("waitAgain") /\ copy' = copy /\ Go("deleteOld")
    BY <2>1, <2>6, <1>g, <1>i DEF InMove, Sent
  <2>7. CASE copy' = copy /\ Ends(IF At("leaveFrom") THEN "apart" ELSE mover.then)
    BY <2>1, <2>7, <1>e, <1>m
  <2>. QED
    BY <1>10, <2>2, <2>3, <2>4, <2>5, <2>6, <2>7 DEF StepFails
<1>11. CASE RetryLooks
  BY <1>11, <1>u DEF RetryLooks
<1>12. CASE RetryStarts
  <2>1. UNCHANGED <<mv, mover>> /\ (wants' => wants)
    BY <1>12 DEF RetryStarts, Starts
  <2>2. CASE UNCHANGED <<copy, wants>>
    BY <2>1, <2>2, <1>u
  <2>3. CASE ~Moving
    BY <2>1, <2>3, <1>d
  <2>. QED
    BY <1>12, <2>2, <2>3 DEF RetryStarts, Starts, Closed
<1>13. CASE RetryFails
  BY <1>13, <1>u DEF RetryFails
<1>14. CASE PauseMarks
  BY <1>14, <1>k DEF PauseMarks, Ours
<1>15. CASE PauseLooks
  BY <1>15, <1>u DEF PauseLooks
<1>16. CASE PauseStops
  <2>1. held /\ UNCHANGED <<mv, wants, mover>>
    BY <1>16, MachineAssumption DEF PauseStops, Decided
  <2>2. ~wants
    BY <2>1 DEF Decided
  <2>3. Moving => copy'[mv.to] = copy[mv.to] \/ copy'[mv.to].st = "stopped"
    <3>1. CASE copy' = copy
      BY <3>1
    <3>2. CASE copy' = Stopped(copy, pausing)
      BY <3>2, <1>m, <1>t DEF Stopped
    <3>. QED
      BY <1>16, <3>1, <3>2 DEF PauseStops
  <2>4. mover'.pc \in Sent => Ours
    BY <2>1 DEF Ours
  <2>. QED
    BY <2>1, <2>2, <2>3, <2>4, <1>k, <1>s
<1>17. CASE Renew
  BY <1>17, <1>u DEF Renew
<1>18. ASSUME NEW on \in BOOLEAN, UserRuns(on) PROVE MadeAs'
  <2>1. ~Moving /\ mover' = mover /\ mv' = mv
    BY <1>18 DEF UserRuns, Reached
  <2>2. ~Ours /\ mover.pc \notin InMove
    BY <2>1, <1>s
  <2>. QED
    BY <2>1, <2>2 DEF MadeAs, Ours
<1>19. CASE UserDeletes
  BY <1>19 DEF UserDeletes
<1>20. CASE Play
  <2>1. UNCHANGED <<mv, wants, mover>>
    BY <1>20 DEF Play
  <2>2. Moving => copy'[mv.to] = copy[mv.to]
    BY <1>20, <1>m, <1>t DEF Play
  <2>3. mover'.pc \in Sent => Ours
    BY <2>1 DEF Ours
  <2>. QED
    BY <2>1, <2>2, <2>3, <1>k, <1>s
<1>21. CASE Claim
  BY <1>21, <1>u DEF Claim
<1>22. CASE SyncSends
  BY <1>22, <1>u DEF SyncSends
<1>23. CASE Restart
  BY <1>23, <1>n, <1>p, <1>i DEF Restart
<1>24. CASE UNCHANGED vars
  BY <1>24, <1>u DEF vars
<1>. QED
  BY <1>1, <1>2, <1>3, <1>4, <1>5, <1>6, <1>7, <1>8, <1>9, <1>10, <1>11, <1>12,
     <1>13, <1>14, <1>15, <1>16, <1>17, <1>18, <1>19, <1>20, <1>21, <1>22,
     <1>23, <1>24 DEF Next

LEMMA HeldStopsStep ==
    ASSUME Closed, Types, MoverInv, Located, HasIt, Listed, Decided, MadeAs, HeldStops,
           [Next]_vars
    PROVE  ~deleted' => HeldStops'
<1> SUFFICES ASSUME ~deleted' PROVE HeldStops'
  OBVIOUS
<1> USE DEF At
<1>m. /\ mover \in Movers /\ mv \in Rows /\ copy \in [Machine -> Copy]
      /\ {held, wants} \subseteq BOOLEAN
      /\ InMove \cup Over \cup {"ask", "begin"} \subseteq Steps
      /\ mover.then \in {"begin", "failed"}
  BY DEF Types, Steps, InMove, Over, Movers
<1>s. /\ mover.pc \in InMove => Moving /\ AsTheRow
      /\ At("ask") /\ Moving => AsTheRow
      /\ mover.pc \in Over => ~Moving
      /\ Ours => Moving
  BY DEF MoverInv, AsTheRow, Ours, Sent, InMove, Moving, NoMove
<1>t. /\ record \in Machine /\ copy[record].st \in Whole
      /\ Moving => mv.from = record /\ mv.to \in Machine /\ mv.to # record
  BY DEF Located, HasIt, MoverInv, Distinct
<1>h. pausing = "no" => pausing \notin Machine /\ "no" # "marked"
  BY MachineAssumption
<1>k. ASSUME record' = record, held' => held, pausing' = pausing,
             held /\ copy'[record].st = "running" => copy[record].st = "running",
             ~At("heldStop") \/ mover' = mover
      PROVE  HeldStops'
  BY <1>k DEF HeldStops
<1>u. UNCHANGED <<record, held, pausing, copy>> /\ (~At("heldStop") \/ mover' = mover)
      => HeldStops'
  BY <1>k
<1>l. ASSUME NEW m, LeaveCopy(m) \/ UNCHANGED copy, UNCHANGED <<record, held, pausing>>,
             ~At("heldStop") \/ mover' = mover
      PROVE  HeldStops'
  <2>1. copy'[record] = copy[record]
    BY <1>l, <1>t, LeaveKeeps
  <2>. QED
    BY <1>l, <2>1, <1>k
<1> USE DEF tables, tasks, agents, history
<1>1. CASE MoverSteps
  <2>1. CASE Begin
    BY <2>1, <1>u DEF Begin
  <2>2. CASE AskFound
    BY <2>2, <1>u DEF AskFound
  <2>3. CASE AskGone
    BY <2>3, NeverGone
  <2>4. CASE There
    BY <2>4, <1>u DEF There
  <2>5. CASE WaitAgain
    BY <2>5, <1>u DEF WaitAgain
  <2>6. CASE DeleteOld
    <3>1. copy'[record] = copy[record]
      BY <2>6, <1>m, <1>s, <1>t DEF DeleteOld, InMove, AsTheRow
    <3>. QED
      BY <2>6, <3>1, <1>k DEF DeleteOld
  <2>7. CASE StopFrom
    <3>1. copy'[record].st = "running" => copy[record].st = "running"
      BY <2>7, <1>m, <1>t, StoppedIs DEF StopFrom
    <3>. QED
      BY <2>7, <3>1, <1>k DEF StopFrom
  <2>8. CASE CopyFolder
    BY <2>8, <1>u DEF CopyFolder
  <2>9. CASE MoveIn
    <3>1. copy'[record] = copy[record]
      BY <2>9, <1>m, <1>s, <1>t, TakenIs DEF MoveIn, InMove, AsTheRow
    <3>. QED
      BY <2>9, <3>1, <1>k DEF MoveIn
  <2>10. CASE NameMade
    BY <2>10, <1>u DEF NameMade
  <2>11. CASE Wait
    BY <2>11, <1>u DEF Wait
  <2>12. CASE CopyState
    BY <2>12, <1>u DEF CopyState
  <2>13. CASE SendLimits
    BY <2>13, <1>u DEF SendLimits
  <2>14. CASE SwitchServer
    <3>1. record' = mv.to /\ UNCHANGED <<copy, held, pausing>> /\ mover.ran = mv.ran
      BY <2>14, <1>s DEF SwitchServer, InMove, AsTheRow
    <3>2. copy[mv.to].st \in Whole /\ Ours
      BY <2>14 DEF SwitchServer, HasIt, Switching, Ours, Sent
    <3>3. copy[mv.to].st = "running" => mv.ran
      BY <3>2 DEF MadeAs
    <3>4. mover'.pc = "heldStop" /\ mover'.ran = mover.ran
      BY <2>14, <1>m, GoIs DEF SwitchServer, Over
    <3>. QED
      BY <3>1, <3>3, <3>4 DEF HeldStops
  <2>15. CASE HeldStop
    <3>1. mover.to = record /\ UNCHANGED <<record, held, pausing>>
      BY <2>15 DEF HeldStop, Located
    <3>2. CASE mover.ran /\ held
      <4>1. copy'[record].st # "running"
        BY <2>15, <3>1, <3>2, <1>m, <1>t, StoppedIs DEF HeldStop
      <4>. QED
        BY <3>1, <4>1 DEF HeldStops
    <3>3. CASE ~(mover.ran /\ held)
      <4>1. copy' = copy
        BY <2>15, <3>3 DEF HeldStop
      <4>. QED
        BY <3>1, <3>3, <4>1 DEF HeldStops
    <3>. QED
      BY <3>2, <3>3
  <2>16. CASE LeaveFrom
    BY <2>16, <1>l DEF LeaveFrom, LeaveStep
  <2>17. CASE EndMove
    BY <2>17, <1>u DEF EndMove
  <2>18. CASE StartAgain
    BY <2>18, <1>k DEF StartAgain, Starts
  <2>19. CASE LeaveTo
    BY <2>19, <1>l DEF LeaveTo, LeaveStep
  <2>20. CASE LookApart
    BY <2>20, <1>u DEF LookApart
  <2>21. CASE MoveDone
    BY <2>21, <1>u DEF MoveDone
  <2>22. CASE MoveFailed
    BY <2>22, <1>u DEF MoveFailed
  <2>23. CASE WriteRow
    BY <2>23, <1>u DEF WriteRow
  <2>. QED
    BY <1>1, <2>1, <2>2, <2>3, <2>4, <2>5, <2>6, <2>7, <2>8, <2>9, <2>10, <2>11,
       <2>12, <2>13, <2>14, <2>15, <2>16, <2>17, <2>18, <2>19, <2>20, <2>21,
       <2>22, <2>23 DEF MoverSteps
<1>2. ASSUME NEW m \in Machine, StartMove(m) PROVE HeldStops'
  BY <1>2, <1>u DEF StartMove
<1>3. ASSUME NEW m \in Machine, List(m) PROVE HeldStops'
  BY <1>3, <1>u DEF List
<1>4. ASSUME NEW m \in Machine, SyncReads(m) PROVE HeldStops'
  BY <1>4, <1>u DEF SyncReads
<1>5. ASSUME NEW m \in Machine, Leftover(m) PROVE HeldStops'
  BY <1>5, <1>l DEF Leftover
<1>6. ASSUME NEW m \in Machine, MoveInEnds(m) PROVE HeldStops'
  <2>1. copy'[record] = copy[record]
    BY <1>6, <1>m, <1>t DEF MoveInEnds, Whole
  <2>. QED
    BY <1>6, <2>1, <1>k DEF MoveInEnds
<1>7. ASSUME NEW m \in Machine, MoveInFails(m) PROVE HeldStops'
  <2>1. copy'[record] = copy[record]
    BY <1>7, <1>m, <1>t DEF MoveInFails, Whole
  <2>. QED
    BY <1>7, <2>1, <1>k DEF MoveInFails
<1>8. CASE ResumeMove
  BY <1>8, <1>u DEF ResumeMove
<1>9. CASE StartAgainFails
  BY <1>9, <1>k DEF StartAgainFails
<1>10. CASE StepFails
  <2>1. UNCHANGED <<record, held, pausing>> /\ ~At("heldStop")
    BY <1>10 DEF StepFails, Closed
  <2>2. CASE copy' \in {copy, Stopped(copy, mover.from)}
    <3>1. copy'[record].st = "running" => copy[record].st = "running"
      BY <2>2, <1>m, <1>t, StoppedIs
    <3>. QED
      BY <2>1, <3>1, <1>k
  <2>3. CASE At("moveIn") /\ Taken(mover.to)
    <3>1. copy'[record] = copy[record]
      BY <2>3, <1>m, <1>s, <1>t, TakenIs DEF InMove, AsTheRow
    <3>. QED
      BY <2>1, <3>1, <1>k
  <2>. QED
    BY <1>10, <2>2, <2>3 DEF StepFails
<1>11. CASE RetryLooks
  BY <1>11, <1>u DEF RetryLooks
<1>12. CASE RetryStarts
  BY <1>12, <1>k DEF RetryStarts, Starts
<1>13. CASE RetryFails
  BY <1>13, <1>u DEF RetryFails
<1>14. CASE PauseMarks
  BY <1>14 DEF PauseMarks, HeldStops
<1>15. CASE PauseLooks
  BY <1>15, MachineAssumption, <1>t DEF PauseLooks, HeldStops
<1>16. CASE PauseStops
  <2>1. /\ pausing \in Machine /\ pausing \notin {"marked", "unstopped"}
        /\ UNCHANGED <<record, held, mover>>
    BY <1>16, MachineAssumption DEF PauseStops
  <2>2. CASE copy' = Stopped(copy, pausing)
    <3>1. /\ copy'[record].st = "running" => copy[record].st = "running"
          /\ pausing = record => copy'[record].st # "running"
      BY <2>2, <1>m, <1>t, StoppedIs
    <3>. QED
      BY <2>1, <3>1 DEF HeldStops
  <2>3. CASE pausing' = "unstopped"
    BY <2>3 DEF HeldStops
  <2>. QED
    BY <1>16, <2>2, <2>3 DEF PauseStops
<1>17. CASE Renew
  BY <1>17 DEF Renew, HeldStops
<1>18. ASSUME NEW on \in BOOLEAN, UserRuns(on) PROVE HeldStops'
  BY <1>18 DEF UserRuns, HeldStops
<1>19. CASE UserDeletes
  BY <1>19 DEF UserDeletes
<1>20. CASE Play
  <2>1. copy'[record].st = copy[record].st
    BY <1>20, <1>m, <1>t DEF Play
  <2>. QED
    BY <1>20, <2>1, <1>k DEF Play
<1>21. CASE Claim
  BY <1>21, <1>u, ClaimKeeps DEF Claim
<1>22. CASE SyncSends
  BY <1>22, <1>u DEF SyncSends
<1>23. CASE Restart
  BY <1>23, <1>u DEF Restart, Closed
<1>24. CASE UNCHANGED vars
  BY <1>24, <1>u DEF vars
<1>. QED
  BY <1>1, <1>2, <1>3, <1>4, <1>5, <1>6, <1>7, <1>8, <1>9, <1>10, <1>11, <1>12,
     <1>13, <1>14, <1>15, <1>16, <1>17, <1>18, <1>19, <1>20, <1>21, <1>22,
     <1>23, <1>24 DEF Next

LEMMA RunStep ==
    ASSUME Closed, Types, MoverInv, PlaceInv, RunInv, [Next]_vars PROVE RunInv'
<1> SUFFICES ASSUME ~deleted'
             PROVE  Decided' /\ RunsAgain' /\ RowKnows' /\ MadeAs' /\ HeldStops'
  BY DEF RunInv
<1>1. ~deleted
  BY DeletedOnce
<1>2. /\ Located /\ HasIt /\ Listed
      /\ Decided /\ RunsAgain /\ RowKnows /\ MadeAs /\ HeldStops
  BY <1>1 DEF PlaceInv, RunInv
<1>. QED
  BY <1>2, DecidedStep, RunsAgainStep, RowKnowsStep, MadeAsStep, HeldStopsStep

(* RunsAsWanted: once no move and no pause goes on and none has to start it *)
(* again, a server that was wanted running runs, here or there, and a       *)
(* paused customer's is stopped; for any machines, moves and failing steps, *)
(* with the windows closed.                                                 *)
THEOREM MovedServersRun ==
    ASSUME Closed PROVE Spec => []RunsAsWanted
<1>1. ASSUME TableInv, RunInv PROVE RunsAsWanted
  <2> SUFFICES ASSUME At("idle"), Reached, ~deleted, restart = None, retry = None,
                      pausing = "no"
               PROVE  /\ wants => copy[record].st = "running"
                      /\ held => copy[record].st # "running"
    BY DEF RunsAsWanted
  <2>1. Decided /\ RunsAgain /\ HeldStops /\ record \in Machine
    BY <1>1 DEF RunInv, TableInv, PlaceInv, Located
  <2>2. ~Moving /\ ~At("heldStop") /\ ~At("abStart") /\ restart # record
    BY <2>1, MachineAssumption DEF Reached, At
  <2>3. pausing \notin {"marked", record}
    BY <2>1, MachineAssumption
  <2>. QED
    BY <2>1, <2>2, <2>3 DEF RunsAgain, HeldStops
<1>2. TableInv /\ RunInv /\ [Next]_vars => RunInv'
  BY Closed, RunStep DEF TableInv
<1>. QED
  BY <1>1, <1>2, TableInit, TableStep, RunInit, PTL DEF Spec
=============================================================================
