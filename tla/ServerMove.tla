------------------------------ MODULE ServerMove ------------------------------
(***************************************************************************)
(* Moving a customer's server between the dashboard's machines             *)
(* (internal/panel/moves.go): the dashboard stops it where it is, has the  *)
(* other machine make it from its whole folder, sends its requests there   *)
(* and has the copy it left deleted.  Its records are rows that outlive a  *)
(* restart; what goes wrong before the requests go there leaves the server *)
(* where it was.                                                           *)
(*                                                                         *)
(* One customer with one server.  Beside the move: the machines' listings, *)
(* which say where a server is, the disk limits that have to count it, the *)
(* customer's pause, and their own starts, stops and deletion.             *)
(***************************************************************************)
EXTENDS Naturals

CONSTANTS
    Machine, Local,     \* the machines, and the dashboard's own
    MaxMoves,           \* moves the owner starts
    MaxWorld,           \* times the world changes by being played
    MaxFaults,          \* steps that fail and restarts of the dashboard
    Windows             \* the code's narrow windows that are left open

None == "none"

\* A machine is none of pausing's other values, nor None.
ASSUME MachineAssumption ==
    Local \in Machine /\ {None, "no", "marked", "unstopped"} \cap Machine = {}
ASSUME MoveBoundsAssumption == {MaxMoves, MaxWorld, MaxFaults} \subseteq Nat
ASSUME WindowsAssumption ==
    Windows \subseteq {"lateRestart", "stopWhileAbandoning", "stopAfterSwitch",
                         "startWhileAsked"}

NoMove == [from |-> None, to |-> None, ran |-> FALSE, made |-> FALSE]

VARIABLES
    record,     \* server_machines: the machine the server's requests go to
    disputed,   \* its disputed_by
    home,       \* customer_homes: the customer's machine
    cmove,      \* customer_moves: none, going on, or stopped by an error
    mv,         \* server_moves: the server's move
    left,       \* left_copies: the copy a move left is here, or gone
    restart,    \* move_restarts: where the server is to start again
    held,       \* the customer is paused or suspended
    mover,      \* moveCustomer's goroutine
    retry,      \* retryRestarts found the server is to start on a machine
    pausing,    \* PauseCustomer, under customersMu, or that its stop failed
    listing,    \* a machine's listing that was asked for
    sync,       \* a machine's disk limits on their way, under diskSending
    copy,       \* what each machine has of the server
    limit,      \* the machine's disk limits count the server
    newest,     \* the world's latest state
    wants,      \* whoever decided it last, an agent that gave a start up
                \* included (startFailed), wants the server running
    deleted,    \* the customer deleted it
    moves, faults

tables == <<record, disputed, home, cmove, mv, left, restart, held>>
tasks == <<retry, pausing, listing, sync>>
agents == <<copy, limit>>
history == <<newest, wants, deleted, moves>>
vars == <<record, disputed, home, cmove, mv, left, restart, held, mover, retry,
          pausing, listing, sync, copy, limit, newest, wants, deleted, moves, faults>>

NoCopy == [st |-> "none", world |-> 0, start |-> FALSE]
Idle == [pc |-> "idle", from |-> None, to |-> None, ran |-> FALSE, start |-> FALSE,
         resume |-> FALSE, world |-> 0, then |-> "failed", pass |-> 0]
NoListing == [on |-> None, has |-> FALSE, old |-> FALSE, went |-> FALSE]
NoSync == [on |-> None, counts |-> FALSE]

Steps == {"idle", "begin", "ask", "row", "there", "waitAgain", "deleteOld", "stop", "copy",
          "moveIn", "made", "wait", "state", "limits", "switch", "heldStop",
          "leaveFrom", "abandon", "abStart", "leaveTo", "apart", "done", "failed"}
Somewhere == Machine \cup {None}
Whole == {"stopped", "running"}

TypeOK ==
    /\ {record, disputed, restart, retry} \subseteq Somewhere /\ home \in Machine
    /\ cmove \in {"none", "running", "stopped"}
    /\ mv \in [from : Somewhere, to : Somewhere, ran : BOOLEAN, made : BOOLEAN]
    /\ left \in [Machine -> {"none", "here", "gone"}]
    /\ {held, wants, deleted} \subseteq BOOLEAN
    /\ mover \in [pc : Steps, from : Somewhere, to : Somewhere, ran : BOOLEAN,
                  start : BOOLEAN, resume : BOOLEAN, world : 0..MaxWorld,
                  then : {"begin", "failed"}, pass : 0..2]
    /\ pausing \in Machine \cup {"no", "marked", "unstopped"}
    /\ listing \in [on : Somewhere, has : BOOLEAN, old : BOOLEAN, went : BOOLEAN]
    /\ sync \in [on : Somewhere, counts : BOOLEAN]
    /\ copy \in [Machine -> [st : {"none", "making", "broken"} \cup Whole,
                             world : 0..MaxWorld, start : BOOLEAN]]
    /\ limit \in [Machine -> BOOLEAN]
    /\ newest \in 0..MaxWorld /\ moves \in 0..MaxMoves /\ faults \in 0..MaxFaults

Init ==
    /\ home \in Machine /\ record = home
    /\ disputed = None /\ cmove = "none" /\ mv = NoMove
    /\ left = [m \in Machine |-> "none"] /\ restart = None /\ held = FALSE
    /\ mover = Idle /\ retry = None /\ pausing = "no"
    /\ listing = NoListing /\ sync = NoSync
    /\ copy = [m \in Machine |-> IF m = home THEN [NoCopy EXCEPT !.st = "running"]
                                 ELSE NoCopy]
    /\ limit = [m \in Machine |-> m = home]
    /\ newest = 0 /\ wants = TRUE /\ deleted = FALSE
    /\ moves = 0 /\ faults = 0

Fault == faults < MaxFaults /\ faults' = faults + 1
NoFault == UNCHANGED faults

Moving == mv # NoMove

\* hiddenCopies for a listing asked for now, and for one on its way.
HiddenNow(m) == mv.to = m \/ left[m] = "here"
\* Mutant: a copy stops being hidden as soon as it is gone.
HiddenWhileThere(m) == HiddenNow(m)
Hidden(m) == HiddenNow(m) \/ (left[m] = "gone" /\ listing.went)

\* serversApart
Apart == record \notin {None, home}

Stopped(c, m) ==
    IF c[m].st = "running" THEN [c EXCEPT ![m].st = "stopped"] ELSE c
Started(c, m) ==
    IF c[m].st = "stopped" THEN [c EXCEPT ![m].st = "running"] ELSE c

-----------------------------------------------------------------------------
(* The move                                                                *)

At(pc) == mover.pc = pc
Go(pc) == mover' = [mover EXCEPT !.pc = pc]

\* The server's part of the move is over.
Ends(pc) == mover' = [Idle EXCEPT !.pc = pc, !.pass = mover.pass]

\* What fails before the requests go there ends the move: abandonMove.
Abandon == mover' = [mover EXCEPT !.pc = "abandon", !.then = "failed"]

\* startMove: also to their own machine, to bring back what a stopped move
\* left apart.
StartMove(m) ==
    /\ At("idle") /\ moves < MaxMoves /\ ~deleted
    /\ m # home \/ cmove # "none" \/ Moving \/ Apart
    /\ cmove' = "running" /\ home' = m
    /\ mover' = [Idle EXCEPT !.pc = "begin"]
    /\ moves' = moves + 1
    /\ NoFault
    /\ UNCHANGED <<record, disputed, mv, left, restart, held, tasks, agents,
                   newest, wants, deleted>>

\* resumeMoves
ResumeMove ==
    /\ At("idle")
    /\ cmove = "running" \/ Moving
    /\ mover' = [Idle EXCEPT !.pc = "begin"]
    /\ NoFault
    /\ UNCHANGED <<tables, tasks, agents, history>>

\* moveServers: a move to where they aren't going now is undone first.
Begin ==
    /\ At("begin")
    /\ \/ /\ Moving /\ mv.to # home
          /\ mover' = [mover EXCEPT !.pc = "abandon", !.from = mv.from, !.to = mv.to,
                                    !.ran = mv.ran, !.then = "begin"]
       \/ /\ Moving /\ mv.to = home
          /\ mover' = [mover EXCEPT !.pc = "ask", !.from = mv.from, !.to = mv.to,
                                    !.ran = mv.ran, !.resume = TRUE]
       \/ /\ ~Moving /\ Apart
          /\ mover' = [mover EXCEPT !.pc = "ask", !.from = record, !.to = home,
                                    !.resume = FALSE]
       \/ /\ ~Moving /\ ~Apart
          /\ Ends("apart")
    /\ NoFault
    /\ UNCHANGED <<tables, tasks, agents, history>>

\* moveServer begins: the machine the server is on says how it is.
AskFound ==
    /\ At("ask") /\ copy[mover.from].st # "none"
    /\ mover' = IF Moving
                THEN [mover EXCEPT !.pc = "there", !.start = mover.ran /\ ~held]
                ELSE [mover EXCEPT !.pc = "row", !.ran = copy[mover.from].st = "running"]
    /\ NoFault
    /\ UNCHANGED <<tables, tasks, agents, history>>

\* From its row on, no request goes to the server.
WriteRow ==
    /\ At("row")
    /\ LET ran == mover.ran \/ restart = mover.from
       IN /\ mv' = [NoMove EXCEPT !.from = mover.from, !.to = mover.to, !.ran = ran]
          /\ mover' = [mover EXCEPT !.pc = "there", !.ran = ran, !.start = ran /\ ~held]
    /\ NoFault
    /\ UNCHANGED <<record, disputed, home, cmove, left, restart, held, tasks, agents,
                   history>>

\* Gone from there: its record goes, and the copy a move was making.
AskGone ==
    /\ At("ask") /\ copy[mover.from].st = "none"
    /\ record' = IF record = mover.from THEN None ELSE record
    /\ IF Moving
       THEN /\ left' = [left EXCEPT ![mv.to] = "here"] /\ mv' = NoMove
            /\ mover' = [mover EXCEPT !.pc = "leaveTo", !.then = "begin"]
       ELSE Ends("apart") /\ UNCHANGED <<left, mv>>
    /\ NoFault
    /\ UNCHANGED <<disputed, home, cmove, restart, held, tasks, agents, history>>

\* Mutant: whatever copy is there is taken for this move's.
ThereAny ==
    /\ At("there")
    /\ Go(CASE copy[mover.to].st = "none" -> "stop"
            [] copy[mover.to].st = "making" -> "waitAgain"
            [] copy[mover.to].st \in Whole -> "state"
            [] OTHER -> "deleteOld")
    /\ NoFault
    /\ UNCHANGED <<tables, tasks, agents, history>>

\* copyServer: a copy there goes first, unless this move made it.
There ==
    /\ At("there")
    /\ LET c == copy[mover.to]
           ours == mover.resume /\ mv.made
       IN Go(CASE c.st = "none" -> "stop"
               [] ours /\ c.st = "making" -> "waitAgain"
               [] ours /\ c.st \in Whole -> "state"
               [] OTHER -> "deleteOld")
    /\ NoFault
    /\ UNCHANGED <<tables, tasks, agents, history>>

WaitAgain ==
    /\ At("waitAgain") /\ copy[mover.to].st # "making"
    /\ Go(IF copy[mover.to].st \in Whole THEN "state" ELSE "deleteOld")
    /\ NoFault
    /\ UNCHANGED <<tables, tasks, agents, history>>

\* An agent busy making it refuses.
DeleteOld ==
    /\ At("deleteOld")
    /\ IF copy[mover.to].st = "making"
       THEN Abandon /\ UNCHANGED copy
       ELSE Go("stop") /\ copy' = [copy EXCEPT ![mover.to] = NoCopy]
    /\ NoFault
    /\ UNCHANGED <<tables, tasks, limit, history>>

\* Checked again (checkRoomFor), then stopped.
StopFrom ==
    /\ At("stop")
    /\ copy' = Stopped(copy, mover.from)
    /\ Go("copy")
    /\ NoFault
    /\ UNCHANGED <<tables, tasks, limit, history>>

\* copyFolder: the agent refuses to send a running server's folder.
CopyFolder ==
    /\ At("copy")
    /\ IF copy[mover.from].st = "stopped"
       THEN mover' = [mover EXCEPT !.pc = "moveIn", !.world = copy[mover.from].world]
       ELSE Abandon
    /\ NoFault
    /\ UNCHANGED <<tables, tasks, agents, history>>

Taken(m) == copy' = [copy EXCEPT ![m] = [st |-> "making", world |-> mover.world,
                                          start |-> mover.start]]

\* moveIn: the agent takes the upload, then the row names its operation.
MoveIn ==
    /\ At("moveIn")
    /\ Taken(mover.to)
    /\ mv' = [mv EXCEPT !.made = FALSE]
    /\ Go("made")
    /\ NoFault
    /\ UNCHANGED <<record, disputed, home, cmove, left, restart, held, tasks, limit, history>>

NameMade ==
    /\ At("made")
    /\ mv' = [mv EXCEPT !.made = TRUE]
    /\ Go("wait")
    /\ NoFault
    /\ UNCHANGED <<record, disputed, home, cmove, left, restart, held, tasks, agents, history>>

Wait ==
    /\ At("wait") /\ copy[mover.to].st # "making"
    /\ IF copy[mover.to].st \in Whole THEN Go("state") ELSE Abandon
    /\ NoFault
    /\ UNCHANGED <<tables, tasks, agents, history>>

\* copyBackupRules, copyMoveState
CopyState ==
    /\ At("state")
    /\ Go("limits")
    /\ NoFault
    /\ UNCHANGED <<tables, tasks, agents, history>>

\* switchTo: the limits count the copy, then the requests go there, with no
\* other limits sent meanwhile (diskSending).
SendLimits ==
    /\ At("limits") /\ sync = NoSync
    /\ limit' = [limit EXCEPT ![mover.to] = TRUE]
    /\ Go("switch")
    /\ NoFault
    /\ UNCHANGED <<tables, tasks, copy, history>>

SwitchServer ==
    /\ At("switch")
    /\ record' = mover.to /\ disputed' = None
    /\ left' = [left EXCEPT ![mover.to] = "none", ![mover.from] = "here"]
    /\ restart' = None /\ mv' = NoMove
    /\ listing' = IF listing.on = mover.to THEN [listing EXCEPT !.old = TRUE] ELSE listing
    /\ Go("heldStop")
    /\ NoFault
    /\ UNCHANGED <<home, cmove, held, retry, pausing, sync, agents, history>>

\* A customer paused while it moved had it stopped where it was.
HeldStop ==
    /\ At("heldStop")
    /\ copy' = IF mover.ran /\ held THEN Stopped(copy, mover.to) ELSE copy
    /\ Go("leaveFrom")
    /\ NoFault
    /\ UNCHANGED <<tables, tasks, limit, history>>

\* leaveCopy: the copy a move left on m goes, unless it is the server or
\* becomes it.  Its machine may be busy or away; the row stays then.
LeaveCopy(m) ==
    IF record = m \/ mv.to = m
    THEN left' = [left EXCEPT ![m] = "none"] /\ UNCHANGED <<copy, listing>>
    ELSE IF copy[m].st = "making" THEN UNCHANGED <<left, copy, listing>>
    ELSE /\ copy' = [copy EXCEPT ![m] = NoCopy]
         /\ left' = [left EXCEPT ![m] = "gone"]
         /\ listing' = IF listing.on = m THEN [listing EXCEPT !.went = TRUE] ELSE listing

LeaveStep(pc, m, next) ==
    /\ At(pc)
    /\ IF left[m] = "here" THEN LeaveCopy(m) ELSE UNCHANGED <<left, copy, listing>>
    /\ Ends(next)
    /\ NoFault
    /\ UNCHANGED <<record, disputed, home, cmove, mv, restart, held, retry, pausing,
                   sync, limit, history>>

LeaveFrom == LeaveStep("leaveFrom", mover.from, "apart")
LeaveTo == LeaveStep("leaveTo", mover.to, mover.then)

\* Mutant: the copy that was being made isn't listed.
EndMoveUnlisted ==
    /\ At("abandon")
    /\ mv' = NoMove
    /\ Go("abStart")
    /\ NoFault
    /\ UNCHANGED <<record, disputed, home, cmove, left, restart, held, tasks, agents,
                   history>>

\* abandonMove: endMove, then the start under customersMu, then the copy.
EndMove ==
    /\ At("abandon")
    /\ left' = [left EXCEPT ![mv.to] = "here"] /\ mv' = NoMove
    /\ Go("abStart")
    /\ NoFault
    /\ UNCHANGED <<record, disputed, home, cmove, restart, held, tasks, agents, history>>

\* customersMu is free.
Unlocked == pausing \in {"no", "unstopped"}

\* startOn is over once the agent took the request: a start that fails there
\* later leaves the server stopped, as its agent's own settings say then.
Starts(m) ==
    \/ copy' = Started(copy, m) /\ NoFault /\ UNCHANGED wants
    \/ Fault /\ copy[m].st = "stopped" /\ wants' = FALSE /\ UNCHANGED copy

StartAgain ==
    /\ At("abStart") /\ Unlocked
    /\ IF mover.ran /\ ~held
       THEN Starts(mover.from) /\ restart' = None
       ELSE NoFault /\ UNCHANGED <<copy, restart, wants>>
    /\ Go("leaveTo")
    /\ UNCHANGED <<record, disputed, home, cmove, mv, left, held, tasks, limit,
                   newest, deleted, moves>>

\* Mutant: a start that failed isn't tried again.
StartAgainForgotten ==
    /\ At("abStart") /\ Unlocked /\ mover.ran /\ ~held
    /\ Fault
    /\ copy' \in {copy, Started(copy, mover.from)}
    /\ Go("leaveTo")
    /\ UNCHANGED <<tables, tasks, limit, history>>

StartAgainFails ==
    /\ At("abStart") /\ Unlocked /\ mover.ran /\ ~held
    /\ Fault
    /\ restart' = mover.from
    /\ copy' \in {copy, Started(copy, mover.from)}
    /\ Go("leaveTo")
    /\ UNCHANGED <<record, disputed, home, cmove, mv, left, held, tasks, limit, history>>

\* moveCustomer looks again, up to three times, and ends the move.
LookApart ==
    /\ At("apart")
    /\ IF ~Apart THEN Go("done")
       ELSE IF mover.pass < 2
            THEN mover' = [Idle EXCEPT !.pc = "begin", !.pass = mover.pass + 1]
            ELSE Go("failed")
    /\ NoFault
    /\ UNCHANGED <<tables, tasks, agents, history>>

MoveDone ==
    /\ At("done")
    /\ cmove' = "none" /\ mover' = Idle
    /\ NoFault
    /\ UNCHANGED <<record, disputed, home, mv, left, restart, held, tasks, agents, history>>

MoveFailed ==
    /\ At("failed")
    /\ cmove' = IF cmove = "none" THEN "none" ELSE "stopped"
    /\ mover' = Idle
    /\ NoFault
    /\ UNCHANGED <<record, disputed, home, mv, left, restart, held, tasks, agents, history>>

\* A step fails: the machine doesn't answer, or did it and its answer is
\* lost.
StepFails ==
    /\ Fault
    /\ \/ /\ mover.pc \in {"ask", "row"}
          /\ IF Moving THEN Abandon ELSE Go("failed")
          /\ UNCHANGED <<copy, limit>>
       \/ /\ mover.pc \in {"there", "deleteOld", "stop", "copy", "moveIn", "wait",
                           "state", "limits", "switch"}
          /\ Abandon /\ UNCHANGED <<copy, limit>>
       \/ At("stop") /\ Abandon /\ copy' = Stopped(copy, mover.from) /\ UNCHANGED limit
       \/ At("moveIn") /\ Abandon /\ Taken(mover.to) /\ UNCHANGED limit
       \/ At("waitAgain") /\ Go("deleteOld") /\ UNCHANGED <<copy, limit>>
       \/ /\ mover.pc \in {"leaveFrom", "leaveTo"}
          /\ Ends(IF At("leaveFrom") THEN "apart" ELSE mover.then)
          /\ UNCHANGED <<copy, limit>>
       \/ /\ At("heldStop") /\ "stopAfterSwitch" \in Windows
          /\ Go("leaveFrom") /\ UNCHANGED <<copy, limit>>
    /\ UNCHANGED <<tables, tasks, history>>

-----------------------------------------------------------------------------
(* What goes on beside it                                                  *)

\* The operation making a copy ends.
MoveInEnds(m) ==
    /\ copy[m].st = "making"
    /\ copy' = [copy EXCEPT ![m].st = IF copy[m].start THEN "running" ELSE "stopped"]
    /\ NoFault
    /\ UNCHANGED <<tables, mover, tasks, limit, history>>

MoveInFails(m) ==
    /\ copy[m].st = "making"
    /\ Fault
    /\ copy' = [copy EXCEPT ![m].st = "broken"]
    /\ UNCHANGED <<tables, mover, tasks, limit, history>>

\* leaveLeftovers, while the customer's servers don't move.
Leftover(m) ==
    /\ At("idle") /\ left[m] = "here"
    /\ LeaveCopy(m)
    /\ NoFault
    /\ UNCHANGED <<record, disputed, home, cmove, mv, restart, held, mover, retry,
                   pausing, sync, limit, history>>

\* Whoever has the server started once a move asked whether it runs, before
\* the move's row is there.
Unasked == At("row") => "startWhileAsked" \in Windows

\* retryRestarts looks whether it moved or is being moved, then waits for
\* customersMu.
RetryLooks ==
    /\ restart # None /\ retry = None /\ ~Moving
    /\ IF record # restart
       THEN restart' = None /\ UNCHANGED retry
       ELSE retry' = restart /\ UNCHANGED restart
    /\ NoFault
    /\ UNCHANGED <<record, disputed, home, cmove, mv, left, held, mover, pausing,
                   listing, sync, agents, history>>

RetryStarts ==
    /\ retry # None /\ Unlocked /\ Unasked
    /\ IF "lateRestart" \notin Windows /\ (Moving \/ record # retry)
       THEN NoFault /\ UNCHANGED <<copy, restart, wants>>
       ELSE /\ IF held THEN NoFault /\ UNCHANGED <<copy, wants>> ELSE Starts(retry)
            /\ restart' = None
    /\ retry' = None
    /\ UNCHANGED <<record, disputed, home, cmove, mv, left, held, mover, pausing,
                   listing, sync, limit, newest, deleted, moves>>

\* The agent can't be reached, which the next pass tries again.
RetryFails ==
    /\ retry # None /\ Unlocked /\ ~held
    /\ retry' = None
    /\ NoFault
    /\ UNCHANGED <<tables, mover, pausing, listing, sync, agents, history>>

\* PauseCustomer: first the state, then a stop where the record says.
PauseMarks ==
    /\ pausing = "no" /\ ~held
    /\ held' = TRUE /\ pausing' = "marked" /\ wants' = FALSE
    /\ NoFault
    /\ UNCHANGED <<record, disputed, home, cmove, mv, left, restart, mover, retry,
                   listing, sync, agents, newest, deleted, moves>>

\* Mutant: a server without a record isn't looked for.
PauseLooksRecorded ==
    /\ pausing = "marked"
    /\ pausing' = record
    /\ NoFault
    /\ UNCHANGED <<tables, mover, retry, listing, sync, agents, history>>

PauseLooks ==
    /\ pausing = "marked"
    /\ pausing' = IF record = None THEN home ELSE record
    /\ NoFault
    /\ UNCHANGED <<tables, mover, retry, listing, sync, agents, history>>

\* One that won't stop is only logged.
PauseStops ==
    /\ pausing \in Machine
    /\ \/ copy' = Stopped(copy, pausing) /\ pausing' = "no" /\ NoFault
       \/ Fault /\ pausing' = "unstopped" /\ UNCHANGED copy
    /\ UNCHANGED <<tables, mover, retry, listing, sync, limit, history>>

\* resumeCustomer: the servers stay stopped.
Renew ==
    /\ held /\ Unlocked
    /\ held' = FALSE /\ pausing' = "no"
    /\ NoFault
    /\ UNCHANGED <<record, disputed, home, cmove, mv, left, restart, mover, retry,
                   listing, sync, agents, history>>

\* machineForServer: no request goes to a server being moved.
Reached == ~Moving /\ record # None /\ (disputed = None \/ record = Local)

\* The customer starts or stops it (runProxy) or deletes it.
UserRuns(on) ==
    /\ Reached /\ ~held
    /\ on => Unasked
    /\ copy[record].st = IF on THEN "stopped" ELSE "running"
    /\ copy' = [copy EXCEPT ![record].st = IF on THEN "running" ELSE "stopped"]
    /\ restart' = None /\ wants' = on
    /\ NoFault
    /\ UNCHANGED <<record, disputed, home, cmove, mv, left, held, mover, tasks, limit,
                   newest, deleted, moves>>

UserDeletes ==
    /\ Reached /\ ~held /\ copy[record].st \in Whole
    /\ copy' = [copy EXCEPT ![record] = NoCopy]
    /\ deleted' = TRUE /\ wants' = FALSE
    /\ NoFault
    /\ UNCHANGED <<tables, mover, tasks, limit, newest, moves>>

\* Players play it at its address, which its record decides.
Play ==
    /\ record # None /\ copy[record].st = "running" /\ newest < MaxWorld
    /\ newest' = newest + 1
    /\ copy' = [copy EXCEPT ![record].world = newest + 1]
    /\ NoFault
    /\ UNCHANGED <<tables, mover, tasks, limit, wants, deleted, moves>>

\* A machine is asked for its listing, which arrives later.
List(m) ==
    /\ listing = NoListing
    /\ listing' = [NoListing EXCEPT !.on = m, !.has = copy[m].st # "none"]
    /\ NoFault
    /\ UNCHANGED <<tables, mover, retry, pausing, sync, agents, history>>

\* recordServers, and claimLocal: a listed server is its machine's when no
\* record names it, or its machine is the dashboard's; else it's disputed.
\* One not listed is forgotten, unless it came there since.
Claim ==
    /\ listing # NoListing
    /\ LET m == listing.on
           shown == listing.has /\ ~Hidden(m)
       IN /\ record' = IF shown /\ (record = None \/ m = Local) THEN m
                       ELSE IF ~shown /\ record = m /\ ~listing.old THEN None
                       ELSE record
          /\ disputed' = IF shown /\ record \notin {None, m} /\ m # Local THEN m
                         ELSE IF disputed = m \/ (m = Local /\ shown) THEN None
                         ELSE disputed
          /\ left' \in IF listing.went THEN {left}
                       ELSE {left, [left EXCEPT ![m] = IF @ = "gone" THEN "none" ELSE @]}
    /\ listing' = NoListing
    /\ NoFault
    /\ UNCHANGED <<home, cmove, mv, restart, held, mover, retry, pausing, sync, agents,
                   history>>

\* syncDiskLimits: a machine's servers are read, then its limits sent, with
\* diskSending held.
SyncReads(m) ==
    /\ sync = NoSync /\ ~At("switch")
    /\ sync' = [on |-> m, counts |-> copy[m].st # "none" /\ ~HiddenNow(m)]
    /\ NoFault
    /\ UNCHANGED <<tables, mover, retry, pausing, listing, agents, history>>

SyncSends ==
    /\ sync # NoSync
    /\ limit' = [limit EXCEPT ![sync.on] = sync.counts]
    /\ sync' = NoSync
    /\ NoFault
    /\ UNCHANGED <<tables, mover, retry, pausing, listing, copy, history>>

\* The dashboard restarts: its goroutines and what was on its way are gone.
Restart ==
    /\ Fault
    /\ Unlocked
    /\ At("abStart") => "stopWhileAbandoning" \in Windows
    /\ At("heldStop") => "stopAfterSwitch" \in Windows
    /\ mover' = Idle /\ retry' = None /\ listing' = NoListing /\ sync' = NoSync
    /\ UNCHANGED <<tables, pausing, agents, history>>

-----------------------------------------------------------------------------

MoverSteps ==
    \/ Begin \/ AskFound \/ WriteRow \/ AskGone \/ There \/ WaitAgain \/ DeleteOld \/ StopFrom
    \/ CopyFolder \/ MoveIn \/ NameMade \/ Wait \/ CopyState \/ SendLimits
    \/ SwitchServer \/ HeldStop \/ LeaveFrom \/ EndMove \/ StartAgain \/ LeaveTo
    \/ LookApart \/ MoveDone \/ MoveFailed

Next ==
    \/ \E m \in Machine : StartMove(m) \/ List(m) \/ SyncReads(m) \/ Leftover(m)
                          \/ MoveInEnds(m) \/ MoveInFails(m)
    \/ MoverSteps \/ ResumeMove \/ StartAgainFails \/ StepFails
    \/ RetryLooks \/ RetryStarts \/ RetryFails
    \/ PauseMarks \/ PauseLooks \/ PauseStops \/ Renew
    \/ \E on \in BOOLEAN : UserRuns(on)
    \/ UserDeletes \/ Play \/ Claim \/ SyncSends \/ Restart

Spec == Init /\ [][Next]_vars

-----------------------------------------------------------------------------
(* What a move promises                                                    *)

\* The machine the server's requests go to has it whole, with all that was
\* ever played: "Whatever fails until its requests go there, sending them
\* there included, leaves it where it was" (moves.go:783-784).
NothingPlayedIsLost ==
    record # None /\ ~deleted =>
        copy[record].st \in Whole /\ copy[record].world = newest

\* A server that wasn't deleted stays the dashboard's: no listing of a
\* machine a move took it to or from drops or disputes its record.
StaysKnown == ~deleted => record # None /\ disputed = None

\* The machine the requests go to counts the server against its customer's
\* disk limit.
CountedWhereItIs == Reached /\ copy[record].st \in Whole => limit[record]

\* No copy is forgotten: one on a machine the requests don't go to is being
\* made by a move, or is on the list of those to delete.
CopiesKnown ==
    \A m \in Machine : copy[m].st # "none" /\ ~deleted =>
        record = m \/ mv.to = m \/ left[m] = "here"

\* Wherever a move stops, the dashboard forgets neither the server nor a copy.
NoneForgotten == StaysKnown /\ CopiesKnown

\* Nor does a machine's disk limit: the dashboard's and the agents' tables
\* agree on where the server is.
TablesAgree == NoneForgotten /\ CountedWhereItIs

\* Once no move and no pause of it goes on, and it isn't to be started again,
\* a server that ran runs, here or there, and a paused customer's is stopped,
\* unless stopping it failed: "One that won't stop is logged; starting it stays
\* refused while they're paused" (pausing.go:119-120).
RunsAsWanted ==
    /\ At("idle") /\ Reached /\ ~deleted
    /\ restart = None /\ retry = None /\ pausing = "no"
    => /\ wants => copy[record].st = "running"
       /\ held => copy[record].st # "running"
=============================================================================
