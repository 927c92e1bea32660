----------------------------- MODULE BackupCopies -----------------------------
(***************************************************************************)
(* One server's backups, their copies somewhere else, and the rules that   *)
(* delete both (internal/agent/offsite.go and backuprules.go over          *)
(* internal/backup/retention): the operation that makes a backup, queues   *)
(* it and applies the rules; the uploader that empties the queue and       *)
(* applies the rules at the destination; the owner who turns copies on     *)
(* and off, moves them and deletes backups; and an agent that dies.        *)
(*                                                                         *)
(* Every backup here is automatic and passed its check.  Left out: backups *)
(* made by hand and before a restore, which the rules keep anyway, what a  *)
(* download to the owner's computer allows the rules to delete, and what   *)
(* an unfinished upload left behind.                                       *)
(***************************************************************************)
EXTENDS Naturals, Sequences, FiniteSets, FiniteSetsExt, Functions

CONSTANTS
    MaxBackups,  \* backups made in one behaviour
    Lineages,    \* worlds and versions they are of, at most
    Ruled(_, _), \* what a place's rules may keep of the backups there
    Place,       \* destinations the owner chooses between
    MaxQueue,    \* copies that wait besides the claimed one (offsiteMaxQueue)
    MaxRequests, \* changes of the settings or the key, and deletions
    MaxFaults,   \* failures and deaths of the agent
    Windows      \* sequences a run looks at, named where they matter

ASSUME BoundsAssumption ==
    /\ MaxBackups \in Nat /\ Lineages \in Nat
    /\ MaxRequests \in Nat /\ MaxFaults \in Nat
ASSUME QueueAssumption == MaxQueue \in Nat \ {0}
ASSUME PlaceAssumption == Place # {} /\ "none" \notin Place
ASSUME RulesAssumption ==
    \A w \in {"here", "there"}, S \in SUBSET (1..MaxBackups) :
        Ruled(w, S) \subseteq SUBSET S
ASSUME WindowsAssumption ==
    Windows \subseteq {"recordLate", "rulesApart", "ownerMeanwhile", "unreadMove"}

VARIABLES
    of,         \* the lineage of each backup made so far, oldest first
    rows,       \* backups: those on record as on this machine
    archives,   \* those whose archive is there
    queue,      \* offsite_uploads: when each of them was queued
    due,        \* those whose next_attempt has come
    recorded,   \* offsite_copies
    there,      \* what each place holds
    enabled,    \* offsite.enabled
    place,      \* offsite.config: where copies go
    uploader,   \* the uploader's round, its claim and what it read
    op,         \* who holds the operation lock, and its step
    owner,      \* what the owner's request has yet to do
    given,      \* backups the owner deleted, or that can't be copied
    requests,   \* the owner's requests so far
    faults      \* failures so far

Waiting == DOMAIN queue
disk == <<rows, archives>>
remote == <<recorded, there>>
waiting == <<queue, due>>
settings == <<enabled, place>>
counts == <<requests, faults>>
vars == <<of, rows, archives, queue, due, recorded, there, enabled, place,
          uploader, op, owner, given, requests, faults>>

-----------------------------------------------------------------------------

Backup == 1..MaxBackups
Made == DOMAIN of
Newest == Len(of)

\* A round: where it goes (at), the claimed backup (job), whether the key
\* or a secret changed since the round began (rekeyed), whether settings
\* were saved since the claim (since) and the claim was stopped, and the
\* copies its rules have yet to delete (plan).
Rest == [pc |-> "rest", at |-> "none", job |-> 0, rekeyed |-> FALSE,
         since |-> FALSE, stopped |-> FALSE, plan |-> {}]
Rounds == [pc : {"rest", "empty", "round", "claimed", "sending", "sent", "failed",
                 "record", "prune", "pruning", "pruned", "rules"},
           at : Place \union {"none"}, job : Backup \union {0},
           rekeyed : BOOLEAN, since : BOOLEAN, stopped : BOOLEAN,
           plan : SUBSET Backup]

Unlocked == [by |-> "none", pc |-> "none", plan |-> {}]
Locked == [by : {"none", "backup", "uploader"},
           pc : {"none", "queue", "plan", "remove", "unlist"},
           plan : SUBSET Backup]

\* What a request has yet to do, and what each of it comes after.
Before == [forget |-> {}, stop |-> {"forget"}, due |-> {"forget", "stop"},
           queue |-> {"forget", "stop", "due"}, unlist |-> {}, unrecord |-> {}]
Quiet == [todo |-> {}, which |-> 0]
Due(step) == step \in owner.todo /\ owner.todo \intersect Before[step] = {}
Done(step) == owner' = [owner EXCEPT !.todo = @ \ {step}]

TypeOK ==
    /\ of \in Seq(1..Lineages) /\ Len(of) <= MaxBackups
    /\ rows \subseteq Made /\ archives \subseteq Made
    /\ Waiting \subseteq Made /\ queue \in [Waiting -> Nat] /\ IsInjective(queue)
    /\ due \subseteq Waiting
    /\ recorded \subseteq Made /\ there \in [Place -> SUBSET Made]
    /\ enabled \in BOOLEAN /\ place \in Place
    /\ uploader \in Rounds /\ op \in Locked
    /\ (uploader.pc = "rules") = (op.by = "uploader")
    /\ owner \in [todo : SUBSET DOMAIN Before, which : Backup \union {0}]
    /\ given \subseteq Made
    /\ requests \in 0..MaxRequests /\ faults \in 0..MaxFaults

Init ==
    /\ of = <<>> /\ rows = {} /\ archives = {}
    /\ queue = [b \in {} |-> 0] /\ due = {}
    /\ recorded = {} /\ there = [p \in Place |-> {}]
    /\ enabled \in BOOLEAN /\ place = CHOOSE p \in Place : TRUE
    /\ uploader = Rest /\ op = Unlocked /\ owner = Quiet
    /\ given = {} /\ requests = 0 /\ faults = 0

Fault == faults < MaxFaults /\ faults' = faults + 1
Round(pc) == uploader' = [uploader EXCEPT !.pc = pc]
OpGoes(pc, plan) == op' = [op EXCEPT !.pc = pc, !.plan = plan]

-----------------------------------------------------------------------------
(* The rules                                                               *)

NewestOf(S) == IF S = {} THEN {} ELSE {Max(S)}

\* Mutant: looks for them on this machine alone.
OnlyCopiesHere ==
    {b \in rows : /\ b \in NewestOf({c \in rows : of[c] = of[b]})
                  /\ of[b] # of[Max(rows)]}

\* onlyCopies: the newest good backup of each world and version but the
\* newest good backup's own.
OnlyCopies ==
    LET good == rows \union recorded
        of1(l) == {b \in good : of[b] = l}
    IN {b \in good : b \in NewestOf(of1(of[b])) /\ of[b] # of[Max(good)]}

\* plan on this machine: ruled are those that the hours, days, weeks, months
\* and numbers of the settings keep.
HostKept(ruled) ==
    rows \intersect (ruled \union Waiting \union NewestOf(rows)
                     \union (OnlyCopies \ recorded))

\* plan off the server, which counts on what the one here keeps.
OffKept(ruled, hostKept) ==
    recorded \intersect (ruled \union (Waiting \intersect rows)
                         \union NewestOf(recorded)
                         \union (OnlyCopies \ (rows \intersect hostKept)))

-----------------------------------------------------------------------------
(* The queue                                                               *)

Claimed == {uploader.job} \ {0}

\* INSERT OR IGNORE, later than what waits.
Inserted(b) ==
    [c \in Waiting \union {b} |->
        IF c \in Waiting THEN queue[c] ELSE Max({0} \union Range(queue)) + 1]

\* Mutant: the upload that was claimed may be trimmed.
TrimmedAny(q) ==
    Restrict(q, {b \in DOMAIN q :
                   Cardinality({c \in DOMAIN q : q[c] > q[b]}) < MaxQueue})

\* What trimming leaves: the newest that wait, and the claimed one.
Trimmed(q) ==
    Restrict(q, {b \in DOMAIN q : \/ b \in Claimed
                    \/ Cardinality({c \in DOMAIN q : q[c] > q[b]}) < MaxQueue})

Queued(b) ==
    /\ queue' = Trimmed(Inserted(b))
    /\ due' = (due \union ({b} \ Waiting)) \intersect DOMAIN queue'

Leaves(b) ==
    /\ queue' = Restrict(queue, Waiting \ {b})
    /\ due' = due \ {b}

-----------------------------------------------------------------------------
(* The operation that makes a backup, and the rules on this machine        *)

Open(w) == w \in Windows
RulesRunHere == op.pc \in {"remove", "unlist"}
RulesRunThere == uploader.pc \in {"pruning", "pruned"}

\* makeBackup, until the backup is on record and passed its check.  Worlds
\* and versions are numbered as they first appear.
MakeBackup(l) ==
    /\ op = Unlocked /\ Len(of) < MaxBackups
    /\ l <= Max({0} \union Range(of)) + 1
    /\ of' = Append(of, l)
    /\ rows' = rows \union {Len(of) + 1}
    /\ archives' = archives \union {Len(of) + 1}
    /\ op' = [by |-> "backup", pc |-> "queue", plan |-> {}]
    /\ UNCHANGED <<waiting, remote, settings, uploader, owner, given, counts>>

\* afterBackup queues it: when copies are on, and when that can't be read.
QueueBackup ==
    /\ op.pc = "queue"
    /\ \/ enabled /\ Queued(Newest) /\ UNCHANGED faults
       \/ ~enabled /\ Fault /\ Queued(Newest)
       \/ ~enabled /\ UNCHANGED <<waiting, faults>>
    /\ OpGoes("plan", {})
    /\ UNCHANGED <<of, disk, remote, settings, uploader, owner, given, requests>>

\* applyRetention, for a backup or for the uploader after a copy.
PlanHere(ruled) ==
    /\ op.pc = "plan"
    /\ Open("rulesApart") \/ ~RulesRunThere
    /\ Open("ownerMeanwhile") \/ owner = Quiet
    /\ OpGoes("remove", rows \ HostKept(ruled))
    /\ UNCHANGED <<of, disk, waiting, remote, settings, uploader, owner, given,
                   counts>>

\* removeBackup deletes the archive, then the row; an archive that can't be
\* deleted keeps its row.
RemoveArchive ==
    /\ op.pc = "remove" /\ op.plan # {}
    /\ \/ /\ archives' = archives \ {Max(op.plan)}
          /\ OpGoes("unlist", op.plan) /\ UNCHANGED faults
       \/ /\ Fault /\ UNCHANGED archives
          /\ OpGoes("remove", op.plan \ {Max(op.plan)})
    /\ UNCHANGED <<of, rows, waiting, remote, settings, uploader, owner, given,
                   requests>>

RemoveRow ==
    /\ op.pc = "unlist"
    /\ \/ rows' = rows \ {Max(op.plan)} /\ UNCHANGED faults
       \/ Open("recordLate") /\ Fault /\ UNCHANGED rows
    /\ OpGoes("remove", op.plan \ {Max(op.plan)})
    /\ UNCHANGED <<of, archives, waiting, remote, settings, uploader, owner,
                   given, requests>>

NextCopy == uploader' = [Rest EXCEPT !.pc = "round", !.at = uploader.at,
                                     !.rekeyed = uploader.rekeyed]

\* Mutant: the round that applied the rules isn't gone on with.
EndRulesHere ==
    /\ op.pc = "remove" /\ op.plan = {}
    /\ op' = Unlocked
    /\ UNCHANGED <<of, disk, waiting, remote, settings, uploader, owner, given,
                   counts>>

EndRules ==
    /\ op.pc = "remove" /\ op.plan = {}
    /\ op' = Unlocked
    /\ IF op.by = "uploader" THEN NextCopy ELSE UNCHANGED uploader
    /\ UNCHANGED <<of, disk, waiting, remote, settings, owner, given, counts>>

-----------------------------------------------------------------------------
(* The uploader                                                            *)

\* offsiteRound reads the settings: copies that are off empty the queue.
BeginRound ==
    /\ uploader = Rest
    /\ \/ /\ enabled /\ due # {}
          /\ uploader' = [Rest EXCEPT !.pc = "round", !.at = place]
       \/ /\ ~enabled /\ Waiting # {}
          /\ Round("empty")
    /\ UNCHANGED <<of, disk, waiting, remote, settings, op, owner, given, counts>>

EmptyQueue ==
    /\ uploader.pc = "empty"
    /\ queue' = [b \in {} |-> 0] /\ due' = {}
    /\ uploader' = Rest
    /\ UNCHANGED <<of, disk, remote, settings, op, owner, given, counts>>

\* claimUpload: the last queued that is due.
ClaimUpload ==
    /\ uploader.pc = "round"
    /\ IF due = {}
       THEN uploader' = Rest
       ELSE \E b \in due :
              /\ \A c \in due : queue[c] <= queue[b]
              /\ uploader' = [uploader EXCEPT !.pc = "claimed", !.job = b]
    /\ UNCHANGED <<of, disk, waiting, remote, settings, op, owner, given, counts>>

AtOldPlace == ~enabled \/ place # uploader.at

\* uploadFailed, when a later try may do: one that was stopped, or ended by
\* settings saved since its claim, stays due; others wait.
TryAgain ==
    \/ (uploader.stopped \/ uploader.since) /\ UNCHANGED waiting
    \/ /\ ~uploader.stopped /\ ~uploader.since
       /\ due' = due \ {uploader.job} /\ UNCHANGED queue

\* uploadOne looks again at the settings and the backup; either may fail to
\* be read, which ends the round and, for the backup, the try.
CheckUpload ==
    /\ uploader.pc = "claimed"
    /\ LET ends == AtOldPlace \/ uploader.rekeyed
           gone == uploader.job \notin rows \intersect archives
       IN \/ ends /\ uploader' = Rest /\ UNCHANGED <<waiting, faults>>
          \/ ~ends /\ gone /\ NextCopy /\ Leaves(uploader.job) /\ UNCHANGED faults
          \/ ~ends /\ ~gone /\ Round("sending") /\ UNCHANGED <<waiting, faults>>
          \/ Fault /\ uploader' = Rest /\ UNCHANGED waiting
          \/ Fault /\ ~ends /\ uploader' = Rest /\ TryAgain
    /\ UNCHANGED <<of, disk, remote, settings, op, owner, given, requests>>

\* Destination.Upload: makes the copy, or adopts the one it finds.  It fails
\* when it is stopped, or when its answer is lost.
Upload ==
    /\ uploader.pc = "sending"
    /\ \/ there' = [there EXCEPT ![uploader.at] = @ \union {uploader.job}]
       \/ UNCHANGED there
    /\ \/ /\ uploader.job \in there'[uploader.at]
          /\ uploader' = [uploader EXCEPT !.pc = "sent", !.since = FALSE, !.stopped = FALSE]
          /\ UNCHANGED faults
       \/ uploader.stopped /\ Round("failed") /\ UNCHANGED faults
       \/ ~uploader.stopped /\ Fault /\ Round("failed")
    /\ UNCHANGED <<of, disk, waiting, recorded, settings, op, owner, given, requests>>

\* Mutant: records the copy wherever copies go by then.
CheckSentTrusting ==
    /\ uploader.pc = "sent"
    /\ Round("record")
    /\ UNCHANGED <<of, disk, waiting, remote, settings, op, owner, given, counts>>

\* The settings are read once more before the copy is recorded.  When they
\* can't be, it is recorded with those it was made with, wherever copies go
\* by then.
CheckSent ==
    /\ uploader.pc = "sent"
    /\ \/ AtOldPlace /\ uploader' = Rest /\ UNCHANGED faults
       \/ ~AtOldPlace /\ Round("record") /\ UNCHANGED faults
       \/ /\ Open("unreadMove") \/ place = uploader.at
          /\ Fault /\ Round("record")
    /\ UNCHANGED <<of, disk, waiting, remote, settings, op, owner, given, requests>>

\* The same look at the settings after a failed try; a backup that can never
\* be copied leaves the queue.
UploadFailed ==
    /\ uploader.pc = "failed"
    /\ uploader' = Rest
    /\ \/ AtOldPlace /\ UNCHANGED <<waiting, given, faults>>
       \/ /\ IF AtOldPlace THEN Fault ELSE UNCHANGED faults
          /\ \/ TryAgain /\ UNCHANGED given
             \/ /\ ~uploader.stopped
                /\ Leaves(uploader.job) /\ given' = given \union {uploader.job}
    /\ UNCHANGED <<of, disk, remote, settings, op, owner, requests>>

\* recordCopy: one transaction.  One that fails leaves the copy queued.
RecordCopy ==
    /\ uploader.pc = "record"
    /\ \/ /\ recorded' = recorded \union {uploader.job}
          /\ Leaves(uploader.job) /\ Round("prune") /\ UNCHANGED faults
       \/ /\ Fault /\ NextCopy /\ UNCHANGED <<waiting, recorded>>
    /\ UNCHANGED <<of, disk, there, settings, op, owner, given, requests>>

\* pruneOffsite plans once.  A copy that is being downloaded makes it skip,
\* which deletes nothing.
PlanThere(ruledHere, ruledThere) ==
    /\ uploader.pc = "prune"
    /\ Open("rulesApart") \/ ~RulesRunHere
    /\ Open("ownerMeanwhile") \/ owner = Quiet
    /\ uploader' = [uploader EXCEPT !.pc = "pruning",
           !.plan = recorded \ OffKept(ruledThere, HostKept(ruledHere))]
    /\ UNCHANGED <<of, disk, waiting, remote, settings, op, owner, given, counts>>

Pruned == Max(uploader.plan)
PruneGoes(pc) == uploader' = [uploader EXCEPT !.pc = pc, !.plan = @ \ {Pruned}]

DeleteCopy ==
    /\ uploader.pc = "pruning" /\ uploader.plan # {}
    /\ \/ Pruned \notin recorded /\ PruneGoes("pruning") /\ UNCHANGED <<there, faults>>
       \/ /\ Pruned \in recorded
          /\ there' = [there EXCEPT ![uploader.at] = @ \ {Pruned}]
          /\ Round("pruned") /\ UNCHANGED faults
       \/ /\ Pruned \in recorded
          /\ Fault /\ PruneGoes("pruning") /\ UNCHANGED there
    /\ UNCHANGED <<of, disk, waiting, recorded, settings, op, owner, given, requests>>

\* The copy's record goes after the copy; when it can't, it is only logged.
DeleteRecord ==
    /\ uploader.pc = "pruned"
    /\ \/ recorded' = recorded \ {Pruned} /\ UNCHANGED faults
       \/ Open("recordLate") /\ Fault /\ UNCHANGED recorded
    /\ PruneGoes("pruning")
    /\ UNCHANGED <<of, disk, waiting, there, settings, op, owner, given, requests>>

\* copyDone applies the rules on this machine too, if nothing else runs.
EndPrune ==
    /\ uploader.pc = "pruning" /\ uploader.plan = {}
    /\ \/ /\ op = Unlocked
          /\ op' = [by |-> "uploader", pc |-> "plan", plan |-> {}]
          /\ Round("rules")
       \/ op # Unlocked /\ NextCopy /\ UNCHANGED op
    /\ UNCHANGED <<of, disk, waiting, remote, settings, owner, given, counts>>

-----------------------------------------------------------------------------
(* The owner, time, and the agent's death                                  *)

Request == owner = Quiet /\ requests < MaxRequests /\ requests' = requests + 1

\* Mutant: a new place gets only what is queued from then on.
StepsUnqueued(conds) == {s \in {"forget", "stop", "due"} : conds[s]}

StepsOf(conds) == {s \in {"forget", "stop", "due", "queue"} : conds[s]}

\* Whether settings saved, or a stop, still concern the claimed try.
Trying == uploader.pc \in {"claimed", "sending", "failed"}

\* hOffsiteSet saves the settings and then does what follows from them.
SaveSettings(p, on) ==
    LET moved == p # place
        turnedOn == on /\ ~enabled
    IN /\ Request
       /\ moved \/ on # enabled
       /\ \/ Open("ownerMeanwhile")
          \/ ~moved /\ ~turnedOn
          \/ ~RulesRunHere /\ ~RulesRunThere
             /\ uploader.pc \notin {"empty", "record"}
       /\ enabled' = on /\ place' = p
       /\ uploader' = [uploader EXCEPT !.since = @ \/ Trying]
       /\ owner' = [Quiet EXCEPT !.todo = StepsOf(
              [forget |-> moved, stop |-> moved \/ ~on, due |-> on,
               queue |-> turnedOn \/ (moved /\ on)])]
       /\ UNCHANGED <<of, disk, waiting, remote, op, given, faults>>

\* hOffsiteNewKey, or other secrets.
NewKey ==
    /\ Request
    /\ uploader' = [uploader EXCEPT !.rekeyed = uploader # Rest,
                                    !.since = @ \/ Trying]
    /\ owner' = [Quiet EXCEPT !.todo = {"stop"}]
    /\ UNCHANGED <<of, disk, waiting, remote, settings, op, given, faults>>

Forget ==
    /\ Due("forget") /\ Done("forget")
    /\ recorded' = {}
    /\ UNCHANGED <<of, disk, waiting, there, settings, uploader, op, given, counts>>

StopUpload ==
    /\ Due("stop") /\ Done("stop")
    /\ uploader' = [uploader EXCEPT !.stopped = @ \/ Trying]
    /\ UNCHANGED <<of, disk, waiting, remote, settings, op, given, counts>>

MakeDue ==
    /\ Due("due") /\ Done("due")
    /\ due' = Waiting
    /\ UNCHANGED <<of, disk, queue, remote, settings, uploader, op, given, counts>>

QueueNewest ==
    /\ Due("queue") /\ Done("queue")
    /\ IF enabled /\ rows # {} THEN Queued(Max(rows)) ELSE UNCHANGED waiting
    /\ UNCHANGED <<of, disk, remote, settings, uploader, op, given, counts>>

\* hOffsiteCopyDelete deletes the copy, then its record.
CopyDelete(b) ==
    /\ Request /\ op = Unlocked /\ b \in recorded
    /\ Open("ownerMeanwhile") \/ (~RulesRunThere /\ uploader.job # b)
    /\ there' = [there EXCEPT ![place] = @ \ {b}]
    /\ given' = given \union {b}
    /\ owner' = [todo |-> {"unrecord"}, which |-> b]
    /\ UNCHANGED <<of, disk, waiting, recorded, settings, uploader, op, faults>>

Unrecord ==
    /\ Due("unrecord") /\ owner' = Quiet
    /\ recorded' = recorded \ {owner.which}
    /\ UNCHANGED <<of, disk, waiting, there, settings, uploader, op, given, counts>>

\* hBackupDelete deletes the archive, then the row.
BackupDelete(b) ==
    /\ Request /\ op = Unlocked /\ b \in rows
    /\ Open("ownerMeanwhile") \/ ~RulesRunThere
    /\ archives' = archives \ {b}
    /\ given' = given \union {b}
    /\ owner' = [todo |-> {"unlist"}, which |-> b]
    /\ UNCHANGED <<of, rows, waiting, remote, settings, uploader, op, faults>>

Unlist ==
    /\ Due("unlist") /\ owner' = Quiet
    /\ rows' = rows \ {owner.which}
    /\ UNCHANGED <<of, archives, waiting, remote, settings, uploader, op, given,
                   counts>>

\* next_attempt comes, or the owner asks for a try now (hOffsiteRetry).
TimePasses ==
    /\ due # Waiting /\ due' = Waiting
    /\ UNCHANGED <<of, disk, queue, remote, settings, uploader, op, owner, given,
                   counts>>

\* A later write is still to come that a record depends on.
WritesPending ==
    op.pc \in {"queue", "unlist"} \/ uploader.pc = "pruned"
    \/ ~(owner.todo \subseteq {"stop"})

AgentDies ==
    /\ Fault
    /\ Open("recordLate") \/ ~WritesPending
    /\ uploader # Rest \/ op # Unlocked \/ owner # Quiet
    /\ uploader' = Rest /\ op' = Unlocked /\ owner' = Quiet
    /\ UNCHANGED <<of, disk, waiting, remote, settings, given, requests>>

-----------------------------------------------------------------------------

BackupStep ==
    \/ QueueBackup \/ RemoveArchive \/ RemoveRow \/ EndRules
    \/ \E ruled \in Ruled("here", rows) : PlanHere(ruled)

UploaderStep ==
    \/ BeginRound \/ EmptyQueue \/ ClaimUpload \/ CheckUpload \/ Upload
    \/ CheckSent \/ UploadFailed \/ RecordCopy
    \/ \E here \in Ruled("here", rows), off \in Ruled("there", recorded) :
          PlanThere(here, off)
    \/ DeleteCopy \/ DeleteRecord \/ EndPrune

RequestStep ==
    Forget \/ StopUpload \/ MakeDue \/ QueueNewest \/ Unrecord \/ Unlist

Next ==
    \/ \E l \in 1..Lineages : MakeBackup(l)
    \/ BackupStep \/ UploaderStep \/ RequestStep
    \/ \E p \in Place, on \in BOOLEAN : SaveSettings(p, on)
    \/ NewKey
    \/ \E b \in Made : CopyDelete(b) \/ BackupDelete(b)
    \/ TimePasses \/ AgentDies

Spec == Init /\ [][Next]_vars

\* The agent's goroutines go on, a request that began is answered, and time
\* passes.  Nobody has to make a backup or save anything.
FairSpec ==
    /\ Spec
    /\ WF_vars(BackupStep) /\ WF_vars(UploaderStep) /\ WF_vars(RequestStep)
    /\ WF_vars(TimePasses)

-----------------------------------------------------------------------------
(* Properties                                                              *)

Kept(l) == {b \in Made : of[b] = l /\ (b \in rows \intersect archives
                                        \/ b \in recorded \intersect there[place])}

\* While nobody deletes or moves by hand, the rules never take the last
\* backup of a world or version: what one place deletes because the other
\* has it stays there (Decide decides both together, but each deletes later
\* and alone).
RulesSpareTheLast ==
    owner' = owner => \A l \in Range(of) : Kept(l) # {} => Kept(l)' # {}
OnlyCopiesKept == [][RulesSpareTheLast]_vars

\* A backup that waits for its copy keeps its archive until the owner deletes
\* it, and the one being copied stays queued until the uploader is done with
\* it, whatever is queued, trimmed and deleted meanwhile.
WaitersStay ==
    /\ owner' = owner => Waiting \intersect archives \subseteq archives'
    /\ uploader' = uploader => Claimed \intersect Waiting \subseteq Waiting'
WaitingKept == [][WaitersStay]_vars

\* What the rules and the queue delete by themselves spares both.
BackupsSpared == OnlyCopiesKept /\ WaitingKept

\* A copy on record is at the place copies go to now, except while it is
\* being deleted or forgotten: no copy made to another place, or deleted
\* meanwhile, is recorded.
RecordedIsThere ==
    \A b \in recorded \ there[place] :
        \/ uploader.pc = "pruned" /\ b = Pruned
        \/ Due("unrecord") /\ b = owner.which
        \/ Due("forget")

\* The newest backup is copied in the end, after whatever failed, was stopped
\* by new settings or a new key, or was moved or turned off and on, unless
\* the owner deleted it or its copy, or it can't be copied.
NewestCopied ==
    <>[](enabled /\ of # <<>> => Newest \in recorded \union given)

=============================================================================
