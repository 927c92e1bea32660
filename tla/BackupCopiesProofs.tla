-------------------------- MODULE BackupCopiesProofs --------------------------
(***************************************************************************)
(* Proofs about BackupCopies, for any number of backups, rules, places,    *)
(* queue, requests and faults, while none of the windows is open.          *)
(*                                                                         *)
(* BackupInv says what both lots of rules rely on while they delete: that  *)
(* of every world and version there is a backup which isn't among those    *)
(* they have yet to delete, and that nothing else deletes meanwhile.  The  *)
(* types, at the end, hold whatever windows are open.                      *)
(***************************************************************************)
EXTENDS BackupCopies, WellFoundedInduction, TLAPS

(* None of the windows is open. *)
Closed == Windows = {}

(* Values that the steps below take apart. *)
Shapes ==
    /\ of \in Seq(1..Lineages)
    /\ rows \subseteq Made /\ recorded \subseteq Made
    /\ there = [p \in Place |-> there[p]] /\ place \in Place
    /\ uploader = [pc |-> uploader.pc, at |-> uploader.at, job |-> uploader.job,
                   rekeyed |-> uploader.rekeyed, since |-> uploader.since,
                   stopped |-> uploader.stopped, plan |-> uploader.plan]
    /\ op = [by |-> op.by, pc |-> op.pc, plan |-> op.plan]
    /\ owner = [todo |-> owner.todo, which |-> owner.which]
    /\ \/ owner.todo \subseteq {"forget", "stop", "due", "queue"}
       \/ owner.todo \in {{"unlist"}, {"unrecord"}}
    /\ uploader.plan \subseteq Made /\ (uploader.pc = "pruned" => uploader.plan # {})
    /\ op.plan \subseteq Made /\ (op.pc = "unlist" => op.plan # {})

(* What a round knows of the copy it makes. *)
Carried ==
    /\ uploader.pc \in {"rest", "empty"} \/ uploader.at \in Place
    /\ op.by = "uploader" => uploader.pc = "rules"
    /\ uploader.pc \in {"sending", "sent", "record"} => uploader.job \in Made
    /\ uploader.pc \in {"sent", "record"} => uploader.job \in there[uploader.at]
    /\ uploader.pc = "record" => uploader.at = place

(* What is on record as here is here, but for what is being deleted. *)
ListedIsHere ==
    \A b \in rows \ archives :
        \/ op.pc = "unlist" /\ b = Max(op.plan)
        \/ "unlist" \in owner.todo /\ b = owner.which

(* While rules run nothing else deletes, forgets or queues. *)
Alone ==
    /\ ~(RulesRunHere /\ RulesRunThere)
    /\ RulesRunHere \/ RulesRunThere => owner.todo \subseteq {"stop", "due"}
    /\ RulesRunHere => op.plan \intersect Waiting = {}

Here == rows \intersect archives
There == recorded \intersect there[place]

(* Each world and version has a backup that the rules don't mean to delete. *)
SparedHere(l) == \E c \in Made : of[c] = l /\ c \in (Here \ op.plan) \union There
SparedThere(l) ==
    \E c \in Made : of[c] = l /\ c \in Here \union (There \ uploader.plan)
Spared ==
    \A l \in Range(of) : Kept(l) # {} =>
        (RulesRunHere => SparedHere(l)) /\ (RulesRunThere => SparedThere(l))

BackupInv == Shapes /\ Carried /\ RecordedIsThere /\ ListedIsHere /\ Alone /\ Spared

-----------------------------------------------------------------------------
(* Greatest elements *)

(* The order of numbers, which is well founded. *)
Below == {p \in Nat \X Nat : p[1] < p[2]}

LEMMA BelowWellFounded == IsWellFoundedOn(Below, Nat)
BY NatLessThanWellFounded DEF OpToRel, Below

(* A bounded set of numbers has a greatest element. *)
LEMMA GreatestExists ==
    ASSUME NEW n \in Nat, NEW S \in SUBSET (1..n), S # {}
    PROVE  Max(S) \in S /\ \A c \in S : c <= Max(S)
<1> DEFINE Less == {k \in 0..n : n - k \in S}
<1>1. PICK s \in S : TRUE
  OBVIOUS
<1>2. Less \subseteq Nat /\ n - s \in Less
  BY <1>1
<1>3. \A c \in S : n - c \in Less
  OBVIOUS
<1> HIDE DEF Less
<1>4. PICK d \in Less : \A e \in Less : <<e, d>> \notin Below
  BY <1>2, BelowWellFounded, WFMin
<1>5. d \in 0..n /\ n - d \in S
  BY <1>4 DEF Less
<1>6. ASSUME NEW c \in S PROVE c <= n - d
  <2>1. n - c \in Less /\ n - c \in Nat
    BY <1>3
  <2>2. <<n - c, d>> \notin Below
    BY <1>4, <2>1
  <2>3. \A x, y \in Nat : x < y => <<x, y>> \in Below
    BY DEF Below
  <2>4. ~(n - c < d)
    BY <1>5, <2>1, <2>2, <2>3
  <2> QED BY <1>5, <2>4
<1>7. \E x \in S : \A y \in S : x >= y
  BY <1>5, <1>6
<1> QED BY <1>7 DEF Max

(* So has a bounded set that zero may be in. *)
LEMMA GreatestNumber ==
    ASSUME NEW n \in Nat, NEW S, S # {}, \A x \in S : x \in Nat /\ x <= n
    PROVE  Max(S) \in Nat /\ \A c \in S : c <= Max(S)
<1> DEFINE Up == {x \in 1..(n + 1) : x - 1 \in S}
<1>1. Up \in SUBSET (1..(n + 1)) /\ n + 1 \in Nat
  OBVIOUS
<1>2. \A x \in S : x + 1 \in 1..(n + 1) /\ (x + 1) - 1 = x
  OBVIOUS
<1>3. \A x \in S : x + 1 \in Up
  BY <1>2
<1>4. Up # {}
  BY <1>3
<1> DEFINE g == Max(Up)
<1>5. g \in Up /\ \A c \in Up : c <= g
  BY <1>1, <1>4, GreatestExists
<1> HIDE DEF g
<1>6. g \in 1..(n + 1) /\ g - 1 \in S
  BY <1>5
<1>7. \A x \in S : g - 1 >= x
  BY <1>3, <1>5, <1>6
<1>8. \E x \in S : \A y \in S : x >= y
  BY <1>6, <1>7
<1>9. Max(S) \in S /\ \A y \in S : Max(S) >= y
  BY <1>8 DEF Max
<1> QED BY <1>9

-----------------------------------------------------------------------------
(* What the rules spare *)

Good == rows \union recorded
GoodOf(l) == {b \in Good : of[b] = l}

(* The newest good backup of a world or version is its only copy, or the *)
(* newest one of all.                                                      *)
LEMMA NewestOfItsLineage ==
    ASSUME Shapes, NEW l, GoodOf(l) # {}
    PROVE  \E m \in GoodOf(l) :
              m \in OnlyCopies \/ (m = Max(Good) /\ \A c \in Good : c <= m)
<1>1. Len(of) \in Nat /\ Good \in SUBSET (1..Len(of)) /\ GoodOf(l) \in SUBSET (1..Len(of))
  BY DEF Shapes, Made, Good, GoodOf
<1>2. Max(GoodOf(l)) \in GoodOf(l) /\ \A c \in GoodOf(l) : c <= Max(GoodOf(l))
  BY <1>1, GreatestExists
<1>3. Good # {}
  BY DEF GoodOf
<1>4. Max(Good) \in Good /\ \A c \in Good : c <= Max(Good)
  BY <1>1, <1>3, GreatestExists
<1> DEFINE m == Max(GoodOf(l))
<1>5. m \in Good /\ of[m] = l
  BY <1>2 DEF GoodOf
<1>6. CASE of[Max(Good)] = l
  <2>1. Max(Good) \in GoodOf(l)
    BY <1>4, <1>6 DEF GoodOf
  <2>2. Max(Good) <= m /\ m <= Max(Good)
    BY <1>2, <1>4, <1>5, <2>1
  <2>3. m \in 1..Len(of) /\ Max(Good) \in 1..Len(of)
    BY <1>1, <1>4, <1>5
  <2> HIDE DEF m
  <2>4. m = Max(Good)
    BY <1>1, <2>2, <2>3
  <2> QED BY <1>2, <1>4, <2>4 DEF m
<1>7. CASE of[Max(Good)] # l
  <2>1. OnlyCopies = {b \in Good : b \in NewestOf(GoodOf(of[b])) /\ of[b] # of[Max(Good)]}
    BY DEF OnlyCopies, Good, GoodOf
  <2>2. m \in NewestOf(GoodOf(of[m]))
    BY <1>5 DEF NewestOf
  <2>3. m \in OnlyCopies
    BY <1>5, <1>7, <2>1, <2>2
  <2> QED BY <1>2, <2>3
<1> QED BY <1>6, <1>7

(* The greatest of a set is the greatest of a part of it that has it. *)
LEMMA GreatestOfPart ==
    ASSUME Shapes, NEW S \in SUBSET Good, NEW m \in S, \A c \in Good : c <= m
    PROVE  m \in NewestOf(S)
<1>1. Len(of) \in Nat /\ S \in SUBSET (1..Len(of)) /\ S # {}
  BY DEF Shapes, Made, Good
<1>2. Max(S) \in S /\ m <= Max(S)
  BY <1>1, GreatestExists
<1>3. Max(S) <= m /\ m \in 1..Len(of) /\ Max(S) \in 1..Len(of)
  BY <1>1, <1>2
<1>4. m = Max(S)
  BY <1>1, <1>2, <1>3
<1> QED BY <1>4 DEF NewestOf

(* The rules here keep the newest backup of each world and version, unless *)
(* it is on record as copied.                                              *)
LEMMA RulesHereSpare ==
    ASSUME Shapes, NEW l, GoodOf(l) # {}, NEW ruled
    PROVE  \E c \in Made : of[c] = l /\ c \in HostKept(ruled) \union recorded
<1>1. PICK m \in GoodOf(l) :
         m \in OnlyCopies \/ (m = Max(Good) /\ \A c \in Good : c <= m)
  BY NewestOfItsLineage
<1>2. m \in Made /\ of[m] = l /\ m \in rows \union recorded
  BY <1>1 DEF GoodOf, Good, Shapes
<1>3. CASE m \in rows /\ m \notin recorded /\ m \notin OnlyCopies
  <2>1. m \in NewestOf(rows)
    BY <1>1, <1>3, GreatestOfPart DEF Good
  <2> QED BY <1>2, <1>3, <2>1 DEF HostKept
<1>4. CASE m \in rows /\ m \notin recorded /\ m \in OnlyCopies
  BY <1>2, <1>4 DEF HostKept
<1> QED BY <1>2, <1>3, <1>4

(* The rules there keep it, unless this machine has it. *)
LEMMA RulesThereSpare ==
    ASSUME Shapes, NEW l, GoodOf(l) # {}, NEW ruled, NEW kept
    PROVE  \E c \in Made : of[c] = l /\ c \in rows \union OffKept(ruled, kept)
<1>1. PICK m \in GoodOf(l) :
         m \in OnlyCopies \/ (m = Max(Good) /\ \A c \in Good : c <= m)
  BY NewestOfItsLineage
<1>2. m \in Made /\ of[m] = l /\ m \in rows \union recorded
  BY <1>1 DEF GoodOf, Good, Shapes
<1>3. CASE m \in recorded /\ m \notin rows /\ m \notin OnlyCopies
  <2>1. m \in NewestOf(recorded)
    BY <1>1, <1>3, GreatestOfPart DEF Good
  <2> QED BY <1>2, <1>3, <2>1 DEF OffKept
<1>4. CASE m \in recorded /\ m \notin rows /\ m \in OnlyCopies
  BY <1>2, <1>4 DEF OffKept
<1> QED BY <1>2, <1>3, <1>4

-----------------------------------------------------------------------------
(* Shapes *)

(* Every step keeps the values' shapes. *)
LEMMA ShapesKept == Closed /\ Shapes /\ Carried /\ [Next]_vars => Shapes'
<1> SUFFICES ASSUME Closed, Shapes, Carried, [Next]_vars PROVE Shapes'
  OBVIOUS
<1> USE DEF Shapes, Made, disk, remote, waiting, settings, counts
<1>1. ASSUME NEW l \in 1..Lineages, MakeBackup(l) PROVE Shapes'
  <2>1. of' \in Seq(1..Lineages) /\ Len(of') = Len(of) + 1
    BY <1>1 DEF MakeBackup
  <2>2. DOMAIN of = 1..Len(of) /\ DOMAIN of' = 1..(Len(of) + 1) /\ Len(of) \in Nat
    BY <2>1
  <2>3. DOMAIN of \subseteq DOMAIN of' /\ Len(of) + 1 \in DOMAIN of'
    BY <2>2
  <2> QED BY <1>1, <2>1, <2>3 DEF MakeBackup
<1>2. CASE QueueBackup
  BY <1>2 DEF QueueBackup, OpGoes
<1>3. ASSUME NEW ruled, PlanHere(ruled) PROVE Shapes'
  BY <1>3 DEF PlanHere, OpGoes
<1>4. CASE RemoveArchive
  BY <1>4 DEF RemoveArchive, OpGoes
<1>5. CASE RemoveRow
  BY <1>5 DEF RemoveRow, OpGoes
<1>6. CASE EndRules
  BY <1>6 DEF EndRules, NextCopy, Rest, Unlocked
<1>7. CASE BeginRound \/ EmptyQueue \/ ClaimUpload
  <2>1. CASE BeginRound
    BY <2>1 DEF BeginRound, Rest, Round
  <2>2. CASE EmptyQueue
    BY <2>2 DEF EmptyQueue, Rest
  <2>3. CASE ClaimUpload
    <3>1. UNCHANGED <<of, disk, remote, settings, op, owner>>
      BY <2>3 DEF ClaimUpload
    <3>2. CASE uploader' = Rest
      BY <3>1, <3>2 DEF Rest
    <3>3. ASSUME NEW b, uploader' = [uploader EXCEPT !.pc = "claimed", !.job = b]
          PROVE  Shapes'
      BY <3>1, <3>3
    <3> QED BY <2>3, <3>2, <3>3 DEF ClaimUpload
  <2> QED BY <1>7, <2>1, <2>2, <2>3
<1>8. CASE CheckUpload \/ CheckSent \/ UploadFailed
  <2>1. CASE CheckUpload
    <3>1. UNCHANGED <<of, disk, remote, settings, op, owner>>
      BY <2>1 DEF CheckUpload
    <3>2. CASE uploader' = Rest
      BY <3>1, <3>2 DEF Rest
    <3>3. CASE NextCopy
      BY <3>1, <3>3 DEF NextCopy, Rest
    <3>4. CASE Round("sending")
      BY <3>1, <3>4 DEF Round
    <3> QED BY <2>1, <3>2, <3>3, <3>4 DEF CheckUpload
  <2>2. CASE CheckSent
    BY <2>2 DEF CheckSent, Rest, Round
  <2>3. CASE UploadFailed
    BY <2>3 DEF UploadFailed, Rest
  <2> QED BY <1>8, <2>1, <2>2, <2>3
<1>9. CASE Upload
  BY <1>9 DEF Upload, Round
<1>10. CASE RecordCopy
  BY <1>10 DEF RecordCopy, Round, NextCopy, Rest, Carried
<1>11. ASSUME NEW here, NEW off, PlanThere(here, off) PROVE Shapes'
  BY <1>11 DEF PlanThere
<1>12. CASE DeleteCopy
  BY <1>12 DEF DeleteCopy, PruneGoes, Round
<1>13. CASE DeleteRecord
  BY <1>13 DEF DeleteRecord, PruneGoes
<1>14. CASE EndPrune
  <2>1. CASE Round("rules") /\ op' = [by |-> "uploader", pc |-> "plan", plan |-> {}]
    BY <1>14, <2>1 DEF EndPrune, Round
  <2>2. CASE NextCopy /\ UNCHANGED op
    BY <1>14, <2>2 DEF EndPrune, NextCopy, Rest
  <2> QED BY <1>14, <2>1, <2>2 DEF EndPrune
<1>15. ASSUME NEW p \in Place, NEW on \in BOOLEAN, SaveSettings(p, on) PROVE Shapes'
  BY <1>15 DEF SaveSettings, Quiet, StepsOf
<1>16. CASE NewKey
  BY <1>16 DEF NewKey, Quiet
<1>17. CASE Forget \/ StopUpload \/ MakeDue \/ QueueNewest
  BY <1>17 DEF Forget, StopUpload, MakeDue, QueueNewest, Done, Due
<1>18. CASE Unrecord \/ Unlist
  BY <1>18 DEF Unrecord, Unlist, Quiet
<1>19. ASSUME NEW b \in Made, CopyDelete(b) \/ BackupDelete(b) PROVE Shapes'
  BY <1>19 DEF CopyDelete, BackupDelete
<1>20. CASE TimePasses \/ AgentDies
  BY <1>20 DEF TimePasses, AgentDies, Rest, Unlocked, Quiet
<1>21. CASE UNCHANGED vars
  BY <1>21 DEF vars
<1> QED BY <1>1, <1>2, <1>3, <1>4, <1>5, <1>6, <1>7, <1>8, <1>9, <1>10, <1>11,
           <1>12, <1>13, <1>14, <1>15, <1>16, <1>17, <1>18, <1>19, <1>20, <1>21
        DEF Next, BackupStep, UploaderStep, RequestStep

-----------------------------------------------------------------------------
(* What is on record is there *)

(* Backups are numbered from one, and their lineages stay. *)
LEMMA NewBackup ==
    ASSUME Shapes, NEW l \in 1..Lineages, MakeBackup(l)
    PROVE  /\ Made' = Made \union {Len(of) + 1} /\ Len(of) + 1 \notin Made
           /\ of'[Len(of) + 1] = l /\ \A b \in Made : of'[b] = of[b]
<1>1. of \in Seq(1..Lineages) /\ of' = Append(of, l)
  BY DEF Shapes, MakeBackup
<1>2. DOMAIN of = 1..Len(of) /\ Len(of) \in Nat /\ DOMAIN of' = 1..(Len(of) + 1)
  BY <1>1
<1> QED BY <1>1, <1>2 DEF Made

(* What a round knows of its copy stays true. *)
LEMMA CarriedKept == Closed /\ Shapes /\ Carried /\ [Next]_vars => Carried'
<1> SUFFICES ASSUME Closed, Shapes, Carried, [Next]_vars PROVE Carried'
  OBVIOUS
<1> USE DEF Closed, Open, Shapes, Carried, disk, remote, waiting, settings, counts
<1>1. ASSUME NEW l \in 1..Lineages, MakeBackup(l) PROVE Carried'
  <2>1. Made \subseteq Made'
    BY <1>1, NewBackup
  <2> QED BY <1>1, <2>1 DEF MakeBackup, Unlocked
<1>2. CASE QueueBackup
  BY <1>2 DEF QueueBackup, OpGoes, Made
<1>3. ASSUME NEW ruled, PlanHere(ruled) PROVE Carried'
  BY <1>3 DEF PlanHere, OpGoes, Made
<1>4. CASE RemoveArchive
  BY <1>4 DEF RemoveArchive, OpGoes, Made
<1>5. CASE RemoveRow
  BY <1>5 DEF RemoveRow, OpGoes, Made
<1>6. CASE EndRules
  BY <1>6 DEF EndRules, NextCopy, Rest, Unlocked, Made
<1>7. CASE BeginRound
  BY <1>7 DEF BeginRound, Rest, Round
<1>8. CASE EmptyQueue
  BY <1>8 DEF EmptyQueue, Rest
<1>9. CASE ClaimUpload
  <2>1. UNCHANGED <<of, disk, remote, settings, op>> /\ uploader.pc = "round"
    BY <1>9 DEF ClaimUpload
  <2>2. CASE uploader' = Rest
    BY <2>1, <2>2 DEF Rest
  <2>3. ASSUME NEW b, uploader' = [uploader EXCEPT !.pc = "claimed", !.job = b]
        PROVE  Carried'
    BY <2>1, <2>3
  <2> QED BY <1>9, <2>2, <2>3 DEF ClaimUpload
<1>10. CASE CheckUpload
  <2>1. UNCHANGED <<of, disk, remote, settings, op>> /\ uploader.pc = "claimed"
    BY <1>10 DEF CheckUpload
  <2>2. CASE uploader' = Rest
    BY <2>1, <2>2 DEF Rest
  <2>3. CASE NextCopy
    BY <2>1, <2>3 DEF NextCopy, Rest
  <2>4. CASE Round("sending") /\ uploader.job \in rows
    BY <2>1, <2>4 DEF Round, Made
  <2> QED BY <1>10, <2>2, <2>3, <2>4 DEF CheckUpload
<1>11. CASE Upload
  BY <1>11 DEF Upload, Round, Made
<1>12. CASE CheckSent
  BY <1>12 DEF CheckSent, Round, Rest, AtOldPlace, Made
<1>13. CASE UploadFailed
  BY <1>13 DEF UploadFailed, Rest
<1>14. CASE RecordCopy
  BY <1>14 DEF RecordCopy, Round, NextCopy, Rest
<1>15. ASSUME NEW here, NEW off, PlanThere(here, off) PROVE Carried'
  BY <1>15 DEF PlanThere
<1>16. CASE DeleteCopy
  BY <1>16 DEF DeleteCopy, PruneGoes, Round
<1>17. CASE DeleteRecord
  BY <1>17 DEF DeleteRecord, PruneGoes
<1>18. CASE EndPrune
  <2>1. CASE Round("rules")
    BY <1>18, <2>1 DEF EndPrune, Round
  <2>2. CASE NextCopy /\ UNCHANGED op
    BY <1>18, <2>2 DEF EndPrune, NextCopy, Rest
  <2> QED BY <1>18, <2>1, <2>2 DEF EndPrune
<1>19. ASSUME NEW p \in Place, NEW on \in BOOLEAN, SaveSettings(p, on) PROVE Carried'
  BY <1>19 DEF SaveSettings, Made
<1>20. CASE NewKey
  BY <1>20 DEF NewKey, Made
<1>21. CASE Forget \/ StopUpload \/ MakeDue \/ QueueNewest
  BY <1>21 DEF Forget, StopUpload, MakeDue, QueueNewest, Made
<1>22. CASE Unrecord \/ Unlist
  BY <1>22 DEF Unrecord, Unlist, Made
<1>23. ASSUME NEW b \in Made, CopyDelete(b) \/ BackupDelete(b) PROVE Carried'
  BY <1>23 DEF CopyDelete, BackupDelete, Made
<1>24. CASE TimePasses \/ AgentDies
  BY <1>24 DEF TimePasses, AgentDies, Rest, Unlocked, Made
<1>25. CASE UNCHANGED vars
  BY <1>25 DEF vars, Made
<1> QED BY <1>1, <1>2, <1>3, <1>4, <1>5, <1>6, <1>7, <1>8, <1>9, <1>10, <1>11,
           <1>12, <1>13, <1>14, <1>15, <1>16, <1>17, <1>18, <1>19, <1>20, <1>21,
           <1>22, <1>23, <1>24, <1>25
        DEF Next, BackupStep, UploaderStep, RequestStep

(* Every step leaves copies on record where copies go now. *)
LEMMA RecordsKept ==
    Closed /\ Shapes /\ Carried /\ RecordedIsThere /\ [Next]_vars => RecordedIsThere'
<1> SUFFICES ASSUME Closed, Shapes, Carried, RecordedIsThere, [Next]_vars
             PROVE  RecordedIsThere'
  OBVIOUS
<1> USE DEF Closed, Open, Shapes, RecordedIsThere, Pruned, Due, Before,
            disk, remote, waiting, settings, counts
<1>1. ASSUME NEW l, MakeBackup(l) PROVE RecordedIsThere'
  BY <1>1 DEF MakeBackup
<1>2. CASE QueueBackup \/ RemoveArchive \/ RemoveRow
  BY <1>2 DEF QueueBackup, RemoveArchive, RemoveRow
<1>3. ASSUME NEW ruled, PlanHere(ruled) PROVE RecordedIsThere'
  BY <1>3 DEF PlanHere
<1>4. CASE EndRules
  BY <1>4 DEF EndRules, NextCopy, Rest, Carried
<1>5. CASE BeginRound \/ EmptyQueue \/ ClaimUpload
  <2>1. UNCHANGED <<recorded, there, place, owner>> /\ uploader.pc # "pruned"
    <3>1. CASE BeginRound
      BY <3>1 DEF BeginRound, Rest
    <3>2. CASE EmptyQueue
      BY <3>2 DEF EmptyQueue
    <3>3. CASE ClaimUpload
      BY <3>3 DEF ClaimUpload
    <3> QED BY <1>5, <3>1, <3>2, <3>3
  <2> QED BY <2>1
<1>6. CASE CheckUpload \/ CheckSent \/ UploadFailed
  BY <1>6 DEF CheckUpload, CheckSent, UploadFailed, Rest, Round, NextCopy
<1>7. CASE Upload
  BY <1>7 DEF Upload, Round
<1>8. CASE RecordCopy
  BY <1>8 DEF RecordCopy, Round, NextCopy, Rest, Carried
<1>9. ASSUME NEW here, NEW off, PlanThere(here, off) PROVE RecordedIsThere'
  BY <1>9 DEF PlanThere
<1>10. CASE DeleteCopy
  <2>1. UNCHANGED <<recorded, place, owner>> /\ uploader.pc # "pruned"
    BY <1>10 DEF DeleteCopy
  <2>2. CASE UNCHANGED there
    BY <2>1, <2>2
  <2>3. CASE there' = [there EXCEPT ![uploader.at] = @ \ {Pruned}] /\ Round("pruned")
    BY <2>1, <2>3 DEF Round
  <2> QED BY <1>10, <2>2, <2>3 DEF DeleteCopy
<1>11. CASE DeleteRecord
  BY <1>11 DEF DeleteRecord, PruneGoes
<1>12. CASE EndPrune
  BY <1>12 DEF EndPrune, Round, NextCopy, Rest
<1>13. ASSUME NEW p \in Place, NEW on \in BOOLEAN, SaveSettings(p, on)
       PROVE  RecordedIsThere'
  BY <1>13 DEF SaveSettings, Quiet, Request, StepsOf
<1>14. CASE NewKey
  BY <1>14 DEF NewKey, Request, Quiet
<1>15. CASE Forget \/ StopUpload \/ MakeDue \/ QueueNewest
  BY <1>15 DEF Forget, StopUpload, MakeDue, QueueNewest, Done
<1>16. CASE Unrecord \/ Unlist
  BY <1>16 DEF Unrecord, Unlist
<1>17. ASSUME NEW b \in Made, CopyDelete(b) \/ BackupDelete(b) PROVE RecordedIsThere'
  BY <1>17 DEF CopyDelete, BackupDelete, Request, Quiet
<1>18. CASE TimePasses \/ AgentDies
  BY <1>18 DEF TimePasses, AgentDies, WritesPending
<1>19. CASE UNCHANGED vars
  BY <1>19 DEF vars
<1> QED BY <1>1, <1>2, <1>3, <1>4, <1>5, <1>6, <1>7, <1>8, <1>9, <1>10, <1>11,
           <1>12, <1>13, <1>14, <1>15, <1>16, <1>17, <1>18, <1>19
        DEF Next, BackupStep, UploaderStep, RequestStep

-----------------------------------------------------------------------------
(* Nothing else deletes while rules run *)

(* Trimming and leaving the queue only take from it. *)
LEMMA QueueShrinks ==
    /\ \A b : Leaves(b) => Waiting' = Waiting \ {b}
    /\ \A b : Queued(b) => Waiting' \subseteq Waiting \union {b}
    /\ \A b : Queued(b) => Claimed \intersect Waiting \subseteq Waiting'
<1>1. \A b : Leaves(b) => Waiting' = Waiting \ {b}
  BY DEF Leaves, Waiting, Restrict
<1>2. \A b : DOMAIN Inserted(b) = Waiting \union {b}
  BY DEF Inserted
<1>3. \A q : DOMAIN Trimmed(q) \subseteq DOMAIN q
             /\ Claimed \intersect DOMAIN q \subseteq DOMAIN Trimmed(q)
  BY DEF Trimmed, Restrict
<1>4. ASSUME NEW b, Queued(b)
      PROVE  Waiting' \subseteq Waiting \union {b} /\ Claimed \intersect Waiting \subseteq Waiting'
  <2>1. queue' = Trimmed(Inserted(b)) /\ Waiting' = DOMAIN queue'
    BY <1>4 DEF Queued, Waiting
  <2>2. /\ DOMAIN Trimmed(Inserted(b)) \subseteq DOMAIN Inserted(b)
        /\ Claimed \intersect DOMAIN Inserted(b) \subseteq DOMAIN Trimmed(Inserted(b))
    BY <1>3
  <2> QED BY <1>2, <2>1, <2>2
<1> QED BY <1>1, <1>4

LEMMA LeavingShrinks ==
    ASSUME NEW b, Leaves(b) \/ UNCHANGED queue
    PROVE  Waiting' \subseteq Waiting
<1>1. CASE Leaves(b)
  BY <1>1, QueueShrinks
<1>2. CASE UNCHANGED queue
  BY <1>2 DEF Waiting
<1> QED BY <1>1, <1>2

(* What is on record as here stays here until it is being deleted. *)
LEMMA ListedKept ==
    Closed /\ Shapes /\ ListedIsHere /\ [Next]_vars => ListedIsHere'
<1> SUFFICES ASSUME Closed, Shapes, ListedIsHere, [Next]_vars PROVE ListedIsHere'
  OBVIOUS
<1> USE DEF Closed, Open, Shapes, ListedIsHere, Due,
            disk, remote, waiting, settings, counts
<1>1. ASSUME NEW l, MakeBackup(l) PROVE ListedIsHere'
  BY <1>1 DEF MakeBackup, Unlocked
<1>2. CASE QueueBackup
  BY <1>2 DEF QueueBackup, OpGoes
<1>3. ASSUME NEW ruled, PlanHere(ruled) PROVE ListedIsHere'
  BY <1>3 DEF PlanHere, OpGoes
<1>4. CASE RemoveArchive
  BY <1>4 DEF RemoveArchive, OpGoes
<1>5. CASE RemoveRow
  BY <1>5 DEF RemoveRow, OpGoes
<1>6. CASE EndRules
  BY <1>6 DEF EndRules, Unlocked
<1>7. CASE UploaderStep
  <2>1. CASE BeginRound \/ EmptyQueue \/ ClaimUpload
    BY <2>1 DEF BeginRound, EmptyQueue, ClaimUpload
  <2>2. CASE CheckUpload \/ Upload \/ CheckSent \/ UploadFailed \/ RecordCopy
    BY <2>2 DEF CheckUpload, Upload, CheckSent, UploadFailed, RecordCopy
  <2>3. ASSUME NEW here, NEW off, PlanThere(here, off) PROVE ListedIsHere'
    BY <2>3 DEF PlanThere
  <2>4. CASE DeleteCopy \/ DeleteRecord
    BY <2>4 DEF DeleteCopy, DeleteRecord
  <2>5. CASE EndPrune
    BY <2>5 DEF EndPrune, Unlocked
  <2> QED BY <1>7, <2>1, <2>2, <2>3, <2>4, <2>5 DEF UploaderStep
<1>8. ASSUME NEW p, NEW on, SaveSettings(p, on) PROVE ListedIsHere'
  BY <1>8 DEF SaveSettings, Request, Quiet
<1>9. CASE NewKey
  BY <1>9 DEF NewKey, Request, Quiet
<1>10. CASE Forget \/ StopUpload \/ MakeDue \/ QueueNewest
  BY <1>10 DEF Forget, StopUpload, MakeDue, QueueNewest, Done
<1>11. CASE Unrecord \/ Unlist
  BY <1>11 DEF Unrecord, Unlist, Quiet
<1>12. ASSUME NEW b, CopyDelete(b) \/ BackupDelete(b) PROVE ListedIsHere'
  BY <1>12 DEF CopyDelete, BackupDelete, Request, Quiet, Unlocked
<1>13. CASE TimePasses \/ AgentDies
  BY <1>13 DEF TimePasses, AgentDies, WritesPending
<1>14. CASE UNCHANGED vars
  BY <1>14 DEF vars
<1> QED BY <1>1, <1>2, <1>3, <1>4, <1>5, <1>6, <1>7, <1>8, <1>9, <1>10, <1>11,
           <1>12, <1>13, <1>14
        DEF Next, BackupStep, RequestStep

(* While rules run nothing else deletes, forgets or queues. *)
LEMMA AloneKept ==
    Closed /\ Shapes /\ Carried /\ Alone /\ [Next]_vars => Alone'
<1> SUFFICES ASSUME Closed, Shapes, Carried, Alone, [Next]_vars PROVE Alone'
  OBVIOUS
<1> USE DEF Closed, Open, Shapes, Alone, RulesRunHere, RulesRunThere,
            disk, remote, waiting, settings, counts
<1>1. ASSUME NEW l, MakeBackup(l) PROVE Alone'
  BY <1>1 DEF MakeBackup, Unlocked
<1>2. CASE QueueBackup
  BY <1>2 DEF QueueBackup, OpGoes
<1>3. ASSUME NEW ruled, PlanHere(ruled) PROVE Alone'
  BY <1>3 DEF PlanHere, OpGoes, Quiet, HostKept, Waiting
<1>4. CASE RemoveArchive
  BY <1>4 DEF RemoveArchive, OpGoes, Waiting
<1>5. CASE RemoveRow
  BY <1>5 DEF RemoveRow, OpGoes, Waiting
<1>6. CASE EndRules
  BY <1>6 DEF EndRules, NextCopy, Rest, Unlocked
<1>7. CASE BeginRound
  BY <1>7 DEF BeginRound, Rest, Round, Waiting
<1>8. CASE EmptyQueue
  BY <1>8 DEF EmptyQueue, Rest, Waiting
<1>9. CASE ClaimUpload
  <2>1. UNCHANGED <<queue, op, owner>>
    BY <1>9 DEF ClaimUpload
  <2>2. uploader'.pc \in {"rest", "claimed"}
    <3>1. CASE uploader' = Rest
      BY <3>1 DEF Rest
    <3>2. ASSUME NEW b, uploader' = [uploader EXCEPT !.pc = "claimed", !.job = b]
          PROVE  uploader'.pc = "claimed"
      BY <3>2
    <3> QED BY <1>9, <3>1, <3>2 DEF ClaimUpload
  <2> QED BY <2>1, <2>2 DEF Waiting
<1>10. CASE CheckUpload
  <2>1. UNCHANGED <<op, owner>> /\ uploader'.pc \in {"rest", "round", "sending"}
    <3>1. CASE uploader' = Rest
      BY <1>10, <3>1 DEF CheckUpload, Rest
    <3>2. CASE NextCopy
      BY <1>10, <3>2 DEF CheckUpload, NextCopy, Rest
    <3>3. CASE Round("sending")
      BY <1>10, <3>3 DEF CheckUpload, Round
    <3> QED BY <1>10, <3>1, <3>2, <3>3 DEF CheckUpload
  <2>2. Waiting' \subseteq Waiting
    BY <1>10, LeavingShrinks DEF CheckUpload, TryAgain
  <2> QED BY <2>1, <2>2
<1>11. CASE Upload \/ CheckSent
  <2>1. UNCHANGED <<queue, op, owner>> /\ uploader'.pc \notin {"pruning", "pruned"}
    <3>1. CASE Upload
      BY <3>1 DEF Upload, Round
    <3>2. CASE CheckSent
      BY <3>2 DEF CheckSent, Round, Rest
    <3> QED BY <1>11, <3>1, <3>2
  <2>2. Waiting' = Waiting
    BY <2>1 DEF Waiting
  <2> QED BY <2>1, <2>2
<1>12. CASE UploadFailed
  <2>1. Waiting' \subseteq Waiting
    BY <1>12, LeavingShrinks DEF UploadFailed, TryAgain
  <2> QED BY <1>12, <2>1 DEF UploadFailed, Rest
<1>13. CASE RecordCopy
  <2>1. Waiting' \subseteq Waiting
    BY <1>13, LeavingShrinks DEF RecordCopy
  <2> QED BY <1>13, <2>1 DEF RecordCopy, Round, NextCopy, Rest
<1>14. ASSUME NEW here, NEW off, PlanThere(here, off) PROVE Alone'
  BY <1>14 DEF PlanThere, Quiet, Waiting
<1>15. CASE DeleteCopy
  BY <1>15 DEF DeleteCopy, PruneGoes, Round, Waiting
<1>16. CASE DeleteRecord
  BY <1>16 DEF DeleteRecord, PruneGoes, Waiting
<1>17. CASE EndPrune
  <2>1. UNCHANGED owner /\ uploader'.pc \in {"rules", "round"}
    BY <1>17 DEF EndPrune, Round, NextCopy, Rest
  <2>2. op'.pc = "plan" \/ UNCHANGED <<op, queue>>
    BY <1>17 DEF EndPrune
  <2> QED BY <2>1, <2>2 DEF Waiting
<1>18. ASSUME NEW p \in Place, NEW on \in BOOLEAN, SaveSettings(p, on) PROVE Alone'
  <2>1. uploader'.pc = uploader.pc /\ UNCHANGED <<op, queue>>
    BY <1>18 DEF SaveSettings
  <2>2. owner'.todo = StepsOf([forget |-> p # place, stop |-> p # place \/ ~on,
            due |-> on, queue |-> (on /\ ~enabled) \/ (p # place /\ on)])
    BY <1>18 DEF SaveSettings, Quiet
  <2>3. RulesRunHere \/ RulesRunThere => p = place /\ ~(on /\ ~enabled)
    BY <1>18 DEF SaveSettings
  <2>4. RulesRunHere \/ RulesRunThere => owner'.todo \subseteq {"stop", "due"}
    <3> DEFINE conds == [forget |-> p # place, stop |-> p # place \/ ~on, due |-> on,
                         queue |-> (on /\ ~enabled) \/ (p # place /\ on)]
    <3>1. RulesRunHere \/ RulesRunThere => ~conds["forget"] /\ ~conds["queue"]
      BY <2>3
    <3> HIDE DEF conds
    <3>2. StepsOf(conds) \subseteq {s \in {"forget", "stop", "due", "queue"} : conds[s]}
      BY DEF StepsOf
    <3> QED BY <2>2, <3>1, <3>2 DEF conds
  <2> QED BY <2>1, <2>4 DEF Waiting
<1>19. CASE NewKey
  BY <1>19 DEF NewKey, Quiet, Waiting
<1>20. CASE Forget \/ StopUpload \/ MakeDue
  BY <1>20 DEF Forget, StopUpload, MakeDue, Done, Waiting
<1>21. CASE QueueNewest
  BY <1>21 DEF QueueNewest, Due, Done
<1>22. CASE Unrecord \/ Unlist
  BY <1>22 DEF Unrecord, Unlist, Quiet, Waiting
<1>23. ASSUME NEW b, CopyDelete(b) \/ BackupDelete(b) PROVE Alone'
  BY <1>23 DEF CopyDelete, BackupDelete, Unlocked
<1>24. CASE TimePasses \/ AgentDies
  BY <1>24 DEF TimePasses, AgentDies, Rest, Unlocked, Waiting
<1>25. CASE UNCHANGED vars
  BY <1>25 DEF vars, Waiting
<1> QED BY <1>1, <1>2, <1>3, <1>4, <1>5, <1>6, <1>7, <1>8, <1>9, <1>10, <1>11,
           <1>12, <1>13, <1>14, <1>15, <1>16, <1>17, <1>18, <1>19, <1>20, <1>21,
           <1>22, <1>23, <1>24, <1>25
        DEF Next, BackupStep, UploaderStep, RequestStep

-----------------------------------------------------------------------------
(* Each world and version keeps a backup *)

(* A deletion here spares what the rules here spare. *)
LEMMA DeletionHereSpares ==
    ASSUME Closed, Shapes, NEW l, SparedHere(l), RemoveArchive \/ RemoveRow
    PROVE  SparedHere(l)' /\ UNCHANGED <<of, recorded, there, place, uploader, queue>>
<1>1. Len(of) \in Nat /\ op.plan \in SUBSET (1..Len(of)) /\ op.plan # {}
  BY DEF Shapes, Made, RemoveArchive, RemoveRow
<1>2. Max(op.plan) \in op.plan
  BY <1>1, GreatestExists
<1>3. UNCHANGED <<of, recorded, there, place, uploader, queue>>
  BY DEF RemoveArchive, RemoveRow, remote, settings, waiting
<1>4. Here \ op.plan \subseteq Here' \ op'.plan
  <2>1. CASE RemoveArchive
    <3>1. rows' = rows
      BY <2>1 DEF RemoveArchive
    <3>2. (op'.plan = op.plan /\ archives' = archives \ {Max(op.plan)})
          \/ (archives' = archives /\ op'.plan \subseteq op.plan)
      BY <2>1 DEF RemoveArchive, OpGoes, Shapes
    <3> QED BY <1>2, <3>1, <3>2 DEF Here
  <2>2. CASE RemoveRow
    <3>1. archives' = archives /\ rows' = rows \ {Max(op.plan)}
          /\ op'.plan = op.plan \ {Max(op.plan)}
      BY <2>2 DEF RemoveRow, OpGoes, Shapes, Closed, Open
    <3> QED BY <1>2, <3>1 DEF Here
  <2> QED BY <2>1, <2>2
<1> QED BY <1>3, <1>4 DEF SparedHere, There, Made

(* A deletion there spares what the rules there spare. *)
LEMMA DeletionThereSpares ==
    ASSUME Closed, Shapes, NEW l, SparedThere(l), DeleteCopy \/ DeleteRecord
    PROVE  SparedThere(l)' /\ UNCHANGED <<of, rows, archives, place, op, queue>>
<1>1. Len(of) \in Nat /\ uploader.plan \in SUBSET (1..Len(of)) /\ uploader.plan # {}
  BY DEF Shapes, Made, DeleteCopy, DeleteRecord
<1>2. Pruned \in uploader.plan
  BY <1>1, GreatestExists DEF Pruned
<1>3. UNCHANGED <<of, rows, archives, place, op, queue>>
  BY DEF DeleteCopy, DeleteRecord, disk, settings, waiting
<1>4. There \ uploader.plan \subseteq There' \ uploader'.plan
  <2>1. CASE DeleteCopy
    <3>1. recorded' = recorded /\ uploader'.plan \subseteq uploader.plan
      BY <2>1 DEF DeleteCopy, PruneGoes, Round, Shapes
    <3>2. there' = there \/ there' = [there EXCEPT ![uploader.at] = @ \ {Pruned}]
      BY <2>1 DEF DeleteCopy
    <3>3. there[place] \ {Pruned} \subseteq there'[place]
      BY <3>2 DEF Shapes
    <3>4. there'[place'] = there[place] \/ uploader'.plan = uploader.plan
      BY <2>1, <1>3 DEF DeleteCopy, PruneGoes, Round, Shapes
    <3> QED BY <1>2, <1>3, <3>1, <3>3, <3>4 DEF There
  <2>2. CASE DeleteRecord
    <3>1. there' = there /\ recorded' = recorded \ {Pruned}
          /\ uploader'.plan = uploader.plan \ {Pruned}
      BY <2>2 DEF DeleteRecord, PruneGoes, Shapes, Closed, Open
    <3> QED BY <1>2, <1>3, <3>1 DEF There
  <2> QED BY <2>1, <2>2
<1> QED BY <1>3, <1>4 DEF SparedThere, Here, Made

(* Rules that aren't running have nothing to spare, and what moves nothing *)
(* they look at changes nothing.                                           *)
LEMMA RulesOver == ~RulesRunHere' /\ ~RulesRunThere' => Spared'
BY DEF Spared

LEMMA NothingMoved ==
    Spared /\ UNCHANGED <<of, rows, archives, recorded, there, place,
                          op.pc, op.plan, uploader.pc, uploader.plan>> => Spared'
BY DEF Spared, SparedHere, SparedThere, Here, There, Kept, Made, RulesRunHere,
       RulesRunThere

(* A copy that is made or recorded while no rules run there only adds. *)
LEMMA CopyAdded ==
    ASSUME Spared, UNCHANGED <<of, rows, archives, op>>, There \subseteq There',
           ~RulesRunThere'
    PROVE  Spared'
<1> SUFFICES ASSUME NEW l \in Range(of), Kept(l)' # {}, RulesRunHere'
             PROVE  SparedHere(l)'
  BY DEF Spared
<1>1. RulesRunHere /\ Here' = Here
  BY DEF RulesRunHere, Here
<1>2. CASE Kept(l) # {}
  <2>1. SparedHere(l)
    BY <1>1, <1>2 DEF Spared
  <2> QED BY <1>1, <2>1 DEF SparedHere, Made
<1>3. CASE Kept(l) = {}
  <2>1. PICK b \in Made : of[b] = l /\ b \in Here' \union There'
    BY DEF Kept, Here, There, Made
  <2>2. b \notin Here
    BY <1>3, <2>1 DEF Kept, Here
  <2> QED BY <1>1, <2>1, <2>2 DEF SparedHere, Made
<1> QED BY <1>2, <1>3

(* Every step leaves each world and version a backup that is spared. *)
LEMMA SparedKept == Closed /\ BackupInv /\ [Next]_vars => Spared'
<1> SUFFICES ASSUME Closed, BackupInv, [Next]_vars PROVE Spared'
  OBVIOUS
<1> USE DEF Closed, Open, BackupInv, disk, remote, waiting, settings, counts
<1>1. ASSUME NEW l0 \in 1..Lineages, MakeBackup(l0) PROVE Spared'
  <2> DEFINE new == Len(of) + 1
  <2>1. Made' = Made \union {new} /\ of'[new] = l0 /\ \A b \in Made : of'[b] = of[b]
    BY <1>1, NewBackup
  <2>2. rows' = rows \union {new} /\ archives' = archives \union {new}
        /\ UNCHANGED <<recorded, there, place, uploader>> /\ op'.pc = "queue"
    BY <1>1 DEF MakeBackup
  <2>3. new \notin Made
    BY <1>1, NewBackup
  <2> HIDE DEF new
  <2> SUFFICES ASSUME NEW l, Kept(l)' # {}, RulesRunThere PROVE SparedThere(l)'
    BY <2>2 DEF Spared, RulesRunHere, RulesRunThere
  <2>4. CASE Kept(l) # {}
    <3>1. PICK c \in Made : of[c] = l /\ c \in Here \union (There \ uploader.plan)
      BY <2>4 DEF Spared, SparedThere, Kept, Range, Made
    <3> QED BY <2>1, <2>2, <3>1 DEF SparedThere, Here, There
  <2>5. CASE Kept(l) = {}
    <3>1. PICK b \in Made' : of'[b] = l /\ b \in Here' \union There'
      BY DEF Kept, Here, There
    <3>2. b \notin Made
      BY <2>1, <2>2, <2>3, <2>5, <3>1 DEF Kept, Here, There
    <3>3. b = new /\ new \in Here'
      BY <2>1, <2>2, <3>1, <3>2 DEF Here
    <3> QED BY <3>1, <3>3 DEF SparedThere
  <2> QED BY <2>4, <2>5
<1>2. CASE QueueBackup
  BY <1>2, RulesOver, NothingMoved DEF QueueBackup, OpGoes, RulesRunHere, RulesRunThere,
     Spared, SparedThere, Here, There, Kept, Made, Shapes
<1>3. ASSUME NEW ruled, PlanHere(ruled) PROVE Spared'
  <2>1. UNCHANGED <<of, rows, archives, recorded, there, place, uploader>>
        /\ owner = Quiet /\ ~RulesRunThere /\ op.pc = "plan"
        /\ op'.plan = rows \ HostKept(ruled)
    BY <1>3 DEF PlanHere, OpGoes, Shapes
  <2>2. rows \subseteq archives /\ recorded \subseteq there[place]
    BY <2>1 DEF ListedIsHere, RecordedIsThere, Due, Quiet, RulesRunThere
  <2> SUFFICES ASSUME NEW l, Kept(l)' # {} PROVE SparedHere(l)'
    BY <2>1 DEF Spared, RulesRunThere
  <2>3. GoodOf(l) # {}
    BY <2>1 DEF Kept, GoodOf, Good
  <2>4. PICK c \in Made : of[c] = l /\ c \in HostKept(ruled) \union recorded
    BY <2>3, RulesHereSpare
  <2>5. HostKept(ruled) \subseteq rows
    BY DEF HostKept
  <2> QED BY <2>1, <2>2, <2>4, <2>5 DEF SparedHere, Here, There, Made
<1>4. CASE RemoveArchive \/ RemoveRow
  <2>1. RulesRunHere /\ ~RulesRunThere
    BY <1>4 DEF RemoveArchive, RemoveRow, RulesRunHere, Alone
  <2>2. UNCHANGED <<of, recorded, there, place, uploader>>
    BY <1>4 DEF RemoveArchive, RemoveRow
  <2>3. rows' \subseteq rows /\ archives' \subseteq archives
    BY <1>4 DEF RemoveArchive, RemoveRow
  <2>4. ASSUME NEW l \in Range(of), Kept(l)' # {} PROVE SparedHere(l)'
    <3>1. Kept(l) # {}
      BY <2>2, <2>3, <2>4 DEF Kept, Made
    <3>2. SparedHere(l)
      BY <2>1, <3>1 DEF Spared
    <3> QED BY <1>4, <3>2, DeletionHereSpares
  <2> QED BY <2>1, <2>2, <2>4 DEF Spared, RulesRunThere
<1>5. CASE EndRules
  <2>1. ~RulesRunHere'
    BY <1>5 DEF EndRules, Unlocked, RulesRunHere
  <2>2. ~RulesRunThere
    BY <1>5 DEF EndRules, Alone, RulesRunHere
  <2>3. ~RulesRunThere'
    BY <1>5, <2>2 DEF EndRules, NextCopy, Rest, RulesRunThere
  <2> QED BY <2>1, <2>3, RulesOver
<1>6. CASE BeginRound \/ EmptyQueue \/ ClaimUpload \/ CheckUpload \/ CheckSent
           \/ UploadFailed
  <2>1. UNCHANGED <<of, rows, archives, op, recorded, there, place>>
    BY <1>6 DEF BeginRound, EmptyQueue, ClaimUpload, CheckUpload, CheckSent,
       UploadFailed
  <2>2. ~RulesRunThere'
    <3>1. CASE uploader' = Rest
      BY <3>1 DEF Rest, RulesRunThere
    <3>2. CASE NextCopy
      BY <3>2 DEF NextCopy, Rest, RulesRunThere
    <3>3. ASSUME NEW pc \in {"sending", "record", "empty"}, Round(pc)
          PROVE  ~RulesRunThere'
      BY <3>3 DEF Round, Shapes, RulesRunThere
    <3>4. ASSUME NEW b, uploader' = [uploader EXCEPT !.pc = "claimed", !.job = b]
          PROVE  ~RulesRunThere'
      BY <3>4 DEF Shapes, RulesRunThere
    <3>5. CASE BeginRound
      <4>1. uploader'.pc \in {"round", "empty"}
        BY <3>5 DEF BeginRound, Rest, Round
      <4> QED BY <4>1 DEF RulesRunThere
    <3>6. CASE EmptyQueue \/ UploadFailed
      BY <3>1, <3>6 DEF EmptyQueue, UploadFailed
    <3>7. CASE ClaimUpload
      BY <3>1, <3>4, <3>7 DEF ClaimUpload
    <3>8. CASE CheckUpload
      BY <3>1, <3>2, <3>3, <3>8 DEF CheckUpload
    <3>9. CASE CheckSent
      BY <3>1, <3>3, <3>9 DEF CheckSent
    <3> QED BY <1>6, <3>5, <3>6, <3>7, <3>8, <3>9
  <2>3. There \subseteq There'
    BY <2>1 DEF There
  <2> QED BY <2>1, <2>2, <2>3, CopyAdded
<1>7. CASE Upload
  <2>1. UNCHANGED <<of, rows, archives, op, recorded, place>> /\ ~RulesRunThere'
    BY <1>7 DEF Upload, Round, RulesRunThere, Shapes
  <2>2. there[place] \subseteq there'[place]
    BY <1>7 DEF Upload, Shapes
  <2> QED BY <2>1, <2>2, CopyAdded DEF There
<1>8. CASE RecordCopy
  <2>1. UNCHANGED <<of, rows, archives, op, there, place>> /\ recorded \subseteq recorded'
    BY <1>8 DEF RecordCopy
  <2>2. ~RulesRunThere'
    BY <1>8 DEF RecordCopy, Round, NextCopy, Rest, RulesRunThere, Shapes
  <2> QED BY <2>1, <2>2, CopyAdded DEF There
<1>9. ASSUME NEW here, NEW off, PlanThere(here, off) PROVE Spared'
  <2>1. UNCHANGED <<of, rows, archives, recorded, there, place, op>>
        /\ owner = Quiet /\ ~RulesRunHere /\ uploader.pc = "prune"
        /\ uploader'.plan = recorded \ OffKept(off, HostKept(here))
    BY <1>9 DEF PlanThere, Shapes
  <2>2. rows \subseteq archives /\ recorded \subseteq there[place]
    BY <2>1 DEF ListedIsHere, RecordedIsThere, Due, Quiet, RulesRunHere
  <2> SUFFICES ASSUME NEW l, Kept(l)' # {} PROVE SparedThere(l)'
    BY <2>1 DEF Spared, RulesRunHere
  <2>3. GoodOf(l) # {}
    BY <2>1 DEF Kept, GoodOf, Good
  <2>4. PICK c \in Made : of[c] = l /\ c \in rows \union OffKept(off, HostKept(here))
    BY <2>3, RulesThereSpare
  <2>5. OffKept(off, HostKept(here)) \subseteq recorded
    BY DEF OffKept
  <2> QED BY <2>1, <2>2, <2>4, <2>5 DEF SparedThere, Here, There, Made
<1>10. CASE DeleteCopy \/ DeleteRecord
  <2>1. RulesRunThere /\ ~RulesRunHere
    BY <1>10 DEF DeleteCopy, DeleteRecord, RulesRunThere, Alone
  <2>2. UNCHANGED <<of, rows, archives, place, op>>
    BY <1>10 DEF DeleteCopy, DeleteRecord
  <2>3. There' \subseteq There
    BY <1>10 DEF DeleteCopy, DeleteRecord, There, Shapes
  <2>4. ASSUME NEW l \in Range(of), Kept(l)' # {} PROVE SparedThere(l)'
    <3>1. Kept(l) # {}
      BY <2>2, <2>3, <2>4 DEF Kept, There, Made
    <3>2. SparedThere(l)
      BY <2>1, <3>1 DEF Spared
    <3> QED BY <1>10, <3>2, DeletionThereSpares
  <2> QED BY <2>1, <2>2, <2>4 DEF Spared, RulesRunHere
<1>11. CASE EndPrune
  <2>1. UNCHANGED <<of, rows, archives, recorded, there, place>>
    BY <1>11 DEF EndPrune
  <2>2. ~RulesRunThere' /\ ~RulesRunHere
    BY <1>11 DEF EndPrune, Round, NextCopy, Rest, RulesRunThere, RulesRunHere, Alone,
       Shapes
  <2>3. ~RulesRunHere'
    BY <1>11, <2>2 DEF EndPrune, RulesRunHere
  <2> QED BY <2>2, <2>3, RulesOver
<1>12. ASSUME NEW p \in Place, NEW on \in BOOLEAN, SaveSettings(p, on) PROVE Spared'
  <2>1. UNCHANGED <<of, rows, archives, recorded, there, op, uploader.pc, uploader.plan>>
    BY <1>12 DEF SaveSettings, Shapes
  <2>2. (RulesRunHere \/ RulesRunThere) => place' = place
    BY <1>12 DEF SaveSettings
  <2>3. CASE RulesRunHere \/ RulesRunThere
    BY <2>1, <2>2, <2>3, NothingMoved
  <2>4. CASE ~RulesRunHere /\ ~RulesRunThere
    BY <2>1, <2>4, RulesOver DEF RulesRunHere, RulesRunThere
  <2> QED BY <2>3, <2>4
<1>13. CASE NewKey \/ StopUpload \/ MakeDue \/ QueueNewest \/ TimePasses
  <2>1. UNCHANGED <<of, rows, archives, recorded, there, place, op>>
    BY <1>13 DEF NewKey, StopUpload, MakeDue, QueueNewest, TimePasses
  <2>2. UNCHANGED <<uploader.pc, uploader.plan>>
    BY <1>13 DEF NewKey, StopUpload, MakeDue, QueueNewest, TimePasses, Shapes
  <2> QED BY <2>1, <2>2, NothingMoved
<1>14. CASE Forget \/ Unrecord \/ Unlist
  <2>1. ~RulesRunHere /\ ~RulesRunThere
    BY <1>14 DEF Forget, Unrecord, Unlist, Due, Alone
  <2>2. UNCHANGED <<op, uploader>>
    BY <1>14 DEF Forget, Unrecord, Unlist
  <2> QED BY <2>1, <2>2, RulesOver DEF RulesRunHere, RulesRunThere
<1>15. ASSUME NEW b, CopyDelete(b) \/ BackupDelete(b) PROVE Spared'
  <2>1. ~RulesRunHere /\ ~RulesRunThere /\ UNCHANGED <<op, uploader>>
    BY <1>15 DEF CopyDelete, BackupDelete, Unlocked, RulesRunHere
  <2> QED BY <2>1, RulesOver DEF RulesRunHere, RulesRunThere
<1>16. CASE AgentDies
  BY <1>16, RulesOver DEF AgentDies, Rest, Unlocked, RulesRunHere, RulesRunThere
<1>17. CASE UNCHANGED vars
  BY <1>17, NothingMoved DEF vars
<1> QED BY <1>1, <1>2, <1>3, <1>4, <1>5, <1>6, <1>7, <1>8, <1>9, <1>10, <1>11,
           <1>12, <1>13, <1>14, <1>15, <1>16, <1>17
        DEF Next, BackupStep, UploaderStep, RequestStep

-----------------------------------------------------------------------------
(* Theorems *)

(* The first state is one of these. *)
LEMMA InitInv == Init => BackupInv
<1> SUFFICES ASSUME Init PROVE BackupInv
  OBVIOUS
<1>1. Shapes
  BY PlaceAssumption DEF Init, Shapes, Made, Rest, Unlocked, Quiet
<1>2. Carried /\ ListedIsHere /\ RecordedIsThere
  BY DEF Init, Carried, ListedIsHere, RecordedIsThere, Rest, Unlocked
<1>3. Alone /\ Spared
  BY DEF Init, Alone, Spared, RulesRunHere, RulesRunThere, Rest, Unlocked, Quiet
<1> QED BY <1>1, <1>2, <1>3 DEF BackupInv

(* The invariant holds in every state while no window is open. *)
LEMMA InvHolds == Closed /\ Spec => []BackupInv
<1>1. Closed /\ BackupInv /\ [Next]_vars => BackupInv'
  BY ShapesKept, CarriedKept, RecordsKept, ListedKept, AloneKept, SparedKept
  DEF BackupInv
<1>2. Closed => []Closed
  OBVIOUS
<1> QED BY <1>1, <1>2, InitInv, PTL DEF Spec

(* A copy on record is at the place copies go to now, except while it is   *)
(* being deleted or forgotten: whatever is sent, moved, deleted or died.   *)
THEOREM RecordsAreTrue == Closed /\ Spec => []RecordedIsThere
<1>1. BackupInv => RecordedIsThere
  BY DEF BackupInv
<1> QED BY <1>1, InvHolds, PTL

(* Steps that are no deletion by the rules, nor by the owner, only add. *)
LEMMA OthersOnlyAdd ==
    ASSUME Closed, BackupInv, Next, owner' = owner,
           ~(RemoveArchive \/ RemoveRow \/ DeleteCopy \/ DeleteRecord)
    PROVE  /\ Made \subseteq Made' /\ \A b \in Made : of'[b] = of[b]
           /\ Here \subseteq Here' /\ There \subseteq There'
<1> USE DEF Closed, Open, BackupInv, Here, There, disk, remote, waiting, settings,
            counts
<1>1. ASSUME NEW l \in 1..Lineages, MakeBackup(l)
      PROVE  /\ Made \subseteq Made' /\ \A b \in Made : of'[b] = of[b]
             /\ Here \subseteq Here' /\ There \subseteq There'
  BY <1>1, NewBackup DEF MakeBackup
<1>2. CASE UNCHANGED <<of, rows, archives, recorded, there, place>>
  BY <1>2 DEF Made
<1>3. CASE Upload
  <2>1. UNCHANGED <<of, rows, archives, recorded, place>>
    BY <1>3 DEF Upload
  <2>2. there[place] \subseteq there'[place]
    BY <1>3 DEF Upload, Shapes
  <2> QED BY <2>1, <2>2 DEF Made
<1>4. CASE RecordCopy
  BY <1>4 DEF RecordCopy, Made
<1>5. ASSUME NEW p \in Place, NEW on \in BOOLEAN, SaveSettings(p, on)
      PROVE  UNCHANGED <<of, rows, archives, recorded, there, place>>
  <2>1. owner = Quiet /\ owner'.todo = StepsOf([forget |-> p # place,
            stop |-> p # place \/ ~on, due |-> on,
            queue |-> (on /\ ~enabled) \/ (p # place /\ on)])
    BY <1>5 DEF SaveSettings, Request, Quiet
  <2>2. p # place => "forget" \in owner'.todo
    BY <2>1 DEF StepsOf
  <2>3. p = place
    BY <2>1, <2>2 DEF Quiet
  <2> QED BY <1>5, <2>3 DEF SaveSettings
<1>6. ASSUME NEW b \in Made, CopyDelete(b) \/ BackupDelete(b) PROVE FALSE
  BY <1>6 DEF CopyDelete, BackupDelete, Request, Quiet
<1>7. CASE Forget \/ Unrecord \/ Unlist
  BY <1>7 DEF Forget, Unrecord, Unlist, Due, Done, Quiet, Shapes
<1>8. CASE StopUpload \/ MakeDue \/ QueueNewest \/ NewKey \/ TimePasses \/ AgentDies
  BY <1>2, <1>8 DEF StopUpload, MakeDue, QueueNewest, NewKey, TimePasses, AgentDies
<1>9. CASE QueueBackup \/ EndRules \/ \E ruled \in Ruled("here", rows) : PlanHere(ruled)
  BY <1>2, <1>9 DEF QueueBackup, EndRules, PlanHere
<1>10. CASE BeginRound \/ EmptyQueue \/ ClaimUpload \/ CheckUpload \/ CheckSent
            \/ UploadFailed \/ EndPrune
  BY <1>2, <1>10 DEF BeginRound, EmptyQueue, ClaimUpload, CheckUpload, CheckSent,
     UploadFailed, EndPrune
<1>11. ASSUME NEW here, NEW off, PlanThere(here, off)
       PROVE  UNCHANGED <<of, rows, archives, recorded, there, place>>
  BY <1>11 DEF PlanThere
<1> QED BY <1>1, <1>2, <1>3, <1>4, <1>5, <1>6, <1>7, <1>8, <1>9, <1>10, <1>11
        DEF Next, BackupStep, UploaderStep, RequestStep

(* The rules never take the last backup of a world or version.  Applied in *)
(* turn, each of both lots spares what the other has.                      *)
THEOREM TheLastIsSpared == Closed /\ Spec => OnlyCopiesKept
<1>1. ASSUME Closed, BackupInv, [Next]_vars PROVE [RulesSpareTheLast]_vars
  <2> SUFFICES ASSUME Next, owner' = owner, NEW l \in Range(of), Kept(l) # {}
               PROVE  Kept(l)' # {}
    BY <1>1 DEF RulesSpareTheLast
  <2>1. SparedHere(l)' \/ SparedThere(l)' => Kept(l)' # {}
    BY DEF SparedHere, SparedThere, Kept, Here, There
  <2>2. CASE RemoveArchive \/ RemoveRow
    <3>1. SparedHere(l)
      BY <1>1, <2>2 DEF BackupInv, Spared, RemoveArchive, RemoveRow, RulesRunHere
    <3> QED BY <1>1, <2>1, <2>2, <3>1, DeletionHereSpares DEF BackupInv
  <2>3. CASE DeleteCopy \/ DeleteRecord
    <3>1. SparedThere(l)
      BY <1>1, <2>3 DEF BackupInv, Spared, DeleteCopy, DeleteRecord, RulesRunThere
    <3> QED BY <1>1, <2>1, <2>3, <3>1, DeletionThereSpares DEF BackupInv
  <2>4. CASE ~(RemoveArchive \/ RemoveRow \/ DeleteCopy \/ DeleteRecord)
    <3>1. PICK b \in Made : of[b] = l /\ b \in Here \union There
      BY DEF Kept, Here, There
    <3>2. b \in Made' /\ of'[b] = l /\ b \in Here' \union There'
      BY <1>1, <2>4, <3>1, OthersOnlyAdd
    <3> QED BY <3>2 DEF Kept, Here, There
  <2> QED BY <2>2, <2>3, <2>4
<1>2. Closed /\ BackupInv /\ [Next]_vars => [RulesSpareTheLast]_vars
  BY <1>1
<1>3. Closed => []Closed
  OBVIOUS
<1> QED BY <1>2, <1>3, InvHolds, PTL DEF Spec, OnlyCopiesKept

(* A backup that waits for its copy stays here and in the queue. *)
THEOREM WaitersAreKept == Closed /\ Spec => WaitingKept
<1>1. ASSUME Closed, BackupInv, [Next]_vars PROVE [WaitersStay]_vars
  <2> SUFFICES ASSUME Next PROVE WaitersStay
    BY <1>1
  <2> USE <1>1 DEF Closed, Open, BackupInv, disk, remote, waiting, settings, counts
  <2>1. CASE UNCHANGED <<queue, archives>>
    BY <2>1 DEF WaitersStay, Waiting
  <2>2. ASSUME NEW l \in 1..Lineages, MakeBackup(l) PROVE WaitersStay
    BY <2>2 DEF MakeBackup, WaitersStay, Waiting
  <2>3. CASE QueueBackup \/ QueueNewest
    <3>1. archives' = archives /\ (queue' = queue \/ \E b : Queued(b))
      BY <2>3 DEF QueueBackup, QueueNewest
    <3> QED BY <3>1, QueueShrinks DEF WaitersStay, Waiting
  <2>4. CASE RemoveArchive
    <3>1. Len(of) \in Nat /\ op.plan \in SUBSET (1..Len(of)) /\ op.plan # {}
      BY <2>4 DEF Shapes, Made, RemoveArchive
    <3>2. Max(op.plan) \in op.plan
      BY <3>1, GreatestExists
    <3>3. Max(op.plan) \notin Waiting
      BY <2>4, <3>2 DEF Alone, RulesRunHere, RemoveArchive
    <3> QED BY <2>4, <3>3 DEF WaitersStay, RemoveArchive, Waiting
  <2>5. CASE EmptyQueue \/ CheckUpload \/ UploadFailed \/ RecordCopy
    <3>1. archives' = archives
      BY <2>5 DEF EmptyQueue, CheckUpload, UploadFailed, RecordCopy
    <3>2. queue' = queue \/ uploader' # uploader
      <4>1. CASE EmptyQueue \/ UploadFailed
        BY <4>1 DEF EmptyQueue, UploadFailed, Rest
      <4>2. CASE CheckUpload
        <5>1. uploader.pc = "claimed"
              /\ (queue' = queue \/ uploader' = Rest \/ NextCopy)
          BY <4>2 DEF CheckUpload
        <5>2. CASE uploader' = Rest
          BY <5>1, <5>2 DEF Rest
        <5>3. CASE NextCopy
          BY <5>1, <5>3 DEF NextCopy, Rest
        <5> QED BY <5>1, <5>2, <5>3
      <4>3. CASE RecordCopy
        BY <4>3 DEF RecordCopy, NextCopy, Rest, Round, Shapes
      <4> QED BY <2>5, <4>1, <4>2, <4>3
    <3> QED BY <3>1, <3>2 DEF WaitersStay, Waiting
  <2>6. ASSUME NEW b \in Made, CopyDelete(b) \/ BackupDelete(b) PROVE WaitersStay
    <3>1. queue' = queue /\ owner' # owner
      BY <2>6 DEF CopyDelete, BackupDelete, Request, Quiet
    <3> QED BY <3>1 DEF WaitersStay, Waiting
  <2>7. CASE RemoveRow \/ EndRules \/ \E ruled \in Ruled("here", rows) : PlanHere(ruled)
    BY <2>1, <2>7 DEF RemoveRow, EndRules, PlanHere
  <2>8. CASE BeginRound \/ ClaimUpload \/ Upload \/ CheckSent \/ DeleteCopy
             \/ DeleteRecord \/ EndPrune
    BY <2>1, <2>8 DEF BeginRound, ClaimUpload, Upload, CheckSent, DeleteCopy,
       DeleteRecord, EndPrune
  <2>9. ASSUME NEW here, NEW off, PlanThere(here, off) PROVE WaitersStay
    BY <2>1, <2>9 DEF PlanThere
  <2>10. ASSUME NEW p \in Place, NEW on \in BOOLEAN, SaveSettings(p, on)
         PROVE  WaitersStay
    BY <2>1, <2>10 DEF SaveSettings
  <2>11. CASE Forget \/ StopUpload \/ MakeDue \/ Unrecord \/ Unlist
    BY <2>1, <2>11 DEF Forget, StopUpload, MakeDue, Unrecord, Unlist
  <2>12. CASE NewKey \/ TimePasses \/ AgentDies
    BY <2>1, <2>12 DEF NewKey, TimePasses, AgentDies
  <2> QED BY <2>2, <2>3, <2>4, <2>5, <2>6, <2>7, <2>8, <2>9, <2>10, <2>11, <2>12
          DEF Next, BackupStep, UploaderStep, RequestStep
<1>2. Closed /\ BackupInv /\ [Next]_vars => [WaitersStay]_vars
  BY <1>1
<1>3. Closed => []Closed
  OBVIOUS
<1> QED BY <1>2, <1>3, InvHolds, PTL DEF Spec, WaitingKept

(* What the rules and the queue delete by themselves spares the last        *)
(* backup of each world and version, and what waits for its copy.          *)
THEOREM BackupsAreSpared == Closed /\ Spec => BackupsSpared
BY TheLastIsSpared, WaitersAreKept DEF BackupsSpared

-----------------------------------------------------------------------------
(* Types *)

(* The numbers of backups that each record and each place holds. *)
Books ==
    /\ of \in Seq(1..Lineages) /\ Len(of) <= MaxBackups
    /\ rows \subseteq Made /\ archives \subseteq Made
    /\ recorded \subseteq Made /\ there \in [Place -> SUBSET Made]
    /\ given \subseteq Made

(* The queue, and a number that no backup in it was queued after. *)
Line ==
    /\ Waiting \subseteq Made /\ queue \in [Waiting -> Nat] /\ IsInjective(queue)
    /\ \E n \in Nat : \A b \in Waiting : queue[b] <= n
    /\ due \subseteq Waiting

(* Who is at what, and that what is queued or copied was made. *)
Busy ==
    /\ enabled \in BOOLEAN /\ place \in Place
    /\ uploader \in Rounds /\ op \in Locked
    /\ (uploader.pc = "rules") = (op.by = "uploader")
    /\ owner \in [todo : SUBSET DOMAIN Before, which : Backup \union {0}]
    /\ requests \in 0..MaxRequests /\ faults \in 0..MaxFaults
    /\ op.pc = "queue" => Newest \in Made
    /\ uploader.pc \in {"claimed", "sending", "sent", "failed", "record"}
          => uploader.job \in Made

Typed == Books /\ Line /\ Busy

(* What was made stays made. *)
LEMMA MadeStays ==
    ASSUME Books, [Next]_vars
    PROVE  /\ Made \subseteq Made' /\ Made \subseteq Backup
           /\ Len(of) \in Nat /\ Made = 1..Len(of)
           /\ \/ UNCHANGED of
              \/ \E l \in 1..Lineages : MakeBackup(l)
<1>1. Len(of) \in Nat /\ Made = 1..Len(of) /\ Made \subseteq Backup
  BY BoundsAssumption DEF Books, Made, Backup
<1>2. ASSUME NEW l \in 1..Lineages, MakeBackup(l) PROVE Made \subseteq Made'
  <2>1. Len(of') = Len(of) + 1 /\ of' \in Seq(1..Lineages)
    BY <1>2 DEF Books, MakeBackup
  <2> QED BY <1>1, <2>1 DEF Made
<1>3. UNCHANGED of \/ \E l \in 1..Lineages : MakeBackup(l)
  <2>1. CASE BackupStep
    BY <2>1 DEF BackupStep, QueueBackup, RemoveArchive, RemoveRow, EndRules, PlanHere
  <2>2. CASE UploaderStep
    BY <2>2 DEF UploaderStep, BeginRound, EmptyQueue, ClaimUpload, CheckUpload, Upload,
       CheckSent, UploadFailed, RecordCopy, PlanThere, DeleteCopy, DeleteRecord, EndPrune
  <2>3. CASE RequestStep
    BY <2>3 DEF RequestStep, Forget, StopUpload, MakeDue, QueueNewest, Unrecord, Unlist
  <2> QED BY <2>1, <2>2, <2>3
    DEF Next, vars, SaveSettings, NewKey, CopyDelete, BackupDelete, TimePasses, AgentDies
<1> QED BY <1>1, <1>2, <1>3 DEF Made

(* The books stay within what was made. *)
LEMMA BooksKept == Typed /\ [Next]_vars => Books'
<1> SUFFICES ASSUME Books, Busy, [Next]_vars PROVE Books'
  BY DEF Typed
<1> USE DEF disk, remote, counts, waiting, settings
<1>1. Made \subseteq Made'
  BY MadeStays
<1>2. CASE UNCHANGED of
  <2>1. Made' = Made /\ of' \in Seq(1..Lineages) /\ Len(of') <= MaxBackups
    BY <1>2 DEF Books, Made
  <2>2. /\ uploader.pc \in {"sending", "failed", "record"} => {uploader.job} \subseteq Made
        /\ rows \subseteq Made /\ archives \subseteq Made /\ recorded \subseteq Made
        /\ there \in [Place -> SUBSET Made] /\ given \subseteq Made
    BY DEF Books, Busy
  <2>3. CASE BackupStep
    <3>1. UNCHANGED <<recorded, there, given>> /\ rows' \subseteq rows
          /\ archives' \subseteq archives
      BY <2>3 DEF BackupStep, QueueBackup, RemoveArchive, RemoveRow, EndRules, PlanHere
    <3> QED BY <2>1, <2>2, <3>1 DEF Books
  <2>4. CASE UploaderStep
    <3>1. CASE Upload
      <4>1. there' \in [Place -> SUBSET Made]
        BY <2>2, <3>1 DEF Upload
      <4>2. UNCHANGED <<rows, archives, recorded, given>>
        BY <3>1 DEF Upload
      <4> QED BY <2>1, <2>2, <4>1, <4>2 DEF Books
    <3>2. CASE UploadFailed
      <4>1. given' \subseteq Made
        BY <2>2, <3>2 DEF UploadFailed
      <4>2. UNCHANGED <<rows, archives, recorded, there>>
        BY <3>2 DEF UploadFailed
      <4> QED BY <2>1, <2>2, <4>1, <4>2 DEF Books
    <3>3. CASE RecordCopy
      <4>1. recorded' \subseteq Made
        BY <2>2, <3>3 DEF RecordCopy
      <4>2. UNCHANGED <<rows, archives, there, given>>
        BY <3>3 DEF RecordCopy
      <4> QED BY <2>1, <2>2, <4>1, <4>2 DEF Books
    <3>4. CASE DeleteCopy
      <4>1. there' \in [Place -> SUBSET Made]
        BY <2>2, <3>4 DEF DeleteCopy
      <4>2. UNCHANGED <<rows, archives, recorded, given>>
        BY <3>4 DEF DeleteCopy
      <4> QED BY <2>1, <2>2, <4>1, <4>2 DEF Books
    <3>5. CASE DeleteRecord
      <4>1. recorded' \subseteq recorded /\ UNCHANGED <<rows, archives, there, given>>
        BY <3>5 DEF DeleteRecord
      <4> QED BY <2>1, <2>2, <4>1 DEF Books
    <3>6. CASE UNCHANGED <<rows, archives, recorded, there, given>>
      BY <2>1, <2>2, <3>6 DEF Books
    <3> QED BY <2>4, <3>1, <3>2, <3>3, <3>4, <3>5, <3>6
        DEF UploaderStep, BeginRound, EmptyQueue, ClaimUpload, CheckUpload, CheckSent,
            PlanThere, EndPrune
  <2>5. CASE RequestStep
    <3>1. UNCHANGED <<archives, there, given>> /\ rows' \subseteq rows
          /\ recorded' \subseteq recorded
      BY <2>5
      DEF RequestStep, Forget, StopUpload, MakeDue, QueueNewest, Unrecord, Unlist
    <3> QED BY <2>1, <2>2, <3>1 DEF Books
  <2>6. ASSUME NEW b \in Made, CopyDelete(b) \/ BackupDelete(b) PROVE Books'
    <3>1. there' \in [Place -> SUBSET Made]
      BY <2>2, <2>6 DEF CopyDelete, BackupDelete
    <3>2. given' = given \union {b} /\ UNCHANGED <<rows, recorded>>
          /\ archives' \subseteq archives
      BY <2>6 DEF CopyDelete, BackupDelete
    <3> QED BY <2>1, <2>2, <3>1, <3>2 DEF Books
  <2>7. CASE UNCHANGED <<rows, archives, recorded, there, given>>
    BY <2>1, <2>2, <2>7 DEF Books
  <2>8. ASSUME NEW l \in 1..Lineages, MakeBackup(l) PROVE FALSE
    <3>1. Len(of') = Len(of) + 1 /\ Len(of) \in Nat
      BY <2>8 DEF Books, MakeBackup
    <3> QED BY <1>2, <3>1
  <2> QED BY <2>3, <2>4, <2>5, <2>6, <2>7, <2>8
      DEF Next, vars, SaveSettings, NewKey, TimePasses, AgentDies
<1>3. ASSUME NEW l \in 1..Lineages, MakeBackup(l) PROVE Books'
  <2>1. /\ of' \in Seq(1..Lineages) /\ Len(of') = Len(of) + 1
        /\ Len(of) < MaxBackups /\ Len(of) \in Nat
    BY <1>3 DEF Books, MakeBackup
  <2>2. Len(of) + 1 \in Made' /\ Len(of') <= MaxBackups
    BY <2>1, BoundsAssumption DEF Made
  <2>3. /\ rows' = rows \union {Len(of) + 1} /\ archives' = archives \union {Len(of) + 1}
        /\ UNCHANGED <<recorded, there, given>>
    BY <1>3 DEF MakeBackup
  <2>4. there \in [Place -> SUBSET Made']
    BY <1>1 DEF Books
  <2> QED BY <1>1, <2>1, <2>2, <2>3, <2>4 DEF Books
<1> QED BY <1>2, <1>3, MadeStays

(* Part of a queue is a queue, and no longer. *)
LEMMA PartOfLine ==
    ASSUME NEW q, NEW S \in SUBSET DOMAIN q, NEW n \in Nat,
           q \in [DOMAIN q -> Nat], IsInjective(q), \A b \in DOMAIN q : q[b] <= n
    PROVE  /\ DOMAIN Restrict(q, S) = S /\ Restrict(q, S) \in [S -> Nat]
           /\ IsInjective(Restrict(q, S)) /\ \A b \in S : Restrict(q, S)[b] <= n
BY DEF Restrict, IsInjective

(* Who joins comes after everyone who waits. *)
LEMMA LastInLine ==
    ASSUME Line, NEW b
    PROVE  \E n \in Nat :
              /\ DOMAIN Inserted(b) = Waiting \union {b}
              /\ Inserted(b) \in [Waiting \union {b} -> Nat]
              /\ IsInjective(Inserted(b))
              /\ \A c \in Waiting \union {b} : Inserted(b)[c] <= n
<1> DEFINE S == {0} \union Range(queue)
           m == Max(S)
<1>1. PICK n \in Nat : \A c \in Waiting : queue[c] <= n
  BY DEF Line
<1>2. \A c \in Waiting : queue[c] \in Nat /\ queue[c] \in S
  BY DEF Line, Waiting, Range
<1>3. 0 \in S /\ \A x \in S : x \in Nat /\ x <= n
  BY <1>1, <1>2 DEF Range, Waiting
<1>4. m \in Nat /\ \A x \in S : x <= m
  BY <1>3, GreatestNumber
<1>5. Inserted(b) = [c \in Waiting \union {b} |-> IF c \in Waiting THEN queue[c] ELSE m + 1]
  BY DEF Inserted
<1> HIDE DEF m, S
<1>6. \A c \in Waiting : queue[c] \in Nat /\ queue[c] <= m
  BY <1>2, <1>4
<1>7. IsInjective(queue) /\ Waiting = DOMAIN queue
  BY DEF Line, Waiting
<1>8. /\ Inserted(b) \in [Waiting \union {b} -> Nat]
      /\ \A c \in Waiting \union {b} : Inserted(b)[c] <= m + 1
  BY <1>4, <1>5, <1>6
<1>9. IsInjective(Inserted(b))
  BY <1>4, <1>5, <1>6, <1>7 DEF IsInjective
<1>10. m + 1 \in Nat /\ DOMAIN Inserted(b) = Waiting \union {b}
  BY <1>4, <1>5
<1> QED BY <1>8, <1>9, <1>10

(* Joining the queue and leaving it keep its types. *)
LEMMA LineMoves ==
    ASSUME Books, Line, [Next]_vars, NEW b, Leaves(b) \/ (b \in Made /\ Queued(b))
    PROVE  Line'
<1>1. Made \subseteq Made'
  BY MadeStays
<1>2. CASE Leaves(b)
  <2>1. queue' = Restrict(queue, Waiting \ {b}) /\ due' = due \ {b}
    BY <1>2 DEF Leaves
  <2>2. PICK n \in Nat : \A c \in Waiting : queue[c] <= n
    BY DEF Line
  <2>3. /\ Waiting' = Waiting \ {b} /\ queue' \in [Waiting' -> Nat]
        /\ IsInjective(queue') /\ \A c \in Waiting' : queue'[c] <= n
    BY <2>1, <2>2, PartOfLine DEF Line, Waiting
  <2>4. Waiting' \subseteq Made' /\ due' \subseteq Waiting'
    BY <1>1, <2>1, <2>3 DEF Line
  <2> QED BY <2>3, <2>4 DEF Line
<1>3. CASE b \in Made /\ Queued(b)
  <2>1. PICK n \in Nat :
           /\ DOMAIN Inserted(b) = Waiting \union {b}
           /\ Inserted(b) \in [Waiting \union {b} -> Nat]
           /\ IsInjective(Inserted(b))
           /\ \A c \in Waiting \union {b} : Inserted(b)[c] <= n
    BY LastInLine
  <2>2. PICK S \in SUBSET DOMAIN Inserted(b) : queue' = Restrict(Inserted(b), S)
    BY <1>3 DEF Queued, Trimmed
  <2>3. /\ Waiting' = S /\ queue' \in [S -> Nat]
        /\ IsInjective(queue') /\ \A c \in S : queue'[c] <= n
    BY <2>1, <2>2, PartOfLine DEF Waiting
  <2>4. Waiting' \subseteq Made' /\ due' \subseteq Waiting'
    BY <1>1, <1>3, <2>1, <2>2, <2>3 DEF Line, Queued, Waiting
  <2> QED BY <2>3, <2>4 DEF Line
<1> QED BY <1>2, <1>3

LEMMA LineKept == Typed /\ [Next]_vars => Line'
<1> SUFFICES ASSUME Books, Line, Busy, [Next]_vars PROVE Line'
  BY DEF Typed
<1> USE DEF waiting
<1>1. Made \subseteq Made'
  BY MadeStays
<1>2. CASE UNCHANGED queue /\ due' \subseteq Waiting
  BY <1>1, <1>2 DEF Line, Waiting
<1>3. ASSUME NEW b, Leaves(b) \/ (b \in Made /\ Queued(b)) PROVE Line'
  BY <1>3, LineMoves
<1>4. CASE QueueBackup
  <2>1. Newest \in Made
    BY <1>4 DEF Busy, QueueBackup
  <2>2. Queued(Newest) \/ (UNCHANGED queue /\ due' \subseteq Waiting)
    BY <1>4 DEF QueueBackup, Line
  <2> QED BY <1>2, <1>3, <2>1, <2>2
<1>5. CASE EmptyQueue
  BY <1>5 DEF EmptyQueue, Line, Waiting, IsInjective
<1>6. CASE CheckUpload \/ UploadFailed \/ RecordCopy
  <2>1. Leaves(uploader.job) \/ (UNCHANGED queue /\ due' \subseteq Waiting)
    BY <1>6 DEF CheckUpload, UploadFailed, RecordCopy, TryAgain, Line
  <2> QED BY <1>2, <1>3, <2>1
<1>7. CASE QueueNewest
  <2>1. Len(of) \in Nat /\ Made = 1..Len(of) /\ rows \in SUBSET (1..Len(of))
    BY MadeStays DEF Books
  <2>2. rows # {} => Max(rows) \in Made
    BY <2>1, GreatestExists
  <2>3. (rows # {} /\ Queued(Max(rows))) \/ (UNCHANGED queue /\ due' \subseteq Waiting)
    BY <1>7 DEF QueueNewest, Line
  <2> QED BY <1>2, <1>3, <2>2, <2>3
<1>8. CASE MakeDue \/ TimePasses
  BY <1>2, <1>8 DEF MakeDue, TimePasses
<1>9. CASE UNCHANGED <<queue, due>>
  BY <1>2, <1>9 DEF Line
<1>10. CASE BackupStep
  BY <1>4, <1>9, <1>10 DEF BackupStep, RemoveArchive, RemoveRow, EndRules, PlanHere
<1>11. CASE UploaderStep
  BY <1>5, <1>6, <1>9, <1>11
  DEF UploaderStep, BeginRound, ClaimUpload, Upload, CheckSent, PlanThere, DeleteCopy,
      DeleteRecord, EndPrune
<1>12. CASE RequestStep
  BY <1>7, <1>8, <1>9, <1>12 DEF RequestStep, Forget, StopUpload, Unrecord, Unlist
<1> QED BY <1>8, <1>9, <1>10, <1>11, <1>12
    DEF Next, vars, MakeBackup, SaveSettings, NewKey, CopyDelete, BackupDelete, AgentDies

LEMMA BusyKept == Typed /\ [Next]_vars => Busy'
<1> SUFFICES ASSUME Books, Line, Busy, [Next]_vars PROVE Busy'
  BY DEF Typed
<1> USE DEF disk, remote, waiting, settings, counts
<1>1. Made \subseteq Made' /\ Made \subseteq Backup /\ Newest \in Nat
  BY MadeStays DEF Newest
<1>2. Newest \in Made /\ UNCHANGED of => Newest' \in Made'
  BY <1>1 DEF Newest
<1>3. \A S \in SUBSET Made : S \in SUBSET Backup
  BY <1>1
<1>4. /\ DOMAIN Before = {"forget", "stop", "due", "queue", "unlist", "unrecord"}
      /\ Unlocked \in Locked /\ Rest \in Rounds /\ Rest.pc = "rest"
  BY DEF Before, Unlocked, Locked, Rest, Rounds
<1>5. faults' \in 0..MaxFaults \/ ~(Fault \/ UNCHANGED faults)
  BY BoundsAssumption DEF Fault, Busy
<1>6. /\ Quiet \in [todo : SUBSET DOMAIN Before, which : Backup \union {0}]
      /\ \A s : Done(s) => owner' \in [todo : SUBSET DOMAIN Before, which : Backup \union {0}]
  BY DEF Quiet, Done, Busy
<1> DEFINE Told == owner' \in [todo : SUBSET DOMAIN Before, which : Backup \union {0}]
           Counted == requests' \in 0..MaxRequests /\ faults' \in 0..MaxFaults
           Set == enabled' \in BOOLEAN /\ place' \in Place
           Queues == op'.pc = "queue" => Newest' \in Made'
           Ours == uploader'.pc \in {"claimed", "sending", "sent", "failed", "record"}
                      => uploader'.job \in Made'
           Ruling == (uploader'.pc = "rules") = (op'.by = "uploader")
<1>7. ASSUME UNCHANGED <<of, settings, uploader, owner, requests>>,
             op'.by = op.by, op' \in Locked, op'.pc # "queue",
             Fault \/ UNCHANGED faults
      PROVE  Busy'
  BY <1>1, <1>5, <1>7 DEF Busy
<1>8. ASSUME UNCHANGED <<of, settings, op, owner, requests>>,
             Fault \/ UNCHANGED faults, uploader' \in Rounds,
             uploader'.pc # "rules", uploader.pc # "rules",
             uploader'.pc \in {"claimed", "sending", "sent", "failed", "record"}
                => uploader'.job \in Made
      PROVE  Busy'
  BY <1>1, <1>2, <1>5, <1>8 DEF Busy
<1>9. NextCopy => uploader' \in Rounds /\ uploader'.pc = "round"
  BY DEF NextCopy, Rest, Busy, Rounds
<1>10. ASSUME NEW pc \in {"empty", "round", "claimed", "sending", "sent", "failed",
                          "record", "prune", "pruning", "pruned", "rules"}, Round(pc)
       PROVE  uploader' \in Rounds /\ uploader'.pc = pc /\ uploader'.job = uploader.job
  BY <1>10 DEF Round, Busy, Rounds
<1>11. ASSUME NEW l \in 1..Lineages, MakeBackup(l) PROVE Busy'
  <2>1. Len(of') = Len(of) + 1 /\ of' \in Seq(1..Lineages) /\ Len(of) \in Nat
    BY <1>11 DEF Books, MakeBackup
  <2>2. Newest' \in Made'
    BY <2>1 DEF Newest, Made
  <2>3. op' = [by |-> "backup", pc |-> "queue", plan |-> {}] /\ op = Unlocked
        /\ UNCHANGED <<settings, uploader, owner, requests, faults>>
    BY <1>11 DEF MakeBackup
  <2>4. op' \in Locked /\ op'.by # "uploader" /\ op.by # "uploader"
    BY <2>3 DEF Locked, Unlocked
  <2> QED BY <1>1, <2>2, <2>3, <2>4 DEF Busy
<1>12. CASE QueueBackup \/ RemoveArchive \/ RemoveRow
  <2>1. PICK pc \in {"plan", "remove", "unlist"}, S \in SUBSET Backup : OpGoes(pc, S)
    BY <1>12 DEF QueueBackup, RemoveArchive, RemoveRow, Busy, Locked
  <2>2. op'.by = op.by /\ op' \in Locked /\ op'.pc # "queue"
    BY <2>1 DEF OpGoes, Busy, Locked
  <2>3. UNCHANGED <<of, settings, uploader, owner, requests>>
        /\ (Fault \/ UNCHANGED faults)
    BY <1>12 DEF QueueBackup, RemoveArchive, RemoveRow
  <2> QED BY <1>7, <2>2, <2>3
<1>13. ASSUME NEW ruled, PlanHere(ruled) PROVE Busy'
  <2>1. rows \ HostKept(ruled) \in SUBSET Backup
    BY <1>3 DEF Books
  <2>2. op'.by = op.by /\ op' \in Locked /\ op'.pc # "queue"
    BY <1>13, <2>1 DEF PlanHere, OpGoes, Busy, Locked
  <2> QED BY <1>7, <1>13, <2>2 DEF PlanHere
<1>14. CASE EndRules
  <2>1. op' = Unlocked /\ UNCHANGED <<of, settings, owner, requests, faults>>
    BY <1>14 DEF EndRules
  <2>2. op' \in Locked /\ op'.by # "uploader" /\ op'.pc # "queue"
    BY <2>1 DEF Unlocked, Locked
  <2>3. CASE op.by = "uploader"
    BY <1>9, <1>14, <2>1, <2>2, <2>3 DEF EndRules, Busy
  <2>4. CASE op.by # "uploader"
    BY <1>1, <1>14, <2>1, <2>2, <2>4 DEF EndRules, Busy
  <2> QED BY <2>3, <2>4
<1>15. CASE BeginRound
  <2>1. uploader' \in Rounds /\ uploader'.pc \in {"round", "empty"} /\ uploader = Rest
    BY <1>15 DEF BeginRound, Round, Rest, Rounds, Busy
  <2> QED BY <1>8, <1>15, <2>1 DEF BeginRound, Rest
<1>16. CASE EmptyQueue
  BY <1>4, <1>8, <1>16 DEF EmptyQueue, Rest
<1>17. CASE ClaimUpload
  <2>1. uploader.pc = "round" /\ UNCHANGED <<of, settings, op, owner, requests, faults>>
    BY <1>17 DEF ClaimUpload
  <2>2. CASE uploader' = Rest
    BY <1>4, <1>8, <2>1, <2>2 DEF Rest
  <2>3. ASSUME NEW b \in due, uploader' = [uploader EXCEPT !.pc = "claimed", !.job = b]
        PROVE  Busy'
    <3>1. b \in Made /\ b \in Backup
      BY <1>1 DEF Line
    <3>2. uploader' \in Rounds /\ uploader'.pc = "claimed" /\ uploader'.job \in Made
      BY <2>3, <3>1 DEF Busy, Rounds
    <3> QED BY <1>8, <2>1, <3>2
  <2> QED BY <1>17, <2>2, <2>3 DEF ClaimUpload
<1>18. CASE CheckUpload \/ CheckSent \/ UploadFailed \/ RecordCopy
  <2>1. /\ uploader.pc \in {"claimed", "sent", "failed", "record"}
        /\ UNCHANGED <<of, settings, op, owner, requests>>
        /\ Fault \/ UNCHANGED faults
    BY <1>18 DEF CheckUpload, CheckSent, UploadFailed, RecordCopy
  <2>2. uploader.job \in Made
    BY <2>1 DEF Busy
  <2>3. \/ uploader' = Rest \/ NextCopy \/ Round("sending") \/ Round("record")
        \/ Round("prune")
    BY <1>18 DEF CheckUpload, CheckSent, UploadFailed, RecordCopy
  <2>4. uploader' \in Rounds /\ uploader'.pc # "rules"
        /\ (uploader'.pc \in {"claimed", "sending", "sent", "failed", "record"}
               => uploader'.job = uploader.job)
    <3>1. CASE uploader' = Rest \/ NextCopy
      BY <1>4, <1>9, <3>1
    <3>2. CASE Round("sending") \/ Round("record") \/ Round("prune")
      BY <1>10, <3>2
    <3> QED BY <2>3, <3>1, <3>2
  <2> QED BY <1>8, <2>1, <2>2, <2>4
<1>19. CASE Upload
  <2>1. /\ uploader.pc = "sending" /\ UNCHANGED <<of, settings, op, owner, requests>>
        /\ Fault \/ UNCHANGED faults
    BY <1>19 DEF Upload
  <2>2. \/ Round("failed")
        \/ uploader' = [uploader EXCEPT !.pc = "sent", !.since = FALSE, !.stopped = FALSE]
    BY <1>19 DEF Upload
  <2>3. uploader' \in Rounds /\ uploader'.pc # "rules" /\ uploader'.job = uploader.job
    BY <1>10, <2>2 DEF Busy, Rounds
  <2> QED BY <1>8, <2>1, <2>3 DEF Busy
<1>20. ASSUME NEW here, NEW off, PlanThere(here, off) PROVE Busy'
  <2>1. recorded \ OffKept(off, HostKept(here)) \in SUBSET Backup
    BY <1>3 DEF Books
  <2>2. uploader' \in Rounds /\ uploader'.pc = "pruning" /\ uploader.pc = "prune"
    BY <1>20, <2>1 DEF PlanThere, Busy, Rounds
  <2> QED BY <1>8, <1>20, <2>2 DEF PlanThere
<1>21. CASE DeleteCopy \/ DeleteRecord
  <2>1. Round("pruned") \/ PruneGoes("pruning")
    BY <1>21 DEF DeleteCopy, DeleteRecord
  <2>2. uploader' \in Rounds /\ uploader'.pc \in {"pruned", "pruning"}
    <3>1. CASE Round("pruned")
      BY <1>10, <3>1
    <3>2. CASE PruneGoes("pruning")
      <4>1. uploader.plan \ {Pruned} \in SUBSET Backup
        BY DEF Busy, Rounds
      <4> QED BY <3>2, <4>1 DEF PruneGoes, Busy, Rounds
    <3> QED BY <2>1, <3>1, <3>2
  <2>3. /\ uploader.pc \in {"pruning", "pruned"}
        /\ UNCHANGED <<of, settings, op, owner, requests>>
        /\ Fault \/ UNCHANGED faults
    BY <1>21 DEF DeleteCopy, DeleteRecord
  <2> QED BY <1>8, <2>2, <2>3
<1>22. CASE EndPrune
  <2>1. uploader.pc = "pruning" /\ UNCHANGED <<of, settings, owner, requests, faults>>
    BY <1>22 DEF EndPrune
  <2>2. CASE Round("rules") /\ op' = [by |-> "uploader", pc |-> "plan", plan |-> {}]
    <3>1. uploader' \in Rounds /\ uploader'.pc = "rules"
      BY <1>10, <2>2
    <3>2. op' \in Locked /\ op'.by = "uploader" /\ op'.pc = "plan"
      BY <2>2 DEF Locked
    <3> QED BY <2>1, <3>1, <3>2 DEF Busy
  <2>3. CASE NextCopy /\ UNCHANGED op
    BY <1>8, <1>9, <2>1, <2>3
  <2> QED BY <1>22, <2>2, <2>3 DEF EndPrune
<1>23. ASSUME Told, Counted, Set, UNCHANGED <<of, op>>, uploader' \in Rounds,
              uploader'.pc = uploader.pc, uploader'.job = uploader.job
       PROVE  Busy'
  BY <1>1, <1>2, <1>23 DEF Busy
<1>24. Request => requests' \in 0..MaxRequests
  BY BoundsAssumption DEF Request, Busy
<1>25. ASSUME NEW p \in Place, NEW on \in BOOLEAN, SaveSettings(p, on) PROVE Busy'
  <2>1. Told
    BY <1>4, <1>25 DEF SaveSettings, StepsOf, Quiet
  <2>2. uploader' \in Rounds /\ uploader'.pc = uploader.pc /\ uploader'.job = uploader.job
    BY <1>25 DEF SaveSettings, Trying, Busy, Rounds
  <2>3. Counted /\ Set /\ UNCHANGED <<of, op>>
    BY <1>24, <1>25 DEF SaveSettings, Busy
  <2> QED BY <1>23, <2>1, <2>2, <2>3
<1>26. CASE NewKey
  <2>1. Told
    BY <1>4, <1>26 DEF NewKey, Quiet
  <2>2. uploader' \in Rounds /\ uploader'.pc = uploader.pc /\ uploader'.job = uploader.job
    BY <1>26 DEF NewKey, Trying, Busy, Rounds
  <2>3. Counted /\ Set /\ UNCHANGED <<of, op>>
    BY <1>24, <1>26 DEF NewKey, Busy
  <2> QED BY <1>23, <2>1, <2>2, <2>3
<1>27. CASE RequestStep
  <2>1. Told
    BY <1>6, <1>27
    DEF RequestStep, Forget, StopUpload, MakeDue, QueueNewest, Unrecord, Unlist
  <2>2. UNCHANGED uploader \/ uploader' = [uploader EXCEPT !.stopped = @ \/ Trying]
    BY <1>27 DEF RequestStep, Forget, StopUpload, MakeDue, QueueNewest, Unrecord, Unlist
  <2>3. uploader' \in Rounds /\ uploader'.pc = uploader.pc /\ uploader'.job = uploader.job
    BY <2>2 DEF Trying, Busy, Rounds
  <2>4. UNCHANGED <<of, op, settings, requests, faults>>
    BY <1>27 DEF RequestStep, Forget, StopUpload, MakeDue, QueueNewest, Unrecord, Unlist
  <2> QED BY <1>23, <2>1, <2>3, <2>4 DEF Busy
<1>28. ASSUME NEW b \in Made, CopyDelete(b) \/ BackupDelete(b) PROVE Busy'
  <2>1. b \in Backup
    BY <1>1
  <2>2. Told
    BY <1>4, <1>28, <2>1 DEF CopyDelete, BackupDelete
  <2>3. Counted /\ Set /\ UNCHANGED <<of, op, uploader>>
    BY <1>24, <1>28 DEF CopyDelete, BackupDelete, Busy
  <2> QED BY <1>23, <2>2, <2>3 DEF Busy
<1>29. CASE TimePasses \/ UNCHANGED vars
  BY <1>23, <1>29 DEF TimePasses, vars, Busy
<1>30. CASE AgentDies
  BY <1>4, <1>5, <1>6, <1>30 DEF AgentDies, Rest, Unlocked, Busy
<1> QED BY <1>11, <1>12, <1>13, <1>14, <1>15, <1>16, <1>17, <1>18, <1>19, <1>20, <1>21,
           <1>22, <1>25, <1>26, <1>27, <1>28, <1>29, <1>30
        DEF Next, BackupStep, UploaderStep

(* What is queued, copied, kept or deleted was made, no two backups were   *)
(* queued at the same time, and a round waits for the rules on this        *)
(* machine just while the lock is held for it: with every window open, at  *)
(* every death and failure.                                                *)
THEOREM CopiesTypeCorrect == Spec => []TypeOK
<1>1. Init => Typed
  <2> SUFFICES ASSUME Init PROVE Typed
    OBVIOUS
  <2>1. Books
    BY BoundsAssumption DEF Init, Books, Made
  <2>2. Line
    <3>1. Waiting = {} /\ due = {} /\ queue = [b \in {} |-> 0]
      BY DEF Init, Waiting
    <3>2. 0 \in Nat /\ \A b \in Waiting : queue[b] <= 0
      BY <3>1
    <3> QED BY <3>1, <3>2 DEF Line, IsInjective
  <2>3. Busy
    BY BoundsAssumption, PlaceAssumption
    DEF Init, Busy, Rest, Rounds, Unlocked, Locked, Quiet
  <2> QED BY <2>1, <2>2, <2>3 DEF Typed
<1>2. Typed /\ [Next]_vars => Typed'
  BY BooksKept, LineKept, BusyKept DEF Typed
<1>3. Typed => TypeOK
  BY DEF Typed, Books, Line, Busy, TypeOK
<1> QED BY <1>1, <1>2, <1>3, PTL DEF Spec
=============================================================================
