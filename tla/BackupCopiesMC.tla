---------------------------- MODULE BackupCopiesMC ----------------------------
(***************************************************************************)
(* BackupCopies on small instances.                                        *)
(***************************************************************************)
EXTENDS BackupCopies

\* Hours, days, weeks and months may keep any of the backups that are there.
AnyKept(where, S) == SUBSET S
\* The newest two here, and the newest one there.
LastFew(where, S) ==
    {{b \in S : Cardinality({c \in S : c > b}) < IF where = "here" THEN 2 ELSE 1}}

NoWindow == {}
RulesApart == {"rulesApart"}
RecordLate == {"recordLate"}
OwnerMeanwhile == {"ownerMeanwhile"}
UnreadMove == {"unreadMove"}
=============================================================================
