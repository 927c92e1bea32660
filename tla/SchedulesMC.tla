----------------------------- MODULE SchedulesMC -----------------------------
(***************************************************************************)
(* Schedules on small instances: a restart with warnings, a backup and a   *)
(* message.                                                                *)
(***************************************************************************)
EXTENDS Schedules

CONSTANTS restart, backup, message

KindOf(s) ==
    CASE s = restart -> "restart" [] s = backup -> "backup" [] s = message -> "quick"
TimingsOf(s) ==
    CASE s = restart -> {{2, 4}} [] s = backup -> {{1}} [] s = message -> {{3}}
LeadOf(s) == IF s = restart THEN 2 ELSE 0
GraceOf(s) ==
    CASE s = restart -> 1 [] s = backup -> 2 [] s = message -> 0
IfEmptyOf(s) == "now"

NoWindow == {}
EditOverRun == {"editOverRun"}
StaleList == {"staleList"}
LostCommand == {"lostCommand"}
Unreadable == {"unreadable"}
=============================================================================
