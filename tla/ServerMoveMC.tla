----------------------------- MODULE ServerMoveMC -----------------------------
(***************************************************************************)
(* ServerMove with the dashboard's own machine and a joined one.           *)
(***************************************************************************)
EXTENDS ServerMove

TwoMachines == {"local", "joined"}
Own == "local"
Closed == {}
LateRestart == {"lateRestart"}
StartWhileAsked == {"startWhileAsked"}
=============================================================================
