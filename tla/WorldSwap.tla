------------------------------ MODULE WorldSwap ------------------------------
(***************************************************************************)
(* What a restore promises about a server's home: its world and settings   *)
(* are replaced together or not at all.  However many steps, crashes and   *)
(* retries a swap takes, the home is the previous world with the previous  *)
(* settings until it is, at once, the restored world with the restored     *)
(* settings.                                                               *)
(***************************************************************************)
CONSTANTS
    Restores,   \* the restores, each named by the world it brings
    Prior,      \* the world and settings the server begins with
    Fresh,      \* the new, empty world of a server that never had one
    None        \* no world

VARIABLES
    home,       \* the server's world
    conf,       \* whose settings the server has
    trying      \* the restores that are being tried or undone

vars == <<home, conf, trying>>

Init ==
    /\ home \in {Prior, None}
    /\ conf \in Restores \cup {Prior}
    /\ trying = {}

(* A swap begins: nothing is replaced yet. *)
Begin(r) == r \notin trying /\ trying' = trying \cup {r} /\ UNCHANGED <<home, conf>>

(* The restore is over and its world is the home. *)
Commit(r) == r \in trying /\ trying' = trying \ {r} /\ home' = r /\ conf' = r

(* The restore is over and nothing was replaced. *)
Abort(r) == r \in trying /\ trying' = trying \ {r} /\ UNCHANGED <<home, conf>>

(* A server without a world gets one: the new, empty one its start makes,  *)
(* or, when a restore was not seen through, the restored one, which stays  *)
(* for want of another whether or not its settings came with it.           *)
Make == home = None /\ home' = Fresh /\ UNCHANGED <<conf, trying>>
Leave(r) == /\ r \in trying /\ trying' = trying \ {r}
            /\ home = None /\ home' = r /\ UNCHANGED conf

Next == Make \/ \E r \in Restores : Begin(r) \/ Commit(r) \/ Abort(r) \/ Leave(r)

Spec == Init /\ [][Next]_vars
=============================================================================
