------------------------------ MODULE MachineLink ------------------------------
(***************************************************************************)
(* How machines join a dashboard, stay linked to it and are removed:       *)
(* the hub of the dashboard (internal/machinelink/hub.go) over its store   *)
(* (internal/panel/linkstore.go), and on each machine the commands         *)
(* playkeeper join and leave (internal/install/link.go) and the link       *)
(* process (internal/machinelink/link.go, cmd/playkeeper/link.go).         *)
(*                                                                         *)
(* A machine is named by its key: the store looks it up by key, and a key  *)
(* joins at most once.  Join codes are members of Code; the rate limit on  *)
(* wrong codes is the choice to answer "join_rate_limited" at any time.    *)
(***************************************************************************)
EXTENDS Naturals, FiniteSets

CONSTANTS
    Host,           \* the computers that may join
    Key,            \* the keys they may make, one per new join
    Code,           \* join codes the owner may make
    Conn,           \* connections open at once in link mode
    None,           \* no key, code or connection
    MaxFaults,      \* breaks, crashes and restarts in one behaviour
    RevokeMayFail   \* whether the store may fail to record a removal

ASSUME NoneAssumption == None \notin Key \cup Conn \cup Code
ASSUME FaultsAssumption == MaxFaults \in Nat

VARIABLES
    machine,    \* panel.db: the machine of each key
    code,       \* panel.db: each join code
    usedBy,     \* panel.db: the machine that used the code
    revoked,    \* hub.revoked: keys removed since the panel started
    session,    \* hub.sessions: the connection of each machine
    removing,   \* removals between their mark and the store
    conn,       \* the hub's connection handlers in link mode
    hello,      \* the hub's handler of a host's join or leave
    cmd,        \* the join or leave command running on a host
    key,        \* link.key on the host's disk
    dash,       \* dashboard.json on the host's disk: its machine
    unit,       \* the link's service, as systemd has it on the host
    cut,        \* history: hosts whose join or leave ended with the service down
    link,       \* the link process
    peer,       \* the link process's connection
    faults      \* faults so far

store == <<machine, code, usedBy>>
hub == <<revoked, session, removing>>
files == <<key, dash, unit, cut>>
process == <<link, peer>>
vars == <<machine, code, usedBy, revoked, session, removing, conn, hello, cmd,
          key, dash, unit, cut, link, peer, faults>>

-----------------------------------------------------------------------------

NoHello == [at |-> "none", mode |-> "join", key |-> None, code |-> None,
            answer |-> "none"]
NoCmd == [at |-> "idle", kept |-> FALSE]
NoConn == [at |-> "free", key |-> None, up |-> FALSE]

Refusals == {"join_rate_limited", "join_code_wrong", "join_code_used",
             "join_code_expired", "machine_removed", "machine_already_joined",
             "dashboard_error"}

Hellos == [at : {"none", "sent", "pairing", "removing", "answered"},
           mode : {"join", "leave"}, key : Key \cup {None},
           code : Code \cup {None},
           answer : Refusals \cup {"none", "welcome", "machine_unknown"}]
Cmds == [at : {"idle", "waiting", "enable", "forget", "files"}, kept : BOOLEAN]
Conns == [at : {"free", "hello", "checked", "live", "closed", "refused", "unknown"},
          key : Key \cup {None}, up : BOOLEAN]

TypeOK ==
    /\ machine \in [Key -> {"unknown", "joined", "removed"}]
    /\ code \in [Code -> {"unmade", "waiting", "expired", "used", "gone"}]
    /\ usedBy \in [Code -> Key \cup {None}]
    /\ revoked \in SUBSET Key
    /\ session \in [Key -> Conn \cup {None}]
    /\ removing \in SUBSET (Key \X (Host \cup {None}))
    /\ conn \in [Conn -> Conns]
    /\ hello \in [Host -> Hellos]
    /\ cmd \in [Host -> Cmds]
    /\ key \in [Host -> Key \cup {None}]
    /\ dash \in [Host -> Key \cup {None}]
    /\ unit \in [Host -> {"absent", "written", "enabled", "active"}]
    /\ cut \in SUBSET Host
    /\ link \in [Host -> {"off", "on", "told"}]
    /\ peer \in [Host -> Conn \cup {None}]
    /\ faults \in 0..MaxFaults

Init ==
    /\ machine = [k \in Key |-> "unknown"]
    /\ code = [c \in Code |-> "unmade"]
    /\ usedBy = [c \in Code |-> None]
    /\ revoked = {}
    /\ session = [k \in Key |-> None]
    /\ removing = {}
    /\ conn = [n \in Conn |-> NoConn]
    /\ hello = [h \in Host |-> NoHello]
    /\ cmd = [h \in Host |-> NoCmd]
    /\ key = [h \in Host |-> None]
    /\ dash = [h \in Host |-> None]
    /\ unit = [h \in Host |-> "absent"]
    /\ cut = {}
    /\ link = [h \in Host |-> "off"]
    /\ peer = [h \in Host |-> None]
    /\ faults = 0

\* One more fault.
Fault == faults < MaxFaults /\ faults' = faults + 1

\* joinMu: held by the handler that checked a code and is about to pair.
JoinMuFree == \A h \in Host : hello[h].at # "pairing"

\* The connections of s, closed: the hub's handlers see it, and so do the
\* machines' sides.
Closed(s) == [n \in Conn |->
    IF n \in s /\ conn[n].at = "live"
    THEN [conn[n] EXCEPT !.at = "closed", !.up = FALSE] ELSE conn[n]]

-----------------------------------------------------------------------------
(* Join codes                                                              *)

\* hub.NewJoinCode.  joinMu keeps it out of a join; the codes it drops are
\* modelled by CancelCode.
MakeCode(c) ==
    /\ JoinMuFree
    /\ code[c] = "unmade"
    /\ code' = [code EXCEPT ![c] = "waiting"]
    /\ UNCHANGED <<machine, usedBy, hub, conn, hello, cmd, files, process, faults>>

\* The code's half hour is over (JoinCode.State).
ExpireCode(c) ==
    /\ code[c] = "waiting"
    /\ code' = [code EXCEPT ![c] = "expired"]
    /\ UNCHANGED <<machine, usedBy, hub, conn, hello, cmd, files, process, faults>>

\* hub.CancelJoinCode, which doesn't take joinMu.
CancelCode(c) ==
    /\ code[c] \in {"waiting", "expired", "used"}
    /\ code' = [code EXCEPT ![c] = "gone"]
    /\ usedBy' = [usedBy EXCEPT ![c] = None]
    /\ UNCHANGED <<machine, hub, conn, hello, cmd, files, process, faults>>

-----------------------------------------------------------------------------
(* playkeeper join                                                         *)

\* A key no join ever used.
Fresh(k) ==
    /\ machine[k] = "unknown"
    /\ \A h \in Host : key[h] # k /\ hello[h].key # k

\* install.Join up to the hello: refused on a machine that has a dashboard;
\* joinKey takes the key an earlier attempt left, else makes one.
JoinStart(h, c, k) ==
    /\ cmd[h].at = "idle" /\ hello[h].at = "none"
    /\ code[c] # "unmade"
    /\ dash[h] = None
    /\ IF key[h] # None THEN k = key[h] ELSE Fresh(k)
    /\ key' = [key EXCEPT ![h] = k]
    /\ cmd' = [cmd EXCEPT ![h] = [at |-> "waiting", kept |-> key[h] # None]]
    /\ hello' = [hello EXCEPT ![h] = [NoHello EXCEPT
                    !.at = "sent", !.key = k, !.code = c]]
    /\ UNCHANGED <<store, hub, conn, dash, unit, cut, process, faults>>

\* What pair answers after its reads, "admit" when it goes on to the
\* store's transaction.
Verdict(k, c) ==
    CASE code[c] = "gone" -> "join_code_wrong"
      [] code[c] = "used" ->
            IF usedBy[c] = k /\ machine[k] = "joined"
            THEN "welcome" ELSE "join_code_used"
      [] code[c] = "expired" -> "join_code_expired"
      [] code[c] = "waiting" /\ machine[k] = "removed" -> "machine_removed"
      [] code[c] = "waiting" /\ machine[k] = "joined" -> "machine_already_joined"
      [] OTHER -> "admit"

\* hub.pair up to store.Pair, under joinMu.
PairCheck(h) ==
    LET v == Verdict(hello[h].key, hello[h].code) IN
    /\ hello[h].at = "sent" /\ hello[h].mode = "join"
    /\ JoinMuFree
    /\ hello' = [hello EXCEPT ![h] =
            IF v = "admit" THEN [@ EXCEPT !.at = "pairing"]
                           ELSE [@ EXCEPT !.at = "answered", !.answer = v]]
    /\ UNCHANGED <<store, hub, conn, cmd, files, process, faults>>

\* guard.wait, for a join the limits on wrong codes hold up.
PairLimited(h) ==
    /\ hello[h].at = "sent" /\ hello[h].mode = "join"
    /\ JoinMuFree
    /\ hello' = [hello EXCEPT ![h].at = "answered",
                              ![h].answer = "join_rate_limited"]
    /\ UNCHANGED <<store, hub, conn, cmd, files, process, faults>>

\* Mutant: the code's row isn't looked at again in the transaction.
PairUnchecked(h) ==
    LET k == hello[h].key  c == hello[h].code IN
    /\ hello[h].at = "pairing"
    /\ code' = [code EXCEPT ![c] = "used"]
    /\ usedBy' = [usedBy EXCEPT ![c] = k]
    /\ machine' = [machine EXCEPT ![k] = "joined"]
    /\ hello' = [hello EXCEPT ![h].at = "answered", ![h].answer = "welcome"]
    /\ UNCHANGED <<hub, conn, cmd, files, process, faults>>

\* linkStore.Pair: one transaction marks the code used and adds the
\* machine, unless the code was used or cancelled since it was read.
PairCommit(h) ==
    LET k == hello[h].key  c == hello[h].code IN
    /\ hello[h].at = "pairing"
    /\ \/ /\ code[c] \in {"waiting", "expired"}
          /\ code' = [code EXCEPT ![c] = "used"]
          /\ usedBy' = [usedBy EXCEPT ![c] = k]
          /\ machine' = [machine EXCEPT ![k] = "joined"]
          /\ hello' = [hello EXCEPT ![h].at = "answered", ![h].answer = "welcome"]
       \/ /\ code[c] \notin {"waiting", "expired"}
          /\ hello' = [hello EXCEPT ![h].at = "answered",
                ![h].answer = IF code[c] = "used" THEN "join_code_used"
                                                  ELSE "join_code_wrong"]
          /\ UNCHANGED store
    /\ UNCHANGED <<hub, conn, cmd, files, process, faults>>

\* The transaction fails: errDashboard.
PairFails(h) ==
    /\ Fault
    /\ hello[h].at = "pairing"
    /\ hello' = [hello EXCEPT ![h].at = "answered", ![h].answer = "dashboard_error"]
    /\ UNCHANGED <<store, hub, conn, cmd, files, process>>

\* Mutant: the dashboard's file names the code instead of the machine.
JoinWelcomedCode(h) ==
    /\ cmd[h].at = "waiting" /\ hello[h].mode = "join"
    /\ hello[h].at = "answered" /\ hello[h].answer = "welcome"
    /\ dash' = [dash EXCEPT ![h] = hello[h].code]
    /\ cmd' = [cmd EXCEPT ![h].at = "enable"]
    /\ hello' = [hello EXCEPT ![h] = NoHello]
    /\ UNCHANGED <<store, hub, conn, key, unit, cut, process, faults>>

\* The answer arrives and the machine joined: install.Join saves the
\* dashboard's file, or reports an unfinished join when it can't.
JoinWelcomed(h) ==
    /\ cmd[h].at = "waiting" /\ hello[h].mode = "join"
    /\ hello[h].at = "answered" /\ hello[h].answer = "welcome"
    /\ \/ /\ dash' = [dash EXCEPT ![h] = hello[h].key]
          /\ cmd' = [cmd EXCEPT ![h].at = "enable"]
          /\ UNCHANGED faults
       \/ Fault /\ cmd' = [cmd EXCEPT ![h] = NoCmd] /\ UNCHANGED dash
    /\ hello' = [hello EXCEPT ![h] = NoHello]
    /\ UNCHANGED <<store, hub, conn, key, unit, cut, process>>

\* The join or leave of h ends and leaves its service as u.
EndsWith(h, u) == cut' = IF u = "active" THEN cut \ {h} ELSE cut \cup {h}

\* What the service can be when enableLink doesn't get to its end.
Halfway(u) == IF u \in {"enabled", "active"} THEN {u} ELSE {u, "written", "enabled"}

\* Mutant: the link's unit is installed, and nothing has it started.
WriteLink(h) ==
    /\ cmd[h].at = "enable"
    /\ unit' = [unit EXCEPT ![h] = IF @ = "absent" THEN "written" ELSE @]
    /\ cmd' = [cmd EXCEPT ![h] = NoCmd]
    /\ UNCHANGED <<store, hub, conn, hello, key, dash, cut, process, faults>>

\* enableLink: the link's unit is written, enabled and started.  When a
\* step of that fails (LinkNotStartedError), or the command dies during it,
\* the machine has joined all the same, and a later join is refused.
EnableLink(h) ==
    /\ cmd[h].at = "enable"
    /\ \/ unit' = [unit EXCEPT ![h] = "active"] /\ UNCHANGED faults
       \/ Fault /\ \E u \in Halfway(unit[h]) : unit' = [unit EXCEPT ![h] = u]
    /\ EndsWith(h, unit'[h])
    /\ cmd' = [cmd EXCEPT ![h] = NoCmd]
    /\ UNCHANGED <<store, hub, conn, hello, key, dash, process>>

\* Mutant: a lost answer counts as a refusal.
OnlyAlreadyJoined(answer) == answer = "machine_already_joined"

\* machinelink.MayHaveJoined: the answers after which the dashboard may
\* hold the key.
MayHaveJoined(answer) == answer \in {"join_unanswered", "machine_already_joined"}

\* install.Join after an error: the key stays when an earlier attempt left
\* it or the dashboard may hold it.
KeyAfter(h, answer) ==
    IF cmd[h].kept \/ MayHaveJoined(answer) THEN key
    ELSE [key EXCEPT ![h] = None]

JoinRefused(h) ==
    /\ cmd[h].at = "waiting" /\ hello[h].mode = "join"
    /\ hello[h].at = "answered" /\ hello[h].answer \in Refusals
    /\ key' = KeyAfter(h, hello[h].answer)
    /\ cmd' = [cmd EXCEPT ![h] = NoCmd]
    /\ hello' = [hello EXCEPT ![h] = NoHello]
    /\ UNCHANGED <<store, hub, conn, dash, unit, cut, process, faults>>

\* The answer doesn't arrive in time, whether or not the hub handled the
\* hello or still will: errJoinUnanswered.
JoinUnanswered(h) ==
    /\ IF hello[h].at = "none" THEN UNCHANGED faults ELSE Fault
    /\ cmd[h].at = "waiting" /\ hello[h].mode = "join"
    /\ key' = KeyAfter(h, "join_unanswered")
    /\ cmd' = [cmd EXCEPT ![h] = NoCmd]
    /\ UNCHANGED <<store, hub, conn, hello, dash, unit, cut, process>>

\* The hub is done with a connection nobody reads from any more, or its
\* hello never arrived.
HelloEnds(h) ==
    /\ cmd[h].at # "waiting" /\ hello[h].at \in {"sent", "answered"}
    /\ hello' = [hello EXCEPT ![h] = NoHello]
    /\ UNCHANGED <<store, hub, conn, cmd, files, process, faults>>

-----------------------------------------------------------------------------
(* Removing a machine                                                      *)

\* Mutant: the connection of the removed machine stays open.
MarkOpen(k) ==
    /\ revoked' = revoked \cup {k}
    /\ session' = [session EXCEPT ![k] = None]
    /\ UNCHANGED conn

\* The first half of hub.remove, under mu: the key is revoked in memory and
\* the machine's session taken away, then closed.
Mark(k) ==
    /\ revoked' = revoked \cup {k}
    /\ session' = [session EXCEPT ![k] = None]
    /\ conn' = Closed({session[k]})

\* hub.Remove by the owner, of a machine the dashboard lists.
RemoveStart(k) ==
    /\ machine[k] = "joined"
    /\ <<k, None>> \notin removing
    /\ Mark(k)
    /\ removing' = removing \cup {<<k, None>>}
    /\ UNCHANGED <<store, hello, cmd, files, process, faults>>

\* The second half: store.Revoke, whose failure is answered as an error.
RemoveStore(k, by) ==
    /\ <<k, by>> \in removing
    /\ removing' = removing \ {<<k, by>>}
    /\ \/ machine' = [machine EXCEPT ![k] = "removed"]
       \/ RevokeMayFail /\ UNCHANGED machine
    /\ hello' = IF by = None THEN hello
                ELSE [hello EXCEPT ![by].at = "answered",
                        ![by].answer = IF machine'[k] = "removed" THEN "welcome"
                                       ELSE "dashboard_error"]
    /\ UNCHANGED <<code, usedBy, revoked, session, conn, cmd, files, process, faults>>

-----------------------------------------------------------------------------
(* playkeeper leave                                                        *)

\* install.Leave of a joined machine, up to the hello.
LeaveStart(h) ==
    /\ cmd[h].at = "idle" /\ hello[h].at = "none"
    /\ dash[h] # None /\ key[h] # None
    /\ cmd' = [cmd EXCEPT ![h].at = "waiting"]
    /\ hello' = [hello EXCEPT ![h] = [NoHello EXCEPT
                    !.at = "sent", !.mode = "leave", !.key = key[h]]]
    /\ UNCHANGED <<store, hub, conn, files, process, faults>>

\* hub.leave: a removed machine is told it left, an unknown one refused.
HubLeave(h) ==
    LET k == hello[h].key IN
    /\ hello[h].at = "sent" /\ hello[h].mode = "leave"
    /\ IF machine[k] = "joined"
       THEN /\ Mark(k)
            /\ removing' = removing \cup {<<k, h>>}
            /\ hello' = [hello EXCEPT ![h].at = "removing"]
       ELSE /\ hello' = [hello EXCEPT ![h].at = "answered",
                    ![h].answer = IF machine[k] = "removed" THEN "welcome"
                                  ELSE "machine_unknown"]
            /\ UNCHANGED <<hub, conn>>
    /\ UNCHANGED <<store, cmd, files, process, faults>>

\* The dashboard no longer knows the machine, or --force was given: the
\* machine forgets it.
LeaveAnswered(h) ==
    /\ cmd[h].at = "waiting" /\ hello[h].mode = "leave"
    /\ hello[h].at = "answered"
    /\ cmd' = [cmd EXCEPT ![h].at =
            IF hello[h].answer \in {"welcome", "machine_unknown"}
            THEN "forget" ELSE "idle"]
    /\ hello' = [hello EXCEPT ![h] = NoHello]
    /\ UNCHANGED <<store, hub, conn, files, process, faults>>

\* The dashboard can't be told: nothing changes, or the machine forgets it
\* anyway.
LeaveUntold(h) ==
    /\ IF hello[h].at = "none" THEN UNCHANGED faults ELSE Fault
    /\ cmd[h].at = "waiting" /\ hello[h].mode = "leave"
    /\ \E at \in {"idle", "forget"} : cmd' = [cmd EXCEPT ![h].at = at]
    /\ UNCHANGED <<store, hub, conn, hello, files, process>>

\* install.Leave on a machine without a dashboard forgets a leftover key.
LeaveNotJoined(h) ==
    /\ cmd[h].at = "idle"
    /\ dash[h] = None /\ key[h] # None
    /\ cmd' = [cmd EXCEPT ![h].at = "forget"]
    /\ UNCHANGED <<store, hub, conn, hello, files, process, faults>>

\* The machine's side of the connection of h is gone.
Unplugged(h) == [n \in Conn |->
    IF n = peer[h] THEN [conn[n] EXCEPT !.up = FALSE] ELSE conn[n]]

\* ForgetDashboard deletes the dashboard's file and right after it the key;
\* only the end of its process comes between the two.
ForgetFiles(h) ==
    /\ dash' = [dash EXCEPT ![h] = None]
    /\ \/ key' = [key EXCEPT ![h] = None] /\ UNCHANGED faults
       \/ Fault /\ UNCHANGED key

\* disableLink: the link is stopped and its unit removed.
DisableLink(h) ==
    /\ cmd[h].at = "forget"
    /\ link' = [link EXCEPT ![h] = "off"]
    /\ peer' = [peer EXCEPT ![h] = None]
    /\ conn' = Unplugged(h)
    /\ unit' = [unit EXCEPT ![h] = "absent"]
    /\ cmd' = [cmd EXCEPT ![h].at = "files"]
    /\ UNCHANGED <<store, hub, hello, key, dash, cut, faults>>

\* install.forget, after it: the files are deleted.
Forget(h) ==
    /\ cmd[h].at = "files"
    /\ ForgetFiles(h)
    /\ cmd' = [cmd EXCEPT ![h] = NoCmd]
    /\ UNCHANGED <<store, hub, conn, hello, unit, cut, process>>

\* The command dies at any point: what is on disk stays, and a service it
\* was to start or had stopped stays down.
CmdDies(h) ==
    /\ Fault
    /\ cmd[h].at # "idle"
    /\ IF cmd[h].at \in {"enable", "files"} THEN EndsWith(h, unit[h]) ELSE UNCHANGED cut
    /\ cmd' = [cmd EXCEPT ![h] = NoCmd]
    /\ UNCHANGED <<store, hub, conn, hello, key, dash, unit, process>>

-----------------------------------------------------------------------------
(* The link                                                                *)

\* serveLink: systemd starts a service that is up whenever it isn't running
\* (Restart=always), while the dashboard's file exists.
LinkStart(h) ==
    /\ link[h] = "off" /\ unit[h] = "active"
    /\ dash[h] # None /\ key[h] # None
    /\ link' = [link EXCEPT ![h] = "on"]
    /\ UNCHANGED <<store, hub, conn, hello, cmd, files, peer, faults>>

\* Without the dashboard's file systemd doesn't start the service again
\* (ConditionPathExists): it is up only after the next boot.
LinkSkipped(h) ==
    /\ link[h] = "off" /\ unit[h] = "active" /\ dash[h] = None
    /\ unit' = [unit EXCEPT ![h] = "enabled"]
    /\ UNCHANGED <<store, hub, conn, hello, cmd, key, dash, cut, process, faults>>

\* The owner runs the command the join's error names, systemctl enable
\* --now, or the computer boots with the service enabled.
LinkStarted(h) ==
    /\ unit[h] \in {"written", "enabled"} /\ dash[h] # None
    /\ unit' = [unit EXCEPT ![h] = "active"]
    /\ cut' = cut \ {h}
    /\ UNCHANGED <<store, hub, conn, hello, cmd, key, dash, process, faults>>

\* Link.Run dials, after its backoff, when it has no connection.
LinkDial(h, n) ==
    /\ link[h] = "on" /\ peer[h] = None /\ key[h] # None
    /\ conn[n].at = "free" /\ \A g \in Host : peer[g] # n
    /\ conn' = [conn EXCEPT ![n] = [at |-> "hello", key |-> key[h], up |-> TRUE]]
    /\ peer' = [peer EXCEPT ![h] = n]
    /\ UNCHANGED <<store, hub, hello, cmd, files, link, faults>>

\* hub.link up to the welcome: the store's answer, and revoked in memory.
HubLink(n) ==
    LET k == conn[n].key IN
    /\ conn[n].at = "hello"
    /\ conn' = [conn EXCEPT ![n].at =
            IF machine[k] = "unknown" THEN "unknown"
            ELSE IF machine[k] = "removed" \/ k \in revoked THEN "refused"
            ELSE "checked"]
    /\ UNCHANGED <<store, hub, hello, cmd, files, process, faults>>

\* Mutant: a removal since the check isn't looked for.
RegisterRemoved(n) ==
    LET k == conn[n].key IN
    /\ conn[n].at = "checked"
    /\ session' = [session EXCEPT ![k] = n]
    /\ conn' = [Closed({session[k]}) EXCEPT ![n].at = "live"]
    /\ UNCHANGED <<store, revoked, removing, hello, cmd, files, process, faults>>

\* hub.register: the session becomes the machine's, unless the machine was
\* removed since the check, and the one it replaces is closed.
HubRegister(n) ==
    LET k == conn[n].key IN
    /\ conn[n].at = "checked"
    /\ IF k \in revoked
       THEN /\ conn' = [conn EXCEPT ![n].at = "closed", ![n].up = FALSE]
            /\ UNCHANGED session
       ELSE /\ session' = [session EXCEPT ![k] = n]
            /\ conn' = [Closed({session[k]}) EXCEPT ![n].at = "live"]
    /\ UNCHANGED <<store, revoked, removing, hello, cmd, files, process, faults>>

\* The heartbeat or the connection's reader finds that it is gone.
HubNotices(n) ==
    /\ ~conn[n].up
    /\ conn[n].at \in {"hello", "checked", "live", "refused", "unknown"}
    /\ conn' = [conn EXCEPT ![n].at = "closed"]
    /\ UNCHANGED <<store, hub, hello, cmd, files, process, faults>>

\* Mutant: whatever session the machine has goes.
UnregisterAny(n) ==
    /\ conn[n].at = "closed"
    /\ session' = [session EXCEPT ![conn[n].key] = None]
    /\ conn' = [conn EXCEPT ![n] = NoConn]
    /\ UNCHANGED <<store, revoked, removing, hello, cmd, files, process, faults>>

\* hub.unregister at the end of hub.link: the session leaves the map only
\* when it still is the machine's.
HubUnregister(n) ==
    LET k == conn[n].key IN
    /\ conn[n].at = "closed"
    /\ session' = IF session[k] = n THEN [session EXCEPT ![k] = None] ELSE session
    /\ conn' = [conn EXCEPT ![n] = NoConn]
    /\ UNCHANGED <<store, revoked, removing, hello, cmd, files, process, faults>>

\* Link.serve sees the connection drop.
LinkNotices(h) ==
    /\ peer[h] # None /\ ~conn[peer[h]].up
    /\ peer' = [peer EXCEPT ![h] = None]
    /\ UNCHANGED <<store, hub, conn, hello, cmd, files, link, faults>>

\* A refusal arrives: machine_removed ends the link for good, any other is
\* tried again later.
LinkRefused(h) ==
    /\ peer[h] # None /\ conn[peer[h]].up
    /\ conn[peer[h]].at \in {"refused", "unknown"}
    /\ link' = IF conn[peer[h]].at = "refused"
               THEN [link EXCEPT ![h] = "told"] ELSE link
    /\ peer' = [peer EXCEPT ![h] = None]
    /\ conn' = [conn EXCEPT ![peer[h]] = NoConn]
    /\ UNCHANGED <<store, hub, hello, cmd, files, faults>>

\* serveLink calls ForgetDashboard and ends.
LinkForgets(h) ==
    /\ link[h] = "told"
    /\ ForgetFiles(h)
    /\ link' = [link EXCEPT ![h] = "off"]
    /\ UNCHANGED <<store, hub, conn, hello, cmd, unit, cut, peer>>

-----------------------------------------------------------------------------
(* Faults                                                                  *)

\* The network drops a connection.
Break(n) ==
    /\ Fault
    /\ conn[n].up
    /\ conn' = [conn EXCEPT ![n].up = FALSE]
    /\ UNCHANGED <<store, hub, hello, cmd, files, process>>

\* The link process dies, with the connection it had.
LinkDies(h) ==
    /\ Fault
    /\ link[h] # "off"
    /\ link' = [link EXCEPT ![h] = "off"]
    /\ peer' = [peer EXCEPT ![h] = None]
    /\ conn' = Unplugged(h)
    /\ UNCHANGED <<store, hub, hello, cmd, files>>

\* The panel stops and NewHub starts over from the store: nothing is
\* revoked in memory, no machine is connected, and what was under way is
\* lost.
PanelRestarts ==
    /\ Fault
    /\ revoked' = {}
    /\ session' = [k \in Key |-> None]
    /\ removing' = {}
    /\ conn' = [n \in Conn |-> NoConn]
    /\ hello' = [h \in Host |-> IF hello[h].at = "none" THEN hello[h]
                    ELSE [NoHello EXCEPT !.mode = hello[h].mode]]
    /\ UNCHANGED <<store, cmd, files, process>>

-----------------------------------------------------------------------------

CodeSteps == \E c \in Code : MakeCode(c) \/ ExpireCode(c) \/ CancelCode(c)

JoinSteps(h) ==
    \/ \E c \in Code, k \in Key : JoinStart(h, c, k)
    \/ PairCheck(h) \/ PairLimited(h) \/ PairCommit(h) \/ PairFails(h)
    \/ JoinWelcomed(h) \/ EnableLink(h) \/ JoinRefused(h) \/ JoinUnanswered(h) \/ HelloEnds(h)

LeaveSteps(h) ==
    \/ LeaveStart(h) \/ HubLeave(h) \/ LeaveAnswered(h) \/ LeaveUntold(h)
    \/ LeaveNotJoined(h) \/ DisableLink(h) \/ Forget(h) \/ CmdDies(h)

LinkSteps(h) ==
    \/ LinkStart(h) \/ LinkSkipped(h) \/ LinkStarted(h) \/ LinkNotices(h) \/ LinkRefused(h)
    \/ LinkForgets(h) \/ LinkDies(h)
    \/ \E n \in Conn : LinkDial(h, n)

HubSteps(n) ==
    HubLink(n) \/ HubRegister(n) \/ HubNotices(n) \/ HubUnregister(n) \/ Break(n)

RemoveSteps ==
    \/ \E k \in Key : RemoveStart(k)
    \/ \E k \in Key, by \in Host \cup {None} : RemoveStore(k, by)

Next ==
    \/ CodeSteps \/ RemoveSteps \/ PanelRestarts
    \/ \E h \in Host : JoinSteps(h) \/ LeaveSteps(h) \/ LinkSteps(h)
    \/ \E n \in Conn : HubSteps(n)

Spec == Init /\ [][Next]_vars

\* Handlers and processes that can go on do; people and faults need not.
Fairness ==
    /\ \A h \in Host :
        /\ WF_vars(PairCheck(h)) /\ WF_vars(PairCommit(h))
        /\ WF_vars(JoinWelcomed(h)) /\ WF_vars(EnableLink(h))
        /\ WF_vars(JoinRefused(h))
        /\ WF_vars(HubLeave(h)) /\ WF_vars(LeaveAnswered(h))
        /\ WF_vars(DisableLink(h)) /\ WF_vars(Forget(h)) /\ WF_vars(LinkStart(h))
        /\ WF_vars(\E n \in Conn : LinkDial(h, n))
        /\ WF_vars(LinkNotices(h)) /\ WF_vars(LinkRefused(h))
        /\ WF_vars(LinkForgets(h))
    /\ \A n \in Conn :
        /\ WF_vars(HubLink(n)) /\ WF_vars(HubRegister(n))
        /\ WF_vars(HubNotices(n)) /\ WF_vars(HubUnregister(n))
    /\ \A k \in Key, by \in Host \cup {None} : WF_vars(RemoveStore(k, by))

FairSpec == Spec /\ Fairness
-----------------------------------------------------------------------------
(* What the dashboard and its machines rely on                             *)

\* A machine that was removed has no session, however its connections and
\* the removal interleave: hub.go says a removed machine's "key stops
\* working at once".
RemovedIsOut ==
    \A k \in Key : k \in revoked \/ machine[k] = "removed" => session[k] = None

\* Every connection the hub keeps up is the one it has listed for its
\* machine: a replaced or late handler never takes the newer session out of
\* the map, which would leave the machine connected to a hub that calls it
\* offline.
NoOrphanSession ==
    \A n \in Conn : conn[n].at = "live" => session[conn[n].key] = n

\* Both at once: the open sessions are the listed ones, and none of them is
\* a removed machine's.
OnlyListedSessions == RemovedIsOut /\ NoOrphanSession

\* Crashes and concurrent forgetting included, a computer that has the
\* dashboard's file has the key the dashboard knows it by.
JoinedHasItsKey ==
    \A h \in Host : dash[h] # None =>
        key[h] = dash[h] /\ machine[dash[h]] # "unknown"

\* A join that throws its key away was not accepted, and its hello can no
\* longer be (MayHaveJoined): otherwise the dashboard lists a machine no
\* computer can be.
DropsUnheld ==
    \A h \in Host :
        /\ cmd[h].at = "waiting" /\ cmd'[h].at = "idle"
        /\ key[h] # None /\ key'[h] = None
        => machine'[key[h]] # "joined" /\ hello'[h].at = "none"
KeyDroppedUnheld == [][DropsUnheld]_vars

\* The key the dashboard knows a computer by is never lost, by a join that
\* gives up, a crash or forgetting.
KeysKept == []JoinedHasItsKey /\ KeyDroppedUnheld

\* A machine joins only by taking a code that is still there, which then
\* names it; a code cancelled or used while the join was being checked
\* admits nobody.
JoinsByCode ==
    \A k \in Key : machine[k] = "unknown" /\ machine'[k] = "joined" =>
        \E c \in Code : /\ code[c] \in {"waiting", "expired"}
                         /\ code'[c] = "used" /\ usedBy'[c] = k
AdmittedByItsCode == [][JoinsByCode]_vars

\* The hub has a session for the computer, on the connection it is using.
Linked(h) == peer[h] # None /\ session[key[h]] = peer[h]

\* However often connections break and processes die, a computer that
\* belongs to a dashboard ends up linked, unless it forgets the dashboard or
\* its join or leave ended, failed or dead, with the link's service down and
\* nothing has started that since.
LinkedInTheEnd ==
    \A h \in Host : []<>(dash[h] = None \/ h \in cut \/ (key[h] # None /\ Linked(h)))

\* "It returns ... a machine_removed *Error when the dashboard removed this
\* machine: then the machine should forget the dashboard" (link.go, Run):
\* a link told that its machine was removed only forgets a dashboard whose
\* store has it removed, or is about to.
ForgottenOnlyIfRemoved ==
    [][\A h \in Host : link[h] = "told" /\ dash[h] # None /\ dash'[h] = None
        => \/ machine[dash[h]] = "removed"
           \/ \E by \in Host \cup {None} : <<dash[h], by>> \in removing]_vars
=============================================================================
