--------------------------- MODULE MachineLinkProofs ---------------------------
(***************************************************************************)
(* Proofs about MachineLink, for any computers, keys, codes and            *)
(* connections and any number of faults.                                   *)
(***************************************************************************)
EXTENDS MachineLink, TLAPS

(* The variables' types, in three parts. *)
StoreTypes ==
    /\ machine \in [Key -> {"unknown", "joined", "removed"}]
    /\ code \in [Code -> {"unmade", "waiting", "expired", "used", "gone"}]
    /\ usedBy \in [Code -> Key \cup {None}]
    /\ revoked \in SUBSET Key
    /\ removing \in SUBSET (Key \X (Host \cup {None}))
    /\ faults \in 0..MaxFaults

HostTypes ==
    /\ hello \in [Host -> Hellos]
    /\ cmd \in [Host -> Cmds]
    /\ key \in [Host -> Key \cup {None}]
    /\ dash \in [Host -> Key \cup {None}]
    /\ unit \in [Host -> {"absent", "written", "enabled", "active"}]
    /\ cut \in SUBSET Host
    /\ link \in [Host -> {"off", "on", "told"}]

ConnTypes ==
    /\ session \in [Key -> Conn \cup {None}]
    /\ conn \in [Conn -> Conns]
    /\ peer \in [Host -> Conn \cup {None}]

(* A join or leave the hub handles names a key, a join a code; and a leave *)
(* whose removal is under way waits for it.                                *)
HelloNames ==
    /\ \A h \in Host : hello[h].at # "none" =>
        /\ hello[h].key \in Key
        /\ hello[h].mode = "join" \/ hello[h].at = "pairing" => hello[h].code \in Code
    /\ \A k \in Key, h \in Host : <<k, h>> \in removing /\ h # None =>
        /\ hello[h].at = "removing" /\ hello[h].mode = "leave"
        /\ hello[h].key = k

Types == StoreTypes /\ HostTypes /\ ConnTypes /\ HelloNames

-----------------------------------------------------------------------------
(* Types *)

(* What the hub's answer to a join or leave does to its handler. *)
Answers == Refusals \cup {"none", "welcome", "machine_unknown"}

LEMMA HelloAt ==
    ASSUME NEW f \in [Host -> Hellos], NEW h \in Host,
           NEW at \in {"none", "sent", "pairing", "removing", "answered"}
    PROVE  /\ [f EXCEPT ![h].at = at] \in [Host -> Hellos]
           /\ [f EXCEPT ![h].at = at][h] = [f[h] EXCEPT !.at = at]
           /\ \A g \in Host \ {h} : [f EXCEPT ![h].at = at][g] = f[g]
BY DEF Hellos

LEMMA HelloAnswer ==
    ASSUME NEW f \in [Host -> Hellos], NEW h \in Host, NEW answer \in Answers
    PROVE  /\ [f EXCEPT ![h].answer = answer] \in [Host -> Hellos]
           /\ [f EXCEPT ![h].answer = answer][h] = [f[h] EXCEPT !.answer = answer]
           /\ \A g \in Host \ {h} : [f EXCEPT ![h].answer = answer][g] = f[g]
BY DEF Hellos, Answers

LEMMA HelloAnswered ==
    ASSUME NEW f \in [Host -> Hellos], NEW h \in Host, NEW answer \in Answers
    PROVE  /\ [f EXCEPT ![h].at = "answered", ![h].answer = answer] \in [Host -> Hellos]
           /\ [f EXCEPT ![h].at = "answered", ![h].answer = answer][h]
                = [f[h] EXCEPT !.at = "answered", !.answer = answer]
           /\ \A g \in Host \ {h} :
                [f EXCEPT ![h].at = "answered", ![h].answer = answer][g] = f[g]
<1> DEFINE F == [f EXCEPT ![h].at = "answered"]
<1>1. F \in [Host -> Hellos] /\ F[h] = [f[h] EXCEPT !.at = "answered"]
      /\ \A g \in Host \ {h} : F[g] = f[g]
  BY HelloAt
<1>2. [f EXCEPT ![h].at = "answered", ![h].answer = answer]
        = [F EXCEPT ![h].answer = answer]
  OBVIOUS
<1> HIDE DEF F
<1>3. /\ [F EXCEPT ![h].answer = answer] \in [Host -> Hellos]
      /\ [F EXCEPT ![h].answer = answer][h] = [F[h] EXCEPT !.answer = answer]
      /\ \A g \in Host \ {h} : [F EXCEPT ![h].answer = answer][g] = F[g]
  BY <1>1, HelloAnswer
<1>4. [F[h] EXCEPT !.answer = answer] = [f[h] EXCEPT !.at = "answered", !.answer = answer]
  BY <1>1
<1> QED BY <1>1, <1>2, <1>3, <1>4

(* The answer leaves who asked and what for. *)
LEMMA AnsweredIs ==
    ASSUME HostTypes, NEW h \in Host, NEW answer \in Answers,
           hello' = [hello EXCEPT ![h].at = "answered", ![h].answer = answer]
    PROVE  /\ hello' \in [Host -> Hellos]
           /\ hello'[h].at = "answered" /\ hello'[h].answer = answer
           /\ hello'[h].key = hello[h].key /\ hello'[h].mode = hello[h].mode
           /\ hello'[h].code = hello[h].code
           /\ \A g \in Host \ {h} : hello'[g] = hello[g]
<1>1. hello \in [Host -> Hellos] /\ hello[h] \in Hellos
  BY DEF HostTypes
<1>2. /\ hello' \in [Host -> Hellos]
      /\ hello'[h] = [hello[h] EXCEPT !.at = "answered", !.answer = answer]
      /\ \A g \in Host \ {h} : hello'[g] = hello[g]
  BY <1>1, HelloAnswered
<1> QED BY <1>1, <1>2 DEF Hellos

(* What a join is told before its transaction, or that it may have one.    *)
LEMMA PairCheckAnswers ==
    ASSUME HostTypes, NEW h \in Host, PairCheck(h)
    PROVE  /\ hello' \in [Host -> Hellos]
           /\ hello[h].at = "sent" /\ hello[h].mode = "join"
           /\ hello'[h].key = hello[h].key /\ hello'[h].mode = "join"
           /\ hello'[h].code = hello[h].code
           /\ \/ hello'[h].at = "pairing"
              \/ /\ hello'[h].at = "answered"
                 /\ hello'[h].answer = "welcome" => machine[hello[h].key] = "joined"
           /\ \A g \in Host \ {h} : hello'[g] = hello[g]
<1> DEFINE v == Verdict(hello[h].key, hello[h].code)
<1>1. /\ v \in Answers \cup {"admit"}
      /\ v = "welcome" => machine[hello[h].key] = "joined"
  BY DEF Verdict, Answers, Refusals
<1>2. /\ hello[h].at = "sent" /\ hello[h].mode = "join"
      /\ hello' = [hello EXCEPT ![h] =
              IF v = "admit" THEN [hello[h] EXCEPT !.at = "pairing"]
              ELSE [hello[h] EXCEPT !.at = "answered", !.answer = v]]
  BY DEF PairCheck
<1> HIDE DEF v
<1>3. hello \in [Host -> Hellos] /\ hello[h] \in Hellos
  BY DEF HostTypes
<1>4. CASE v = "admit"
  <2> DEFINE a == [hello[h] EXCEPT !.at = "pairing"]
  <2>1. /\ a \in Hellos /\ a.at = "pairing" /\ a.key = hello[h].key
        /\ a.mode = hello[h].mode /\ a.code = hello[h].code
    BY <1>3 DEF Hellos
  <2>2. hello' = [hello EXCEPT ![h] = a]
    BY <1>2, <1>4
  <2> HIDE DEF a
  <2> QED BY <1>2, <1>3, <2>1, <2>2
<1>5. CASE v # "admit"
  <2> DEFINE a == [hello[h] EXCEPT !.at = "answered", !.answer = v]
  <2>1. /\ a \in Hellos /\ a.at = "answered" /\ a.answer = v /\ a.key = hello[h].key
        /\ a.mode = hello[h].mode /\ a.code = hello[h].code
    BY <1>1, <1>3, <1>5 DEF Hellos, Answers
  <2>2. hello' = [hello EXCEPT ![h] = a]
    BY <1>2, <1>5
  <2> HIDE DEF a
  <2> QED BY <1>1, <1>2, <1>3, <2>1, <2>2
<1> QED BY <1>4, <1>5

(* The end of a join's transaction. *)
LEMMA PairCommitAnswers ==
    ASSUME HostTypes, NEW h \in Host, PairCommit(h)
    PROVE  \E answer \in Answers :
             /\ hello' = [hello EXCEPT ![h].at = "answered", ![h].answer = answer]
             /\ \/ /\ answer = "welcome" /\ code[hello[h].code] \in {"waiting", "expired"}
                   /\ machine' = [machine EXCEPT ![hello[h].key] = "joined"]
                \/ answer \in {"join_code_used", "join_code_wrong"} /\ UNCHANGED store
<1>1. {"welcome", "join_code_used", "join_code_wrong"} \subseteq Answers
  BY DEF Answers, Refusals
<1>2. CASE code[hello[h].code] \in {"waiting", "expired"}
  BY <1>1, <1>2 DEF PairCommit
<1>3. CASE code[hello[h].code] \notin {"waiting", "expired"}
  BY <1>1, <1>3 DEF PairCommit
<1> QED BY <1>2, <1>3

(* Every action keeps what the dashboard stores in its type. *)
LEMMA StoreTypesKept == Types /\ [Next]_vars => StoreTypes'
<1> SUFFICES ASSUME Types, [Next]_vars PROVE StoreTypes'
  OBVIOUS
<1>0. StoreTypes /\ HostTypes /\ ConnTypes /\ HelloNames
  BY DEF Types
<1>f. MaxFaults \in Nat
  BY FaultsAssumption
<1> USE DEF StoreTypes, store, hub, files, process, Fault
<1>1. ASSUME NEW c \in Code, MakeCode(c) PROVE StoreTypes'
  BY <1>0, <1>f, <1>1 DEF MakeCode
<1>2. ASSUME NEW c \in Code, ExpireCode(c) PROVE StoreTypes'
  BY <1>0, <1>f, <1>2 DEF ExpireCode
<1>3. ASSUME NEW c \in Code, CancelCode(c) PROVE StoreTypes'
  BY <1>0, <1>f, <1>3 DEF CancelCode
<1>4. ASSUME NEW k \in Key, RemoveStart(k) PROVE StoreTypes'
  BY <1>0, <1>f, <1>4 DEF RemoveStart, Mark
<1>5. ASSUME NEW k \in Key, NEW by \in Host \cup {None}, RemoveStore(k, by) PROVE StoreTypes'
  BY <1>0, <1>f, <1>5 DEF RemoveStore
<1>6. CASE PanelRestarts
  BY <1>0, <1>f, <1>6 DEF PanelRestarts
<1>7. ASSUME NEW h \in Host, NEW c \in Code, NEW k \in Key, JoinStart(h, c, k) PROVE StoreTypes'
  BY <1>0, <1>f, <1>7 DEF JoinStart
<1>8. ASSUME NEW h \in Host, PairCheck(h) PROVE StoreTypes'
  BY <1>0, <1>f, <1>8 DEF PairCheck
<1>9. ASSUME NEW h \in Host, PairLimited(h) PROVE StoreTypes'
  BY <1>0, <1>f, <1>9 DEF PairLimited
<1>10. ASSUME NEW h \in Host, PairCommit(h) PROVE StoreTypes'
  BY <1>0, <1>f, <1>10 DEF PairCommit, HelloNames
<1>11. ASSUME NEW h \in Host, PairFails(h) PROVE StoreTypes'
  BY <1>0, <1>f, <1>11 DEF PairFails
<1>12. ASSUME NEW h \in Host, JoinWelcomed(h) PROVE StoreTypes'
  BY <1>0, <1>f, <1>12 DEF JoinWelcomed
<1>13. ASSUME NEW h \in Host, JoinRefused(h) PROVE StoreTypes'
  BY <1>0, <1>f, <1>13 DEF JoinRefused
<1>14. ASSUME NEW h \in Host, JoinUnanswered(h) PROVE StoreTypes'
  BY <1>0, <1>f, <1>14 DEF JoinUnanswered
<1>15. ASSUME NEW h \in Host, HelloEnds(h) PROVE StoreTypes'
  BY <1>0, <1>f, <1>15 DEF HelloEnds
<1>16. ASSUME NEW h \in Host, LeaveStart(h) PROVE StoreTypes'
  BY <1>0, <1>f, <1>16 DEF LeaveStart
<1>17. ASSUME NEW h \in Host, HubLeave(h) PROVE StoreTypes'
  BY <1>0, <1>f, <1>17 DEF HubLeave, Mark, HelloNames
<1>18. ASSUME NEW h \in Host, LeaveAnswered(h) PROVE StoreTypes'
  BY <1>0, <1>f, <1>18 DEF LeaveAnswered
<1>19. ASSUME NEW h \in Host, LeaveUntold(h) PROVE StoreTypes'
  BY <1>0, <1>f, <1>19 DEF LeaveUntold
<1>20. ASSUME NEW h \in Host, LeaveNotJoined(h) PROVE StoreTypes'
  BY <1>0, <1>f, <1>20 DEF LeaveNotJoined
<1>21. ASSUME NEW h \in Host, Forget(h) PROVE StoreTypes'
  BY <1>0, <1>f, <1>21 DEF Forget, ForgetFiles
<1>22. ASSUME NEW h \in Host, CmdDies(h) PROVE StoreTypes'
  BY <1>0, <1>f, <1>22 DEF CmdDies
<1>23. ASSUME NEW h \in Host, LinkStart(h) PROVE StoreTypes'
  BY <1>0, <1>f, <1>23 DEF LinkStart
<1>24. ASSUME NEW h \in Host, LinkNotices(h) PROVE StoreTypes'
  BY <1>0, <1>f, <1>24 DEF LinkNotices
<1>25. ASSUME NEW h \in Host, LinkRefused(h) PROVE StoreTypes'
  BY <1>0, <1>f, <1>25 DEF LinkRefused
<1>26. ASSUME NEW h \in Host, LinkForgets(h) PROVE StoreTypes'
  BY <1>0, <1>f, <1>26 DEF LinkForgets, ForgetFiles
<1>27. ASSUME NEW h \in Host, LinkDies(h) PROVE StoreTypes'
  BY <1>0, <1>f, <1>27 DEF LinkDies
<1>28. ASSUME NEW h \in Host, NEW n \in Conn, LinkDial(h, n) PROVE StoreTypes'
  BY <1>0, <1>f, <1>28 DEF LinkDial
<1>29. ASSUME NEW n \in Conn, HubLink(n) PROVE StoreTypes'
  BY <1>0, <1>f, <1>29 DEF HubLink
<1>30. ASSUME NEW n \in Conn, HubRegister(n) PROVE StoreTypes'
  BY <1>0, <1>f, <1>30 DEF HubRegister
<1>31. ASSUME NEW n \in Conn, HubNotices(n) PROVE StoreTypes'
  BY <1>0, <1>f, <1>31 DEF HubNotices
<1>32. ASSUME NEW n \in Conn, HubUnregister(n) PROVE StoreTypes'
  BY <1>0, <1>f, <1>32 DEF HubUnregister
<1>33. ASSUME NEW n \in Conn, Break(n) PROVE StoreTypes'
  BY <1>0, <1>f, <1>33 DEF Break
<1>35. ASSUME NEW h \in Host, DisableLink(h) PROVE StoreTypes'
  BY <1>0, <1>f, <1>35 DEF DisableLink
<1>36. ASSUME NEW h \in Host, EnableLink(h) PROVE StoreTypes'
  BY <1>0, <1>f, <1>36 DEF EnableLink
<1>37. ASSUME NEW h \in Host, LinkSkipped(h) PROVE StoreTypes'
  BY <1>0, <1>f, <1>37 DEF LinkSkipped
<1>38. ASSUME NEW h \in Host, LinkStarted(h) PROVE StoreTypes'
  BY <1>0, <1>f, <1>38 DEF LinkStarted
<1>34. CASE UNCHANGED vars
  BY <1>0, <1>f, <1>34 DEF vars, store, hub, files, process
<1> HIDE DEF StoreTypes, store, hub, files, process, Fault
<1> QED BY <1>1, <1>2, <1>3, <1>4, <1>5, <1>6, <1>7, <1>8, <1>9, <1>10,
           <1>11, <1>12, <1>13, <1>14, <1>15, <1>16, <1>17, <1>18, <1>19,
           <1>20, <1>21, <1>22, <1>23, <1>24, <1>25, <1>26, <1>27, <1>28,
           <1>29, <1>30, <1>31, <1>32, <1>33, <1>34, <1>35, <1>36, <1>37, <1>38
     DEF Next, CodeSteps, RemoveSteps, JoinSteps, LeaveSteps, LinkSteps,
         HubSteps

(* Every action keeps the state of the computers in its type. *)
LEMMA HostTypesKept == Types /\ [Next]_vars => HostTypes'
<1> SUFFICES ASSUME Types, [Next]_vars PROVE HostTypes'
  OBVIOUS
<1>0. StoreTypes /\ HostTypes /\ ConnTypes /\ HelloNames
  BY DEF Types
<1> USE DEF HostTypes, store, hub, files, process
<1>1. ASSUME NEW c \in Code, MakeCode(c) PROVE HostTypes'
  BY <1>0, <1>1 DEF MakeCode
<1>2. ASSUME NEW c \in Code, ExpireCode(c) PROVE HostTypes'
  BY <1>0, <1>2 DEF ExpireCode
<1>3. ASSUME NEW c \in Code, CancelCode(c) PROVE HostTypes'
  BY <1>0, <1>3 DEF CancelCode
<1>4. ASSUME NEW k \in Key, RemoveStart(k) PROVE HostTypes'
  BY <1>0, <1>4 DEF RemoveStart
<1>5. ASSUME NEW k \in Key, NEW by \in Host \cup {None}, RemoveStore(k, by) PROVE HostTypes'
  <2>1. \A answer \in Answers, g \in Host :
          [hello EXCEPT ![g].at = "answered", ![g].answer = answer] \in [Host -> Hellos]
    BY <1>0, HelloAnswered
  <2>2. hello' \in [Host -> Hellos]
    BY <1>0, <2>1, <1>5 DEF RemoveStore, Answers, Refusals
  <2> QED BY <1>0, <2>2, <1>5 DEF RemoveStore
<1>6. CASE PanelRestarts
  BY <1>0, <1>6 DEF PanelRestarts, NoHello, Hellos
<1>7. ASSUME NEW h \in Host, NEW c \in Code, NEW k \in Key, JoinStart(h, c, k) PROVE HostTypes'
  BY <1>0, <1>7 DEF JoinStart, NoHello, Hellos, Cmds
<1>8. ASSUME NEW h \in Host, PairCheck(h) PROVE HostTypes'
  <2>1. hello' \in [Host -> Hellos]
    BY <1>0, <1>8, PairCheckAnswers
  <2> QED BY <1>0, <2>1, <1>8 DEF PairCheck
<1>9. ASSUME NEW h \in Host, PairLimited(h) PROVE HostTypes'
  <2>1. hello' \in [Host -> Hellos]
    BY <1>0, HelloAnswered, <1>9 DEF PairLimited, Answers, Refusals
  <2> QED BY <1>0, <2>1, <1>9 DEF PairLimited
<1>10. ASSUME NEW h \in Host, PairCommit(h) PROVE HostTypes'
  <2>1. hello' \in [Host -> Hellos]
    BY <1>0, <1>10, PairCommitAnswers, AnsweredIs
  <2> QED BY <1>0, <2>1, <1>10 DEF PairCommit
<1>11. ASSUME NEW h \in Host, PairFails(h) PROVE HostTypes'
  <2>1. hello' \in [Host -> Hellos]
    BY <1>0, HelloAnswered, <1>11 DEF PairFails, Answers, Refusals
  <2> QED BY <1>0, <2>1, <1>11 DEF PairFails
<1>12. ASSUME NEW h \in Host, JoinWelcomed(h) PROVE HostTypes'
  <2>1. hello[h] \in Hellos /\ hello[h].key \in Key \cup {None}
    BY <1>0 DEF Hellos
  <2>2. hello' \in [Host -> Hellos]
    BY <1>0, <1>12 DEF JoinWelcomed, NoHello, Hellos
  <2>4. cmd' = [cmd EXCEPT ![h].at = "enable"] \/ cmd' = [cmd EXCEPT ![h] = NoCmd]
    BY <1>12 DEF JoinWelcomed
  <2>5. cmd' \in [Host -> Cmds]
    <3>1. cmd[h] \in Cmds
      BY <1>0
    <3>2. [cmd[h] EXCEPT !.at = "enable"] \in Cmds /\ NoCmd \in Cmds
      BY ONLY <3>1 DEF NoCmd, Cmds
    <3> QED BY <1>0, <2>4, <3>2
  <2>3. dash' \in [Host -> Key \cup {None}]
    BY <1>0, <2>1, <1>12 DEF JoinWelcomed
  <2> QED BY <1>0, <2>2, <2>3, <2>5, <1>12 DEF JoinWelcomed
<1>13. ASSUME NEW h \in Host, JoinRefused(h) PROVE HostTypes'
  BY <1>0, <1>13 DEF JoinRefused, KeyAfter, NoHello, NoCmd, Hellos, Cmds
<1>14. ASSUME NEW h \in Host, JoinUnanswered(h) PROVE HostTypes'
  BY <1>0, <1>14 DEF JoinUnanswered, KeyAfter, NoCmd, Cmds
<1>15. ASSUME NEW h \in Host, HelloEnds(h) PROVE HostTypes'
  BY <1>0, <1>15 DEF HelloEnds, NoHello, Hellos
<1>16. ASSUME NEW h \in Host, LeaveStart(h) PROVE HostTypes'
  <2>1. hello' \in [Host -> Hellos]
    BY <1>0, <1>16 DEF LeaveStart, NoHello, Hellos
  <2>2. cmd' \in [Host -> Cmds]
    BY <1>0, <1>16 DEF LeaveStart, Cmds
  <2> QED BY <1>0, <2>1, <2>2, <1>16 DEF LeaveStart
<1>17. ASSUME NEW h \in Host, HubLeave(h) PROVE HostTypes'
  <2>1. CASE hello' = [hello EXCEPT ![h].at = "removing"]
    <3>1. hello' \in [Host -> Hellos]
      BY <1>0, <2>1, HelloAt
    <3> QED BY <1>0, <3>1, <1>17 DEF HubLeave
  <2>2. CASE \E answer \in {"welcome", "machine_unknown"} :
               hello' = [hello EXCEPT ![h].at = "answered", ![h].answer = answer]
    <3>1. hello' \in [Host -> Hellos]
      BY <1>0, <2>2, AnsweredIs DEF Answers
    <3> QED BY <1>0, <3>1, <1>17 DEF HubLeave
  <2> QED BY <1>17, <2>1, <2>2 DEF HubLeave
<1>18. ASSUME NEW h \in Host, LeaveAnswered(h) PROVE HostTypes'
  BY <1>0, <1>18 DEF LeaveAnswered, NoHello, Hellos, Cmds
<1>19. ASSUME NEW h \in Host, LeaveUntold(h) PROVE HostTypes'
  BY <1>0, <1>19 DEF LeaveUntold, Cmds
<1>20. ASSUME NEW h \in Host, LeaveNotJoined(h) PROVE HostTypes'
  BY <1>0, <1>20 DEF LeaveNotJoined, Cmds
<1>21. ASSUME NEW h \in Host, Forget(h) PROVE HostTypes'
  BY <1>0, <1>21 DEF Forget, ForgetFiles, NoCmd, Cmds
<1>22. ASSUME NEW h \in Host, CmdDies(h) PROVE HostTypes'
  BY <1>0, <1>22 DEF CmdDies, EndsWith, NoCmd, Cmds
<1>23. ASSUME NEW h \in Host, LinkStart(h) PROVE HostTypes'
  BY <1>0, <1>23 DEF LinkStart
<1>24. ASSUME NEW h \in Host, LinkNotices(h) PROVE HostTypes'
  BY <1>0, <1>24 DEF LinkNotices
<1>25. ASSUME NEW h \in Host, LinkRefused(h) PROVE HostTypes'
  BY <1>0, <1>25 DEF LinkRefused
<1>26. ASSUME NEW h \in Host, LinkForgets(h) PROVE HostTypes'
  BY <1>0, <1>26 DEF LinkForgets, ForgetFiles
<1>27. ASSUME NEW h \in Host, LinkDies(h) PROVE HostTypes'
  BY <1>0, <1>27 DEF LinkDies
<1>28. ASSUME NEW h \in Host, NEW n \in Conn, LinkDial(h, n) PROVE HostTypes'
  BY <1>0, <1>28 DEF LinkDial
<1>29. ASSUME NEW n \in Conn, HubLink(n) PROVE HostTypes'
  BY <1>0, <1>29 DEF HubLink
<1>30. ASSUME NEW n \in Conn, HubRegister(n) PROVE HostTypes'
  BY <1>0, <1>30 DEF HubRegister
<1>31. ASSUME NEW n \in Conn, HubNotices(n) PROVE HostTypes'
  BY <1>0, <1>31 DEF HubNotices
<1>32. ASSUME NEW n \in Conn, HubUnregister(n) PROVE HostTypes'
  BY <1>0, <1>32 DEF HubUnregister
<1>33. ASSUME NEW n \in Conn, Break(n) PROVE HostTypes'
  BY <1>0, <1>33 DEF Break
<1>35. ASSUME NEW h \in Host, DisableLink(h) PROVE HostTypes'
  BY <1>0, <1>35 DEF DisableLink, NoCmd, Cmds
<1>36. ASSUME NEW h \in Host, EnableLink(h) PROVE HostTypes'
  BY <1>0, <1>36 DEF EnableLink, NoCmd, Cmds, EndsWith, Halfway
<1>37. ASSUME NEW h \in Host, LinkSkipped(h) PROVE HostTypes'
  BY <1>0, <1>37 DEF LinkSkipped
<1>38. ASSUME NEW h \in Host, LinkStarted(h) PROVE HostTypes'
  BY <1>0, <1>38 DEF LinkStarted
<1>34. CASE UNCHANGED vars
  BY <1>0, <1>34 DEF vars, store, hub, files, process
<1> HIDE DEF HostTypes, store, hub, files, process
<1> QED BY <1>1, <1>2, <1>3, <1>4, <1>5, <1>6, <1>7, <1>8, <1>9, <1>10,
           <1>11, <1>12, <1>13, <1>14, <1>15, <1>16, <1>17, <1>18, <1>19,
           <1>20, <1>21, <1>22, <1>23, <1>24, <1>25, <1>26, <1>27, <1>28,
           <1>29, <1>30, <1>31, <1>32, <1>33, <1>34, <1>35, <1>36, <1>37, <1>38
     DEF Next, CodeSteps, RemoveSteps, JoinSteps, LeaveSteps, LinkSteps,
         HubSteps

(* Connections that are closed keep their types. *)
LEMMA ClosedTypes ==
    ASSUME conn \in [Conn -> Conns], NEW s
    PROVE  Closed(s) \in [Conn -> Conns]
BY DEF Closed, Conns

(* Every action keeps the connections in their types. *)
LEMMA ConnTypesKept == Types /\ [Next]_vars => ConnTypes'
<1> SUFFICES ASSUME Types, [Next]_vars PROVE ConnTypes'
  OBVIOUS
<1>0. StoreTypes /\ HostTypes /\ ConnTypes /\ HelloNames
  BY DEF Types
<1> USE DEF ConnTypes, store, hub, files, process
<1>1. ASSUME NEW c \in Code, MakeCode(c) PROVE ConnTypes'
  BY <1>0, <1>1 DEF MakeCode
<1>2. ASSUME NEW c \in Code, ExpireCode(c) PROVE ConnTypes'
  BY <1>0, <1>2 DEF ExpireCode
<1>3. ASSUME NEW c \in Code, CancelCode(c) PROVE ConnTypes'
  BY <1>0, <1>3 DEF CancelCode
<1>4. ASSUME NEW k \in Key, RemoveStart(k) PROVE ConnTypes'
  BY <1>0, <1>4 DEF RemoveStart, Mark, Closed, Conns
<1>5. ASSUME NEW k \in Key, NEW by \in Host \cup {None}, RemoveStore(k, by) PROVE ConnTypes'
  BY <1>0, <1>5 DEF RemoveStore
<1>6. CASE PanelRestarts
  BY <1>0, <1>6 DEF PanelRestarts, NoConn, Conns
<1>7. ASSUME NEW h \in Host, NEW c \in Code, NEW k \in Key, JoinStart(h, c, k) PROVE ConnTypes'
  BY <1>0, <1>7 DEF JoinStart
<1>8. ASSUME NEW h \in Host, PairCheck(h) PROVE ConnTypes'
  BY <1>0, <1>8 DEF PairCheck
<1>9. ASSUME NEW h \in Host, PairLimited(h) PROVE ConnTypes'
  BY <1>0, <1>9 DEF PairLimited
<1>10. ASSUME NEW h \in Host, PairCommit(h) PROVE ConnTypes'
  BY <1>0, <1>10 DEF PairCommit
<1>11. ASSUME NEW h \in Host, PairFails(h) PROVE ConnTypes'
  BY <1>0, <1>11 DEF PairFails
<1>12. ASSUME NEW h \in Host, JoinWelcomed(h) PROVE ConnTypes'
  BY <1>0, <1>12 DEF JoinWelcomed
<1>13. ASSUME NEW h \in Host, JoinRefused(h) PROVE ConnTypes'
  BY <1>0, <1>13 DEF JoinRefused
<1>14. ASSUME NEW h \in Host, JoinUnanswered(h) PROVE ConnTypes'
  BY <1>0, <1>14 DEF JoinUnanswered
<1>15. ASSUME NEW h \in Host, HelloEnds(h) PROVE ConnTypes'
  BY <1>0, <1>15 DEF HelloEnds
<1>16. ASSUME NEW h \in Host, LeaveStart(h) PROVE ConnTypes'
  BY <1>0, <1>16 DEF LeaveStart
<1>17. ASSUME NEW h \in Host, HubLeave(h) PROVE ConnTypes'
  <2>1. conn' = Closed({session[hello[h].key]}) \/ conn' = conn
    BY <1>17 DEF HubLeave, Mark
  <2>2. session' \in [Key -> Conn \cup {None}]
    BY <1>0, <1>17 DEF HubLeave, Mark
  <2>3. conn' \in [Conn -> Conns]
    BY <1>0, <2>1, ClosedTypes
  <2> QED BY <1>0, <2>2, <2>3, <1>17 DEF HubLeave
<1>18. ASSUME NEW h \in Host, LeaveAnswered(h) PROVE ConnTypes'
  BY <1>0, <1>18 DEF LeaveAnswered
<1>19. ASSUME NEW h \in Host, LeaveUntold(h) PROVE ConnTypes'
  BY <1>0, <1>19 DEF LeaveUntold
<1>20. ASSUME NEW h \in Host, LeaveNotJoined(h) PROVE ConnTypes'
  BY <1>0, <1>20 DEF LeaveNotJoined
<1>21. ASSUME NEW h \in Host, Forget(h) PROVE ConnTypes'
  BY <1>0, <1>21 DEF Forget
<1>22. ASSUME NEW h \in Host, CmdDies(h) PROVE ConnTypes'
  BY <1>0, <1>22 DEF CmdDies
<1>23. ASSUME NEW h \in Host, LinkStart(h) PROVE ConnTypes'
  BY <1>0, <1>23 DEF LinkStart
<1>24. ASSUME NEW h \in Host, LinkNotices(h) PROVE ConnTypes'
  BY <1>0, <1>24 DEF LinkNotices
<1>25. ASSUME NEW h \in Host, LinkRefused(h) PROVE ConnTypes'
  BY <1>0, <1>25 DEF LinkRefused, NoConn, Conns
<1>26. ASSUME NEW h \in Host, LinkForgets(h) PROVE ConnTypes'
  BY <1>0, <1>26 DEF LinkForgets
<1>27. ASSUME NEW h \in Host, LinkDies(h) PROVE ConnTypes'
  BY <1>0, <1>27 DEF LinkDies, Unplugged, Conns
<1>28. ASSUME NEW h \in Host, NEW n \in Conn, LinkDial(h, n) PROVE ConnTypes'
  BY <1>0, <1>28 DEF LinkDial, Conns, HostTypes
<1>29. ASSUME NEW n \in Conn, HubLink(n) PROVE ConnTypes'
  BY <1>0, <1>29 DEF HubLink, Conns
<1>30. ASSUME NEW n \in Conn, HubRegister(n) PROVE ConnTypes'
  <2>1. session' \in [Key -> Conn \cup {None}]
    BY <1>0, <1>30 DEF HubRegister
  <2>2. \A f \in [Conn -> Conns] :
          /\ [f EXCEPT ![n].at = "live"] \in [Conn -> Conns]
          /\ [f EXCEPT ![n].at = "closed", ![n].up = FALSE] \in [Conn -> Conns]
    BY DEF Conns
  <2>3. Closed({session[conn[n].key]}) \in [Conn -> Conns]
    BY <1>0, ClosedTypes
  <2>4. conn' \in [Conn -> Conns]
    <3>1. \/ conn' = [conn EXCEPT ![n].at = "closed", ![n].up = FALSE]
          \/ conn' = [Closed({session[conn[n].key]}) EXCEPT ![n].at = "live"]
      BY <1>30 DEF HubRegister
    <3>2. [conn EXCEPT ![n].at = "closed", ![n].up = FALSE] \in [Conn -> Conns]
      BY <1>0, <2>2
    <3>3. [Closed({session[conn[n].key]}) EXCEPT ![n].at = "live"] \in [Conn -> Conns]
      BY <2>2, <2>3
    <3> QED BY <3>1, <3>2, <3>3
  <2> QED BY <1>0, <2>1, <2>4, <1>30 DEF HubRegister
<1>31. ASSUME NEW n \in Conn, HubNotices(n) PROVE ConnTypes'
  BY <1>0, <1>31 DEF HubNotices, Conns
<1>32. ASSUME NEW n \in Conn, HubUnregister(n) PROVE ConnTypes'
  BY <1>0, <1>32 DEF HubUnregister, NoConn, Conns
<1>33. ASSUME NEW n \in Conn, Break(n) PROVE ConnTypes'
  BY <1>0, <1>33 DEF Break, Conns
<1>35. ASSUME NEW h \in Host, DisableLink(h) PROVE ConnTypes'
  BY <1>0, <1>35 DEF DisableLink, Unplugged, Conns
<1>36. ASSUME NEW h \in Host, EnableLink(h) PROVE ConnTypes'
  BY <1>0, <1>36 DEF EnableLink
<1>37. ASSUME NEW h \in Host, LinkSkipped(h) PROVE ConnTypes'
  BY <1>0, <1>37 DEF LinkSkipped
<1>38. ASSUME NEW h \in Host, LinkStarted(h) PROVE ConnTypes'
  BY <1>0, <1>38 DEF LinkStarted
<1>34. CASE UNCHANGED vars
  BY <1>0, <1>34 DEF vars, store, hub, files, process
<1> HIDE DEF ConnTypes, store, hub, files, process
<1> QED BY <1>1, <1>2, <1>3, <1>4, <1>5, <1>6, <1>7, <1>8, <1>9, <1>10,
           <1>11, <1>12, <1>13, <1>14, <1>15, <1>16, <1>17, <1>18, <1>19,
           <1>20, <1>21, <1>22, <1>23, <1>24, <1>25, <1>26, <1>27, <1>28,
           <1>29, <1>30, <1>31, <1>32, <1>33, <1>34, <1>35, <1>36, <1>37, <1>38
     DEF Next, CodeSteps, RemoveSteps, JoinSteps, LeaveSteps, LinkSteps,
         HubSteps

(* Every action keeps the hub's joins and leaves named. *)
LEMMA HelloNamesKept == Types /\ [Next]_vars => HelloNames'
<1> SUFFICES ASSUME Types, [Next]_vars PROVE HelloNames'
  OBVIOUS
<1>0. StoreTypes /\ HostTypes /\ ConnTypes /\ HelloNames
  BY DEF Types
<1> USE DEF HelloNames, store, hub, files, process
<1>1. ASSUME NEW c \in Code, MakeCode(c) PROVE HelloNames'
  BY <1>0, <1>1 DEF MakeCode
<1>2. ASSUME NEW c \in Code, ExpireCode(c) PROVE HelloNames'
  BY <1>0, <1>2 DEF ExpireCode
<1>3. ASSUME NEW c \in Code, CancelCode(c) PROVE HelloNames'
  BY <1>0, <1>3 DEF CancelCode
<1>4. ASSUME NEW k \in Key, RemoveStart(k) PROVE HelloNames'
  BY <1>0, <1>4 DEF RemoveStart
<1>5. ASSUME NEW k \in Key, NEW by \in Host \cup {None}, RemoveStore(k, by) PROVE HelloNames'
  <2>1. /\ hello \in [Host -> Hellos] /\ <<k, by>> \in removing
        /\ removing' = removing \ {<<k, by>>}
    BY <1>0, <1>5 DEF HostTypes, RemoveStore
  <2>2. CASE UNCHANGED hello
    BY <1>0, <2>1, <2>2
  <2>3. CASE by # None /\ by \in Host /\ \E answer \in Answers :
             hello' = [hello EXCEPT ![by].at = "answered", ![by].answer = answer]
    <3>1. PICK answer \in Answers :
            hello' = [hello EXCEPT ![by].at = "answered", ![by].answer = answer]
      BY <2>3
    <3>2. /\ hello'[by] = [hello[by] EXCEPT !.at = "answered", !.answer = answer]
          /\ \A g \in Host \ {by} : hello'[g] = hello[g]
      BY <2>1, <2>3, <3>1, HelloAnswered
    <3>3. hello[by].at = "removing" /\ hello[by].key = k
      BY <1>0, <2>1, <2>3
    <3>4. /\ hello'[by].key = k /\ hello'[by].code = hello[by].code
          /\ hello'[by].mode = hello[by].mode /\ hello'[by].at = "answered"
      BY <2>1, <2>3, <3>2, <3>3 DEF Hellos
    <3>a. hello[by].mode = "join" => hello[by].code \in Code
      BY <1>0, <2>3, <3>3
    <3>5. \A g \in Host : hello'[g].at # "none" =>
            /\ hello'[g].key \in Key
            /\ hello'[g].mode = "join" \/ hello'[g].at = "pairing" => hello'[g].code \in Code
      <4> TAKE g \in Host
      <4>1. CASE g = by
        BY <3>a, <3>4, <4>1
      <4>2. CASE g # by
        BY <1>0, <3>2, <4>2
      <4> QED BY <4>1, <4>2
    <3>6. \A j \in Key, g \in Host : <<j, g>> \in removing' /\ g # None =>
            hello'[g].at = "removing" /\ hello'[g].mode = "leave" /\ hello'[g].key = j
      BY <1>0, <2>1, <3>2, <3>3
    <3> QED BY <3>5, <3>6
  <2> QED BY <1>5, <2>2, <2>3 DEF RemoveStore, Answers, Refusals
<1>6. CASE PanelRestarts
  BY <1>0, <1>6 DEF PanelRestarts, NoHello
<1>7. ASSUME NEW h \in Host, NEW c \in Code, NEW k \in Key, JoinStart(h, c, k) PROVE HelloNames'
  BY <1>0, <1>7 DEF JoinStart, NoHello
<1>8. ASSUME NEW h \in Host, PairCheck(h) PROVE HelloNames'
  <2>1. UNCHANGED removing
    BY <1>8 DEF PairCheck
  <2> QED BY <1>0, <1>8, <2>1, PairCheckAnswers
<1>9. ASSUME NEW h \in Host, PairLimited(h) PROVE HelloNames'
  BY <1>0, <1>9 DEF PairLimited, HostTypes, Hellos
<1>10. ASSUME NEW h \in Host, PairCommit(h) PROVE HelloNames'
  <2>1. hello \in [Host -> Hellos] /\ hello[h].at = "pairing"
    BY <1>0, <1>10 DEF HostTypes, PairCommit
  <2>2. PICK answer \in Answers :
          hello' = [hello EXCEPT ![h].at = "answered", ![h].answer = answer]
    BY <1>0, <1>10, PairCommitAnswers
  <2>3. /\ hello'[h].key = hello[h].key /\ hello'[h].code = hello[h].code
        /\ hello'[h].mode = hello[h].mode /\ hello'[h].at = "answered"
        /\ \A g \in Host \ {h} : hello'[g] = hello[g]
    BY <1>0, <2>2, AnsweredIs
  <2>5. hello[h].key \in Key /\ hello[h].code \in Code
    BY <1>0, <2>1
  <2>6. \A g \in Host : hello'[g].at # "none" =>
          /\ hello'[g].key \in Key
          /\ hello'[g].mode = "join" \/ hello'[g].at = "pairing" => hello'[g].code \in Code
    BY <1>0, <2>3, <2>5
  <2>7. removing' = removing
    BY <1>10 DEF PairCommit
  <2>8. \A j \in Key, g \in Host : <<j, g>> \in removing' /\ g # None =>
          hello'[g].at = "removing" /\ hello'[g].mode = "leave" /\ hello'[g].key = j
    BY <1>0, <2>1, <2>3, <2>7
  <2> QED BY <2>6, <2>8
<1>11. ASSUME NEW h \in Host, PairFails(h) PROVE HelloNames'
  BY <1>0, <1>11 DEF PairFails, HostTypes, Hellos
<1>12. ASSUME NEW h \in Host, JoinWelcomed(h) PROVE HelloNames'
  BY <1>0, <1>12 DEF JoinWelcomed, NoHello
<1>13. ASSUME NEW h \in Host, JoinRefused(h) PROVE HelloNames'
  BY <1>0, <1>13 DEF JoinRefused, NoHello
<1>14. ASSUME NEW h \in Host, JoinUnanswered(h) PROVE HelloNames'
  BY <1>0, <1>14 DEF JoinUnanswered
<1>15. ASSUME NEW h \in Host, HelloEnds(h) PROVE HelloNames'
  BY <1>0, <1>15 DEF HelloEnds, NoHello
<1>16. ASSUME NEW h \in Host, LeaveStart(h) PROVE HelloNames'
  BY <1>0, <1>16 DEF LeaveStart, NoHello, HostTypes
<1>17. ASSUME NEW h \in Host, HubLeave(h) PROVE HelloNames'
  <2> DEFINE k == hello[h].key
  <2>1. /\ hello \in [Host -> Hellos] /\ hello[h].at = "sent" /\ k \in Key
        /\ UNCHANGED removing \/ removing' = removing \cup {<<k, h>>}
    BY <1>0, <1>17 DEF HubLeave, HostTypes
  <2>2. \A g \in Host \ {h} : hello'[g] = hello[g]
    BY <2>1, <1>17 DEF HubLeave
  <2>3. /\ hello'[h].key = k /\ hello'[h].code = hello[h].code
        /\ hello'[h].mode = hello[h].mode /\ hello'[h].mode = "leave"
        /\ hello'[h].at \in {"removing", "answered"}
        /\ hello'[h].at = "answered" => UNCHANGED removing
    BY <2>1, <1>17 DEF HubLeave, Hellos, hub
  <2> HIDE DEF k
  <2>4. \A g \in Host : hello'[g].at # "none" =>
          /\ hello'[g].key \in Key
          /\ hello'[g].mode = "join" \/ hello'[g].at = "pairing" => hello'[g].code \in Code
    BY <1>0, <2>1, <2>2, <2>3
  <2>5. \A j \in Key, g \in Host : <<j, g>> \in removing' /\ g # None =>
          hello'[g].at = "removing" /\ hello'[g].mode = "leave" /\ hello'[g].key = j
    <3> SUFFICES ASSUME NEW j \in Key, NEW g \in Host, <<j, g>> \in removing', g # None
                 PROVE  hello'[g].at = "removing" /\ hello'[g].mode = "leave" /\ hello'[g].key = j
      OBVIOUS
    <3>1. CASE <<j, g>> \in removing
      <4>1. hello[g].at = "removing" /\ hello[g].mode = "leave" /\ hello[g].key = j
        BY <1>0, <3>1
      <4> QED BY <2>1, <2>2, <4>1
    <3>2. CASE <<j, g>> \notin removing
      <4>1. j = k /\ g = h /\ removing' # removing
        BY <2>1, <3>2
      <4> QED BY <2>3, <4>1
    <3> QED BY <3>1, <3>2
  <2> QED BY <2>4, <2>5
<1>18. ASSUME NEW h \in Host, LeaveAnswered(h) PROVE HelloNames'
  BY <1>0, <1>18 DEF LeaveAnswered, NoHello
<1>19. ASSUME NEW h \in Host, LeaveUntold(h) PROVE HelloNames'
  BY <1>0, <1>19 DEF LeaveUntold
<1>20. ASSUME NEW h \in Host, LeaveNotJoined(h) PROVE HelloNames'
  BY <1>0, <1>20 DEF LeaveNotJoined
<1>21. ASSUME NEW h \in Host, Forget(h) PROVE HelloNames'
  BY <1>0, <1>21 DEF Forget
<1>22. ASSUME NEW h \in Host, CmdDies(h) PROVE HelloNames'
  BY <1>0, <1>22 DEF CmdDies
<1>23. ASSUME NEW h \in Host, LinkStart(h) PROVE HelloNames'
  BY <1>0, <1>23 DEF LinkStart
<1>24. ASSUME NEW h \in Host, LinkNotices(h) PROVE HelloNames'
  BY <1>0, <1>24 DEF LinkNotices
<1>25. ASSUME NEW h \in Host, LinkRefused(h) PROVE HelloNames'
  BY <1>0, <1>25 DEF LinkRefused
<1>26. ASSUME NEW h \in Host, LinkForgets(h) PROVE HelloNames'
  BY <1>0, <1>26 DEF LinkForgets
<1>27. ASSUME NEW h \in Host, LinkDies(h) PROVE HelloNames'
  BY <1>0, <1>27 DEF LinkDies
<1>28. ASSUME NEW h \in Host, NEW n \in Conn, LinkDial(h, n) PROVE HelloNames'
  BY <1>0, <1>28 DEF LinkDial
<1>29. ASSUME NEW n \in Conn, HubLink(n) PROVE HelloNames'
  BY <1>0, <1>29 DEF HubLink
<1>30. ASSUME NEW n \in Conn, HubRegister(n) PROVE HelloNames'
  BY <1>0, <1>30 DEF HubRegister
<1>31. ASSUME NEW n \in Conn, HubNotices(n) PROVE HelloNames'
  BY <1>0, <1>31 DEF HubNotices
<1>32. ASSUME NEW n \in Conn, HubUnregister(n) PROVE HelloNames'
  BY <1>0, <1>32 DEF HubUnregister
<1>33. ASSUME NEW n \in Conn, Break(n) PROVE HelloNames'
  BY <1>0, <1>33 DEF Break
<1>35. ASSUME NEW h \in Host, DisableLink(h) PROVE HelloNames'
  BY <1>0, <1>35 DEF DisableLink
<1>36. ASSUME NEW h \in Host, EnableLink(h) PROVE HelloNames'
  BY <1>0, <1>36 DEF EnableLink
<1>37. ASSUME NEW h \in Host, LinkSkipped(h) PROVE HelloNames'
  BY <1>0, <1>37 DEF LinkSkipped
<1>38. ASSUME NEW h \in Host, LinkStarted(h) PROVE HelloNames'
  BY <1>0, <1>38 DEF LinkStarted
<1>34. CASE UNCHANGED vars
  BY <1>0, <1>34 DEF vars, store, hub, files, process
<1> HIDE DEF HelloNames, store, hub, files, process
<1> QED BY <1>1, <1>2, <1>3, <1>4, <1>5, <1>6, <1>7, <1>8, <1>9, <1>10,
           <1>11, <1>12, <1>13, <1>14, <1>15, <1>16, <1>17, <1>18, <1>19,
           <1>20, <1>21, <1>22, <1>23, <1>24, <1>25, <1>26, <1>27, <1>28,
           <1>29, <1>30, <1>31, <1>32, <1>33, <1>34, <1>35, <1>36, <1>37, <1>38
     DEF Next, CodeSteps, RemoveSteps, JoinSteps, LeaveSteps, LinkSteps,
         HubSteps

LEMMA TypesKept == Types /\ [Next]_vars => Types'
BY StoreTypesKept, HostTypesKept, ConnTypesKept, HelloNamesKept DEF Types

(* The dashboard begins without machines, and every computer without one. *)
LEMMA InitTypes == Init => Types
<1> SUFFICES ASSUME Init PROVE Types
  OBVIOUS
<1>1. StoreTypes
  BY FaultsAssumption DEF Init, StoreTypes
<1>2. HostTypes
  BY DEF Init, HostTypes, NoHello, Hellos, NoCmd, Cmds
<1>3. ConnTypes
  BY DEF Init, ConnTypes, NoConn, Conns
<1>4. HelloNames
  BY DEF Init, HelloNames, NoHello
<1> QED BY <1>1, <1>2, <1>3, <1>4 DEF Types

LEMMA TypesHold == Spec => []Types
BY InitTypes, TypesKept, PTL DEF Spec

(* The variables keep their types. *)
THEOREM LinkTypeCorrect == Spec => []TypeOK
<1>1. Types => TypeOK
  BY DEF Types, StoreTypes, HostTypes, ConnTypes, TypeOK
<1> QED BY <1>1, TypesHold, PTL

-----------------------------------------------------------------------------
(* Removed machines stay out *)

(* Closing connections keeps their keys and closes the open ones. *)
LEMMA ClosedIs ==
    ASSUME conn \in [Conn -> Conns], NEW s, NEW m \in Conn
    PROVE  /\ Closed(s)[m].key = conn[m].key
           /\ m \in s /\ conn[m].at = "live" => Closed(s)[m].at = "closed"
           /\ ~(m \in s /\ conn[m].at = "live") => Closed(s)[m].at = conn[m].at
BY DEF Closed, Conns

(* A removal under way has its key revoked, and a connection whose machine *)
(* was removed since it was checked will find it revoked.                  *)
OutInv ==
    /\ RemovedIsOut
    /\ \A k \in Key, by \in Host \cup {None} : <<k, by>> \in removing => k \in revoked
    /\ \A n \in Conn, k \in Key :
         conn[n].at = "checked" /\ conn[n].key = k /\ machine[k] = "removed"
         => k \in revoked

(* Every action keeps removed machines out. *)
LEMMA OutInvKept == Types /\ OutInv /\ [Next]_vars => OutInv'
<1> SUFFICES ASSUME Types, OutInv, [Next]_vars PROVE OutInv'
  OBVIOUS
<1>0. StoreTypes /\ HostTypes /\ ConnTypes /\ HelloNames
  BY DEF Types
<1> USE DEF OutInv, RemovedIsOut, store, hub, files, process
<1>1. ASSUME NEW c \in Code, MakeCode(c) PROVE OutInv'
  BY <1>0, <1>1 DEF MakeCode
<1>2. ASSUME NEW c \in Code, ExpireCode(c) PROVE OutInv'
  BY <1>0, <1>2 DEF ExpireCode
<1>3. ASSUME NEW c \in Code, CancelCode(c) PROVE OutInv'
  BY <1>0, <1>3 DEF CancelCode
<1>4. ASSUME NEW k \in Key, RemoveStart(k) PROVE OutInv'
  BY <1>0, <1>4 DEF RemoveStart, Mark, Closed, StoreTypes, ConnTypes, Conns
<1>5. ASSUME NEW k \in Key, NEW by \in Host \cup {None}, RemoveStore(k, by) PROVE OutInv'
  BY <1>0, <1>5 DEF RemoveStore, StoreTypes, ConnTypes
<1>6. CASE PanelRestarts
  BY <1>0, <1>6 DEF PanelRestarts, NoConn
<1>7. ASSUME NEW h \in Host, NEW c \in Code, NEW k \in Key, JoinStart(h, c, k) PROVE OutInv'
  BY <1>0, <1>7 DEF JoinStart
<1>8. ASSUME NEW h \in Host, PairCheck(h) PROVE OutInv'
  BY <1>0, <1>8 DEF PairCheck
<1>9. ASSUME NEW h \in Host, PairLimited(h) PROVE OutInv'
  BY <1>0, <1>9 DEF PairLimited
<1>10. ASSUME NEW h \in Host, PairCommit(h) PROVE OutInv'
  BY <1>0, <1>10 DEF PairCommit, StoreTypes
<1>11. ASSUME NEW h \in Host, PairFails(h) PROVE OutInv'
  BY <1>0, <1>11 DEF PairFails
<1>12. ASSUME NEW h \in Host, JoinWelcomed(h) PROVE OutInv'
  BY <1>0, <1>12 DEF JoinWelcomed
<1>13. ASSUME NEW h \in Host, JoinRefused(h) PROVE OutInv'
  BY <1>0, <1>13 DEF JoinRefused
<1>14. ASSUME NEW h \in Host, JoinUnanswered(h) PROVE OutInv'
  BY <1>0, <1>14 DEF JoinUnanswered
<1>15. ASSUME NEW h \in Host, HelloEnds(h) PROVE OutInv'
  BY <1>0, <1>15 DEF HelloEnds
<1>16. ASSUME NEW h \in Host, LeaveStart(h) PROVE OutInv'
  BY <1>0, <1>16 DEF LeaveStart
<1>17. ASSUME NEW h \in Host, HubLeave(h) PROVE OutInv'
  <2>1. CASE UNCHANGED hub /\ UNCHANGED conn
    BY <1>0, <1>17, <2>1 DEF HubLeave
  <2>2. CASE Mark(hello[h].key) /\ removing' = removing \cup {<<hello[h].key, h>>}
    <3>1. \A m \in Conn : conn'[m].key = conn[m].key
                          /\ (conn'[m].at = "checked" => conn[m].at = "checked")
      BY <1>0, <2>2, ClosedIs DEF Mark, ConnTypes
    <3>2. /\ UNCHANGED machine /\ revoked' = revoked \cup {hello[h].key}
          /\ session' = [session EXCEPT ![hello[h].key] = None]
      BY <2>2, <1>17 DEF HubLeave, Mark
    <3>3. \A k \in Key, by \in Host \cup {None} : <<k, by>> \in removing' => k \in revoked'
      BY <2>2, <3>2
    <3>4. \A n \in Conn, k \in Key :
            conn'[n].at = "checked" /\ conn'[n].key = k /\ machine'[k] = "removed"
            => k \in revoked'
      BY <3>1, <3>2
    <3>5. RemovedIsOut'
      BY <1>0, <2>2, <3>2 DEF ConnTypes
    <3> QED BY <3>3, <3>4, <3>5
  <2> QED BY <1>17, <2>1, <2>2 DEF HubLeave
<1>18. ASSUME NEW h \in Host, LeaveAnswered(h) PROVE OutInv'
  BY <1>0, <1>18 DEF LeaveAnswered
<1>19. ASSUME NEW h \in Host, LeaveUntold(h) PROVE OutInv'
  BY <1>0, <1>19 DEF LeaveUntold
<1>20. ASSUME NEW h \in Host, LeaveNotJoined(h) PROVE OutInv'
  BY <1>0, <1>20 DEF LeaveNotJoined
<1>21. ASSUME NEW h \in Host, Forget(h) PROVE OutInv'
  BY <1>0, <1>21 DEF Forget
<1>22. ASSUME NEW h \in Host, CmdDies(h) PROVE OutInv'
  BY <1>0, <1>22 DEF CmdDies
<1>23. ASSUME NEW h \in Host, LinkStart(h) PROVE OutInv'
  BY <1>0, <1>23 DEF LinkStart
<1>24. ASSUME NEW h \in Host, LinkNotices(h) PROVE OutInv'
  BY <1>0, <1>24 DEF LinkNotices
<1>25. ASSUME NEW h \in Host, LinkRefused(h) PROVE OutInv'
  BY <1>0, <1>25 DEF LinkRefused, NoConn, ConnTypes, Conns
<1>26. ASSUME NEW h \in Host, LinkForgets(h) PROVE OutInv'
  BY <1>0, <1>26 DEF LinkForgets
<1>27. ASSUME NEW h \in Host, LinkDies(h) PROVE OutInv'
  BY <1>0, <1>27 DEF LinkDies, Unplugged, ConnTypes, Conns
<1>28. ASSUME NEW h \in Host, NEW n \in Conn, LinkDial(h, n) PROVE OutInv'
  BY <1>0, <1>28 DEF LinkDial, ConnTypes, Conns
<1>29. ASSUME NEW n \in Conn, HubLink(n) PROVE OutInv'
  BY <1>0, <1>29 DEF HubLink, ConnTypes, Conns, StoreTypes
<1>30. ASSUME NEW n \in Conn, HubRegister(n) PROVE OutInv'
  <2> DEFINE k == conn[n].key
  <2>1. CASE k \in revoked
    <3>1. \A m \in Conn : conn'[m].key = conn[m].key
                          /\ (conn'[m].at = "checked" => conn[m].at = "checked")
      BY <1>0, <1>30, <2>1 DEF HubRegister, ConnTypes, Conns
    <3> QED BY <1>30, <2>1, <3>1 DEF HubRegister
  <2>2. CASE k \notin revoked
    <3>0. /\ conn \in [Conn -> Conns]
          /\ Closed({session[k]}) \in [Conn -> Conns]
          /\ conn' = [Closed({session[k]}) EXCEPT ![n].at = "live"]
      BY <1>0, <1>30, <2>2, ClosedTypes DEF HubRegister, ConnTypes
    <3>a. /\ conn'[n].key = Closed({session[k]})[n].key /\ conn'[n].at = "live"
          /\ \A m \in Conn \ {n} : conn'[m] = Closed({session[k]})[m]
      BY <3>0 DEF Conns
    <3>1. \A m \in Conn : conn'[m].key = conn[m].key
                          /\ (conn'[m].at = "checked" => conn[m].at = "checked")
      BY <3>0, <3>a, ClosedIs
    <3>2. k \in Key => machine[k] # "removed"
      BY <1>30, <2>2 DEF HubRegister
    <3> QED BY <1>0, <1>30, <2>2, <3>1, <3>2 DEF HubRegister, ConnTypes
  <2> QED BY <2>1, <2>2
<1>31. ASSUME NEW n \in Conn, HubNotices(n) PROVE OutInv'
  BY <1>0, <1>31 DEF HubNotices, ConnTypes, Conns
<1>32. ASSUME NEW n \in Conn, HubUnregister(n) PROVE OutInv'
  BY <1>0, <1>32 DEF HubUnregister, NoConn, ConnTypes, Conns
<1>33. ASSUME NEW n \in Conn, Break(n) PROVE OutInv'
  BY <1>0, <1>33 DEF Break, ConnTypes, Conns
<1>35. ASSUME NEW h \in Host, DisableLink(h) PROVE OutInv'
  BY <1>0, <1>35 DEF DisableLink, Unplugged, ConnTypes, Conns
<1>36. ASSUME NEW h \in Host, EnableLink(h) PROVE OutInv'
  BY <1>0, <1>36 DEF EnableLink
<1>37. ASSUME NEW h \in Host, LinkSkipped(h) PROVE OutInv'
  BY <1>0, <1>37 DEF LinkSkipped
<1>38. ASSUME NEW h \in Host, LinkStarted(h) PROVE OutInv'
  BY <1>0, <1>38 DEF LinkStarted
<1>34. CASE UNCHANGED vars
  BY <1>0, <1>34 DEF vars, store, hub, files, process
<1> HIDE DEF OutInv, RemovedIsOut, store, hub, files, process
<1> QED BY <1>1, <1>2, <1>3, <1>4, <1>5, <1>6, <1>7, <1>8, <1>9, <1>10,
           <1>11, <1>12, <1>13, <1>14, <1>15, <1>16, <1>17, <1>18, <1>19,
           <1>20, <1>21, <1>22, <1>23, <1>24, <1>25, <1>26, <1>27, <1>28,
           <1>29, <1>30, <1>31, <1>32, <1>33, <1>34, <1>35, <1>36, <1>37, <1>38
     DEF Next, CodeSteps, RemoveSteps, JoinSteps, LeaveSteps, LinkSteps,
         HubSteps

(* A machine the owner or its own command removed has no session, whatever *)
(* its connections do meanwhile.                                           *)
THEOREM RemovedMachinesAreOut == Spec => []RemovedIsOut
<1>1. Init => OutInv
  BY DEF Init, OutInv, RemovedIsOut, NoConn
<1>2. OutInv => RemovedIsOut
  BY DEF OutInv
<1> QED BY <1>1, <1>2, OutInvKept, TypesHold, PTL DEF Spec

-----------------------------------------------------------------------------
(* Sessions and connections *)

(* The machine of every connection has a key. *)
SessionInv ==
    /\ NoOrphanSession
    /\ \A n \in Conn : conn[n].at # "free" => conn[n].key \in Key

(* A removal closes the only connection its machine may have open. *)
LEMMA MarkCloses ==
    ASSUME ConnTypes, SessionInv, NEW k \in Key, Mark(k)
    PROVE  SessionInv'
<1>1. \A m \in Conn :
        /\ conn'[m].key = conn[m].key
        /\ conn'[m].at # "free" => conn[m].at # "free"
        /\ conn'[m].at = "live" => conn[m].at = "live" /\ m # session[k]
  BY ClosedIs DEF Mark, ConnTypes
<1>2. \A j \in Key \ {k} : session'[j] = session[j]
  BY DEF Mark, ConnTypes
<1> QED BY <1>1, <1>2 DEF SessionInv, NoOrphanSession, ConnTypes

(* Every action keeps each open connection the session of its machine. *)
LEMMA SessionsKept == Types /\ SessionInv /\ [Next]_vars => SessionInv'
<1> SUFFICES ASSUME Types, SessionInv, [Next]_vars PROVE SessionInv'
  OBVIOUS
<1>0. StoreTypes /\ HostTypes /\ ConnTypes /\ HelloNames
  BY DEF Types
<1> USE DEF SessionInv, NoOrphanSession, store, hub, files, process
<1>1. ASSUME NEW c \in Code, MakeCode(c) PROVE SessionInv'
  BY <1>0, <1>1 DEF MakeCode
<1>2. ASSUME NEW c \in Code, ExpireCode(c) PROVE SessionInv'
  BY <1>0, <1>2 DEF ExpireCode
<1>3. ASSUME NEW c \in Code, CancelCode(c) PROVE SessionInv'
  BY <1>0, <1>3 DEF CancelCode
<1>4. ASSUME NEW k \in Key, RemoveStart(k) PROVE SessionInv'
  <2>1. Mark(k)
    BY <1>4 DEF RemoveStart
  <2> QED BY <1>0, <2>1, MarkCloses DEF SessionInv
<1>5. ASSUME NEW k \in Key, NEW by \in Host \cup {None}, RemoveStore(k, by) PROVE SessionInv'
  BY <1>0, <1>5 DEF RemoveStore
<1>6. CASE PanelRestarts
  BY <1>0, <1>6 DEF PanelRestarts, NoConn, Conns
<1>7. ASSUME NEW h \in Host, NEW c \in Code, NEW k \in Key, JoinStart(h, c, k) PROVE SessionInv'
  BY <1>0, <1>7 DEF JoinStart
<1>8. ASSUME NEW h \in Host, PairCheck(h) PROVE SessionInv'
  BY <1>0, <1>8 DEF PairCheck
<1>9. ASSUME NEW h \in Host, PairLimited(h) PROVE SessionInv'
  BY <1>0, <1>9 DEF PairLimited
<1>10. ASSUME NEW h \in Host, PairCommit(h) PROVE SessionInv'
  BY <1>0, <1>10 DEF PairCommit
<1>11. ASSUME NEW h \in Host, PairFails(h) PROVE SessionInv'
  BY <1>0, <1>11 DEF PairFails
<1>12. ASSUME NEW h \in Host, JoinWelcomed(h) PROVE SessionInv'
  BY <1>0, <1>12 DEF JoinWelcomed
<1>13. ASSUME NEW h \in Host, JoinRefused(h) PROVE SessionInv'
  BY <1>0, <1>13 DEF JoinRefused
<1>14. ASSUME NEW h \in Host, JoinUnanswered(h) PROVE SessionInv'
  BY <1>0, <1>14 DEF JoinUnanswered
<1>15. ASSUME NEW h \in Host, HelloEnds(h) PROVE SessionInv'
  BY <1>0, <1>15 DEF HelloEnds
<1>16. ASSUME NEW h \in Host, LeaveStart(h) PROVE SessionInv'
  BY <1>0, <1>16 DEF LeaveStart
<1>17. ASSUME NEW h \in Host, HubLeave(h) PROVE SessionInv'
  <2>1. CASE UNCHANGED session /\ UNCHANGED conn
    BY <2>1
  <2>2. CASE Mark(hello[h].key)
    <3>1. hello[h].key \in Key
      BY <1>0, <1>17 DEF HubLeave, HelloNames
    <3> QED BY <1>0, <2>2, <3>1, MarkCloses DEF SessionInv
  <2> QED BY <1>17, <2>1, <2>2 DEF HubLeave
<1>18. ASSUME NEW h \in Host, LeaveAnswered(h) PROVE SessionInv'
  BY <1>0, <1>18 DEF LeaveAnswered
<1>19. ASSUME NEW h \in Host, LeaveUntold(h) PROVE SessionInv'
  BY <1>0, <1>19 DEF LeaveUntold
<1>20. ASSUME NEW h \in Host, LeaveNotJoined(h) PROVE SessionInv'
  BY <1>0, <1>20 DEF LeaveNotJoined
<1>21. ASSUME NEW h \in Host, Forget(h) PROVE SessionInv'
  BY <1>0, <1>21 DEF Forget
<1>22. ASSUME NEW h \in Host, CmdDies(h) PROVE SessionInv'
  BY <1>0, <1>22 DEF CmdDies
<1>23. ASSUME NEW h \in Host, LinkStart(h) PROVE SessionInv'
  BY <1>0, <1>23 DEF LinkStart
<1>24. ASSUME NEW h \in Host, LinkNotices(h) PROVE SessionInv'
  BY <1>0, <1>24 DEF LinkNotices
<1>25. ASSUME NEW h \in Host, LinkRefused(h) PROVE SessionInv'
  BY <1>0, <1>25 DEF LinkRefused, NoConn, ConnTypes, Conns
<1>26. ASSUME NEW h \in Host, LinkForgets(h) PROVE SessionInv'
  BY <1>0, <1>26 DEF LinkForgets
<1>27. ASSUME NEW h \in Host, LinkDies(h) PROVE SessionInv'
  BY <1>0, <1>27 DEF LinkDies, Unplugged, ConnTypes, Conns
<1>28. ASSUME NEW h \in Host, NEW n \in Conn, LinkDial(h, n) PROVE SessionInv'
  BY <1>0, <1>28 DEF LinkDial, ConnTypes, Conns, HostTypes
<1>29. ASSUME NEW n \in Conn, HubLink(n) PROVE SessionInv'
  BY <1>0, <1>29 DEF HubLink, ConnTypes, Conns, StoreTypes
<1>30. ASSUME NEW n \in Conn, HubRegister(n) PROVE SessionInv'
  <2> DEFINE k == conn[n].key
  <2>0. k \in Key /\ conn[n].at = "checked" /\ conn \in [Conn -> Conns]
        /\ session \in [Key -> Conn \cup {None}]
    BY <1>0, <1>30 DEF HubRegister, ConnTypes
  <2>1. CASE k \in revoked
    <3>1. /\ UNCHANGED session
          /\ \A m \in Conn : /\ conn'[m].at = "live" => conn[m].at = "live"
                             /\ conn'[m].at # "free" => conn[m].at # "free"
                             /\ conn'[m].key = conn[m].key
      BY <2>0, <1>30, <2>1 DEF HubRegister, Conns
    <3> QED BY <3>1
  <2>2. CASE k \notin revoked
    <3>1. /\ session' = [session EXCEPT ![k] = n]
          /\ conn' = [Closed({session[k]}) EXCEPT ![n].at = "live"]
      BY <1>30, <2>2 DEF HubRegister
    <3>2. Closed({session[k]}) \in [Conn -> Conns]
      BY <2>0, ClosedTypes
    <3>3. /\ conn'[n].key = Closed({session[k]})[n].key
          /\ \A m \in Conn \ {n} : conn'[m] = Closed({session[k]})[m]
      BY <3>1, <3>2 DEF Conns
    <3>4. \A m \in Conn : /\ conn'[m].key = conn[m].key
                          /\ conn'[m].at # "free" => m = n \/ conn[m].at # "free"
      BY <2>0, <3>3, ClosedIs
    <3>5. ASSUME NEW m \in Conn, conn'[m].at = "live"
          PROVE  session'[conn'[m].key] = m
      <4>1. CASE m = n
        BY <2>0, <3>1, <3>4, <4>1
      <4>2. CASE m # n
        <5>1. conn[m].at = "live" /\ m # session[k] /\ conn[m].key \in Key
          BY <2>0, <3>3, <3>5, <4>2, ClosedIs
        <5> QED BY <2>0, <3>1, <3>4, <5>1
      <4> QED BY <4>1, <4>2
    <3> QED BY <2>0, <3>4, <3>5
  <2> QED BY <2>1, <2>2
<1>31. ASSUME NEW n \in Conn, HubNotices(n) PROVE SessionInv'
  BY <1>0, <1>31 DEF HubNotices, ConnTypes, Conns
<1>32. ASSUME NEW n \in Conn, HubUnregister(n) PROVE SessionInv'
  BY <1>0, <1>32 DEF HubUnregister, NoConn, ConnTypes, Conns
<1>33. ASSUME NEW n \in Conn, Break(n) PROVE SessionInv'
  BY <1>0, <1>33 DEF Break, ConnTypes, Conns
<1>35. ASSUME NEW h \in Host, DisableLink(h) PROVE SessionInv'
  BY <1>0, <1>35 DEF DisableLink, Unplugged, ConnTypes, Conns
<1>36. ASSUME NEW h \in Host, EnableLink(h) PROVE SessionInv'
  BY <1>0, <1>36 DEF EnableLink
<1>37. ASSUME NEW h \in Host, LinkSkipped(h) PROVE SessionInv'
  BY <1>0, <1>37 DEF LinkSkipped
<1>38. ASSUME NEW h \in Host, LinkStarted(h) PROVE SessionInv'
  BY <1>0, <1>38 DEF LinkStarted
<1>34. CASE UNCHANGED vars
  BY <1>0, <1>34 DEF vars, store, hub, files, process
<1> HIDE DEF SessionInv, NoOrphanSession, store, hub, files, process
<1> QED BY <1>1, <1>2, <1>3, <1>4, <1>5, <1>6, <1>7, <1>8, <1>9, <1>10,
           <1>11, <1>12, <1>13, <1>14, <1>15, <1>16, <1>17, <1>18, <1>19,
           <1>20, <1>21, <1>22, <1>23, <1>24, <1>25, <1>26, <1>27, <1>28,
           <1>29, <1>30, <1>31, <1>32, <1>33, <1>34, <1>35, <1>36, <1>37, <1>38
     DEF Next, CodeSteps, RemoveSteps, JoinSteps, LeaveSteps, LinkSteps,
         HubSteps

(* Every connection the hub keeps up is the one it has listed for its *)
(* machine.                                                           *)
THEOREM SessionsAreListed == Spec => []NoOrphanSession
<1>1. Init => SessionInv
  BY DEF Init, SessionInv, NoOrphanSession, NoConn
<1>2. SessionInv => NoOrphanSession
  BY DEF SessionInv
<1> QED BY <1>1, <1>2, SessionsKept, TypesHold, PTL DEF Spec

(* The open sessions are the listed ones, and none is a removed machine's. *)
THEOREM SessionsAreListedOnes == Spec => []OnlyListedSessions
<1> QED BY RemovedMachinesAreOut, SessionsAreListed, PTL DEF OnlyListedSessions

-----------------------------------------------------------------------------
(* Joins *)

(* A machine joins only by taking a code that is still there. *)
THEOREM CodesAdmit == Spec => AdmittedByItsCode
<1>1. Types /\ [Next]_vars => JoinsByCode
  <2> SUFFICES ASSUME Types, [Next]_vars PROVE JoinsByCode
    OBVIOUS
  <2>0. StoreTypes /\ HelloNames
    BY DEF Types
  <2>1. CASE \E h \in Host : PairCommit(h)
    BY <2>0, <2>1 DEF JoinsByCode, PairCommit, StoreTypes, HelloNames, store
  <2>2. CASE \E k \in Key, by \in Host \cup {None} : RemoveStore(k, by)
    BY <2>0, <2>2 DEF JoinsByCode, RemoveStore, StoreTypes
  <2>3. CASE UNCHANGED machine
    BY <2>3 DEF JoinsByCode
  <2>4. \/ \E h \in Host : PairCommit(h)
        \/ \E k \in Key, by \in Host \cup {None} : RemoveStore(k, by)
        \/ UNCHANGED machine
    <3>1. CASE CodeSteps \/ RemoveSteps \/ PanelRestarts \/ UNCHANGED vars
      BY <3>1 DEF CodeSteps, RemoveSteps, MakeCode, ExpireCode, CancelCode, RemoveStart,
         PanelRestarts, store, vars
    <3>2. ASSUME NEW h \in Host, JoinSteps(h) PROVE UNCHANGED machine \/ PairCommit(h)
      BY <3>2 DEF JoinSteps, JoinStart, PairCheck, PairLimited, PairFails, JoinWelcomed, EnableLink,
         JoinRefused, JoinUnanswered, HelloEnds, store
    <3>3. ASSUME NEW h \in Host, LeaveSteps(h) PROVE UNCHANGED machine
      BY <3>3 DEF LeaveSteps, LeaveStart, HubLeave, LeaveAnswered, LeaveUntold,
         LeaveNotJoined, DisableLink, Forget, CmdDies, store
    <3>4. ASSUME NEW h \in Host, LinkSteps(h) PROVE UNCHANGED machine
      BY <3>4 DEF LinkSteps, LinkStart, LinkSkipped, LinkStarted, LinkNotices, LinkRefused, LinkForgets, LinkDies,
         LinkDial, store
    <3>5. ASSUME NEW n \in Conn, HubSteps(n) PROVE UNCHANGED machine
      BY <3>5 DEF HubSteps, HubLink, HubRegister, HubNotices, HubUnregister, Break, store
    <3> QED BY <3>1, <3>2, <3>3, <3>4, <3>5 DEF Next
  <2> QED BY <2>1, <2>2, <2>3, <2>4
<1> QED BY <1>1, TypesHold, PTL DEF Spec, AdmittedByItsCode

(* While a join waits for its answer, the computer has no dashboard, so no *)
(* link that could take its key away, and the hub handles the key it has;  *)
(* a join that was welcomed is that of a machine the dashboard knows.      *)
JoinAsMeant(h) ==
    /\ link[h] # "off" => dash[h] # None
    /\ cmd[h].at = "files" => link[h] = "off" /\ unit[h] = "absent"
    /\ link[h] # "on" => peer[h] = None
    /\ cmd[h].at = "waiting" /\ hello[h].mode = "join" => dash[h] = None
    /\ cmd[h].at = "waiting" /\ hello[h].mode = "join" /\ hello[h].at # "none"
         => hello[h].key = key[h]
    /\ hello[h].at = "answered" /\ hello[h].mode = "join"
         /\ hello[h].answer = "welcome" => machine[hello[h].key] # "unknown"

JoinInv == JoinedHasItsKey /\ \A h \in Host : JoinAsMeant(h)

(* Every action keeps the key of a computer that has a dashboard. *)
LEMMA JoinInvKept == Types /\ JoinInv /\ [Next]_vars => JoinInv'
<1> SUFFICES ASSUME Types, JoinInv, [Next]_vars PROVE JoinInv'
  OBVIOUS
<1>0. StoreTypes /\ HostTypes /\ ConnTypes /\ HelloNames
  BY DEF Types
<1> USE DEF JoinInv, JoinAsMeant, JoinedHasItsKey, store, hub, files, process
<1>1. ASSUME NEW c \in Code, MakeCode(c) PROVE JoinInv'
  BY <1>0, <1>1 DEF MakeCode
<1>2. ASSUME NEW c \in Code, ExpireCode(c) PROVE JoinInv'
  BY <1>0, <1>2 DEF ExpireCode
<1>3. ASSUME NEW c \in Code, CancelCode(c) PROVE JoinInv'
  BY <1>0, <1>3 DEF CancelCode
<1>4. ASSUME NEW k \in Key, RemoveStart(k) PROVE JoinInv'
  BY <1>0, <1>4 DEF RemoveStart, StoreTypes
<1>5. ASSUME NEW k \in Key, NEW by \in Host \cup {None}, RemoveStore(k, by) PROVE JoinInv'
  <2>1. /\ hello \in [Host -> Hellos] /\ <<k, by>> \in removing
        /\ machine \in [Key -> {"unknown", "joined", "removed"}]
        /\ \A j \in Key : machine[j] # "unknown" => machine'[j] # "unknown"
        /\ UNCHANGED <<cmd, key, dash, unit, link, peer>>
        /\ key \in [Host -> Key \cup {None}] /\ dash \in [Host -> Key \cup {None}]
    BY <1>0, <1>5 DEF RemoveStore, StoreTypes, HostTypes
  <2>2. \A g \in Host : dash'[g] # None =>
          key'[g] = dash'[g] /\ machine'[dash'[g]] # "unknown"
    BY <2>1
  <2>3. CASE UNCHANGED hello
    BY <1>0, <2>1, <2>2, <2>3 DEF HelloNames
  <2>4. CASE by # None /\ by \in Host /\ \E answer \in Answers :
             /\ hello' = [hello EXCEPT ![by].at = "answered", ![by].answer = answer]
             /\ answer = "welcome" => machine'[k] # "unknown"
    <3>0. by \in Host /\ hello[by] \in Hellos
      BY <2>1, <2>4
    <3>1. PICK answer \in Answers :
             /\ hello' = [hello EXCEPT ![by].at = "answered", ![by].answer = answer]
             /\ answer = "welcome" => machine'[k] # "unknown"
      BY <2>4
    <3>2. /\ hello'[by] = [hello[by] EXCEPT !.at = "answered", !.answer = answer]
          /\ \A g \in Host \ {by} : hello'[g] = hello[g]
      <4> DEFINE next == [hello EXCEPT ![by].at = "answered", ![by].answer = answer]
      <4>1. /\ next[by] = [hello[by] EXCEPT !.at = "answered", !.answer = answer]
            /\ \A g \in Host \ {by} : next[g] = hello[g]
        <5>1. hello \in [Host -> Hellos] /\ by \in Host /\ answer \in Answers
          BY <2>1, <3>0
        <5>2. [hello EXCEPT ![by].at = "answered", ![by].answer = answer]
                = [hello EXCEPT ![by] = [hello[by] EXCEPT !.at = "answered", !.answer = answer]]
          BY ONLY <5>1 DEF Hellos
        <5> QED BY ONLY <5>1, <5>2
      <4>2. hello' = next
        BY <3>1
      <4> HIDE DEF next
      <4> QED BY <4>1, <4>2
    <3>3. hello[by].at = "removing" /\ hello[by].key = k
      BY <1>0, <2>1, <2>4 DEF HelloNames
    <3>4. /\ hello'[by].key = k /\ hello'[by].mode = hello[by].mode
          /\ hello'[by].at = "answered" /\ hello'[by].answer = answer
      BY <2>1, <3>0, <3>2, <3>3 DEF Hellos
    <3>5. ASSUME NEW g \in Host PROVE JoinAsMeant(g)'
      <4>1. CASE g = by
        BY <2>1, <3>1, <3>3, <3>4, <4>1
      <4>2. CASE g # by
        BY <1>0, <2>1, <3>2, <4>2 DEF HelloNames
      <4> QED BY <4>1, <4>2
    <3> QED BY <2>2, <3>5
  <2> DEFINE a == IF machine'[k] = "removed" THEN "welcome" ELSE "dashboard_error"
  <2>5. a \in Answers /\ (a = "welcome" => machine'[k] # "unknown")
    BY DEF Answers, Refusals
  <2>6. by # None => hello' = [hello EXCEPT ![by].at = "answered", ![by].answer = a]
    BY <1>5 DEF RemoveStore
  <2>7. by = None => UNCHANGED hello
    BY <1>5 DEF RemoveStore
  <2> HIDE DEF a
  <2> QED BY <2>3, <2>4, <2>5, <2>6, <2>7
<1>6. CASE PanelRestarts
  BY <1>0, <1>6 DEF PanelRestarts, HostTypes, NoHello
<1>7. ASSUME NEW h \in Host, NEW c \in Code, NEW k \in Key, JoinStart(h, c, k) PROVE JoinInv'
  BY <1>0, <1>7 DEF JoinStart, HostTypes, Hellos, Cmds, NoHello
<1>8. ASSUME NEW h \in Host, PairCheck(h) PROVE JoinInv'
  <2>1. UNCHANGED <<link, dash, unit, peer, cmd, key, machine>>
    BY <1>8 DEF PairCheck
  <2> QED BY <1>0, <1>8, <2>1, PairCheckAnswers
<1>9. ASSUME NEW h \in Host, PairLimited(h) PROVE JoinInv'
  BY <1>0, <1>9 DEF PairLimited, HostTypes, Hellos
<1>10. ASSUME NEW h \in Host, PairCommit(h) PROVE JoinInv'
  <2> DEFINE k == hello[h].key
  <2>1. /\ hello \in [Host -> Hellos] /\ hello[h].at = "pairing" /\ k \in Key
        /\ machine \in [Key -> {"unknown", "joined", "removed"}]
        /\ UNCHANGED <<cmd, key, dash, unit, link, peer>>
        /\ key \in [Host -> Key \cup {None}] /\ dash \in [Host -> Key \cup {None}]
    BY <1>0, <1>10 DEF PairCommit, StoreTypes, HostTypes, HelloNames
  <2>2. \A j \in Key : machine[j] # "unknown" => machine'[j] # "unknown"
    BY <2>1, <1>10 DEF PairCommit
  <2>3. \A g \in Host : dash'[g] # None =>
          key'[g] = dash'[g] /\ machine'[dash'[g]] # "unknown"
    BY <2>1, <2>2
  <2>4. PICK answer \in Answers :
           /\ hello' = [hello EXCEPT ![h].at = "answered", ![h].answer = answer]
           /\ answer = "welcome" => machine'[k] # "unknown"
    BY <2>1, <1>10 DEF PairCommit, Answers, Refusals
  <2>5. /\ hello'[h] = [hello[h] EXCEPT !.at = "answered", !.answer = answer]
        /\ \A g \in Host \ {h} : hello'[g] = hello[g]
    <3> DEFINE next == [hello EXCEPT ![h].at = "answered", ![h].answer = answer]
    <3>0. hello \in [Host -> Hellos] /\ answer \in Answers
      BY <2>1
    <3>1. /\ next[h] = [hello[h] EXCEPT !.at = "answered", !.answer = answer]
          /\ \A g \in Host \ {h} : next[g] = hello[g]
      <4>1. [hello EXCEPT ![h].at = "answered", ![h].answer = answer]
              = [hello EXCEPT ![h] = [hello[h] EXCEPT !.at = "answered", !.answer = answer]]
        BY ONLY <3>0 DEF Hellos
      <4> QED BY ONLY <3>0, <4>1
    <3>2. hello' = next
      BY <2>4
    <3> HIDE DEF next
    <3> QED BY <3>1, <3>2
  <2>6. /\ hello'[h].key = k /\ hello'[h].mode = hello[h].mode
        /\ hello'[h].at = "answered" /\ hello'[h].answer = answer
    BY <2>1, <2>5 DEF Hellos
  <2>7. ASSUME NEW g \in Host PROVE JoinAsMeant(g)'
    <3>1. CASE g = h
      BY <2>1, <2>4, <2>6, <3>1
    <3>2. CASE g # h
      BY <1>0, <2>1, <2>2, <2>5, <3>2 DEF HelloNames
    <3> QED BY <3>1, <3>2
  <2> QED BY <2>3, <2>7
<1>11. ASSUME NEW h \in Host, PairFails(h) PROVE JoinInv'
  BY <1>0, <1>11 DEF PairFails, HostTypes, Hellos
<1>12. ASSUME NEW h \in Host, JoinWelcomed(h) PROVE JoinInv'
  <2>1. /\ hello' = [hello EXCEPT ![h] = NoHello] /\ hello \in [Host -> Hellos]
        /\ cmd \in [Host -> Cmds] /\ dash \in [Host -> Key \cup {None}]
        /\ hello[h].key \in Key /\ hello[h].key = key[h] /\ dash[h] = None
        /\ machine[hello[h].key] # "unknown"
        /\ UNCHANGED <<key, machine, unit, link, peer>>
    BY <1>0, <1>12 DEF JoinWelcomed, HostTypes, HelloNames
  <2>2. link[h] = "off"
    BY <2>1
  <2>3. /\ cmd'[h].at \in {"enable", "idle"}
        /\ \A g \in Host \ {h} : cmd'[g] = cmd[g] /\ dash'[g] = dash[g]
        /\ dash'[h] \in {None, hello[h].key}
    BY <2>1, <1>12 DEF JoinWelcomed, Cmds, NoCmd
  <2>4. hello'[h].at = "none" /\ \A g \in Host \ {h} : hello'[g] = hello[g]
    BY <2>1 DEF NoHello
  <2>5. ASSUME NEW g \in Host PROVE JoinAsMeant(g)'
    <3>1. CASE g = h
      BY <2>1, <2>2, <2>3, <2>4, <3>1
    <3>2. CASE g # h
      BY <2>1, <2>3, <2>4, <3>2
    <3> QED BY <3>1, <3>2
  <2>6. \A g \in Host : dash'[g] # None =>
          key'[g] = dash'[g] /\ machine'[dash'[g]] # "unknown"
    BY <2>1, <2>3
  <2> QED BY <2>5, <2>6
<1>13. ASSUME NEW h \in Host, JoinRefused(h) PROVE JoinInv'
  BY <1>0, <1>13 DEF JoinRefused, HostTypes, Hellos, NoHello, NoCmd, KeyAfter
<1>14. ASSUME NEW h \in Host, JoinUnanswered(h) PROVE JoinInv'
  BY <1>0, <1>14 DEF JoinUnanswered, HostTypes, Hellos, NoCmd, KeyAfter
<1>15. ASSUME NEW h \in Host, HelloEnds(h) PROVE JoinInv'
  BY <1>0, <1>15 DEF HelloEnds, HostTypes, Hellos, NoHello
<1>16. ASSUME NEW h \in Host, LeaveStart(h) PROVE JoinInv'
  BY <1>0, <1>16 DEF LeaveStart, HostTypes, Hellos, NoHello, Cmds
<1>17. ASSUME NEW h \in Host, HubLeave(h) PROVE JoinInv'
  BY <1>0, <1>17 DEF HubLeave, HostTypes, Hellos
<1>18. ASSUME NEW h \in Host, LeaveAnswered(h) PROVE JoinInv'
  BY <1>0, <1>18 DEF LeaveAnswered, HostTypes, Hellos, NoHello, Cmds
<1>19. ASSUME NEW h \in Host, LeaveUntold(h) PROVE JoinInv'
  BY <1>0, <1>19 DEF LeaveUntold, HostTypes, Hellos, Cmds
<1>20. ASSUME NEW h \in Host, LeaveNotJoined(h) PROVE JoinInv'
  BY <1>0, <1>20 DEF LeaveNotJoined, HostTypes, Hellos, Cmds
<1>21. ASSUME NEW h \in Host, Forget(h) PROVE JoinInv'
  BY <1>0, <1>21 DEF Forget, HostTypes, Hellos, ForgetFiles, NoCmd, ConnTypes
<1>22. ASSUME NEW h \in Host, CmdDies(h) PROVE JoinInv'
  BY <1>0, <1>22 DEF CmdDies, HostTypes, Hellos, NoCmd
<1>23. ASSUME NEW h \in Host, LinkStart(h) PROVE JoinInv'
  BY <1>0, <1>23 DEF LinkStart, HostTypes, Hellos
<1>24. ASSUME NEW h \in Host, LinkNotices(h) PROVE JoinInv'
  BY <1>0, <1>24 DEF LinkNotices, HostTypes, Hellos, ConnTypes
<1>25. ASSUME NEW h \in Host, LinkRefused(h) PROVE JoinInv'
  BY <1>0, <1>25 DEF LinkRefused, HostTypes, Hellos, ConnTypes
<1>26. ASSUME NEW h \in Host, LinkForgets(h) PROVE JoinInv'
  BY <1>0, <1>26 DEF LinkForgets, HostTypes, Hellos, ForgetFiles
<1>27. ASSUME NEW h \in Host, LinkDies(h) PROVE JoinInv'
  BY <1>0, <1>27 DEF LinkDies, HostTypes, Hellos, ConnTypes
<1>28. ASSUME NEW h \in Host, NEW n \in Conn, LinkDial(h, n) PROVE JoinInv'
  BY <1>0, <1>28 DEF LinkDial, HostTypes, Hellos, ConnTypes
<1>29. ASSUME NEW n \in Conn, HubLink(n) PROVE JoinInv'
  BY <1>0, <1>29 DEF HubLink
<1>30. ASSUME NEW n \in Conn, HubRegister(n) PROVE JoinInv'
  BY <1>0, <1>30 DEF HubRegister
<1>31. ASSUME NEW n \in Conn, HubNotices(n) PROVE JoinInv'
  BY <1>0, <1>31 DEF HubNotices
<1>32. ASSUME NEW n \in Conn, HubUnregister(n) PROVE JoinInv'
  BY <1>0, <1>32 DEF HubUnregister
<1>33. ASSUME NEW n \in Conn, Break(n) PROVE JoinInv'
  BY <1>0, <1>33 DEF Break
<1>35. ASSUME NEW h \in Host, DisableLink(h) PROVE JoinInv'
  BY <1>0, <1>35 DEF DisableLink, HostTypes, Hellos, ConnTypes, Cmds
<1>36. ASSUME NEW h \in Host, EnableLink(h) PROVE JoinInv'
  BY <1>0, <1>36 DEF EnableLink, HostTypes, Hellos, NoCmd
<1>37. ASSUME NEW h \in Host, LinkSkipped(h) PROVE JoinInv'
  BY <1>0, <1>37 DEF LinkSkipped
<1>38. ASSUME NEW h \in Host, LinkStarted(h) PROVE JoinInv'
  BY <1>0, <1>38 DEF LinkStarted
<1>34. CASE UNCHANGED vars
  BY <1>0, <1>34 DEF vars, store, hub, files, process
<1> HIDE DEF JoinInv, JoinAsMeant, JoinedHasItsKey, store, hub, files, process
<1> QED BY <1>1, <1>2, <1>3, <1>4, <1>5, <1>6, <1>7, <1>8, <1>9, <1>10,
           <1>11, <1>12, <1>13, <1>14, <1>15, <1>16, <1>17, <1>18, <1>19,
           <1>20, <1>21, <1>22, <1>23, <1>24, <1>25, <1>26, <1>27, <1>28,
           <1>29, <1>30, <1>31, <1>32, <1>33, <1>34, <1>35, <1>36, <1>37, <1>38
     DEF Next, CodeSteps, RemoveSteps, JoinSteps, LeaveSteps, LinkSteps,
         HubSteps

(* A computer that has the dashboard's file has the key the dashboard *)
(* knows it by.                                                       *)
THEOREM JoinedMachinesHaveTheirKey == Spec => []JoinedHasItsKey
<1>1. Init => JoinInv
  BY DEF Init, JoinInv, JoinAsMeant, JoinedHasItsKey, NoHello, NoCmd
<1>2. JoinInv => JoinedHasItsKey
  BY DEF JoinInv
<1> QED BY <1>1, <1>2, JoinInvKept, TypesHold, PTL DEF Spec

(* No two computers have or use the same key; a removal is one of a machine *)
(* that joined; and while a new key's join isn't welcomed, its machine is   *)
(* unknown.                                                                 *)
KeysApart ==
    \A g, h \in Host : g # h =>
        /\ key[h] # None => key[g] # key[h]
        /\ key[h] # None /\ hello[g].at # "none" => hello[g].key # key[h]

NewKeyUnheld(h) ==
    /\ cmd[h].at = "waiting" /\ hello[h].mode = "join" /\ ~cmd[h].kept
    /\ hello[h].at \in {"sent", "pairing"}
         \/ (hello[h].at = "answered" /\ hello[h].answer \in Refusals)
    => machine[hello[h].key] = "unknown"

DropInv ==
    /\ KeysApart
    /\ \A k \in Key, by \in Host \cup {None} : <<k, by>> \in removing => machine[k] # "unknown"
    /\ \A h \in Host : NewKeyUnheld(h)

(* Every action keeps a new key's machine unknown until it is welcomed. *)
LEMMA DropInvKept == Types /\ JoinInv /\ DropInv /\ [Next]_vars => DropInv'
<1> SUFFICES ASSUME Types, JoinInv /\ DropInv, [Next]_vars PROVE DropInv'
  OBVIOUS
<1>0. StoreTypes /\ HostTypes /\ ConnTypes /\ HelloNames
  BY DEF Types
<1> USE DEF DropInv, KeysApart, NewKeyUnheld, store, hub, files, process
<1>1. ASSUME NEW c \in Code, MakeCode(c) PROVE DropInv'
  BY <1>0, <1>1 DEF MakeCode
<1>2. ASSUME NEW c \in Code, ExpireCode(c) PROVE DropInv'
  BY <1>0, <1>2 DEF ExpireCode
<1>3. ASSUME NEW c \in Code, CancelCode(c) PROVE DropInv'
  BY <1>0, <1>3 DEF CancelCode
<1>4. ASSUME NEW k \in Key, RemoveStart(k) PROVE DropInv'
  BY <1>0, <1>4 DEF RemoveStart, StoreTypes
<1>5. ASSUME NEW k \in Key, NEW by \in Host \cup {None}, RemoveStore(k, by) PROVE DropInv'
  <2>1. /\ hello \in [Host -> Hellos] /\ <<k, by>> \in removing
        /\ machine \in [Key -> {"unknown", "joined", "removed"}]
        /\ removing' \subseteq removing /\ UNCHANGED <<key, cmd>>
        /\ machine' = [machine EXCEPT ![k] = "removed"] \/ UNCHANGED machine
    BY <1>0, <1>5 DEF RemoveStore, StoreTypes, HostTypes
  <2>2. machine[k] # "unknown"
    BY <2>1
  <2>3. \A g \in Host : /\ hello'[g].key = hello[g].key
                        /\ hello'[g].at # "none" => hello[g].at # "none"
                        /\ hello'[g] = hello[g] \/ hello'[g].mode = "leave"
    <3> TAKE g \in Host
    <3>1. CASE g = by /\ by # None
      <4>1. hello[by].at = "removing" /\ hello[by].mode = "leave" /\ hello[by] \in Hellos
        BY <1>0, <2>1, <3>1 DEF HelloNames
      <4>2. PICK answer \in Answers :
              hello' = [hello EXCEPT ![by].at = "answered", ![by].answer = answer]
        BY <3>1, <1>5 DEF RemoveStore, Answers, Refusals
      <4>0. by \in Host
        BY <3>1
      <4>3. hello'[by] = [hello[by] EXCEPT !.at = "answered", !.answer = answer]
        <5>1. answer \in Answers /\ hello \in [Host -> Hellos]
          BY <2>1, <4>2
        <5>2. [hello EXCEPT ![by].at = "answered", ![by].answer = answer][by]
                = [hello[by] EXCEPT !.at = "answered", !.answer = answer]
          BY <4>0, <5>1 DEF Hellos
        <5> QED BY <4>2, <5>2
      <4> QED BY <3>1, <4>1, <4>3 DEF Hellos
    <3>2. CASE g # by \/ by = None
      BY <2>1, <3>2, <1>5 DEF RemoveStore
    <3> QED BY <3>1, <3>2
  <2>4. KeysApart'
    BY <2>1, <2>3
  <2>5. \A j \in Key, b \in Host \cup {None} : <<j, b>> \in removing' => machine'[j] # "unknown"
    BY <2>1
  <2>6. \A g \in Host : hello[g].at # "none" => hello[g].key \in Key
    BY <1>0 DEF HelloNames
  <2>7. \A g \in Host : NewKeyUnheld(g)'
    BY <2>1, <2>2, <2>3, <2>6
  <2> QED BY <2>4, <2>5, <2>7
<1>6. CASE PanelRestarts
  BY <1>0, <1>6 DEF PanelRestarts, HostTypes, NoHello
<1>7. ASSUME NEW h \in Host, NEW c \in Code, NEW k \in Key, JoinStart(h, c, k) PROVE DropInv'
  <2>1. /\ hello \in [Host -> Hellos] /\ key \in [Host -> Key \cup {None}] /\ cmd \in [Host -> Cmds]
        /\ hello' = [hello EXCEPT ![h] = [NoHello EXCEPT !.at = "sent", !.key = k, !.code = c]]
        /\ key' = [key EXCEPT ![h] = k]
        /\ cmd' = [cmd EXCEPT ![h] = [at |-> "waiting", kept |-> key[h] # None]]
        /\ UNCHANGED <<machine, removing>>
    BY <1>0, <1>7 DEF JoinStart, HostTypes
  <2>2. \/ key[h] # None /\ k = key[h]
        \/ key[h] = None /\ Fresh(k)
    BY <1>7 DEF JoinStart
  <2>3. /\ hello'[h].key = k /\ \A g \in Host \ {h} : hello'[g] = hello[g]
        /\ key'[h] = k /\ \A g \in Host \ {h} : key'[g] = key[g] /\ cmd'[g] = cmd[g]
    BY <2>1 DEF NoHello
  <2>4. \A g \in Host \ {h} : key[g] # k /\ (hello[g].at # "none" => hello[g].key # k)
    BY <2>2 DEF Fresh
  <2>5. KeysApart'
    BY <2>1, <2>3, <2>4
  <2>6. \A j \in Key, by \in Host \cup {None} : <<j, by>> \in removing' => machine'[j] # "unknown"
    BY <2>1
  <2>7. ASSUME NEW g \in Host PROVE NewKeyUnheld(g)'
    <3>1. CASE g = h
      <4>1. ~cmd'[h].kept => machine[k] = "unknown"
        BY <2>1, <2>2 DEF Fresh
      <4> QED BY <2>1, <2>3, <3>1, <4>1
    <3>2. CASE g # h
      BY <2>1, <2>3, <3>2
    <3> QED BY <3>1, <3>2
  <2> QED BY <2>5, <2>6, <2>7
<1>8. ASSUME NEW h \in Host, PairCheck(h) PROVE DropInv'
  <2>1. UNCHANGED <<cmd, key, machine, removing>>
    BY <1>8 DEF PairCheck
  <2> QED BY <1>0, <1>8, <2>1, PairCheckAnswers DEF Refusals
<1>9. ASSUME NEW h \in Host, PairLimited(h) PROVE DropInv'
  BY <1>0, <1>9 DEF PairLimited, HostTypes, Hellos, Cmds
<1>10. ASSUME NEW h \in Host, PairCommit(h) PROVE DropInv'
  <2> DEFINE k == hello[h].key
  <2>1. /\ hello \in [Host -> Hellos] /\ hello[h].at = "pairing" /\ k \in Key
        /\ machine \in [Key -> {"unknown", "joined", "removed"}]
        /\ UNCHANGED <<key, cmd, removing>>
    BY <1>0, <1>10 DEF PairCommit, StoreTypes, HostTypes, HelloNames, hub, files
  <2>2. PICK answer \in Answers :
           /\ hello' = [hello EXCEPT ![h].at = "answered", ![h].answer = answer]
           /\ \/ answer = "welcome" /\ machine' = [machine EXCEPT ![k] = "joined"]
              \/ UNCHANGED machine
    BY <1>0, <1>10, PairCommitAnswers DEF store
  <2>4. /\ hello'[h].key = k /\ hello'[h].mode = hello[h].mode
        /\ hello'[h].at = "answered" /\ hello'[h].answer = answer
        /\ \A g \in Host \ {h} : hello'[g] = hello[g]
    BY <1>0, <2>2, AnsweredIs
  <2>5. KeysApart'
    <3>1. \A g \in Host : hello'[g].key = hello[g].key
                          /\ (hello'[g].at # "none" => hello[g].at # "none")
      BY <2>1, <2>4
    <3> QED BY <2>1, <3>1
  <2>6. \A j \in Key, by \in Host \cup {None} : <<j, by>> \in removing' => machine'[j] # "unknown"
    BY <2>1, <2>2
  <2>7. ASSUME NEW g \in Host PROVE NewKeyUnheld(g)'
    <3>1. CASE g = h
      BY <2>1, <2>2, <2>4, <3>1 DEF Refusals
    <3>2. CASE g # h
      <4> SUFFICES ASSUME cmd[g].at = "waiting", hello[g].mode = "join", ~cmd[g].kept,
                          \/ hello[g].at \in {"sent", "pairing"}
                          \/ hello[g].at = "answered" /\ hello[g].answer \in Refusals
                   PROVE  machine'[hello[g].key] = "unknown"
        BY <2>1, <2>4, <3>2
      <4>1. hello[g].key \in Key /\ hello[g].key = key[g] /\ machine[hello[g].key] = "unknown"
        BY <1>0 DEF HelloNames, JoinInv, JoinAsMeant
      <4>2. key[g] # k
        BY <2>1, <3>2, <4>1, NoneAssumption
      <4> QED BY <2>1, <2>2, <4>1, <4>2
    <3> QED BY <3>1, <3>2
  <2> QED BY <2>5, <2>6, <2>7
<1>11. ASSUME NEW h \in Host, PairFails(h) PROVE DropInv'
  BY <1>0, <1>11 DEF PairFails, HostTypes, Hellos, Cmds
<1>12. ASSUME NEW h \in Host, JoinWelcomed(h) PROVE DropInv'
  BY <1>0, <1>12 DEF JoinWelcomed, HostTypes, Hellos, Cmds, NoHello, NoCmd
<1>13. ASSUME NEW h \in Host, JoinRefused(h) PROVE DropInv'
  BY <1>0, <1>13 DEF JoinRefused, HostTypes, Hellos, Cmds, NoHello, NoCmd, KeyAfter
<1>14. ASSUME NEW h \in Host, JoinUnanswered(h) PROVE DropInv'
  BY <1>0, <1>14 DEF JoinUnanswered, HostTypes, Hellos, Cmds, NoCmd, KeyAfter
<1>15. ASSUME NEW h \in Host, HelloEnds(h) PROVE DropInv'
  BY <1>0, <1>15 DEF HelloEnds, HostTypes, Hellos, Cmds, NoHello
<1>16. ASSUME NEW h \in Host, LeaveStart(h) PROVE DropInv'
  BY <1>0, <1>16 DEF LeaveStart, HostTypes, Hellos, Cmds, NoHello
<1>17. ASSUME NEW h \in Host, HubLeave(h) PROVE DropInv'
  <2> DEFINE k == hello[h].key
  <2>1. /\ hello \in [Host -> Hellos] /\ hello[h].at = "sent" /\ hello[h].mode = "leave"
        /\ \/ UNCHANGED removing
           \/ machine[k] = "joined" /\ removing' = removing \cup {<<k, h>>}
        /\ UNCHANGED <<machine, key, cmd>>
    BY <1>0, <1>17 DEF HubLeave, HostTypes
  <2>2. \A g \in Host \ {h} : hello'[g] = hello[g]
    BY <2>1, <1>17 DEF HubLeave
  <2>3. hello'[h].key = k /\ hello'[h].mode = "leave"
    BY <2>1, <1>17 DEF HubLeave, Hellos
  <2> HIDE DEF k
  <2>4. KeysApart'
    BY <2>1, <2>2, <2>3 DEF k
  <2>5. \A j \in Key, by \in Host \cup {None} : <<j, by>> \in removing' => machine'[j] # "unknown"
    BY <2>1
  <2>6. \A g \in Host : NewKeyUnheld(g)'
    BY <2>1, <2>2, <2>3
  <2> QED BY <2>4, <2>5, <2>6
<1>18. ASSUME NEW h \in Host, LeaveAnswered(h) PROVE DropInv'
  BY <1>0, <1>18 DEF LeaveAnswered, HostTypes, Hellos, Cmds, NoHello
<1>19. ASSUME NEW h \in Host, LeaveUntold(h) PROVE DropInv'
  BY <1>0, <1>19 DEF LeaveUntold, HostTypes, Hellos, Cmds
<1>20. ASSUME NEW h \in Host, LeaveNotJoined(h) PROVE DropInv'
  BY <1>0, <1>20 DEF LeaveNotJoined, HostTypes, Hellos, Cmds
<1>21. ASSUME NEW h \in Host, Forget(h) PROVE DropInv'
  BY <1>0, <1>21 DEF Forget, HostTypes, Hellos, Cmds, ForgetFiles, NoCmd
<1>22. ASSUME NEW h \in Host, CmdDies(h) PROVE DropInv'
  BY <1>0, <1>22 DEF CmdDies, HostTypes, Hellos, Cmds, NoCmd
<1>23. ASSUME NEW h \in Host, LinkStart(h) PROVE DropInv'
  BY <1>0, <1>23 DEF LinkStart
<1>24. ASSUME NEW h \in Host, LinkNotices(h) PROVE DropInv'
  BY <1>0, <1>24 DEF LinkNotices
<1>25. ASSUME NEW h \in Host, LinkRefused(h) PROVE DropInv'
  BY <1>0, <1>25 DEF LinkRefused
<1>26. ASSUME NEW h \in Host, LinkForgets(h) PROVE DropInv'
  BY <1>0, <1>26 DEF LinkForgets, HostTypes, Hellos, Cmds, ForgetFiles
<1>27. ASSUME NEW h \in Host, LinkDies(h) PROVE DropInv'
  BY <1>0, <1>27 DEF LinkDies
<1>28. ASSUME NEW h \in Host, NEW n \in Conn, LinkDial(h, n) PROVE DropInv'
  BY <1>0, <1>28 DEF LinkDial
<1>29. ASSUME NEW n \in Conn, HubLink(n) PROVE DropInv'
  BY <1>0, <1>29 DEF HubLink
<1>30. ASSUME NEW n \in Conn, HubRegister(n) PROVE DropInv'
  BY <1>0, <1>30 DEF HubRegister
<1>31. ASSUME NEW n \in Conn, HubNotices(n) PROVE DropInv'
  BY <1>0, <1>31 DEF HubNotices
<1>32. ASSUME NEW n \in Conn, HubUnregister(n) PROVE DropInv'
  BY <1>0, <1>32 DEF HubUnregister
<1>33. ASSUME NEW n \in Conn, Break(n) PROVE DropInv'
  BY <1>0, <1>33 DEF Break
<1>35. ASSUME NEW h \in Host, DisableLink(h) PROVE DropInv'
  BY <1>0, <1>35 DEF DisableLink, HostTypes, Hellos, Cmds
<1>36. ASSUME NEW h \in Host, EnableLink(h) PROVE DropInv'
  BY <1>0, <1>36 DEF EnableLink, HostTypes, Hellos, Cmds, NoCmd
<1>37. ASSUME NEW h \in Host, LinkSkipped(h) PROVE DropInv'
  BY <1>0, <1>37 DEF LinkSkipped
<1>38. ASSUME NEW h \in Host, LinkStarted(h) PROVE DropInv'
  BY <1>0, <1>38 DEF LinkStarted
<1>34. CASE UNCHANGED vars
  BY <1>0, <1>34 DEF vars, store, hub, files, process
<1> HIDE DEF DropInv, KeysApart, NewKeyUnheld, store, hub, files, process
<1> QED BY <1>1, <1>2, <1>3, <1>4, <1>5, <1>6, <1>7, <1>8, <1>9, <1>10,
           <1>11, <1>12, <1>13, <1>14, <1>15, <1>16, <1>17, <1>18, <1>19,
           <1>20, <1>21, <1>22, <1>23, <1>24, <1>25, <1>26, <1>27, <1>28,
           <1>29, <1>30, <1>31, <1>32, <1>33, <1>34, <1>35, <1>36, <1>37, <1>38
     DEF Next, CodeSteps, RemoveSteps, JoinSteps, LeaveSteps, LinkSteps,
         HubSteps

(* A join that throws its key away was not accepted and no longer can be. *)
THEOREM DroppedKeysUnheld == Spec => KeyDroppedUnheld
<1>1. Init => JoinInv /\ DropInv
  BY DEF Init, JoinInv, JoinAsMeant, JoinedHasItsKey, DropInv, KeysApart, NewKeyUnheld,
         NoHello, NoCmd
<1>2. Types /\ JoinInv /\ DropInv /\ [Next]_vars => DropsUnheld
  <2> SUFFICES ASSUME Types, JoinInv, DropInv, [Next]_vars, NEW h \in Host,
                      cmd[h].at = "waiting", cmd'[h].at = "idle",
                      key[h] # None, key'[h] = None
               PROVE  machine'[key[h]] # "joined" /\ hello'[h].at = "none"
    BY DEF DropsUnheld
  <2>0. HostTypes /\ ConnTypes /\ HelloNames
    BY DEF Types
  <2>1. JoinRefused(h) \/ JoinUnanswered(h)
    <3>1. \/ UNCHANGED key
          \/ \E g \in Host, c \in Code, k \in Key : JoinStart(g, c, k)
          \/ \E g \in Host : \/ JoinRefused(g) \/ JoinUnanswered(g)
                             \/ Forget(g) \/ LinkForgets(g)
      <4>1. CASE CodeSteps \/ RemoveSteps \/ PanelRestarts \/ UNCHANGED vars
        BY <4>1 DEF CodeSteps, RemoveSteps, MakeCode, ExpireCode, CancelCode, RemoveStart,
           RemoveStore, PanelRestarts, files, vars
      <4>2. ASSUME NEW g \in Host, JoinSteps(g)
            PROVE  \/ UNCHANGED key \/ JoinRefused(g) \/ JoinUnanswered(g)
                   \/ \E c \in Code, k \in Key : JoinStart(g, c, k)
        BY <4>2 DEF JoinSteps, PairCheck, PairLimited, PairCommit, PairFails, JoinWelcomed, EnableLink,
           HelloEnds, files
      <4>3. ASSUME NEW g \in Host, LeaveSteps(g) PROVE UNCHANGED key \/ Forget(g)
        BY <4>3 DEF LeaveSteps, LeaveStart, HubLeave, LeaveAnswered, LeaveUntold,
           LeaveNotJoined, DisableLink, CmdDies, files
      <4>4. ASSUME NEW g \in Host, LinkSteps(g) PROVE UNCHANGED key \/ LinkForgets(g)
        BY <4>4 DEF LinkSteps, LinkStart, LinkSkipped, LinkStarted, LinkNotices, LinkRefused, LinkDies, LinkDial, files
      <4>5. ASSUME NEW n \in Conn, HubSteps(n) PROVE UNCHANGED key
        BY <4>5 DEF HubSteps, HubLink, HubRegister, HubNotices, HubUnregister, Break, files
      <4> QED BY <4>1, <4>2, <4>3, <4>4, <4>5 DEF Next
    <3>2. ASSUME NEW g \in Host, NEW c \in Code, NEW k \in Key, JoinStart(g, c, k)
          PROVE  FALSE
      BY <2>0, <3>2 DEF JoinStart, HostTypes, Cmds
    <3>3. ASSUME NEW g \in Host, Forget(g) PROVE FALSE
      BY <2>0, <3>3 DEF Forget, ForgetFiles, HostTypes
    <3>4. ASSUME NEW g \in Host, LinkForgets(g) PROVE FALSE
      BY <2>0, <3>4 DEF LinkForgets
    <3>5. ASSUME NEW g \in Host, g # h, JoinRefused(g) \/ JoinUnanswered(g) PROVE FALSE
      BY <2>0, <3>5 DEF JoinRefused, JoinUnanswered, KeyAfter, HostTypes
    <3> QED BY <3>1, <3>2, <3>3, <3>4, <3>5
  <2>2. CASE JoinUnanswered(h)
    BY <2>0, <2>2 DEF JoinUnanswered, KeyAfter, MayHaveJoined
  <2>3. CASE JoinRefused(h)
    <3>1. ~cmd[h].kept
      BY <2>0, <2>3 DEF JoinRefused, KeyAfter
    <3>2. hello[h].key = key[h] /\ machine[hello[h].key] = "unknown"
      BY <2>3, <3>1 DEF JoinRefused, JoinInv, JoinAsMeant, DropInv, NewKeyUnheld
    <3>3. machine' = machine /\ hello'[h] = NoHello
      BY <2>0, <2>3 DEF JoinRefused, store, HostTypes
    <3> QED BY <3>2, <3>3 DEF NoHello
  <2> QED BY <2>1, <2>2, <2>3
<1> QED BY <1>1, <1>2, JoinInvKept, DropInvKept, TypesHold, PTL DEF Spec, KeyDroppedUnheld

(* The key the dashboard knows a computer by is never lost: a computer    *)
(* that is set to link has it, and a join drops only a key nobody holds.  *)
THEOREM KeysAreKept == Spec => KeysKept
<1> QED BY JoinedMachinesHaveTheirKey, DroppedKeysUnheld, PTL DEF KeysKept

================================================================================
