------------------------- MODULE ConnManagerProofs -------------------------
(***************************************************************************)
(* Proofs about ConnManager for any sets of connections, users, workers    *)
(* and client types, and any slave limit.                                  *)
(*                                                                         *)
(* The invariant that carries the safety properties follows the winner of  *)
(* the CompareAndSwap in ModifyAfterAuthed: until it has written the uid   *)
(* the connection is authed and nobody else can kick or authenticate it;   *)
(* afterwards the uid stays, and only the connections of one uid meet in a *)
(* wrap.                                                                   *)
(*                                                                         *)
(* The last part shows that ConnManager implements DeviceLists.            *)
(***************************************************************************)
EXTENDS ConnManager, SequenceLemmas

\* The winner of a connection's CompareAndSwap, unique; its uid is not written
\* while it waits for the lock, and is its own afterwards.
WinnerInv ==
  /\ \A p, q \in Workers :
       PastCas(p) /\ PastCas(q) /\ p # q => job[p].c # job[q].c
  /\ \A p \in Workers :
       /\ (PastCas(p) => state[job[p].c] # "opened")
       /\ (job[p].pc = "lock" =>
             state[job[p].c] = "authed" /\ uid[job[p].c] = NoUid)
       /\ (job[p].pc \in {"publish", "offer"} => uid[job[p].c] = job[p].u)
  /\ \A c \in Conns : uid[c] # NoUid => state[c] # "opened"

\* Only connections whose uid is written are checked for pings, and only the
\* taker that set a connection to closing moves it to closed.
CheckInv ==
  /\ \A c \in Conns : Task("pingExpired", c) \in dq => uid[c] # NoUid
  /\ (taker.pc \in {"cas", "close"} /\ taker.type = "pingExpired" =>
        uid[taker.c] # NoUid)
  /\ (taker.pc = "close" => state[taker.c] = "closing")

\* All connections of a wrap, published or not, have the uid of the connection
\* that created it, and uid2conn files the wrap under that uid.
OwnerInv ==
  /\ \A w \in Conns : \A c \in ToSet(conns[w]) :
       uid[c] = uid[w] /\ uid[c] # NoUid
  /\ \A u \in Users : uid2conn[u] # NoConn => uid[uid2conn[u]] = u

IndInv == TypeOK /\ WinnerInv /\ CheckInv /\ OwnerInv

-----------------------------------------------------------------------------
(* Type correctness *)

LEMMA LevelOfType == \A t : LevelOf(t) \in Levels
BY DEF LevelOf, Levels

\* The null records have their types, and moving a thread to another pc changes
\* its pc only.
LEMMA IdleTypes ==
  /\ JobIdle \in JobType /\ JobIdle.pc = "idle"
  /\ CleanIdle \in CleanType /\ CleanIdle.pc = "idle"
  /\ \A pc \in {"take", "spin"} : TakerAt(pc) \in TakerType /\ TakerAt(pc).pc = pc
BY DEF JobIdle, CleanIdle, TakerAt, JobType, CleanType, TakerType, Levels, TaskTypes

LEMMA GoToType ==
  ASSUME job \in [Workers -> JobType], NEW p \in Workers,
         NEW pc \in {"idle", "rpc", "lock", "publish", "offer"}, GoTo(p, pc)
  PROVE  /\ job' \in [Workers -> JobType]
         /\ \A q \in Workers : /\ job'[q].c = job[q].c
                               /\ job'[q].u = job[q].u
                               /\ job'[q].level = job[q].level
                               /\ job'[q].pc = IF q = p THEN pc ELSE job[q].pc
<1> DEFINE r == [job[p] EXCEPT !.pc = pc]
<1>1. /\ r \in JobType /\ r.pc = pc /\ r.c = job[p].c /\ r.u = job[p].u
      /\ r.level = job[p].level
  BY DEF JobType
<1>2. job' = [job EXCEPT ![p] = r]
  BY DEF GoTo
<1> HIDE DEF r
<1> QED  BY <1>1, <1>2

LEMMA InitType == Init => TypeOK
<1> SUFFICES ASSUME Init PROVE TypeOK
  OBVIOUS
<1> USE ConnAssumption DEF Init
<1>1. conns \in [Conns -> Seq(Conns)] /\ level2conn \in [Conns -> [Levels -> Seq(Conns)]]
  OBVIOUS
<1>2. taker \in TakerType /\ taker.pc = "take"
  BY IdleTypes
<1>3. job \in [Workers -> JobType] /\ \A p \in Workers : job[p].pc = "idle"
  BY IdleTypes
<1>4. clean \in [Conns -> CleanType] /\ \A c \in Conns : clean[c].pc = "idle"
  BY IdleTypes
<1>5. /\ state \in [Conns -> States]
      /\ clevel \in [Conns -> Levels \cup {"unset"}]
  BY DEF States
<1> QED  BY <1>1, <1>2, <1>3, <1>4, <1>5 DEF TypeOK

\* A new wrap, or one more connection in a wrap, keeps lists of connections.
LEMMA WrapTypes ==
  ASSUME TypeOK, NEW c \in Conns, NEW w \in Conns, NEW u \in Users,
         NEW level \in Levels
  PROVE  /\ NewWrap(c, u, level) =>
              /\ uid2conn' \in [Users -> Conns \cup {NoConn}]
              /\ conns' \in [Conns -> Seq(Conns)]
              /\ level2conn' \in [Conns -> [Levels -> Seq(Conns)]]
         /\ JoinMaster(c, w) \/ JoinSlave(c, w) =>
              /\ conns' \in [Conns -> Seq(Conns)]
              /\ level2conn' \in [Conns -> [Levels -> Seq(Conns)]]
<1>0. \A s \in Seq(Conns) : /\ Append(s, c) \in Seq(Conns)
                            /\ \A e : RemoveFirst(s, e) \in Seq(Conns)
                            /\ s # <<>> => Tail(s) \in Seq(Conns)
                            /\ Append(s, c) # <<>>
  <2>1. ASSUME NEW s \in Seq(Conns)
        PROVE  Append(s, c) \in Seq(Conns) /\ Append(s, c) # <<>>
    BY AppendProperties
  <2>2. ASSUME NEW s \in Seq(Conns), NEW e
        PROVE  RemoveFirst(s, e) \in Seq(Conns)
    BY RemoveFirstType
  <2>3. ASSUME NEW s \in Seq(Conns), s # <<>>
        PROVE  Tail(s) \in Seq(Conns)
    BY <2>3, HeadTailProperties
  <2> QED  BY <2>1, <2>2, <2>3
<1> USE DEF TypeOK
<1>1. <<c>> \in Seq(Conns) /\ <<>> \in Seq(Conns) /\ "master" \in Levels /\ "slave" \in Levels
  BY DEF Levels
<1>2. ASSUME NewWrap(c, u, level)
      PROVE  /\ uid2conn' \in [Users -> Conns \cup {NoConn}]
             /\ conns' \in [Conns -> Seq(Conns)]
             /\ level2conn' \in [Conns -> [Levels -> Seq(Conns)]]
  BY <1>1, <1>2 DEF NewWrap
<1>3. ASSUME JoinMaster(c, w)
      PROVE  /\ conns' \in [Conns -> Seq(Conns)]
             /\ level2conn' \in [Conns -> [Levels -> Seq(Conns)]]
  <2> DEFINE all == Append(conns[w], c)
             old == level2conn[w]["master"]
             new == IF old # <<>> THEN RemoveFirst(all, Head(old)) ELSE all
  <2>1. all \in Seq(Conns) /\ new \in Seq(Conns)
    BY <1>0
  <2>2. conns' = [conns EXCEPT ![w] = new]
    BY <1>3 DEF JoinMaster
  <2> HIDE DEF new, all, old
  <2>3. conns' \in [Conns -> Seq(Conns)]
    BY <2>1, <2>2
  <2>4. level2conn' = [level2conn EXCEPT ![w]["master"] = <<c>>]
    BY <1>3 DEF JoinMaster
  <2> QED  BY <2>3, <2>4, <1>1
<1>4. ASSUME JoinSlave(c, w)
      PROVE  /\ conns' \in [Conns -> Seq(Conns)]
             /\ level2conn' \in [Conns -> [Levels -> Seq(Conns)]]
  <2> DEFINE all == Append(conns[w], c)
             slaves == Append(level2conn[w]["slave"], c)
             over == Len(slaves) > MaxSlaveConns
             new == IF over THEN RemoveFirst(all, Head(slaves)) ELSE all
             newSlaves == IF over THEN Tail(slaves) ELSE slaves
  <2>1. all \in Seq(Conns) /\ new \in Seq(Conns)
    BY <1>0
  <2>2. newSlaves \in Seq(Conns)
    <3>1. level2conn[w]["slave"] \in Seq(Conns)
      BY <1>1
    <3>2. slaves \in Seq(Conns) /\ slaves # <<>>
      BY <3>1, <1>0
    <3> HIDE DEF slaves
    <3> QED  BY <3>2, <1>0
  <2>3. /\ conns' = [conns EXCEPT ![w] = new]
        /\ level2conn' = [level2conn EXCEPT ![w]["slave"] = newSlaves]
    BY <1>4 DEF JoinSlave
  <2> HIDE DEF new, newSlaves, over, slaves, all
  <2> QED  BY <2>1, <2>2, <2>3, <1>1
<1> QED  BY <1>2, <1>3, <1>4

LEMMA StepType == TypeOK /\ [Next]_vars => TypeOK'
<1> SUFFICES ASSUME TypeOK, [Next]_vars PROVE TypeOK'
  OBVIOUS
<1> USE ConnAssumption, IdleTypes
<1> USE DEF TypeOK
<1>1. ASSUME NEW c \in Conns, OnOpen(c) PROVE TypeOK'
  BY <1>1 DEF OnOpen, Task, TaskTypes, wrapVars
<1>2. ASSUME NEW c \in Conns, OnPing(c) PROVE TypeOK'
  BY <1>2 DEF OnPing, checkVars, wrapVars
<1>3. ASSUME NEW c \in Conns, SocketCloses(c) PROVE TypeOK'
  BY <1>3 DEF SocketCloses, checkVars, wrapVars
<1>4. ASSUME NEW c \in Conns, PingGoesStale(c) PROVE TypeOK'
  BY <1>4 DEF PingGoesStale, checkVars, wrapVars
<1>5. ASSUME NEW c \in Conns, CleanGetAndDel(c) PROVE TypeOK'
  <2> DEFINE pc == IF c \in connId2conn THEN "uid" ELSE "end"
             r == [clean[c] EXCEPT !.pc = pc]
  <2>1. /\ clean' = [clean EXCEPT ![c] = r]
        /\ sock' = [sock EXCEPT ![c] = "closed"]
        /\ connId2conn' = connId2conn \ {c}
        /\ UNCHANGED <<state, uid, clevel, lastPing, wrapVars, checkVars, job>>
    BY <1>5 DEF CleanGetAndDel
  <2>2. r \in CleanType /\ r.pc \in {"uid", "end"}
    BY ZenonT(40) DEF CleanType
  <2> HIDE DEF r
  <2> QED  BY <2>1, <2>2 DEF checkVars, wrapVars
<1>6. ASSUME NEW c \in Conns, CleanReadUid(c) PROVE TypeOK'
  <2> DEFINE end == [CleanIdle EXCEPT !.pc = "end"]
             go == [CleanIdle EXCEPT !.pc = "level", !.w = uid2conn[uid[c]]]
  <2>1. CASE uid[c] = NoUid \/ uid2conn[uid[c]] = NoConn
    <3>1. end \in CleanType /\ end.pc = "end"
      BY DEF CleanIdle, CleanType
    <3>2. clean' = [clean EXCEPT ![c] = end]
      BY <1>6, <2>1 DEF CleanReadUid
    <3>3. UNCHANGED <<connVars, wrapVars, checkVars, job>>
      BY <1>6 DEF CleanReadUid
    <3> HIDE DEF end
    <3> QED  BY <3>1, <3>2, <3>3 DEF checkVars, wrapVars, connVars
  <2>2. CASE ~(uid[c] = NoUid \/ uid2conn[uid[c]] = NoConn)
    <3>1. uid[c] \in Users /\ uid2conn[uid[c]] \in Conns
      BY <2>2
    <3>2. go \in CleanType /\ go.pc = "level" /\ go.w = uid2conn[uid[c]]
      BY <3>1 DEF CleanIdle, CleanType
    <3>3. clean' = [clean EXCEPT ![c] = go]
      BY <1>6, <2>2 DEF CleanReadUid
    <3> HIDE DEF go
    <3> QED  BY <1>6, <3>1, <3>2, <3>3 DEF CleanReadUid, checkVars, wrapVars, connVars
  <2> QED  BY <2>1, <2>2
<1>7. ASSUME NEW c \in Conns, CleanReadLevel(c) PROVE TypeOK'
  <2> DEFINE m == clevel[c] = "master"
             r == [clean[c] EXCEPT !.pc = "lock", !.isMaster = m]
  <2>1. clean[c].pc = "level" /\ UNCHANGED <<connVars, wrapVars, checkVars, job>>
        /\ clean' = [clean EXCEPT ![c] = r]
    BY <1>7 DEF CleanReadLevel
  <2>2. m \in BOOLEAN
    OBVIOUS
  <2> HIDE DEF m
  <2>3. r \in CleanType /\ r.pc = "lock" /\ r.w = clean[c].w
    BY <2>2, ZenonT(40) DEF CleanType
  <2> HIDE DEF r
  <2> QED  BY <2>1, <2>3 DEF checkVars, wrapVars, connVars
<1>8. ASSUME NEW c \in Conns, CleanLocked(c) PROVE TypeOK'
  <2> DEFINE w == clean[c].w
             left == RemoveFirst(conns[w], c)
             slaves == RemoveFirst(level2conn[w]["slave"], c)
             end == [CleanIdle EXCEPT !.pc = "end"]
  <2>1. w \in Conns /\ uid[c] \in Users /\ "master" \in Levels /\ "slave" \in Levels
    BY <1>8 DEF CleanLocked, Levels
  <2>2. left \in Seq(Conns) /\ slaves \in Seq(Conns) /\ <<>> \in Seq(Conns)
    BY <2>1, RemoveFirstType
  <2>3. /\ conns' = [conns EXCEPT ![w] = left]
        /\ \/ level2conn' = [level2conn EXCEPT ![w]["master"] = <<>>]
           \/ level2conn' = [level2conn EXCEPT ![w]["slave"] = slaves]
        /\ uid2conn' \in {uid2conn, [uid2conn EXCEPT ![uid[c]] = NoConn]}
        /\ clean' = [clean EXCEPT ![c] = end]
        /\ UNCHANGED <<connVars, segLock, checkVars, job>>
    BY <1>8 DEF CleanLocked
  <2>4. end \in CleanType /\ end.pc = "end"
    BY DEF CleanIdle, CleanType
  <2> HIDE DEF left, w, slaves, end
  <2>5. /\ conns' \in [Conns -> Seq(Conns)]
        /\ uid2conn' \in [Users -> Conns \cup {NoConn}]
        /\ level2conn' \in [Conns -> [Levels -> Seq(Conns)]]
    <3>1. \A l \in Levels, s \in Seq(Conns) :
            [level2conn EXCEPT ![w][l] = s] \in [Conns -> [Levels -> Seq(Conns)]]
      BY <2>1
    <3>2. level2conn' \in [Conns -> [Levels -> Seq(Conns)]]
      <4>1. CASE level2conn' = [level2conn EXCEPT ![w]["master"] = <<>>]
        BY <4>1, <2>1, <2>2, <3>1
      <4>2. CASE level2conn' = [level2conn EXCEPT ![w]["slave"] = slaves]
        BY <4>2, <2>1, <2>2, <3>1
      <4> QED  BY <4>1, <4>2, <2>3
    <3> QED  BY <2>1, <2>2, <2>3, <3>2
  <2> QED  BY <2>3, <2>4, <2>5 DEF connVars, checkVars
<1>9. ASSUME NEW c \in Conns, NEW p \in Workers, OnConnFrame(c, p) PROVE TypeOK'
  <2> DEFINE j == [JobIdle EXCEPT !.pc = "rpc", !.c = c]
  <2>1. j \in JobType /\ j.pc = "rpc" /\ j.c = c
    BY DEF JobIdle, JobType, Levels
  <2>2. job' = [job EXCEPT ![p] = j] /\ UNCHANGED <<connVars, wrapVars, checkVars, clean>>
    BY <1>9 DEF OnConnFrame
  <2> HIDE DEF j
  <2> QED  BY <2>1, <2>2 DEF connVars, checkVars, wrapVars
<1>10. ASSUME NEW p \in Workers, ConnFrameUndecodable(p) PROVE TypeOK'
  BY <1>10 DEF ConnFrameUndecodable, checkVars, wrapVars
<1>11. ASSUME NEW p \in Workers, UserStateFails(p) PROVE TypeOK'
  BY <1>11 DEF UserStateFails, connVars, checkVars, wrapVars
<1>12. ASSUME NEW p \in Workers, NEW u \in Users, NEW t \in CTypes,
              UserStateOk(p, u, t)
       PROVE  TypeOK'
  <2> DEFINE j == [pc |-> "lock", c |-> job[p].c, u |-> u, level |-> LevelOf(t)]
  <2>1. job[p].c \in Conns
        /\ UNCHANGED <<sock, connId2conn, uid, clevel, lastPing, wrapVars,
                       checkVars, clean>>
    BY <1>12 DEF UserStateOk
  <2>2. CASE /\ state' = [state EXCEPT ![job[p].c] = "authed"]
             /\ job' = [job EXCEPT ![p] = j]
    <3>1. "authed" \in States
      BY DEF States
    <3>2. j \in JobType /\ j.pc = "lock" /\ j.c \in Conns /\ j.u \in Users
      BY <2>1, LevelOfType DEF JobType
    <3> HIDE DEF j
    <3> QED  BY <2>1, <2>2, <3>1, <3>2 DEF checkVars, wrapVars
  <2>3. CASE state' = state /\ job' = [job EXCEPT ![p] = JobIdle]
    BY <2>1, <2>3 DEF checkVars, wrapVars
  <2> QED  BY <1>12, <2>2, <2>3 DEF UserStateOk
<1>13. ASSUME NEW p \in Workers, ModifyLock(p) PROVE TypeOK'
  <2>1. job[p].pc = "lock" /\ job[p].c \in Conns /\ job[p].u \in Users
    BY <1>13 DEF ModifyLock
  <2>2. /\ segLock' = [segLock EXCEPT ![job[p].u] = TRUE]
        /\ uid' = [uid EXCEPT ![job[p].c] = job[p].u]
        /\ GoTo(p, "publish")
        /\ UNCHANGED <<sock, connId2conn, state, clevel, lastPing, uid2conn, conns,
                       level2conn, checkVars, clean>>
    BY <1>13 DEF ModifyLock
  <2>3. /\ job' \in [Workers -> JobType]
        /\ \A q \in Workers : /\ job'[q].c = job[q].c /\ job'[q].u = job[q].u
                              /\ job'[q].pc = IF q = p THEN "publish" ELSE job[q].pc
    BY <2>2, GoToType
  <2>4. uid' \in [Conns -> Users \cup {NoUid}]
        /\ \A c \in Conns : uid[c] \in Users => uid'[c] \in Users
    BY <2>1, <2>2
  <2> QED  BY <2>1, <2>2, <2>3, <2>4 DEF checkVars
<1>14. ASSUME NEW p \in Workers, ModifyPublish(p) PROVE TypeOK'
  <2> DEFINE c == job[p].c
             u == job[p].u
             w == uid2conn[u]
  <2>1. c \in Conns /\ u \in Users /\ job[p].level \in Levels
        /\ w \in Conns \cup {NoConn}
    BY <1>14 DEF ModifyPublish, JobType
  <2>2. /\ uid2conn' \in [Users -> Conns \cup {NoConn}]
        /\ conns' \in [Conns -> Seq(Conns)]
        /\ level2conn' \in [Conns -> [Levels -> Seq(Conns)]]
    <3>1. CASE w = NoConn
      <4>1. NewWrap(c, u, job[p].level)
        BY <1>14, <3>1 DEF ModifyPublish
      <4> QED  BY <2>1, <4>1, WrapTypes
    <3>2. CASE w # NoConn
      <4>1. (JoinMaster(c, w) \/ JoinSlave(c, w)) /\ uid2conn' = uid2conn
        BY <1>14, <3>2 DEF ModifyPublish
      <4> QED  BY <2>1, <3>2, <4>1, WrapTypes
    <3> QED  BY <3>1, <3>2
  <2>3. /\ clevel' = [clevel EXCEPT ![c] = job[p].level]
        /\ lastPing' = [lastPing EXCEPT ![c] = "fresh"]
        /\ segLock' = [segLock EXCEPT ![u] = FALSE]
        /\ GoTo(p, "offer") /\ job[p].pc = "publish"
        /\ UNCHANGED <<sock, connId2conn, state, uid, checkVars, clean>>
    BY <1>14 DEF ModifyPublish
  <2>4. /\ job' \in [Workers -> JobType]
        /\ \A q \in Workers : /\ job'[q].c = job[q].c /\ job'[q].u = job[q].u
                              /\ job'[q].pc = IF q = p THEN "offer" ELSE job[q].pc
    BY <2>3, GoToType
  <2>5. /\ clevel' \in [Conns -> Levels \cup {"unset"}]
        /\ lastPing' \in [Conns -> {"unset", "fresh", "stale"}]
        /\ segLock' \in [Users -> BOOLEAN]
    BY <2>1, <2>3
  <2> QED  BY <2>2, <2>3, <2>4, <2>5 DEF checkVars
<1>15. ASSUME NEW p \in Workers, ModifyOffer(p) PROVE TypeOK'
  BY <1>15 DEF ModifyOffer, Task, TaskTypes, connVars, wrapVars
<1>16. ASSUME NEW d \in TaskTypes, NEW c \in Conns, TakerTake(d, c) PROVE TypeOK'
  BY <1>16 DEF TakerTake, TakerLoops, TakerType, Task, TaskTypes, connVars, wrapVars
<1>17. ASSUME TakerCas PROVE TypeOK'
  <2>1. /\ taker.pc = "cas"
        /\ UNCHANGED <<sock, connId2conn, uid, clevel, lastPing, wrapVars, dq, done,
                       job, clean>>
    BY <1>17 DEF TakerCas
  <2>2. CASE /\ state' = [state EXCEPT ![taker.c] = "closing"]
             /\ taker' = [taker EXCEPT !.pc = "close"]
    <3>1. taker' \in TakerType /\ taker'.c = taker.c /\ taker'.pc = "close"
      BY <2>2 DEF TakerType
    <3>2. state' \in [Conns -> States]
      BY <2>2 DEF States
    <3> QED  BY <2>1, <3>1, <3>2 DEF wrapVars
  <2>3. CASE TakerLoops /\ UNCHANGED state
    BY <2>1, <2>3 DEF TakerLoops, wrapVars
  <2> QED  BY <1>17, <2>2, <2>3 DEF TakerCas, TakerGoTo
<1>18. ASSUME TakerClose PROVE TypeOK'
  BY <1>18 DEF TakerClose, TakerLoops, States, wrapVars
<1>19. ASSUME GracefulStop PROVE TypeOK'
  BY <1>19 DEF GracefulStop, connVars, wrapVars
<1>20. ASSUME UNCHANGED vars PROVE TypeOK'
  BY <1>20 DEF vars, connVars, wrapVars, checkVars
<1> QED
  BY <1>1, <1>2, <1>3, <1>4, <1>5, <1>6, <1>7, <1>8, <1>9, <1>10, <1>11, <1>12,
     <1>13, <1>14, <1>15, <1>16, <1>17, <1>18, <1>19, <1>20
  DEF Next, CleanStep, WorkerStep, TakerStep

\* Every variable of the connection manager keeps its type, for any number of
\* connections, users and workers.
THEOREM TypeCorrect == Spec => []TypeOK
BY InitType, StepType, PTL DEF Spec

-----------------------------------------------------------------------------
(* The inductive invariant *)

LEMMA InitInd == Init => IndInv
<1> SUFFICES ASSUME Init PROVE WinnerInv /\ CheckInv /\ OwnerInv
  BY InitType DEF IndInv
<1> USE ConnAssumption, IdleTypes DEF Init
<1>1. WinnerInv
  BY DEF WinnerInv, PastCas
<1>2. CheckInv
  BY DEF CheckInv, Task
<1>3. OwnerInv
  BY DEF OwnerInv, ToSet
<1> QED  BY <1>1, <1>2, <1>3

\* Only a worker's own step, the write of a uid and a change of state concern
\* the winners.
LEMMA WinnerStep == IndInv /\ [Next]_vars => WinnerInv'
<1> SUFFICES ASSUME IndInv, [Next]_vars PROVE WinnerInv'
  OBVIOUS
<1> USE ConnAssumption, IdleTypes DEF IndInv
<1>0. ASSUME UNCHANGED <<state, uid, job>> PROVE WinnerInv'
  BY <1>0 DEF WinnerInv, PastCas
<1>1. ASSUME NEW c \in Conns,
             OnOpen(c) \/ OnPing(c) \/ SocketCloses(c) \/ PingGoesStale(c) \/ CleanStep(c)
      PROVE  WinnerInv'
  BY <1>0, <1>1 DEF OnOpen, OnPing, SocketCloses, PingGoesStale, CleanStep,
       CleanGetAndDel, CleanReadUid, CleanReadLevel, CleanLocked, connVars
\* A worker that is not past the CompareAndSwap afterwards disturbs nothing.
<1>2. ASSUME NEW p \in Workers, NEW j \in JobType,
             j.pc \in {"idle", "rpc"}, job' = [job EXCEPT ![p] = j],
             UNCHANGED <<state, uid>>
      PROVE  WinnerInv'
  BY <1>2 DEF WinnerInv, PastCas, TypeOK
<1>3. ASSUME NEW c \in Conns, NEW p \in Workers, OnConnFrame(c, p)
      PROVE  WinnerInv'
  <2> DEFINE j == [JobIdle EXCEPT !.pc = "rpc", !.c = c]
  <2>1. j \in JobType /\ j.pc = "rpc"
    BY DEF JobIdle, JobType, Levels
  <2>2. job' = [job EXCEPT ![p] = j] /\ UNCHANGED <<state, uid>>
    BY <1>3 DEF OnConnFrame, connVars
  <2> HIDE DEF j
  <2> QED  BY <1>2, <2>1, <2>2
<1>4. ASSUME NEW p \in Workers,
             ConnFrameUndecodable(p) \/ UserStateFails(p) \/ ModifyOffer(p)
      PROVE  WinnerInv'
  <2>1. job' = [job EXCEPT ![p] = JobIdle] /\ UNCHANGED <<state, uid>>
    BY <1>4 DEF ConnFrameUndecodable, UserStateFails, ModifyOffer, connVars
  <2> QED  BY <1>2, <2>1
<1>5. ASSUME NEW p \in Workers, NEW u \in Users, NEW t \in CTypes,
             UserStateOk(p, u, t)
      PROVE  WinnerInv'
  <2> DEFINE c == job[p].c
             j == [pc |-> "lock", c |-> c, u |-> u, level |-> LevelOf(t)]
  <2>1. c \in Conns /\ job[p].pc = "rpc" /\ uid' = uid
    BY <1>5 DEF UserStateOk, TypeOK
  <2>2. CASE state[c] = "opened" /\ state' = [state EXCEPT ![c] = "authed"]
             /\ job' = [job EXCEPT ![p] = j]
    <3>1. j.pc = "lock" /\ j.c = c
      OBVIOUS
    <3> HIDE DEF j
    <3>2. \A q \in Workers : PastCas(q) => job[q].c # c
      BY <2>2 DEF WinnerInv
    <3>3. /\ job'[p].pc = "lock" /\ job'[p].c = c
          /\ \A q \in Workers : q # p => job'[q] = job[q]
          /\ state'[c] = "authed"
          /\ \A d \in Conns : d # c => state'[d] = state[d]
      BY <2>1, <2>2, <3>1 DEF TypeOK
    <3>4. uid[c] = NoUid
      BY <2>1, <2>2 DEF WinnerInv
    <3>5. \A q \in Workers : q # p /\ PastCas(q) => job[q].c \in Conns
      BY DEF TypeOK, PastCas
    <3> QED  BY <2>1, <3>2, <3>3, <3>4, <3>5 DEF WinnerInv, PastCas
  <2>3. CASE state' = state /\ job' = [job EXCEPT ![p] = JobIdle]
    BY <1>2, <2>1, <2>3
  <2> QED  BY <1>5, <2>2, <2>3 DEF UserStateOk
<1>6. ASSUME NEW p \in Workers, ModifyLock(p) PROVE WinnerInv'
  <2> DEFINE c == job[p].c
  <2>1. /\ job[p].pc = "lock" /\ c \in Conns /\ job[p].u \in Users
        /\ GoTo(p, "publish") /\ uid' = [uid EXCEPT ![c] = job[p].u]
        /\ state' = state
    BY <1>6 DEF ModifyLock, TypeOK
  <2>2. \A q \in Workers : /\ job'[q].c = job[q].c /\ job'[q].u = job[q].u
                           /\ job'[q].pc = IF q = p THEN "publish" ELSE job[q].pc
    BY <2>1, GoToType DEF TypeOK
  <2>3. /\ uid'[c] = job[p].u
        /\ \A d \in Conns : d # c => uid'[d] = uid[d]
    BY <2>1 DEF TypeOK
  <2>4. \A q \in Workers : q # p /\ PastCas(q) => job[q].c \in Conns /\ job[q].c # c
    BY <2>1 DEF WinnerInv, PastCas, TypeOK
  <2>5. state[c] = "authed"
    BY <2>1 DEF WinnerInv
  <2> QED  BY <2>1, <2>2, <2>3, <2>4, <2>5 DEF WinnerInv, PastCas
<1>7. ASSUME NEW p \in Workers, ModifyPublish(p) PROVE WinnerInv'
  <2>1. job[p].pc = "publish" /\ GoTo(p, "offer") /\ UNCHANGED <<state, uid>>
    BY <1>7 DEF ModifyPublish
  <2>2. \A q \in Workers : /\ job'[q].c = job[q].c /\ job'[q].u = job[q].u
                           /\ job'[q].pc = IF q = p THEN "offer" ELSE job[q].pc
    BY <2>1, GoToType DEF TypeOK
  <2> QED  BY <2>1, <2>2 DEF WinnerInv, PastCas
<1>8. ASSUME NEW d \in TaskTypes, NEW c \in Conns, TakerTake(d, c) PROVE WinnerInv'
  BY <1>0, <1>8 DEF TakerTake, connVars
\* An auth check only takes a connection away that nobody has won, a ping check
\* only one whose uid is written.
<1>9. ASSUME TakerCas PROVE WinnerInv'
  <2> DEFINE c == taker.c
  <2>1. taker.pc = "cas" /\ c \in Conns /\ UNCHANGED <<uid, job>>
    BY <1>9 DEF TakerCas, TypeOK
  <2>2. CASE state' = state
    BY <1>0, <2>1, <2>2
  <2>3. CASE /\ state[c] = IF taker.type = "authExpired" THEN "opened" ELSE "authed"
             /\ state' = [state EXCEPT ![c] = "closing"]
    <3>1. state'[c] = "closing" /\ \A d \in Conns : d # c => state'[d] = state[d]
      BY <2>1, <2>3 DEF TypeOK
    <3>2. \A q \in Workers : PastCas(q) => job[q].c \in Conns
      BY DEF TypeOK, PastCas
    <3>3. \A q \in Workers : job[q].pc = "lock" => job[q].c # c
      <4>1. CASE taker.type = "authExpired"
        BY <2>3, <4>1 DEF WinnerInv
      <4>2. CASE taker.type = "pingExpired"
        BY <2>1, <4>2 DEF WinnerInv, CheckInv
      <4> QED  BY <4>1, <4>2 DEF TypeOK, TakerType, TaskTypes
    <3> QED  BY <2>1, <3>1, <3>2, <3>3 DEF WinnerInv, PastCas
  <2> QED  BY <1>9, <2>2, <2>3 DEF TakerCas
<1>10. ASSUME TakerClose PROVE WinnerInv'
  <2> DEFINE c == taker.c
  <2>1. /\ taker.pc = "close" /\ c \in Conns /\ UNCHANGED <<uid, job>>
        /\ state' = [state EXCEPT ![c] = "closed"]
    BY <1>10 DEF TakerClose, TypeOK
  <2>2. state'[c] = "closed" /\ \A d \in Conns : d # c => state'[d] = state[d]
    BY <2>1 DEF TypeOK
  <2>3. \A q \in Workers : PastCas(q) => job[q].c \in Conns
    BY DEF TypeOK, PastCas
  <2>4. \A q \in Workers : job[q].pc = "lock" => job[q].c # c
    BY <2>1 DEF WinnerInv, CheckInv
  <2> QED  BY <2>1, <2>2, <2>3, <2>4 DEF WinnerInv, PastCas
<1>11. ASSUME GracefulStop \/ UNCHANGED vars PROVE WinnerInv'
  BY <1>0, <1>11 DEF GracefulStop, vars, connVars
<1> QED
  BY <1>1, <1>3, <1>4, <1>5, <1>6, <1>7, <1>8, <1>9, <1>10, <1>11
  DEF Next, WorkerStep, TakerStep

\* A ping check is only queued for a connection whose uid is written.
LEMMA CheckStep == IndInv /\ [Next]_vars => CheckInv'
<1> SUFFICES ASSUME IndInv, [Next]_vars PROVE CheckInv'
  OBVIOUS
<1> USE ConnAssumption, IdleTypes DEF IndInv
<1>0. ASSUME UNCHANGED <<state, uid, dq, taker>> PROVE CheckInv'
  BY <1>0 DEF CheckInv
<1>1. ASSUME NEW c \in Conns, OnOpen(c) PROVE CheckInv'
  BY <1>1 DEF OnOpen, CheckInv, Task
<1>2. ASSUME NEW c \in Conns,
             OnPing(c) \/ SocketCloses(c) \/ PingGoesStale(c) \/ CleanStep(c)
      PROVE  CheckInv'
  BY <1>0, <1>2 DEF OnPing, SocketCloses, PingGoesStale, CleanStep,
       CleanGetAndDel, CleanReadUid, CleanReadLevel, CleanLocked, connVars, checkVars
<1>3. ASSUME NEW p \in Workers,
             \/ \E c \in Conns : OnConnFrame(c, p)
             \/ ConnFrameUndecodable(p) \/ UserStateFails(p) \/ ModifyPublish(p)
      PROVE  CheckInv'
  BY <1>0, <1>3 DEF OnConnFrame, ConnFrameUndecodable, UserStateFails,
       ModifyPublish, connVars, checkVars
<1>4. ASSUME NEW p \in Workers, NEW u \in Users, NEW t \in CTypes,
             UserStateOk(p, u, t)
      PROVE  CheckInv'
  <2> DEFINE c == job[p].c
  <2>1. UNCHANGED <<uid, dq, taker>>
    BY <1>4 DEF UserStateOk, checkVars
  <2>2. CASE state' = state
    BY <1>0, <2>1, <2>2
  <2>3. CASE state[c] = "opened" /\ state' = [state EXCEPT ![c] = "authed"]
    <3>1. \A d \in Conns : state[d] = "closing" => state'[d] = "closing"
      BY <2>3 DEF TypeOK
    <3>2. taker.pc = "close" => taker.c \in Conns
      BY DEF TypeOK
    <3> QED  BY <2>1, <3>1, <3>2 DEF CheckInv
  <2> QED  BY <1>4, <2>2, <2>3 DEF UserStateOk
<1>5. ASSUME NEW p \in Workers, ModifyLock(p) PROVE CheckInv'
  <2>1. /\ UNCHANGED <<state, dq, taker>>
        /\ uid' = [uid EXCEPT ![job[p].c] = job[p].u]
        /\ job[p].u # NoUid
    BY <1>5 DEF ModifyLock, checkVars, TypeOK
  <2>2. \A d \in Conns : uid[d] # NoUid => uid'[d] # NoUid
    BY <2>1 DEF TypeOK
  <2>3. taker.pc \in {"cas", "close"} => taker.c \in Conns
    BY DEF TypeOK
  <2> QED  BY <2>1, <2>2, <2>3 DEF CheckInv
<1>6. ASSUME NEW p \in Workers, ModifyOffer(p) PROVE CheckInv'
  <2>1. /\ UNCHANGED <<state, uid, taker>>
        /\ dq' = dq \cup {Task("pingExpired", job[p].c)}
        /\ job[p].pc = "offer" /\ job[p].u # NoUid
    BY <1>6 DEF ModifyOffer, connVars, TypeOK
  <2>2. uid[job[p].c] # NoUid
    BY <2>1 DEF WinnerInv
  <2> QED  BY <2>1, <2>2 DEF CheckInv, Task
<1>7. ASSUME NEW d \in TaskTypes, NEW c \in Conns, TakerTake(d, c) PROVE CheckInv'
  <2>1. UNCHANGED <<state, uid>> /\ Task(d, c) \in dq /\ dq' \subseteq dq
    BY <1>7 DEF TakerTake, connVars
  <2>2. \/ taker' = [pc |-> "cas", type |-> d, c |-> c]
        \/ \E pc \in {"take", "spin"} : taker' = TakerAt(pc)
    BY <1>7 DEF TakerTake, TakerLoops
  <2>3. d = "pingExpired" => uid[c] # NoUid
    BY <2>1 DEF CheckInv
  <2> QED  BY <2>1, <2>2, <2>3 DEF CheckInv
<1>8. ASSUME TakerCas PROVE CheckInv'
  <2>1. taker.pc = "cas" /\ taker.c \in Conns /\ UNCHANGED <<uid, dq>>
    BY <1>8 DEF TakerCas, TypeOK
  <2>2. CASE /\ state' = [state EXCEPT ![taker.c] = "closing"]
             /\ taker' = [taker EXCEPT !.pc = "close"]
    <3>1. /\ taker'.pc = "close" /\ taker'.c = taker.c /\ taker'.type = taker.type
          /\ state'[taker.c] = "closing"
      BY <2>1, <2>2 DEF TypeOK, TakerType
    <3> QED  BY <2>1, <3>1 DEF CheckInv
  <2>3. CASE TakerLoops
    BY <2>1, <2>3 DEF CheckInv, TakerLoops
  <2> QED  BY <1>8, <2>2, <2>3 DEF TakerCas, TakerGoTo
<1>9. ASSUME TakerClose PROVE CheckInv'
  BY <1>9 DEF TakerClose, TakerLoops, CheckInv
<1>10. ASSUME GracefulStop \/ UNCHANGED vars PROVE CheckInv'
  BY <1>0, <1>10 DEF GracefulStop, vars, connVars, checkVars
<1> QED
  BY <1>1, <1>2, <1>3, <1>4, <1>5, <1>6, <1>7, <1>8, <1>9, <1>10
  DEF Next, WorkerStep, TakerStep

\* A connection enters only the wrap of its own uid, or creates its own wrap.
LEMMA OwnerStep == IndInv /\ [Next]_vars => OwnerInv'
<1> SUFFICES ASSUME IndInv, [Next]_vars PROVE OwnerInv'
  OBVIOUS
<1> USE ConnAssumption DEF IndInv
<1>0. ASSUME UNCHANGED <<uid, conns, uid2conn>> PROVE OwnerInv'
  BY <1>0 DEF OwnerInv
<1>t. \A w \in Conns : ToSet(conns[w]) \subseteq Conns
  BY DEF TypeOK, ToSet
<1>1. ASSUME NEW c \in Conns,
             OnOpen(c) \/ OnPing(c) \/ SocketCloses(c) \/ PingGoesStale(c)
               \/ CleanGetAndDel(c) \/ CleanReadUid(c) \/ CleanReadLevel(c)
      PROVE  OwnerInv'
  BY <1>0, <1>1 DEF OnOpen, OnPing, SocketCloses, PingGoesStale,
       CleanGetAndDel, CleanReadUid, CleanReadLevel, connVars, wrapVars
<1>2. ASSUME NEW c \in Conns, CleanLocked(c) PROVE OwnerInv'
  <2> DEFINE w == clean[c].w
             left == RemoveFirst(conns[w], c)
  <2>1. w \in Conns /\ uid' = uid
    BY <1>2 DEF CleanLocked, connVars, TypeOK
  <2>2. conns' = [conns EXCEPT ![w] = left]
        /\ uid2conn' \in {uid2conn, [uid2conn EXCEPT ![uid[c]] = NoConn]}
    BY <1>2 DEF CleanLocked
  <2>3. ToSet(left) \subseteq ToSet(conns[w])
    BY <2>1, RemoveFirstType DEF TypeOK
  <2> HIDE DEF left
  <2>4. \A v \in Conns : ToSet(conns'[v]) \subseteq ToSet(conns[v])
    BY <2>1, <2>2, <2>3 DEF TypeOK
  <2>5. \A u \in Users : uid2conn'[u] # NoConn => uid2conn'[u] = uid2conn[u]
    BY <2>2 DEF TypeOK
  <2> QED  BY <2>1, <2>4, <2>5 DEF OwnerInv
<1>3. ASSUME NEW p \in Workers,
             \/ \E c \in Conns : OnConnFrame(c, p)
             \/ ConnFrameUndecodable(p) \/ UserStateFails(p) \/ ModifyOffer(p)
             \/ \E u \in Users, t \in CTypes : UserStateOk(p, u, t)
      PROVE  OwnerInv'
  BY <1>0, <1>3 DEF OnConnFrame, ConnFrameUndecodable, UserStateFails, ModifyOffer,
       UserStateOk, connVars, wrapVars
<1>4. ASSUME NEW p \in Workers, ModifyLock(p) PROVE OwnerInv'
  <2> DEFINE c == job[p].c
  <2>1. /\ c \in Conns /\ uid[c] = NoUid /\ UNCHANGED <<conns, uid2conn>>
        /\ uid' = [uid EXCEPT ![c] = job[p].u]
    BY <1>4 DEF ModifyLock, WinnerInv, TypeOK
  <2>2. \A d \in Conns : uid[d] # NoUid => uid'[d] = uid[d]
    BY <2>1 DEF TypeOK
  <2>3. \A w \in Conns : \A d \in ToSet(conns[w]) :
          d \in Conns /\ uid[d] # NoUid /\ uid[w] # NoUid /\ uid[d] = uid[w]
    BY <1>t DEF OwnerInv
  <2>4. \A u \in Users : uid2conn[u] # NoConn =>
          uid2conn[u] \in Conns /\ uid[uid2conn[u]] # NoUid
    BY DEF OwnerInv, TypeOK
  <2> QED  BY <2>1, <2>2, <2>3, <2>4 DEF OwnerInv
<1>5. ASSUME NEW p \in Workers, ModifyPublish(p) PROVE OwnerInv'
  <2> DEFINE c == job[p].c
             u == job[p].u
             w == uid2conn[u]
  <2>1. /\ c \in Conns /\ u \in Users /\ uid[c] = u /\ u # NoUid
        /\ uid' = uid /\ w \in Conns \cup {NoConn}
    BY <1>5 DEF ModifyPublish, WinnerInv, TypeOK
  <2>2. CASE w = NoConn
    <3>1. /\ uid2conn' = [uid2conn EXCEPT ![u] = c]
          /\ conns' = [conns EXCEPT ![c] = <<c>>]
      BY <1>5, <2>2 DEF ModifyPublish, NewWrap
    <3>2. ToSet(<<c>>) = {c}
      BY DEF ToSet
    <3>3. ASSUME NEW v \in Conns, NEW d \in ToSet(conns'[v])
          PROVE  uid[d] = uid[v] /\ uid[d] # NoUid
      <4>1. CASE v = c
        BY <2>1, <3>1, <3>2, <3>3, <4>1 DEF TypeOK
      <4>2. CASE v # c
        BY <3>1, <3>3, <4>2 DEF OwnerInv, TypeOK
      <4> QED  BY <4>1, <4>2
    <3>4. \A x \in Users : uid2conn'[x] # NoConn => uid[uid2conn'[x]] = x
      BY <2>1, <3>1 DEF OwnerInv, TypeOK
    <3> QED  BY <2>1, <3>3, <3>4 DEF OwnerInv
  <2>3. CASE w # NoConn
    <3> DEFINE all == Append(conns[w], c)
    <3>1. w \in Conns /\ uid[w] = u /\ conns[w] \in Seq(Conns)
      BY <2>1, <2>3 DEF OwnerInv, TypeOK
    <3>2. all \in Seq(Conns) /\ ToSet(all) = ToSet(conns[w]) \cup {c}
      BY <2>1, <3>1, AppendSet
    <3>3. (JoinMaster(c, w) \/ JoinSlave(c, w)) /\ uid2conn' = uid2conn
      BY <1>5, <2>3 DEF ModifyPublish
    <3>4. PICK e : conns' = [conns EXCEPT ![w] = all]
                     \/ conns' = [conns EXCEPT ![w] = RemoveFirst(all, e)]
      BY <3>3 DEF JoinMaster, JoinSlave
    <3>5. ToSet(RemoveFirst(all, e)) \subseteq ToSet(all)
      BY <3>2, RemoveFirstType
    <3> HIDE DEF all
    <3>6. /\ ToSet(conns'[w]) \subseteq ToSet(conns[w]) \cup {c}
          /\ \A v \in Conns : v # w => conns'[v] = conns[v]
      BY <3>1, <3>2, <3>4, <3>5 DEF TypeOK
    <3> QED  BY <2>1, <3>1, <3>3, <3>6 DEF OwnerInv
  <2> QED  BY <2>2, <2>3
<1>6. ASSUME TakerStep \/ GracefulStop \/ UNCHANGED vars PROVE OwnerInv'
  BY <1>0, <1>6 DEF TakerStep, TakerTake, TakerCas, TakerClose, GracefulStop, vars,
       connVars, wrapVars
<1> QED
  BY <1>1, <1>2, <1>3, <1>4, <1>5, <1>6 DEF Next, CleanStep, WorkerStep

\* The invariant holds throughout.
THEOREM Inductive == Spec => []IndInv
<1>1. IndInv /\ [Next]_vars => IndInv'
  BY StepType, WinnerStep, CheckStep, OwnerStep DEF IndInv
<1> QED  BY InitInd, <1>1, PTL DEF Spec

-----------------------------------------------------------------------------
(* The safety properties *)

\* GetUserConns of a user never returns a connection that authenticated as
\* another user, whatever logins of one connection overlap.
THEOREM OwnUserOnly == Spec => []ConnsOfOwnUserOnly
<1>1. IndInv => ConnsOfOwnUserOnly
  <2> SUFFICES ASSUME IndInv, NEW u \in Users, NEW c \in UserConns(u)
               PROVE  uid[c] = u
    BY DEF ConnsOfOwnUserOnly
  <2>1. uid2conn[u] \in Conns /\ c \in ToSet(conns[uid2conn[u]])
    BY DEF UserConns, IndInv, TypeOK
  <2>2. uid[uid2conn[u]] = u
    BY <2>1, ConnAssumption DEF IndInv, OwnerInv
  <2>3. uid[c] = uid[uid2conn[u]]
    BY <2>1 DEF IndInv, OwnerInv
  <2> QED  BY <2>2, <2>3
<1> QED  BY Inductive, <1>1, PTL

\* The auth timeout and the authentication of a connection exclude each other:
\* what the timeout kicked never becomes a connection of any user.
THEOREM TimeoutIsFinal == Spec => []AuthTimeoutFinal
<1>1. IndInv => AuthTimeoutFinal
  <2> SUFFICES ASSUME IndInv, NEW c \in Conns,
                      state[c] \in {"closing", "closed"}, uid[c] = NoUid
               PROVE  /\ ~BeingAuthed(c)
                      /\ \A w \in Conns : c \notin ToSet(conns[w])
    BY DEF AuthTimeoutFinal
  <2>1. ~BeingAuthed(c)
    <3> SUFFICES ASSUME NEW p \in Workers, PastCas(p), job[p].c = c PROVE FALSE
      BY DEF BeingAuthed
    <3>1. CASE job[p].pc = "lock"
      BY <3>1 DEF IndInv, WinnerInv
    <3>2. CASE job[p].pc \in {"publish", "offer"}
      <4>1. uid[c] = job[p].u
        BY <3>2 DEF IndInv, WinnerInv
      <4>2. job[p].u \in Users
        BY <3>2 DEF IndInv, TypeOK
      <4> QED  BY <4>1, <4>2, ConnAssumption
    <3> QED  BY <3>1, <3>2 DEF PastCas
  <2>2. \A w \in Conns : c \notin ToSet(conns[w])
    BY DEF IndInv, OwnerInv
  <2> QED  BY <2>1, <2>2
<1> QED  BY Inductive, <1>1, PTL

\* The state machine of a connection: no interleaving of login, auth timeout and
\* ping check takes it off the arrows, or changes the user it authenticated as.
THEOREM ConnStateMachine == Spec => LifeCycle
<1>1. IndInv /\ [Next]_vars => LifeCycleStep
  <2> SUFFICES ASSUME IndInv, [Next]_vars PROVE LifeCycleStep
    OBVIOUS
  <2> USE ConnAssumption DEF IndInv
  <2>1. ASSUME UNCHANGED <<state, uid>> PROVE LifeCycleStep
    BY <2>1 DEF LifeCycleStep
  <2>2. ASSUME NEW c \in Conns,
               OnOpen(c) \/ OnPing(c) \/ SocketCloses(c) \/ PingGoesStale(c) \/ CleanStep(c)
        PROVE  LifeCycleStep
    BY <2>1, <2>2 DEF OnOpen, OnPing, SocketCloses, PingGoesStale, CleanStep,
         CleanGetAndDel, CleanReadUid, CleanReadLevel, CleanLocked, connVars
  <2>3. ASSUME NEW p \in Workers, NEW c \in Conns, OnConnFrame(c, p)
        PROVE  LifeCycleStep
    BY <2>1, <2>3 DEF OnConnFrame, connVars
  <2>4. ASSUME NEW p \in Workers,
               ConnFrameUndecodable(p) \/ UserStateFails(p) \/ ModifyPublish(p)
                 \/ ModifyOffer(p)
        PROVE  LifeCycleStep
    BY <2>1, <2>4 DEF ConnFrameUndecodable, UserStateFails, ModifyPublish,
         ModifyOffer, connVars
  <2>5. ASSUME NEW p \in Workers, NEW u \in Users, NEW t \in CTypes,
               UserStateOk(p, u, t)
        PROVE  LifeCycleStep
    <3>1. /\ uid' = uid
          /\ state' = state
               \/ (state[job[p].c] = "opened"
                   /\ state' = [state EXCEPT ![job[p].c] = "authed"])
      BY <2>5 DEF UserStateOk
    <3>2. job[p].c \in Conns /\ state \in [Conns -> States]
      BY <2>5 DEF UserStateOk, TypeOK
    <3> QED  BY <3>1, <3>2 DEF LifeCycleStep
  <2>6. ASSUME NEW p \in Workers, ModifyLock(p)
        PROVE  LifeCycleStep
    <3>1. /\ state' = state
          /\ uid' = [uid EXCEPT ![job[p].c] = job[p].u]
          /\ job[p].pc = "lock"
      BY <2>6 DEF ModifyLock
    <3>2. uid[job[p].c] = NoUid
      BY <3>1 DEF WinnerInv
    <3>3. uid \in [Conns -> Users \cup {NoUid}]
      BY DEF TypeOK
    <3> QED  BY <3>1, <3>2, <3>3 DEF LifeCycleStep
  <2>7. CASE TakerStep
    <3>1. uid' = uid /\ state \in [Conns -> States]
      BY <2>7 DEF TakerStep, TakerTake, TakerCas, TakerClose, connVars, TypeOK
    <3>2. CASE TakerCas
      BY <3>1, <3>2 DEF TakerCas, LifeCycleStep
    <3>3. CASE TakerClose
      <4>1. state[taker.c] = "closing"
        BY <3>3 DEF TakerClose, CheckInv
      <4> QED  BY <3>1, <3>3, <4>1 DEF TakerClose, LifeCycleStep
    <3>4. CASE \E d \in TaskTypes, c \in Conns : TakerTake(d, c)
      BY <2>1, <3>4 DEF TakerTake, connVars
    <3> QED  BY <2>7, <3>2, <3>3, <3>4 DEF TakerStep
  <2>8. CASE GracefulStop \/ UNCHANGED vars
    BY <2>1, <2>8 DEF GracefulStop, vars, connVars
  <2> QED
    BY <2>2, <2>3, <2>4, <2>5, <2>6, <2>7, <2>8 DEF Next, WorkerStep
<1>2. IndInv /\ [Next]_vars => [LifeCycleStep]_vars
  BY <1>1
<1> QED  BY Inductive, <1>2, PTL DEF Spec, LifeCycle

-----------------------------------------------------------------------------
(***************************************************************************)
(* The lists of a wrap (clientConnWrap.conns and level2conn) and the chain *)
(* of ping checks, on top of the invariant so far.                         *)
(*                                                                         *)
(* What keeps the lists right is that a connection enters one exactly      *)
(* once, by the winner of its CompareAndSwap: until then it is in no list  *)
(* at all, so that appending it lists nothing twice, an eviction never     *)
(* hits the connection that just joined, and a cleanup that finds its wrap *)
(* empty finds it filed under its own user.                                *)
(***************************************************************************)

\* The connection has not entered the lists: its uid is not written, or the
\* worker that wrote it is still to publish it.
Unpublished(c) ==
  uid[c] = NoUid \/ \E p \in Workers : job[p].pc = "publish" /\ job[p].c = c

\* An unpublished connection is in no list.
FreshInv ==
  \A c \in Conns : Unpublished(c) =>
    \A w \in Conns : /\ c \notin ToSet(conns[w])
                     /\ \A l \in Levels : c \notin ToSet(level2conn[w][l])

\* The slave list of a wrap is within its limit and holds every slave of the
\* wrap; the wrap itself lists nothing twice.
SlaveInv ==
  \A w \in Conns :
    /\ IsInjective(conns[w])
    /\ Len(level2conn[w]["slave"]) <= MaxSlaveConns
    /\ \A c \in ToSet(conns[w]) :
         clevel[c] = "slave" => c \in ToSet(level2conn[w]["slave"])

\* A cleanup works on a wrap of its own connection's user, and no wrap that can
\* be found is empty.
FiledInv ==
  /\ \A c \in Conns :
       clean[c].pc \in {"level", "lock"} => uid[clean[c].w] = uid[c]
  /\ NoEmptyWrap

\* Steps that leave the lists, and what they say of a connection, alone.
Quiet ==
  /\ UNCHANGED <<uid, clevel, uid2conn, conns, level2conn>>
  /\ \A p \in Workers : job'[p].pc = "publish" =>
                          job[p].pc = "publish" /\ job'[p].c = job[p].c
  /\ \A c \in Conns :
       clean'[c].pc \in {"level", "lock"} =>
         \/ clean[c].pc \in {"level", "lock"} /\ clean'[c].w = clean[c].w
         \/ /\ uid[c] \in Users /\ uid2conn[uid[c]] # NoConn
            /\ clean'[c].w = uid2conn[uid[c]]

ListInd == IndInv /\ FreshInv /\ SlaveInv /\ FiledInv

-----------------------------------------------------------------------------
(* Which steps matter *)

\* Only three steps concern the lists: a cleanup's locked section, the write of
\* a uid, and the publication of a connection.
LEMMA ListSteps ==
  ASSUME IndInv, [Next]_vars
  PROVE  \/ Quiet
         \/ \E c \in Conns : CleanLocked(c)
         \/ \E p \in Workers : ModifyLock(p) \/ ModifyPublish(p)
<1> USE IdleTypes DEF IndInv, TypeOK
<1>1. ASSUME UNCHANGED <<wrapVars, uid, clevel, job, clean>> PROVE Quiet
  BY <1>1 DEF Quiet, wrapVars
<1>2. ASSUME NEW c \in Conns, OnOpen(c) \/ OnPing(c) \/ SocketCloses(c) \/ PingGoesStale(c)
      PROVE  Quiet
  BY <1>1, <1>2 DEF OnOpen, OnPing, SocketCloses, PingGoesStale
<1>3. ASSUME NEW c \in Conns, CleanGetAndDel(c) PROVE Quiet
  BY <1>3 DEF CleanGetAndDel, Quiet, wrapVars
<1>4. ASSUME NEW c \in Conns, CleanReadUid(c) PROVE Quiet
  <2>1. UNCHANGED <<connVars, wrapVars, job>>
    BY <1>4 DEF CleanReadUid
  <2>2. /\ \A d \in Conns : d # c => clean'[d] = clean[d]
        /\ clean'[c].pc \in {"level", "lock"} =>
             /\ uid[c] \in Users /\ uid2conn[uid[c]] # NoConn
             /\ clean'[c].w = uid2conn[uid[c]]
    <3>1. CASE uid[c] = NoUid \/ uid2conn[uid[c]] = NoConn
      <4>1. clean' = [clean EXCEPT ![c] = [CleanIdle EXCEPT !.pc = "end"]]
        BY <1>4, <3>1 DEF CleanReadUid
      <4> QED  BY <4>1 DEF CleanIdle
    <3>2. CASE ~(uid[c] = NoUid \/ uid2conn[uid[c]] = NoConn)
      <4>1. clean' = [clean EXCEPT ![c] =
                        [CleanIdle EXCEPT !.pc = "level", !.w = uid2conn[uid[c]]]]
        BY <1>4, <3>2 DEF CleanReadUid
      <4> QED  BY <3>2, <4>1 DEF CleanIdle
    <3> QED  BY <3>1, <3>2
  <2> QED  BY <2>1, <2>2 DEF Quiet, connVars, wrapVars
<1>5. ASSUME NEW c \in Conns, CleanReadLevel(c) PROVE Quiet
  <2>1. \A d \in Conns : clean'[d].w = clean[d].w
                         /\ (clean'[d].pc = clean[d].pc \/ clean[d].pc = "level")
    BY <1>5 DEF CleanReadLevel, CleanType
  <2> QED  BY <1>5, <2>1 DEF CleanReadLevel, Quiet, connVars, wrapVars
<1>6. ASSUME NEW p \in Workers, NEW j, j.pc # "publish",
             job' = [job EXCEPT ![p] = j],
             UNCHANGED <<wrapVars, uid, clevel, clean>>
      PROVE  Quiet
  BY <1>6 DEF Quiet, wrapVars
<1>7. ASSUME NEW c \in Conns, NEW p \in Workers, OnConnFrame(c, p) PROVE Quiet
  <2> DEFINE j == [JobIdle EXCEPT !.pc = "rpc", !.c = c]
  <2>1. j.pc # "publish"
    BY DEF JobIdle
  <2>2. job' = [job EXCEPT ![p] = j] /\ UNCHANGED <<wrapVars, uid, clevel, clean>>
    BY <1>7 DEF OnConnFrame, connVars
  <2> HIDE DEF j
  <2> QED  BY <1>6, <2>1, <2>2
<1>8. ASSUME NEW p \in Workers,
             ConnFrameUndecodable(p) \/ UserStateFails(p) \/ ModifyOffer(p)
      PROVE  Quiet
  <2>1. job' = [job EXCEPT ![p] = JobIdle] /\ UNCHANGED <<wrapVars, uid, clevel, clean>>
    BY <1>8 DEF ConnFrameUndecodable, UserStateFails, ModifyOffer, connVars
  <2> QED  BY <1>6, <2>1
<1>9. ASSUME NEW p \in Workers, NEW u \in Users, NEW t \in CTypes, UserStateOk(p, u, t)
      PROVE  Quiet
  <2> DEFINE j == [pc |-> "lock", c |-> job[p].c, u |-> u, level |-> LevelOf(t)]
  <2>1. j.pc # "publish"
    OBVIOUS
  <2>2. /\ job' = [job EXCEPT ![p] = j] \/ job' = [job EXCEPT ![p] = JobIdle]
        /\ UNCHANGED <<wrapVars, uid, clevel, clean>>
    BY <1>9 DEF UserStateOk
  <2> HIDE DEF j
  <2> QED  BY <1>6, <2>1, <2>2
<1>10. ASSUME TakerStep \/ GracefulStop \/ UNCHANGED vars PROVE Quiet
  BY <1>1, <1>10 DEF TakerStep, TakerTake, TakerCas, TakerClose, GracefulStop, vars,
       connVars
<1> QED
  BY <1>2, <1>3, <1>4, <1>5, <1>7, <1>8, <1>9, <1>10
  DEF Next, CleanStep, WorkerStep

LEMMA InitList == Init => ListInd
<1> SUFFICES ASSUME Init PROVE FreshInv /\ SlaveInv /\ FiledInv
  BY InitInd DEF ListInd
<1> USE ConnAssumption, IdleTypes DEF Init
<1>1. Len(<<>>) = 0 /\ ToSet(<<>>) = {} /\ IsInjective(<<>>)
  BY DEF ToSet, IsInjective
<1>2. \A w \in Conns : conns[w] = <<>> /\ level2conn[w]["slave"] = <<>>
  BY DEF Levels
<1>3. \A w \in Conns : \A l \in Levels : level2conn[w][l] = <<>>
  OBVIOUS
<1>4. FreshInv
  BY <1>1, <1>2, <1>3 DEF FreshInv
<1>5. 0 <= MaxSlaveConns
  OBVIOUS
<1>6. SlaveInv
  BY <1>1, <1>2, <1>5 DEF SlaveInv
<1>7. FiledInv
  BY DEF FiledInv, NoEmptyWrap
<1> QED  BY <1>4, <1>6, <1>7

\* A quiet step unpublishes nothing, and a cleanup that starts takes the wrap
\* that is filed under its user.
LEMMA QuietKeepsLists ==
  ASSUME ListInd, IndInv', Quiet
  PROVE  FreshInv' /\ SlaveInv' /\ FiledInv'
<1> USE DEF ListInd, Quiet
<1>1. ASSUME NEW c \in Conns, Unpublished(c)' PROVE Unpublished(c)
  BY <1>1 DEF Unpublished
<1>2. FreshInv'
  BY <1>1 DEF FreshInv
<1>3. SlaveInv'
  BY DEF SlaveInv
<1>4. FiledInv'
  BY DEF FiledInv, NoEmptyWrap, OwnerInv, IndInv
<1> QED  BY <1>2, <1>3, <1>4

\* Writing the uid of a connection: it is in no list and has no cleanup under
\* way that holds a wrap.
LEMMA LockKeepsLists ==
  ASSUME ListInd, IndInv', NEW p \in Workers, ModifyLock(p)
  PROVE  FreshInv' /\ SlaveInv' /\ FiledInv'
<1> USE ConnAssumption DEF ListInd
<1> DEFINE c == job[p].c
<1>1. /\ job[p].pc = "lock" /\ c \in Conns /\ uid[c] = NoUid
      /\ uid' = [uid EXCEPT ![c] = job[p].u]
      /\ GoTo(p, "publish")
      /\ UNCHANGED <<clevel, uid2conn, conns, level2conn, clean>>
  BY DEF ModifyLock, IndInv, WinnerInv, TypeOK
<1>2. \A d \in Conns : d # c => uid'[d] = uid[d]
  BY <1>1 DEF IndInv, TypeOK
<1>3. \A q \in Workers : job'[q].pc = "publish" =>
        job'[q].c = job[q].c /\ (job[q].pc = "publish" \/ q = p)
  BY <1>1, GoToType DEF IndInv, TypeOK
<1>4. ASSUME NEW d \in Conns, Unpublished(d)' PROVE Unpublished(d)
  BY <1>1, <1>2, <1>3, <1>4 DEF Unpublished
<1>5. FreshInv'
  BY <1>1, <1>4 DEF FreshInv
<1>6. SlaveInv'
  BY <1>1 DEF SlaveInv
<1>7. ASSUME NEW d \in Conns, clean[d].pc \in {"level", "lock"}
      PROVE  uid'[clean[d].w] = uid'[d]
  <2>1. clean[d].w \in Conns /\ uid[d] \in Users /\ uid[clean[d].w] = uid[d]
    BY <1>7 DEF FiledInv, IndInv, TypeOK
  <2> QED  BY <1>1, <1>2, <2>1
<1>8. FiledInv'
  BY <1>1, <1>7 DEF FiledInv, NoEmptyWrap
<1> QED  BY <1>5, <1>6, <1>8

\* The locked section of a cleanup takes one connection out of one wrap, and out
\* of its slave list at most that connection too.
LEMMA CleanKeepsLists ==
  ASSUME ListInd, IndInv', NEW c \in Conns, CleanLocked(c)
  PROVE  FreshInv' /\ SlaveInv' /\ FiledInv'
<1> USE ConnAssumption DEF ListInd
<1> DEFINE w == clean[c].w
           left == RemoveFirst(conns[w], c)
           slaves == level2conn[w]["slave"]
           fewer == RemoveFirst(slaves, c)
<1>1. /\ w \in Conns /\ uid[c] \in Users /\ uid[w] = uid[c]
      /\ "slave" \in Levels /\ "master" \in Levels
      /\ conns[w] \in Seq(Conns) /\ slaves \in Seq(Conns)
  BY DEF CleanLocked, FiledInv, IndInv, TypeOK, Levels
<1>2. /\ conns' = [conns EXCEPT ![w] = left]
      /\ \/ level2conn' = [level2conn EXCEPT ![w]["master"] = <<>>]
         \/ level2conn' = [level2conn EXCEPT ![w]["slave"] = fewer]
      /\ uid2conn' = IF left = <<>> THEN [uid2conn EXCEPT ![uid[c]] = NoConn]
                                    ELSE uid2conn
      /\ clean' = [clean EXCEPT ![c] = [CleanIdle EXCEPT !.pc = "end"]]
      /\ UNCHANGED <<uid, clevel, job>>
  BY DEF CleanLocked, connVars
<1>3. /\ ToSet(left) \subseteq ToSet(conns[w])
      /\ IsInjective(left) /\ c \notin ToSet(left)
  BY <1>1, RemoveFirstType, RemoveFirstKeeps DEF SlaveInv
<1>4. /\ ToSet(fewer) \subseteq ToSet(slaves)
      /\ Len(fewer) <= Len(slaves)
      /\ \A d \in ToSet(slaves) : d # c => d \in ToSet(fewer)
      /\ fewer \in Seq(Conns)
  BY <1>1, RemoveFirstType, RemoveFirstKeeps
<1>5. Len(slaves) <= MaxSlaveConns
  BY <1>1 DEF SlaveInv
<1>6. Len(fewer) <= MaxSlaveConns
  <2>1. Len(fewer) \in Nat /\ Len(slaves) \in Nat
    BY <1>1, <1>4, LenProperties
  <2> QED  BY <2>1, <1>4, <1>5
<1>7. ToSet(<<>>) = {}
  BY DEF ToSet
<1> HIDE DEF left, fewer, slaves, w
<1>8. /\ conns'[w] = left
      /\ \A v \in Conns : v # w => conns'[v] = conns[v] /\ level2conn'[v] = level2conn[v]
      /\ \A l \in Levels : ToSet(level2conn'[w][l]) \subseteq ToSet(level2conn[w][l])
      /\ level2conn'[w]["slave"] \in {slaves, fewer}
  <2>1. level2conn \in [Conns -> [Levels -> Seq(Conns)]] /\ conns \in [Conns -> Seq(Conns)]
    BY DEF IndInv, TypeOK
  <2>2. conns'[w] = left /\ \A v \in Conns : v # w => conns'[v] = conns[v]
    BY <1>1, <1>2, <2>1
  <2>3. CASE level2conn' = [level2conn EXCEPT ![w]["master"] = <<>>]
    <3>1. /\ \A v \in Conns : v # w => level2conn'[v] = level2conn[v]
          /\ \A l \in Levels : level2conn'[w][l] = level2conn[w][l]
                                 \/ level2conn'[w][l] = <<>>
          /\ level2conn'[w]["slave"] = level2conn[w]["slave"]
      BY <1>1, <2>1, <2>3
    <3> QED  BY <1>1, <1>7, <2>2, <3>1 DEF slaves
  <2>4. CASE level2conn' = [level2conn EXCEPT ![w]["slave"] = fewer]
    <3>1. /\ \A v \in Conns : v # w => level2conn'[v] = level2conn[v]
          /\ \A l \in Levels : l # "slave" => level2conn'[w][l] = level2conn[w][l]
          /\ level2conn'[w]["slave"] = fewer
      BY <1>1, <2>1, <2>4
    <3> QED  BY <1>1, <1>4, <2>2, <3>1 DEF slaves
  <2> QED  BY <1>2, <2>3, <2>4
<1>9. FreshInv'
  <2>1. \A d \in Conns : Unpublished(d)' => Unpublished(d)
    BY <1>2 DEF Unpublished
  <2>2. \A v \in Conns : /\ ToSet(conns'[v]) \subseteq ToSet(conns[v])
                         /\ \A l \in Levels :
                              ToSet(level2conn'[v][l]) \subseteq ToSet(level2conn[v][l])
    BY <1>3, <1>8
  <2>3. ASSUME NEW d \in Conns, Unpublished(d)', NEW v \in Conns
        PROVE  /\ d \notin ToSet(conns'[v])
               /\ \A l \in Levels : d \notin ToSet(level2conn'[v][l])
    <3>1. /\ d \notin ToSet(conns[v])
          /\ \A l \in Levels : d \notin ToSet(level2conn[v][l])
      BY <2>1, <2>3 DEF FreshInv
    <3> QED  BY <2>2, <3>1
  <2> QED  BY <2>3 DEF FreshInv
<1>10. SlaveInv'
  <2>1. ASSUME NEW v \in Conns, v # w
        PROVE  /\ IsInjective(conns'[v])
               /\ Len(level2conn'[v]["slave"]) <= MaxSlaveConns
               /\ \A d \in ToSet(conns'[v]) :
                    clevel'[d] = "slave" => d \in ToSet(level2conn'[v]["slave"])
    BY <1>2, <1>8, <2>1 DEF SlaveInv
  <2>2. ASSUME NEW d \in ToSet(left), clevel[d] = "slave"
        PROVE  d \in ToSet(level2conn'[w]["slave"])
    <3>1. d # c /\ d \in ToSet(conns[w])
      BY <1>3
    <3>2. d \in ToSet(slaves)
      BY <1>1, <2>2, <3>1 DEF SlaveInv, slaves
    <3> QED  BY <1>4, <1>8, <3>1, <3>2
  <2>3. Len(level2conn'[w]["slave"]) <= MaxSlaveConns
    BY <1>5, <1>6, <1>8
  <2>4. clevel' = clevel
    BY <1>2
  <2> QED  BY <1>3, <1>8, <2>1, <2>2, <2>3, <2>4 DEF SlaveInv
<1>11. FiledInv'
  <2>1. \A d \in Conns : clean'[d].pc \in {"level", "lock"} =>
          clean[d].pc \in {"level", "lock"} /\ clean'[d].w = clean[d].w
    BY <1>2 DEF CleanIdle, IndInv, TypeOK
  <2>2. ASSUME NEW u \in Users, uid2conn'[u] # NoConn
        PROVE  conns'[uid2conn'[u]] # <<>>
    <3>1. uid2conn'[u] = uid2conn[u] /\ uid2conn[u] \in Conns
          /\ uid[uid2conn[u]] = u /\ conns[uid2conn[u]] # <<>>
      BY <1>2, <2>2 DEF IndInv, OwnerInv, TypeOK, FiledInv, NoEmptyWrap
    <3>2. CASE uid2conn[u] = w
      <4>1. u = uid[c]
        BY <1>1, <3>1, <3>2
      <4>2. left # <<>>
        BY <1>2, <2>2, <4>1 DEF IndInv, TypeOK
      <4> QED  BY <1>8, <3>1, <3>2, <4>2
    <3>3. CASE uid2conn[u] # w
      BY <1>8, <3>1, <3>3
    <3> QED  BY <3>2, <3>3
  <2>3. uid' = uid
    BY <1>2
  <2> QED  BY <2>1, <2>2, <2>3 DEF FiledInv, NoEmptyWrap
<1> QED  BY <1>9, <1>10, <1>11

\* What the publication of c does to its wrap w, in whichever of the three ways
\* it joins: the wrap gains c, at most; every slave in it is in its slave list,
\* which stays within the limit.
Joins(c, w) ==
  /\ \A v \in Conns : v # w => conns'[v] = conns[v] /\ level2conn'[v] = level2conn[v]
  /\ IsInjective(conns'[w])
  /\ c \in ToSet(conns'[w])
  /\ ToSet(conns'[w]) \subseteq ToSet(conns[w]) \cup {c}
  /\ \A l \in Levels : ToSet(level2conn'[w][l]) \subseteq ToSet(level2conn[w][l]) \cup {c}
  /\ Len(level2conn'[w]["slave"]) <= MaxSlaveConns
  /\ \A d \in ToSet(conns'[w]) : d # c /\ clevel[d] = "slave" =>
       d \in ToSet(level2conn'[w]["slave"])

LEMMA NewWrapJoins ==
  ASSUME ListInd, NEW c \in Conns, NEW u \in Users, NEW level \in Levels,
         NewWrap(c, u, level)
  PROVE  /\ Joins(c, c)
         /\ level = "slave" => c \in ToSet(level2conn'[c]["slave"])
<1> USE ConnAssumption DEF ListInd
<1>1. /\ conns' = [conns EXCEPT ![c] = <<c>>]
      /\ level2conn' = [level2conn EXCEPT ![c] =
                          [l \in Levels |-> IF l = level THEN <<c>> ELSE <<>>]]
  BY DEF NewWrap
<1>2. /\ conns \in [Conns -> Seq(Conns)]
      /\ level2conn \in [Conns -> [Levels -> Seq(Conns)]]
      /\ "slave" \in Levels
  BY DEF IndInv, TypeOK, Levels
<1>3. /\ \A v \in Conns : v # c => conns'[v] = conns[v] /\ level2conn'[v] = level2conn[v]
      /\ conns'[c] = <<c>>
      /\ \A l \in Levels : level2conn'[c][l] = IF l = level THEN <<c>> ELSE <<>>
  BY <1>1, <1>2
<1>4. /\ ToSet(<<>>) = {} /\ Len(<<>>) = 0
      /\ ToSet(<<c>>) = {c} /\ Len(<<c>>) = 1 /\ IsInjective(<<c>>)
  BY DEF ToSet, IsInjective
<1>5. 0 <= MaxSlaveConns /\ 1 <= MaxSlaveConns
  OBVIOUS
<1>6. \A l \in Levels : ToSet(level2conn'[c][l]) \subseteq {c}
  BY <1>3, <1>4
<1>7. Len(level2conn'[c]["slave"]) <= MaxSlaveConns
  BY <1>2, <1>3, <1>4, <1>5
<1>8. level = "slave" => c \in ToSet(level2conn'[c]["slave"])
  BY <1>2, <1>3, <1>4
<1> QED  BY <1>3, <1>4, <1>6, <1>7, <1>8 DEF Joins

LEMMA MasterJoins ==
  ASSUME ListInd, NEW c \in Conns, NEW w \in Conns, Unpublished(c), JoinMaster(c, w)
  PROVE  Joins(c, w)
<1> USE ConnAssumption DEF ListInd
<1> DEFINE old == level2conn[w]["master"]
<1>1. /\ conns \in [Conns -> Seq(Conns)]
      /\ level2conn \in [Conns -> [Levels -> Seq(Conns)]]
      /\ "slave" \in Levels /\ "master" \in Levels
      /\ conns[w] \in Seq(Conns) /\ old \in Seq(Conns)
  BY DEF IndInv, TypeOK, Levels
<1>2. c \notin ToSet(conns[w]) /\ c \notin ToSet(old) /\ IsInjective(conns[w])
  BY <1>1 DEF FreshInv, SlaveInv
<1>3. PICK all : /\ all = Append(conns[w], c)
                 /\ all \in Seq(Conns) /\ IsInjective(all)
                 /\ ToSet(all) = ToSet(conns[w]) \cup {c}
  BY <1>1, <1>2, AppendSet, AppendNew, ZenonT(40)
<1>4. /\ conns' = [conns EXCEPT ![w] =
                     IF old # <<>> THEN RemoveFirst(all, Head(old)) ELSE all]
      /\ level2conn' = [level2conn EXCEPT ![w]["master"] = <<c>>]
  BY <1>3 DEF JoinMaster
<1>5. /\ \A v \in Conns : v # w => conns'[v] = conns[v] /\ level2conn'[v] = level2conn[v]
      /\ conns'[w] = IF old # <<>> THEN RemoveFirst(all, Head(old)) ELSE all
      /\ level2conn'[w]["slave"] = level2conn[w]["slave"]
      /\ \A l \in Levels : level2conn'[w][l] = level2conn[w][l]
                             \/ level2conn'[w][l] = <<c>>
  BY <1>1, <1>4
<1>6. /\ IsInjective(conns'[w]) /\ c \in ToSet(conns'[w])
      /\ ToSet(conns'[w]) \subseteq ToSet(conns[w]) \cup {c}
  <2>1. CASE old = <<>>
    BY <1>3, <1>5, <2>1
  <2>2. CASE old # <<>>
    <3>1. PICK first : first = Head(old) /\ first # c
      BY <1>1, <1>2, <2>2, TailSet
    <3>2. /\ ToSet(RemoveFirst(all, first)) \subseteq ToSet(all)
          /\ \A d \in ToSet(all) : d # first => d \in ToSet(RemoveFirst(all, first))
          /\ IsInjective(RemoveFirst(all, first))
      BY <1>3, RemoveFirstType, RemoveFirstKeeps
    <3>3. conns'[w] = RemoveFirst(all, first)
      BY <1>5, <2>2, <3>1
    <3> HIDE DEF old
    <3> QED  BY <1>3, <3>1, <3>2, <3>3
  <2> QED  BY <2>1, <2>2
<1>7. ToSet(<<c>>) = {c}
  BY DEF ToSet
<1>8. \A l \in Levels : ToSet(level2conn'[w][l]) \subseteq ToSet(level2conn[w][l]) \cup {c}
  BY <1>5, <1>7
<1>9. /\ Len(level2conn'[w]["slave"]) <= MaxSlaveConns
      /\ \A d \in ToSet(conns[w]) : clevel[d] = "slave" =>
           d \in ToSet(level2conn'[w]["slave"])
  BY <1>5 DEF SlaveInv
<1> QED  BY <1>5, <1>6, <1>8, <1>9 DEF Joins

LEMMA SlaveJoins ==
  ASSUME ListInd, NEW c \in Conns, NEW w \in Conns, Unpublished(c), JoinSlave(c, w)
  PROVE  Joins(c, w) /\ c \in ToSet(level2conn'[w]["slave"])
<1> USE ConnAssumption DEF ListInd
<1> DEFINE old == level2conn[w]["slave"]
<1>1. /\ conns \in [Conns -> Seq(Conns)]
      /\ level2conn \in [Conns -> [Levels -> Seq(Conns)]]
      /\ "slave" \in Levels
      /\ conns[w] \in Seq(Conns) /\ old \in Seq(Conns)
  BY DEF IndInv, TypeOK, Levels
<1>2. /\ c \notin ToSet(conns[w]) /\ c \notin ToSet(old) /\ IsInjective(conns[w])
      /\ Len(old) <= MaxSlaveConns
      /\ \A d \in ToSet(conns[w]) : clevel[d] = "slave" => d \in ToSet(old)
  BY <1>1 DEF FreshInv, SlaveInv
<1>3. PICK all : /\ all = Append(conns[w], c)
                 /\ all \in Seq(Conns) /\ IsInjective(all)
                 /\ ToSet(all) = ToSet(conns[w]) \cup {c}
  BY <1>1, <1>2, AppendSet, AppendNew, ZenonT(40)
<1>4. PICK slaves : /\ slaves = Append(old, c)
                    /\ slaves \in Seq(Conns) /\ slaves # <<>>
                    /\ Len(slaves) = Len(old) + 1
                    /\ ToSet(slaves) = ToSet(old) \cup {c}
                    /\ Len(old) # 0 => Head(slaves) = Head(old)
  <2> HIDE DEF old
  <2>0. old \in Seq(Conns)
    BY <1>1
  <2>1. /\ Append(old, c) \in Seq(Conns) /\ Append(old, c) # <<>>
        /\ Len(Append(old, c)) = Len(old) + 1
        /\ \A i \in 1..Len(old) : Append(old, c)[i] = old[i]
    BY ONLY <2>0, c \in Conns, AppendProperties
  <2>2. ToSet(Append(old, c)) = ToSet(old) \cup {c}
    BY <1>1, AppendSet
  <2>3. Len(old) # 0 => Head(Append(old, c)) = Head(old)
    <3>1. Len(old) \in Nat
      BY <1>1, LenProperties
    <3>2. Len(old) # 0 => 1 \in 1..Len(old)
      BY <3>1
    <3>3. Len(old) # 0 => Append(old, c)[1] = old[1]
      BY <2>1, <3>2
    <3>4. \A s \in Seq(Conns) : Head(s) = s[1]
      OBVIOUS
    <3> QED  BY <1>1, <2>1, <3>3, <3>4
  <2> QED  BY <2>1, <2>2, <2>3
<1> DEFINE over == Len(slaves) > MaxSlaveConns
           new == IF over THEN RemoveFirst(all, Head(slaves)) ELSE all
           kept == IF over THEN Tail(slaves) ELSE slaves
<1>5. /\ conns' = [conns EXCEPT ![w] = new]
      /\ level2conn' = [level2conn EXCEPT ![w]["slave"] = kept]
  BY <1>3, <1>4 DEF JoinSlave
<1>6. PICK n \in Nat : n = Len(old) /\ (over <=> n + 1 > MaxSlaveConns) /\ n <= MaxSlaveConns
  BY <1>1, <1>2, <1>4, LenProperties
<1>7. over => Head(slaves) # c
  <2>1. over => n # 0
    BY <1>6
  <2>2. over => old # <<>> /\ Head(slaves) = Head(old)
    BY <1>4, <1>6, <2>1, EmptySeq
  <2>3. over => Head(old) \in ToSet(old)
    BY <1>1, <2>2, TailSet
  <2> QED  BY <1>2, <2>2, <2>3
<1>8. /\ kept \in Seq(Conns) /\ Len(kept) <= MaxSlaveConns
      /\ ToSet(kept) \subseteq ToSet(slaves)
      /\ c \in ToSet(kept)
      /\ \A d \in ToSet(slaves) : ~(over /\ d = Head(slaves)) => d \in ToSet(kept)
  <2>1. CASE over
    <3>1. /\ Tail(slaves) \in Seq(Conns) /\ Len(Tail(slaves)) = Len(slaves) - 1
          /\ ToSet(Tail(slaves)) \subseteq ToSet(slaves)
          /\ \A d \in ToSet(slaves) : d # Head(slaves) => d \in ToSet(Tail(slaves))
      BY <1>4, TailSet
    <3>2. Len(Tail(slaves)) <= MaxSlaveConns
      BY <1>4, <1>6, <3>1
    <3>3. kept = Tail(slaves)
      BY <2>1
    <3> HIDE DEF kept, over
    <3> QED  BY <1>4, <1>7, <2>1, <3>1, <3>2, <3>3
  <2>2. CASE ~over
    <3>1. Len(slaves) <= MaxSlaveConns
      BY <1>4, <1>6, <2>2
    <3> QED  BY <1>4, <2>2, <3>1
  <2> QED  BY <2>1, <2>2
<1>9. /\ IsInjective(new) /\ c \in ToSet(new)
      /\ ToSet(new) \subseteq ToSet(all)
      /\ over => Head(slaves) \notin ToSet(new)
  <2>1. CASE over
    <3>1. /\ ToSet(RemoveFirst(all, Head(slaves))) \subseteq ToSet(all)
          /\ \A d \in ToSet(all) :
               d # Head(slaves) => d \in ToSet(RemoveFirst(all, Head(slaves)))
          /\ IsInjective(RemoveFirst(all, Head(slaves)))
          /\ Head(slaves) \notin ToSet(RemoveFirst(all, Head(slaves)))
      BY <1>3, RemoveFirstType, RemoveFirstKeeps
    <3> QED  BY <1>3, <1>7, <2>1, <3>1
  <2>2. CASE ~over
    BY <1>3, <2>2
  <2> QED  BY <2>1, <2>2
<1> HIDE DEF new, kept, over
<1>10. /\ \A v \in Conns : v # w => conns'[v] = conns[v] /\ level2conn'[v] = level2conn[v]
       /\ conns'[w] = new /\ level2conn'[w]["slave"] = kept
       /\ \A l \in Levels : l # "slave" => level2conn'[w][l] = level2conn[w][l]
  BY <1>1, <1>5
<1>11. ASSUME NEW d \in ToSet(new), d # c, clevel[d] = "slave"
       PROVE  d \in ToSet(kept)
  <2>1. d \in ToSet(conns[w]) /\ ~(over /\ d = Head(slaves))
    BY <1>3, <1>9, <1>11
  <2> QED  BY <1>2, <1>4, <1>8, <1>11, <2>1
<1>12. \A l \in Levels : ToSet(level2conn'[w][l]) \subseteq ToSet(level2conn[w][l]) \cup {c}
  BY <1>4, <1>8, <1>10
<1>13. ToSet(new) \subseteq ToSet(conns[w]) \cup {c}
  BY <1>3, <1>9
<1> QED  BY <1>8, <1>9, <1>10, <1>11, <1>12, <1>13 DEF Joins

\* The publication of a connection.
LEMMA PublishKeepsLists ==
  ASSUME ListInd, IndInv', NEW p \in Workers, ModifyPublish(p)
  PROVE  FreshInv' /\ SlaveInv' /\ FiledInv'
<1> USE ConnAssumption DEF ListInd
<1> DEFINE c == job[p].c
           u == job[p].u
<1>1. /\ job[p].pc = "publish" /\ c \in Conns /\ u \in Users /\ uid[c] = u
      /\ job[p].level \in Levels
      /\ clevel' = [clevel EXCEPT ![c] = job[p].level]
      /\ GoTo(p, "offer") /\ UNCHANGED <<uid, clean>>
  BY DEF ModifyPublish, IndInv, WinnerInv, TypeOK, JobType
<1>2. Unpublished(c)
  BY <1>1 DEF Unpublished
<1>3. /\ clevel'[c] = job[p].level
      /\ \A d \in Conns : d # c => clevel'[d] = clevel[d]
  BY <1>1 DEF IndInv, TypeOK
<1>4. \E w \in Conns :
        /\ Joins(c, w)
        /\ job[p].level = "slave" => c \in ToSet(level2conn'[w]["slave"])
        /\ uid2conn' = uid2conn \/ uid2conn' = [uid2conn EXCEPT ![u] = w]
  <2>1. CASE uid2conn[u] = NoConn
    <3>1. NewWrap(c, u, job[p].level)
      BY <2>1 DEF ModifyPublish
    <3>2. uid2conn' = [uid2conn EXCEPT ![u] = c]
      BY <3>1 DEF NewWrap
    <3> QED  BY <1>1, <3>1, <3>2, NewWrapJoins
  <2>2. CASE uid2conn[u] # NoConn
    <3>1. uid2conn[u] \in Conns /\ uid2conn' = uid2conn
      BY <1>1, <2>2 DEF ModifyPublish, IndInv, TypeOK
    <3>2. CASE job[p].level = "master"
      <4>1. JoinMaster(c, uid2conn[u])
        BY <2>2, <3>2 DEF ModifyPublish
      <4> QED  BY <1>1, <1>2, <3>1, <3>2, <4>1, MasterJoins
    <3>3. CASE job[p].level # "master"
      <4>1. JoinSlave(c, uid2conn[u])
        BY <2>2, <3>3 DEF ModifyPublish
      <4> QED  BY <1>1, <1>2, <3>1, <4>1, SlaveJoins
    <3> QED  BY <3>2, <3>3
  <2> QED  BY <2>1, <2>2
<1>5. PICK w \in Conns :
        /\ Joins(c, w)
        /\ job[p].level = "slave" => c \in ToSet(level2conn'[w]["slave"])
        /\ uid2conn' = uid2conn \/ uid2conn' = [uid2conn EXCEPT ![u] = w]
  BY <1>4
<1>6. \A q \in Workers : /\ job'[q].c = job[q].c
                         /\ job'[q].pc = IF q = p THEN "offer" ELSE job[q].pc
  BY <1>1, GoToType DEF IndInv, TypeOK
<1>7. ASSUME NEW d \in Conns, Unpublished(d)' PROVE Unpublished(d) /\ d # c
  <2>1. CASE uid'[d] = NoUid
    BY <1>1, <2>1 DEF Unpublished
  <2>2. CASE \E q \in Workers : job'[q].pc = "publish" /\ job'[q].c = d
    <3>1. PICK q \in Workers : q # p /\ job[q].pc = "publish" /\ job[q].c = d
      BY <1>6, <2>2
    <3>2. d # c
      BY <1>1, <3>1 DEF IndInv, WinnerInv, PastCas
    <3> QED  BY <3>1, <3>2 DEF Unpublished
  <2> QED  BY <1>7, <2>1, <2>2 DEF Unpublished
<1>8. FreshInv'
  <2>1. ASSUME NEW d \in Conns, Unpublished(d)', NEW v \in Conns
        PROVE  /\ d \notin ToSet(conns'[v])
               /\ \A l \in Levels : d \notin ToSet(level2conn'[v][l])
    <3>1. /\ d # c /\ d \notin ToSet(conns[v])
          /\ \A l \in Levels : d \notin ToSet(level2conn[v][l])
      BY <1>7, <2>1 DEF FreshInv
    <3>2. CASE v = w
      BY <1>5, <3>1, <3>2 DEF Joins
    <3>3. CASE v # w
      BY <1>5, <3>1, <3>3 DEF Joins
    <3> QED  BY <3>2, <3>3
  <2> QED  BY <2>1 DEF FreshInv
<1>9. SlaveInv'
  <2>1. ASSUME NEW v \in Conns, v # w
        PROVE  /\ IsInjective(conns'[v])
               /\ Len(level2conn'[v]["slave"]) <= MaxSlaveConns
               /\ \A d \in ToSet(conns'[v]) :
                    clevel'[d] = "slave" => d \in ToSet(level2conn'[v]["slave"])
    <3>1. conns'[v] = conns[v] /\ level2conn'[v] = level2conn[v]
      BY <1>5, <2>1 DEF Joins
    <3>2. c \notin ToSet(conns[v])
      BY <1>1, <1>2 DEF FreshInv
    <3>3. ToSet(conns[v]) \subseteq Conns
      BY DEF ToSet, IndInv, TypeOK
    <3> QED  BY <1>3, <3>1, <3>2, <3>3 DEF SlaveInv
  <2>2. ASSUME NEW d \in ToSet(conns'[w]), clevel'[d] = "slave"
        PROVE  d \in ToSet(level2conn'[w]["slave"])
    <3>1. d \in Conns
      BY <2>2 DEF ToSet, IndInv, TypeOK
    <3>2. CASE d = c
      BY <1>3, <1>5, <2>2, <3>2
    <3>3. CASE d # c
      BY <1>3, <1>5, <2>2, <3>1, <3>3 DEF Joins
    <3> QED  BY <3>2, <3>3
  <2>3. IsInjective(conns'[w]) /\ Len(level2conn'[w]["slave"]) <= MaxSlaveConns
    BY <1>5 DEF Joins
  <2> QED  BY <2>1, <2>2, <2>3 DEF SlaveInv
<1>10. FiledInv'
  <2>1. ToSet(<<>>) = {}
    BY DEF ToSet
  <2>2. conns'[w] # <<>>
    BY <1>5, <2>1 DEF Joins
  <2>3. ASSUME NEW x \in Users, uid2conn'[x] # NoConn
        PROVE  conns'[uid2conn'[x]] # <<>>
    <3>1. uid2conn'[x] = w \/ uid2conn'[x] = uid2conn[x]
      BY <1>5 DEF IndInv, TypeOK
    <3>2. CASE uid2conn'[x] = w
      BY <2>2, <3>2
    <3>3. CASE uid2conn'[x] # w
      <4>1. uid2conn[x] \in Conns /\ conns[uid2conn[x]] # <<>> /\ uid2conn[x] # w
        BY <2>3, <3>1, <3>3 DEF IndInv, TypeOK, FiledInv, NoEmptyWrap
      <4> QED  BY <1>5, <3>1, <3>3, <4>1 DEF Joins
    <3> QED  BY <3>2, <3>3
  <2> QED  BY <1>1, <2>3 DEF FiledInv, NoEmptyWrap
<1> QED  BY <1>8, <1>9, <1>10

\* The invariant of the lists holds throughout.
THEOREM ListInductive == Spec => []ListInd
<1>1. ListInd /\ [Next]_vars => ListInd'
  <2> SUFFICES ASSUME ListInd, [Next]_vars PROVE ListInd'
    OBVIOUS
  <2>1. IndInv'
    BY StepType, WinnerStep, CheckStep, OwnerStep DEF ListInd, IndInv
  <2>2. \/ Quiet
        \/ \E c \in Conns : CleanLocked(c)
        \/ \E p \in Workers : ModifyLock(p) \/ ModifyPublish(p)
    BY ListSteps DEF ListInd
  <2>3. FreshInv' /\ SlaveInv' /\ FiledInv'
    BY <2>1, <2>2, QuietKeepsLists, CleanKeepsLists, LockKeepsLists, PublishKeepsLists
  <2> QED  BY <2>1, <2>3 DEF ListInd
<1> QED  BY InitList, <1>1, PTL DEF Spec

-----------------------------------------------------------------------------
(* The lists, for every user *)

\* A frame pushed to a user is written once per device, whatever logins,
\* evictions and cleanups overlapped before.
THEOREM NeverListedTwice == Spec => []ListedOnce
<1>1. ListInd => ListedOnce
  BY DEF ListInd, SlaveInv, ListedOnce
<1> QED  BY ListInductive, <1>1, PTL

\* A user whose last connection was cleaned is offline.
THEOREM OfflineWhenEmpty == Spec => []NoEmptyWrap
<1>1. ListInd => NoEmptyWrap
  BY DEF ListInd, FiledInv
<1> QED  BY ListInductive, <1>1, PTL

\* The limit on slave devices holds for every user at every moment.
THEOREM WithinDeviceLimit == Spec => []DeviceLimit
<1>1. ListInd => DeviceLimit
  <2> SUFFICES ASSUME ListInd, NEW u \in Users
               PROVE  Cardinality({c \in UserConns(u) : clevel[c] = "slave"})
                        <= MaxSlaveConns
    BY DEF DeviceLimit
  <2> USE ConnAssumption DEF ListInd
  <2> DEFINE T == {c \in UserConns(u) : clevel[c] = "slave"}
  <2>1. CASE uid2conn[u] = NoConn
    <3>1. T = {}
      BY <2>1 DEF UserConns
    <3>2. Cardinality(T) = 0
      BY <3>1, FS_EmptySet
    <3> HIDE DEF T
    <3>3. 0 <= MaxSlaveConns
      OBVIOUS
    <3> QED  BY <3>2, <3>3 DEF T
  <2>2. CASE uid2conn[u] # NoConn
    <3>1. PICK w \in Conns : w = uid2conn[u]
      BY <2>2 DEF IndInv, TypeOK
    <3>2. PICK s \in Seq(Conns) : s = level2conn[w]["slave"]
      BY DEF IndInv, TypeOK, Levels
    <3>3. T \in SUBSET ToSet(s) /\ Len(s) <= MaxSlaveConns
      BY <2>2, <3>1, <3>2 DEF SlaveInv, UserConns
    <3> HIDE DEF T
    <3>4. Cardinality(T) \in Nat /\ Cardinality(T) <= Len(s)
      BY <3>3, CardinalityOfSeq
    <3>5. Len(s) \in Nat
      BY LenProperties
    <3>6. Cardinality(T) <= MaxSlaveConns
      BY <3>3, <3>4, <3>5
    <3> QED  BY <3>6 DEF T
  <2> QED  BY <2>1, <2>2
<1> QED  BY ListInductive, <1>1, PTL

-----------------------------------------------------------------------------
(* The chain of ping checks *)

\* A connection that was published has a ping time, before its first check is
\* queued; a check that runs belongs to a connection that was opened.
PingInv ==
  /\ \A c \in Conns : Task("pingExpired", c) \in dq => lastPing[c] # "unset"
  /\ \A p \in Workers : job[p].pc = "offer" => lastPing[job[p].c] # "unset"
  /\ \A c \in Conns : sock[c] = "none" => c \notin connId2conn /\ state[c] = "opened"
  /\ (taker.pc \in {"cas", "close"} => sock[taker.c] # "none")

CheckInd == IndInv /\ PingInv /\ PingCheckPending

LEMMA PingInvStep == IndInv /\ PingInv /\ [Next]_vars => PingInv'
<1> SUFFICES ASSUME IndInv, PingInv, [Next]_vars PROVE PingInv'
  OBVIOUS
<1> USE ConnAssumption, IdleTypes DEF IndInv, TypeOK, PingInv
<1>t. \A c, d \in Conns : /\ Task("pingExpired", c) = Task("pingExpired", d) => c = d
                          /\ Task("pingExpired", c) # Task("authExpired", d)
  BY DEF Task
<1>1. ASSUME NEW c \in Conns, OnOpen(c) PROVE PingInv'
  BY <1>t, <1>1 DEF OnOpen
<1>2. ASSUME NEW c \in Conns, OnPing(c) \/ SocketCloses(c) \/ PingGoesStale(c)
      PROVE  PingInv'
  BY <1>2 DEF OnPing, SocketCloses, PingGoesStale, checkVars
<1>3. ASSUME NEW c \in Conns, CleanStep(c) PROVE PingInv'
  BY <1>3 DEF CleanStep, CleanGetAndDel, CleanReadUid, CleanReadLevel, CleanLocked,
       checkVars, connVars
\* A worker that is not about to offer afterwards.
<1>4. ASSUME NEW p \in Workers, NEW j, j.pc # "offer", job' = [job EXCEPT ![p] = j],
             UNCHANGED <<connId2conn, lastPing, dq, taker>>,
             \A c \in Conns : /\ sock'[c] = "none" => sock[c] = "none"
                              /\ sock[c] = "none" => sock'[c] = "none"
                              /\ sock[c] = "none" => state'[c] = "opened"
      PROVE  PingInv'
  BY <1>4
<1>5. ASSUME NEW c \in Conns, NEW p \in Workers, OnConnFrame(c, p) PROVE PingInv'
  <2> DEFINE j == [JobIdle EXCEPT !.pc = "rpc", !.c = c]
  <2>1. j.pc # "offer"
    BY DEF JobIdle
  <2>2. job' = [job EXCEPT ![p] = j] /\ UNCHANGED <<connVars, dq, taker>>
    BY <1>5 DEF OnConnFrame, checkVars
  <2> HIDE DEF j
  <2> QED  BY <1>4, <2>1, <2>2 DEF connVars
<1>6. ASSUME NEW p \in Workers, ConnFrameUndecodable(p) \/ UserStateFails(p)
      PROVE  PingInv'
  <2>1. /\ job' = [job EXCEPT ![p] = JobIdle]
        /\ UNCHANGED <<connId2conn, state, lastPing, dq, taker>>
        /\ sock' = sock \/ sock' = [sock EXCEPT ![job[p].c] =
                                      IF @ = "open" THEN "closing" ELSE @]
    BY <1>6 DEF ConnFrameUndecodable, UserStateFails, connVars, checkVars
  <2>2. \A c \in Conns : (sock'[c] = "none") <=> (sock[c] = "none")
    BY <2>1
  <2> QED  BY <1>4, <2>1, <2>2
<1>7. ASSUME NEW p \in Workers, NEW u \in Users, NEW t \in CTypes, UserStateOk(p, u, t)
      PROVE  PingInv'
  <2> DEFINE j == [pc |-> "lock", c |-> job[p].c, u |-> u, level |-> LevelOf(t)]
  <2>1. j.pc # "offer"
    OBVIOUS
  <2>2. /\ UNCHANGED <<sock, connId2conn, lastPing, dq, taker>>
        /\ \/ job' = [job EXCEPT ![p] = JobIdle] /\ state' = state
           \/ /\ job' = [job EXCEPT ![p] = j]
              /\ job[p].c \in connId2conn
              /\ state' = [state EXCEPT ![job[p].c] = "authed"]
    BY <1>7 DEF UserStateOk, checkVars
  <2> HIDE DEF j
  <2>3. \A c \in Conns : sock[c] = "none" => state'[c] = "opened"
    BY <2>2
  <2> QED  BY <1>4, <2>1, <2>2, <2>3, ZenonT(40)
<1>8. ASSUME NEW p \in Workers, ModifyLock(p) PROVE PingInv'
  <2>1. /\ GoTo(p, "publish")
        /\ UNCHANGED <<sock, connId2conn, state, lastPing, dq, taker>>
    BY <1>8 DEF ModifyLock, checkVars
  <2>2. \A q \in Workers : /\ job'[q].c = job[q].c
                           /\ job'[q].pc = IF q = p THEN "publish" ELSE job[q].pc
    BY <2>1, GoToType
  <2>3. ASSUME NEW q \in Workers, job'[q].pc = "offer"
        PROVE  lastPing[job'[q].c] # "unset"
    <3>1. job[q].pc = "offer" /\ job'[q].c = job[q].c
      BY <2>2, <2>3
    <3> QED  BY <3>1
  <2> QED  BY <2>1, <2>3
<1>9. ASSUME NEW p \in Workers, ModifyPublish(p) PROVE PingInv'
  <2>1. /\ GoTo(p, "offer") /\ job[p].pc = "publish"
        /\ lastPing' = [lastPing EXCEPT ![job[p].c] = "fresh"]
        /\ UNCHANGED <<sock, connId2conn, state, dq, taker>>
    BY <1>9 DEF ModifyPublish, checkVars
  <2>2. \A q \in Workers : /\ job'[q].c = job[q].c
                           /\ job'[q].pc = IF q = p THEN "offer" ELSE job[q].pc
    BY <2>1, GoToType
  <2>3. job[p].c \in Conns /\ lastPing'[job[p].c] = "fresh"
    BY <2>1
  <2>4. \A c \in Conns : lastPing[c] # "unset" => lastPing'[c] # "unset"
    BY <2>1
  <2>5. \A q \in Workers : job'[q].pc = "offer" => lastPing'[job'[q].c] # "unset"
    <3>1. ASSUME NEW q \in Workers, job'[q].pc = "offer"
          PROVE  lastPing'[job'[q].c] # "unset"
      <4>1. CASE q = p
        BY <2>2, <2>3, <4>1
      <4>2. CASE q # p
        <5>1. job[q].pc = "offer" /\ job'[q].c = job[q].c
          BY ONLY <2>2, <3>1, <4>2
        <5>2. job[q].c \in Conns
          BY <5>1
        <5>3. lastPing[job[q].c] # "unset"
          BY <5>1
        <5> QED  BY ONLY <2>4, <5>1, <5>2, <5>3
      <4> QED  BY <4>1, <4>2
    <3> QED  BY <3>1
  <2> QED  BY <2>1, <2>4, <2>5
<1>10. ASSUME NEW p \in Workers, ModifyOffer(p) PROVE PingInv'
  <2>1. /\ job[p].pc = "offer" /\ dq' = dq \cup {Task("pingExpired", job[p].c)}
        /\ job' = [job EXCEPT ![p] = JobIdle]
        /\ UNCHANGED <<connVars, taker>>
    BY <1>10 DEF ModifyOffer
  <2> QED  BY <1>t, <2>1 DEF connVars
<1>11. ASSUME TakerStep PROVE PingInv'
  <2>1. ASSUME NEW d \in TaskTypes, NEW c \in Conns, TakerTake(d, c) PROVE PingInv'
    <3>1. /\ dq' \subseteq dq \/ dq' = (dq \ {Task(d, c)}) \cup {Task(d, c)}
          /\ Task(d, c) \in dq
          /\ UNCHANGED <<connVars, job>>
          /\ \/ TakerLoops
             \/ c \in connId2conn /\ taker' = [pc |-> "cas", type |-> d, c |-> c]
      BY <2>1 DEF TakerTake
    <3>2. dq' \subseteq dq
      BY <3>1
    <3>3. taker'.pc \in {"cas", "close"} => sock[taker'.c] # "none"
      BY <3>1 DEF TakerLoops
    <3> QED  BY <3>1, <3>2, <3>3 DEF connVars
  <2>2. CASE TakerCas
    <3>1. /\ taker.pc = "cas" /\ taker.c \in Conns
          /\ UNCHANGED <<sock, connId2conn, lastPing, dq, job>>
          /\ \/ state' = [state EXCEPT ![taker.c] = "closing"]
                /\ taker' = [taker EXCEPT !.pc = "close"]
             \/ state' = state /\ TakerLoops
      BY <2>2 DEF TakerCas, TakerGoTo
    <3>2. taker'.pc \in {"cas", "close"} => taker'.c = taker.c
      BY <3>1 DEF TakerLoops, TakerType
    <3>3. \A c \in Conns : sock[c] = "none" => state'[c] = "opened"
      BY <3>1
    <3> QED  BY <3>1, <3>2, <3>3
  <2>3. CASE TakerClose
    BY <2>3 DEF TakerClose, TakerLoops
  <2> QED  BY <1>11, <2>1, <2>2, <2>3 DEF TakerStep
<1>12. ASSUME GracefulStop \/ UNCHANGED vars PROVE PingInv'
  BY <1>12 DEF GracefulStop, vars, connVars, checkVars
<1> QED
  BY <1>1, <1>2, <1>3, <1>5, <1>6, <1>7, <1>8, <1>9, <1>10, <1>11, <1>12
  DEF Next, WorkerStep

\* The chain is handed from the worker to the queue and from the queue to the
\* taker; a check that ends without a successor has taken the connection out of
\* the authed state or found it unregistered.
LEMMA PendingStep == CheckInd /\ [Next]_vars => PingCheckPending'
<1> SUFFICES ASSUME CheckInd, [Next]_vars PROVE PingCheckPending'
  OBVIOUS
<1> USE ConnAssumption, IdleTypes DEF CheckInd
<1>t. \A c, d \in Conns : /\ Task("pingExpired", c) = Task("pingExpired", d) => c = d
                          /\ Task("pingExpired", c) # Task("authExpired", d)
  BY DEF Task
\* The chain of connection c at this moment.
<1> DEFINE Pending(c) ==
             \/ Task("pingExpired", c) \in dq
             \/ taker.pc = "cas" /\ taker.type = "pingExpired" /\ taker.c = c
<1>0. \A c \in connId2conn : state[c] = "authed" /\ ~BeingAuthed(c) => Pending(c)
  BY DEF PingCheckPending
<1>1. ASSUME \A c \in connId2conn' : state'[c] = "authed" =>
               c \in connId2conn /\ (state[c] = "authed" \/ BeingAuthed(c)'),
             \A c \in connId2conn : BeingAuthed(c) => BeingAuthed(c)' \/ Pending(c)',
             \A c \in connId2conn : Pending(c) => Pending(c)'
      PROVE  PingCheckPending'
  <2> SUFFICES ASSUME NEW c \in connId2conn', state'[c] = "authed", ~BeingAuthed(c)'
               PROVE  Pending(c)'
    BY DEF PingCheckPending
  <2>1. c \in connId2conn /\ state[c] = "authed"
    BY <1>1
  <2> HIDE DEF Pending
  <2> QED  BY <1>0, <1>1, <2>1
<1>2. ASSUME NEW c \in Conns, OnOpen(c) PROVE PingCheckPending'
  <2>1. /\ connId2conn' = connId2conn \cup {c} /\ sock[c] = "none"
        /\ dq \subseteq dq' /\ UNCHANGED <<state, taker, job>>
    BY <1>2 DEF OnOpen
  <2>2. state[c] = "opened"
    BY <2>1 DEF PingInv
  <2> QED  BY <1>1, <2>1, <2>2 DEF BeingAuthed, PastCas
<1>3. ASSUME NEW c \in Conns,
             OnPing(c) \/ SocketCloses(c) \/ PingGoesStale(c) \/ CleanStep(c)
      PROVE  PingCheckPending'
  <2>1. connId2conn' \subseteq connId2conn /\ UNCHANGED <<state, dq, taker, job>>
    BY <1>3 DEF OnPing, SocketCloses, PingGoesStale, CleanStep, CleanGetAndDel,
         CleanReadUid, CleanReadLevel, CleanLocked, checkVars, connVars
  <2> QED  BY <1>1, <2>1 DEF BeingAuthed, PastCas
\* A worker's own step that is not the offer.
<1>4. ASSUME NEW p \in Workers,
             \A q \in Workers : q # p => job'[q] = job[q],
             PastCas(p) => job'[p].pc \in {"lock", "publish", "offer"}
                             /\ job'[p].c = job[p].c,
             UNCHANGED <<connId2conn, dq, taker>>,
             \A c \in connId2conn : state'[c] = "authed" =>
               state[c] = "authed" \/ BeingAuthed(c)'
      PROVE  PingCheckPending'
  <2>1. ASSUME NEW c \in connId2conn, BeingAuthed(c) PROVE BeingAuthed(c)'
    BY <1>4, <2>1 DEF BeingAuthed, PastCas
  <2> QED  BY <1>1, <1>4, <2>1
<1>5. ASSUME NEW c \in Conns, NEW p \in Workers, OnConnFrame(c, p)
      PROVE  PingCheckPending'
  <2>1. /\ job[p].pc = "idle" /\ \A q \in Workers : q # p => job'[q] = job[q]
        /\ UNCHANGED <<connId2conn, state, dq, taker>>
    BY <1>5 DEF OnConnFrame, connVars, checkVars, IndInv, TypeOK
  <2> QED  BY <1>4, <2>1 DEF PastCas
<1>6. ASSUME NEW p \in Workers, ConnFrameUndecodable(p) \/ UserStateFails(p)
      PROVE  PingCheckPending'
  <2>1. /\ job[p].pc = "rpc" /\ \A q \in Workers : q # p => job'[q] = job[q]
        /\ UNCHANGED <<connId2conn, state, dq, taker>>
    BY <1>6 DEF ConnFrameUndecodable, UserStateFails, connVars, checkVars, IndInv, TypeOK
  <2> QED  BY <1>4, <2>1 DEF PastCas
<1>7. ASSUME NEW p \in Workers, NEW u \in Users, NEW t \in CTypes, UserStateOk(p, u, t)
      PROVE  PingCheckPending'
  <2> DEFINE j == [pc |-> "lock", c |-> job[p].c, u |-> u, level |-> LevelOf(t)]
  <2>1. /\ job[p].pc = "rpc" /\ \A q \in Workers : q # p => job'[q] = job[q]
        /\ UNCHANGED <<connId2conn, dq, taker>>
        /\ \/ state' = state
           \/ state' = [state EXCEPT ![job[p].c] = "authed"] /\ job'[p] = j
    BY <1>7 DEF UserStateOk, checkVars, IndInv, TypeOK
  <2>2. ASSUME NEW c \in connId2conn, state'[c] = "authed", state[c] # "authed"
        PROVE  BeingAuthed(c)'
    <3>1. c = job[p].c /\ job'[p] = j
      BY <2>1, <2>2 DEF IndInv, TypeOK
    <3> QED  BY <3>1 DEF BeingAuthed, PastCas
  <2> QED  BY <1>4, <2>1, <2>2 DEF PastCas
<1>8. ASSUME NEW p \in Workers, ModifyLock(p) \/ ModifyPublish(p)
      PROVE  PingCheckPending'
  <2>1. /\ GoTo(p, "publish") \/ GoTo(p, "offer")
        /\ UNCHANGED <<connId2conn, state, dq, taker>>
    BY <1>8 DEF ModifyLock, ModifyPublish, checkVars
  <2>2. /\ \A q \in Workers : q # p => job'[q] = job[q]
        /\ job'[p].c = job[p].c /\ job'[p].pc \in {"publish", "offer"}
    BY <2>1, GoToType, ZenonT(40) DEF GoTo, IndInv, TypeOK
  <2> QED  BY <1>4, <2>1, <2>2
<1>9. ASSUME NEW p \in Workers, ModifyOffer(p) PROVE PingCheckPending'
  <2>1. /\ dq' = dq \cup {Task("pingExpired", job[p].c)}
        /\ \A q \in Workers : q # p => job'[q] = job[q]
        /\ UNCHANGED <<connId2conn, state, taker>>
    BY <1>9 DEF ModifyOffer, connVars, IndInv, TypeOK
  <2>2. ASSUME NEW c \in connId2conn, BeingAuthed(c)
        PROVE  BeingAuthed(c)' \/ Pending(c)'
    BY <2>1, <2>2 DEF BeingAuthed, PastCas
  <2> QED  BY <1>1, <2>1, <2>2
<1>10. ASSUME NEW d \in TaskTypes, NEW e \in Conns, TakerTake(d, e)
       PROVE  PingCheckPending'
  <2>1. taker.pc = "take" /\ UNCHANGED <<connId2conn, state, job>>
    BY <1>10 DEF TakerTake, connVars
  <2>2. ASSUME NEW c \in connId2conn, Task("pingExpired", c) \in dq
        PROVE  Pending(c)'
    <3>1. c \in Conns /\ lastPing[c] \in {"fresh", "stale"}
      BY <2>2 DEF PingInv, IndInv, TypeOK
    <3>2. CASE Task(d, e) # Task("pingExpired", c)
      BY <1>10, <2>2, <3>2 DEF TakerTake
    <3>3. CASE Task(d, e) = Task("pingExpired", c)
      <4>1. d = "pingExpired" /\ e = c
        BY <3>3 DEF Task
      <4>2. CASE lastPing[c] = "fresh"
        BY <1>10, <4>1, <4>2 DEF TakerTake
      <4>3. CASE lastPing[c] = "stale"
        <5>1. taker' = [pc |-> "cas", type |-> d, c |-> e]
          BY <1>10, <4>1, <4>3 DEF TakerTake
        <5> QED  BY <4>1, <5>1
      <4> QED  BY <3>1, <4>2, <4>3
    <3> QED  BY <3>2, <3>3
  <2> QED  BY <1>1, <2>1, <2>2 DEF BeingAuthed, PastCas
<1>11. ASSUME TakerCas PROVE PingCheckPending'
  <2> SUFFICES ASSUME NEW c \in connId2conn', state'[c] = "authed", ~BeingAuthed(c)'
               PROVE  Pending(c)'
    BY DEF PingCheckPending
  <2>1. /\ taker.pc = "cas" /\ taker.c \in Conns
        /\ UNCHANGED <<connId2conn, dq, job>>
    BY <1>11 DEF TakerCas, IndInv, TypeOK
  <2>2. c \in Conns /\ state[c] = "authed" /\ ~BeingAuthed(c)
    BY <1>11, <2>1 DEF TakerCas, BeingAuthed, PastCas, IndInv, TypeOK
  <2>3. Pending(c)
    BY <1>0, <2>1, <2>2
  <2>4. ~(taker.type = "pingExpired" /\ taker.c = c)
    BY <1>11, <2>1, <2>2 DEF TakerCas, IndInv, TypeOK
  <2> QED  BY <2>1, <2>3, <2>4
<1>12. ASSUME TakerClose PROVE PingCheckPending'
  <2>1. /\ taker.pc = "close" /\ connId2conn' \subseteq connId2conn
        /\ UNCHANGED <<dq, job>>
        /\ state' = [state EXCEPT ![taker.c] = "closed"]
    BY <1>12 DEF TakerClose
  <2>2. \A c \in connId2conn' : state'[c] = "authed" => state[c] = "authed"
    BY <2>1 DEF IndInv, TypeOK
  <2> QED  BY <1>1, <2>1, <2>2 DEF BeingAuthed, PastCas
<1>13. ASSUME GracefulStop \/ UNCHANGED vars PROVE PingCheckPending'
  BY <1>1, <1>13 DEF GracefulStop, vars, connVars, checkVars, BeingAuthed, PastCas
<1> QED
  BY <1>2, <1>3, <1>5, <1>6, <1>7, <1>8, <1>9, <1>10, <1>11, <1>12, <1>13
  DEF Next, WorkerStep, TakerStep

\* What is known of pings and their checks, in every reachable state.
THEOREM CheckInductive == Spec => []CheckInd
<1>1. Init => CheckInd
  <2> SUFFICES ASSUME Init PROVE PingInv /\ PingCheckPending
    BY InitInd DEF CheckInd
  <2>1. PingInv
    BY IdleTypes DEF Init, PingInv
  <2>2. PingCheckPending
    BY DEF Init, PingCheckPending
  <2> QED  BY <2>1, <2>2
<1>2. CheckInd /\ [Next]_vars => CheckInd'
  BY StepType, WinnerStep, CheckStep, OwnerStep, PingInvStep, PendingStep
  DEF CheckInd, IndInv
<1> QED  BY <1>1, <1>2, PTL DEF Spec

\* No interleaving of login, ping and check loses the chain of checks of a
\* connection that is registered and authenticated.
THEOREM ChainNeverLost == Spec => []PingCheckPending
<1>1. CheckInd => PingCheckPending
  BY DEF CheckInd
<1> QED  BY CheckInductive, <1>1, PTL

-----------------------------------------------------------------------------
(* The kick *)

\* The check of the authentication of c is queued, or about to swap its state.
AuthCheck(c) ==
  \/ Task("authExpired", c) \in dq
  \/ taker.pc = "cas" /\ taker.type = "authExpired" /\ taker.c = c

\* A registered connection that is not authenticated has its check ahead of it, and one that
\* lost its state to a check loses its socket too: the check is about to close it.
KickInv ==
  \A c \in Conns :
    /\ c \in connId2conn /\ state[c] = "opened" => AuthCheck(c)
    /\ state[c] \in {"closing", "closed"} /\ sock[c] = "open"
         => taker.pc = "close" /\ taker.c = c

\* Steps that do not come near a check.
KickKept ==
  /\ connId2conn' \subseteq connId2conn
  /\ \A c \in Conns : sock'[c] = "open" => sock[c] = "open"
  /\ \A c \in Conns : state'[c] = state[c] \/ (state'[c] = "authed" /\ state[c] = "opened")
  /\ UNCHANGED taker
  /\ dq \subseteq dq'

LEMMA KickKeeps == ASSUME KickInv, KickKept PROVE KickInv'
BY DEF KickInv, KickKept, AuthCheck

\* Opening a connection queues its check; the other steps of connections and workers leave
\* the checks alone.
LEMMA KickSteps ==
  ASSUME IndInv, PingInv, KickInv, [Next]_vars, ~TakerStep
  PROVE  KickInv'
<1> USE DEF IndInv, TypeOK
<1>1. ASSUME NEW c \in Conns, OnOpen(c) PROVE KickInv'
  <2>1. /\ connId2conn' = connId2conn \cup {c} /\ sock' = [sock EXCEPT ![c] = "open"]
        /\ dq' = dq \cup {Task("authExpired", c)} /\ UNCHANGED <<state, taker>>
        /\ state[c] = "opened"
    BY <1>1 DEF OnOpen, PingInv
  <2> QED  BY <2>1 DEF KickInv, AuthCheck
<1>2. ASSUME NEW c \in Conns, OnPing(c) \/ SocketCloses(c) \/ PingGoesStale(c)
      PROVE  KickKept
  BY <1>2 DEF OnPing, SocketCloses, PingGoesStale, KickKept, checkVars
<1>3. ASSUME NEW c \in Conns, CleanStep(c) PROVE KickKept
  BY <1>3 DEF CleanStep, CleanGetAndDel, CleanReadUid, CleanReadLevel, CleanLocked, KickKept,
       connVars, checkVars
<1>4. ASSUME NEW c \in Conns, NEW p \in Workers, OnConnFrame(c, p) PROVE KickKept
  BY <1>4 DEF OnConnFrame, KickKept, connVars, checkVars
<1>5. ASSUME NEW p \in Workers, NEW u \in Users, NEW t \in CTypes, UserStateOk(p, u, t)
      PROVE  KickKept
  BY <1>5 DEF UserStateOk, KickKept, checkVars
<1>6. ASSUME NEW p \in Workers,
             ConnFrameUndecodable(p) \/ UserStateFails(p) \/ ModifyLock(p) \/ ModifyOffer(p)
      PROVE  KickKept
  BY <1>6 DEF ConnFrameUndecodable, UserStateFails, ModifyLock, ModifyOffer, KickKept,
       connVars, checkVars
<1>7. ASSUME NEW p \in Workers, ModifyPublish(p) PROVE KickKept
  <2>1. UNCHANGED <<sock, connId2conn, state, checkVars>>
    BY <1>7 DEF ModifyPublish
  <2> QED  BY <2>1 DEF KickKept, checkVars
<1>8. ASSUME GracefulStop \/ UNCHANGED vars PROVE KickKept
  BY <1>8 DEF GracefulStop, vars, KickKept, connVars, checkVars
<1> QED
  BY <1>1, <1>2, <1>3, <1>4, <1>5, <1>6, <1>7, <1>8, KickKeeps DEF Next, WorkerStep

\* A check ends when its connection is unregistered, authenticated, or swapped and closed.
LEMMA KickTaker ==
  ASSUME IndInv, PingInv, KickInv, TakerStep
  PROVE  KickInv'
<1> USE IdleTypes DEF IndInv, TypeOK
<1>1. ASSUME NEW d \in TaskTypes, NEW c \in Conns, TakerTake(d, c) PROVE KickInv'
  <2>1. /\ taker.pc = "take" /\ UNCHANGED <<connId2conn, state, sock>>
        /\ dq \ {Task(d, c)} \subseteq dq'
    BY <1>1 DEF TakerTake, connVars
  <2>2. \A x \in Conns : Task("authExpired", x) = Task(d, c) => x = c /\ d = "authExpired"
    BY DEF Task
  <2>3. c \in connId2conn /\ d = "authExpired"
          => taker' = [pc |-> "cas", type |-> "authExpired", c |-> c]
    BY <1>1 DEF TakerTake
  <2> QED  BY <2>1, <2>2, <2>3 DEF KickInv, AuthCheck
<1>2. ASSUME TakerCas PROVE KickInv'
  <2>1. PICK x \in Conns : x = taker.c /\ taker.pc = "cas"
    BY <1>2 DEF TakerCas
  <2>2. UNCHANGED <<connId2conn, sock, dq>>
    BY <1>2 DEF TakerCas
  <2>3. \/ /\ state' = [state EXCEPT ![x] = "closing"]
           /\ taker'.pc = "close" /\ taker'.c = x
        \/ /\ state' = state /\ taker'.pc # "close"
           /\ taker.type = "authExpired" => state[x] # "opened"
    BY <1>2, <2>1 DEF TakerCas, TakerGoTo, TakerLoops, TakerType
  <2> QED  BY <2>1, <2>2, <2>3 DEF KickInv, AuthCheck
<1>3. ASSUME TakerClose PROVE KickInv'
  <2>1. PICK x \in Conns : x = taker.c /\ taker.pc = "close"
    BY <1>3 DEF TakerClose
  <2>2. /\ connId2conn' \subseteq connId2conn /\ dq' = dq
        /\ sock'[x] # "open" /\ state'[x] = "closed"
        /\ \A c \in Conns : c # x => sock'[c] = sock[c] /\ state'[c] = state[c]
    BY <1>3, <2>1 DEF TakerClose
  <2> QED  BY <2>1, <2>2 DEF KickInv, AuthCheck
<1> QED  BY <1>1, <1>2, <1>3 DEF TakerStep

\* The safety half of UnauthedIsKicked: no interleaving leaves a connection without its check,
\* or a connection that was kicked with an open socket.
THEOREM KickIsComing == Spec => []KickInv
<1>1. Init => KickInv
  BY DEF Init, KickInv
<1>2. CheckInd /\ KickInv /\ [Next]_vars => KickInv'
  BY KickSteps, KickTaker DEF CheckInd
<1> QED  BY CheckInductive, <1>1, <1>2, PTL DEF Spec

-----------------------------------------------------------------------------
(* The segment lock *)

InSection(p, u) == job[p].pc = "publish" /\ job[p].u = u

\* Whoever is between the write of a uid and the publication has the user's segment, no
\* two have the same, and a segment that is taken has somebody in it.
SegmentInv ==
  \A u \in Users :
    /\ segLock[u] <=> \E p \in Workers : InSection(p, u)
    /\ \A p, q \in Workers : InSection(p, u) /\ InSection(q, u) => p = q

SegmentKept ==
  /\ segLock' = segLock
  /\ \A p \in Workers : \A u \in Users : InSection(p, u)' <=> InSection(p, u)

\* Nobody else enters or leaves a section.
LEMMA SegmentSteps ==
  ASSUME IndInv, [Next]_vars
  PROVE  SegmentKept \/ \E p \in Workers : ModifyLock(p) \/ ModifyPublish(p)
<1> USE IdleTypes DEF IndInv, TypeOK
<1>1. ASSUME UNCHANGED <<segLock, job>> PROVE SegmentKept
  BY <1>1 DEF SegmentKept, InSection
<1>2. ASSUME NEW p \in Workers, NEW j, job[p].pc # "publish", j.pc # "publish",
             job' = [job EXCEPT ![p] = j], segLock' = segLock
      PROVE  SegmentKept
  <2>1. \A q \in Workers : job'[q] = IF q = p THEN j ELSE job[q]
    BY <1>2
  <2> QED  BY <1>2, <2>1 DEF SegmentKept, InSection
<1>3. ASSUME NEW c \in Conns, NEW p \in Workers, OnConnFrame(c, p) PROVE SegmentKept
  <2> DEFINE j == [JobIdle EXCEPT !.pc = "rpc", !.c = c]
  <2>1. j.pc # "publish"
    BY DEF JobIdle
  <2>2. job' = [job EXCEPT ![p] = j] /\ job[p].pc # "publish" /\ segLock' = segLock
    BY <1>3 DEF OnConnFrame, wrapVars
  <2> HIDE DEF j
  <2> QED  BY <1>2, <2>1, <2>2
<1>4. ASSUME NEW p \in Workers,
             ConnFrameUndecodable(p) \/ UserStateFails(p) \/ ModifyOffer(p)
      PROVE  SegmentKept
  <2>1. job' = [job EXCEPT ![p] = JobIdle] /\ job[p].pc # "publish" /\ segLock' = segLock
    BY <1>4 DEF ConnFrameUndecodable, UserStateFails, ModifyOffer, wrapVars
  <2> QED  BY <1>2, <2>1
<1>5. ASSUME NEW p \in Workers, NEW u \in Users, NEW t \in CTypes, UserStateOk(p, u, t)
      PROVE  SegmentKept
  <2> DEFINE j == [pc |-> "lock", c |-> job[p].c, u |-> u, level |-> LevelOf(t)]
  <2>1. j.pc # "publish"
    OBVIOUS
  <2>2. /\ job' = [job EXCEPT ![p] = j] \/ job' = [job EXCEPT ![p] = JobIdle]
        /\ job[p].pc # "publish" /\ segLock' = segLock
    BY <1>5 DEF UserStateOk, wrapVars
  <2> HIDE DEF j
  <2> QED  BY <1>2, <2>1, <2>2
<1>6. ASSUME NEW c \in Conns,
             OnOpen(c) \/ OnPing(c) \/ SocketCloses(c) \/ PingGoesStale(c)
      PROVE  SegmentKept
  BY <1>1, <1>6 DEF OnOpen, OnPing, SocketCloses, PingGoesStale, wrapVars
<1>7. ASSUME NEW c \in Conns, CleanStep(c) PROVE SegmentKept
  BY <1>1, <1>7 DEF CleanStep, CleanGetAndDel, CleanReadUid, CleanReadLevel, CleanLocked,
       wrapVars
<1>8. ASSUME TakerStep \/ GracefulStop \/ UNCHANGED vars PROVE SegmentKept
  BY <1>1, <1>8 DEF TakerStep, TakerTake, TakerCas, TakerClose, GracefulStop, vars, wrapVars
<1> QED
  BY <1>3, <1>4, <1>5, <1>6, <1>7, <1>8 DEF Next, WorkerStep

\* A worker enters the section it found free.
LEMMA SegmentTaken ==
  ASSUME IndInv, SegmentInv, NEW p \in Workers, ModifyLock(p)
  PROVE  SegmentInv'
<1> USE DEF IndInv, TypeOK
<1>1. PICK u \in Users : u = job[p].u /\ ~segLock[u] /\ segLock' = [segLock EXCEPT ![u] = TRUE]
  BY DEF ModifyLock
<1>2. \A q \in Workers : job'[q].u = job[q].u
                         /\ job'[q].pc = IF q = p THEN "publish" ELSE job[q].pc
  BY GoToType DEF ModifyLock
<1>3. job[p].pc = "lock" /\ \A q \in Workers : ~InSection(q, u)
  BY <1>1 DEF ModifyLock, SegmentInv
<1>4. \A q \in Workers : \A v \in Users :
        InSection(q, v)' <=> InSection(q, v) \/ (q = p /\ v = u)
  BY <1>1, <1>2, <1>3 DEF InSection
<1>5. \A v \in Users : segLock'[v] <=> segLock[v] \/ v = u
  BY <1>1
<1> HIDE DEF IndInv, TypeOK
<1> QED  BY <1>3, <1>4, <1>5 DEF SegmentInv

\* A worker leaves its section.
LEMMA SegmentLeft ==
  ASSUME IndInv, SegmentInv, NEW p \in Workers, ModifyPublish(p)
  PROVE  SegmentInv'
<1> USE DEF IndInv, TypeOK
<1>1. PICK u \in Users : u = job[p].u /\ segLock' = [segLock EXCEPT ![u] = FALSE]
  BY DEF ModifyPublish
<1>2. \A q \in Workers : job'[q].u = job[q].u
                         /\ job'[q].pc = IF q = p THEN "offer" ELSE job[q].pc
  BY GoToType DEF ModifyPublish
<1>3. InSection(p, u)
  BY <1>1 DEF ModifyPublish, InSection
<1>4. \A q \in Workers : \A v \in Users :
        InSection(q, v)' <=> InSection(q, v) /\ q # p
  BY <1>2 DEF InSection
<1>5. \A v \in Users : segLock'[v] <=> segLock[v] /\ v # u
  BY <1>1
<1>6. \A v \in Users : InSection(p, v) => v = u
  BY <1>1 DEF InSection
<1> HIDE DEF IndInv, TypeOK
<1> QED  BY <1>3, <1>4, <1>5, <1>6 DEF SegmentInv

\* The safety half of CloseIsCleaned: at most one worker is in the section of a user, and
\* the segment a cleanup waits for is held by a worker that is about to give it back.
THEOREM SegmentHeld == Spec => []SegmentInv
<1>1. Init => SegmentInv
  BY IdleTypes DEF Init, SegmentInv, InSection
<1>2. IndInv /\ SegmentInv /\ [Next]_vars => SegmentInv'
  <2>1. ASSUME SegmentInv, SegmentKept PROVE SegmentInv'
    BY <2>1 DEF SegmentInv, SegmentKept
  <2> QED  BY <2>1, SegmentSteps, SegmentTaken, SegmentLeft
<1> QED  BY Inductive, <1>1, <1>2, PTL DEF Spec

-----------------------------------------------------------------------------
(***************************************************************************)
(* The refinement of DeviceLists.                                          *)
(*                                                                         *)
(* A login makes room by what the level lists say: the head of the slave   *)
(* list, or the listed master.  That this is the earliest slave of the     *)
(* list of connections, or a master of it, is what the invariant adds.     *)
(***************************************************************************)

\* A level is written by the publication; a cleanup that believes in a master has seen
\* one, and begins when the socket is closed.
LevelInv ==
  \A c \in Conns :
    /\ Unpublished(c) => clevel[c] = "unset"
    /\ clean[c].pc = "lock" /\ clean[c].isMaster => clevel[c] = "master"
    /\ sock[c] # "closed" => clean[c].pc = "idle"

\* The slave list of a wrap has slaves of the wrap only, in the order of its
\* connections; who is listed as master, evicted or not, is one.
OrderInv ==
  \A w \in Conns :
    /\ InOrder(conns[w], level2conn[w]["slave"])
    /\ \A d \in ToSet(level2conn[w]["slave"]) : clevel[d] = "slave"
    /\ \A d \in ToSet(level2conn[w]["master"]) : clevel[d] = "master"

RefInd == ListInd /\ LevelInv /\ OrderInv

LEMMA InitRef == Init => RefInd
<1> SUFFICES ASSUME Init PROVE LevelInv /\ OrderInv
  BY InitList DEF RefInd
<1> USE IdleTypes DEF Init
<1>1. LevelInv
  BY DEF LevelInv
<1>2. ToSet(<<>>) = {} /\ IsInjective(<<>>)
  BY DEF ToSet, IsInjective
<1>3. InOrder(<<>>, <<>>)
  BY <1>2 DEF InOrder
<1>4. \A w \in Conns : /\ conns[w] = <<>> /\ level2conn[w]["slave"] = <<>>
                       /\ level2conn[w]["master"] = <<>>
  BY DEF Levels
<1>5. OrderInv
  BY <1>2, <1>3, <1>4 DEF OrderInv
<1> QED  BY <1>1, <1>5

\* Levels, once written, stay, and cleanups go on only when their socket is closed.
LEMMA LevelStep ==
  ASSUME RefInd, ListInd', [Next]_vars
  PROVE  LevelInv'
<1> USE IdleTypes DEF RefInd, ListInd, IndInv, TypeOK
<1>1. ASSUME NEW c \in Conns, Unpublished(c)'
      PROVE  clevel'[c] = "unset"
  <2>1. CASE Quiet
    <3>1. Unpublished(c)
      BY <1>1, <2>1 DEF Unpublished, Quiet
    <3> QED  BY <2>1, <3>1 DEF LevelInv, Quiet
  <2>2. ASSUME NEW d \in Conns, CleanLocked(d)
        PROVE  clevel'[c] = "unset"
    BY <1>1, <2>2 DEF CleanLocked, connVars, Unpublished, LevelInv
  <2>3. ASSUME NEW p \in Workers, ModifyLock(p)
        PROVE  clevel'[c] = "unset"
    <3>1. /\ job[p].pc = "lock" /\ uid[job[p].c] = NoUid /\ GoTo(p, "publish")
          /\ uid' = [uid EXCEPT ![job[p].c] = job[p].u] /\ clevel' = clevel
      BY <2>3 DEF ModifyLock, WinnerInv
    <3>2. Unpublished(c)
      <4>1. CASE c = job[p].c
        BY <3>1, <4>1 DEF Unpublished
      <4>2. CASE c # job[p].c
        <5>1. uid'[c] = uid[c]
          BY <3>1, <4>2
        <5>2. \A q \in Workers : /\ job'[q].c = job[q].c
                                 /\ job'[q].pc = IF q = p THEN "publish" ELSE job[q].pc
          BY <3>1, GoToType
        <5> QED  BY <1>1, <4>2, <5>1, <5>2 DEF Unpublished
      <4> QED  BY <4>1, <4>2
    <3> QED  BY <3>1, <3>2 DEF LevelInv
  <2>4. ASSUME NEW p \in Workers, ModifyPublish(p)
        PROVE  clevel'[c] = "unset"
    <3>1. /\ job[p].pc = "publish" /\ GoTo(p, "offer") /\ uid[job[p].c] # NoUid
          /\ clevel' = [clevel EXCEPT ![job[p].c] = job[p].level] /\ uid' = uid
      BY <2>4, ConnAssumption DEF ModifyPublish, WinnerInv
    <3>2. \A q \in Workers : /\ job'[q].c = job[q].c
                             /\ job'[q].pc = IF q = p THEN "offer" ELSE job[q].pc
      BY <3>1, GoToType
    <3>3. Unpublished(c) /\ c # job[p].c
      <4>1. CASE uid'[c] = NoUid
        BY <3>1, <4>1 DEF Unpublished
      <4>2. CASE \E q \in Workers : job'[q].pc = "publish" /\ job'[q].c = c
        <5>1. PICK q \in Workers : q # p /\ job[q].pc = "publish" /\ job[q].c = c
          BY <3>2, <4>2
        <5>2. c # job[p].c
          BY <3>1, <5>1 DEF WinnerInv, PastCas
        <5> QED  BY <5>1, <5>2 DEF Unpublished
      <4> QED  BY <1>1, <4>1, <4>2 DEF Unpublished
    <3>4. clevel'[c] = clevel[c]
      BY <3>1, <3>3
    <3> QED  BY <3>3, <3>4 DEF LevelInv
  <2> QED  BY <2>1, <2>2, <2>3, <2>4, ListSteps
<1>2. ASSUME NEW c \in Conns, clevel[c] = "master"
      PROVE  clevel'[c] = "master"
  <2>1. CASE clevel' = clevel
    BY <1>2, <2>1
  <2>2. ASSUME NEW p \in Workers, ModifyPublish(p)
        PROVE  clevel'[c] = "master"
    <3>1. /\ Unpublished(job[p].c) /\ job[p].c \in Conns
          /\ clevel' = [clevel EXCEPT ![job[p].c] = job[p].level]
      BY <2>2 DEF ModifyPublish, Unpublished
    <3>2. job[p].c # c
      BY <1>2, <3>1 DEF LevelInv
    <3> QED  BY <1>2, <3>1, <3>2
  <2>3. CASE Quiet
    BY <2>1, <2>3 DEF Quiet
  <2>4. ASSUME NEW d \in Conns, CleanLocked(d) PROVE clevel' = clevel
    BY <2>4 DEF CleanLocked, connVars
  <2>5. ASSUME NEW p \in Workers, ModifyLock(p) PROVE clevel' = clevel
    BY <2>5 DEF ModifyLock
  <2> QED  BY <2>1, <2>2, <2>3, <2>4, <2>5, ListSteps
<1>3. ASSUME NEW c \in Conns
      PROVE  /\ clean'[c].pc = "lock" /\ clean'[c].isMaster => clevel'[c] = "master"
             /\ sock'[c] # "closed" => clean'[c].pc = "idle"
  <2>1. ASSUME clean'[c] = clean[c], sock'[c] # "closed" => sock[c] # "closed"
        PROVE  /\ clean'[c].pc = "lock" /\ clean'[c].isMaster => clevel'[c] = "master"
               /\ sock'[c] # "closed" => clean'[c].pc = "idle"
    BY <1>2, <2>1 DEF LevelInv
  <2>2. ASSUME NEW d \in Conns, CleanStep(d)
        PROVE  /\ clean'[c].pc = "lock" /\ clean'[c].isMaster => clevel'[c] = "master"
               /\ sock'[c] # "closed" => clean'[c].pc = "idle"
    <3>1. CASE c # d
      BY <2>1, <2>2, <3>1 DEF CleanStep, CleanGetAndDel, CleanReadUid, CleanReadLevel,
           CleanLocked, connVars
    <3>2. CASE c = d /\ CleanGetAndDel(d)
      BY <3>2 DEF CleanGetAndDel, CleanType
    <3>3. CASE c = d /\ CleanReadUid(d)
      <4>1. sock[c] = "closed" /\ sock' = sock
        BY <3>3 DEF CleanReadUid, LevelInv, connVars
      <4>2. clean'[c].pc \in {"end", "level"}
        BY <3>3 DEF CleanReadUid, CleanIdle
      <4> QED  BY <4>1, <4>2
    <3>4. CASE c = d /\ CleanReadLevel(d)
      <4>1. sock[c] = "closed" /\ sock' = sock /\ clevel' = clevel
        BY <3>4 DEF CleanReadLevel, LevelInv, connVars
      <4>2. clean'[c].isMaster = (clevel[c] = "master")
        BY <3>4 DEF CleanReadLevel, CleanType
      <4> QED  BY <4>1, <4>2
    <3>5. CASE c = d /\ CleanLocked(d)
      <4>1. sock[c] = "closed" /\ sock' = sock
        BY <3>5 DEF CleanLocked, LevelInv, connVars
      <4>2. clean'[c].pc = "end"
        BY <3>5 DEF CleanLocked, CleanIdle
      <4> QED  BY <4>1, <4>2
    <3> QED  BY <2>2, <3>1, <3>2, <3>3, <3>4, <3>5 DEF CleanStep
  <2>3. ASSUME NEW d \in Conns,
               OnOpen(d) \/ OnPing(d) \/ SocketCloses(d) \/ PingGoesStale(d)
        PROVE  clean' = clean /\ (sock'[c] # "closed" => sock[c] # "closed")
    BY <2>3 DEF OnOpen, OnPing, SocketCloses, PingGoesStale
  <2>4. ASSUME NEW d \in Conns, NEW p \in Workers, OnConnFrame(d, p)
        PROVE  clean' = clean /\ sock' = sock
    BY <2>4 DEF OnConnFrame, connVars
  <2>5. ASSUME NEW p \in Workers, WorkerStep(p)
        PROVE  clean' = clean /\ (sock'[c] # "closed" => sock[c] # "closed")
    BY <2>5 DEF WorkerStep, ConnFrameUndecodable, UserStateFails, UserStateOk, ModifyLock,
         ModifyPublish, ModifyOffer, connVars
  <2>6. ASSUME TakerStep \/ GracefulStop \/ UNCHANGED vars
        PROVE  clean' = clean /\ (sock'[c] # "closed" => sock[c] # "closed")
    BY <2>6 DEF TakerStep, TakerTake, TakerCas, TakerClose, GracefulStop, vars, connVars
  <2> QED  BY <2>1, <2>2, <2>3, <2>4, <2>5, <2>6 DEF Next
<1> QED  BY <1>1, <1>3 DEF LevelInv

\* Logins and cleanups keep the level lists in order.
LEMMA CleanKeepsOrder ==
  ASSUME RefInd, NEW c \in Conns, CleanLocked(c)
  PROVE  OrderInv'
<1> USE DEF RefInd, ListInd, IndInv, TypeOK
<1>1. PICK w \in Conns : w = clean[c].w
  BY DEF CleanLocked
<1>2. PICK left : left = RemoveFirst(conns[w], c)
  OBVIOUS
<1>3. PICK fewer : fewer = RemoveFirst(level2conn[w]["slave"], c)
  OBVIOUS
<1>4. /\ conns' = [conns EXCEPT ![w] = left] /\ clevel' = clevel
      /\ level2conn' = IF clean[c].isMaster
                       THEN [level2conn EXCEPT ![w]["master"] = <<>>]
                       ELSE [level2conn EXCEPT ![w]["slave"] = fewer]
  BY <1>1, <1>2, <1>3 DEF CleanLocked, connVars
<1>5. /\ "slave" \in Levels /\ "master" \in Levels
      /\ conns[w] \in Seq(Conns) /\ level2conn[w]["slave"] \in Seq(Conns)
      /\ InOrder(conns[w], level2conn[w]["slave"])
      /\ \A d \in ToSet(level2conn[w]["slave"]) : clevel[d] = "slave"
  BY DEF Levels, OrderInv
<1>6. /\ InOrder(left, fewer) /\ ToSet(fewer) \subseteq ToSet(level2conn[w]["slave"])
      /\ c \notin ToSet(level2conn[w]["slave"]) => fewer = level2conn[w]["slave"]
  BY <1>2, <1>3, <1>5, InOrderRemove, RemoveFirstType
<1>7. /\ conns'[w] = left
      /\ \A v \in Conns : v # w => conns'[v] = conns[v] /\ level2conn'[v] = level2conn[v]
  BY <1>4
<1>8. ToSet(<<>>) = {}
  BY DEF ToSet
<1>9. /\ level2conn'[w]["slave"] = fewer
      /\ ToSet(level2conn'[w]["master"]) \subseteq ToSet(level2conn[w]["master"])
  <2>1. CASE clean[c].isMaster
    <3>1. clevel[c] = "master"
      BY <2>1 DEF CleanLocked, LevelInv
    <3>2. c \notin ToSet(level2conn[w]["slave"])
      BY <1>5, <3>1
    <3>3. level2conn' = [level2conn EXCEPT ![w]["master"] = <<>>]
      BY <1>4, <2>1
    <3>4. /\ level2conn'[w]["slave"] = level2conn[w]["slave"]
          /\ level2conn'[w]["master"] = <<>>
      BY <1>5, <3>3
    <3> QED  BY <1>6, <1>8, <3>2, <3>4
  <2>2. CASE ~clean[c].isMaster
    <3>1. level2conn' = [level2conn EXCEPT ![w]["slave"] = fewer]
      BY <1>4, <2>2
    <3> QED  BY <1>5, <3>1
  <2> QED  BY <2>1, <2>2
<1>10. ASSUME NEW v \in Conns
       PROVE  /\ InOrder(conns'[v], level2conn'[v]["slave"])
              /\ \A d \in ToSet(level2conn'[v]["slave"]) : clevel'[d] = "slave"
              /\ \A d \in ToSet(level2conn'[v]["master"]) : clevel'[d] = "master"
  <2>1. CASE v = w
    BY <1>4, <1>5, <1>6, <1>7, <1>9, <2>1 DEF OrderInv
  <2>2. CASE v # w
    BY <1>4, <1>7, <2>2 DEF OrderInv
  <2> QED  BY <2>1, <2>2
<1> QED  BY <1>10 DEF OrderInv

\* What the publication of c at a level does to the order of its wrap w.
JoinsInOrder(c, w, level) ==
  /\ InOrder(conns'[w], level2conn'[w]["slave"])
  /\ ToSet(level2conn'[w]["slave"]) \subseteq
       ToSet(level2conn[w]["slave"]) \cup (IF level = "slave" THEN {c} ELSE {})
  /\ ToSet(level2conn'[w]["master"]) \subseteq
       ToSet(level2conn[w]["master"]) \cup (IF level = "master" THEN {c} ELSE {})

LEMMA NewWrapInOrder ==
  ASSUME RefInd, NEW c \in Conns, NEW u \in Users, NEW level \in Levels,
         NewWrap(c, u, level)
  PROVE  JoinsInOrder(c, c, level)
<1> USE DEF RefInd, ListInd, IndInv, TypeOK
<1>1. "slave" \in Levels /\ "master" \in Levels
  BY DEF Levels
<1>2. /\ conns'[c] = <<c>>
      /\ \A l \in Levels : level2conn'[c][l] = IF l = level THEN <<c>> ELSE <<>>
  BY DEF NewWrap
<1>3. /\ ToSet(<<>>) = {} /\ IsInjective(<<>>)
      /\ ToSet(<<c>>) = {c} /\ IsInjective(<<c>>)
  BY DEF ToSet, IsInjective
<1>4. InOrder(<<c>>, <<>>) /\ InOrder(<<c>>, <<c>>)
  BY <1>3 DEF InOrder
<1> QED  BY <1>1, <1>2, <1>3, <1>4 DEF JoinsInOrder

LEMMA MasterInOrder ==
  ASSUME RefInd, NEW c \in Conns, NEW w \in Conns, Unpublished(c), JoinMaster(c, w)
  PROVE  JoinsInOrder(c, w, "master")
<1> USE DEF RefInd, ListInd, IndInv, TypeOK
<1>1. PICK s \in Seq(Conns) : s = level2conn[w]["slave"]
  BY DEF Levels
<1>2. PICK old \in Seq(Conns) : old = level2conn[w]["master"]
  BY DEF Levels
<1>3. PICK all \in Seq(Conns) : all = Append(conns[w], c)
  BY AppendProperties
<1>4. /\ "slave" \in Levels /\ "master" \in Levels
      /\ conns' = [conns EXCEPT ![w] =
                     IF old # <<>> THEN RemoveFirst(all, Head(old)) ELSE all]
      /\ level2conn' = [level2conn EXCEPT ![w]["master"] = <<c>>]
  BY <1>2, <1>3 DEF JoinMaster, Levels
<1>5. /\ conns'[w] = IF old # <<>> THEN RemoveFirst(all, Head(old)) ELSE all
      /\ level2conn'[w]["slave"] = s /\ level2conn'[w]["master"] = <<c>>
  BY <1>1, <1>4
<1>6. c \notin ToSet(s) /\ InOrder(conns[w], s)
  BY <1>1, <1>4 DEF FreshInv, OrderInv
<1>7. InOrder(all, s)
  BY <1>3, <1>6, InOrderAppend
<1>8. ASSUME old # <<>> PROVE InOrder(RemoveFirst(all, Head(old)), s)
  <2>1. Head(old) \in ToSet(old)
    BY <1>8, TailSet
  <2>2. clevel[Head(old)] = "master"
    BY <1>2, <2>1 DEF OrderInv
  <2>3. Head(old) \notin ToSet(s)
    BY <1>1, <2>2 DEF OrderInv
  <2> QED  BY <1>7, <2>3, InOrderRemove
<1>9. ToSet(<<c>>) = {c}
  BY DEF ToSet
<1> QED  BY <1>1, <1>5, <1>7, <1>8, <1>9 DEF JoinsInOrder

LEMMA SlaveInOrder ==
  ASSUME RefInd, NEW c \in Conns, NEW w \in Conns, Unpublished(c), JoinSlave(c, w)
  PROVE  JoinsInOrder(c, w, "slave")
<1> USE DEF RefInd, ListInd, IndInv, TypeOK
<1>1. PICK old \in Seq(Conns) : old = level2conn[w]["slave"]
  BY DEF Levels
<1>2. PICK all \in Seq(Conns) : all = Append(conns[w], c)
  BY AppendProperties
<1>3. PICK s \in Seq(Conns) : s = Append(old, c) /\ s # <<>>
  BY AppendProperties
<1>4. PICK over : over = (Len(s) > MaxSlaveConns)
  OBVIOUS
<1>5. /\ "slave" \in Levels /\ "master" \in Levels
      /\ conns' = [conns EXCEPT ![w] = IF over THEN RemoveFirst(all, Head(s)) ELSE all]
      /\ level2conn' = [level2conn EXCEPT ![w]["slave"] = IF over THEN Tail(s) ELSE s]
  BY <1>1, <1>2, <1>3, <1>4 DEF JoinSlave, Levels
<1>6. /\ conns'[w] = IF over THEN RemoveFirst(all, Head(s)) ELSE all
      /\ level2conn'[w]["slave"] = IF over THEN Tail(s) ELSE s
      /\ level2conn'[w]["master"] = level2conn[w]["master"]
  BY <1>5
<1>7. c \notin ToSet(old) /\ InOrder(conns[w], old)
  BY <1>1, <1>5 DEF FreshInv, OrderInv
<1>8. InOrder(all, s) /\ ToSet(s) = ToSet(old) \cup {c}
  BY <1>2, <1>3, <1>7, InOrderAppend, AppendSet
<1>9. /\ InOrder(RemoveFirst(all, Head(s)), Tail(s))
      /\ ToSet(Tail(s)) \subseteq ToSet(s)
  BY <1>3, <1>8, InOrderTail, TailSet
<1> QED  BY <1>1, <1>6, <1>8, <1>9 DEF JoinsInOrder

LEMMA PublishKeepsOrder ==
  ASSUME RefInd, NEW p \in Workers, ModifyPublish(p)
  PROVE  OrderInv'
<1> USE ConnAssumption DEF RefInd, ListInd, IndInv, TypeOK
<1> DEFINE c == job[p].c
           u == job[p].u
           level == job[p].level
<1>1. /\ c \in Conns /\ u \in Users /\ level \in Levels /\ Unpublished(c)
      /\ clevel' = [clevel EXCEPT ![c] = level]
  BY DEF ModifyPublish, Unpublished, JobType
<1>2. \E w \in Conns : Joins(c, w) /\ JoinsInOrder(c, w, level)
  <2>1. CASE uid2conn[u] = NoConn
    <3>1. NewWrap(c, u, level)
      BY <2>1 DEF ModifyPublish
    <3> QED  BY <1>1, <3>1, NewWrapJoins, NewWrapInOrder
  <2>2. CASE uid2conn[u] # NoConn /\ level = "master"
    <3>1. uid2conn[u] \in Conns /\ JoinMaster(c, uid2conn[u])
      BY <1>1, <2>2 DEF ModifyPublish
    <3> QED  BY <1>1, <2>2, <3>1, MasterJoins, MasterInOrder
  <2>3. CASE uid2conn[u] # NoConn /\ level # "master"
    <3>1. uid2conn[u] \in Conns /\ JoinSlave(c, uid2conn[u]) /\ level = "slave"
      BY <1>1, <2>3 DEF ModifyPublish, Levels
    <3> QED  BY <1>1, <3>1, SlaveJoins, SlaveInOrder
  <2> QED  BY <2>1, <2>2, <2>3
<1>3. PICK w \in Conns : Joins(c, w) /\ JoinsInOrder(c, w, level)
  BY <1>2
<1>4. clevel'[c] = level /\ \A d \in Conns : d # c => clevel'[d] = clevel[d]
  BY <1>1
<1>5. ASSUME NEW v \in Conns, NEW l \in Levels
      PROVE  ToSet(level2conn[v][l]) \subseteq Conns \ {c}
  <2>1. c \notin ToSet(level2conn[v][l])
    BY <1>1 DEF FreshInv
  <2>2. PICK s \in Seq(Conns) : s = level2conn[v][l]
    BY DEF Levels
  <2>3. ToSet(s) \subseteq Conns
    <3>1. \A i \in DOMAIN s : s[i] \in Conns
      BY LenProperties
    <3> QED  BY <3>1 DEF ToSet
  <2> QED  BY <2>1, <2>2, <2>3
<1>6. "slave" \in Levels /\ "master" \in Levels
  BY DEF Levels
<1> HIDE DEF c, u, level
<1>7. ASSUME NEW v \in Conns
      PROVE  /\ InOrder(conns'[v], level2conn'[v]["slave"])
             /\ \A d \in ToSet(level2conn'[v]["slave"]) : clevel'[d] = "slave"
             /\ \A d \in ToSet(level2conn'[v]["master"]) : clevel'[d] = "master"
  <2>1. CASE v = w
    <3>1. ASSUME NEW d \in ToSet(level2conn'[w]["slave"]) PROVE clevel'[d] = "slave"
      <4>1. CASE d = c
        BY <1>3, <1>4, <1>5, <1>6, <3>1, <4>1 DEF JoinsInOrder
      <4>2. CASE d # c
        <5>1. d \in ToSet(level2conn[w]["slave"])
          BY <1>3, <3>1, <4>2 DEF JoinsInOrder
        <5>2. clevel[d] = "slave"
          BY <1>3, <5>1 DEF OrderInv
        <5>3. d \in Conns
          BY <1>3, <1>5, <1>6, <5>1
        <5> QED  BY <1>4, <4>2, <5>2, <5>3
      <4> QED  BY <4>1, <4>2
    <3>2. ASSUME NEW d \in ToSet(level2conn'[w]["master"]) PROVE clevel'[d] = "master"
      <4>1. CASE d = c
        BY <1>3, <1>4, <1>5, <1>6, <3>2, <4>1 DEF JoinsInOrder
      <4>2. CASE d # c
        <5>1. d \in ToSet(level2conn[w]["master"])
          BY <1>3, <3>2, <4>2 DEF JoinsInOrder
        <5>2. clevel[d] = "master"
          BY <1>3, <5>1 DEF OrderInv
        <5>3. d \in Conns
          BY <1>3, <1>5, <1>6, <5>1
        <5> QED  BY <1>4, <4>2, <5>2, <5>3
      <4> QED  BY <4>1, <4>2
    <3> QED  BY <1>3, <2>1, <3>1, <3>2 DEF JoinsInOrder
  <2>2. CASE v # w
    <3>1. conns'[v] = conns[v] /\ level2conn'[v] = level2conn[v]
      BY <1>3, <2>2 DEF Joins
    <3>2. \A d \in ToSet(level2conn[v]["slave"]) \cup ToSet(level2conn[v]["master"]) :
            clevel'[d] = clevel[d]
      BY <1>4, <1>5, <1>6
    <3> QED  BY <3>1, <3>2 DEF OrderInv
  <2> QED  BY <2>1, <2>2
<1> QED  BY <1>7 DEF OrderInv

LEMMA Ordered == Spec => []RefInd
<1>1. RefInd /\ ListInd' /\ [Next]_vars => RefInd'
  <2> SUFFICES ASSUME RefInd, ListInd', [Next]_vars PROVE LevelInv' /\ OrderInv'
    BY DEF RefInd
  <2>1. ASSUME UNCHANGED <<conns, level2conn, clevel>> PROVE OrderInv'
    BY <2>1 DEF OrderInv, RefInd
  <2>2. OrderInv'
    BY <2>1, ListSteps, CleanKeepsOrder, PublishKeepsOrder
    DEF RefInd, ListInd, Quiet, ModifyLock
  <2> QED  BY <2>2, LevelStep
<1> QED  BY InitRef, ListInductive, <1>1, PTL DEF Spec

-----------------------------------------------------------------------------
(* The steps of DeviceLists *)

\* What a step has to be in DeviceLists.
ListsKept == [Lists!Next]_(Lists!vars)

\* Counting and taking an element out mean the same in the specification that is implemented.
LEMMA SameCardinality == \A S : Lists!Cardinality(S) = Cardinality(S)
BY DEF Lists!Cardinality, Cardinality

\* The same for RemoveAt.
LEMMA SameRemoveAt == \A s, i : Lists!RemoveAt(s, i) = RemoveAt(s, i)
BY DEF Lists!RemoveAt, RemoveAt

\* A cleanup ends once, at most one at a time.
LEMMA OneEnds ==
  ASSUME RefInd, [Next]_vars
  PROVE  Cleaned' = Cleaned \/ \E c \in Conns \ Cleaned : Cleaned' = Cleaned \cup {c}
<1> USE DEF RefInd, ListInd, IndInv, TypeOK
<1>1. ASSUME NEW c \in Conns, clean[c].pc # "end",
             \A d \in Conns \ {c} : clean'[d] = clean[d]
      PROVE  Cleaned' = Cleaned \/ \E d \in Conns \ Cleaned : Cleaned' = Cleaned \cup {d}
  <2>1. c \in Conns \ Cleaned
    BY <1>1 DEF Cleaned
  <2>2. CASE clean'[c].pc = "end"
    <3>1. Cleaned' = Cleaned \cup {c}
      BY <1>1, <2>2 DEF Cleaned
    <3> QED  BY <2>1, <3>1
  <2>3. CASE clean'[c].pc # "end"
    BY <1>1, <2>3 DEF Cleaned
  <2> QED  BY <2>2, <2>3
<1>2. ASSUME NEW c \in Conns, CleanStep(c)
      PROVE  clean[c].pc # "end" /\ \A d \in Conns \ {c} : clean'[d] = clean[d]
  <2>1. clean[c].pc # "end"
    BY <1>2 DEF CleanStep, CleanGetAndDel, CleanReadUid, CleanReadLevel, CleanLocked, LevelInv
  <2> QED  BY <1>2, <2>1 DEF CleanStep, CleanGetAndDel, CleanReadUid, CleanReadLevel,
           CleanLocked
<1>3. ASSUME clean' = clean PROVE Cleaned' = Cleaned
  BY <1>3 DEF Cleaned
<1>4. ASSUME NEW c \in Conns,
             OnOpen(c) \/ OnPing(c) \/ SocketCloses(c) \/ PingGoesStale(c)
      PROVE  clean' = clean
  BY <1>4 DEF OnOpen, OnPing, SocketCloses, PingGoesStale
<1>5. ASSUME NEW c \in Conns, NEW p \in Workers, OnConnFrame(c, p)
      PROVE  clean' = clean
  BY <1>5 DEF OnConnFrame
<1>6. ASSUME NEW p \in Workers, WorkerStep(p)
      PROVE  clean' = clean
  BY <1>6 DEF WorkerStep, ConnFrameUndecodable, UserStateFails, UserStateOk, ModifyLock,
       ModifyPublish, ModifyOffer
<1>7. ASSUME TakerStep \/ GracefulStop \/ UNCHANGED vars
      PROVE  clean' = clean
  BY <1>7 DEF TakerStep, TakerTake, TakerCas, TakerClose, GracefulStop, vars
<1> QED  BY <1>1, <1>2, <1>3, <1>4, <1>5, <1>6, <1>7 DEF Next

\* A step that leaves the lists alone changes nothing, or ends a cleanup.
LEMMA QuietLists ==
  ASSUME RefInd, [Next]_vars, Quiet
  PROVE  ListsKept
<1>1. UNCHANGED <<uid, clevel, UserLists>>
  BY DEF Quiet, UserLists, UserList
<1>2. CASE Cleaned' = Cleaned
  BY <1>1, <1>2 DEF ListsKept, Lists!vars
<1>3. ASSUME NEW c \in Conns \ Cleaned, Cleaned' = Cleaned \cup {c}
      PROVE  ListsKept
  <2>1. Lists!Clean(c)
    BY <1>1, <1>3 DEF Lists!Clean
  <2> QED  BY <2>1 DEF ListsKept, Lists!Next
<1> QED  BY <1>2, <1>3, OneEnds

\* The write of the uid is the claim.
LEMMA LockLists ==
  ASSUME RefInd, NEW p \in Workers, ModifyLock(p)
  PROVE  ListsKept
<1>1. /\ job[p].c \in Conns /\ job[p].u \in Users /\ uid[job[p].c] = NoUid
      /\ uid' = [uid EXCEPT ![job[p].c] = job[p].u]
      /\ UNCHANGED <<clevel, uid2conn, conns, clean>>
  BY DEF ModifyLock, RefInd, ListInd, IndInv, TypeOK, WinnerInv
<1>2. UserLists' = UserLists /\ Cleaned' = Cleaned
  BY <1>1 DEF UserLists, UserList, Cleaned
<1>3. Lists!Claim(job[p].c, job[p].u)
  BY <1>1, <1>2 DEF Lists!Claim
<1> QED  BY <1>1, <1>3 DEF ListsKept, Lists!Next

\* The lists of the other users do not share a wrap that changes.
LEMMA OtherLists ==
  ASSUME RefInd, NEW u \in Users, NEW w \in Conns, uid[w] = u,
         \A v \in Users \ {u} : uid2conn'[v] = uid2conn[v],
         \A v \in Conns \ {w} : conns'[v] = conns[v]
  PROVE  UserLists' = [UserLists EXCEPT ![u] = UserList(u)']
<1> USE DEF RefInd, ListInd, IndInv, TypeOK
<1>1. ASSUME NEW v \in Users \ {u}
      PROVE  UserList(v)' = UserList(v)
  <2>1. CASE uid2conn[v] = NoConn
    BY <2>1 DEF UserList
  <2>2. CASE uid2conn[v] # NoConn
    <3>1. uid2conn[v] \in Conns /\ uid[uid2conn[v]] = v
      BY <2>2 DEF OwnerInv
    <3>2. uid2conn[v] # w
      BY <3>1
    <3> QED  BY <2>2, <3>1, <3>2 DEF UserList
  <2> QED  BY <2>1, <2>2
<1> QED  BY <1>1 DEF UserLists

\* The locked section of a cleanup, also one that holds an old wrap.
LEMMA CleanLists ==
  ASSUME RefInd, NEW c \in Conns, CleanLocked(c)
  PROVE  ListsKept
<1> USE ConnAssumption DEF RefInd, ListInd, IndInv, TypeOK
<1>1. PICK w \in Conns : w = clean[c].w
  BY DEF CleanLocked
<1>2. PICK u \in Users : u = uid[c]
  BY DEF CleanLocked
<1>3. PICK left : left = RemoveFirst(conns[w], c)
  OBVIOUS
<1>4. /\ clean[c].pc = "lock"
      /\ conns' = [conns EXCEPT ![w] = left]
      /\ uid2conn' = IF left = <<>> THEN [uid2conn EXCEPT ![u] = NoConn] ELSE uid2conn
      /\ clean' = [clean EXCEPT ![c] = [CleanIdle EXCEPT !.pc = "end"]]
      /\ UNCHANGED <<uid, clevel>>
  BY <1>1, <1>2, <1>3 DEF CleanLocked, connVars
<1>5. uid[w] = u /\ u # NoUid
  BY <1>1, <1>2, <1>4 DEF FiledInv
<1>6. c \notin Cleaned /\ Cleaned' = Cleaned \cup {c}
  BY <1>4 DEF Cleaned, CleanIdle
<1>7. /\ \A v \in Users \ {u} : uid2conn'[v] = uid2conn[v]
      /\ \A v \in Conns \ {w} : conns'[v] = conns[v]
  BY <1>4
<1>8. UserLists' = [UserLists EXCEPT ![u] = UserList(u)']
  BY <1>1, <1>2, <1>5, <1>7, OtherLists
<1>9. /\ UserLists \in [Users -> Seq(Conns)] /\ UserLists[u] = UserList(u)
      /\ conns[w] \in Seq(Conns) /\ IsInjective(conns[w]) /\ DOMAIN conns[w] = 1..Len(conns[w])
  BY <1>1, <1>2, LenProperties DEF UserLists, UserList, SlaveInv
<1>10. \/ UserList(u)' = UserList(u)
       \/ UserList(u)' = <<>>
       \/ \E i \in DOMAIN UserList(u) : /\ UserList(u)[i] = c
                                        /\ UserList(u)' = RemoveAt(UserList(u), i)
  <2>1. CASE left = <<>>
    BY <1>4, <2>1 DEF UserList
  <2>2. CASE left # <<>> /\ uid2conn[u] # w
    BY <1>4, <2>2 DEF UserList
  <2>3. CASE left # <<>> /\ uid2conn[u] = w
    <3>1. UserList(u)' = left /\ UserList(u) = conns[w]
      BY <1>1, <1>2, <1>4, <2>3 DEF UserList
    <3>2. \/ left = conns[w]
          \/ \E i \in 1..Len(conns[w]) : conns[w][i] = c /\ left = RemoveAt(conns[w], i)
      BY <1>3, <1>9, RemoveFirstSeq
    <3> QED  BY <1>9, <3>1, <3>2
  <2> QED  BY <2>1, <2>2, <2>3
<1>11. Lists!Clean(c)
  <2>1. CASE UserList(u)' = UserList(u)
    <3>1. UserLists' = UserLists
      BY <1>8, <1>9, <2>1
    <3> QED  BY <1>4, <1>6, <3>1 DEF Lists!Clean
  <2>2. CASE UserList(u)' = <<>>
    BY <1>2, <1>4, <1>5, <1>6, <1>8, <2>2 DEF Lists!Clean
  <2>3. ASSUME NEW i \in DOMAIN UserList(u), UserList(u)[i] = c,
               UserList(u)' = RemoveAt(UserList(u), i)
        PROVE  Lists!Clean(c)
    <3>1. UserLists' = [UserLists EXCEPT ![u] = Lists!RemoveAt(@, i)]
      BY <1>8, <1>9, <2>3, SameRemoveAt
    <3> QED  BY <1>2, <1>4, <1>5, <1>6, <1>9, <2>3, <3>1 DEF Lists!Clean
  <2> QED  BY <1>10, <2>1, <2>2, <2>3
<1> QED  BY <1>11 DEF ListsKept, Lists!Next

\* The slave list of a wrap is as long as the wrap has slaves.
LEMMA SlaveCount ==
  ASSUME RefInd, NEW u \in Users, NEW w \in Conns, uid2conn[u] = w
  PROVE  Cardinality(Lists!At(u, "slave")) = Len(level2conn[w]["slave"])
<1> USE DEF RefInd, ListInd
<1>1. PICK l \in Seq(Conns) : l = conns[w]
  BY DEF IndInv, TypeOK
<1>2. PICK s \in Seq(Conns) : s = level2conn[w]["slave"]
  BY DEF IndInv, TypeOK, Levels
<1>3. /\ IsInjective(l) /\ IsInjective(s) /\ ToSet(s) \subseteq ToSet(l)
      /\ \A d \in ToSet(l) : clevel[d] = "slave" => d \in ToSet(s)
      /\ \A d \in ToSet(s) : clevel[d] = "slave"
  BY <1>1, <1>2 DEF SlaveInv, OrderInv, InOrder
<1>4. w # NoConn
  BY ConnAssumption
<1>5. UserLists[u] = l
  BY <1>1, <1>4 DEF UserLists, UserList
<1>6. Lists!At(u, "slave") = {i \in DOMAIN l : l[i] \in ToSet(s)}
  BY <1>3, <1>5 DEF Lists!At, ToSet
<1>7. Cardinality({i \in DOMAIN l : l[i] \in ToSet(s)}) = Cardinality(ToSet(s))
  BY <1>3, CardinalityOfPositions
<1>8. Cardinality(ToSet(s)) = Len(s)
  BY <1>3, CardinalityOfPositions
<1> QED  BY <1>2, <1>6, <1>7, <1>8

\* What a login does to the list of u: nobody leaves, or one who has to.
RoomMade(c, u, level) ==
  \/ /\ Lists!NobodyLeaves(u, level)
     /\ UserList(u)' = Append(UserList(u), c)
  \/ \E i \in DOMAIN UserList(u) :
       /\ Lists!Leaves(u, level, i)
       /\ UserList(u)' = Append(RemoveAt(UserList(u), i), c)

\* The first device of a user who is offline.
LEMMA NewWrapRoom ==
  ASSUME RefInd, NEW c \in Conns, NEW u \in Users, NEW level \in Levels,
         uid2conn[u] = NoConn, NewWrap(c, u, level)
  PROVE  RoomMade(c, u, level)
<1> USE ConnAssumption DEF RefInd, ListInd, IndInv, TypeOK
<1>1. UserList(u) = <<>> /\ UserList(u)' = <<c>>
  BY DEF UserList, NewWrap
<1>2. <<c>> = Append(<<>>, c)
  OBVIOUS
<1>3. Lists!At(u, "slave") = {}
  BY <1>1 DEF Lists!At, UserLists
<1>4. Cardinality(Lists!At(u, "slave")) < MaxSlaveConns
  <2>1. Cardinality(Lists!At(u, "slave")) = 0
    BY <1>3, FS_EmptySet
  <2> HIDE DEF TypeOK
  <2> QED  BY <2>1
<1> QED  BY <1>1, <1>2, <1>4, SameCardinality DEF RoomMade, Lists!NobodyLeaves

\* An element of a list that leaves it while c joins.
LEMMA Replaced ==
  ASSUME NEW l \in Seq(Conns), IsInjective(l), NEW c \in Conns, c \notin ToSet(l), NEW e
  PROVE  /\ e \notin ToSet(l) /\ e # c => RemoveFirst(Append(l, c), e) = Append(l, c)
         /\ \A i \in DOMAIN l : RemoveFirst(Append(l, c), l[i]) = Append(RemoveAt(l, i), c)
<1>1. PICK n \in Nat : n = Len(l) /\ DOMAIN l = 1..n
  BY LenProperties
<1>2. PICK a : a = Append(l, c)
  OBVIOUS
<1>3. /\ a \in Seq(Conns) /\ IsInjective(a) /\ ToSet(a) = ToSet(l) \cup {c}
      /\ DOMAIN a = 1..(n + 1) /\ \A i \in 1..n : a[i] = l[i]
  BY <1>1, <1>2, AppendNew, AppendSet, AppendProperties, LenProperties
<1>4. ASSUME e \notin ToSet(l), e # c
      PROVE  RemoveFirst(a, e) = a
  <2>1. e \notin ToSet(a)
    BY <1>3, <1>4
  <2>2. DOMAIN a = 1..Len(a)
    BY <1>3, LenProperties
  <2> QED  BY <1>3, <2>1, <2>2, RemoveFirstSeq DEF ToSet
<1>5. ASSUME NEW i \in 1..n
      PROVE  RemoveFirst(a, l[i]) = Append(RemoveAt(l, i), c)
  <2>1. i \in DOMAIN a /\ a[i] = l[i]
    BY <1>3
  <2>2. RemoveFirst(a, l[i]) = RemoveAt(a, i)
    BY <1>3, <2>1, RemoveFirstAt
  <2>3. RemoveAt(a, i) = Append(RemoveAt(l, i), c)
    BY <1>1, <1>2, RemoveAtAppend
  <2> QED  BY <2>2, <2>3
<1> QED  BY <1>1, <1>2, <1>4, <1>5

\* A master beside other devices: the listed master leaves, if it is still there.
LEMMA MasterRoom ==
  ASSUME RefInd, NEW c \in Conns, NEW u \in Users, NEW w \in Conns, uid2conn[u] = w,
         Unpublished(c), JoinMaster(c, w), uid2conn' = uid2conn
  PROVE  RoomMade(c, u, "master")
<1> USE ConnAssumption DEF RefInd, ListInd
<1>1. PICK l \in Seq(Conns) : l = conns[w]
  BY DEF IndInv, TypeOK
<1>2. PICK old \in Seq(Conns) : old = level2conn[w]["master"]
  BY DEF IndInv, TypeOK, Levels
<1>3. /\ UserList(u) = l /\ UserLists[u] = l
      /\ UserList(u)' = IF old # <<>> THEN RemoveFirst(Append(l, c), Head(old))
                                      ELSE Append(l, c)
  BY <1>1, <1>2 DEF UserLists, UserList, JoinMaster, IndInv, TypeOK
<1>4. IsInjective(l) /\ c \notin ToSet(l) /\ c \notin ToSet(old)
  BY <1>1, <1>2 DEF SlaveInv, FreshInv, Levels
<1>5. Lists!NobodyLeaves(u, "master")
  BY DEF Lists!NobodyLeaves
<1>6. CASE UserList(u)' = Append(l, c)
  BY <1>3, <1>5, <1>6 DEF RoomMade
<1>7. CASE old # <<>>
  <2>1. PICK h : h = Head(old)
    OBVIOUS
  <2>2. h \in ToSet(old)
    BY <1>7, <2>1, TailSet
  <2>3. h # c /\ clevel[h] = "master"
    BY <1>2, <1>4, <2>2 DEF OrderInv
  <2>4. CASE h \notin ToSet(l)
    BY <1>3, <1>4, <1>6, <1>7, <2>1, <2>3, <2>4, Replaced
  <2>5. ASSUME NEW i \in DOMAIN l, h = l[i]
        PROVE  RoomMade(c, u, "master")
    <3>1. UserList(u)' = Append(RemoveAt(l, i), c)
      BY <1>3, <1>4, <1>7, <2>1, <2>5, Replaced
    <3>2. Lists!Leaves(u, "master", i)
      BY <1>3, <2>3, <2>5 DEF Lists!Leaves, Lists!At
    <3> QED  BY <1>3, <3>1, <3>2 DEF RoomMade
  <2> QED  BY <2>4, <2>5 DEF ToSet
<1> QED  BY <1>3, <1>6, <1>7

\* A slave beside other devices: at the limit the earliest slave leaves.
LEMMA SlaveRoom ==
  ASSUME RefInd, NEW c \in Conns, NEW u \in Users, NEW w \in Conns, uid2conn[u] = w,
         Unpublished(c), JoinSlave(c, w), uid2conn' = uid2conn
  PROVE  RoomMade(c, u, "slave")
<1> USE ConnAssumption DEF RefInd, ListInd
<1>1. PICK l \in Seq(Conns) : l = conns[w]
  BY DEF IndInv, TypeOK
<1>2. PICK old \in Seq(Conns) : old = level2conn[w]["slave"]
  BY DEF IndInv, TypeOK, Levels
<1>3. PICK s \in Seq(Conns) : s = Append(old, c)
  BY AppendProperties
<1>4. PICK n \in Nat : /\ n = Len(old) /\ DOMAIN old = 1..n /\ Len(s) = n + 1
                       /\ n <= MaxSlaveConns
  BY <1>2, <1>3, LenProperties, AppendProperties DEF SlaveInv
<1>5. /\ UserList(u) = l /\ UserLists[u] = l
      /\ UserList(u)' = IF n + 1 > MaxSlaveConns THEN RemoveFirst(Append(l, c), Head(s))
                                                 ELSE Append(l, c)
  BY <1>1, <1>2, <1>3, <1>4 DEF UserLists, UserList, JoinSlave, IndInv, TypeOK
<1>6. /\ IsInjective(l) /\ c \notin ToSet(l)
      /\ \A d \in ToSet(l) : clevel[d] = "slave" => d \in ToSet(old)
      /\ \A d \in ToSet(old) : clevel[d] = "slave"
      /\ InOrder(l, old)
  BY <1>1, <1>2 DEF SlaveInv, FreshInv, OrderInv
<1>7. Cardinality(Lists!At(u, "slave")) = n
  BY <1>2, <1>4, SlaveCount
<1>8. CASE n < MaxSlaveConns
  <2>1. UserList(u)' = Append(l, c)
    BY <1>5, <1>8
  <2> QED  BY <1>5, <1>7, <1>8, <2>1, SameCardinality DEF RoomMade, Lists!NobodyLeaves
<1>9. CASE n = MaxSlaveConns
  <2>1. n # 0 /\ old # <<>>
    BY <1>4, <1>9, EmptySeq
  <2>2. PICK h : h = Head(old) /\ h = Head(s)
    <3>1. s[1] = old[1]
      BY <1>3, <1>4, <2>1, AppendProperties
    <3>2. Head(s) = s[1] /\ Head(old) = old[1]
      OBVIOUS
    <3> QED  BY <3>1, <3>2
  <2>3. h \in ToSet(old) /\ \A y \in ToSet(old) : y # h => Before(old, h, y)
    BY <2>1, <2>2, TailSet, HeadIsFirst
  <2>4. PICK i \in DOMAIN l : h = l[i]
    BY <1>6, <2>3 DEF InOrder, ToSet
  <2>5. UserList(u)' = Append(RemoveAt(l, i), c)
    <3>1. n + 1 > MaxSlaveConns
      BY <1>9
    <3>2. UserList(u)' = RemoveFirst(Append(l, c), l[i])
      BY <1>5, <2>2, <2>4, <3>1
    <3>3. RemoveFirst(Append(l, c), l[i]) = Append(RemoveAt(l, i), c)
      BY <1>6, Replaced
    <3> QED  BY <3>2, <3>3
  <2>6. ASSUME NEW j \in Lists!At(u, "slave")
        PROVE  i <= j
    <3>1. j \in DOMAIN l /\ clevel[l[j]] = "slave"
      BY <1>5, <2>6 DEF Lists!At
    <3>2. l[j] \in ToSet(old)
      BY <1>6, <3>1 DEF ToSet
    <3>3. DOMAIN l \in SUBSET Nat
      BY LenProperties
    <3>4. CASE l[j] = h
      BY <1>6, <2>4, <3>1, <3>3, <3>4 DEF IsInjective
    <3>5. CASE l[j] # h
      <4>1. Before(l, l[i], l[j])
        BY <1>6, <2>3, <2>4, <3>2, <3>5 DEF InOrder
      <4>2. i < j
        BY <1>6, <2>4, <3>1, <4>1, BeforePositions
      <4> QED  BY <2>4, <3>1, <3>3, <4>2
    <3> QED  BY <3>4, <3>5
  <2>7. i \in Lists!At(u, "slave")
    BY <1>5, <1>6, <2>3, <2>4 DEF Lists!At
  <2>8. Lists!Leaves(u, "slave", i)
    BY <1>7, <1>9, <2>6, <2>7, SameCardinality DEF Lists!Leaves
  <2> QED  BY <1>5, <2>4, <2>5, <2>8 DEF RoomMade
<1> QED  BY <1>4, <1>8, <1>9

\* The publication is the login.
LEMMA PublishLists ==
  ASSUME RefInd, NEW p \in Workers, ModifyPublish(p)
  PROVE  ListsKept
<1> USE ConnAssumption
<1>1. PICK c \in Conns, u \in Users, level \in Levels :
        c = job[p].c /\ u = job[p].u /\ level = job[p].level
  BY DEF ModifyPublish, RefInd, ListInd, IndInv, TypeOK, JobType
<1>2. /\ Unpublished(c) /\ uid[c] = u /\ u # NoUid /\ clevel[c] = "unset"
      /\ clevel' = [clevel EXCEPT ![c] = level]
      /\ UNCHANGED <<uid, clean>>
  BY <1>1 DEF ModifyPublish, Unpublished, RefInd, ListInd, IndInv, WinnerInv, LevelInv
<1>3. Cleaned' = Cleaned
  BY <1>2 DEF Cleaned
<1>4. /\ RoomMade(c, u, level)
      /\ UserLists' = [UserLists EXCEPT ![u] = UserList(u)']
  <2>1. CASE uid2conn[u] = NoConn
    <3>1. NewWrap(c, u, level)
      BY <1>1, <2>1 DEF ModifyPublish
    <3>2. /\ \A v \in Users \ {u} : uid2conn'[v] = uid2conn[v]
          /\ \A v \in Conns \ {c} : conns'[v] = conns[v]
      BY <3>1 DEF NewWrap, RefInd, ListInd, IndInv, TypeOK
    <3> QED  BY <1>1, <1>2, <2>1, <3>1, <3>2, NewWrapRoom, OtherLists
  <2>2. CASE uid2conn[u] # NoConn
    <3>1. PICK w \in Conns : w = uid2conn[u] /\ uid[w] = u
      BY <1>1, <2>2 DEF RefInd, ListInd, IndInv, TypeOK, OwnerInv
    <3>2. /\ uid2conn' = uid2conn
          /\ IF level = "master" THEN JoinMaster(c, w) ELSE JoinSlave(c, w)
      BY <1>1, <2>2, <3>1 DEF ModifyPublish
    <3>3. \A v \in Conns \ {w} : conns'[v] = conns[v]
      BY <3>2 DEF JoinMaster, JoinSlave, RefInd, ListInd, IndInv, TypeOK
    <3>4. UserLists' = [UserLists EXCEPT ![u] = UserList(u)']
      BY <1>1, <3>1, <3>2, <3>3, OtherLists
    <3>5. level \in {"master", "slave"}
      BY <1>1 DEF Levels
    <3> QED  BY <1>1, <1>2, <3>1, <3>2, <3>4, <3>5, MasterRoom, SlaveRoom
  <2> QED  BY <2>1, <2>2
<1>5. UserLists[u] = UserList(u) /\ DOMAIN UserLists = Users
  BY <1>1 DEF UserLists
<1>6. Lists!Login(c, level)
  <2>1. CASE /\ Lists!NobodyLeaves(u, level)
             /\ UserList(u)' = Append(UserList(u), c)
    <3>1. UserLists' = [UserLists EXCEPT ![u] = Append(@, c)]
      BY <1>4, <1>5, <2>1
    <3> QED  BY <1>2, <1>3, <2>1, <3>1 DEF Lists!Login
  <2>2. ASSUME NEW i \in DOMAIN UserList(u), Lists!Leaves(u, level, i),
               UserList(u)' = Append(RemoveAt(UserList(u), i), c)
        PROVE  Lists!Login(c, level)
    <3>1. UserLists' = [UserLists EXCEPT ![u] = Append(Lists!RemoveAt(@, i), c)]
      BY <1>4, <1>5, <2>2, SameRemoveAt
    <3> QED  BY <1>2, <1>3, <1>5, <2>2, <3>1 DEF Lists!Login
  <2> QED  BY <1>4, <2>1, <2>2 DEF RoomMade
<1>7. level \in {"master", "slave"}
  BY <1>1 DEF Levels
<1> QED  BY <1>1, <1>6, <1>7 DEF ListsKept, Lists!Next

\* Whatever logins, evictions and cleanups overlap, every user has the list of devices
\* that DeviceLists describes: in the order of the logins, the earliest slave leaving.
THEOREM Refinement == Spec => ImplementsLists
<1>1. Init => Lists!Init
  BY DEF Init, Lists!Init, UserLists, UserList, Cleaned, CleanIdle
<1>2. RefInd /\ [Next]_vars => ListsKept
  BY ListSteps, QuietLists, CleanLists, LockLists, PublishLists DEF RefInd, ListInd
<1> QED  BY Ordered, <1>1, <1>2, PTL DEF Spec, ImplementsLists, Lists!Spec, ListsKept
=============================================================================
