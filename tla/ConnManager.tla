---------------------------- MODULE ConnManager ----------------------------
(***************************************************************************)
(* The connection manager of the engine server                             *)
(* (enginesrv/internal/core/connmgr/conn_manager.go) with the callers that *)
(* drive it: the gnet callbacks OnOpen, OnTraffic and OnClose              *)
(* (enginesrv/internal/drive/engine.go) and the goroutine that             *)
(* authenticates a connection (frhandler.handleConnFrame).                 *)
(*                                                                         *)
(* Threads.  The callbacks of one connection run one after the other on    *)
(* its event loop.  Every Conn frame is handled by a goroutine of a pool   *)
(* (Workers), so several may authenticate the same connection.  One        *)
(* goroutine, the taker, runs the delayed checks of the delay queue.  The  *)
(* steps of these threads interleave at every access to state another      *)
(* thread reads or writes without the user's segment lock.                 *)
(*                                                                         *)
(* A clientConnWrap is a heap object that a thread can hold on to after    *)
(* uid2conn has dropped it.  A connection creates at most one, so a wrap   *)
(* is named by the connection that created it.                             *)
(***************************************************************************)
EXTENDS Integers, FiniteSets, SequencesExt

CONSTANTS Conns,         \* connection ids, each used by one connection
          Users,         \* user ids
          Workers,       \* goroutines of the frame handler's pool
          CTypes,        \* client types (constt.ClientType)
          MasterTypes,   \* the types of master devices (cm.masterTypes)
          MaxSlaveConns, \* cm.maxSlaveConns
          NoConn, NoUid  \* "no wrap / no connection" and the empty uid

\* At least one slave device is allowed, and the two null values are distinct
\* from every id.
ASSUME ConnAssumption ==
  /\ MaxSlaveConns \in Nat \ {0}
  /\ MasterTypes \subseteq CTypes
  /\ NoConn \notin Conns
  /\ NoUid \notin Users

VARIABLES
  sock,        \* per connection: none, open, closing (OnClose is due), closed
  connId2conn, \* the registered connections
  state,       \* clientConn.state
  uid,         \* clientConn.uid
  clevel,      \* clientConn.clevel
  lastPing,    \* clientConn.lastPingTime against the lost-ping threshold
  uid2conn,    \* per user: its wrap or NoConn
  conns,       \* per wrap: clientConnWrap.conns
  level2conn,  \* per wrap and level: clientConnWrap.level2conn
  segLock,     \* per user: the worker inside ModifyAfterAuthed's section
  dq,          \* the delay queue: the pending checks
  taker,       \* the taker goroutine: pc and the task it runs
  done,        \* cm.done was closed by GracefulStop
  job,         \* per worker: pc and parameters of handleConnFrame
  clean        \* per connection: pc and locals of CleanAfterConnClosed

connVars == <<sock, connId2conn, state, uid, clevel, lastPing>>
wrapVars == <<uid2conn, conns, level2conn, segLock>>
checkVars == <<dq, taker, done>>
vars == <<connVars, wrapVars, checkVars, job, clean>>

Levels == {"master", "slave"}
States == {"opened", "authed", "closing", "closed"}
TaskTypes == {"authExpired", "pingExpired"}
Task(d, c) == [type |-> d, c |-> c]

TakerAt(pc) == [pc |-> pc, type |-> "authExpired", c |-> NoConn]
JobIdle == [pc |-> "idle", c |-> NoConn, u |-> NoUid, level |-> "slave"]
CleanIdle == [pc |-> "idle", w |-> NoConn, isMaster |-> FALSE]

\* The level of a client type: master exactly for the configured types.
LevelOf(t) == IF t \in MasterTypes THEN "master" ELSE "slave"

\* The records of the three kinds of threads.
TakerType == [pc : {"take", "cas", "close", "spin"}, type : TaskTypes,
              c : Conns \cup {NoConn}]
JobType == [pc : {"idle", "rpc", "lock", "publish", "offer"},
            c : Conns \cup {NoConn}, u : Users \cup {NoUid}, level : Levels]
CleanType == [pc : {"idle", "uid", "level", "lock", "end"},
              w : Conns \cup {NoConn}, isMaster : BOOLEAN]

\* One type invariant: every variable holds a value of its kind.
TypeOK ==
  /\ sock \in [Conns -> {"none", "open", "closing", "closed"}]
  /\ connId2conn \subseteq Conns
  /\ state \in [Conns -> States]
  /\ uid \in [Conns -> Users \cup {NoUid}]
  /\ clevel \in [Conns -> Levels \cup {"unset"}]
  /\ lastPing \in [Conns -> {"unset", "fresh", "stale"}]
  /\ uid2conn \in [Users -> Conns \cup {NoConn}]
  /\ conns \in [Conns -> Seq(Conns)]
  /\ level2conn \in [Conns -> [Levels -> Seq(Conns)]]
  /\ segLock \in [Users -> BOOLEAN]
  /\ dq \subseteq [type : TaskTypes, c : Conns]
  /\ taker \in TakerType
  /\ (taker.pc \in {"cas", "close"} => taker.c \in Conns)
  /\ done \in BOOLEAN
  /\ job \in [Workers -> JobType]
  /\ \A p \in Workers :
       /\ (job[p].pc # "idle" => job[p].c \in Conns)
       /\ (job[p].pc \notin {"idle", "rpc"} => job[p].u \in Users)
  /\ clean \in [Conns -> CleanType]
  /\ \A c \in Conns : clean[c].pc \in {"level", "lock"} =>
                        clean[c].w \in Conns /\ uid[c] \in Users

Init ==
  /\ sock = [c \in Conns |-> "none"]
  /\ connId2conn = {}
  /\ state = [c \in Conns |-> "opened"]
  /\ uid = [c \in Conns |-> NoUid]
  /\ clevel = [c \in Conns |-> "unset"]
  /\ lastPing = [c \in Conns |-> "unset"]
  /\ uid2conn = [u \in Users |-> NoConn]
  /\ conns = [c \in Conns |-> <<>>]
  /\ level2conn = [c \in Conns |-> [l \in Levels |-> <<>>]]
  /\ segLock = [u \in Users |-> FALSE]
  /\ dq = {}
  /\ taker = TakerAt("take")
  /\ done = FALSE
  /\ job = [p \in Workers |-> JobIdle]
  /\ clean = [c \in Conns |-> CleanIdle]

-----------------------------------------------------------------------------
(* The event loop of connection c *)

\* Mutant of OnOpen: the auth check is not scheduled.
OnOpenUnchecked(c) ==
  /\ sock[c] = "none"
  /\ sock' = [sock EXCEPT ![c] = "open"]
  /\ connId2conn' = connId2conn \cup {c}
  /\ UNCHANGED <<state, uid, clevel, lastPing, wrapVars, checkVars, job, clean>>

\* OnOpen, AddWhenOpened: register a fresh clientConn, schedule the check that
\* it authenticates in time.
OnOpen(c) ==
  /\ sock[c] = "none"
  /\ sock' = [sock EXCEPT ![c] = "open"]
  /\ connId2conn' = connId2conn \cup {c}
  /\ dq' = dq \cup {Task("authExpired", c)}
  /\ UNCHANGED <<state, uid, clevel, lastPing, wrapVars, taker, done, job, clean>>

\* OnTraffic with a single Conn frame: accepted from an authenticated
\* connection too.  A worker p of the pool starts handleConnFrame.
OnConnFrame(c, p) ==
  /\ sock[c] = "open"
  /\ c \in connId2conn
  /\ job[p].pc = "idle"
  /\ job' = [job EXCEPT ![p] = [JobIdle EXCEPT !.pc = "rpc", !.c = c]]
  /\ UNCHANGED <<connVars, wrapVars, checkVars, clean>>

\* OnTraffic with a Ping frame of an authenticated connection: pong, then
\* ModifyAfterPingSuccess.
OnPing(c) ==
  /\ sock[c] = "open"
  /\ c \in connId2conn
  /\ state[c] = "authed"
  /\ lastPing' = [lastPing EXCEPT ![c] = "fresh"]
  /\ UNCHANGED <<sock, connId2conn, state, uid, clevel, wrapVars, checkVars,
                 job, clean>>

\* The peer closes, a read fails, OnTraffic returns gnet.Close (bad frame,
\* connection no longer registered): gnet will fire OnClose.
SocketCloses(c) ==
  /\ sock[c] = "open"
  /\ sock' = [sock EXCEPT ![c] = "closing"]
  /\ UNCHANGED <<connId2conn, state, uid, clevel, lastPing, wrapVars, checkVars,
                 job, clean>>

\* OnClose, CleanAfterConnClosed: GetAndDel, nothing more if not registered.
CleanGetAndDel(c) ==
  /\ sock[c] = "closing"
  /\ sock' = [sock EXCEPT ![c] = "closed"]
  /\ connId2conn' = connId2conn \ {c}
  /\ clean' = [clean EXCEPT ![c].pc = IF c \in connId2conn THEN "uid" ELSE "end"]
  /\ UNCHANGED <<state, uid, clevel, lastPing, wrapVars, checkVars, job>>

\* conn.uid is read, and the wrap fetched, without the lock: an empty uid counts
\* as "not authenticated".
CleanReadUid(c) ==
  /\ clean[c].pc = "uid"
  /\ clean' = [clean EXCEPT ![c] =
       IF uid[c] = NoUid \/ uid2conn[uid[c]] = NoConn
       THEN [CleanIdle EXCEPT !.pc = "end"]
       ELSE [CleanIdle EXCEPT !.pc = "level", !.w = uid2conn[uid[c]]]]
  /\ UNCHANGED <<connVars, wrapVars, checkVars, job>>

\* conn.clevel is read without the lock as well.
CleanReadLevel(c) ==
  /\ clean[c].pc = "level"
  /\ clean' = [clean EXCEPT ![c].pc = "lock",
                            ![c].isMaster = (clevel[c] = "master")]
  /\ UNCHANGED <<connVars, wrapVars, checkVars, job>>

\* Mutant of CleanLocked: the wrap left without connections stays in uid2conn.
CleanLockedKeepsWrap(c) ==
  LET w == clean[c].w
  IN /\ clean[c].pc = "lock"
     /\ ~segLock[uid[c]]
     /\ conns' = [conns EXCEPT ![w] = RemoveFirst(@, c)]
     /\ level2conn' =
          IF clean[c].isMaster
          THEN [level2conn EXCEPT ![w]["master"] = <<>>]
          ELSE [level2conn EXCEPT ![w]["slave"] = RemoveFirst(@, c)]
     /\ clean' = [clean EXCEPT ![c] = [CleanIdle EXCEPT !.pc = "end"]]
     /\ UNCHANGED <<connVars, uid2conn, segLock, checkVars, job>>

\* The locked section: c leaves the wrap that was fetched; a master empties the
\* master list; a wrap without connections is dropped from uid2conn.
CleanLocked(c) ==
  LET w == clean[c].w
      left == RemoveFirst(conns[w], c)
  IN /\ clean[c].pc = "lock"
     /\ ~segLock[uid[c]]
     /\ conns' = [conns EXCEPT ![w] = left]
     /\ level2conn' =
          IF clean[c].isMaster
          THEN [level2conn EXCEPT ![w]["master"] = <<>>]
          ELSE [level2conn EXCEPT ![w]["slave"] = RemoveFirst(@, c)]
     /\ uid2conn' = IF left = <<>> THEN [uid2conn EXCEPT ![uid[c]] = NoConn]
                                   ELSE uid2conn
     /\ clean' = [clean EXCEPT ![c] = [CleanIdle EXCEPT !.pc = "end"]]
     /\ UNCHANGED <<connVars, segLock, checkVars, job>>

-----------------------------------------------------------------------------
(* handleConnFrame and ModifyAfterAuthed in worker p *)

GoTo(p, pc) == job' = [job EXCEPT ![p].pc = pc]

\* The frame's body does not decode: the connection is closed.
ConnFrameUndecodable(p) ==
  /\ job[p].pc = "rpc"
  /\ sock' = [sock EXCEPT ![job[p].c] = IF @ = "open" THEN "closing" ELSE @]
  /\ job' = [job EXCEPT ![p] = JobIdle]
  /\ UNCHANGED <<connId2conn, state, uid, clevel, lastPing, wrapVars, checkVars,
                 clean>>

\* The UserState call fails, times out or answers "not ok": an error ack; the
\* connection stays as it is and may try again.
UserStateFails(p) ==
  /\ job[p].pc = "rpc"
  /\ job' = [job EXCEPT ![p] = JobIdle]
  /\ UNCHANGED <<connVars, wrapVars, checkVars, clean>>

\* Mutant of UserStateOk: a Store of authed in place of the CompareAndSwap.
UserStateOkStores(p, u, t) ==
  LET c == job[p].c
  IN /\ job[p].pc = "rpc"
     /\ IF c \in connId2conn
        THEN /\ state' = [state EXCEPT ![c] = "authed"]
             /\ job' = [job EXCEPT ![p] = [pc |-> "lock", c |-> c, u |-> u,
                                           level |-> LevelOf(t)]]
        ELSE /\ job' = [job EXCEPT ![p] = JobIdle]
             /\ UNCHANGED state
     /\ UNCHANGED <<sock, connId2conn, uid, clevel, lastPing, wrapVars,
                    checkVars, clean>>

\* The call answers "ok" for the uid u of the frame, sent by a client of type t.
\* ModifyAfterAuthed finds the connection, or returns, and swaps its state from
\* opened to authed, or returns; the ack says OK in each case.  (Between the Get
\* and the CompareAndSwap the connection may be unregistered, which nothing can
\* tell from its being unregistered after both.)
UserStateOk(p, u, t) ==
  LET c == job[p].c
  IN /\ job[p].pc = "rpc"
     /\ IF c \in connId2conn /\ state[c] = "opened"
        THEN /\ state' = [state EXCEPT ![c] = "authed"]
             /\ job' = [job EXCEPT ![p] = [pc |-> "lock", c |-> c, u |-> u,
                                           level |-> LevelOf(t)]]
        ELSE /\ job' = [job EXCEPT ![p] = JobIdle]
             /\ UNCHANGED state
     /\ UNCHANGED <<sock, connId2conn, uid, clevel, lastPing, wrapVars,
                    checkVars, clean>>

\* The segment lock of the user is taken, conn.uid written.
ModifyLock(p) ==
  LET u == job[p].u
  IN /\ job[p].pc = "lock"
     /\ ~segLock[u]
     /\ segLock' = [segLock EXCEPT ![u] = TRUE]
     /\ uid' = [uid EXCEPT ![job[p].c] = u]
     /\ GoTo(p, "publish")
     /\ UNCHANGED <<sock, connId2conn, state, clevel, lastPing, uid2conn, conns,
                    level2conn, checkVars, clean>>

\* A new wrap for the user that has none: newClientConnWrap.
NewWrap(c, u, level) ==
  /\ uid2conn' = [uid2conn EXCEPT ![u] = c]
  /\ conns' = [conns EXCEPT ![c] = <<c>>]
  /\ level2conn' = [level2conn EXCEPT ![c] =
                      [l \in Levels |-> IF l = level THEN <<c>> ELSE <<>>]]

\* A master joins wrap w: the first listed master, if any, leaves w's
\* connections, and c becomes the listed master.
JoinMaster(c, w) ==
  LET all == Append(conns[w], c)
      old == level2conn[w]["master"]
  IN /\ conns' = [conns EXCEPT ![w] =
                    IF old # <<>> THEN RemoveFirst(all, Head(old)) ELSE all]
     /\ level2conn' = [level2conn EXCEPT ![w]["master"] = <<c>>]

\* Mutant of JoinSlave: the evicted slave leaves the slave list only.
JoinSlaveKeepsEvicted(c, w) ==
  LET slaves == Append(level2conn[w]["slave"], c)
  IN /\ conns' = [conns EXCEPT ![w] = Append(@, c)]
     /\ level2conn' = [level2conn EXCEPT ![w]["slave"] =
                         IF Len(slaves) > MaxSlaveConns THEN Tail(slaves) ELSE slaves]

\* Mutant of JoinSlave: the device that just logged in is the one that has to leave.
JoinSlaveEvictsNewest(c, w) ==
  LET over == Len(level2conn[w]["slave"]) = MaxSlaveConns
  IN /\ conns' = [conns EXCEPT ![w] = IF over THEN @ ELSE Append(@, c)]
     /\ level2conn' = [level2conn EXCEPT ![w]["slave"] = IF over THEN @ ELSE Append(@, c)]

\* A slave joins wrap w: above the limit the earliest slave leaves w.
JoinSlave(c, w) ==
  LET all == Append(conns[w], c)
      slaves == Append(level2conn[w]["slave"], c)
      over == Len(slaves) > MaxSlaveConns
  IN /\ conns' = [conns EXCEPT ![w] =
                    IF over THEN RemoveFirst(all, Head(slaves)) ELSE all]
     /\ level2conn' = [level2conn EXCEPT ![w]["slave"] =
                         IF over THEN Tail(slaves) ELSE slaves]

\* Mutant of ModifyPublish: an early return for a user who is offline leaves the
\* segment locked.
ModifyPublishKeepsLock(p) ==
  LET c == job[p].c
      u == job[p].u
      w == uid2conn[u]
  IN /\ job[p].pc = "publish"
     /\ IF w = NoConn
        THEN NewWrap(c, u, job[p].level) /\ UNCHANGED segLock
        ELSE /\ IF job[p].level = "master" THEN JoinMaster(c, w)
                                           ELSE JoinSlave(c, w)
             /\ segLock' = [segLock EXCEPT ![u] = FALSE]
             /\ UNCHANGED uid2conn
     /\ clevel' = [clevel EXCEPT ![c] = job[p].level]
     /\ lastPing' = [lastPing EXCEPT ![c] = "fresh"]
     /\ GoTo(p, "offer")
     /\ UNCHANGED <<sock, connId2conn, state, uid, checkVars, clean>>

\* The rest of the locked section, and the unlock: conn.clevel and the first
\* lastPingTime are written, the connection enters the user's wrap.  The
\* connections that left it are returned as handleItems, which handleConnFrame
\* ignores.
ModifyPublish(p) ==
  LET c == job[p].c
      u == job[p].u
      w == uid2conn[u]
  IN /\ job[p].pc = "publish"
     /\ IF w = NoConn
        THEN NewWrap(c, u, job[p].level)
        ELSE /\ IF job[p].level = "master" THEN JoinMaster(c, w)
                                           ELSE JoinSlave(c, w)
             /\ UNCHANGED uid2conn
     /\ clevel' = [clevel EXCEPT ![c] = job[p].level]
     /\ lastPing' = [lastPing EXCEPT ![c] = "fresh"]
     /\ segLock' = [segLock EXCEPT ![u] = FALSE]
     /\ GoTo(p, "offer")
     /\ UNCHANGED <<sock, connId2conn, state, uid, checkVars, clean>>

\* The first ping check is scheduled; handleConnFrame acknowledges and returns.
ModifyOffer(p) ==
  /\ job[p].pc = "offer"
  /\ dq' = dq \cup {Task("pingExpired", job[p].c)}
  /\ job' = [job EXCEPT ![p] = JobIdle]
  /\ UNCHANGED <<connVars, wrapVars, taker, done, clean>>

-----------------------------------------------------------------------------
(* startDqTaker: the goroutine that runs the delayed checks *)

TakerGoTo(pc) == taker' = [taker EXCEPT !.pc = pc]

\* The task has ended, the loop is back at its select: while done is open it
\* enters BlockTake, afterwards the done case is always ready and the loop spins
\* without taking anything.
TakerLoops == taker' = TakerAt(IF done THEN "spin" ELSE "take")

\* Mutant of TakerTake: a recent ping ends the chain of checks.
TakerTakeOnce(d, c) ==
  LET recent == d = "pingExpired" /\ lastPing[c] # "stale"
  IN /\ taker.pc = "take"
     /\ Task(d, c) \in dq
     /\ IF c \notin connId2conn \/ recent
        THEN TakerLoops
        ELSE taker' = [pc |-> "cas", type |-> d, c |-> c]
     /\ dq' = dq \ {Task(d, c)}
     /\ UNCHANGED <<connVars, wrapVars, done, job, clean>>

\* BlockTake returns an expired item.  The check ends at once if its connection
\* is not registered; execPingExpireCheckTask schedules the next check while the
\* last ping is recent enough; otherwise the kick is tried.
TakerTake(d, c) ==
  LET rest == dq \ {Task(d, c)}
      recent == d = "pingExpired" /\ lastPing[c] # "stale"
  IN /\ taker.pc = "take"
     /\ Task(d, c) \in dq
     /\ IF c \notin connId2conn \/ recent
        THEN TakerLoops
        ELSE taker' = [pc |-> "cas", type |-> d, c |-> c]
     /\ dq' = IF c \in connId2conn /\ recent /\ lastPing[c] = "fresh"
              THEN rest \cup {Task(d, c)} ELSE rest
     /\ UNCHANGED <<connVars, wrapVars, done, job, clean>>

\* Mutant of TakerCas: the auth check kicks whatever state it finds.
TakerCasAny ==
  /\ taker.pc = "cas"
  /\ IF taker.type = "authExpired" \/ state[taker.c] = "authed"
     THEN /\ state' = [state EXCEPT ![taker.c] = "closing"]
          /\ TakerGoTo("close")
     ELSE /\ TakerLoops
          /\ UNCHANGED state
  /\ UNCHANGED <<sock, connId2conn, uid, clevel, lastPing, wrapVars, dq, done,
                 job, clean>>

\* CompareAndSwap opened -> closing, or authed -> closing.
TakerCas ==
  LET c == taker.c
      from == IF taker.type = "authExpired" THEN "opened" ELSE "authed"
  IN /\ taker.pc = "cas"
     /\ IF state[c] = from
        THEN /\ state' = [state EXCEPT ![c] = "closing"]
             /\ TakerGoTo("close")
        ELSE /\ TakerLoops
             /\ UNCHANGED state
     /\ UNCHANGED <<sock, connId2conn, uid, clevel, lastPing, wrapVars, dq, done,
                    job, clean>>

\* conn.close (gnet closes the socket and fires OnClose later) and the Store of
\* the closed state; only the auth check unregisters the connection itself.
\* Nobody tells closing from closed, and a thread that finds the connection
\* registered between these calls gives up on its state or its uid.
TakerClose ==
  LET c == taker.c
  IN /\ taker.pc = "close"
     /\ sock' = [sock EXCEPT ![c] = IF @ = "open" THEN "closing" ELSE @]
     /\ state' = [state EXCEPT ![c] = "closed"]
     /\ connId2conn' = IF taker.type = "authExpired" THEN connId2conn \ {c}
                                                     ELSE connId2conn
     /\ TakerLoops
     /\ UNCHANGED <<uid, clevel, lastPing, wrapVars, dq, done, job, clean>>

\* GracefulStop closes done, once.
GracefulStop ==
  /\ ~done
  /\ done' = TRUE
  /\ UNCHANGED <<connVars, wrapVars, dq, taker, job, clean>>

\* Time passes: pingInterval * pingLostTimes have gone by since the last ping.
\* (Nobody looks at the ping time of a connection that is not registered.)
PingGoesStale(c) ==
  /\ lastPing[c] = "fresh"
  /\ c \in connId2conn
  /\ lastPing' = [lastPing EXCEPT ![c] = "stale"]
  /\ UNCHANGED <<sock, connId2conn, state, uid, clevel, wrapVars, checkVars,
                 job, clean>>

-----------------------------------------------------------------------------
CleanStep(c) == CleanGetAndDel(c) \/ CleanReadUid(c) \/ CleanReadLevel(c)
                  \/ CleanLocked(c)
WorkerStep(p) == ConnFrameUndecodable(p) \/ UserStateFails(p)
                   \/ (\E u \in Users, t \in CTypes : UserStateOk(p, u, t))
                   \/ ModifyLock(p) \/ ModifyPublish(p) \/ ModifyOffer(p)
TakerStep == (\E d \in TaskTypes, c \in Conns : TakerTake(d, c))
               \/ TakerCas \/ TakerClose

Next ==
  \/ \E c \in Conns : OnOpen(c) \/ OnPing(c) \/ SocketCloses(c)
                        \/ PingGoesStale(c) \/ CleanStep(c)
  \/ \E c \in Conns, p \in Workers : OnConnFrame(c, p)
  \/ \E p \in Workers : WorkerStep(p)
  \/ TakerStep
  \/ GracefulStop

Spec == Init /\ [][Next]_vars

\* The scheduler runs every goroutine and event loop, the UserState call returns
\* (it has a timeout), and the delay queue hands out its items in the order of
\* their expiry, so that none is overtaken for ever.  Nothing is assumed of
\* the clients.
Fairness ==
  /\ \A p \in Workers : WF_vars(WorkerStep(p))
  /\ \A c \in Conns : WF_vars(CleanStep(c))
  /\ WF_vars(TakerStep)
  /\ \A d \in TaskTypes, c \in Conns : SF_vars(TakerTake(d, c))

FairSpec == Spec /\ Fairness

-----------------------------------------------------------------------------
(* Properties *)

\* Worker p won the CompareAndSwap of its connection and is still inside
\* ModifyAfterAuthed.
PastCas(p) == job[p].pc \in {"lock", "publish", "offer"}
BeingAuthed(c) == \E p \in Workers : PastCas(p) /\ job[p].c = c

\* The connections GetUserConns would return for u.
UserConns(u) == IF uid2conn[u] = NoConn THEN {} ELSE ToSet(conns[uid2conn[u]])

\* The list GetUserConns would return for u.
UserList(u) == IF uid2conn[u] = NoConn THEN <<>> ELSE conns[uid2conn[u]]
UserLists == [u \in Users |-> UserList(u)]
Cleaned == {c \in Conns : clean[c].pc = "end"}

Lists == INSTANCE DeviceLists WITH
  NoUser <- NoUid, MaxSlaves <- MaxSlaveConns,
  owner <- uid, level <- clevel, devices <- UserLists, cleaned <- Cleaned

\* "Evict the earliest slave device": who is in a user's list, where, and who has to leave
\* it for a login is what DeviceLists says, although list, level lists and wraps are
\* changed by logins and cleanups that hold on to what they read before the lock.
ImplementsLists == Lists!Spec

\* A message for a user is only ever pushed on connections authenticated as
\* that user, although several workers may be authenticating one connection
\* under different uids (ModifyAfterAuthed's CompareAndSwap).
ConnsOfOwnUserOnly ==
  \A u \in Users : \A c \in UserConns(u) : uid[c] = u

\* A connection the auth timeout kicked (closing or closed with no uid) is not
\* being authenticated and is in no wrap, published or not: the timeout and the
\* authentication exclude each other.
AuthTimeoutFinal ==
  \A c \in Conns :
    state[c] \in {"closing", "closed"} /\ uid[c] = NoUid =>
      /\ ~BeingAuthed(c)
      /\ \A w \in Conns : c \notin ToSet(conns[w])

\* No wrap lists a connection twice: a pushed frame is written once per device.
ListedOnce == \A w \in Conns : IsInjective(conns[w])

\* A user never has more than MaxSlaveConns slave devices among the connections
\* messages are pushed to, whatever logins and closes overlap.
DeviceLimit ==
  \A u \in Users :
    Cardinality({c \in UserConns(u) : clevel[c] = "slave"}) <= MaxSlaveConns

\* A user whose last connection was cleaned is offline: uid2conn never holds a
\* wrap without connections.
NoEmptyWrap ==
  \A u \in Users : uid2conn[u] # NoConn => conns[uid2conn[u]] # <<>>

\* Every registered authenticated connection has its next ping check queued or
\* running: no interleaving of login, ping and check loses the chain.
PingCheckPending ==
  \A c \in connId2conn :
    state[c] = "authed" /\ ~BeingAuthed(c) =>
      \/ Task("pingExpired", c) \in dq
      \/ taker.pc = "cas" /\ taker.type = "pingExpired" /\ taker.c = c

\* The comment on the connection states promises a state machine: a connection
\* moves only along its arrows, and the user it was authenticated as never
\* changes afterwards.
LifeCycleStep ==
  \A c \in Conns :
    /\ state'[c] # state[c] => <<state[c], state'[c]>> \in
         {<<"opened", "authed">>, <<"opened", "closing">>,
          <<"authed", "closing">>, <<"closing", "closed">>}
    /\ uid[c] # NoUid => uid'[c] = uid[c]
LifeCycle == [][LifeCycleStep]_vars

\* A connection that does not authenticate in time is closed, as the comment on
\* authTimeout promises, unless the server is being stopped.
UnauthedIsKicked ==
  \A c \in Conns :
    (sock[c] = "open" /\ state[c] = "opened")
      ~> (sock[c] # "open" \/ state[c] # "opened" \/ done)

\* An authenticated connection whose pings stay away is unregistered, unless it
\* pings again or the server is being stopped.
SilentIsKicked ==
  \A c \in Conns :
    (c \in connId2conn /\ state[c] = "authed" /\ lastPing[c] = "stale")
      ~> (c \notin connId2conn \/ lastPing[c] = "fresh" \/ done)

\* A closing socket is always cleaned to the end: the segment lock is never held
\* for ever.
CloseIsCleaned == \A c \in Conns : sock[c] = "closing" ~> clean[c].pc = "end"

\* What the code says and does not do; each is the property of a run that
\* exhibits the difference.

\* "multiple master devices logged in at the same time kick each other": it is
\* never for ever that some user has two masters online.
TwoMastersOnline ==
  \E c, d \in Conns : /\ c # d
                      /\ uid[c] = uid[d]
                      /\ \A x \in {c, d} : /\ sock[x] = "open"
                                           /\ state[x] = "authed"
                                           /\ clevel[x] = "master"
MastersKickEachOther == TwoMastersOnline ~> (~TwoMastersOnline \/ done)

\* "the connection state machine solves the toctou problem": a connection whose
\* OnClose cleanup has ended is not among its user's connections.
NoGhostConn ==
  \A u \in Users : \A c \in UserConns(u) : clean[c].pc # "end"
=============================================================================
