---------------------------- MODULE GroupManager ----------------------------
(***************************************************************************)
(* The members of one group in the topic server: the rows of t_group_item  *)
(* in MySQL (repostories/grouprepo), the GroupInfo that                    *)
(* core/grpmgr/grp_manager.go keeps of them in memory, and the handlers    *)
(* that read and change both (handlers/hhttp/group_handler.go and          *)
(* groupConvHandle in core/convmgr).  Handlers run in goroutines (Workers) *)
(* of the http and rpc servers.  A transaction commits before memory is    *)
(* touched and nothing orders the two across handlers.  The process may    *)
(* crash at any point; a concurrent iteration and write of the member map, *)
(* which is fatal in Go, is a crash too.                                   *)
(*                                                                         *)
(* Only the creator has a role that permits changes, and no operation      *)
(* changes a role or the state of the group.                               *)
(***************************************************************************)
EXTENDS Integers, FiniteSets

CONSTANTS Users,
          Workers,  \* goroutines that run a handler
          Creator,  \* the owner: role 1 in its row
          Founders, \* the members the group is created with
          Lists,    \* the lists of members a request may name
          NoUser, NoWorker

ASSUME GroupAssumption ==
  /\ Creator \in Founders
  /\ Founders \subseteq Users
  /\ Lists \subseteq SUBSET Users
  /\ NoUser \notin Users
  /\ NoWorker \notin Workers

VARIABLES
  db,   \* per user the state column of its row, "none" without a row
  mem,  \* grpNo2info: exists, and the State of Meb2item per user
  lock, \* the worker that holds the segment lock over its queries
  job,  \* per worker: pc and locals of its handler
  lost  \* history: users whose row a commit reported as failed may have changed,
        \* or whose entry OnGroupCreated overwrote, until memory has them again

vars == <<db, mem, lock, job, lost>>

MebStates == {"none", "normal", "kicked"}
NoMebs == [u \in Users |-> "none"]
OnlyNormal(who) == [u \in Users |-> IF u \in who THEN "normal" ELSE "none"]
NoInfo == [ok |-> FALSE, state |-> NoMebs]
InfoType == [ok : BOOLEAN, state : [Users -> MebStates]]

\* due is a ghost of the request, see StartSend.
Idle == [pc |-> "idle", op |-> "none", by |-> NoUser, who |-> {},
         snap |-> NoMebs, old |-> NoInfo, left |-> {}, to |-> {},
         seen |-> "none", due |-> {}]

JobType ==
  [pc : {"idle", "found", "hmset", "created", "commit", "load", "find", "put",
         "apply", "drop", "list", "look", "visit", "number"},
   op : {"none", "create", "add", "remove", "send", "list"},
   by : Users \cup {NoUser}, who : SUBSET Users, snap : [Users -> MebStates],
   old : InfoType, left : SUBSET Users, to : SUBSET Users, seen : MebStates,
   due : SUBSET Users]

\* One type invariant; the lock is only ever left with a handler that is
\* between its queries.
TypeOK ==
  /\ db \in [Users -> MebStates]
  /\ mem \in InfoType
  /\ lock \in Workers \cup {NoWorker}
  /\ job \in [Workers -> JobType]
  /\ lost \in SUBSET Users
  /\ \A p \in Workers : lock = p <=> job[p].pc \in {"find", "put"}

Init ==
  /\ db = NoMebs
  /\ mem = NoInfo
  /\ lock = NoWorker
  /\ job = [p \in Workers |-> Idle]
  /\ lost = {}

Created == \E u \in Users : db[u] # "none"
Normal == {u \in Users : db[u] = "normal"}

GoTo(p, pc) == job' = [job EXCEPT ![p].pc = pc]
Returns(p) == job' = [job EXCEPT ![p] = Idle]

-----------------------------------------------------------------------------
(* HandleStartGroupChat: the rows, the hash in Redis, then memory *)

StartGroupChat(p) ==
  /\ job[p].pc = "idle"
  /\ ~Created
  /\ \A q \in Workers : job[q].op # "create"
  /\ job' = [job EXCEPT ![p] = [Idle EXCEPT !.pc = "found", !.op = "create"]]
  /\ UNCHANGED <<db, mem, lock, lost>>

\* The transaction of CreateGroupChat.  From here on a founder can learn of the
\* group by syncing its conversations.
CreateGroupChat(p) ==
  /\ job[p].pc = "found"
  /\ db' = OnlyNormal(Founders)
  /\ GoTo(p, "hmset")
  /\ UNCHANGED <<mem, lock, lost>>

\* The transaction fails, the commit may have happened; or HMSet fails.
CreateGroupChatFails(p) ==
  /\ job[p].pc \in {"found", "hmset"}
  /\ IF job[p].pc = "found" THEN db' \in {db, OnlyNormal(Founders)}
                            ELSE UNCHANGED db
  /\ Returns(p)
  /\ UNCHANGED <<mem, lock, lost>>

\* HMSet and UpsertGroupChatConv succeed.
CreateGroupTree(p) ==
  /\ job[p].pc = "hmset"
  /\ GoTo(p, "created")
  /\ UNCHANGED <<db, mem, lock, lost>>

\* The GroupInfo is made from the founders, over one that was loaded meanwhile;
\* a send that holds that one goes on with it.
OnGroupCreated(p) ==
  /\ job[p].pc = "created"
  /\ lock = NoWorker
  /\ mem' = [ok |-> TRUE, state |-> OnlyNormal(Founders)]
  /\ job' = [q \in Workers |->
       IF q = p THEN Idle
       ELSE [job[q] EXCEPT
              !.old = IF job[q].pc \in {"look", "visit"} THEN mem ELSE @,
              !.due = @ \cap Founders]]
  /\ lost' = (lost \cup Normal) \ Founders
  /\ UNCHANGED <<db, lock>>

-----------------------------------------------------------------------------
(* HandleAddMembers and HandleRemoveMembers: the transaction *)

\* GetRoleInGroup in the snapshot of the transaction.
HasPermission(u) == u = Creator /\ db[u] = "normal"

\* The operator is added along with the new members.
BeginAdd(p, by, mebs) ==
  /\ job[p].pc = "idle"
  /\ HasPermission(by)
  /\ mebs # {}
  /\ job' = [job EXCEPT ![p] = [Idle EXCEPT !.pc = "commit", !.op = "add",
                                  !.who = mebs \cup {by}]]
  /\ UNCHANGED <<db, mem, lock, lost>>

\* RemoveMembers acts on those that are normal in the same snapshot.
BeginRemove(p, by, mebs) ==
  /\ job[p].pc = "idle"
  /\ HasPermission(by)
  /\ mebs \cap Normal # {}
  /\ job' = [job EXCEPT ![p] = [Idle EXCEPT !.pc = "commit", !.op = "remove",
                                  !.who = mebs \cap Normal]]
  /\ UNCHANGED <<db, mem, lock, lost>>

\* ON DUPLICATE KEY UPDATE does not touch the state of an existing row.
RowsAfter(p) ==
  [u \in Users |->
    IF u \notin job[p].who THEN db[u]
    ELSE IF job[p].op = "remove" THEN "kicked"
    ELSE IF db[u] = "none" THEN "normal" ELSE db[u]]

Commit(p) ==
  /\ job[p].pc = "commit"
  /\ db' = RowsAfter(p)
  /\ GoTo(p, IF job[p].op = "add" THEN "load" ELSE "drop")
  /\ UNCHANGED <<mem, lock, lost>>

\* Mutant of CommitFails: the error is ignored.
CommitFailsGoesOn(p) ==
  /\ job[p].pc = "commit"
  /\ GoTo(p, IF job[p].op = "add" THEN "load" ELSE "drop")
  /\ UNCHANGED <<db, mem, lock, lost>>

\* An error is returned, the commit may have happened.
CommitFails(p) ==
  /\ job[p].pc = "commit"
  /\ \/ UNCHANGED <<db, lost>>
     \/ /\ db' = RowsAfter(p)
        /\ lost' = lost \cup {u \in Users : RowsAfter(p)[u] # db[u]}
  /\ Returns(p)
  /\ UNCHANGED <<mem, lock>>

-----------------------------------------------------------------------------
(* initGroupInfoLazy *)

AfterLoad(op) == CASE op = "add" -> "apply"
                   [] op = "send" -> "look"
                   [] op = "list" -> "list"

\* Mutant of Load: the lock is not held over the queries.
LoadUnlocked(p) ==
  /\ job[p].pc = "load"
  /\ lock = NoWorker
  /\ GoTo(p, IF mem.ok THEN AfterLoad(job[p].op) ELSE "find")
  /\ UNCHANGED <<db, mem, lock, lost>>

\* The look under the read lock and the second one under the lock.
Load(p) ==
  /\ job[p].pc = "load"
  /\ lock = NoWorker
  /\ IF mem.ok
     THEN GoTo(p, AfterLoad(job[p].op)) /\ UNCHANGED lock
     ELSE GoTo(p, "find") /\ lock' = p
  /\ UNCHANGED <<db, mem, lost>>

\* FindGroupItems selects the normal members only.
FindGroupItems(p) ==
  /\ job[p].pc = "find"
  /\ job' = [job EXCEPT ![p].pc = "put", ![p].snap = OnlyNormal(Normal)]
  /\ UNCHANGED <<db, mem, lock, lost>>

\* Mutant of FindFails: the lock is kept.
FindFailsLocked(p) ==
  /\ job[p].pc = "find"
  /\ Returns(p)
  /\ UNCHANGED <<db, mem, lock, lost>>

FindFails(p) ==
  /\ job[p].pc = "find"
  /\ lock' = NoWorker
  /\ Returns(p)
  /\ UNCHANGED <<db, mem, lost>>

PutInfo(p) ==
  /\ job[p].pc = "put"
  /\ mem' = [ok |-> TRUE, state |-> job[p].snap]
  /\ lock' = NoWorker
  /\ job' = [job EXCEPT ![p].pc = AfterLoad(job[p].op), ![p].snap = NoMebs]
  /\ lost' = {u \in lost : job[p].snap[u] = "none"}
  /\ UNCHANGED db

-----------------------------------------------------------------------------
(* Memory follows: OnGroupMebAdded, OnGroupMebRemoved; GetGroupMebUids *)

OnGroupMebAdded(p) ==
  /\ job[p].pc = "apply"
  /\ lock = NoWorker
  /\ mem' = [mem EXCEPT !.state = [u \in Users |->
       IF u \in job[p].who THEN "normal" ELSE @[u]]]
  /\ lost' = lost \ job[p].who
  /\ Returns(p)
  /\ UNCHANGED <<db, lock>>

OnGroupMebRemoved(p) ==
  /\ job[p].pc = "drop"
  /\ lock = NoWorker
  /\ mem' = [mem EXCEPT !.state = [u \in Users |->
       IF u \in job[p].who /\ @[u] # "none" THEN "kicked" ELSE @[u]]]
  /\ Returns(p)
  /\ UNCHANGED <<db, lock, lost>>

\* HandleSettingGroupNickname asks for the members, which may load the group.
StartList(p) ==
  /\ job[p].pc = "idle"
  /\ Created
  /\ job' = [job EXCEPT ![p] = [Idle EXCEPT !.pc = "load", !.op = "list"]]
  /\ UNCHANGED <<db, mem, lock, lost>>

GetGroupMebUids(p) ==
  /\ job[p].pc = "list"
  /\ lock = NoWorker
  /\ Returns(p)
  /\ UNCHANGED <<db, mem, lock, lost>>

-----------------------------------------------------------------------------
(* groupConvHandle: OnSendMsgInGroup, canSendMsgInGroup, then the number *)

Pending(u) ==
  \E p \in Workers : /\ job[p].op = "add"
                     /\ job[p].pc \in {"load", "find", "put", "apply"}
                     /\ u \in job[p].who

\* due: the members whose entries in memory are due when the request comes in.
StartSend(p, s) ==
  /\ job[p].pc = "idle"
  /\ Created
  /\ job' = [job EXCEPT ![p] =
       [Idle EXCEPT !.pc = "load", !.op = "send", !.by = s,
                    !.due = {u \in Normal \ lost : ~Pending(u)}]]
  /\ UNCHANGED <<db, mem, lock, lost>>

\* The GroupInfo the send holds; groupIno2canSendInfo reads it without a lock.
Info(p) == IF job[p].old.ok THEN job[p].old ELSE mem

\* A sender without an entry gets MebNotInGrp and a zero GrpState; for
\* canSendMsgInGroup that is neither frozen nor dismissed, and no error.
Look(p) ==
  LET state == Info(p).state[job[p].by]
  IN /\ job[p].pc = "look"
     /\ job' = [job EXCEPT
          ![p].pc = IF state = "none" THEN "number" ELSE "visit",
          ![p].seen = state,
          ![p].left = IF state = "none" THEN {} ELSE Users \ {job[p].by}]
     /\ UNCHANGED <<db, mem, lock, lost>>

\* Mutant of Visit: a kicked member ends the iteration.
VisitBreaks(p, u) ==
  /\ job[p].pc = "visit"
  /\ u \in job[p].left
  /\ job' = [job EXCEPT
       ![p].left = IF Info(p).state[u] = "kicked" THEN {} ELSE @ \ {u},
       ![p].to = IF Info(p).state[u] = "normal" THEN @ \cup {u} ELSE @]
  /\ UNCHANGED <<db, mem, lock, lost>>

\* One step of the iteration over Meb2item.
Visit(p, u) ==
  /\ job[p].pc = "visit"
  /\ u \in job[p].left
  /\ job' = [job EXCEPT
       ![p].left = @ \ {u},
       ![p].to = IF Info(p).state[u] = "normal" THEN @ \cup {u} ELSE @]
  /\ UNCHANGED <<db, mem, lock, lost>>

\* The sender's entry was looked up before the iteration and its State is read
\* after it, unlocked: the value then or now.
CanSend(p) ==
  /\ job[p].pc = "visit"
  /\ job[p].left = {}
  /\ \E state \in {job[p].seen, Info(p).state[job[p].by]} :
       IF state = "kicked" THEN Returns(p) ELSE GoTo(p, "number")
  /\ UNCHANGED <<db, mem, lock, lost>>

\* ModifyConvTree and SendMsg, well or badly.
NumberAndSend(p) ==
  /\ job[p].pc = "number"
  /\ Returns(p)
  /\ UNCHANGED <<db, mem, lock, lost>>

Crash ==
  /\ mem' = NoInfo
  /\ lock' = NoWorker
  /\ job' = [p \in Workers |-> Idle]
  /\ lost' = {}
  /\ UNCHANGED db

-----------------------------------------------------------------------------
Start(p) ==
  \/ StartGroupChat(p) \/ StartList(p)
  \/ \E u \in Users : StartSend(p, u)
  \/ \E u \in Users, mebs \in Lists :
       BeginAdd(p, u, mebs) \/ BeginRemove(p, u, mebs)

HandleStep(p) ==
  \/ CreateGroupChat(p) \/ CreateGroupChatFails(p) \/ CreateGroupTree(p)
  \/ OnGroupCreated(p) \/ Commit(p) \/ CommitFails(p)
  \/ Load(p) \/ FindGroupItems(p) \/ FindFails(p) \/ PutInfo(p)
  \/ OnGroupMebAdded(p) \/ OnGroupMebRemoved(p) \/ GetGroupMebUids(p)
  \/ Look(p) \/ (\E u \in Users : Visit(p, u)) \/ CanSend(p) \/ NumberAndSend(p)

Next == (\E p \in Workers : Start(p) \/ HandleStep(p)) \/ Crash

Spec == Init /\ [][Next]_vars

-----------------------------------------------------------------------------
(* Properties *)

\* Memory holds nobody that never had a row, and takes nobody for kicked whose
\* row does not say so, in whatever order the handlers that committed get there.
MemFollowsDb ==
  \A u \in Users :
    /\ mem.state[u] # "none" => db[u] # "none"
    /\ mem.state[u] = "kicked" => db[u] = "kicked"

\* A member of the database is missing from a loaded group only while the
\* handler that added it is on its way to memory, after a commit that was
\* reported as failed, or after OnGroupCreated ran late.
NoMemberForgotten ==
  mem.ok => \A u \in Normal : mem.state[u] = "normal" \/ u \in lost \/ Pending(u)

\* A message that is about to be numbered goes to every member that was due when
\* the send began and still is one, although the member map is read unlocked
\* while others are added and removed.
MembersAreReached ==
  \A p \in Workers :
    job[p].pc = "number" /\ job[p].seen # "none" =>
      job[p].due \cap Normal \subseteq job[p].to \cup {job[p].by}

\* What the code says and does not do.

\* NewMebBeKickedErr, "the member was removed from the group": nobody whose row
\* says kicked, with no handler at work on it, is let through for want of an
\* entry in memory.
InFlight(u) == \E p \in Workers : u \in job[p].who
KickedCannotSend ==
  \A p \in Workers :
    LET u == job[p].by
    IN job[p].pc = "number" /\ db[u] = "kicked" /\ u \notin lost /\ ~InFlight(u)
         => job[p].seen # "none"
=============================================================================
