------------------------- MODULE GroupManagerProofs -------------------------
(***************************************************************************)
(* Proofs about GroupManager for any sets of users, founders, lists of      *)
(* members and workers.                                                     *)
(*                                                                          *)
(* Neither that memory follows the rows nor that a send reaches all members *)
(* is inductive: both depend on what handlers on their way to memory carry  *)
(* in their locals.  IInv says what that is: the rows behind a change that  *)
(* is to be applied (RowInv), the members behind a list that was read and   *)
(* is to be put in memory (PutInv), and the members behind an iteration     *)
(* that is under way (ReachInv).                                            *)
(***************************************************************************)
EXTENDS GroupManager, TLAPS

\* What a handler's operation is at each of its steps; the rows of the group
\* exist from the first step after the transaction that creates them.
PhaseInv ==
  /\ mem.ok => Created
  /\ \A p \in Workers :
    /\ job[p].pc = "found" => /\ job[p].op = "create"
                              /\ \A u \in Users : db[u] = "none"
    /\ job[p].pc \notin {"idle", "found"} => Created
    /\ job[p].pc = "commit" => job[p].op \in {"add", "remove"}
    /\ job[p].pc \in {"load", "find", "put"} => job[p].op \in {"add", "send", "list"}
    /\ job[p].pc = "apply" => job[p].op = "add"
    /\ job[p].op = "send" => job[p].by \in Users
    /\ job[p].pc \in {"look", "visit"} => job[p].op = "send"
    /\ \A q \in Workers : job[p].pc = "found" /\ job[q].pc = "found" => p = q

\* The lock is held to load the group only, and nobody gets past the load of a
\* group that is not in memory.
LockInv ==
  /\ lock # NoWorker => ~mem.ok
  /\ \A p \in Workers : job[p].pc \in {"apply", "list", "look", "visit"} => mem.ok

\* The rows behind the locals.
RowInv ==
  \A p \in Workers :
    /\ job[p].pc \in {"load", "find", "put", "apply"} =>
         \A u \in job[p].who : db[u] # "none"
    /\ job[p].pc = "drop" => \A u \in job[p].who : db[u] = "kicked"
    /\ job[p].pc \in {"hmset", "created"} => \A u \in Founders : db[u] # "none"
    /\ job[p].pc = "put" => \A u \in Users : job[p].snap[u] # "none" =>
         job[p].snap[u] = "normal" /\ db[u] # "none"
    /\ \A u \in job[p].due : db[u] # "none"

\* What was read and is to be put in memory misses no member either.
PutInv ==
  \A p \in Workers : job[p].pc = "put" =>
    \A u \in Normal : job[p].snap[u] = "normal" \/ u \in lost \/ Pending(u)

\* The members a send is to reach are in memory, in what is to be put there and
\* in the GroupInfo the send holds; those it passed in its iteration are taken.
ReachInv ==
  \A p \in Workers :
    /\ job[p].pc \in {"load", "look", "visit"} /\ mem.ok =>
         \A u \in job[p].due \cap Normal : mem.state[u] = "normal"
    /\ job[p].pc \in {"load", "put"} =>
         \A q \in Workers : job[q].pc = "put" =>
           \A u \in job[p].due \cap Normal : job[q].snap[u] = "normal"
    /\ job[p].pc \in {"commit", "load", "find", "put"} => ~job[p].old.ok
    /\ job[p].op # "send" => job[p].due = {}
    /\ job[p].pc \in {"look", "visit"} /\ job[p].old.ok =>
         \A u \in job[p].due \cap Normal : job[p].old.state[u] = "normal"
    /\ job[p].pc = "visit" =>
         \A u \in job[p].due \cap Normal :
           u \in job[p].to \/ u \in job[p].left \/ u = job[p].by

IInv == /\ TypeOK /\ PhaseInv /\ LockInv /\ RowInv /\ PutInv /\ ReachInv
        /\ MemFollowsDb /\ NoMemberForgotten /\ MembersAreReached

-----------------------------------------------------------------------------
\* Idle has its type.
LEMMA IdleType == Idle \in JobType /\ Idle.pc = "idle" /\ Idle.op = "none"
                    /\ Idle.who = {} /\ Idle.due = {} /\ ~Idle.old.ok
BY DEF Idle, JobType, NoMebs, NoInfo, InfoType, MebStates

\* The locals of a handler have their type.
LEMMA JobOf == ASSUME TypeOK, NEW p \in Workers PROVE job[p] \in JobType
BY DEF TypeOK

\* A step of worker p leaves the locals of the others alone.
LEMMA JobFrame ==
  ASSUME TypeOK, NEW p \in Workers, NEW r \in JobType,
         job' = [job EXCEPT ![p] = r]
  PROVE  /\ job' \in [Workers -> JobType]
         /\ job'[p] = r
         /\ \A q \in Workers \ {p} : job'[q] = job[q]
BY DEF TypeOK

\* Nothing is in the database, in memory or under way.
LEMMA InitKeeps == Init => IInv
<1> SUFFICES ASSUME Init PROVE IInv
  OBVIOUS
<1>1. \A p \in Workers : job[p] = Idle
  BY DEF Init
<1>2. TypeOK
  BY <1>1, IdleType, GroupAssumption
     DEF Init, TypeOK, NoMebs, NoInfo, InfoType, MebStates
<1>3. PhaseInv /\ LockInv /\ RowInv /\ PutInv /\ ReachInv
  BY <1>1, IdleType DEF Init, NoInfo, PhaseInv, LockInv, RowInv, PutInv, ReachInv
<1>4. MemFollowsDb /\ NoMemberForgotten /\ MembersAreReached
  BY <1>1, IdleType
     DEF Init, MemFollowsDb, NoMemberForgotten, MembersAreReached, NoMebs, NoInfo
<1> QED  BY <1>2, <1>3, <1>4 DEF IInv

-----------------------------------------------------------------------------
(* One lemma per action: the new locals, then every part of IInv *)

\* A creation starts while there are no rows and no other creation is under way.
LEMMA StartGroupChatKeeps ==
  ASSUME IInv, NEW p \in Workers, StartGroupChat(p) PROVE IInv'
<1> DEFINE r == [Idle EXCEPT !.pc = "found", !.op = "create"]
<1>1. /\ r \in JobType
      /\ r.pc = "found" /\ r.op = "create" /\ r.who = {} /\ r.due = {} /\ ~r.old.ok
  BY IdleType DEF JobType, Idle, NoMebs, NoInfo, InfoType, MebStates
<1>2. /\ job' = [job EXCEPT ![p] = r]
      /\ job[p].pc = "idle" /\ ~Created
      /\ \A q \in Workers : job[q].op # "create"
      /\ UNCHANGED <<db, mem, lock, lost>>
  BY DEF IInv, TypeOK, StartGroupChat
<1> HIDE DEF r
<1>3. /\ job' \in [Workers -> JobType]
      /\ job'[p] = r
      /\ \A q \in Workers \ {p} : job'[q] = job[q]
  BY <1>1, <1>2, JobFrame DEF IInv
<1>4. \A u \in Users : Pending(u) => Pending(u)'
  BY <1>1, <1>2, <1>3, GroupAssumption DEF IInv, Pending, PhaseInv, LockInv, TypeOK
<1>5. TypeOK'
  BY <1>1, <1>2, <1>3, GroupAssumption DEF IInv, TypeOK
<1>6. PhaseInv' /\ LockInv' /\ RowInv'
  BY <1>1, <1>2, <1>3 DEF IInv, PhaseInv, Created, LockInv, TypeOK, RowInv
<1>7. PutInv' /\ ReachInv'
  BY <1>1, <1>2, <1>3, <1>4
     DEF IInv, PutInv, Normal, TypeOK, ReachInv, RowInv, JobType
<1>8. MemFollowsDb' /\ NoMemberForgotten' /\ MembersAreReached'
  BY <1>1, <1>2, <1>3, <1>4
     DEF IInv, MemFollowsDb, NoMemberForgotten, Normal, LockInv,
         MembersAreReached, RowInv, TypeOK, JobType
<1> QED  BY <1>5, <1>6, <1>7, <1>8 DEF IInv

\* The founders still have rows when the hash in Redis is written.
LEMMA CreateGroupTreeKeeps ==
  ASSUME IInv, NEW p \in Workers, CreateGroupTree(p) PROVE IInv'
<1> DEFINE r == [job[p] EXCEPT !.pc = "created"]
<1>1. /\ r \in JobType
      /\ r.pc = "created" /\ r.op = job[p].op /\ r.who = job[p].who
      /\ r.due = job[p].due /\ r.by = job[p].by
  BY JobOf DEF IInv, JobType
<1>2. /\ job' = [job EXCEPT ![p] = r]
      /\ job[p].pc = "hmset"
      /\ UNCHANGED <<db, mem, lock, lost>>
  BY DEF IInv, TypeOK, CreateGroupTree, GoTo
<1> HIDE DEF r
<1>3. /\ job' \in [Workers -> JobType]
      /\ job'[p] = r
      /\ \A q \in Workers \ {p} : job'[q] = job[q]
  BY <1>1, <1>2, JobFrame DEF IInv
<1>4. \A u \in Users : Pending(u) => Pending(u)'
  BY <1>1, <1>2, <1>3, GroupAssumption DEF IInv, Pending, PhaseInv, LockInv, TypeOK
<1>5. TypeOK'
  BY <1>1, <1>2, <1>3, GroupAssumption DEF IInv, TypeOK
<1>6. PhaseInv' /\ LockInv' /\ RowInv'
  BY <1>1, <1>2, <1>3 DEF IInv, PhaseInv, Created, LockInv, TypeOK, RowInv
<1>7. PutInv' /\ ReachInv'
  BY <1>1, <1>2, <1>3, <1>4
     DEF IInv, PutInv, Normal, TypeOK, ReachInv, RowInv, JobType
<1>8. MemFollowsDb' /\ NoMemberForgotten' /\ MembersAreReached'
  BY <1>1, <1>2, <1>3, <1>4
     DEF IInv, MemFollowsDb, NoMemberForgotten, Normal, LockInv,
         MembersAreReached, RowInv, TypeOK, JobType
<1> QED  BY <1>5, <1>6, <1>7, <1>8 DEF IInv

\* The list a handler adds is in nobody's way before it is committed.
LEMMA BeginAddKeeps ==
  ASSUME IInv, NEW p \in Workers,
         NEW by \in Users, NEW mebs \in Lists, BeginAdd(p, by, mebs) PROVE IInv'
<1> DEFINE r == [Idle EXCEPT !.pc = "commit", !.op = "add",
                               !.who = mebs \cup {by}]
<1>0. (mebs \cup {by}) \in SUBSET Users /\ NoUser \notin Users
  BY GroupAssumption DEF Normal
<1>1. /\ r \in JobType
      /\ r.pc = "commit" /\ r.op = "add" /\ r.due = {} /\ ~r.old.ok
  BY <1>0, IdleType DEF JobType, Idle, NoMebs, NoInfo, InfoType, MebStates, Normal
<1>2. /\ job' = [job EXCEPT ![p] = r]
      /\ job[p].pc = "idle" /\ Created
      /\ UNCHANGED <<db, mem, lock, lost>>
  BY DEF IInv, TypeOK, BeginAdd, HasPermission, Created
<1> HIDE DEF r
<1>3. /\ job' \in [Workers -> JobType]
      /\ job'[p] = r
      /\ \A q \in Workers \ {p} : job'[q] = job[q]
  BY <1>1, <1>2, JobFrame DEF IInv
<1>4. \A u \in Users : Pending(u) => Pending(u)'
  BY <1>0, <1>1, <1>2, <1>3, GroupAssumption
     DEF IInv, Pending, PhaseInv, LockInv, TypeOK
<1>5. TypeOK'
  BY <1>0, <1>1, <1>2, <1>3, GroupAssumption DEF IInv, TypeOK
<1>6. PhaseInv' /\ LockInv' /\ RowInv'
  BY <1>0, <1>1, <1>2, <1>3 DEF IInv, PhaseInv, Created, LockInv, TypeOK, RowInv
<1>7. PutInv' /\ ReachInv'
  BY <1>0, <1>1, <1>2, <1>3, <1>4
     DEF IInv, PutInv, Normal, TypeOK, ReachInv, RowInv, JobType
<1>8. MemFollowsDb' /\ NoMemberForgotten' /\ MembersAreReached'
  BY <1>0, <1>1, <1>2, <1>3, <1>4
     DEF IInv, MemFollowsDb, NoMemberForgotten, Normal, LockInv,
         MembersAreReached, RowInv, TypeOK, JobType
<1> QED  BY <1>5, <1>6, <1>7, <1>8 DEF IInv

\* A removal that begins carries rows that may be normal: nothing depends on it yet.
LEMMA BeginRemoveKeeps ==
  ASSUME IInv, NEW p \in Workers,
         NEW by \in Users, NEW mebs \in Lists, BeginRemove(p, by, mebs) PROVE IInv'
<1> DEFINE r == [Idle EXCEPT !.pc = "commit", !.op = "remove",
                               !.who = mebs \cap Normal]
<1>0. (mebs \cap Normal) \in SUBSET Users /\ NoUser \notin Users
  BY GroupAssumption DEF Normal
<1>1. /\ r \in JobType
      /\ r.pc = "commit" /\ r.op = "remove" /\ r.due = {} /\ ~r.old.ok
  BY <1>0, IdleType DEF JobType, Idle, NoMebs, NoInfo, InfoType, MebStates, Normal
<1>2. /\ job' = [job EXCEPT ![p] = r]
      /\ job[p].pc = "idle" /\ Created
      /\ UNCHANGED <<db, mem, lock, lost>>
  BY DEF IInv, TypeOK, BeginRemove, HasPermission, Created
<1> HIDE DEF r
<1>3. /\ job' \in [Workers -> JobType]
      /\ job'[p] = r
      /\ \A q \in Workers \ {p} : job'[q] = job[q]
  BY <1>1, <1>2, JobFrame DEF IInv
<1>4. \A u \in Users : Pending(u) => Pending(u)'
  BY <1>0, <1>1, <1>2, <1>3, GroupAssumption
     DEF IInv, Pending, PhaseInv, LockInv, TypeOK
<1>5. TypeOK'
  BY <1>0, <1>1, <1>2, <1>3, GroupAssumption DEF IInv, TypeOK
<1>6. PhaseInv' /\ LockInv' /\ RowInv'
  BY <1>0, <1>1, <1>2, <1>3 DEF IInv, PhaseInv, Created, LockInv, TypeOK, RowInv
<1>7. PutInv' /\ ReachInv'
  BY <1>0, <1>1, <1>2, <1>3, <1>4
     DEF IInv, PutInv, Normal, TypeOK, ReachInv, RowInv, JobType
<1>8. MemFollowsDb' /\ NoMemberForgotten' /\ MembersAreReached'
  BY <1>0, <1>1, <1>2, <1>3, <1>4
     DEF IInv, MemFollowsDb, NoMemberForgotten, Normal, LockInv,
         MembersAreReached, RowInv, TypeOK, JobType
<1> QED  BY <1>5, <1>6, <1>7, <1>8 DEF IInv

\* A handler passes the load of a group in memory, or takes the lock of one that
\* is not: then nobody else is between the queries.
LEMMA LoadKeeps ==
  ASSUME IInv, NEW p \in Workers, Load(p) PROVE IInv'
<1> DEFINE r == [job[p] EXCEPT !.pc = IF mem.ok THEN AfterLoad(job[p].op) ELSE "find"]
<1>0. AfterLoad(job[p].op) \in {"apply", "look", "list"}
      /\ (AfterLoad(job[p].op) = "apply" <=> job[p].op = "add")
      /\ (AfterLoad(job[p].op) = "look" <=> job[p].op = "send")
  BY DEF IInv, TypeOK, JobType, PhaseInv, Load, AfterLoad
<1>1. /\ r \in JobType
      /\ r.pc = IF mem.ok THEN AfterLoad(job[p].op) ELSE "find"
      /\ r.op = job[p].op /\ r.who = job[p].who /\ r.due = job[p].due
      /\ r.snap = job[p].snap /\ r.old = job[p].old /\ r.by = job[p].by
  BY <1>0, JobOf DEF IInv, JobType
<1>2. /\ job' = [job EXCEPT ![p] = r]
      /\ job[p].pc = "load" /\ lock = NoWorker
      /\ lock' = IF mem.ok THEN lock ELSE p
      /\ UNCHANGED <<db, mem, lost>>
  BY DEF IInv, TypeOK, Load, GoTo
<1> HIDE DEF r
<1>3. /\ job' \in [Workers -> JobType]
      /\ job'[p] = r
      /\ \A q \in Workers \ {p} : job'[q] = job[q]
  BY <1>1, <1>2, JobFrame DEF IInv
<1>4. \A u \in Users : Pending(u) => Pending(u)'
  BY <1>0, <1>1, <1>2, <1>3, GroupAssumption
     DEF IInv, Pending, PhaseInv, LockInv, TypeOK
<1>5. TypeOK'
  BY <1>0, <1>1, <1>2, <1>3, GroupAssumption DEF IInv, TypeOK
<1>6. PhaseInv' /\ LockInv' /\ RowInv'
  BY <1>0, <1>1, <1>2, <1>3 DEF IInv, PhaseInv, Created, LockInv, TypeOK, RowInv
<1>7. PutInv' /\ ReachInv'
  BY <1>0, <1>1, <1>2, <1>3, <1>4
     DEF IInv, PutInv, Normal, TypeOK, ReachInv, RowInv, JobType
<1>8. MemFollowsDb' /\ NoMemberForgotten' /\ MembersAreReached'
  BY <1>0, <1>1, <1>2, <1>3, <1>4
     DEF IInv, MemFollowsDb, NoMemberForgotten, Normal, LockInv,
         MembersAreReached, RowInv, TypeOK, JobType
<1> QED  BY <1>5, <1>6, <1>7, <1>8 DEF IInv

\* The query returns the normal members, all of them and nobody else.
LEMMA FindGroupItemsKeeps ==
  ASSUME IInv, NEW p \in Workers, FindGroupItems(p) PROVE IInv'
<1> DEFINE r == [job[p] EXCEPT !.pc = "put", !.snap = OnlyNormal(Normal)]
<1>0. /\ OnlyNormal(Normal) \in [Users -> MebStates]
      /\ \A u \in Users : OnlyNormal(Normal)[u] =
           IF u \in Normal THEN "normal" ELSE "none"
  BY DEF OnlyNormal, MebStates, Normal
<1>1. /\ r \in JobType
      /\ r.pc = "put" /\ r.op = job[p].op /\ r.who = job[p].who
      /\ r.due = job[p].due /\ r.old = job[p].old /\ r.by = job[p].by
      /\ r.snap = OnlyNormal(Normal)
  BY <1>0, JobOf, ZenonT(60) DEF IInv, JobType
<1>2. /\ job' = [job EXCEPT ![p] = r]
      /\ job[p].pc = "find"
      /\ UNCHANGED <<db, mem, lock, lost>>
  BY DEF IInv, TypeOK, FindGroupItems
<1> HIDE DEF r
<1>3. /\ job' \in [Workers -> JobType]
      /\ job'[p] = r
      /\ \A q \in Workers \ {p} : job'[q] = job[q]
  BY <1>1, <1>2, JobFrame DEF IInv
<1>4. \A u \in Users : Pending(u) => Pending(u)'
  BY <1>0, <1>1, <1>2, <1>3, GroupAssumption
     DEF IInv, Pending, PhaseInv, LockInv, TypeOK
<1>5. TypeOK'
  BY <1>0, <1>1, <1>2, <1>3, GroupAssumption DEF IInv, TypeOK
<1>6. PhaseInv' /\ LockInv' /\ RowInv'
  BY <1>0, <1>1, <1>2, <1>3
     DEF IInv, PhaseInv, Created, LockInv, TypeOK, RowInv, Normal
<1>7. PutInv' /\ ReachInv'
  BY <1>0, <1>1, <1>2, <1>3, <1>4
     DEF IInv, PutInv, Normal, TypeOK, ReachInv, RowInv, JobType
<1>8. MemFollowsDb' /\ NoMemberForgotten' /\ MembersAreReached'
  BY <1>0, <1>1, <1>2, <1>3, <1>4
     DEF IInv, MemFollowsDb, NoMemberForgotten, Normal, LockInv,
         MembersAreReached, RowInv, TypeOK, JobType
<1> QED  BY <1>5, <1>6, <1>7, <1>8 DEF IInv

\* A failed query gives the lock back; the group is still not in memory.
LEMMA FindFailsKeeps ==
  ASSUME IInv, NEW p \in Workers, FindFails(p) PROVE IInv'
<1> DEFINE r == Idle
<1>1. /\ r \in JobType
      /\ r = Idle
  BY IdleType
<1>2. /\ job' = [job EXCEPT ![p] = r]
      /\ job[p].pc = "find" /\ lock = p /\ lock' = NoWorker
      /\ UNCHANGED <<db, mem, lost>>
  BY DEF IInv, TypeOK, FindFails, Returns
<1> HIDE DEF r
<1>3. /\ job' \in [Workers -> JobType]
      /\ job'[p] = r
      /\ \A q \in Workers \ {p} : job'[q] = job[q]
  BY <1>1, <1>2, JobFrame DEF IInv
<1>4. \A u \in Users : ~mem.ok /\ \A q \in Workers : job[q].pc # "put"
  BY <1>1, <1>2, <1>3, GroupAssumption DEF IInv, Pending, PhaseInv, LockInv, TypeOK
<1>5. TypeOK'
  BY <1>1, <1>2, <1>3, GroupAssumption, IdleType DEF IInv, TypeOK, TypeOK
<1>6. PhaseInv' /\ LockInv' /\ RowInv'
  BY <1>1, <1>2, <1>3, IdleType
     DEF IInv, PhaseInv, Created, TypeOK, LockInv, RowInv
<1>7. PutInv' /\ ReachInv'
  BY <1>1, <1>2, <1>3, <1>4, IdleType
     DEF IInv, PutInv, Normal, TypeOK, TypeOK, ReachInv, RowInv, JobType
<1>8. MemFollowsDb' /\ NoMemberForgotten' /\ MembersAreReached'
  BY <1>1, <1>2, <1>3, <1>4, IdleType
     DEF IInv, MemFollowsDb, NoMemberForgotten, Normal, LockInv,
         MembersAreReached, RowInv, TypeOK, JobType, TypeOK
<1> QED  BY <1>5, <1>6, <1>7, <1>8 DEF IInv

\* What was read under the lock has missed nobody but those that are pending or lost,
\* and nobody is at work on a group that was not in memory.
LEMMA PutInfoKeeps ==
  ASSUME IInv, NEW p \in Workers, PutInfo(p) PROVE IInv'
<1> DEFINE r == [job[p] EXCEPT !.pc = AfterLoad(job[p].op), !.snap = NoMebs]
<1>0. AfterLoad(job[p].op) \in {"apply", "look", "list"}
      /\ (AfterLoad(job[p].op) = "apply" <=> job[p].op = "add")
      /\ (AfterLoad(job[p].op) = "look" <=> job[p].op = "send")
      /\ NoMebs \in [Users -> MebStates]
  BY DEF IInv, TypeOK, JobType, PhaseInv, PutInfo, NoMebs, MebStates, AfterLoad
<1>1. /\ r \in JobType
      /\ r.pc = AfterLoad(job[p].op)
      /\ r.op = job[p].op /\ r.who = job[p].who /\ r.due = job[p].due
      /\ r.old = job[p].old /\ r.by = job[p].by
  BY <1>0, JobOf, ZenonT(60) DEF IInv, JobType
<1>2. /\ job' = [job EXCEPT ![p] = r]
      /\ job[p].pc = "put" /\ lock = p /\ lock' = NoWorker
      /\ mem' = [ok |-> TRUE, state |-> job[p].snap]
      /\ lost' = {u \in lost : job[p].snap[u] = "none"}
      /\ db' = db
  BY DEF IInv, TypeOK, PutInfo
<1> HIDE DEF r
<1>3. /\ job' \in [Workers -> JobType]
      /\ job'[p] = r
      /\ \A q \in Workers \ {p} : job'[q] = job[q]
  BY <1>1, <1>2, JobFrame DEF IInv
<1>4. \A u \in Users : Pending(u) => Pending(u)'
  BY <1>0, <1>1, <1>2, <1>3, GroupAssumption
     DEF IInv, Pending, PhaseInv, LockInv, TypeOK
<1>5. TypeOK'
  BY <1>0, <1>1, <1>2, <1>3, GroupAssumption DEF IInv, TypeOK, InfoType, JobType
<1>6. PhaseInv' /\ LockInv' /\ RowInv'
  BY <1>0, <1>1, <1>2, <1>3 DEF IInv, PhaseInv, Created, LockInv, TypeOK, RowInv
<1>7. PutInv'
  BY <1>0, <1>1, <1>2, <1>3, <1>4 DEF IInv, PutInv, Normal, TypeOK
<1>8. ReachInv'
  <2>1. \A q \in Workers \ {p} : job[q].pc \notin {"put", "look", "visit"}
    BY <1>2, GroupAssumption DEF IInv, TypeOK, LockInv
  <2>2. job'[p].pc # "put" /\ job'[p].pc # "load" /\ job'[p].pc # "find"
        /\ job'[p].pc # "visit"
    BY <1>0, <1>1, <1>3
  <2>3. \A q \in Workers : job'[q].pc \in {"load", "look", "visit"} =>
          \A u \in job'[q].due \cap Normal : mem'.state[u] = "normal"
    BY <2>1, <2>2, <1>1, <1>2, <1>3 DEF IInv, ReachInv
  <2> QED  BY <2>1, <2>2, <2>3, <1>1, <1>2, <1>3
           DEF IInv, ReachInv, Normal, TypeOK, JobType
<1>9. MemFollowsDb' /\ NoMemberForgotten' /\ MembersAreReached'
  BY <1>0, <1>1, <1>2, <1>3, <1>4
     DEF IInv, MemFollowsDb, RowInv, MebStates, TypeOK, NoMemberForgotten,
         Normal, LockInv, PutInv, MembersAreReached, JobType
<1> QED  BY <1>5, <1>6, <1>7, <1>8, <1>9 DEF IInv

\* The handler that was to bring a member to memory has done so.
LEMMA OnGroupMebAddedKeeps ==
  ASSUME IInv, NEW p \in Workers, OnGroupMebAdded(p) PROVE IInv'
<1> DEFINE r == Idle
<1>1. /\ r \in JobType
      /\ r = Idle
  BY IdleType
<1>2. /\ job' = [job EXCEPT ![p] = r]
      /\ job[p].pc = "apply" /\ lock = NoWorker /\ mem' \in InfoType
      /\ mem'.ok = mem.ok
      /\ \A u \in Users : mem'.state[u] =
           IF u \in job[p].who THEN "normal" ELSE mem.state[u]
      /\ lost' = lost \ job[p].who
      /\ UNCHANGED <<db, lock>>
  BY DEF IInv, TypeOK, OnGroupMebAdded, Returns, InfoType, MebStates
<1> HIDE DEF r
<1>3. /\ job' \in [Workers -> JobType]
      /\ job'[p] = r
      /\ \A q \in Workers \ {p} : job'[q] = job[q]
  BY <1>1, <1>2, JobFrame DEF IInv
<1>4. \A u \in Users : Pending(u) => Pending(u)' \/ u \in job[p].who
  BY <1>1, <1>2, <1>3, GroupAssumption DEF IInv, Pending, PhaseInv, LockInv, TypeOK
<1>5. TypeOK'
  BY <1>1, <1>2, <1>3, GroupAssumption, IdleType DEF IInv, TypeOK, InfoType
<1>6. PhaseInv' /\ LockInv' /\ RowInv'
  BY <1>1, <1>2, <1>3, IdleType
     DEF IInv, PhaseInv, Created, LockInv, TypeOK, RowInv
<1>7. PutInv'
  <2>1. \A q \in Workers : job[q].pc # "put"
    BY <1>2, GroupAssumption DEF IInv, TypeOK
  <2> QED  BY <2>1, <1>1, <1>3, IdleType DEF PutInv
<1>8. ReachInv'
  <2>1. \A q \in Workers : job[q].pc # "put"
    BY <1>2, GroupAssumption DEF IInv, TypeOK
  <2>2. \A u \in Users : mem.state[u] = "normal" => mem'.state[u] = "normal"
    BY <1>2
  <2> QED  BY <2>1, <2>2, <1>1, <1>2, <1>3, IdleType
           DEF IInv, ReachInv, Normal, TypeOK, JobType
<1>9. MemFollowsDb'
  BY <1>1, <1>2, <1>3 DEF IInv, MemFollowsDb, RowInv
<1>10. NoMemberForgotten'
  BY <1>1, <1>2, <1>3, <1>4 DEF IInv, NoMemberForgotten, Normal, LockInv
<1>11. MembersAreReached'
  BY <1>1, <1>2, <1>3, IdleType
     DEF IInv, MembersAreReached, RowInv, Normal, TypeOK, JobType
<1> QED  BY <1>5, <1>6, <1>7, <1>8, <1>9, <1>10, <1>11 DEF IInv

\* Those that are kicked in memory were kicked by the transaction, for ever.
LEMMA OnGroupMebRemovedKeeps ==
  ASSUME IInv, NEW p \in Workers, OnGroupMebRemoved(p) PROVE IInv'
<1> DEFINE r == Idle
<1>1. /\ r \in JobType
      /\ r = Idle
  BY IdleType
<1>2. /\ job' = [job EXCEPT ![p] = r]
      /\ job[p].pc = "drop" /\ lock = NoWorker /\ mem' \in InfoType
      /\ mem'.ok = mem.ok
      /\ \A u \in Users : mem'.state[u] =
           IF u \in job[p].who /\ mem.state[u] # "none" THEN "kicked" ELSE mem.state[u]
      /\ UNCHANGED <<db, lock, lost>>
  BY DEF IInv, TypeOK, OnGroupMebRemoved, Returns, InfoType, MebStates
<1> HIDE DEF r
<1>3. /\ job' \in [Workers -> JobType]
      /\ job'[p] = r
      /\ \A q \in Workers \ {p} : job'[q] = job[q]
  BY <1>1, <1>2, JobFrame DEF IInv
<1>4. \A u \in Users : Pending(u) => Pending(u)'
  BY <1>1, <1>2, <1>3, GroupAssumption DEF IInv, Pending, PhaseInv, LockInv, TypeOK
<1>5. TypeOK'
  BY <1>1, <1>2, <1>3, GroupAssumption, IdleType DEF IInv, TypeOK, InfoType
<1>6. PhaseInv' /\ LockInv' /\ RowInv'
  BY <1>1, <1>2, <1>3, IdleType
     DEF IInv, PhaseInv, Created, LockInv, TypeOK, RowInv
<1>7. PutInv'
  BY <1>1, <1>2, <1>3, <1>4, IdleType DEF IInv, PutInv, Normal, TypeOK
<1>8. ReachInv'
  <2>1. \A q \in Workers : job[q].pc # "put"
    BY <1>2, GroupAssumption DEF IInv, TypeOK
  <2>2. \A u \in Normal : mem'.state[u] = mem.state[u]
    BY <1>2 DEF IInv, RowInv, Normal
  <2> QED  BY <2>1, <2>2, <1>1, <1>2, <1>3, IdleType DEF IInv, ReachInv, Normal
<1>9. MemFollowsDb' /\ NoMemberForgotten' /\ MembersAreReached'
  BY <1>1, <1>2, <1>3, <1>4, IdleType, SMTT(30)
     DEF IInv, MemFollowsDb, RowInv, NoMemberForgotten, Normal, LockInv,
         MembersAreReached, TypeOK, JobType
<1> QED  BY <1>5, <1>6, <1>7, <1>8, <1>9 DEF IInv

\* A request for the list of members starts.
LEMMA StartListKeeps ==
  ASSUME IInv, NEW p \in Workers, StartList(p) PROVE IInv'
<1> DEFINE r == [Idle EXCEPT !.pc = "load", !.op = "list"]
<1>1. /\ r \in JobType
      /\ r.pc = "load" /\ r.op = "list" /\ r.who = {} /\ r.due = {} /\ ~r.old.ok
  BY IdleType DEF JobType, Idle, NoMebs, NoInfo, InfoType, MebStates
<1>2. /\ job' = [job EXCEPT ![p] = r]
      /\ job[p].pc = "idle" /\ Created
      /\ UNCHANGED <<db, mem, lock, lost>>
  BY DEF IInv, TypeOK, StartList
<1> HIDE DEF r
<1>3. /\ job' \in [Workers -> JobType]
      /\ job'[p] = r
      /\ \A q \in Workers \ {p} : job'[q] = job[q]
  BY <1>1, <1>2, JobFrame DEF IInv
<1>4. \A u \in Users : Pending(u) => Pending(u)'
  BY <1>1, <1>2, <1>3, GroupAssumption DEF IInv, Pending, PhaseInv, LockInv, TypeOK
<1>5. TypeOK'
  BY <1>1, <1>2, <1>3, GroupAssumption DEF IInv, TypeOK
<1>6. PhaseInv' /\ LockInv' /\ RowInv'
  BY <1>1, <1>2, <1>3 DEF IInv, PhaseInv, Created, LockInv, TypeOK, RowInv
<1>7. PutInv' /\ ReachInv'
  BY <1>1, <1>2, <1>3, <1>4
     DEF IInv, PutInv, Normal, TypeOK, ReachInv, RowInv, JobType
<1>8. MemFollowsDb' /\ NoMemberForgotten' /\ MembersAreReached'
  BY <1>1, <1>2, <1>3, <1>4
     DEF IInv, MemFollowsDb, NoMemberForgotten, Normal, LockInv,
         MembersAreReached, RowInv, TypeOK, JobType
<1> QED  BY <1>5, <1>6, <1>7, <1>8 DEF IInv

\* The list of members is read and returned.
LEMMA GetGroupMebUidsKeeps ==
  ASSUME IInv, NEW p \in Workers, GetGroupMebUids(p) PROVE IInv'
<1> DEFINE r == Idle
<1>1. /\ r \in JobType
      /\ r = Idle
  BY IdleType
<1>2. /\ job' = [job EXCEPT ![p] = r]
      /\ job[p].pc = "list"
      /\ UNCHANGED <<db, mem, lock, lost>>
  BY DEF IInv, TypeOK, GetGroupMebUids, Returns
<1> HIDE DEF r
<1>3. /\ job' \in [Workers -> JobType]
      /\ job'[p] = r
      /\ \A q \in Workers \ {p} : job'[q] = job[q]
  BY <1>1, <1>2, JobFrame DEF IInv
<1>4. \A u \in Users : Pending(u) => Pending(u)'
  BY <1>1, <1>2, <1>3, GroupAssumption DEF IInv, Pending, PhaseInv, LockInv, TypeOK
<1>5. TypeOK'
  BY <1>1, <1>2, <1>3, GroupAssumption, IdleType DEF IInv, TypeOK
<1>6. PhaseInv' /\ LockInv' /\ RowInv'
  BY <1>1, <1>2, <1>3, IdleType
     DEF IInv, PhaseInv, Created, LockInv, TypeOK, RowInv
<1>7. PutInv' /\ ReachInv'
  BY <1>1, <1>2, <1>3, <1>4, IdleType
     DEF IInv, PutInv, Normal, TypeOK, ReachInv, RowInv, JobType
<1>8. MemFollowsDb' /\ NoMemberForgotten' /\ MembersAreReached'
  BY <1>1, <1>2, <1>3, <1>4, IdleType
     DEF IInv, MemFollowsDb, NoMemberForgotten, Normal, LockInv,
         MembersAreReached, RowInv, TypeOK, JobType
<1> QED  BY <1>5, <1>6, <1>7, <1>8 DEF IInv

\* The send goes on to the conversation.
LEMMA NumberAndSendKeeps ==
  ASSUME IInv, NEW p \in Workers, NumberAndSend(p) PROVE IInv'
<1> DEFINE r == Idle
<1>1. /\ r \in JobType
      /\ r = Idle
  BY IdleType
<1>2. /\ job' = [job EXCEPT ![p] = r]
      /\ job[p].pc = "number"
      /\ UNCHANGED <<db, mem, lock, lost>>
  BY DEF IInv, TypeOK, NumberAndSend, Returns
<1> HIDE DEF r
<1>3. /\ job' \in [Workers -> JobType]
      /\ job'[p] = r
      /\ \A q \in Workers \ {p} : job'[q] = job[q]
  BY <1>1, <1>2, JobFrame DEF IInv
<1>4. \A u \in Users : Pending(u) => Pending(u)'
  BY <1>1, <1>2, <1>3, GroupAssumption DEF IInv, Pending, PhaseInv, LockInv, TypeOK
<1>5. TypeOK'
  BY <1>1, <1>2, <1>3, GroupAssumption, IdleType DEF IInv, TypeOK
<1>6. PhaseInv' /\ LockInv' /\ RowInv'
  BY <1>1, <1>2, <1>3, IdleType
     DEF IInv, PhaseInv, Created, LockInv, TypeOK, RowInv
<1>7. PutInv' /\ ReachInv'
  BY <1>1, <1>2, <1>3, <1>4, IdleType
     DEF IInv, PutInv, Normal, TypeOK, ReachInv, RowInv, JobType
<1>8. MemFollowsDb' /\ NoMemberForgotten' /\ MembersAreReached'
  BY <1>1, <1>2, <1>3, <1>4, IdleType
     DEF IInv, MemFollowsDb, NoMemberForgotten, Normal, LockInv,
         MembersAreReached, RowInv, TypeOK, JobType
<1> QED  BY <1>5, <1>6, <1>7, <1>8 DEF IInv

\* The members that are due are in memory, if the group is, and in what is about to
\* be put there.
LEMMA StartSendKeeps ==
  ASSUME IInv, NEW p \in Workers, NEW s \in Users, StartSend(p, s) PROVE IInv'
<1> DEFINE r == [Idle EXCEPT !.pc = "load", !.op = "send", !.by = s,
                            !.due = {u \in Normal \ lost : ~Pending(u)}]
<1>1. /\ r \in JobType
      /\ r.pc = "load" /\ r.op = "send" /\ r.by = s /\ r.who = {} /\ ~r.old.ok
      /\ r.due = {u \in Normal \ lost : ~Pending(u)}
  BY IdleType DEF JobType, Idle, NoMebs, NoInfo, InfoType, MebStates, Normal
<1>2. /\ job' = [job EXCEPT ![p] = r]
      /\ job[p].pc = "idle" /\ Created
      /\ UNCHANGED <<db, mem, lock, lost>>
  BY DEF IInv, TypeOK, StartSend
<1> HIDE DEF r
<1>3. /\ job' \in [Workers -> JobType]
      /\ job'[p] = r
      /\ \A q \in Workers \ {p} : job'[q] = job[q]
  BY <1>1, <1>2, JobFrame DEF IInv
<1>4. \A u \in Users : Pending(u) => Pending(u)'
  BY <1>1, <1>2, <1>3, GroupAssumption DEF IInv, Pending, PhaseInv, LockInv, TypeOK
<1>5. TypeOK'
  BY <1>1, <1>2, <1>3, GroupAssumption DEF IInv, TypeOK
<1>6. PhaseInv' /\ LockInv' /\ RowInv'
  BY <1>1, <1>2, <1>3 DEF IInv, PhaseInv, Created, LockInv, TypeOK, RowInv, Normal
<1>7. PutInv' /\ ReachInv'
  BY <1>1, <1>2, <1>3, <1>4
     DEF IInv, PutInv, Normal, TypeOK, ReachInv, RowInv, JobType,
         NoMemberForgotten
<1>8. MemFollowsDb' /\ NoMemberForgotten' /\ MembersAreReached'
  BY <1>1, <1>2, <1>3, <1>4
     DEF IInv, MemFollowsDb, NoMemberForgotten, Normal, LockInv,
         MembersAreReached, RowInv, TypeOK, JobType
<1> QED  BY <1>5, <1>6, <1>7, <1>8 DEF IInv

\* Nobody is taken yet and everybody but the sender is left.
LEMMA LookKeeps ==
  ASSUME IInv, NEW p \in Workers, Look(p) PROVE IInv'
<1> DEFINE r == [job[p] EXCEPT
       !.pc = IF Info(p).state[job[p].by] = "none" THEN "number" ELSE "visit",
       !.seen = Info(p).state[job[p].by],
       !.left = IF Info(p).state[job[p].by] = "none" THEN {} ELSE Users \ {job[p].by}]
<1>0. Info(p).state[job[p].by] \in MebStates
  <2>1. job[p].by \in Users
    BY DEF IInv, PhaseInv, Look
  <2>2. Info(p) \in InfoType
    BY DEF IInv, TypeOK, JobType, Info
  <2> QED  BY <2>1, <2>2 DEF InfoType
<1>1. /\ r \in JobType
      /\ r.pc \in {"number", "visit"}
      /\ r.pc = "number" => r.seen = "none"
      /\ r.pc = "visit" => r.left = Users \ {job[p].by}
      /\ r.op = job[p].op /\ r.who = job[p].who /\ r.due = job[p].due
      /\ r.old = job[p].old /\ r.by = job[p].by
  BY <1>0, JobOf, ZenonT(60) DEF IInv, JobType
<1>2. /\ job' = [job EXCEPT ![p] = r]
      /\ job[p].pc = "look"
      /\ UNCHANGED <<db, mem, lock, lost>>
  BY DEF IInv, TypeOK, Look
<1> HIDE DEF r
<1>3. /\ job' \in [Workers -> JobType]
      /\ job'[p] = r
      /\ \A q \in Workers \ {p} : job'[q] = job[q]
  BY <1>1, <1>2, JobFrame DEF IInv
<1>4. \A u \in Users : Pending(u) => Pending(u)'
  BY <1>0, <1>1, <1>2, <1>3, GroupAssumption
     DEF IInv, Pending, PhaseInv, LockInv, TypeOK
<1>5. TypeOK'
  BY <1>0, <1>1, <1>2, <1>3, GroupAssumption DEF IInv, TypeOK
<1>6. PhaseInv' /\ LockInv' /\ RowInv'
  BY <1>0, <1>1, <1>2, <1>3 DEF IInv, PhaseInv, Created, LockInv, TypeOK, RowInv
<1>7. PutInv' /\ ReachInv'
  BY <1>0, <1>1, <1>2, <1>3, <1>4
     DEF IInv, PutInv, Normal, TypeOK, ReachInv, RowInv, JobType
<1>8. MemFollowsDb' /\ NoMemberForgotten' /\ MembersAreReached'
  BY <1>0, <1>1, <1>2, <1>3, <1>4
     DEF IInv, MemFollowsDb, NoMemberForgotten, Normal, LockInv,
         MembersAreReached, RowInv, TypeOK, JobType
<1> QED  BY <1>5, <1>6, <1>7, <1>8 DEF IInv

\* A member that is due is normal in the GroupInfo, so that the visit takes it.
LEMMA VisitKeeps ==
  ASSUME IInv, NEW p \in Workers, NEW u \in Users, Visit(p, u) PROVE IInv'
<1> DEFINE r == [job[p] EXCEPT
       !.left = @ \ {u},
       !.to = IF Info(p).state[u] = "normal" THEN @ \cup {u} ELSE @]
<1>1. /\ r \in JobType
      /\ r.left = job[p].left \ {u}
      /\ r.to = IF Info(p).state[u] = "normal" THEN job[p].to \cup {u}
                                              ELSE job[p].to
      /\ r.pc = job[p].pc /\ r.op = job[p].op /\ r.who = job[p].who
      /\ r.due = job[p].due /\ r.old = job[p].old /\ r.by = job[p].by
  BY JobOf, ZenonT(60) DEF IInv, JobType
<1>2. /\ job' = [job EXCEPT ![p] = r]
      /\ job[p].pc = "visit"
      /\ UNCHANGED <<db, mem, lock, lost>>
  BY DEF IInv, TypeOK, Visit
<1> HIDE DEF r
<1>3. /\ job' \in [Workers -> JobType]
      /\ job'[p] = r
      /\ \A q \in Workers \ {p} : job'[q] = job[q]
  BY <1>1, <1>2, JobFrame DEF IInv
<1>4. \A v \in Users : Pending(v) => Pending(v)'
  BY <1>1, <1>2, <1>3, GroupAssumption DEF IInv, Pending, PhaseInv, LockInv, TypeOK
<1>5. TypeOK'
  BY <1>1, <1>2, <1>3, GroupAssumption DEF IInv, TypeOK
<1>6. PhaseInv' /\ LockInv' /\ RowInv'
  BY <1>1, <1>2, <1>3 DEF IInv, PhaseInv, Created, LockInv, TypeOK, RowInv
<1>7. PutInv' /\ ReachInv'
  BY <1>1, <1>2, <1>3, <1>4
     DEF IInv, PutInv, Normal, TypeOK, ReachInv, RowInv, JobType, Info, LockInv
<1>8. MemFollowsDb' /\ NoMemberForgotten' /\ MembersAreReached'
  BY <1>1, <1>2, <1>3, <1>4
     DEF IInv, MemFollowsDb, NoMemberForgotten, Normal, LockInv,
         MembersAreReached, RowInv, TypeOK, JobType
<1> QED  BY <1>5, <1>6, <1>7, <1>8 DEF IInv

\* With nobody left all that are due are taken.
LEMMA CanSendKeeps ==
  ASSUME IInv, NEW p \in Workers, CanSend(p) PROVE IInv'
<1> DEFINE r == IF job'[p].pc = "number" THEN [job[p] EXCEPT !.pc = "number"] ELSE Idle
<1>1. /\ r \in JobType
      /\ \/ r = Idle
         \/ /\ r.pc = "number" /\ r.op = job[p].op /\ r.who = job[p].who
            /\ r.due = job[p].due /\ r.to = job[p].to /\ r.by = job[p].by
  BY IdleType, JobOf DEF IInv, JobType
<1>2. /\ job' = [job EXCEPT ![p] = r]
      /\ job[p].pc = "visit" /\ job[p].left = {}
      /\ UNCHANGED <<db, mem, lock, lost>>
  BY DEF IInv, TypeOK, CanSend, Returns, GoTo, Idle, JobType
<1> HIDE DEF r
<1>3. /\ job' \in [Workers -> JobType]
      /\ job'[p] = r
      /\ \A q \in Workers \ {p} : job'[q] = job[q]
  BY <1>1, <1>2, JobFrame DEF IInv
<1>4. \A u \in Users : Pending(u) => Pending(u)'
  BY <1>1, <1>2, <1>3, GroupAssumption DEF IInv, Pending, PhaseInv, LockInv, TypeOK
<1>5. TypeOK'
  BY <1>1, <1>2, <1>3, GroupAssumption, IdleType DEF IInv, TypeOK
<1>6. PhaseInv' /\ LockInv' /\ RowInv'
  BY <1>1, <1>2, <1>3, IdleType
     DEF IInv, PhaseInv, Created, LockInv, TypeOK, RowInv
<1>7. PutInv' /\ ReachInv'
  BY <1>1, <1>2, <1>3, <1>4, IdleType
     DEF IInv, PutInv, Normal, TypeOK, ReachInv, RowInv, JobType
<1>8. MemFollowsDb' /\ NoMemberForgotten' /\ MembersAreReached'
  BY <1>1, <1>2, <1>3, <1>4, IdleType
     DEF IInv, MemFollowsDb, NoMemberForgotten, Normal, LockInv,
         MembersAreReached, RowInv, TypeOK, JobType, ReachInv
<1> QED  BY <1>5, <1>6, <1>7, <1>8 DEF IInv

\* The rows appear while every other handler is idle.
LEMMA CreateGroupChatKeeps ==
  ASSUME IInv, NEW p \in Workers, CreateGroupChat(p) PROVE IInv'
<1> DEFINE r == [job[p] EXCEPT !.pc = "hmset"]
<1>0. job[p].op = "create"
  BY DEF IInv, PhaseInv, CreateGroupChat
<1>1. /\ r \in JobType
      /\ r.pc = "hmset" /\ r.op = "create"
      /\ r.due = job[p].due /\ r.by = job[p].by
  BY <1>0, JobOf DEF IInv, JobType
<1>2. /\ job' = [job EXCEPT ![p] = r]
      /\ job[p].pc = "found"
      /\ \A u \in Users : db'[u] = IF u \in Founders THEN "normal" ELSE "none"
      /\ db' \in [Users -> MebStates]
      /\ UNCHANGED <<mem, lock, lost>>
      /\ \A u \in Users : db[u] = "none"
      /\ \A q \in Workers \ {p} : job[q].pc = "idle"
      /\ ~mem.ok
  BY
     DEF IInv, TypeOK, CreateGroupChat, GoTo, OnlyNormal, MebStates, PhaseInv,
         LockInv, Created
<1> HIDE DEF r
<1>3. /\ job' \in [Workers -> JobType]
      /\ job'[p] = r
      /\ \A q \in Workers \ {p} : job'[q] = job[q]
  BY <1>1, <1>2, JobFrame DEF IInv
<1>4. \A u \in Users : Pending(u) => Pending(u)'
  BY <1>0, <1>1, <1>2, <1>3, GroupAssumption
     DEF IInv, Pending, PhaseInv, LockInv, TypeOK
<1>5. TypeOK'
  BY <1>0, <1>1, <1>2, <1>3, GroupAssumption DEF IInv, TypeOK
<1>6. PhaseInv' /\ LockInv' /\ RowInv'
  BY <1>0, <1>1, <1>2, <1>3, GroupAssumption
     DEF IInv, PhaseInv, Created, RowInv, ReachInv, LockInv, TypeOK, JobType
<1>7. PutInv' /\ ReachInv'
  BY <1>0, <1>1, <1>2, <1>3, <1>4
     DEF IInv, PutInv, Normal, TypeOK, ReachInv, RowInv, JobType
<1>8. MemFollowsDb' /\ NoMemberForgotten' /\ MembersAreReached'
  BY <1>0, <1>1, <1>2, <1>3, <1>4
     DEF IInv, MemFollowsDb, TypeOK, InfoType, NoMemberForgotten, Normal,
         LockInv, MembersAreReached, RowInv, JobType
<1> QED  BY <1>5, <1>6, <1>7, <1>8 DEF IInv

\* The rows may have appeared, while every other handler was idle.
LEMMA CreateGroupChatFailsKeeps ==
  ASSUME IInv, NEW p \in Workers, CreateGroupChatFails(p) PROVE IInv'
<1> DEFINE r == Idle
<1>1. /\ r \in JobType
      /\ r = Idle
  BY IdleType
<1>2. /\ job' = [job EXCEPT ![p] = r]
      /\ job[p].pc \in {"found", "hmset"}
      /\ UNCHANGED <<mem, lock, lost>>
      /\ db' \in [Users -> MebStates]
      /\ Created => Created'
      /\ \A u \in Users : db[u] # "none" => db'[u] = db[u] \/ db'[u] = "kicked"
      /\ \A u \in Users : db[u] = "kicked" => db'[u] = "kicked"
      /\ \/ db' = db
         \/ /\ \A q \in Workers \ {p} : job[q].pc = "idle"
            /\ ~mem.ok
  BY
     DEF IInv, TypeOK, CreateGroupChatFails, Returns, OnlyNormal, MebStates,
         PhaseInv, LockInv, Created
<1> HIDE DEF r
<1>3. /\ job' \in [Workers -> JobType]
      /\ job'[p] = r
      /\ \A q \in Workers \ {p} : job'[q] = job[q]
  BY <1>1, <1>2, JobFrame DEF IInv
<1>4. \A u \in Users : Pending(u) => Pending(u)'
  BY <1>1, <1>2, <1>3, GroupAssumption DEF IInv, Pending, PhaseInv, LockInv, TypeOK
<1>5. TypeOK'
  BY <1>1, <1>2, <1>3, GroupAssumption, IdleType DEF IInv, TypeOK
<1>6. PhaseInv' /\ LockInv' /\ RowInv'
  BY <1>1, <1>2, <1>3, IdleType, GroupAssumption
     DEF IInv, PhaseInv, Created, LockInv, TypeOK, RowInv, JobType
<1>7. PutInv' /\ ReachInv'
  BY <1>1, <1>2, <1>3, <1>4, IdleType
     DEF IInv, PutInv, Normal, TypeOK, ReachInv, RowInv, JobType
<1>8. MemFollowsDb' /\ NoMemberForgotten' /\ MembersAreReached'
  BY <1>1, <1>2, <1>3, <1>4, IdleType
     DEF IInv, MemFollowsDb, TypeOK, InfoType, NoMemberForgotten, Normal,
         LockInv, MembersAreReached, RowInv, JobType
<1> QED  BY <1>5, <1>6, <1>7, <1>8 DEF IInv

\* What the transaction of an addition or a removal does to the rows.
LEMMA RowsAfterCommit ==
  ASSUME IInv, NEW p \in Workers, job[p].pc = "commit"
  PROVE  /\ RowsAfter(p) \in [Users -> MebStates]
         /\ \A u \in Users : db[u] # "none" => RowsAfter(p)[u] \in {db[u], "kicked"}
         /\ \A u \in job[p].who : IF job[p].op = "add" THEN RowsAfter(p)[u] # "none"
                                      ELSE RowsAfter(p)[u] = "kicked"
         /\ \A u \in Users : RowsAfter(p)[u] = "normal" =>
              db[u] = "normal" \/ (job[p].op = "add" /\ u \in job[p].who)
<1>1. job[p].op \in {"add", "remove"} /\ job[p].who \subseteq Users
  BY DEF IInv, TypeOK, JobType, PhaseInv
<1>2. db \in [Users -> MebStates]
  BY DEF IInv, TypeOK
<1> QED  BY <1>1, <1>2 DEF RowsAfter, MebStates

\* A new member is pending from its commit on, and a removed one kicked.
LEMMA CommitKeeps ==
  ASSUME IInv, NEW p \in Workers, Commit(p) PROVE IInv'
<1> DEFINE r == [job[p] EXCEPT !.pc = IF job[p].op = "add" THEN "load" ELSE "drop"]
<1>1. /\ r \in JobType
      /\ r.pc = IF job[p].op = "add" THEN "load" ELSE "drop"
      /\ r.op = job[p].op /\ r.who = job[p].who /\ r.due = job[p].due
      /\ r.old = job[p].old /\ r.by = job[p].by
  BY JobOf DEF IInv, JobType
<1>2. /\ job' = [job EXCEPT ![p] = r]
      /\ job[p].pc = "commit" /\ Created
      /\ db' \in [Users -> MebStates]
      /\ Created => Created'
      /\ \A u \in Users : db[u] # "none" => db'[u] = db[u] \/ db'[u] = "kicked"
      /\ \A u \in Users : db[u] = "kicked" => db'[u] = "kicked"
      /\ job[p].op \in {"add", "remove"}
      /\ \A u \in job[p].who : IF job[p].op = "add" THEN db'[u] # "none"
                                                  ELSE db'[u] = "kicked"
      /\ \A u \in Users : db'[u] = "normal" =>
           db[u] = "normal" \/ (job[p].op = "add" /\ u \in job[p].who)
      /\ UNCHANGED <<mem, lock, lost>>
  BY RowsAfterCommit DEF IInv, TypeOK, Commit, GoTo, PhaseInv, Created
<1> HIDE DEF r
<1>3. /\ job' \in [Workers -> JobType]
      /\ job'[p] = r
      /\ \A q \in Workers \ {p} : job'[q] = job[q]
  BY <1>1, <1>2, JobFrame DEF IInv
<1>4. \A u \in Users : /\ Pending(u) => Pending(u)'
                       /\ job[p].op = "add" /\ u \in job[p].who => Pending(u)'
  BY <1>1, <1>2, <1>3, GroupAssumption DEF IInv, Pending, PhaseInv, LockInv, TypeOK
<1>5. TypeOK'
  BY <1>1, <1>2, <1>3, GroupAssumption DEF IInv, TypeOK
<1>6. PhaseInv' /\ LockInv' /\ RowInv'
  BY <1>1, <1>2, <1>3, GroupAssumption
     DEF IInv, PhaseInv, Created, LockInv, TypeOK, RowInv, JobType
<1>7. PutInv' /\ ReachInv'
  BY <1>1, <1>2, <1>3, <1>4
     DEF IInv, PutInv, Normal, TypeOK, ReachInv, RowInv, JobType
<1>8. MemFollowsDb' /\ NoMemberForgotten' /\ MembersAreReached'
  BY <1>1, <1>2, <1>3, <1>4
     DEF IInv, MemFollowsDb, TypeOK, InfoType, NoMemberForgotten, Normal,
         LockInv, MembersAreReached, RowInv, JobType
<1> QED  BY <1>5, <1>6, <1>7, <1>8 DEF IInv

\* A member that was added after all is lost to memory, as the history records.
LEMMA CommitFailsKeeps ==
  ASSUME IInv, NEW p \in Workers, CommitFails(p) PROVE IInv'
<1> DEFINE r == Idle
<1>1. /\ r \in JobType
      /\ r = Idle
  BY IdleType
<1>2. /\ job' = [job EXCEPT ![p] = r]
      /\ job[p].pc = "commit" /\ Created
      /\ db' \in [Users -> MebStates]
      /\ Created => Created'
      /\ \A u \in Users : db[u] # "none" => db'[u] = db[u] \/ db'[u] = "kicked"
      /\ \A u \in Users : db[u] = "kicked" => db'[u] = "kicked"
      /\ lost \subseteq lost' /\ lost' \in SUBSET Users
      /\ \A u \in Users : db'[u] = "normal" => db[u] = "normal" \/ u \in lost'
      /\ UNCHANGED <<mem, lock>>
  BY RowsAfterCommit DEF IInv, TypeOK, CommitFails, Returns, PhaseInv, Created
<1> HIDE DEF r
<1>3. /\ job' \in [Workers -> JobType]
      /\ job'[p] = r
      /\ \A q \in Workers \ {p} : job'[q] = job[q]
  BY <1>1, <1>2, JobFrame DEF IInv
<1>4. \A u \in Users : Pending(u) => Pending(u)'
  BY <1>1, <1>2, <1>3, GroupAssumption DEF IInv, Pending, PhaseInv, LockInv, TypeOK
<1>5. TypeOK'
  BY <1>1, <1>2, <1>3, GroupAssumption, IdleType DEF IInv, TypeOK
<1>6. PhaseInv' /\ LockInv' /\ RowInv'
  BY <1>1, <1>2, <1>3, IdleType, GroupAssumption
     DEF IInv, PhaseInv, Created, LockInv, TypeOK, RowInv, JobType
<1>7. PutInv' /\ ReachInv'
  BY <1>1, <1>2, <1>3, <1>4, IdleType
     DEF IInv, PutInv, Normal, TypeOK, ReachInv, RowInv, JobType
<1>8. MemFollowsDb' /\ NoMemberForgotten' /\ MembersAreReached'
  BY <1>1, <1>2, <1>3, <1>4, IdleType
     DEF IInv, MemFollowsDb, TypeOK, InfoType, NoMemberForgotten, Normal,
         LockInv, MembersAreReached, RowInv, JobType
<1> QED  BY <1>5, <1>6, <1>7, <1>8 DEF IInv

\* The founders replace what was in memory; a send under way goes on with what was
\* there, which had all that are due to it.
LEMMA OnGroupCreatedKeeps ==
  ASSUME IInv, NEW p \in Workers, OnGroupCreated(p) PROVE IInv'
<1>1. /\ job[p].pc = "created" /\ lock = NoWorker /\ Created
      /\ mem'.ok
      /\ \A u \in Users : mem'.state[u] = IF u \in Founders THEN "normal" ELSE "none"
      /\ \A u \in Founders : db[u] # "none"
      /\ lost' = (lost \cup Normal) \ Founders
      /\ UNCHANGED <<db, lock>>
  BY DEF IInv, OnGroupCreated, OnlyNormal, PhaseInv, RowInv
<1>2. mem' \in InfoType
  BY DEF OnGroupCreated, OnlyNormal, InfoType, MebStates
<1>3. \A q \in Workers : job[q].pc \notin {"find", "put"}
  BY <1>1, GroupAssumption DEF IInv, TypeOK
<1>4. job'[p] = Idle
  BY DEF IInv, TypeOK, OnGroupCreated
<1>5. ASSUME NEW q \in Workers \ {p}
      PROVE  /\ job'[q] \in JobType
             /\ job'[q].pc = job[q].pc /\ job'[q].op = job[q].op
             /\ job'[q].by = job[q].by /\ job'[q].who = job[q].who
             /\ job'[q].left = job[q].left /\ job'[q].to = job[q].to
             /\ job'[q].seen = job[q].seen
             /\ job'[q].due = job[q].due \cap Founders
             /\ job'[q].old = IF job[q].pc \in {"look", "visit"} THEN mem
                                                              ELSE job[q].old
  <2> DEFINE o == IF job[q].pc \in {"look", "visit"} THEN mem ELSE job[q].old
             d == job[q].due \cap Founders
  <2>1. job[q] \in JobType /\ o \in InfoType /\ d \in SUBSET Users
    BY DEF IInv, TypeOK, JobType
  <2>2. job'[q] = [job[q] EXCEPT !.old = o, !.due = d]
    BY DEF OnGroupCreated
  <2> HIDE DEF o, d
  <2>3. job'[q] = [pc |-> job[q].pc, op |-> job[q].op, by |-> job[q].by,
                   who |-> job[q].who, snap |-> job[q].snap, old |-> o,
                   left |-> job[q].left, to |-> job[q].to, seen |-> job[q].seen,
                   due |-> d]
    BY <2>1, <2>2 DEF JobType
  <2> QED  BY <2>1, <2>3 DEF JobType, o, d
<1>6. TypeOK'
  <2>1. job' \in [Workers -> JobType]
    BY <1>4, <1>5, IdleType DEF OnGroupCreated
  <2> QED  BY <2>1, <1>1, <1>2, <1>3, <1>4, <1>5, IdleType, GroupAssumption
           DEF IInv, TypeOK, Normal
<1>7. PhaseInv'
  BY <1>1, <1>4, <1>5, IdleType DEF IInv, PhaseInv, Created
<1>8. LockInv'
  BY <1>1, <1>4, <1>5, IdleType DEF IInv, LockInv, Created
<1>9. RowInv'
  BY <1>1, <1>3, <1>4, <1>5, IdleType DEF IInv, RowInv
<1>10. PutInv'
  BY <1>3, <1>4, <1>5, IdleType DEF PutInv
<1>11. ReachInv'
  <2>1. \A q \in Workers : \A u \in job'[q].due : mem'.state[u] = "normal"
    BY <1>1, <1>4, <1>5, IdleType, GroupAssumption
  <2>2. \A q \in Workers : job'[q].pc \in {"look", "visit"} =>
          \A u \in job'[q].due \cap Normal : job'[q].old.state[u] = "normal"
    BY <1>4, <1>5, IdleType DEF IInv, ReachInv, LockInv
  <2> QED  BY <2>1, <2>2, <1>1, <1>3, <1>4, <1>5, IdleType
           DEF IInv, ReachInv, Normal
<1>12. MemFollowsDb'
  BY <1>1 DEF MemFollowsDb
<1>13. NoMemberForgotten'
  BY <1>1 DEF NoMemberForgotten, Normal
<1>14. MembersAreReached'
  BY <1>1, <1>4, <1>5, IdleType DEF IInv, MembersAreReached, Normal
<1> QED  BY <1>6, <1>7, <1>8, <1>9, <1>10, <1>11, <1>12, <1>13, <1>14 DEF IInv

\* Memory and handlers are gone, so is the history; the rows stay.
LEMMA CrashKeeps == IInv /\ Crash => IInv'
<1> SUFFICES ASSUME IInv, Crash PROVE IInv'
  OBVIOUS
<1>1. /\ \A p \in Workers : job'[p] = Idle
      /\ job' \in [Workers -> JobType]
      /\ lock' = NoWorker /\ lost' = {} /\ db' = db
      /\ mem' \in InfoType /\ ~mem'.ok
      /\ \A u \in Users : mem'.state[u] = "none"
  BY IdleType DEF Crash, NoInfo, NoMebs, InfoType, MebStates
<1>2. TypeOK'
  BY <1>1, IdleType, GroupAssumption DEF IInv, TypeOK
<1>3. PhaseInv' /\ LockInv' /\ RowInv' /\ PutInv' /\ ReachInv'
  BY <1>1, IdleType DEF PhaseInv, LockInv, RowInv, PutInv, ReachInv
<1>4. MemFollowsDb' /\ NoMemberForgotten' /\ MembersAreReached'
  BY <1>1, IdleType DEF MemFollowsDb, NoMemberForgotten, MembersAreReached
<1> QED  BY <1>2, <1>3, <1>4 DEF IInv

\* A step that changes no variable.
LEMMA StutterKeeps == IInv /\ UNCHANGED vars => IInv'
<1> SUFFICES ASSUME IInv, UNCHANGED vars PROVE IInv'
  OBVIOUS
<1>1. db' = db /\ mem' = mem /\ lock' = lock /\ job' = job /\ lost' = lost
  BY DEF vars
<1>2. TypeOK' /\ PhaseInv' /\ LockInv' /\ RowInv'
  BY <1>1 DEF IInv, TypeOK, PhaseInv, LockInv, RowInv, Created
<1>3. PutInv' /\ ReachInv'
  BY <1>1 DEF IInv, PutInv, ReachInv, Normal, Pending
<1>4. MemFollowsDb' /\ NoMemberForgotten' /\ MembersAreReached'
  BY <1>1 DEF IInv, MemFollowsDb, NoMemberForgotten, MembersAreReached, Normal, Pending
<1> QED  BY <1>2, <1>3, <1>4 DEF IInv

-----------------------------------------------------------------------------
(* The invariant, and what it gives *)

\* A request that comes in.
LEMMA StartKeeps ==
  ASSUME IInv, NEW p \in Workers, Start(p) PROVE IInv'
<1>1. CASE StartGroupChat(p)  BY <1>1, StartGroupChatKeeps
<1>2. CASE StartList(p)  BY <1>2, StartListKeeps
<1>3. CASE \E s \in Users : StartSend(p, s)  BY <1>3, StartSendKeeps
<1>4. CASE \E u \in Users, mebs \in Lists : BeginAdd(p, u, mebs)
  BY <1>4, BeginAddKeeps
<1>5. CASE \E u \in Users, mebs \in Lists : BeginRemove(p, u, mebs)
  BY <1>5, BeginRemoveKeeps
<1> QED  BY <1>1, <1>2, <1>3, <1>4, <1>5 DEF Start

\* A step of a handler.
LEMMA HandleStepKeeps ==
  ASSUME IInv, NEW p \in Workers, HandleStep(p) PROVE IInv'
<1>1. CASE CreateGroupChat(p)  BY <1>1, CreateGroupChatKeeps
<1>2. CASE CreateGroupChatFails(p)  BY <1>2, CreateGroupChatFailsKeeps
<1>3. CASE CreateGroupTree(p)  BY <1>3, CreateGroupTreeKeeps
<1>4. CASE OnGroupCreated(p)  BY <1>4, OnGroupCreatedKeeps
<1>5. CASE Commit(p)  BY <1>5, CommitKeeps
<1>6. CASE CommitFails(p)  BY <1>6, CommitFailsKeeps
<1>7. CASE Load(p)  BY <1>7, LoadKeeps
<1>8. CASE FindGroupItems(p)  BY <1>8, FindGroupItemsKeeps
<1>9. CASE FindFails(p)  BY <1>9, FindFailsKeeps
<1>10. CASE PutInfo(p)  BY <1>10, PutInfoKeeps
<1>11. CASE OnGroupMebAdded(p)  BY <1>11, OnGroupMebAddedKeeps
<1>12. CASE OnGroupMebRemoved(p)  BY <1>12, OnGroupMebRemovedKeeps
<1>13. CASE GetGroupMebUids(p)  BY <1>13, GetGroupMebUidsKeeps
<1>14. CASE Look(p)  BY <1>14, LookKeeps
<1>15. CASE \E u \in Users : Visit(p, u)  BY <1>15, VisitKeeps
<1>16. CASE CanSend(p)  BY <1>16, CanSendKeeps
<1>17. CASE NumberAndSend(p)  BY <1>17, NumberAndSendKeeps
<1> QED
  BY <1>1, <1>2, <1>3, <1>4, <1>5, <1>6, <1>7, <1>8, <1>9,
     <1>10, <1>11, <1>12, <1>13, <1>14, <1>15, <1>16, <1>17
     DEF HandleStep

\* IInv is inductive.
LEMMA StepKeeps == IInv /\ [Next]_vars => IInv'
BY StartKeeps, HandleStepKeeps, CrashKeeps, StutterKeeps DEF Next

\* IInv holds in every reachable state.
THEOREM Inductive == Spec => []IInv
BY InitKeeps, StepKeeps, PTL DEF Spec

\* The state has its type in every reachable state; in particular the lock over
\* the queries of initGroupInfoLazy is held by a handler between its queries and
\* by nobody else: exclusive, and released on every way out.
THEOREM TypeCorrect == Spec => []TypeOK
<1>1. IInv => TypeOK
  BY DEF IInv
<1> QED  BY <1>1, Inductive, PTL

\* Memory names nobody without a row and kicks nobody whom the rows do not kick,
\* for any number of handlers that commit in one order and reach memory in
\* another, with commits of unknown outcome and crashes in between.
THEOREM RowsFollowed == Spec => []MemFollowsDb
<1>1. IInv => MemFollowsDb
  BY DEF IInv
<1> QED  BY <1>1, Inductive, PTL

\* A loaded group misses a member of the database only while the handler that
\* added it is on its way, or after an event the history variable records: the
\* lazy load, its lock and the late arrival of OnGroupMebAdded lose nobody.
THEOREM NoneForgotten == Spec => []NoMemberForgotten
<1>1. IInv => NoMemberForgotten
  BY DEF IInv
<1> QED  BY <1>1, Inductive, PTL

\* Whatever is added, removed or loaded during its iteration over the members, a
\* send that gets to the numbering has taken every member that was due when it
\* began and still is one.
THEOREM AllReached == Spec => []MembersAreReached
<1>1. IInv => MembersAreReached
  BY DEF IInv
<1> QED  BY <1>1, Inductive, PTL
=============================================================================
