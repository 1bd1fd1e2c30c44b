---------------------------- MODULE ConvManager ----------------------------
(***************************************************************************)
(* One p2p conversation in the conversation manager of the topic server    *)
(* (topicsrv/internal/core/convmgr/conv_manager.go) and in its repository  *)
(* (topicsrv/internal/repostories/convrepo): OnMsgComing/p2pConvHandle in  *)
(* the goroutines of the rpc server (Workers), receiveMqSendAsyncResult in *)
(* a goroutine of its own, OnMsgStored in the consumer of topic.msg_forward *)
(* and ClearUnread in the http server, over the rows in MySQL and the hash *)
(* in Redis.  The process may crash: memory is lost, the stores stay.      *)
(*                                                                         *)
(* A section under the conversation's or a user's segment lock is one step *)
(* unless it calls another process in between; only the creation of a      *)
(* conversation does, and it holds the conversation's lock over its calls. *)
(* A failed call may or may not have had its effect.                       *)
(***************************************************************************)
EXTENDS Integers, SequencesExt

CONSTANTS Users,      \* the members of the conversation: sender and receiver
          Workers,    \* goroutines that run OnMsgComing
          Clearers,   \* goroutines that run ClearUnread
          MaxMsgs,    \* bound on the messages sent
          MaxCrashes, \* bound on the crashes
          NoUser, NoWorker

ASSUME ConvAssumption ==
  /\ MaxMsgs \in Nat
  /\ MaxCrashes \in Nat
  /\ NoUser \notin Users
  /\ NoWorker \notin Workers

VARIABLES
  dbConv,   \* the rows of the conversation are committed in MySQL
  tree,     \* its hash in Redis: exists, msg_seq, browse_seq:uid:*
  conv,     \* convId2items: exists, MsgSeq, LastMsgId, LastMsg
  item,     \* per user the MemberConv: exists, BrowseMsgSeq, UnreadCount
  convLock, \* the worker that holds the segment lock over its calls
  job,      \* per worker: pc and locals of p2pConvHandle
  acks,     \* doneChan: results of PublishAsync in the order of publishing
  rx,       \* receiveMqSendAsyncResult: the result it is applying
  clear,    \* per clearer: ClearUnread between Redis and memory
  sent,     \* the messages nsqd took, delivered at least once
  issued,   \* history: the messages that were given a number
  nextId,   \* sfid.Next
  crashes

stores == <<dbConv, tree, issued>>
memory == <<conv, item, convLock>>
vars == <<stores, memory, job, acks, rx, clear, sent, nextId, crashes>>

Seqs == 0 .. MaxMsgs
Positive(n) == IF n < 0 THEN 0 ELSE n
Larger(m, n) == IF m < n THEN n ELSE m

NoTree == [ok |-> FALSE, seq |-> 0, browse |-> [u \in Users |-> 0]]
FreshTree == [NoTree EXCEPT !.ok = TRUE]
NoConv == [ok |-> FALSE, seq |-> 0, lastId |-> 0, lastMsg |-> 0]
NoItem == [ok |-> FALSE, browse |-> 0, unread |-> 0]
Idle == [pc |-> "idle", s |-> NoUser, id |-> 0, seq |-> 0, left |-> {},
         snap |-> NoTree]
RxIdle == [id |-> 0, seq |-> 0, s |-> NoUser, left |-> {}]
ClearIdle == [u |-> NoUser, seq |-> 0]

ClearType == [u : Users \cup {NoUser}, seq : Seqs]
TreeType == [ok : BOOLEAN, seq : Seqs, browse : [Users -> Seqs]]

\* One type invariant: every variable holds a value of its kind.
TypeOK ==
  /\ dbConv \in BOOLEAN
  /\ tree \in TreeType
  /\ conv \in [ok : BOOLEAN, seq : Seqs, lastId : Seqs, lastMsg : Seqs]
  /\ item \in [Users -> [ok : BOOLEAN, browse : Seqs, unread : Seqs]]
  /\ convLock \in Workers \cup {NoWorker}
  /\ job \in [Workers ->
       [pc : {"idle", "lock", "create", "redis", "tree", "conv", "items", "seq",
              "publish"},
        s : Users \cup {NoUser}, id : Seqs, seq : Seqs, left : SUBSET Users,
        snap : TreeType]]
  /\ acks \in Seq([id : Seqs, seq : Seqs, s : Users, ok : BOOLEAN])
  /\ rx \in [id : Seqs, seq : Seqs, s : Users \cup {NoUser}, left : SUBSET Users]
  /\ clear \in [Clearers -> ClearType]
  /\ sent \subseteq [id : Seqs, seq : Seqs]
  /\ issued \subseteq [id : Seqs, seq : Seqs]
  /\ nextId \in 1 .. MaxMsgs + 1
  /\ crashes \in 0 .. MaxCrashes

Init ==
  /\ dbConv = FALSE
  /\ tree = NoTree
  /\ conv = NoConv
  /\ item = [u \in Users |-> NoItem]
  /\ convLock = NoWorker
  /\ job = [p \in Workers |-> Idle]
  /\ acks = <<>>
  /\ rx = RxIdle
  /\ clear = [c \in Clearers |-> ClearIdle]
  /\ sent = {}
  /\ issued = {}
  /\ nextId = 1
  /\ crashes = 0

-----------------------------------------------------------------------------
(* p2pConvHandle, up to the conversation in memory *)

GoTo(p, pc) == job' = [job EXCEPT ![p].pc = pc]
Returns(p) == job' = [job EXCEPT ![p] = Idle]

\* OnMsgComing: a message id, then the first look for the conversation.
SendStart(p, s) ==
  /\ job[p].pc = "idle"
  /\ nextId <= MaxMsgs
  /\ nextId' = nextId + 1
  /\ job' = [job EXCEPT ![p] = [Idle EXCEPT !.s = s, !.id = nextId,
                                  !.pc = IF conv.ok THEN "seq" ELSE "lock"]]
  /\ UNCHANGED <<stores, memory, acks, rx, clear, sent, crashes>>

\* Mutant of LoadLocked: the rows are not looked for.
LoadLockedBlindly(p) ==
  /\ job[p].pc = "lock"
  /\ convLock = NoWorker
  /\ IF conv.ok
     THEN GoTo(p, "seq") /\ UNCHANGED convLock
     ELSE GoTo(p, "create") /\ convLock' = p
  /\ UNCHANGED <<stores, conv, item, acks, rx, clear, sent, nextId, crashes>>

\* Under the lock: the second look, then FindConvItems.  The rows carry no
\* sequence number, so a conversation found in the database starts at zero.
LoadLocked(p) ==
  /\ job[p].pc = "lock"
  /\ convLock = NoWorker
  /\ IF conv.ok
     THEN GoTo(p, "seq") /\ UNCHANGED <<conv, convLock>>
     ELSE IF dbConv
     THEN /\ conv' = [NoConv EXCEPT !.ok = TRUE]
          /\ GoTo(p, "tree")
          /\ UNCHANGED convLock
     ELSE /\ convLock' = p
          /\ GoTo(p, "create")
          /\ UNCHANGED conv
  /\ UNCHANGED <<stores, item, acks, rx, clear, sent, nextId, crashes>>

LoadFails(p) ==
  /\ job[p].pc = "lock"
  /\ convLock = NoWorker
  /\ ~conv.ok
  /\ Returns(p)
  /\ UNCHANGED <<stores, memory, acks, rx, clear, sent, nextId, crashes>>

\* UsersUnitInfo answers and the transaction of UpsertConv commits.
CreateRows(p) ==
  /\ job[p].pc = "create"
  /\ dbConv' = TRUE
  /\ GoTo(p, "redis")
  /\ UNCHANGED <<tree, issued, memory, acks, rx, clear, sent, nextId, crashes>>

\* Mutant of CreateRowsFails: the error path does not unlock.
CreateRowsFailsLocked(p) ==
  /\ job[p].pc = "create"
  /\ dbConv' \in {dbConv, TRUE}
  /\ Returns(p)
  /\ UNCHANGED <<tree, issued, memory, acks, rx, clear, sent, nextId, crashes>>

\* UsersUnitInfo or the transaction fails; the commit itself may have happened.
CreateRowsFails(p) ==
  /\ job[p].pc = "create"
  /\ dbConv' \in {dbConv, TRUE}
  /\ convLock' = NoWorker
  /\ Returns(p)
  /\ UNCHANGED <<tree, issued, conv, item, acks, rx, clear, sent, nextId, crashes>>

\* The second half of UpsertConv writes the hash, all numbers zero; then the
\* conversation is put in memory and the lock released.
CreateTree(p) ==
  /\ job[p].pc = "redis"
  /\ tree' = FreshTree
  /\ conv' = [NoConv EXCEPT !.ok = TRUE]
  /\ convLock' = NoWorker
  /\ GoTo(p, "tree")
  /\ UNCHANGED <<dbConv, issued, item, acks, rx, clear, sent, nextId, crashes>>

CreateTreeFails(p) ==
  /\ job[p].pc = "redis"
  /\ tree' \in {tree, FreshTree}
  /\ convLock' = NoWorker
  /\ Returns(p)
  /\ UNCHANGED <<dbConv, issued, conv, item, acks, rx, clear, sent, nextId, crashes>>

-----------------------------------------------------------------------------
(* p2pConvHandle, the members' conversations; then the number and the message *)

\* GetConvTreeWithP2p.
ReadTree(p) ==
  /\ job[p].pc = "tree"
  /\ job' = [job EXCEPT ![p].pc = "conv", ![p].snap = tree]
  /\ UNCHANGED <<stores, memory, acks, rx, clear, sent, nextId, crashes>>

ReadTreeFails(p) ==
  /\ job[p].pc = "tree"
  /\ Returns(p)
  /\ UNCHANGED <<stores, memory, acks, rx, clear, sent, nextId, crashes>>

\* Mutant of SyncConv: the number read replaces a larger one.
SyncConvAnyway(p) ==
  /\ job[p].pc = "conv"
  /\ conv' = [conv EXCEPT !.seq = job[p].snap.seq]
  /\ job' = [job EXCEPT ![p].pc = "items", ![p].left = Users]
  /\ UNCHANGED <<stores, item, convLock, acks, rx, clear, sent, nextId, crashes>>

\* The conversation takes the number read unless it is ahead of it already.
SyncConv(p) ==
  /\ job[p].pc = "conv"
  /\ conv' = [conv EXCEPT !.seq = IF @ <= job[p].snap.seq THEN job[p].snap.seq
                                                          ELSE @]
  /\ job' = [job EXCEPT ![p].pc = "items", ![p].left = Users]
  /\ UNCHANGED <<stores, item, convLock, acks, rx, clear, sent, nextId, crashes>>

\* The next member's conversation is created or overwritten with what was read.
SyncItem(p, u) ==
  LET snap == job[p].snap
  IN /\ job[p].pc = "items"
     /\ u \in job[p].left
     /\ item' = [item EXCEPT ![u] =
          [ok |-> TRUE, browse |-> snap.browse[u],
           unread |-> Positive(snap.seq - snap.browse[u])]]
     /\ job' = [job EXCEPT ![p].left = @ \ {u},
                           ![p].pc = IF job[p].left = {u} THEN "seq" ELSE @]
     /\ UNCHANGED <<stores, conv, convLock, acks, rx, clear, sent, nextId, crashes>>

\* Mutant of Numbered: the script does not move the sender's position.
NumberedUnread(p) ==
  /\ tree' = [tree EXCEPT !.ok = TRUE, !.seq = @ + 1]
  /\ issued' = issued \cup {[id |-> job[p].id, seq |-> tree.seq + 1]}

\* The script of ModifyConvTree: the next number, which the sender has read.
Numbered(p) ==
  /\ tree' = [tree EXCEPT !.ok = TRUE, !.seq = @ + 1,
                          !.browse[job[p].s] = tree.seq + 1]
  /\ issued' = issued \cup {[id |-> job[p].id, seq |-> tree.seq + 1]}

ModifyConvTree(p) ==
  /\ job[p].pc = "seq"
  /\ Numbered(p)
  /\ job' = [job EXCEPT ![p].pc = "publish", ![p].seq = tree.seq + 1]
  /\ UNCHANGED <<dbConv, memory, acks, rx, clear, sent, nextId, crashes>>

ModifyConvTreeFails(p) ==
  /\ job[p].pc = "seq"
  /\ Numbered(p) \/ UNCHANGED <<tree, issued>>
  /\ Returns(p)
  /\ UNCHANGED <<dbConv, memory, acks, rx, clear, sent, nextId, crashes>>

\* PublishAsync accepts the message: nsqd may take it or not, and the result may
\* be an error although nsqd took it.
SendMsg(p, taken, ok) ==
  LET j == job[p]
  IN /\ j.pc = "publish"
     /\ ok => taken
     /\ acks' = Append(acks, [id |-> j.id, seq |-> j.seq, s |-> j.s, ok |-> ok])
     /\ sent' = IF taken THEN sent \cup {[id |-> j.id, seq |-> j.seq]} ELSE sent
     /\ Returns(p)
     /\ UNCHANGED <<stores, memory, rx, clear, nextId, crashes>>

\* The receiver is not a member, or PublishAsync fails: the number is used up.
SendMsgFails(p) ==
  /\ job[p].pc = "publish"
  /\ Returns(p)
  /\ UNCHANGED <<stores, memory, acks, rx, clear, sent, nextId, crashes>>

-----------------------------------------------------------------------------
(* receiveMqSendAsyncResult *)

\* Mutant of RxError: the loop never gets past a failed result.
RxErrorStops ==
  /\ rx = RxIdle
  /\ acks # <<>>
  /\ ~Head(acks).ok
  /\ UNCHANGED vars

\* A failure is logged and skipped.
RxError ==
  /\ rx = RxIdle
  /\ acks # <<>>
  /\ ~Head(acks).ok
  /\ acks' = Tail(acks)
  /\ UNCHANGED <<stores, memory, job, rx, clear, sent, nextId, crashes>>

\* A success raises the numbers of the conversation.
RxConv ==
  LET a == Head(acks)
  IN /\ rx = RxIdle
     /\ acks # <<>>
     /\ a.ok
     /\ convLock = NoWorker
     /\ acks' = Tail(acks)
     /\ conv' = IF conv.ok
                THEN [conv EXCEPT !.seq = Larger(@, a.seq),
                                  !.lastId = Larger(@, a.id)]
                ELSE conv
     /\ rx' = [id |-> a.id, seq |-> a.seq, s |-> a.s, left |-> Users]
     /\ UNCHANGED <<stores, item, convLock, job, clear, sent, nextId, crashes>>

\* Mutants of RxItem: the sender's unread count is not cleared; the count of the
\* others may become negative.
RxItemKeepsUnread(u) ==
  /\ u \in rx.left
  /\ u = rx.s => rx.left = {u}
  /\ item' =
       IF ~item[u].ok
       THEN item
       ELSE IF u = rx.s
       THEN [item EXCEPT ![u].browse = Larger(@, rx.seq)]
       ELSE [item EXCEPT ![u].unread = Positive(rx.seq - item[u].browse)]
  /\ rx' = IF rx.left = {u} THEN RxIdle ELSE [rx EXCEPT !.left = @ \ {u}]
  /\ UNCHANGED <<stores, conv, convLock, job, acks, clear, sent, nextId, crashes>>

RxItemNegative(u) ==
  /\ u \in rx.left
  /\ u = rx.s => rx.left = {u}
  /\ item' =
       IF ~item[u].ok
       THEN item
       ELSE IF u = rx.s
       THEN [item EXCEPT ![u].browse = Larger(@, rx.seq), ![u].unread = 0]
       ELSE [item EXCEPT ![u].unread = rx.seq - item[u].browse]
  /\ rx' = IF rx.left = {u} THEN RxIdle ELSE [rx EXCEPT !.left = @ \ {u}]
  /\ UNCHANGED <<stores, conv, convLock, job, acks, clear, sent, nextId, crashes>>

\* Then the members, the sender last: the sender has read the message, of the
\* others the unread count is computed from this result's number.
RxItem(u) ==
  /\ u \in rx.left
  /\ u = rx.s => rx.left = {u}
  /\ item' =
       IF ~item[u].ok
       THEN item
       ELSE IF u = rx.s
       THEN [item EXCEPT ![u].browse = Larger(@, rx.seq), ![u].unread = 0]
       ELSE [item EXCEPT ![u].unread = Positive(rx.seq - item[u].browse)]
  /\ rx' = IF rx.left = {u} THEN RxIdle ELSE [rx EXCEPT !.left = @ \ {u}]
  /\ UNCHANGED <<stores, conv, convLock, job, acks, clear, sent, nextId, crashes>>

-----------------------------------------------------------------------------
(* OnMsgStored and ClearUnread *)

\* The stored message m comes back, late, out of order or again.
OnMsgStored(m) ==
  /\ m \in sent
  /\ convLock = NoWorker
  /\ conv.ok
  /\ m.id >= conv.lastId
  /\ conv' = [conv EXCEPT !.lastId = m.id, !.lastMsg = m.id]
  /\ UNCHANGED <<stores, item, convLock, job, acks, rx, clear, sent, nextId,
                 crashes>>

\* The script of ClearUnread; it fails on a hash that does not exist.
ClearTree(c, u) ==
  /\ clear[c] = ClearIdle
  /\ tree.ok
  /\ tree' = [tree EXCEPT !.browse[u] = tree.seq]
  /\ clear' \in {clear, [clear EXCEPT ![c] = [u |-> u, seq |-> tree.seq]]}
  /\ UNCHANGED <<dbConv, issued, memory, job, acks, rx, sent, nextId, crashes>>

ClearMem(c) ==
  LET u == clear[c].u
  IN /\ u # NoUser
     /\ item' = IF item[u].ok
                THEN [item EXCEPT ![u].browse = clear[c].seq, ![u].unread = 0]
                ELSE item
     /\ clear' = [clear EXCEPT ![c] = ClearIdle]
     /\ UNCHANGED <<stores, conv, convLock, job, acks, rx, sent, nextId, crashes>>

\* The process crashes and starts again with empty maps.
Crash ==
  /\ crashes < MaxCrashes
  /\ crashes' = crashes + 1
  /\ conv' = NoConv
  /\ item' = [u \in Users |-> NoItem]
  /\ convLock' = NoWorker
  /\ job' = [p \in Workers |-> Idle]
  /\ acks' = <<>>
  /\ rx' = RxIdle
  /\ clear' = [c \in Clearers |-> ClearIdle]
  /\ UNCHANGED <<stores, sent, nextId>>

-----------------------------------------------------------------------------
HandleStep(p) ==
  \/ LoadLocked(p) \/ LoadFails(p) \/ CreateRows(p) \/ CreateRowsFails(p)
  \/ CreateTree(p) \/ CreateTreeFails(p) \/ ReadTree(p) \/ ReadTreeFails(p)
  \/ SyncConv(p) \/ (\E u \in Users : SyncItem(p, u))
  \/ ModifyConvTree(p) \/ ModifyConvTreeFails(p)
  \/ (\E taken, ok \in BOOLEAN : SendMsg(p, taken, ok)) \/ SendMsgFails(p)
RxStep == RxError \/ RxConv \/ \E u \in Users : RxItem(u)

Next ==
  \/ \E p \in Workers : HandleStep(p) \/ \E s \in Users : SendStart(p, s)
  \/ RxStep
  \/ \E m \in sent : OnMsgStored(m)
  \/ \E c \in Clearers : ClearMem(c) \/ \E u \in Users : ClearTree(c, u)
  \/ Crash

Spec == Init /\ [][Next]_vars

\* Goroutines are scheduled and calls to other processes end, well or badly (all
\* have a deadline).
Fairness == /\ \A p \in Workers : WF_vars(HandleStep(p))
            /\ WF_vars(RxStep)
FairSpec == Spec /\ Fairness

-----------------------------------------------------------------------------
(* Properties *)

\* The hash in Redis is the log of the conversation: creation after a partial
\* failure or a crash never starts a numbered conversation again, and no
\* message gets a number twice.
Log == INSTANCE ConvLog WITH last <- tree.seq, read <- tree.browse
ImplementsLog == Log!Spec

\* Two messages that reached the message server never share a number.
SentSeqUnique == \A m, n \in sent : m.seq = n.seq => m = n

\* Memory is never ahead of Redis: no member is shown as having read, and no
\* conversation as having, a message that was not numbered.
MemoryNotAhead ==
  /\ conv.seq <= tree.seq
  /\ \A u \in Users : item[u].browse <= tree.browse[u]

\* A member is never shown more unread messages than were numbered after the
\* position it is shown to have read.
NoPhantomUnread ==
  \A u \in Users : item[u].unread <= Positive(tree.seq - item[u].browse)

\* While the process lives, the sequence number, the last message id and the
\* last message of the conversation in memory only grow, in whatever order the
\* load, the results of publishing and the stored messages arrive.
ConvGrowsStep ==
  conv.ok /\ conv'.ok =>
    /\ conv.seq <= conv'.seq
    /\ conv.lastId <= conv'.lastId
    /\ conv.lastMsg <= conv'.lastMsg
ConvGrows == [][ConvGrowsStep]_vars

\* Every OnMsgComing returns: no failure leaves the conversation locked.
SendEnds == \A p \in Workers : job[p].pc = "lock" ~> job[p].pc = "idle"

\* A message whose publishing succeeded is eventually counted in memory, whatever
\* failed before it, unless the process crashes first.
AckedIsCounted ==
  \A n \in Seqs \ {0} :
    (\E i \in 1 .. Len(acks) : acks[i].ok /\ acks[i].seq = n)
      ~> (conv.seq >= n \/ crashes > 0)
=============================================================================
