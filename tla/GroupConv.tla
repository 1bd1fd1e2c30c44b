------------------------------ MODULE GroupConv ------------------------------
(***************************************************************************)
(* Group conversations in the conversation manager of the topic server     *)
(* (topicsrv/internal/core/convmgr/conv_manager.go): a group is created    *)
(* (HandleStartGroupChat, UpsertGroupChatConv) while its members already   *)
(* send into it (groupConvHandle loads what is not in memory), results of  *)
(* publishing are applied, members clear their unread count and ask for    *)
(* their conversations (convList, SyncHotConvList).  The process may       *)
(* crash: memory is lost, the rows and the hashes in Redis stay.           *)
(*                                                                         *)
(* Each user has a wrap, the list and map of the user's conversations.     *)
(* UpsertGroupChatConv looks for the wrap, creates it and adds to it in    *)
(* three locked sections; what it creates replaces the wrap another thread *)
(* may have put there since it looked.  A section under a segment lock is  *)
(* one step.                                                               *)
(***************************************************************************)
EXTENDS Integers, SequencesExt

CONSTANTS Groups,     \* group conversations
          Users,
          Members,    \* per group newMebs: its owner, then those it invites, among
                      \* whom it may be again
          Unknown,    \* users that UsersUnitInfo may leave out of its answer
          Workers,    \* goroutines that run OnMsgComing
          Clearers,   \* goroutines that run ClearUnread
          MaxMsgs,    \* bound: how many messages are sent
          ClearsRead, \* bound: whether a member also clears what it has read
          NoGroup, NoUser, NoWrap

ASSUME GroupConvAssumption ==
  /\ Members \in [Groups -> Seq(Users) \ {<<>>}]
  /\ Unknown \subseteq Users
  /\ MaxMsgs \in Nat
  /\ ClearsRead \in BOOLEAN
  /\ NoGroup \notin Groups
  /\ NoUser \notin Users
  /\ Groups \cap Workers = {}
  /\ NoWrap \notin Groups \cup Workers

VARIABLES
  created,  \* the groups whose creation is committed in MySQL
  rows,     \* t_conv_item: per group the users that have a row
  tree,     \* per group its hash in Redis: msg_seq, browse_seq:uid:*
  conv,     \* convId2items: exists, MsgSeq
  uid2conv, \* uid2convItems: the wrap of each user, named by who created it
  wraps,    \* per user and wrap: ConvItems (ConvId2Item has the same elements)
  item,     \* per user and group the MemberConv of the user's wrap in use
  start,    \* per group: HandleStartGroupChat, pc and locals
  job,      \* per worker: groupConvHandle, pc and locals
  acks,     \* doneChan: results of PublishAsync
  rx,       \* receiveMqSendAsyncResult: the result it is applying
  clear,    \* per clearer: ClearUnread between Redis and memory
  msgs      \* messages sent so far

lists == <<uid2conv, wraps, item>>
stores == <<created, rows, tree>>
threads == <<start, job, acks, rx, clear>>
vars == <<stores, conv, lists, threads, msgs>>

Wraps == Groups \cup Workers
Invited(g) == ToSet(Members[g])
Positive(n) == IF n < 0 THEN 0 ELSE n
Larger(m, n) == IF m < n THEN n ELSE m

NoTree == [seq |-> 0, browse |-> [u \in Users |-> 0]]
NoConv == [ok |-> FALSE, seq |-> 0]
FreshConv == [ok |-> TRUE, seq |-> 0]
FreshItem == [browse |-> 0, unread |-> 0]
NotStarting == [pc |-> "none", left |-> <<>>, u |-> NoUser, w |-> NoWrap]
Idle == [pc |-> "idle", g |-> NoGroup, s |-> NoUser, seq |-> 0, left |-> {},
         u |-> NoUser, w |-> NoWrap, snap |-> NoTree]
RxIdle == [g |-> NoGroup, seq |-> 0, s |-> NoUser, left |-> {}]
ClearIdle == [u |-> NoUser, g |-> NoGroup, seq |-> 0]

TreeType == [seq : Nat, browse : [Users -> Nat]]
ConvType == [ok : BOOLEAN, seq : Nat]
ItemType == [browse : Nat, unread : Nat]
StartType ==
  [pc : {"none", "look", "make", "users", "wrap", "item"},
   left : Seq(Users), u : Users \cup {NoUser}, w : Wraps \cup {NoWrap}]
JobType ==
  [pc : {"idle", "lock", "tree", "conv", "users", "held", "fresh", "seq", "publish"},
   g : Groups \cup {NoGroup}, s : Users \cup {NoUser}, seq : Nat,
   left : SUBSET Users, u : Users \cup {NoUser}, w : Wraps \cup {NoWrap},
   snap : TreeType]
AckType == [g : Groups, seq : Nat, s : Users]
RxType == [g : Groups \cup {NoGroup}, seq : Nat, s : Users \cup {NoUser},
           left : SUBSET Users]
ClearType == [u : Users \cup {NoUser}, g : Groups \cup {NoGroup}, seq : Nat]

\* One type invariant: every variable holds a value of its kind; no unread count
\* is negative.
TypeOK ==
  /\ created \subseteq Groups
  /\ rows \in [Groups -> SUBSET Users]
  /\ tree \in [Groups -> TreeType]
  /\ conv \in [Groups -> ConvType]
  /\ uid2conv \in [Users -> Wraps \cup {NoWrap}]
  /\ wraps \in [Users -> [Wraps -> Seq(Groups)]]
  /\ item \in [Users -> [Groups -> ItemType]]
  /\ start \in [Groups -> StartType]
  /\ job \in [Workers -> JobType]
  /\ acks \in Seq(AckType)
  /\ rx \in RxType
  /\ clear \in [Clearers -> ClearType]
  /\ msgs \in Nat

Init ==
  /\ created = {}
  /\ rows = [g \in Groups |-> {}]
  /\ tree = [g \in Groups |-> NoTree]
  /\ conv = [g \in Groups |-> NoConv]
  /\ uid2conv = [u \in Users |-> NoWrap]
  /\ wraps = [u \in Users |-> [w \in Wraps |-> <<>>]]
  /\ item = [u \in Users |-> [g \in Groups |-> FreshItem]]
  /\ start = [g \in Groups |-> NotStarting]
  /\ job = [p \in Workers |-> Idle]
  /\ acks = <<>>
  /\ rx = RxIdle
  /\ clear = [c \in Clearers |-> ClearIdle]
  /\ msgs = 0

\* One of the entries changes, the others stay.
SetTree(g, t) == tree' = [tree EXCEPT ![g] = t]
SetConv(g, c) == conv' = [conv EXCEPT ![g] = c]
SetItem(u, g, i) == item' = [item EXCEPT ![u][g] = i]
SetStart(g, r) == start' = [start EXCEPT ![g] = r]
SetJob(p, r) == job' = [job EXCEPT ![p] = r]
SetClear(c, r) == clear' = [clear EXCEPT ![c] = r]

-----------------------------------------------------------------------------
(* The conversations of a user *)

InWrap(g, u, w) == g \in ToSet(wraps[u][w])

\* ConvId2Item of the wrap in use has the conversation.
Listed(g, u) == uid2conv[u] # NoWrap /\ InWrap(g, u, uid2conv[u])

\* A new wrap for u, with the conversations of list.
PutWrap(u, w, list) ==
  /\ uid2conv' = [uid2conv EXCEPT ![u] = w]
  /\ wraps' = [wraps EXCEPT ![u][w] = list]

\* What RecentlyConvList answers (convList): the conversations in the wrap in use.
RecentlyConvList(u) ==
  {[g |-> g, seq |-> conv[g].seq, browse |-> item[u][g].browse,
    unread |-> item[u][g].unread] : g \in {h \in Groups : Listed(h, u)}}

\* The rows of a conversation, and those of a user.
FindConvItems(g) == rows[g]
FindUserConvItems(u) == {g \in Groups : u \in rows[g]}

\* GetUserConvTrees, for one conversation.
GetUserConvTree(g, u) == [seq |-> tree[g].seq, browse |-> tree[g].browse[u]]

\* What SyncHotConvList answers: rows, numbers and positions from the stores.
SyncHotConvList(u) ==
  {LET t == GetUserConvTree(g, u)
   IN [g |-> g, seq |-> t.seq, browse |-> t.browse,
       unread |-> Positive(t.seq - t.browse)] : g \in FindUserConvItems(u)}

-----------------------------------------------------------------------------
(* HandleStartGroupChat and UpsertGroupChatConv *)

\* The transaction of CreateGroupChat commits, with a row for each user that
\* UsersUnitInfo returned.  UpsertGroupChatConv is then called with all those
\* invited, also those that are missing there; when the group's hash cannot be
\* written to Redis the handler stops before it.
CreateGroupChat(g) ==
  /\ g \notin created
  /\ created' = created \cup {g}
  /\ \E missing \in SUBSET (Invited(g) \cap Unknown) :
       rows' = [rows EXCEPT ![g] = Invited(g) \ missing]
  /\ \/ SetStart(g, [NotStarting EXCEPT !.pc = "look", !.left = Members[g]])
     \/ UNCHANGED start
  /\ UNCHANGED <<tree, conv, lists, job, acks, rx, clear, msgs>>

\* A first look for the conversation, under the read lock.
UpsertLook(g) ==
  /\ start[g].pc = "look"
  /\ SetStart(g, [start[g] EXCEPT !.pc = IF conv[g].ok THEN "users" ELSE "make"])
  /\ UNCHANGED <<stores, conv, lists, job, acks, rx, clear, msgs>>

\* Then the write lock: there is no second look.
UpsertConv(g) ==
  /\ start[g].pc = "make"
  /\ SetConv(g, FreshConv)
  /\ SetStart(g, [start[g] EXCEPT !.pc = "users"])
  /\ UNCHANGED <<stores, lists, job, acks, rx, clear, msgs>>

\* The next of those invited, with or without a row: look for the wrap.
UpsertMember(g) ==
  LET u == Head(start[g].left)
  IN /\ start[g].pc = "users"
     /\ SetStart(g, [start[g] EXCEPT !.u = u, !.w = uid2conv[u],
                       !.pc = IF uid2conv[u] = NoWrap THEN "wrap" ELSE "item"])
     /\ UNCHANGED <<stores, conv, lists, job, acks, rx, clear, msgs>>

\* The wrap was not there: an empty one is put in its place, whatever there is.
UpsertWrap(g) ==
  LET u == start[g].u
  IN /\ start[g].pc = "wrap"
     /\ PutWrap(u, g, <<>>)
     /\ item' = [item EXCEPT ![u] = [h \in Groups |-> FreshItem]]
     /\ SetStart(g, [start[g] EXCEPT !.pc = "item", !.w = g])
     /\ UNCHANGED <<stores, conv, job, acks, rx, clear, msgs>>

\* The conversation is added to the wrap that was found or made, which may no
\* longer be the one in use.
UpsertItem(g) ==
  LET u == start[g].u
      w == start[g].w
      left == Tail(start[g].left)
  IN /\ start[g].pc = "item"
     /\ IF InWrap(g, u, w)
        THEN UNCHANGED <<wraps, item>>
        ELSE /\ wraps' = [wraps EXCEPT ![u][w] = Append(@, g)]
             /\ IF w = uid2conv[u] THEN SetItem(u, g, FreshItem)
                                   ELSE UNCHANGED item
     /\ SetStart(g, IF left = <<>> THEN NotStarting
                    ELSE [NotStarting EXCEPT !.pc = "users", !.left = left])
     /\ UNCHANGED <<stores, conv, uid2conv, job, acks, rx, clear, msgs>>

-----------------------------------------------------------------------------
(* groupConvHandle *)

GoTo(p, pc) == SetJob(p, [job[p] EXCEPT !.pc = pc])
Returns(p) == SetJob(p, Idle)

\* OnMsgComing: one of those invited sends into the group.
SendStart(p, g, s) ==
  /\ job[p].pc = "idle"
  /\ g \in created
  /\ s \in Invited(g)
  /\ msgs < MaxMsgs
  /\ msgs' = msgs + 1
  /\ SetJob(p, [Idle EXCEPT !.g = g, !.s = s,
                            !.pc = IF conv[g].ok THEN "seq" ELSE "lock"])
  /\ UNCHANGED <<stores, conv, lists, start, acks, rx, clear>>

\* Mutant of LoadLocked: the conversation found is not put in convId2items.
LoadLockedUnpublished(p) ==
  /\ job[p].pc = "lock"
  /\ GoTo(p, IF conv[job[p].g].ok \/ FindConvItems(job[p].g) = {}
             THEN "seq" ELSE "tree")
  /\ UNCHANGED <<stores, conv, lists, start, acks, rx, clear, msgs>>

\* Under the lock: the second look, then FindConvItems, whose rows have no number.
\* If there are none, an empty conversation is kept and nobody's list is touched.
LoadLocked(p) ==
  LET g == job[p].g
  IN /\ job[p].pc = "lock"
     /\ IF conv[g].ok
        THEN GoTo(p, "seq") /\ UNCHANGED conv
        ELSE /\ GoTo(p, IF FindConvItems(g) = {} THEN "seq" ELSE "tree")
             /\ SetConv(g, FreshConv)
     /\ UNCHANGED <<stores, lists, start, acks, rx, clear, msgs>>

\* FindConvItems, GetConvTreeWithGroup or FindGroupInfo fails, before or after
\* what comes in between.
LoadFails(p) ==
  /\ \/ job[p].pc = "lock" /\ ~conv[job[p].g].ok
     \/ job[p].pc = "tree"
     \/ job[p].pc = "users" /\ job[p].left = FindConvItems(job[p].g)
  /\ Returns(p)
  /\ UNCHANGED <<stores, conv, lists, start, acks, rx, clear, msgs>>

\* GetConvTreeWithGroup.
ReadTree(p) ==
  /\ job[p].pc = "tree"
  /\ SetJob(p, [job[p] EXCEPT !.pc = "conv", !.snap = tree[job[p].g]])
  /\ UNCHANGED <<stores, conv, lists, start, acks, rx, clear, msgs>>

\* The conversation takes the number read unless it is ahead of it already.
SyncConv(p) ==
  LET g == job[p].g
  IN /\ job[p].pc = "conv"
     /\ SetConv(g, [conv[g] EXCEPT !.seq = Larger(@, job[p].snap.seq)])
     /\ SetJob(p, [job[p] EXCEPT !.pc = "users", !.left = FindConvItems(g)])
     /\ UNCHANGED <<stores, lists, start, acks, rx, clear, msgs>>

\* The next row: look for the owner's wrap.
SyncMember(p, u) ==
  /\ job[p].pc = "users"
  /\ u \in job[p].left
  /\ SetJob(p, [job[p] EXCEPT !.u = u, !.w = uid2conv[u],
                  !.pc = IF uid2conv[u] = NoWrap THEN "fresh" ELSE "held"])
  /\ UNCHANGED <<stores, conv, lists, start, acks, rx, clear, msgs>>

Snapped(p) ==
  LET snap == job[p].snap
      browse == snap.browse[job[p].u]
  IN [browse |-> browse, unread |-> Positive(snap.seq - browse)]

NextMember(p) ==
  LET j == job[p]
      left == j.left \ {j.u}
  IN SetJob(p,
       IF left = {} THEN [Idle EXCEPT !.pc = "seq", !.g = j.g, !.s = j.s]
       ELSE [j EXCEPT !.pc = "users", !.left = left, !.u = NoUser, !.w = NoWrap])

\* The wrap that was found has the conversation: it takes what was read.  If the
\* wrap is no longer in use nobody will see that.
SyncHeld(p) ==
  LET g == job[p].g
      u == job[p].u
      w == job[p].w
  IN /\ job[p].pc = "held"
     /\ IF InWrap(g, u, w)
        THEN /\ IF w = uid2conv[u] THEN SetItem(u, g, Snapped(p))
                                   ELSE UNCHANGED item
             /\ NextMember(p)
        ELSE GoTo(p, "fresh") /\ UNCHANGED item
     /\ UNCHANGED <<stores, conv, uid2conv, wraps, start, acks, rx, clear, msgs>>

\* Mutant of SyncFresh: the map is not looked at again.
SyncFreshBlindly(p) ==
  LET g == job[p].g
      u == job[p].u
      w == uid2conv[u]
  IN /\ job[p].pc = "fresh"
     /\ IF w = NoWrap
        THEN PutWrap(u, p, <<g>>)
        ELSE wraps' = [wraps EXCEPT ![u][w] = Append(@, g)] /\ UNCHANGED uid2conv
     /\ SetItem(u, g, Snapped(p))
     /\ NextMember(p)
     /\ UNCHANGED <<stores, conv, start, acks, rx, clear, msgs>>

\* Under a new lock everything is looked for again, and made if missing.
SyncFresh(p) ==
  LET g == job[p].g
      u == job[p].u
      w == uid2conv[u]
  IN /\ job[p].pc = "fresh"
     /\ \/ w = NoWrap /\ PutWrap(u, p, <<g>>)
        \/ /\ w # NoWrap
           /\ wraps' = IF Listed(g, u) THEN wraps
                                       ELSE [wraps EXCEPT ![u][w] = Append(@, g)]
           /\ UNCHANGED uid2conv
     /\ SetItem(u, g, Snapped(p))
     /\ NextMember(p)
     /\ UNCHANGED <<stores, conv, start, acks, rx, clear, msgs>>

\* Mutant of Numbered: the script does not move the sender's position.
NumberedUnread(g, s) == SetTree(g, [tree[g] EXCEPT !.seq = @ + 1])

\* The script of ModifyConvTree: the next number, which the sender has read.
Numbered(g, s) ==
  LET n == tree[g].seq + 1
  IN SetTree(g, [seq |-> n, browse |-> [tree[g].browse EXCEPT ![s] = n]])

ModifyConvTree(p) ==
  LET j == job[p]
  IN /\ j.pc = "seq"
     /\ Numbered(j.g, j.s)
     /\ SetJob(p, [j EXCEPT !.pc = "publish", !.seq = tree[j.g].seq + 1])
     /\ UNCHANGED <<created, rows, conv, lists, start, acks, rx, clear, msgs>>

\* The group manager refuses the sender (who may also pass without a row), or the
\* script fails, with or without its effect.
ModifyConvTreeFails(p) ==
  /\ job[p].pc = "seq"
  /\ Numbered(job[p].g, job[p].s) \/ UNCHANGED tree
  /\ Returns(p)
  /\ UNCHANGED <<created, rows, conv, lists, start, acks, rx, clear, msgs>>

\* PublishAsync: its result is put in doneChan.  A result that is an error is
\* skipped there, which is as if it had never come.
SendMsg(p) ==
  LET j == job[p]
  IN /\ j.pc = "publish"
     /\ \/ acks' = Append(acks, [g |-> j.g, seq |-> j.seq, s |-> j.s])
        \/ UNCHANGED acks
     /\ Returns(p)
     /\ UNCHANGED <<stores, conv, lists, start, rx, clear, msgs>>

-----------------------------------------------------------------------------
(* receiveMqSendAsyncResult and ClearUnread *)

\* A success raises the conversation's number.  Whom it is counted for was listed
\* by the group manager when the message was published (ForwardMembers), any of
\* those invited; the sender is added.
RxConv ==
  LET a == Head(acks)
  IN /\ rx = RxIdle
     /\ acks # <<>>
     /\ acks' = Tail(acks)
     /\ IF conv[a.g].ok
        THEN SetConv(a.g, [conv[a.g] EXCEPT !.seq = Larger(@, a.seq)])
        ELSE UNCHANGED conv
     /\ \E forward \in SUBSET Invited(a.g) :
          rx' = [g |-> a.g, seq |-> a.seq, s |-> a.s, left |-> forward \cup {a.s}]
     /\ UNCHANGED <<stores, lists, start, job, clear, msgs>>

\* Mutant of OwnResult: the unread count stays.
OwnResultKeepsUnread(i) == [i EXCEPT !.browse = Larger(@, rx.seq)]

\* The sender has read its message.
OwnResult(i) == [browse |-> Larger(i.browse, rx.seq), unread |-> 0]

\* Mutant of OthersResult: the count may become negative.
OthersResultNegative(i) == [i EXCEPT !.unread = rx.seq - i.browse]

\* The others' unread count is computed from this result's number.
OthersResult(i) == [i EXCEPT !.unread = Positive(rx.seq - i.browse)]

\* Then the members, the sender last.
RxItem(u) ==
  /\ u \in rx.left
  /\ u = rx.s => rx.left = {u}
  /\ IF Listed(rx.g, u)
     THEN LET i == item[u][rx.g]
          IN SetItem(u, rx.g, IF u = rx.s THEN OwnResult(i) ELSE OthersResult(i))
     ELSE UNCHANGED item
  /\ rx' = IF rx.left = {u} THEN RxIdle ELSE [rx EXCEPT !.left = @ \ {u}]
  /\ UNCHANGED <<stores, conv, uid2conv, wraps, start, job, acks, clear, msgs>>

\* The script of ClearUnread, of a member that has something unread or not; it
\* fails on a hash without a number.
ClearTree(c, g, u) ==
  /\ clear[c] = ClearIdle
  /\ u \in Invited(g)
  /\ tree[g].seq > 0
  /\ ClearsRead \/ tree[g].browse[u] < tree[g].seq
  /\ SetTree(g, [tree[g] EXCEPT !.browse[u] = tree[g].seq])
  /\ \/ SetClear(c, [u |-> u, g |-> g, seq |-> tree[g].seq])
     \/ UNCHANGED clear
  /\ UNCHANGED <<created, rows, conv, lists, start, job, acks, rx, msgs>>

ClearMem(c) ==
  LET g == clear[c].g
      u == clear[c].u
  IN /\ clear[c] # ClearIdle
     /\ IF Listed(g, u)
        THEN SetItem(u, g, [browse |-> clear[c].seq, unread |-> 0])
        ELSE UNCHANGED item
     /\ SetClear(c, ClearIdle)
     /\ UNCHANGED <<stores, conv, uid2conv, wraps, start, job, acks, rx, msgs>>

\* The process crashes and starts again with empty maps.
Crash ==
  /\ conv' = [g \in Groups |-> NoConv]
  /\ uid2conv' = [u \in Users |-> NoWrap]
  /\ wraps' = [u \in Users |-> [w \in Wraps |-> <<>>]]
  /\ item' = [u \in Users |-> [g \in Groups |-> FreshItem]]
  /\ start' = [g \in Groups |-> NotStarting]
  /\ job' = [p \in Workers |-> Idle]
  /\ acks' = <<>>
  /\ rx' = RxIdle
  /\ clear' = [c \in Clearers |-> ClearIdle]
  /\ UNCHANGED <<stores, msgs>>

-----------------------------------------------------------------------------
StartStep(g) ==
  \/ CreateGroupChat(g) \/ UpsertLook(g) \/ UpsertConv(g)
  \/ UpsertMember(g) \/ UpsertWrap(g) \/ UpsertItem(g)
HandleStep(p) ==
  \/ LoadLocked(p) \/ LoadFails(p) \/ ReadTree(p) \/ SyncConv(p)
  \/ (\E u \in Users : SyncMember(p, u)) \/ SyncHeld(p) \/ SyncFresh(p)
  \/ ModifyConvTree(p) \/ ModifyConvTreeFails(p) \/ SendMsg(p)

Next ==
  \/ \E g \in Groups : StartStep(g)
  \/ \E p \in Workers :
       HandleStep(p) \/ \E g \in Groups, s \in Users : SendStart(p, g, s)
  \/ RxConv \/ \E u \in Users : RxItem(u)
  \/ \E c \in Clearers :
       ClearMem(c) \/ \E g \in Groups, u \in Users : ClearTree(c, g, u)
  \/ Crash

Spec == Init /\ [][Next]_vars

-----------------------------------------------------------------------------
(* Properties *)

\* Whoever creates and replaces wraps, a member's list has a conversation at
\* most once.
ListedOnce == \A u \in Users : uid2conv[u] # NoWrap =>
  IsInjective(wraps[u][uid2conv[u]])

\* The two maps have different locks, yet a listed conversation is always in
\* convId2items: convList, which leaves a nil where it is not, leaves none.
NoHole == \A u \in Users : \A g \in Groups : Listed(g, u) => conv[g].ok

\* What a client is shown from memory is never ahead of what it gets when it
\* syncs: the same conversations, with numbers and positions at least as large.
\* Only a user who was invited and got no row is shown one that a sync does not
\* have; its number and position are not ahead of the hash either.
HotCoversRecent ==
  \A u \in Users : \A r \in RecentlyConvList(u) :
    \/ \E h \in SyncHotConvList(u) :
         h.g = r.g /\ r.seq <= h.seq /\ r.browse <= h.browse
    \/ LET t == GetUserConvTree(r.g, u)
       IN /\ u \in Invited(r.g) \ FindConvItems(r.g)
          /\ r.seq <= t.seq /\ r.browse <= t.browse

\* A member is never shown more unread messages than were numbered after the
\* position it is shown to have read, also by a wrap that replaced another and
\* with or without a row.
NoPhantomUnread ==
  \A u \in Users : \A r \in RecentlyConvList(u) :
    r.unread <= Positive(tree[r.g].seq - r.browse)
=============================================================================
