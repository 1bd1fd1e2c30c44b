------------------------- MODULE GroupConvProofs -------------------------
(***************************************************************************)
(* Proofs about GroupConv for any sets of groups, users and threads, any    *)
(* invited users, with or without rows, and any number of messages.         *)
(*                                                                          *)
(* What is shown to a member is right although wraps are replaced and what  *)
(* threads carry is old: a thread only ever carries a conversation that is  *)
(* in memory and that the member was invited to (LocalsInv), every wrap, in *)
(* use or not, lists such conversations once (ListInv), and every number    *)
(* that is carried or kept was in the group's hash, whose numbers only grow *)
(* (MemInv, CarriedInv).                                                    *)
(***************************************************************************)
EXTENDS GroupConv, SequenceLemmas

\* A group whose conversation u can be shown: it is in memory, u was invited.
Shown(g, u) == g \in created /\ conv[g].ok /\ u \in Invited(g)

\* What the locals of the threads are at each of their steps.
StartInv(g) ==
  /\ start[g].pc # "none" =>
       g \in created /\ start[g].left # <<>> /\ ToSet(start[g].left) \subseteq Invited(g)
  /\ start[g].pc \in {"users", "wrap", "item"} => conv[g].ok
  /\ start[g].pc \in {"wrap", "item"} => start[g].u \in Invited(g)
  /\ start[g].pc = "item" => start[g].w \in Wraps
JobInv(p) ==
  LET j == job[p]
  IN /\ j.pc # "idle" => j.g \in created /\ j.s \in Invited(j.g)
                         /\ j.left \subseteq Invited(j.g)
     /\ j.pc \in {"tree", "conv", "users", "held", "fresh"} => conv[j.g].ok
     /\ j.pc \in {"held", "fresh"} => j.u \in Invited(j.g)
     /\ j.pc = "held" => j.w \in Wraps
LocalsInv ==
  /\ \A g \in Groups : StartInv(g)
  /\ \A p \in Workers : JobInv(p)
  /\ rx.left # {} => rx.g \in Groups /\ rx.s \in Users
  /\ \A c \in Clearers :
       clear[c] # ClearIdle => clear[c].g \in Groups /\ clear[c].u \in Users

\* Every wrap lists conversations that can be shown, each of them once; only
\* those invited have rows.
ListInv ==
  /\ \A g \in Groups : rows[g] \subseteq Invited(g)
  /\ \A u \in Users : \A w \in Wraps :
       /\ IsInjective(wraps[u][w])
       /\ \A g \in ToSet(wraps[u][w]) : Shown(g, u)

\* No number that is kept or carried is ahead of the hash.
Below(t, s) == t.seq <= s.seq /\ \A u \in Users : t.browse[u] <= s.browse[u]
ReadBy(g, u, n) == n <= tree[g].browse[u]
MemInv ==
  \A g \in Groups :
    /\ conv[g].seq <= tree[g].seq
    /\ \A u \in Users :
         /\ tree[g].browse[u] <= tree[g].seq
         /\ ReadBy(g, u, item[u][g].browse)
         /\ item[u][g].unread <= Positive(tree[g].seq - item[u][g].browse)
CarriedJob(p) ==
  /\ job[p].pc \in {"conv", "users", "held", "fresh"} =>
       Below(job[p].snap, tree[job[p].g])
  /\ job[p].pc = "publish" => ReadBy(job[p].g, job[p].s, job[p].seq)
CarriedInv ==
  /\ \A p \in Workers : CarriedJob(p)
  /\ \A i \in 1 .. Len(acks) : ReadBy(acks[i].g, acks[i].s, acks[i].seq)
  /\ rx.left # {} => ReadBy(rx.g, rx.s, rx.seq)
  /\ \A c \in Clearers :
       clear[c] # ClearIdle => ReadBy(clear[c].g, clear[c].u, clear[c].seq)

IInv == TypeOK /\ LocalsInv /\ ListInv /\ MemInv /\ CarriedInv
-----------------------------------------------------------------------------
(* Sequences *)

\* Nothing is put in the empty sequence, one element is in a singleton.
LEMMA ShortSeqs ==
  /\ \A S : <<>> \in Seq(S)
  /\ IsInjective(<<>>) /\ ToSet(<<>>) = {}
  /\ \A e : IsInjective(<<e>>) /\ ToSet(<<e>>) = {e}
BY DEF IsInjective, ToSet

-----------------------------------------------------------------------------
(* The initial state *)

LEMMA NoValues ==
  /\ NoTree \in TreeType /\ NotStarting \in StartType /\ Idle \in JobType
  /\ RxIdle \in RxType /\ ClearIdle \in ClearType
BY DEF NoTree, TreeType, NotStarting, StartType, Idle, JobType, RxIdle, RxType,
       ClearIdle, ClearType

LEMMA InitInv == Init => IInv
<1> SUFFICES ASSUME Init PROVE IInv
  OBVIOUS
<1> USE DEF Init
<1>1. TypeOK
  BY NoValues, ShortSeqs DEF TypeOK, NoConv, FreshItem, ConvType, ItemType
<1>2. LocalsInv
  BY DEF LocalsInv, StartInv, JobInv, NotStarting, Idle, RxIdle
<1>3. ListInv
  BY ShortSeqs DEF ListInv
<1>4. MemInv
  BY DEF MemInv, NoConv, NoTree, ReadBy, FreshItem, Positive
<1>5. CarriedInv
  BY DEF CarriedInv, CarriedJob, Idle, RxIdle
<1> QED  BY <1>1, <1>2, <1>3, <1>4, <1>5 DEF IInv
-----------------------------------------------------------------------------
(* What a change of one entry does *)

\* Those invited are users.
LEMMA InvitedAreUsers ==
  \A g \in Groups : /\ Members[g] \in Seq(Users) /\ Members[g] # <<>>
                    /\ Invited(g) \in SUBSET Users
<1> SUFFICES ASSUME NEW g \in Groups
             PROVE  /\ Members[g] \in Seq(Users) /\ Members[g] # <<>>
                    /\ Invited(g) \in SUBSET Users
  OBVIOUS
<1>1. Members[g] \in Seq(Users) /\ Members[g] # <<>>
  BY GroupConvAssumption
<1>2. \A i \in DOMAIN Members[g] : Members[g][i] \in Users
  BY <1>1, ElementOfSeq, LenProperties
<1> QED  BY <1>1, <1>2 DEF Invited, ToSet

LEMMA StartSet ==
  ASSUME TypeOK, NEW g \in Groups, NEW r \in StartType, SetStart(g, r)
  PROVE  /\ start' \in [Groups -> StartType]
         /\ start'[g] = r
         /\ \A h \in Groups : h # g => start'[h] = start[h]
BY DEF TypeOK, SetStart

LEMMA JobSet ==
  ASSUME TypeOK, NEW p \in Workers, NEW r \in JobType, SetJob(p, r)
  PROVE  /\ job' \in [Workers -> JobType]
         /\ job'[p] = r
         /\ \A q \in Workers : q # p => job'[q] = job[q]
BY DEF TypeOK, SetJob

LEMMA ConvSet ==
  ASSUME TypeOK, NEW g \in Groups, NEW c \in ConvType, SetConv(g, c)
  PROVE  /\ conv' \in [Groups -> ConvType]
         /\ conv'[g] = c
         /\ \A h \in Groups : h # g => conv'[h] = conv[h]
BY DEF TypeOK, SetConv

LEMMA ClearSet ==
  ASSUME TypeOK, NEW c \in Clearers, NEW r \in ClearType, SetClear(c, r)
  PROVE  /\ clear' \in [Clearers -> ClearType]
         /\ clear'[c] = r
         /\ \A d \in Clearers : d # c => clear'[d] = clear[d]
BY DEF TypeOK, SetClear

LEMMA TreeSet ==
  ASSUME TypeOK, NEW g \in Groups, NEW t \in TreeType, SetTree(g, t)
  PROVE  /\ tree' \in [Groups -> TreeType]
         /\ tree'[g] = t
         /\ \A h \in Groups : h # g => tree'[h] = tree[h]
BY DEF TypeOK, SetTree

LEMMA ItemSet ==
  ASSUME TypeOK, NEW u \in Users, NEW g \in Groups, NEW i \in ItemType, SetItem(u, g, i)
  PROVE  /\ item' \in [Users -> [Groups -> ItemType]]
         /\ item'[u][g] = i
         /\ \A v \in Users, h \in Groups : v # u \/ h # g => item'[v][h] = item[v][h]
BY DEF TypeOK, SetItem

\* An item that fits the hash may take the place of another.
Fits(u, g, i) == /\ i \in ItemType
                 /\ ReadBy(g, u, i.browse)
                 /\ i.unread <= Positive(tree[g].seq - i.browse)

LEMMA ItemFits ==
  ASSUME IInv, NEW u \in Users, NEW g \in Groups, NEW i, Fits(u, g, i), SetItem(u, g, i),
         UNCHANGED <<tree, conv>>
  PROVE  item' \in [Users -> [Groups -> ItemType]] /\ MemInv'
<1>1. /\ item' \in [Users -> [Groups -> ItemType]]
      /\ item'[u][g] = i
      /\ \A v \in Users, h \in Groups : v # u \/ h # g => item'[v][h] = item[v][h]
  BY ItemSet DEF IInv, Fits
<1>2. ASSUME NEW v \in Users, NEW h \in Groups
      PROVE  /\ ReadBy(h, v, item'[v][h].browse)
             /\ item'[v][h].unread <= Positive(tree[h].seq - item'[v][h].browse)
  BY <1>1 DEF IInv, MemInv, Fits
<1> QED  BY <1>1, <1>2 DEF IInv, MemInv, ReadBy

LEMMA ConvFits ==
  ASSUME IInv, NEW g \in Groups, NEW c \in ConvType, c.seq <= tree[g].seq,
         SetConv(g, c), UNCHANGED <<tree, item>>
  PROVE  MemInv'
<1>1. /\ conv'[g] = c
      /\ \A h \in Groups : h # g => conv'[h] = conv[h]
  BY ConvSet DEF IInv
<1>2. \A h \in Groups : conv'[h].seq <= tree[h].seq
  BY <1>1 DEF IInv, MemInv
<1> QED  BY <1>2 DEF IInv, MemInv, ReadBy

LEMMA FreshNumber ==
  ASSUME IInv, NEW g \in Groups
  PROVE  FreshConv.seq <= tree[g].seq
BY DEF IInv, TypeOK, TreeType, FreshConv

LEMMA FreshFits ==
  ASSUME IInv, NEW u \in Users, NEW g \in Groups
  PROVE  Fits(u, g, FreshItem)
<1>1. tree[g].seq \in Nat /\ tree[g].browse[u] \in Nat
  BY DEF IInv, TypeOK, TreeType
<1> QED  BY <1>1 DEF Fits, ItemType, FreshItem, ReadBy, Positive

-----------------------------------------------------------------------------
(* What an action leaves alone *)

LEMMA ListKept ==
  ASSUME IInv, UNCHANGED <<wraps, created, rows, conv>>
  PROVE  ListInv'
BY DEF IInv, ListInv, Shown

\* Conversations are only added to memory.
LEMMA ListGrows ==
  ASSUME IInv, UNCHANGED <<wraps, created, rows>>,
         \A g \in Groups : conv[g].ok => conv'[g].ok
  PROVE  ListInv'
<1>1. ASSUME NEW u \in Users, NEW w \in Wraps
      PROVE  /\ IsInjective(wraps[u][w])
             /\ \A g \in ToSet(wraps[u][w]) : Shown(g, u)'
  BY DEF IInv, TypeOK, ListInv, Shown
<1> QED  BY <1>1 DEF IInv, ListInv

LEMMA MemKept ==
  ASSUME IInv, UNCHANGED <<tree, conv, item>>
  PROVE  MemInv'
BY DEF IInv, MemInv, ReadBy

LEMMA CarriedKept ==
  ASSUME IInv, UNCHANGED <<tree, job, acks, rx, clear>>
  PROVE  CarriedInv'
BY DEF IInv, CarriedInv, CarriedJob, ReadBy, Below

\* The threads that do not move keep what their locals are.
LEMMA StartLocals ==
  ASSUME IInv, NEW g \in Groups, StartInv(g)',
         \A h \in Groups : h # g => start'[h] = start[h],
         created \subseteq created', \A h \in Groups : conv[h].ok => conv'[h].ok,
         UNCHANGED <<job, rx, clear>>
  PROVE  LocalsInv'
<1>1. ASSUME NEW h \in Groups PROVE StartInv(h)'
  BY DEF IInv, LocalsInv, StartInv
<1>2. ASSUME NEW p \in Workers PROVE JobInv(p)'
  BY DEF IInv, TypeOK, LocalsInv, JobInv
<1> QED  BY <1>1, <1>2 DEF IInv, LocalsInv

LEMMA JobLocals ==
  ASSUME IInv, NEW p \in Workers, JobInv(p)',
         \A q \in Workers : q # p => job'[q] = job[q],
         \A h \in Groups : conv[h].ok => conv'[h].ok,
         UNCHANGED <<created, start, rx, clear>>
  PROVE  LocalsInv'
<1>1. ASSUME NEW h \in Groups PROVE StartInv(h)'
  BY DEF IInv, LocalsInv, StartInv
<1>2. ASSUME NEW q \in Workers PROVE JobInv(q)'
  BY DEF IInv, TypeOK, LocalsInv, JobInv
<1> QED  BY <1>1, <1>2 DEF IInv, LocalsInv

\* The hash only grows, and what was below it stays below it.
Grows == /\ tree' \in [Groups -> TreeType]
         /\ \A g \in Groups : Below(tree[g], tree'[g])

LEMMA SameGrows == ASSUME IInv, UNCHANGED tree PROVE Grows
BY DEF IInv, TypeOK, Grows, Below, TreeType

LEMMA TreeGrows ==
  ASSUME IInv, NEW g \in Groups, NEW t \in TreeType, Below(tree[g], t), SetTree(g, t)
  PROVE  Grows
<1>1. /\ tree' \in [Groups -> TreeType] /\ tree'[g] = t
      /\ \A h \in Groups : h # g => tree'[h] = tree[h]
  BY TreeSet DEF IInv
<1>2. \A h \in Groups : Below(tree[h], tree[h])
  BY DEF IInv, TypeOK, Below, TreeType
<1> QED  BY <1>1, <1>2 DEF Grows

LEMMA StaysRead ==
  ASSUME IInv, Grows, NEW g \in Groups, NEW u \in Users, NEW n \in Nat, ReadBy(g, u, n)
  PROVE  n <= tree'[g].browse[u]
<1>1. tree[g] \in TreeType /\ tree'[g] \in TreeType /\ Below(tree[g], tree'[g])
  BY DEF IInv, TypeOK, Grows
<1> QED  BY <1>1 DEF ReadBy, Below, TreeType

LEMMA StaysBelow ==
  ASSUME IInv, Grows, NEW g \in Groups, NEW t \in TreeType, Below(t, tree[g])
  PROVE  Below(t, tree'[g])
<1>1. tree[g] \in TreeType /\ tree'[g] \in TreeType /\ Below(tree[g], tree'[g])
  BY DEF IInv, TypeOK, Grows
<1> QED  BY <1>1 DEF Below, TreeType

LEMMA MemGrows ==
  ASSUME IInv, Grows, \A g \in Groups, u \in Users : tree'[g].browse[u] <= tree'[g].seq,
         UNCHANGED <<conv, item>>
  PROVE  MemInv'
<1>1. ASSUME NEW g \in Groups, NEW u \in Users
      PROVE  /\ conv[g].seq <= tree'[g].seq
             /\ item[u][g].browse <= tree'[g].browse[u]
             /\ item[u][g].unread <= Positive(tree'[g].seq - item[u][g].browse)
  <2>1. /\ conv[g].seq \in Nat /\ tree[g].seq \in Nat /\ tree'[g].seq \in Nat
        /\ item[u][g].browse \in Nat /\ item[u][g].unread \in Nat
        /\ tree[g].seq <= tree'[g].seq
    BY DEF IInv, TypeOK, ConvType, ItemType, TreeType, Grows, Below
  <2>2. /\ conv[g].seq <= tree[g].seq
        /\ ReadBy(g, u, item[u][g].browse)
        /\ item[u][g].unread <= Positive(tree[g].seq - item[u][g].browse)
    BY DEF IInv, MemInv
  <2> QED  BY <2>1, <2>2, StaysRead DEF Positive
<1>2. \A g \in Groups : conv[g].seq <= tree'[g].seq
  BY DEF IInv, TypeOK, ConvType, TreeType, MemInv, Grows, Below
<1> QED  BY <1>1, <1>2 DEF MemInv, ReadBy

LEMMA JobOf ==
  ASSUME IInv, NEW p \in Workers
  PROVE  /\ job[p] \in JobType /\ JobInv(p) /\ CarriedJob(p) /\ p \in Wraps
         /\ job[p].pc # "idle" => /\ job[p].g \in Groups /\ job[p].s \in Users
                                  /\ tree[job[p].g] \in TreeType
                                  /\ conv[job[p].g] \in ConvType
BY InvitedAreUsers DEF IInv, TypeOK, LocalsInv, JobInv, CarriedInv, Wraps

\* The other threads still carry what they carried.
LEMMA JobStays ==
  ASSUME IInv, Grows, NEW p \in Workers, job'[p] = job[p]
  PROVE  CarriedJob(p)'
<1>1. CASE job[p].pc \in {"conv", "users", "held", "fresh"}
  <2>1. job[p].snap \in TreeType
    BY JobOf DEF JobType
  <2> QED  BY <1>1, <2>1, JobOf, StaysBelow DEF CarriedJob
<1>2. CASE job[p].pc = "publish"
  <2>1. job[p].seq \in Nat
    BY JobOf DEF JobType
  <2> QED  BY <1>2, <2>1, JobOf, StaysRead DEF CarriedJob, ReadBy
<1>3. CASE job[p].pc \notin {"conv", "users", "held", "fresh", "publish"}
  BY <1>3 DEF CarriedJob
<1> QED  BY <1>1, <1>2, <1>3

LEMMA AcksStay ==
  ASSUME IInv, Grows
  PROVE  \A i \in 1 .. Len(acks) : acks[i].seq <= tree'[acks[i].g].browse[acks[i].s]
<1> SUFFICES ASSUME NEW i \in 1 .. Len(acks)
             PROVE  acks[i].seq <= tree'[acks[i].g].browse[acks[i].s]
  OBVIOUS
<1>1. acks[i] \in AckType
  BY ElementOfSeq DEF IInv, TypeOK
<1>2. acks[i].g \in Groups /\ acks[i].s \in Users /\ acks[i].seq \in Nat
  BY <1>1 DEF AckType
<1> QED  BY <1>2, StaysRead DEF IInv, CarriedInv

LEMMA RxStays ==
  ASSUME IInv, Grows, rx.left # {}
  PROVE  rx.seq <= tree'[rx.g].browse[rx.s]
<1>1. rx.g \in Groups /\ rx.s \in Users /\ rx.seq \in Nat
  BY DEF IInv, TypeOK, RxType, LocalsInv
<1> QED  BY <1>1, StaysRead DEF IInv, CarriedInv

LEMMA ClearStays ==
  ASSUME IInv, Grows, NEW c \in Clearers, clear[c] # ClearIdle
  PROVE  clear[c].seq <= tree'[clear[c].g].browse[clear[c].u]
<1>1. clear[c].g \in Groups /\ clear[c].u \in Users /\ clear[c].seq \in Nat
  BY DEF IInv, TypeOK, ClearType, LocalsInv
<1> QED  BY <1>1, StaysRead DEF IInv, CarriedInv

LEMMA JobCarries ==
  ASSUME IInv, Grows, NEW p \in Workers, CarriedJob(p)',
         \A q \in Workers : q # p => job'[q] = job[q], UNCHANGED <<acks, rx, clear>>
  PROVE  CarriedInv'
<1>1. \A q \in Workers : CarriedJob(q)'
  BY JobStays
<1>2. (\A i \in 1 .. Len(acks) : ReadBy(acks[i].g, acks[i].s, acks[i].seq))'
  BY AcksStay DEF ReadBy
<1>3. (rx.left # {} => ReadBy(rx.g, rx.s, rx.seq))'
  BY RxStays DEF ReadBy
<1>4. \A c \in Clearers :
        (clear[c] # ClearIdle => ReadBy(clear[c].g, clear[c].u, clear[c].seq))'
  BY ClearStays DEF ReadBy, ClearIdle
<1> QED  BY <1>1, <1>2, <1>3, <1>4 DEF CarriedInv

-----------------------------------------------------------------------------
(* HandleStartGroupChat and UpsertGroupChatConv *)

LEMMA StartOf ==
  ASSUME IInv, NEW g \in Groups
  PROVE  start[g] \in StartType /\ StartInv(g) /\ g \in Wraps
BY DEF IInv, TypeOK, LocalsInv, Wraps

LEMMA CreateGroupChatKeeps ==
  ASSUME IInv, NEW g \in Groups, CreateGroupChat(g)
  PROVE  IInv'
<1> DEFINE r == [NotStarting EXCEPT !.pc = "look", !.left = Members[g]]
<1> USE DEF CreateGroupChat, lists
<1>0. r \in StartType /\ r.pc = "look" /\ r.left = Members[g]
  BY InvitedAreUsers DEF StartType, NotStarting
<1>1. /\ created' \subseteq Groups /\ created \subseteq created' /\ g \in created'
      /\ rows' \in [Groups -> SUBSET Users]
      /\ \A h \in Groups : rows'[h] \subseteq Invited(h)
  BY InvitedAreUsers DEF IInv, TypeOK, ListInv
<1>2. ListInv'
  BY <1>1 DEF IInv, TypeOK, ListInv, Shown
<1>3. CASE SetStart(g, r)
  <2>1. /\ start' \in [Groups -> StartType] /\ start'[g] = r
        /\ \A h \in Groups : h # g => start'[h] = start[h]
    BY <1>0, <1>3, StartSet DEF IInv
  <2>2. TypeOK'
    BY <1>1, <2>1 DEF IInv, TypeOK
  <2>3. StartInv(g)'
    BY <1>0, <1>1, <2>1, InvitedAreUsers DEF StartInv, Invited
  <2> QED  BY <1>1, <1>2, <2>1, <2>2, <2>3, StartLocals, MemKept, CarriedKept DEF IInv
<1>4. CASE UNCHANGED start
  <2>1. TypeOK'
    BY <1>1, <1>4 DEF IInv, TypeOK
  <2>2. LocalsInv'
    BY <1>1, <1>4 DEF IInv, LocalsInv, StartInv, JobInv
  <2> QED  BY <1>2, <2>1, <2>2, MemKept, CarriedKept DEF IInv
<1> QED  BY <1>3, <1>4

LEMMA UpsertLookKeeps ==
  ASSUME IInv, NEW g \in Groups, UpsertLook(g)
  PROVE  IInv'
<1> DEFINE r == [start[g] EXCEPT !.pc = IF conv[g].ok THEN "users" ELSE "make"]
<1> USE DEF UpsertLook, lists, stores
<1>0. r \in StartType
  BY StartOf DEF StartType
<1>1. /\ start' \in [Groups -> StartType] /\ start'[g] = r
      /\ \A h \in Groups : h # g => start'[h] = start[h]
  BY <1>0, StartSet DEF IInv
<1>2. TypeOK'
  BY <1>1 DEF IInv, TypeOK
<1>3. StartInv(g)'
  BY <1>1, StartOf DEF StartInv, StartType
<1> QED  BY <1>1, <1>2, <1>3, StartLocals, ListKept, MemKept, CarriedKept DEF IInv

LEMMA UpsertConvKeeps ==
  ASSUME IInv, NEW g \in Groups, UpsertConv(g)
  PROVE  IInv'
<1> DEFINE r == [start[g] EXCEPT !.pc = "users"]
<1> USE DEF UpsertConv, lists, stores
<1>0. r \in StartType /\ FreshConv \in ConvType
  BY StartOf DEF StartType, FreshConv, ConvType
<1>1. /\ start' \in [Groups -> StartType] /\ start'[g] = r
      /\ \A h \in Groups : h # g => start'[h] = start[h]
  BY <1>0, StartSet DEF IInv
<1>2. /\ conv' \in [Groups -> ConvType] /\ conv'[g] = FreshConv
      /\ \A h \in Groups : h # g => conv'[h] = conv[h]
  BY <1>0, ConvSet DEF IInv
<1>3. TypeOK'
  BY <1>1, <1>2 DEF IInv, TypeOK
<1>4. \A h \in Groups : conv[h].ok => conv'[h].ok
  BY <1>2 DEF FreshConv
<1>5. StartInv(g)'
  BY <1>1, <1>2, StartOf DEF StartInv, StartType, FreshConv
<1>6. MemInv'
  BY <1>0, FreshNumber, ConvFits
<1> QED  BY <1>1, <1>3, <1>4, <1>5, <1>6, StartLocals, ListGrows, CarriedKept DEF IInv

\* The next of those left is one of them.
LEMMA HeadOfLeft ==
  ASSUME IInv, NEW g \in Groups, start[g].left # <<>>
  PROVE  Head(start[g].left) \in ToSet(start[g].left)
<1>1. start[g].left \in Seq(Users)
  BY StartOf DEF StartType
<1> QED  BY <1>1, LenProperties, HeadTailProperties DEF ToSet

LEMMA UpsertMemberKeeps ==
  ASSUME IInv, NEW g \in Groups, UpsertMember(g)
  PROVE  IInv'
<1> DEFINE u == Head(start[g].left)
           r == [start[g] EXCEPT !.u = u, !.w = uid2conv[u],
                   !.pc = IF uid2conv[u] = NoWrap THEN "wrap" ELSE "item"]
<1> USE DEF UpsertMember, lists, stores
<1>a. u \in Invited(g) /\ u \in Users
  BY StartOf, HeadOfLeft, InvitedAreUsers DEF StartInv
<1>b. SetStart(g, r)
  OBVIOUS
<1> HIDE DEF u
<1>0. r \in StartType /\ uid2conv[u] \in Wraps \cup {NoWrap}
  BY <1>a, StartOf, ZenonT(40) DEF StartType, IInv, TypeOK
<1>1. /\ start' \in [Groups -> StartType] /\ start'[g] = r
      /\ \A h \in Groups : h # g => start'[h] = start[h]
  BY <1>0, <1>b, StartSet DEF IInv
<1>2. TypeOK'
  BY <1>1 DEF IInv, TypeOK
<1>3. StartInv(g)'
  BY <1>a, <1>0, <1>1, StartOf DEF StartInv, StartType
<1> QED  BY <1>1, <1>2, <1>3, StartLocals, ListKept, MemKept, CarriedKept DEF IInv

\* One wrap of u gets another list.
LEMMA WrapSet ==
  ASSUME TypeOK, NEW u \in Users, NEW w \in Wraps, NEW list \in Seq(Groups),
         wraps' = [wraps EXCEPT ![u][w] = list]
  PROVE  /\ wraps' \in [Users -> [Wraps -> Seq(Groups)]]
         /\ wraps'[u][w] = list
         /\ \A v \in Users, x \in Wraps : v # u \/ x # w => wraps'[v][x] = wraps[v][x]
BY DEF TypeOK

LEMMA WrapLists ==
  ASSUME IInv, NEW u \in Users, NEW w \in Wraps, NEW list \in Seq(Groups),
         IsInjective(list), \A g \in ToSet(list) : Shown(g, u),
         wraps' = [wraps EXCEPT ![u][w] = list], UNCHANGED <<created, rows, conv>>
  PROVE  wraps' \in [Users -> [Wraps -> Seq(Groups)]] /\ ListInv'
<1>0. TypeOK
  BY DEF IInv
<1>1. /\ wraps' \in [Users -> [Wraps -> Seq(Groups)]]
      /\ wraps'[u][w] = list
      /\ \A v \in Users, x \in Wraps : v # u \/ x # w => wraps'[v][x] = wraps[v][x]
  BY <1>0, WrapSet, ZenonT(40)
<1>2. ASSUME NEW v \in Users, NEW x \in Wraps
      PROVE  /\ IsInjective(wraps'[v][x])
             /\ \A g \in ToSet(wraps'[v][x]) : Shown(g, v)
  <2>1. CASE v = u /\ x = w
    BY <2>1, <1>1
  <2>2. CASE v # u \/ x # w
    BY <2>2, <1>1 DEF IInv, ListInv
  <2> QED  BY <2>1, <2>2
<1> QED  BY <1>1, <1>2 DEF IInv, ListInv, Shown

\* A conversation that is not in a wrap is added to it.
LEMMA Listing ==
  ASSUME IInv, NEW g \in Groups, NEW u \in Users, NEW w \in Wraps, Shown(g, u),
         ~InWrap(g, u, w)
  PROVE  LET list == Append(wraps[u][w], g)
         IN  /\ list \in Seq(Groups) /\ IsInjective(list)
             /\ \A h \in ToSet(list) : Shown(h, u)
<1> DEFINE s == wraps[u][w]
<1>1. s \in Seq(Groups) /\ IsInjective(s) /\ \A h \in ToSet(s) : Shown(h, u)
  BY DEF IInv, TypeOK, ListInv
<1>2. /\ Append(s, g) \in Seq(Groups) /\ ToSet(Append(s, g)) = ToSet(s) \cup {g}
      /\ IsInjective(Append(s, g))
  BY <1>1, AppendSet, AppendNew DEF InWrap
<1> QED  BY <1>1, <1>2

LEMMA UpsertWrapKeeps ==
  ASSUME IInv, NEW g \in Groups, UpsertWrap(g)
  PROVE  IInv'
<1> DEFINE u == start[g].u
           r == [start[g] EXCEPT !.pc = "item", !.w = g]
<1> USE DEF UpsertWrap, PutWrap, stores
<1>0. u \in Invited(g) /\ u \in Users /\ g \in Wraps /\ r \in StartType
  BY StartOf, InvitedAreUsers, ZenonT(40) DEF StartInv, StartType
<1>1. /\ start' \in [Groups -> StartType] /\ start'[g] = r
      /\ \A h \in Groups : h # g => start'[h] = start[h]
  BY <1>0, StartSet DEF IInv
<1>2. wraps' \in [Users -> [Wraps -> Seq(Groups)]] /\ ListInv'
  BY <1>0, ShortSeqs, WrapLists
<1>3. /\ item' \in [Users -> [Groups -> ItemType]]
      /\ \A h \in Groups : item'[u][h] = FreshItem
      /\ \A v \in Users : v # u => item'[v] = item[v]
  BY <1>0 DEF IInv, TypeOK, FreshItem, ItemType
<1>4. TypeOK'
  BY <1>0, <1>1, <1>2, <1>3 DEF IInv, TypeOK
<1>5. StartInv(g)'
  BY <1>0, <1>1, StartOf DEF StartInv, StartType
<1>6. MemInv'
  BY <1>3, FreshFits DEF IInv, MemInv, Fits, ReadBy
<1> QED  BY <1>1, <1>2, <1>4, <1>5, <1>6, StartLocals, CarriedKept DEF IInv

LEMMA UpsertItemKeeps ==
  ASSUME IInv, NEW g \in Groups, UpsertItem(g)
  PROVE  IInv'
<1> DEFINE u == start[g].u
           w == start[g].w
           left == Tail(start[g].left)
           r == IF left = <<>> THEN NotStarting
                ELSE [NotStarting EXCEPT !.pc = "users", !.left = left]
<1> USE DEF UpsertItem, stores
<1>0. /\ u \in Invited(g) /\ u \in Users /\ w \in Wraps /\ Shown(g, u)
  BY StartOf, InvitedAreUsers DEF StartInv, Shown
<1>a. left \in Seq(Users) /\ ToSet(left) \subseteq Invited(g)
  BY StartOf, TailSet DEF StartInv, StartType
<1>c. SetStart(g, r)
  OBVIOUS
<1> HIDE DEF left
<1>b. r \in StartType
  BY <1>a, NoValues DEF StartType, NotStarting
<1>1. /\ start' \in [Groups -> StartType] /\ start'[g] = r
      /\ \A h \in Groups : h # g => start'[h] = start[h]
  BY <1>b, <1>c, StartSet DEF IInv
<1>2. wraps' \in [Users -> [Wraps -> Seq(Groups)]] /\ ListInv'
  <2>1. CASE InWrap(g, u, w)
    BY <2>1, ListKept DEF IInv, TypeOK
  <2>2. CASE ~InWrap(g, u, w)
    <3>1. /\ Append(wraps[u][w], g) \in Seq(Groups)
          /\ IsInjective(Append(wraps[u][w], g))
          /\ \A h \in ToSet(Append(wraps[u][w], g)) : Shown(h, u)
      BY <2>2, <1>0, Listing
    <3>2. wraps' = [wraps EXCEPT ![u][w] = Append(wraps[u][w], g)]
      BY <2>2
    <3> QED  BY <3>1, <3>2, <1>0, WrapLists
  <2> QED  BY <2>1, <2>2
<1>3. item' \in [Users -> [Groups -> ItemType]] /\ MemInv'
  <2>1. CASE SetItem(u, g, FreshItem)
    BY <2>1, <1>0, FreshFits, ItemFits
  <2>2. CASE UNCHANGED item
    BY <2>2, MemKept DEF IInv, TypeOK
  <2> QED  BY <2>1, <2>2
<1>4. TypeOK'
  BY <1>1, <1>2, <1>3 DEF IInv, TypeOK
<1>5. StartInv(g)'
  BY <1>0, <1>a, <1>1, StartOf, SMTT(30) DEF StartInv, StartType, NotStarting, Shown
<1> QED  BY <1>1, <1>2, <1>3, <1>4, <1>5, StartLocals, CarriedKept DEF IInv

-----------------------------------------------------------------------------
(* groupConvHandle *)

\* A step that changes nothing but its thread.
LEMMA JobStep ==
  ASSUME IInv, NEW p \in Workers, NEW r \in JobType, SetJob(p, r), JobInv(p)', CarriedJob(p)',
         UNCHANGED <<created, rows, tree, conv, uid2conv, wraps, item, start, acks, rx, clear>>,
         msgs' \in Nat
  PROVE  IInv'
<1>1. /\ job' \in [Workers -> JobType]
      /\ \A q \in Workers : q # p => job'[q] = job[q]
  BY JobSet DEF IInv
<1>2. TypeOK'
  BY <1>1 DEF IInv, TypeOK
<1> QED  BY <1>1, <1>2, JobLocals, ListKept, MemKept, SameGrows, JobCarries DEF IInv

LEMMA SendStartKeeps ==
  ASSUME IInv, NEW p \in Workers, NEW g \in Groups, NEW s \in Users, SendStart(p, g, s)
  PROVE  IInv'
<1> DEFINE r == [Idle EXCEPT !.g = g, !.s = s, !.pc = IF conv[g].ok THEN "seq" ELSE "lock"]
<1> USE DEF SendStart, lists, stores
<1>1. r \in JobType
  BY NoValues DEF JobType, Idle
<1>2. job'[p] = r
  BY <1>1, JobSet DEF IInv
<1>3. JobInv(p)' /\ CarriedJob(p)'
  BY <1>2 DEF JobInv, CarriedJob, Idle
<1>4. msgs' \in Nat
  BY DEF IInv, TypeOK
<1> QED  BY <1>1, <1>3, <1>4, JobStep

LEMMA ReturnsKeeps ==
  ASSUME IInv, NEW p \in Workers, Returns(p),
         UNCHANGED <<stores, conv, lists, start, acks, rx, clear, msgs>>
  PROVE  IInv'
<1> USE DEF Returns, lists, stores
<1>1. job'[p] = Idle
  BY NoValues, JobSet DEF IInv
<1>2. JobInv(p)' /\ CarriedJob(p)'
  BY <1>1 DEF JobInv, CarriedJob, Idle
<1>3. msgs' \in Nat
  BY DEF IInv, TypeOK
<1> QED  BY <1>2, <1>3, NoValues, JobStep

LEMMA LoadFailsKeeps ==
  ASSUME IInv, NEW p \in Workers, LoadFails(p)
  PROVE  IInv'
BY ReturnsKeeps DEF LoadFails

LEMMA LoadLockedKeeps ==
  ASSUME IInv, NEW p \in Workers, LoadLocked(p)
  PROVE  IInv'
<1> DEFINE g == job[p].g
           seq == [job[p] EXCEPT !.pc = "seq"]
           read == [job[p] EXCEPT !.pc = IF FindConvItems(g) = {} THEN "seq" ELSE "tree"]
<1> USE DEF LoadLocked, GoTo, lists, stores
<1>0. /\ g \in Groups /\ seq \in JobType /\ read \in JobType
      /\ FreshConv \in ConvType
  BY JobOf DEF JobType, FreshConv, ConvType
<1>1. CASE conv[g].ok
  <2>1. SetJob(p, seq) /\ UNCHANGED conv
    BY <1>1
  <2>2. job'[p] = seq
    BY <1>0, <2>1, JobSet DEF IInv
  <2>3. JobInv(p)' /\ CarriedJob(p)'
    BY <2>1, <2>2, JobOf DEF JobInv, CarriedJob, JobType
  <2>4. msgs' \in Nat
    BY DEF IInv, TypeOK
  <2> QED  BY <1>0, <2>1, <2>3, <2>4, JobStep
<1>2. CASE ~conv[g].ok
  <2>0. SetJob(p, read) /\ SetConv(g, FreshConv)
    BY <1>2
  <2>1. /\ job' \in [Workers -> JobType] /\ job'[p] = read
        /\ \A q \in Workers : q # p => job'[q] = job[q]
    BY <1>0, <2>0, JobSet DEF IInv
  <2>2. /\ conv' \in [Groups -> ConvType] /\ conv'[g] = FreshConv
        /\ \A h \in Groups : h # g => conv'[h] = conv[h]
    BY <1>0, <2>0, ConvSet DEF IInv
  <2>3. \A h \in Groups : conv[h].ok => conv'[h].ok
    BY <2>2 DEF FreshConv
  <2>4. TypeOK'
    BY <2>1, <2>2 DEF IInv, TypeOK
  <2>5. JobInv(p)' /\ CarriedJob(p)'
    BY <1>0, <2>1, <2>2, JobOf DEF JobInv, CarriedJob, JobType, FreshConv
  <2>6. MemInv'
    BY <1>0, <2>0, FreshNumber, ConvFits
  <2> QED  BY <2>1, <2>3, <2>4, <2>5, <2>6, JobLocals, ListGrows, SameGrows, JobCarries DEF IInv
<1> QED  BY <1>1, <1>2

LEMMA ReadTreeKeeps ==
  ASSUME IInv, NEW p \in Workers, ReadTree(p)
  PROVE  IInv'
<1> DEFINE r == [job[p] EXCEPT !.pc = "conv", !.snap = tree[job[p].g]]
<1> USE DEF ReadTree, lists, stores
<1>1. r \in JobType
  BY JobOf DEF JobType
<1>2. job'[p] = r
  BY <1>1, JobSet DEF IInv
<1>3. JobInv(p)' /\ CarriedJob(p)'
  BY <1>2, JobOf DEF JobInv, CarriedJob, JobType, Below, TreeType
<1>4. msgs' \in Nat
  BY DEF IInv, TypeOK
<1> QED  BY <1>1, <1>3, <1>4, JobStep

LEMMA SyncConvKeeps ==
  ASSUME IInv, NEW p \in Workers, SyncConv(p)
  PROVE  IInv'
<1> DEFINE g == job[p].g
           c == [conv[g] EXCEPT !.seq = Larger(@, job[p].snap.seq)]
           r == [job[p] EXCEPT !.pc = "users", !.left = FindConvItems(g)]
<1> USE DEF SyncConv, lists, stores
<1>0. /\ g \in Groups /\ g \in created /\ conv[g] \in ConvType
      /\ job[p].snap \in TreeType /\ FindConvItems(g) \in SUBSET Invited(g)
  BY JobOf DEF JobType, JobInv, FindConvItems, IInv, ListInv
<1>1. r \in JobType /\ c \in ConvType /\ c.ok = conv[g].ok
  <2>1. Larger(conv[g].seq, job[p].snap.seq) \in Nat
    BY <1>0 DEF ConvType, TreeType, Larger
  <2>2. FindConvItems(g) \in SUBSET Users
    BY <1>0, InvitedAreUsers
  <2>3. r \in JobType
    BY <2>2, JobOf DEF JobType
  <2> QED  BY <1>0, <2>1, <2>3 DEF ConvType
<1>2. c.seq <= tree[g].seq
  BY <1>0, JobOf DEF ConvType, TreeType, Larger, CarriedJob, Below, IInv, MemInv
<1>3. /\ job' \in [Workers -> JobType] /\ job'[p] = r
      /\ \A q \in Workers : q # p => job'[q] = job[q]
  BY <1>1, JobSet DEF IInv
<1>4. /\ conv' \in [Groups -> ConvType] /\ conv'[g] = c
      /\ \A h \in Groups : h # g => conv'[h] = conv[h]
  BY <1>0, <1>1, ConvSet DEF IInv
<1>5. \A h \in Groups : conv[h].ok => conv'[h].ok
  BY <1>1, <1>4
<1>6. TypeOK'
  BY <1>3, <1>4 DEF IInv, TypeOK
<1>7. JobInv(p)' /\ CarriedJob(p)'
  <2>1. /\ r.pc = "users" /\ r.g = g /\ r.s = job[p].s /\ r.left = FindConvItems(g)
        /\ r.snap = job[p].snap
    BY JobOf DEF JobType
  <2>2. /\ job[p].pc = "conv" /\ job[p].s \in Invited(g) /\ conv[g].ok
        /\ Below(job[p].snap, tree[g])
    BY JobOf DEF JobInv, CarriedJob
  <2>3. /\ job'[p].pc = "users" /\ job'[p].g = g /\ job'[p].s \in Invited(g)
        /\ job'[p].left \in SUBSET Invited(g) /\ job'[p].snap = job[p].snap
    BY <1>0, <1>3, <2>1, <2>2
  <2>4. conv'[g].ok
    BY <1>1, <1>4, <2>2
  <2>5. JobInv(p)'
    BY <1>0, <2>3, <2>4 DEF JobInv
  <2>6. CarriedJob(p)'
    BY <2>2, <2>3 DEF CarriedJob
  <2> QED  BY <2>5, <2>6
<1>8. MemInv'
  BY <1>0, <1>1, <1>2, ConvFits
<1> QED  BY <1>3, <1>5, <1>6, <1>7, <1>8, JobLocals, ListGrows, SameGrows, JobCarries DEF IInv

LEMMA SyncMemberKeeps ==
  ASSUME IInv, NEW p \in Workers, NEW u \in Users, SyncMember(p, u)
  PROVE  IInv'
<1> DEFINE r == [job[p] EXCEPT !.u = u, !.w = uid2conv[u],
                   !.pc = IF uid2conv[u] = NoWrap THEN "fresh" ELSE "held"]
<1> USE DEF SyncMember, lists, stores
<1>1. r \in JobType /\ uid2conv[u] \in Wraps \cup {NoWrap}
  BY JobOf, ZenonT(40) DEF JobType, IInv, TypeOK
<1>2. job'[p] = r
  BY <1>1, JobSet DEF IInv
<1>3. JobInv(p)' /\ CarriedJob(p)'
  BY <1>1, <1>2, JobOf DEF JobInv, CarriedJob, JobType
<1>4. msgs' \in Nat
  BY DEF IInv, TypeOK
<1> QED  BY <1>1, <1>3, <1>4, JobStep

LEMMA SnappedFits ==
  ASSUME IInv, NEW p \in Workers, job[p].pc \in {"held", "fresh"}
  PROVE  /\ job[p].g \in Groups /\ job[p].u \in Users
         /\ Shown(job[p].g, job[p].u)
         /\ Fits(job[p].u, job[p].g, Snapped(p))
<1> DEFINE g == job[p].g
           u == job[p].u
           t == job[p].snap
<1>1. /\ g \in Groups /\ u \in Users /\ t \in TreeType /\ tree[g] \in TreeType
      /\ Below(t, tree[g]) /\ Shown(g, u)
  BY JobOf, InvitedAreUsers DEF JobType, JobInv, CarriedJob, Shown
<1>2. /\ t.seq \in Nat /\ t.browse[u] \in Nat /\ t.seq <= tree[g].seq
      /\ t.browse[u] <= tree[g].browse[u] /\ tree[g].seq \in Nat
  BY <1>1 DEF TreeType, Below
<1>3. Fits(u, g, Snapped(p))
  BY <1>2 DEF Fits, ItemType, Snapped, ReadBy, Positive
<1> QED  BY <1>1, <1>3

LEMMA NextMemberKeeps ==
  ASSUME IInv, NEW p \in Workers, job[p].pc \in {"held", "fresh"}, NextMember(p),
         UNCHANGED <<created, tree, conv, start, acks, rx, clear>>
  PROVE  /\ job' \in [Workers -> JobType]
         /\ LocalsInv' /\ CarriedInv'
<1> DEFINE j == job[p]
           left == j.left \ {j.u}
           r == IF left = {} THEN [Idle EXCEPT !.pc = "seq", !.g = j.g, !.s = j.s]
                ELSE [j EXCEPT !.pc = "users", !.left = left, !.u = NoUser, !.w = NoWrap]
<1>0. r \in JobType
  BY JobOf, ZenonT(40) DEF JobType, Idle, NoTree, TreeType
<1>1. /\ job' \in [Workers -> JobType] /\ job'[p] = r
      /\ \A q \in Workers : q # p => job'[q] = job[q]
  BY <1>0, JobSet DEF IInv, NextMember
<1>2. JobInv(p)' /\ CarriedJob(p)'
  BY <1>1, JobOf DEF JobInv, CarriedJob, JobType, Idle
<1> QED  BY <1>1, <1>2, JobLocals, SameGrows, JobCarries

LEMMA SyncHeldKeeps ==
  ASSUME IInv, NEW p \in Workers, SyncHeld(p)
  PROVE  IInv'
<1> DEFINE g == job[p].g
           u == job[p].u
           w == job[p].w
           r == [job[p] EXCEPT !.pc = "fresh"]
<1> USE DEF SyncHeld, lists, stores
<1>1. CASE InWrap(g, u, w)
  <2>1. item' \in [Users -> [Groups -> ItemType]] /\ MemInv'
    <3>1. CASE SetItem(u, g, Snapped(p))
      BY <3>1, SnappedFits, ItemFits
    <3>2. CASE UNCHANGED item
      BY <3>2, MemKept DEF IInv, TypeOK
    <3> QED  BY <1>1, <3>1, <3>2
  <2>2. job' \in [Workers -> JobType] /\ LocalsInv' /\ CarriedInv'
    BY <1>1, NextMemberKeeps
  <2>3. TypeOK'
    BY <2>1, <2>2 DEF IInv, TypeOK
  <2> QED  BY <2>1, <2>2, <2>3, ListKept DEF IInv
<1>2. CASE ~InWrap(g, u, w)
  <2>1. SetJob(p, r) /\ UNCHANGED item
    BY <1>2 DEF GoTo
  <2>2. r \in JobType
    BY JobOf DEF JobType
  <2>3. job'[p] = r
    BY <2>1, <2>2, JobSet DEF IInv
  <2>4. JobInv(p)' /\ CarriedJob(p)'
    BY <2>3, JobOf DEF JobInv, CarriedJob, JobType
  <2>5. msgs' \in Nat
    BY DEF IInv, TypeOK
  <2> QED  BY <2>1, <2>2, <2>4, <2>5, JobStep
<1> QED  BY <1>1, <1>2

LEMMA SyncFreshKeeps ==
  ASSUME IInv, NEW p \in Workers, SyncFresh(p)
  PROVE  IInv'
<1> DEFINE g == job[p].g
           u == job[p].u
           w == uid2conv[u]
<1> USE DEF SyncFresh, lists, stores
<1>0. /\ g \in Groups /\ u \in Users /\ Shown(g, u) /\ p \in Wraps
      /\ Fits(u, g, Snapped(p))
  BY SnappedFits, JobOf
<1>1. /\ wraps' \in [Users -> [Wraps -> Seq(Groups)]] /\ ListInv'
      /\ uid2conv' \in [Users -> Wraps \cup {NoWrap}]
  <2>1. CASE w = NoWrap /\ PutWrap(u, p, <<g>>)
    <3>1. <<g>> \in Seq(Groups) /\ IsInjective(<<g>>) /\ ToSet(<<g>>) = {g}
      <4>1. <<g>> \in Seq(Groups)
        BY ONLY <1>0
      <4> QED  BY ONLY <4>1, ShortSeqs
    <3>2. wraps' \in [Users -> [Wraps -> Seq(Groups)]] /\ ListInv'
      BY <1>0, <2>1, <3>1, WrapLists DEF PutWrap
    <3>3. uid2conv' \in [Users -> Wraps \cup {NoWrap}]
      BY <1>0, <2>1 DEF PutWrap, IInv, TypeOK
    <3> QED  BY <3>2, <3>3
  <2>2. CASE w # NoWrap /\ UNCHANGED <<wraps, uid2conv>>
    BY <2>2, ListKept DEF IInv, TypeOK
  <2>3. CASE /\ w # NoWrap /\ ~Listed(g, u) /\ UNCHANGED uid2conv
             /\ wraps' = [wraps EXCEPT ![u][w] = Append(@, g)]
    <3>1. w \in Wraps /\ ~InWrap(g, u, w)
      BY <1>0, <2>3 DEF IInv, TypeOK, Listed
    <3>2. /\ Append(wraps[u][w], g) \in Seq(Groups)
          /\ IsInjective(Append(wraps[u][w], g))
          /\ \A h \in ToSet(Append(wraps[u][w], g)) : Shown(h, u)
      BY <1>0, <3>1, Listing
    <3>3. wraps' = [wraps EXCEPT ![u][w] = Append(wraps[u][w], g)]
      BY <2>3
    <3> QED  BY <1>0, <2>3, <3>1, <3>2, <3>3, WrapLists DEF IInv, TypeOK
  <2> QED  BY <2>1, <2>2, <2>3
<1>2. item' \in [Users -> [Groups -> ItemType]] /\ MemInv'
  BY <1>0, ItemFits
<1>3. job' \in [Workers -> JobType] /\ LocalsInv' /\ CarriedInv'
  BY NextMemberKeeps
<1>4. TypeOK'
  BY <1>1, <1>2, <1>3 DEF IInv, TypeOK
<1> QED  BY <1>1, <1>2, <1>3, <1>4 DEF IInv

\* The hash takes the next number.
LEMMA NumberedGrows ==
  ASSUME IInv, NEW g \in Groups, NEW s \in Users, Numbered(g, s), UNCHANGED <<conv, item>>
  PROVE  /\ Grows /\ MemInv'
         /\ tree[g].seq + 1 <= tree'[g].browse[s]
<1> DEFINE n == tree[g].seq + 1
           t == [seq |-> n, browse |-> [tree[g].browse EXCEPT ![s] = n]]
<1>1. /\ tree[g] \in TreeType
      /\ \A u \in Users : tree[g].browse[u] <= tree[g].seq
  BY DEF IInv, TypeOK, MemInv
<1>2. tree[g].seq \in Nat /\ tree[g].browse \in [Users -> Nat]
  BY <1>1 DEF TreeType
<1>3. /\ t \in TreeType /\ t.browse[s] = n
      /\ Below(tree[g], t) /\ \A u \in Users : t.browse[u] <= t.seq
  BY <1>1, <1>2 DEF TreeType, Below
<1>4. SetTree(g, t)
  BY DEF Numbered
<1> HIDE DEF t
<1>5. /\ tree'[g] = t
      /\ \A h \in Groups : h # g => tree'[h] = tree[h]
  BY <1>3, <1>4, TreeSet DEF IInv
<1>6. Grows
  BY <1>3, <1>4, TreeGrows
<1>7. \A h \in Groups, u \in Users : tree'[h].browse[u] <= tree'[h].seq
  BY <1>3, <1>5 DEF IInv, MemInv
<1>8. tree'[g].browse[s] = n
  BY <1>3, <1>5
<1> QED  BY <1>2, <1>6, <1>7, <1>8, MemGrows

LEMMA ModifyConvTreeKeeps ==
  ASSUME IInv, NEW p \in Workers, ModifyConvTree(p)
  PROVE  IInv'
<1> DEFINE j == job[p]
           n == tree[j.g].seq + 1
           r == [j EXCEPT !.pc = "publish", !.seq = n]
<1> USE DEF ModifyConvTree, lists, stores
<1>0. /\ j.g \in Groups /\ j.s \in Users /\ n \in Nat
      /\ j.g \in created /\ j.s \in Invited(j.g) /\ j.left \subseteq Invited(j.g)
  BY JobOf DEF TreeType, JobInv
<1>1. r \in JobType
  BY <1>0, JobOf DEF JobType
<1>2. /\ job' \in [Workers -> JobType] /\ job'[p] = r
      /\ \A q \in Workers : q # p => job'[q] = job[q]
  BY <1>1, JobSet DEF IInv
<1>3. /\ Grows /\ MemInv'
      /\ n <= tree'[j.g].browse[j.s]
  BY <1>0, NumberedGrows
<1>4. r.pc = "publish" /\ r.seq = n /\ r.g = j.g /\ r.s = j.s /\ r.left = j.left
  BY JobOf DEF JobType
<1>5. TypeOK'
  BY <1>2, <1>3 DEF IInv, TypeOK, Grows
<1>6. JobInv(p)' /\ CarriedJob(p)'
  BY <1>0, <1>2, <1>3, <1>4 DEF JobInv, CarriedJob, ReadBy
<1> QED  BY <1>2, <1>3, <1>5, <1>6, JobLocals, ListKept, JobCarries DEF IInv

LEMMA ModifyConvTreeFailsKeeps ==
  ASSUME IInv, NEW p \in Workers, ModifyConvTreeFails(p)
  PROVE  IInv'
<1> USE DEF ModifyConvTreeFails, lists, stores
<1>1. CASE UNCHANGED tree
  BY <1>1, ReturnsKeeps
<1>2. CASE Numbered(job[p].g, job[p].s)
  <2>1. /\ job' \in [Workers -> JobType] /\ job'[p] = Idle
        /\ \A q \in Workers : q # p => job'[q] = job[q]
    BY NoValues, JobSet DEF IInv, Returns
  <2>2. Grows /\ MemInv'
    BY <1>2, JobOf, NumberedGrows
  <2>3. JobInv(p)' /\ CarriedJob(p)'
    BY <2>1 DEF JobInv, CarriedJob, Idle
  <2>4. TypeOK'
    BY <2>1, <2>2 DEF IInv, TypeOK, Grows
  <2> QED  BY <2>1, <2>2, <2>3, <2>4, JobLocals, ListKept, JobCarries DEF IInv
<1> QED  BY <1>1, <1>2

LEMMA SendMsgKeeps ==
  ASSUME IInv, NEW p \in Workers, SendMsg(p)
  PROVE  IInv'
<1> DEFINE j == job[p]
           a == [g |-> j.g, seq |-> j.seq, s |-> j.s]
<1> USE DEF SendMsg, lists, stores
<1>1. CASE UNCHANGED acks
  BY <1>1, ReturnsKeeps
<1>2. CASE acks' = Append(acks, a)
  <2>1. acks \in Seq(AckType) /\ a \in AckType /\ ReadBy(j.g, j.s, j.seq)
    BY JobOf DEF IInv, TypeOK, AckType, JobType, CarriedJob
  <2>2. /\ acks' \in Seq(AckType) /\ Len(acks') = Len(acks) + 1
        /\ \A i \in 1 .. Len(acks) : acks'[i] = acks[i]
        /\ acks'[Len(acks) + 1] = a /\ Len(acks) \in Nat
    BY <1>2, <2>1, AppendProperties, LenProperties
  <2>3. /\ job' \in [Workers -> JobType] /\ job'[p] = Idle
        /\ \A q \in Workers : q # p => job'[q] = job[q]
    BY NoValues, JobSet DEF IInv, Returns
  <2>4. JobInv(p)' /\ CarriedJob(p)'
    BY <2>3 DEF JobInv, CarriedJob, Idle
  <2>5. TypeOK'
    BY <2>2, <2>3 DEF IInv, TypeOK
  <2>6. \A q \in Workers : CarriedJob(q)'
    BY <2>3, <2>4, SameGrows, JobStays
  <2>7. ASSUME NEW i \in 1 .. Len(acks')
        PROVE  ReadBy(acks'[i].g, acks'[i].s, acks'[i].seq)
    <3>1. CASE i \in 1 .. Len(acks)
      BY <3>1, <2>2 DEF IInv, CarriedInv
    <3>2. CASE i = Len(acks) + 1
      BY <3>2, <2>1, <2>2
    <3> QED  BY <2>2, <3>1, <3>2
  <2>8. CarriedInv'
    BY <2>6, <2>7 DEF IInv, CarriedInv, ReadBy
  <2> QED  BY <2>3, <2>4, <2>5, <2>8, JobLocals, ListKept, MemKept DEF IInv
<1> QED  BY <1>1, <1>2

-----------------------------------------------------------------------------
(* receiveMqSendAsyncResult and ClearUnread *)

LEMMA RxConvKeeps ==
  ASSUME IInv, RxConv
  PROVE  IInv'
<1> DEFINE a == Head(acks)
           c == [conv[a.g] EXCEPT !.seq = Larger(@, a.seq)]
<1> USE DEF RxConv, lists, stores
<1>1. /\ a \in AckType /\ acks' \in Seq(AckType)
      /\ \A i \in 1 .. Len(acks') : acks'[i] = acks[i + 1] /\ i + 1 \in 1 .. Len(acks)
      /\ a = acks[1] /\ 1 \in 1 .. Len(acks)
  <2>1. acks \in Seq(AckType) /\ acks # <<>>
    BY DEF IInv, TypeOK
  <2> QED  BY <2>1, HeadTailProperties, LenProperties
<1>2. /\ a.g \in Groups /\ a.s \in Users /\ a.seq \in Nat /\ ReadBy(a.g, a.s, a.seq)
      /\ conv[a.g] \in ConvType /\ tree[a.g] \in TreeType
      /\ conv[a.g].seq <= tree[a.g].seq /\ tree[a.g].browse[a.s] <= tree[a.g].seq
  BY <1>1 DEF AckType, IInv, TypeOK, MemInv, CarriedInv
<1>3. c \in ConvType /\ c.ok = conv[a.g].ok /\ c.seq <= tree[a.g].seq
  BY <1>2 DEF ConvType, TreeType, ReadBy, Larger
<1>4. /\ conv' \in [Groups -> ConvType] /\ MemInv'
      /\ \A h \in Groups : conv[h].ok => conv'[h].ok
  <2>1. CASE SetConv(a.g, c)
    BY <1>2, <1>3, <2>1, ConvSet, ConvFits DEF IInv
  <2>2. CASE UNCHANGED conv
    BY <2>2, MemKept DEF IInv, TypeOK
  <2> QED  BY <2>1, <2>2
<1>5. rx' \in RxType /\ rx'.g = a.g /\ rx'.s = a.s /\ rx'.seq = a.seq
  <2>1. PICK forward \in SUBSET Invited(a.g) :
          rx' = [g |-> a.g, seq |-> a.seq, s |-> a.s, left |-> forward \cup {a.s}]
    OBVIOUS
  <2> QED  BY <1>2, <2>1, InvitedAreUsers DEF RxType
<1>6. TypeOK'
  BY <1>1, <1>4, <1>5 DEF IInv, TypeOK
<1>7. LocalsInv'
  <2>1. ASSUME NEW h \in Groups PROVE StartInv(h)'
    BY <1>4 DEF IInv, LocalsInv, StartInv
  <2>2. ASSUME NEW p \in Workers PROVE JobInv(p)'
    BY <1>4 DEF IInv, TypeOK, LocalsInv, JobInv
  <2> QED  BY <1>2, <1>5, <2>1, <2>2 DEF IInv, LocalsInv
<1>8. CarriedInv'
  <2>1. ASSUME NEW p \in Workers PROVE CarriedJob(p)'
    BY SameGrows, JobStays
  <2>2. ASSUME NEW i \in 1 .. Len(acks')
        PROVE  ReadBy(acks'[i].g, acks'[i].s, acks'[i].seq)
    BY <1>1 DEF IInv, CarriedInv
  <2> QED  BY <1>2, <1>5, <2>1, <2>2 DEF IInv, CarriedInv, ReadBy
<1> QED  BY <1>4, <1>6, <1>7, <1>8, ListGrows DEF IInv

LEMMA RxItemKeeps ==
  ASSUME IInv, NEW u \in Users, RxItem(u)
  PROVE  IInv'
<1> DEFINE g == rx.g
           i == item[u][g]
           r == IF u = rx.s THEN OwnResult(i) ELSE OthersResult(i)
<1> USE DEF RxItem, lists, stores
<1>1. /\ g \in Groups /\ rx.s \in Users /\ rx.seq \in Nat /\ rx \in RxType
      /\ ReadBy(g, rx.s, rx.seq) /\ Fits(u, g, i)
      /\ tree[g] \in TreeType /\ tree[g].browse[rx.s] <= tree[g].seq
  BY DEF IInv, TypeOK, RxType, LocalsInv, CarriedInv, MemInv, Fits
<1>2. /\ i.browse \in Nat /\ i.unread \in Nat /\ i.browse <= tree[g].browse[u]
      /\ rx.seq <= tree[g].seq /\ tree[g].seq \in Nat /\ tree[g].browse[u] \in Nat
      /\ i = [browse |-> i.browse, unread |-> i.unread]
  BY <1>1 DEF Fits, ItemType, ReadBy, TreeType
<1>3. Fits(u, g, r)
  <2>1. CASE u = rx.s
    BY <2>1, <1>1, <1>2, SMTT(30) DEF Fits, ItemType, ReadBy, OwnResult, Larger, Positive
  <2>2. CASE u # rx.s
    <3>1. r = [browse |-> i.browse, unread |-> Positive(rx.seq - i.browse)]
      BY <2>2, <1>2 DEF OthersResult
    <3> QED  BY <3>1, <1>1, <1>2 DEF Fits, ItemType, ReadBy, Positive
  <2> QED  BY <2>1, <2>2
<1>4. item' \in [Users -> [Groups -> ItemType]] /\ MemInv'
  <2>1. CASE SetItem(u, g, r)
    BY <2>1, <1>1, <1>3, ItemFits
  <2>2. CASE UNCHANGED item
    BY <2>2, MemKept DEF IInv, TypeOK
  <2> QED  BY <2>1, <2>2
<1>5. /\ rx' \in RxType
      /\ rx'.left # {} => rx'.g = g /\ rx'.s = rx.s /\ rx'.seq = rx.seq
  BY <1>1, NoValues DEF RxType, RxIdle
<1>6. TypeOK'
  BY <1>4, <1>5 DEF IInv, TypeOK
<1>7. LocalsInv'
  BY <1>1, <1>5 DEF IInv, LocalsInv, StartInv, JobInv
<1>8. CarriedInv'
  BY <1>1, <1>5 DEF IInv, CarriedInv, CarriedJob, ReadBy
<1> QED  BY <1>4, <1>6, <1>7, <1>8, ListKept DEF IInv

LEMMA ClearTreeKeeps ==
  ASSUME IInv, NEW c \in Clearers, NEW g \in Groups, NEW u \in Users, ClearTree(c, g, u)
  PROVE  IInv'
<1> DEFINE n == tree[g].seq
           t == [tree[g] EXCEPT !.browse[u] = n]
           k == [u |-> u, g |-> g, seq |-> n]
<1> USE DEF ClearTree, lists, stores
<1>1. /\ tree[g] \in TreeType
      /\ \A v \in Users : tree[g].browse[v] <= tree[g].seq
  BY DEF IInv, TypeOK, MemInv
<1>2. /\ n \in Nat /\ tree[g].browse \in [Users -> Nat]
      /\ t = [seq |-> n, browse |-> [tree[g].browse EXCEPT ![u] = n]]
  BY <1>1 DEF TreeType
<1>3. /\ t \in TreeType /\ t.browse[u] = n
      /\ Below(tree[g], t) /\ \A v \in Users : t.browse[v] <= t.seq
  BY <1>1, <1>2 DEF TreeType, Below
<1>4. SetTree(g, t)
  OBVIOUS
<1> HIDE DEF t
<1>5. /\ tree'[g] = t
      /\ \A h \in Groups : h # g => tree'[h] = tree[h]
  BY <1>3, <1>4, TreeSet DEF IInv
<1>6. Grows
  BY <1>3, <1>4, TreeGrows
<1>7. \A h \in Groups, v \in Users : tree'[h].browse[v] <= tree'[h].seq
  BY <1>3, <1>5 DEF IInv, MemInv
<1>8. MemInv'
  BY <1>6, <1>7, MemGrows
<1>9. k \in ClearType /\ k.g \in Groups /\ k.u \in Users /\ k.seq <= tree'[k.g].browse[k.u]
  BY <1>2, <1>3, <1>5 DEF ClearType
<1>10. /\ clear' \in [Clearers -> ClearType]
       /\ \A d \in Clearers : clear'[d] = clear[d] \/ (d = c /\ clear'[d] = k)
  BY <1>9, ClearSet DEF IInv, TypeOK
<1> HIDE DEF k
<1>11. TypeOK'
  BY <1>6, <1>10 DEF IInv, TypeOK, Grows
<1>12. LocalsInv'
  BY <1>9, <1>10 DEF IInv, LocalsInv, StartInv, JobInv
<1>13. CarriedInv'
  <2>1. \A q \in Workers : CarriedJob(q)'
    BY <1>6, JobStays
  <2>2. (\A i \in 1 .. Len(acks) : ReadBy(acks[i].g, acks[i].s, acks[i].seq))'
    BY <1>6, AcksStay DEF ReadBy
  <2>3. (rx.left # {} => ReadBy(rx.g, rx.s, rx.seq))'
    BY <1>6, RxStays DEF ReadBy
  <2>4. ASSUME NEW d \in Clearers, clear'[d] # ClearIdle
        PROVE  clear'[d].seq <= tree'[clear'[d].g].browse[clear'[d].u]
    BY <1>6, <1>9, <1>10, <2>4, ClearStays
  <2> QED  BY <2>1, <2>2, <2>3, <2>4 DEF CarriedInv, ReadBy, ClearIdle
<1> QED  BY <1>8, <1>11, <1>12, <1>13, ListKept DEF IInv

LEMMA ClearMemKeeps ==
  ASSUME IInv, NEW c \in Clearers, ClearMem(c)
  PROVE  IInv'
<1> DEFINE g == clear[c].g
           u == clear[c].u
           r == [browse |-> clear[c].seq, unread |-> 0]
<1> USE DEF ClearMem, lists, stores
<1>1. /\ g \in Groups /\ u \in Users /\ clear[c].seq \in Nat
      /\ ReadBy(g, u, clear[c].seq) /\ tree[g].seq \in Nat
  BY DEF IInv, TypeOK, ClearType, TreeType, LocalsInv, CarriedInv
<1>2. Fits(u, g, r)
  BY <1>1 DEF Fits, ItemType, ReadBy, Positive
<1>3. item' \in [Users -> [Groups -> ItemType]] /\ MemInv'
  <2>1. CASE SetItem(u, g, r)
    BY <2>1, <1>1, <1>2, ItemFits
  <2>2. CASE UNCHANGED item
    BY <2>2, MemKept DEF IInv, TypeOK
  <2> QED  BY <2>1, <2>2
<1>4. /\ clear' \in [Clearers -> ClearType] /\ clear'[c] = ClearIdle
      /\ \A d \in Clearers : d # c => clear'[d] = clear[d]
  BY NoValues, ClearSet DEF IInv
<1>5. TypeOK'
  BY <1>3, <1>4 DEF IInv, TypeOK
<1>6. LocalsInv'
  BY <1>4 DEF IInv, LocalsInv, StartInv, JobInv
<1>7. CarriedInv'
  BY <1>4 DEF IInv, CarriedInv, CarriedJob, ReadBy
<1> QED  BY <1>3, <1>5, <1>6, <1>7, ListKept DEF IInv

LEMMA CrashKeeps ==
  ASSUME IInv, Crash
  PROVE  IInv'
<1> USE DEF Crash, stores
<1>1. TypeOK'
  BY NoValues, ShortSeqs DEF IInv, TypeOK, NoConv, FreshItem, ConvType, ItemType
<1>2. LocalsInv'
  BY DEF LocalsInv, StartInv, JobInv, NotStarting, Idle, RxIdle
<1>3. ListInv'
  BY ShortSeqs DEF IInv, ListInv
<1>4. MemInv'
  BY DEF IInv, TypeOK, TreeType, MemInv, NoConv, ReadBy, FreshItem, Positive
<1>5. CarriedInv'
  BY DEF CarriedInv, CarriedJob, Idle, RxIdle
<1> QED  BY <1>1, <1>2, <1>3, <1>4, <1>5 DEF IInv

-----------------------------------------------------------------------------
(* The theorems *)

LEMMA StepKeeps == IInv /\ [Next]_vars => IInv'
<1> SUFFICES ASSUME IInv, [Next]_vars PROVE IInv'
  OBVIOUS
<1>1. ASSUME NEW g \in Groups, StartStep(g)
      PROVE  IInv'
  BY <1>1, CreateGroupChatKeeps, UpsertLookKeeps, UpsertConvKeeps, UpsertMemberKeeps,
     UpsertWrapKeeps, UpsertItemKeeps DEF StartStep
<1>2. ASSUME NEW p \in Workers, HandleStep(p)
      PROVE  IInv'
  BY <1>2, LoadLockedKeeps, LoadFailsKeeps, ReadTreeKeeps, SyncConvKeeps,
     SyncMemberKeeps, SyncHeldKeeps, SyncFreshKeeps, ModifyConvTreeKeeps,
     ModifyConvTreeFailsKeeps, SendMsgKeeps DEF HandleStep
<1>3. CASE UNCHANGED vars
  <2> USE <1>3 DEF vars, stores, lists, threads
  <2>1. TypeOK'
    BY DEF IInv, TypeOK
  <2>2. LocalsInv'
    BY DEF IInv, LocalsInv, StartInv, JobInv
  <2> QED  BY <2>1, <2>2, ListKept, MemKept, CarriedKept DEF IInv
<1> QED
  BY <1>1, <1>2, <1>3, SendStartKeeps, RxConvKeeps, RxItemKeeps, ClearTreeKeeps,
     ClearMemKeeps, CrashKeeps DEF Next

\* What the threads carry and what every wrap holds, at all times.
THEOREM Inductive == Spec => []IInv
BY InitInv, StepKeeps, PTL DEF Spec

\* Every variable keeps its kind, and no unread count is negative: the
\* subtractions of groupConvHandle and receiveMqSendAsyncResult are cut off at 0.
THEOREM TypeCorrect == Spec => []TypeOK
BY Inductive, PTL DEF IInv

\* The lists of UpsertGroupChatConv and groupConvHandle never hold a conversation
\* twice, whichever of them made the wrap and whichever replaced it.
THEOREM NoneListedTwice == Spec => []ListedOnce
<1>1. IInv => ListedOnce
  BY DEF IInv, TypeOK, ListInv, ListedOnce
<1> QED  BY <1>1, Inductive, PTL

\* convList never meets a conversation that is not in convId2items.
THEOREM ListsAreWhole == Spec => []NoHole
<1>1. IInv => NoHole
  <2> SUFFICES ASSUME IInv, NEW u \in Users, NEW g \in Groups, Listed(g, u)
               PROVE  conv[g].ok
    BY DEF NoHole
  <2>1. uid2conv[u] \in Wraps
    BY DEF IInv, TypeOK, Listed
  <2> QED  BY <2>1 DEF IInv, ListInv, Listed, InWrap, Shown
<1> QED  BY <1>1, Inductive, PTL

\* What RecentlyConvList answers from memory is covered by what SyncHotConvList
\* answers from the stores, after any failures, replaced wraps and crashes, whoever
\* was left out by UsersUnitInfo; only those that were are shown a conversation of
\* which they have no row, with numbers the hash has.
THEOREM RecentIsCovered == Spec => []HotCoversRecent
<1>1. IInv => HotCoversRecent
  <2> SUFFICES ASSUME IInv, NEW u \in Users, NEW r \in RecentlyConvList(u)
               PROVE  \/ \E h \in SyncHotConvList(u) :
                           h.g = r.g /\ r.seq <= h.seq /\ r.browse <= h.browse
                      \/ LET t == GetUserConvTree(r.g, u)
                         IN /\ u \in Invited(r.g) \ FindConvItems(r.g)
                            /\ r.seq <= t.seq /\ r.browse <= t.browse
    BY DEF HotCoversRecent
  <2>1. PICK g \in Groups :
          /\ Listed(g, u)
          /\ r = [g |-> g, seq |-> conv[g].seq, browse |-> item[u][g].browse,
                  unread |-> item[u][g].unread]
    BY DEF RecentlyConvList
  <2>2. Shown(g, u)
    BY <2>1 DEF IInv, TypeOK, ListInv, Listed, InWrap
  <2>3. r.g = g /\ r.seq <= tree[g].seq /\ r.browse <= tree[g].browse[u]
    BY <2>1 DEF IInv, MemInv, ReadBy
  <2>4. CASE u \in rows[g]
    <3> DEFINE h == [g |-> g, seq |-> tree[g].seq, browse |-> tree[g].browse[u],
                     unread |-> Positive(tree[g].seq - tree[g].browse[u])]
    <3>1. h \in SyncHotConvList(u)
      BY <2>4 DEF SyncHotConvList, FindUserConvItems, GetUserConvTree
    <3>2. h.g = r.g /\ r.seq <= h.seq /\ r.browse <= h.browse
      BY <2>3
    <3> QED  BY <3>1, <3>2
  <2>5. CASE u \notin rows[g]
    BY <2>2, <2>3, <2>5 DEF Shown, FindConvItems, GetUserConvTree
  <2> QED  BY <2>4, <2>5
<1> QED  BY <1>1, Inductive, PTL

\* No count in memory is larger than the number of messages after the position.
THEOREM UnreadIsReal == Spec => []NoPhantomUnread
<1>1. IInv => NoPhantomUnread
  BY DEF IInv, MemInv, NoPhantomUnread, RecentlyConvList
<1> QED  BY <1>1, Inductive, PTL
=============================================================================
