------------------------- MODULE ConvManagerProofs -------------------------
(***************************************************************************)
(* Theorems about ConvManager, for any members and workers, any number of  *)
(* messages and of crashes: the hash in Redis implements ConvLog, and what *)
(* is in memory, on its way to memory or on its way to the message server  *)
(* never says more than the hash.                                          *)
(***************************************************************************)
EXTENDS ConvManager, SequenceLemmas

-----------------------------------------------------------------------------
(* The inductive invariant *)

JobType == [pc : {"idle", "lock", "create", "redis", "tree", "conv", "items", "seq",
                  "publish"},
            s : Users \cup {NoUser}, id : Seqs, seq : Seqs, left : SUBSET Users,
            snap : TreeType]
AckType == [id : Seqs, seq : Seqs, s : Users, ok : BOOLEAN]

ConvType == [ok : BOOLEAN, seq : Seqs, lastId : Seqs, lastMsg : Seqs]
ItemType == [Users -> [ok : BOOLEAN, browse : Seqs, unread : Seqs]]

\* The numbers are those of the messages issued, one each, in 1 .. tree.seq.
Ids == {m.id : m \in issued}
LogInv ==
  /\ \A m \in issued : 1 <= m.seq /\ m.seq <= tree.seq
  /\ \A m, n \in issued : m.seq = n.seq => m = n
  /\ \A u \in Users : tree.browse[u] <= tree.seq
  /\ Ids \subseteq 1 .. nextId - 1 /\ tree.seq = Cardinality(Ids)

\* What a worker holds: a message of its own, not numbered before the script ran;
\* a copy of the hash that is not ahead of it; the lock while it creates.
JobOk(p) ==
  /\ job[p].pc # "idle" => /\ job[p].s \in Users
                           /\ job[p].id \in 1 .. nextId - 1
  /\ job[p].pc \notin {"idle", "publish"} => job[p].id \notin Ids
  /\ job[p].pc = "publish" => /\ [id |-> job[p].id, seq |-> job[p].seq] \in issued
                              /\ job[p].seq <= tree.browse[job[p].s]
  /\ job[p].pc \in {"conv", "items"} =>
       /\ job[p].snap.seq <= tree.seq
       /\ \A u \in Users : job[p].snap.browse[u] <= tree.browse[u]
  /\ job[p].pc \in {"create", "redis"} <=> convLock = p
  /\ job[p].pc = "redis" => dbConv
  /\ job[p].pc \in {"tree", "conv", "items", "seq", "publish"} => conv.ok
JobInv ==
  /\ \A p \in Workers : JobOk(p)
  /\ \A p, q \in Workers : p # q /\ job[p].pc # "idle" /\ job[q].pc # "idle" =>
       job[p].id # job[q].id

\* A conversation is created only when nothing was numbered yet.
CreateInv ==
  /\ ~dbConv \/ convLock # NoWorker => tree.seq = 0
  /\ conv.ok => dbConv /\ convLock = NoWorker

\* What was published, and its result on the way to memory, is among the numbered
\* messages ms, and its sender's position is not before it.
AckOk(a, ms, pos) == [id |-> a.id, seq |-> a.seq] \in ms /\ a.seq <= pos[a.s]
AckInv ==
  /\ sent \subseteq issued
  /\ \A a \in ToSet(acks) : AckOk(a, issued, tree.browse)
  /\ rx.left # {} => rx.s \in Users /\ AckOk(rx, issued, tree.browse)

\* Memory, and what a clear carries to it, is not ahead of the hash.
MemInv ==
  /\ MemoryNotAhead /\ NoPhantomUnread
  /\ conv.lastMsg <= conv.lastId
  /\ \A c \in Clearers : clear[c].u # NoUser => clear[c].seq <= tree.browse[clear[c].u]

IInv == TypeOK /\ LogInv /\ JobInv /\ CreateInv /\ AckInv /\ MemInv

-----------------------------------------------------------------------------
(* What every step has in common *)

\* The hash only grows, and what was issued stays.
Grown ==
  /\ tree' \in TreeType
  /\ tree.seq <= tree'.seq
  /\ \A u \in Users : tree.browse[u] <= tree'.browse[u]
  /\ issued \subseteq issued'

LEMMA Types ==
  ASSUME TypeOK
  PROVE  /\ MaxMsgs \in Nat /\ tree.seq \in Nat /\ nextId \in Nat
         /\ tree \in TreeType /\ \A u \in Users : tree.browse[u] \in Nat
         /\ conv.seq \in Nat /\ conv.lastId \in Nat /\ conv.lastMsg \in Nat
         /\ \A u \in Users : item[u].browse \in Nat /\ item[u].unread \in Nat
         /\ \A p \in Workers : job[p] \in JobType
<1>1. MaxMsgs \in Nat /\ nextId \in Nat /\ \A n \in Seqs : n \in Nat
  BY ConvAssumption DEF TypeOK, Seqs
<1>2. tree \in TreeType /\ tree.seq \in Seqs /\ tree.browse \in [Users -> Seqs]
  BY DEF TypeOK, TreeType
<1>3. conv.seq \in Seqs /\ conv.lastId \in Seqs /\ conv.lastMsg \in Seqs
  BY DEF TypeOK
<1>4. \A u \in Users : item[u].browse \in Seqs /\ item[u].unread \in Seqs
  BY DEF TypeOK
<1>5. \A p \in Workers : job[p] \in JobType
  BY DEF TypeOK, JobType
<1> QED  BY <1>1, <1>2, <1>3, <1>4, <1>5

LEMMA ElementsType ==
  ASSUME NEW S, NEW s \in Seq(S), NEW e \in ToSet(s)
  PROVE  e \in S
<1>1. Len(s) \in Nat /\ DOMAIN s = 1..Len(s)
  BY LenProperties
<1>2. PICK i \in 1..Len(s) : s[i] = e
  BY <1>1 DEF ToSet
<1> QED  BY <1>2, ElementOfSeq

LEMMA NoTreeType == NoTree \in TreeType /\ FreshTree \in TreeType
                    /\ NoTree.seq = 0 /\ FreshTree.seq = 0
                    /\ \A u \in Users : NoTree.browse[u] = 0 /\ FreshTree.browse[u] = 0
<1>1. 0 \in Seqs
  BY ConvAssumption DEF Seqs
<1>2. NoTree \in TreeType
  BY <1>1 DEF NoTree, TreeType
<1>3. FreshTree \in TreeType /\ FreshTree.seq = NoTree.seq /\ FreshTree.browse = NoTree.browse
  BY <1>2 DEF FreshTree, TreeType
<1> QED  BY <1>2, <1>3 DEF NoTree

LEMMA IdleType == Idle \in JobType /\ Idle.pc = "idle"
BY ConvAssumption, NoTreeType DEF Idle, JobType, Seqs

LEMMA InitInv == Init => IInv
<1> SUFFICES ASSUME Init PROVE IInv
  OBVIOUS
<1> USE DEF Init
<1>1. TypeOK
  <2>1. 0 \in Seqs /\ nextId \in 1 .. MaxMsgs + 1 /\ crashes \in 0 .. MaxCrashes
    BY ConvAssumption DEF Seqs
  <2>2. tree \in TreeType /\ job \in [Workers -> JobType]
    BY NoTreeType, IdleType
  <2>3. conv \in [ok : BOOLEAN, seq : Seqs, lastId : Seqs, lastMsg : Seqs]
    BY <2>1 DEF NoConv
  <2>4. item \in [Users -> [ok : BOOLEAN, browse : Seqs, unread : Seqs]]
    BY <2>1 DEF NoItem
  <2>5. rx \in [id : Seqs, seq : Seqs, s : Users \cup {NoUser}, left : SUBSET Users]
    BY <2>1 DEF RxIdle
  <2>6. clear \in [Clearers -> ClearType]
    BY <2>1 DEF ClearIdle, ClearType
  <2>7. acks \in Seq(AckType)
    BY EmptySeq
  <2> QED  BY <2>1, <2>2, <2>3, <2>4, <2>5, <2>6, <2>7 DEF TypeOK, JobType, AckType
<1>2. LogInv
  <2>1. Ids = {}
    BY DEF Ids
  <2> QED  BY <2>1, NoTreeType, FS_EmptySet DEF LogInv
<1>3. JobInv
  BY IdleType, ConvAssumption DEF JobInv, JobOk
<1>4. CreateInv
  BY NoTreeType DEF CreateInv, NoConv
<1>5. AckInv
  BY DEF AckInv, ToSet, RxIdle
<1>6. MemInv
  BY NoTreeType
     DEF MemInv, MemoryNotAhead, NoPhantomUnread, NoConv, NoItem, ClearIdle, Positive
<1> QED  BY <1>1, <1>2, <1>3, <1>4, <1>5, <1>6 DEF IInv

LEMMA TreeStays ==
  ASSUME IInv, UNCHANGED <<tree, issued>>
  PROVE  Grown
BY Types DEF IInv, Grown

LEMMA LogStays ==
  ASSUME IInv, UNCHANGED <<tree, issued>>, nextId' \in Int, nextId <= nextId'
  PROVE  LogInv'
<1>1. Ids' = Ids
  BY DEF Ids
<1>2. 1 .. nextId - 1 \subseteq 1 .. nextId' - 1
  BY Types DEF IInv
<1> QED  BY <1>1, <1>2 DEF IInv, LogInv

\* One worker moves; the new numbers are of its message.
LEMMA JobMoves ==
  ASSUME IInv, Grown, NEW p \in Workers, NEW r \in JobType,
         job' = [job EXCEPT ![p] = r], nextId' \in Int, nextId <= nextId',
         \A m \in issued' \ issued : m.id = job[p].id /\ job[p].pc # "idle",
         \A q \in Workers \ {p} : convLock' = q <=> convLock = q,
         conv.ok => conv'.ok, dbConv => dbConv',
         r.pc = "idle" \/ (r.id = job[p].id /\ job[p].pc # "idle") \/ r.id = nextId,
         JobOk(p)'
  PROVE  JobInv' /\ job' \in [Workers -> JobType]
<1>1. /\ job' \in [Workers -> JobType] /\ job'[p] = r
      /\ \A q \in Workers \ {p} : job'[q] = job[q]
  BY DEF IInv, TypeOK, JobType
<1>2. ASSUME NEW q \in Workers \ {p} PROVE JobOk(q)'
  <2>1. JobOk(q) /\ job'[q] = job[q] /\ job[q] \in JobType
    BY <1>1, Types DEF IInv, JobInv
  <2>2. job[q].pc # "idle" => job[q].id \in 1 .. nextId' - 1
    BY <2>1, Types DEF JobOk, IInv
  <2>3. job[q].pc \notin {"idle", "publish"} => job[q].id \notin Ids'
    <3> SUFFICES ASSUME job[q].pc \notin {"idle", "publish"}, NEW m \in issued'
                 PROVE  m.id # job[q].id
      BY DEF Ids
    <3>1. CASE m \in issued
      BY <2>1, <3>1 DEF JobOk, Ids
    <3>2. CASE m \notin issued
      <4>1. m.id = job[p].id /\ job[p].pc # "idle"
        BY <3>2
      <4> QED  BY <4>1 DEF IInv, JobInv
    <3> QED  BY <3>1, <3>2
  <2>4. job[q].pc = "publish" => /\ [id |-> job[q].id, seq |-> job[q].seq] \in issued'
                                 /\ job[q].seq <= tree'.browse[job[q].s]
    <3> SUFFICES ASSUME job[q].pc = "publish"
                 PROVE  /\ [id |-> job[q].id, seq |-> job[q].seq] \in issued'
                        /\ job[q].seq <= tree'.browse[job[q].s]
      OBVIOUS
    <3>1. job[q].s \in Users /\ job[q].seq <= tree.browse[job[q].s]
      BY <2>1 DEF JobOk
    <3>2. /\ job[q].seq \in Int /\ tree.browse[job[q].s] \in Int
          /\ tree'.browse[job[q].s] \in Int /\ tree.browse[job[q].s] <= tree'.browse[job[q].s]
      BY <2>1, <3>1, Types DEF IInv, Grown, TreeType, JobType, Seqs
    <3> QED  BY <2>1, <3>1, <3>2 DEF JobOk, Grown
  <2>5. job[q].pc \in {"conv", "items"} =>
          /\ job[q].snap.seq <= tree'.seq
          /\ \A u \in Users : job[q].snap.browse[u] <= tree'.browse[u]
    <3>1. /\ job[q].snap.seq \in Int /\ \A u \in Users : job[q].snap.browse[u] \in Int
          /\ tree.seq \in Int /\ \A u \in Users : tree.browse[u] \in Int
          /\ tree'.seq \in Int /\ \A u \in Users : tree'.browse[u] \in Int
      BY <2>1, Types DEF IInv, Grown, TreeType, JobType, Seqs
    <3> QED  BY <2>1, <3>1 DEF JobOk, Grown
  <2>6. job[q].pc \in {"create", "redis"} <=> convLock' = q
    BY <2>1 DEF JobOk
  <2>7. /\ job[q].pc = "redis" => dbConv'
        /\ job[q].pc \in {"tree", "conv", "items", "seq", "publish"} => conv'.ok
    BY <2>1 DEF JobOk
  <2> QED  BY <2>1, <2>2, <2>3, <2>4, <2>5, <2>6, <2>7 DEF JobOk
<1>3. ASSUME NEW q \in Workers \ {p}, r.pc # "idle", job[q].pc # "idle"
      PROVE  r.id # job[q].id
  <2>1. job[q].id \in 1 .. nextId - 1
    BY <1>3 DEF IInv, JobInv, JobOk
  <2> QED  BY <1>3, <2>1, Types DEF IInv, JobInv
<1>4. \A q, h \in Workers : q # h /\ job'[q].pc # "idle" /\ job'[h].pc # "idle" =>
        job'[q].id # job'[h].id
  BY <1>1, <1>3 DEF IInv, JobInv
<1>5. \A q \in Workers : JobOk(q)'
  BY <1>2
<1> QED  BY <1>1, <1>4, <1>5 DEF JobInv

LEMMA AcksStay ==
  ASSUME IInv, Grown, UNCHANGED <<acks, rx, sent>>
  PROVE  AckInv'
<1>1. ASSUME NEW a, a.s \in Users, a.seq \in Int, AckOk(a, issued, tree.browse)
      PROVE  AckOk(a, issued', tree'.browse)
  <2>1. tree.browse[a.s] \in Int /\ tree'.browse[a.s] \in Int
    BY <1>1, Types DEF IInv, Grown, TreeType, Seqs
  <2> QED  BY <1>1, <2>1 DEF AckOk, Grown
<1>2. ASSUME NEW a \in ToSet(acks) PROVE a.s \in Users /\ a.seq \in Int
  <2>1. acks \in Seq(AckType)
    BY DEF IInv, TypeOK, AckType
  <2>2. a \in AckType
    BY <2>1, ElementsType
  <2> QED  BY <2>2 DEF AckType, Seqs
<1>3. rx.seq \in Int
  BY DEF IInv, TypeOK, Seqs
<1>4. sent \subseteq issued' /\ \A a \in ToSet(acks) : AckOk(a, issued', tree'.browse)
  BY <1>1, <1>2 DEF IInv, AckInv, Grown
<1>5. rx.left # {} => rx.s \in Users /\ AckOk(rx, issued', tree'.browse)
  BY <1>1, <1>3 DEF IInv, AckInv
<1> QED  BY <1>4, <1>5 DEF AckInv, AckOk

LEMMA MemStays ==
  ASSUME IInv, Grown, UNCHANGED <<conv, item, clear>>
  PROVE  MemInv'
<1>1. /\ tree.seq \in Int /\ tree'.seq \in Int /\ conv.seq \in Int
      /\ \A u \in Users : /\ tree.browse[u] \in Int /\ tree'.browse[u] \in Int
                          /\ item[u].browse \in Int /\ item[u].unread \in Int
      /\ \A c \in Clearers : clear[c] \in ClearType /\ clear[c].seq \in Int
  <2>1. tree'.seq \in Seqs /\ tree'.browse \in [Users -> Seqs]
    BY DEF Grown, TreeType
  <2>2. \A c \in Clearers : clear[c] \in ClearType /\ clear[c].seq \in Seqs
    BY DEF IInv, TypeOK, ClearType
  <2>3. \A n \in Seqs : n \in Int
    BY DEF Seqs
  <2> QED  BY <2>1, <2>2, <2>3, Types DEF IInv
<1>2. MemoryNotAhead'
  BY <1>1 DEF IInv, MemInv, MemoryNotAhead, Grown
<1>3. NoPhantomUnread'
  BY <1>1 DEF IInv, MemInv, NoPhantomUnread, Positive, Grown
<1>4. ASSUME NEW c \in Clearers, clear[c].u # NoUser
      PROVE  clear[c].seq <= tree'.browse[clear[c].u]
  <2>1. clear[c].u \in Users
    BY <1>1, <1>4 DEF ClearType
  <2>2. /\ clear[c].seq <= tree.browse[clear[c].u]
        /\ tree.browse[clear[c].u] <= tree'.browse[clear[c].u]
    BY <1>4, <2>1 DEF IInv, MemInv, Grown
  <2>3. /\ tree.browse[clear[c].u] \in Int /\ tree'.browse[clear[c].u] \in Int
        /\ clear[c].seq \in Int
    BY <1>1, <2>1
  <2> QED  BY <2>2, <2>3
<1> QED  BY <1>2, <1>3, <1>4 DEF IInv, MemInv

-----------------------------------------------------------------------------
(* p2pConvHandle *)

\* A worker that takes a step without one of the scripts.
LEMMA WorkerActs ==
  ASSUME IInv, NEW p \in Workers, NEW r \in JobType,
         job' = [job EXCEPT ![p] = r], JobOk(p)', convLock' \in Workers \cup {NoWorker},
         \A q \in Workers \ {p} : convLock' = q <=> convLock = q,
         r.pc = "idle" \/ (r.id = job[p].id /\ job[p].pc # "idle"),
         dbConv' \in {dbConv, TRUE}, conv' \in ConvType, item' \in ItemType, conv.ok => conv'.ok,
         CreateInv', MemInv',
         UNCHANGED <<tree, issued, acks, rx, clear, sent, nextId, crashes>>
  PROVE  IInv'
<1>1. Grown
  BY TreeStays
<1>2. LogInv' /\ AckInv'
  BY <1>1, LogStays, AcksStay, Types DEF IInv
<1>3. JobInv' /\ job' \in [Workers -> JobType]
  <2>1. nextId' \in Int /\ nextId <= nextId'
    BY Types DEF IInv
  <2>2. \A m \in issued' \ issued : m.id = job[p].id /\ job[p].pc # "idle"
    OBVIOUS
  <2>3. dbConv => dbConv'
    <3>1. CASE dbConv' = dbConv
      BY <3>1
    <3>2. CASE dbConv' = TRUE
      BY <3>2
    <3> QED  BY <3>1, <3>2
  <2> QED  BY <1>1, <2>1, <2>2, <2>3, JobMoves
<1>4. TypeOK'
  BY <1>3 DEF IInv, TypeOK, JobType, ConvType, ItemType
<1> QED  BY <1>2, <1>3, <1>4 DEF IInv

LEMMA WorkerMoves ==
  ASSUME IInv, NEW p \in Workers, NEW r \in JobType,
         job' = [job EXCEPT ![p] = r], JobOk(p)', convLock' \in Workers \cup {NoWorker},
         \A q \in Workers \ {p} : convLock' = q <=> convLock = q,
         r.pc = "idle" \/ (r.id = job[p].id /\ job[p].pc # "idle"),
         dbConv' \in {dbConv, TRUE}, CreateInv',
         UNCHANGED <<tree, issued, conv, item, acks, rx, clear, sent, nextId, crashes>>
  PROVE  IInv'
<1>1. MemInv'
  BY TreeStays, MemStays
<1>2. conv' \in ConvType /\ item' \in ItemType /\ (conv.ok => conv'.ok)
  BY DEF IInv, TypeOK, ConvType, ItemType
<1> QED  BY <1>1, <1>2, WorkerActs

LEMMA SendStartKeeps ==
  ASSUME IInv, NEW p \in Workers, NEW s \in Users, SendStart(p, s)
  PROVE  IInv'
<1> DEFINE pc == IF conv.ok THEN "seq" ELSE "lock"
           r == [Idle EXCEPT !.s = s, !.id = nextId, !.pc = pc]
<1>1. /\ job[p].pc = "idle" /\ nextId <= MaxMsgs /\ nextId' = nextId + 1
      /\ job' = [job EXCEPT ![p] = r]
      /\ UNCHANGED <<stores, memory, acks, rx, clear, sent, crashes>>
  BY DEF SendStart
<1>2. nextId \in Seqs /\ nextId \in Nat /\ nextId >= 1 /\ MaxMsgs \in Nat
  <2>1. nextId \in 1 .. MaxMsgs + 1 /\ MaxMsgs \in Nat
    BY ConvAssumption DEF IInv, TypeOK
  <2> QED  BY <1>1, <2>1 DEF Seqs
<1>3. r \in JobType /\ r.s = s /\ r.id = nextId /\ r.pc = pc
  <2>1. pc \in {"seq", "lock"}
    OBVIOUS
  <2> HIDE DEF pc
  <2> QED  BY <1>2, <2>1, IdleType DEF JobType
<1> HIDE DEF r
<1>4. Grown /\ job'[p] = r
  BY <1>1, TreeStays DEF stores, IInv, TypeOK
<1>5. JobOk(p)'
  <2>1. JobOk(p) /\ nextId \notin Ids /\ Ids' = Ids /\ nextId \in 1 .. nextId' - 1
    BY <1>1, <1>2 DEF stores, IInv, LogInv, JobInv, Ids
  <2> QED  BY <1>1, <1>3, <1>4, <2>1 DEF JobOk, memory
<1>6. JobInv' /\ job' \in [Workers -> JobType]
  <2>1. nextId' \in Int /\ nextId <= nextId' /\ (conv.ok => conv'.ok) /\ convLock' = convLock
        /\ (dbConv => dbConv')
    BY <1>1, <1>2 DEF memory, stores
  <2>2. \A m \in issued' \ issued : m.id = job[p].id /\ job[p].pc # "idle"
    BY <1>1 DEF stores
  <2> QED  BY <1>1, <1>3, <1>4, <1>5, <2>1, <2>2, JobMoves
<1>7. LogInv' /\ AckInv' /\ MemInv'
  BY <1>1, <1>2, <1>4, LogStays, AcksStay, MemStays DEF stores, memory
<1>8. TypeOK'
  BY <1>1, <1>2, <1>6 DEF stores, memory, IInv, TypeOK, JobType
<1>9. CreateInv'
  BY <1>1 DEF stores, memory, IInv, CreateInv
<1> QED  BY <1>6, <1>7, <1>8, <1>9 DEF IInv

\* The handler returns; with the lock it has released it.
LEMMA ReturnKeeps ==
  ASSUME IInv, NEW p \in Workers, Returns(p), job[p].pc # "idle",
         dbConv' \in {dbConv, TRUE},
         convLock' = IF convLock = p THEN NoWorker ELSE convLock,
         UNCHANGED <<tree, issued, conv, item, acks, rx, clear, sent, nextId, crashes>>
  PROVE  IInv'
<1>1. job' = [job EXCEPT ![p] = Idle] /\ job'[p] = Idle
  BY DEF Returns, IInv, TypeOK
<1>2. convLock' # p /\ convLock' \in Workers \cup {NoWorker}
  BY ConvAssumption DEF IInv, TypeOK
<1>3. JobOk(p)'
  BY <1>1, <1>2, IdleType DEF JobOk
<1>4. dbConv' \in {dbConv, TRUE}
  BY DEF IInv, TypeOK
<1>5. CreateInv'
  BY ConvAssumption DEF IInv, CreateInv, TypeOK
<1> QED  BY <1>1, <1>2, <1>3, <1>4, <1>5, IdleType, ConvAssumption, WorkerMoves

LEMMA NewConv ==
  /\ [NoConv EXCEPT !.ok = TRUE] \in ConvType
  /\ [NoConv EXCEPT !.ok = TRUE].ok
  /\ [NoConv EXCEPT !.ok = TRUE].seq = 0
  /\ [NoConv EXCEPT !.ok = TRUE].lastId = 0
  /\ [NoConv EXCEPT !.ok = TRUE].lastMsg = 0
<1>1. 0 \in Seqs
  BY ConvAssumption DEF Seqs
<1>2. NoConv \in ConvType /\ NoConv.seq = 0 /\ NoConv.lastId = 0 /\ NoConv.lastMsg = 0
  BY <1>1 DEF NoConv, ConvType
<1> QED  BY <1>2 DEF ConvType

\* A job that moves on keeps what it holds.
LEMMA GoToJob ==
  ASSUME IInv, NEW p \in Workers, NEW pc \in {"create", "redis", "tree", "seq"}, GoTo(p, pc)
  PROVE  /\ [job[p] EXCEPT !.pc = pc] \in JobType
         /\ job' = [job EXCEPT ![p] = [job[p] EXCEPT !.pc = pc]]
         /\ job'[p] = [job[p] EXCEPT !.pc = pc]
         /\ [job[p] EXCEPT !.pc = pc].id = job[p].id
         /\ job'[p].pc = pc /\ job'[p].id = job[p].id /\ job'[p].s = job[p].s
<1>1. job[p] \in JobType
  BY Types DEF IInv
<1>2. [job[p] EXCEPT !.pc = pc] \in JobType
  BY <1>1 DEF JobType
<1>3. job' = [job EXCEPT ![p] = [job[p] EXCEPT !.pc = pc]]
  BY DEF GoTo, IInv, TypeOK
<1>4. job'[p] = [job[p] EXCEPT !.pc = pc]
  BY <1>3 DEF IInv, TypeOK
<1> QED  BY <1>1, <1>2, <1>3, <1>4 DEF JobType

LEMMA GoToKeeps ==
  ASSUME IInv, NEW p \in Workers, NEW pc \in {"create", "redis", "tree", "seq"}, GoTo(p, pc),
         job[p].pc # "idle", JobOk(p)', convLock' \in {convLock, p},
         convLock' # convLock => convLock = NoWorker,
         dbConv' \in {dbConv, TRUE}, conv' \in ConvType, conv.ok => conv'.ok,
         CreateInv', MemInv',
         UNCHANGED <<tree, issued, item, acks, rx, clear, sent, nextId, crashes>>
  PROVE  IInv'
<1>1. PICK r \in JobType : job' = [job EXCEPT ![p] = r] /\ r.id = job[p].id
  BY GoToJob
<1>2. \A q \in Workers \ {p} : convLock' = q <=> convLock = q
  BY ConvAssumption
<1>3. convLock' \in Workers \cup {NoWorker} /\ dbConv' \in {dbConv, TRUE} /\ item' \in ItemType
  BY DEF IInv, TypeOK, ItemType
<1> QED  BY <1>1, <1>2, <1>3, WorkerActs

LEMMA LoadLockedKeeps ==
  ASSUME IInv, NEW p \in Workers, LoadLocked(p)
  PROVE  IInv'
<1>1. /\ job[p].pc = "lock" /\ convLock = NoWorker /\ job[p].pc # "idle"
      /\ UNCHANGED <<tree, issued, dbConv, item, acks, rx, clear, sent, nextId, crashes>>
  BY DEF LoadLocked, stores
<1>2. JobOk(p) /\ NoWorker # p /\ Ids' = Ids
  BY <1>1, ConvAssumption DEF IInv, JobInv, Ids
<1>3. conv \in ConvType /\ conv.ok \in BOOLEAN
  BY DEF IInv, TypeOK, ConvType
<1>4. UNCHANGED <<conv, item, clear>> => MemInv'
  BY <1>1, TreeStays, MemStays
<1>5. CASE conv.ok
  <2>1. GoTo(p, "seq") /\ UNCHANGED <<conv, convLock>>
    BY <1>5 DEF LoadLocked
  <2>2. JobOk(p)'
    BY <1>1, <1>2, <1>5, <2>1, GoToJob DEF JobOk
  <2>3. CreateInv'
    BY <1>1, <2>1 DEF IInv, CreateInv
  <2> QED  BY <1>1, <1>3, <1>4, <2>1, <2>2, <2>3, GoToKeeps
<1>6. CASE ~conv.ok /\ dbConv
  <2>1. GoTo(p, "tree") /\ convLock' = convLock /\ conv' = [NoConv EXCEPT !.ok = TRUE]
    BY <1>6 DEF LoadLocked
  <2>2. JobOk(p)'
    BY <1>1, <1>2, <2>1, GoToJob, NewConv DEF JobOk
  <2>3. CreateInv'
    BY <1>1, <1>6, <2>1 DEF IInv, CreateInv
  <2>4. conv' \in ConvType /\ conv'.ok /\ conv'.seq = 0 /\ conv'.lastId = 0 /\ conv'.lastMsg = 0
    BY <2>1, NewConv
  <2>5. MemInv'
    BY <1>1, <2>4, Types DEF IInv, MemInv, MemoryNotAhead, NoPhantomUnread
  <2> QED  BY <1>1, <2>1, <2>2, <2>3, <2>4, <2>5, GoToKeeps
<1>7. CASE ~conv.ok /\ ~dbConv
  <2>1. GoTo(p, "create") /\ convLock' = p /\ conv' = conv
    BY <1>7 DEF LoadLocked
  <2>2. JobOk(p)'
    BY <1>1, <1>2, <2>1, GoToJob DEF JobOk
  <2>3. CreateInv'
    BY <1>1, <1>7, <2>1 DEF IInv, CreateInv
  <2> QED  BY <1>1, <1>3, <1>4, <2>1, <2>2, <2>3, GoToKeeps
<1> QED  BY <1>3, <1>5, <1>6, <1>7

LEMMA FailuresKeep ==
  ASSUME IInv, NEW p \in Workers,
         LoadFails(p) \/ CreateRowsFails(p) \/ ReadTreeFails(p) \/ SendMsgFails(p)
  PROVE  IInv'
<1>1. JobOk(p) /\ dbConv \in BOOLEAN
  BY DEF IInv, JobInv, TypeOK
<1>2. /\ Returns(p) /\ job[p].pc # "idle" /\ dbConv' \in {dbConv, TRUE}
      /\ convLock' = IF convLock = p THEN NoWorker ELSE convLock
      /\ UNCHANGED <<tree, issued, conv, item, acks, rx, clear, sent, nextId, crashes>>
  <2>1. CASE LoadFails(p)
    BY <1>1, <2>1, ConvAssumption DEF LoadFails, stores, memory
  <2>2. CASE CreateRowsFails(p)
    BY <1>1, <2>2 DEF CreateRowsFails, JobOk
  <2>3. CASE ReadTreeFails(p)
    BY <1>1, <2>3 DEF ReadTreeFails, stores, memory, JobOk
  <2>4. CASE SendMsgFails(p)
    BY <1>1, <2>4 DEF SendMsgFails, stores, memory, JobOk
  <2> QED  BY <2>1, <2>2, <2>3, <2>4
<1> QED  BY <1>2, ReturnKeeps

LEMMA CreateRowsKeeps ==
  ASSUME IInv, NEW p \in Workers, CreateRows(p)
  PROVE  IInv'
<1>1. /\ job[p].pc = "create" /\ job[p].pc # "idle" /\ dbConv' = TRUE /\ GoTo(p, "redis")
      /\ UNCHANGED <<tree, issued, conv, item, convLock, acks, rx, clear, sent, nextId, crashes>>
  BY DEF CreateRows, memory
<1>2. JobOk(p) /\ convLock = p /\ Ids' = Ids
  BY <1>1 DEF IInv, JobInv, JobOk, Ids
<1>3. JobOk(p)'
  BY <1>1, <1>2, GoToJob DEF JobOk
<1>4. CreateInv'
  BY <1>1, <1>2, ConvAssumption DEF IInv, CreateInv
<1>5. MemInv' /\ conv' \in ConvType
  BY <1>1, TreeStays, MemStays DEF IInv, TypeOK, ConvType
<1> QED  BY <1>1, <1>3, <1>4, <1>5, GoToKeeps

\* Creation writes the numbers that are there already.
LEMMA CreateTreeSame ==
  ASSUME IInv, NEW p \in Workers, job[p].pc = "redis"
  PROVE  /\ convLock = p /\ ~conv.ok /\ issued = {} /\ tree.seq = 0
         /\ FreshTree.seq = tree.seq /\ FreshTree.browse = tree.browse
<1>1. convLock = p /\ convLock # NoWorker
  BY ConvAssumption DEF IInv, JobInv, JobOk
<1>2. tree.seq = 0 /\ ~conv.ok
  BY <1>1 DEF IInv, CreateInv
<1>3. issued = {}
  <2> SUFFICES ASSUME NEW m \in issued PROVE FALSE
    OBVIOUS
  <2>1. 1 <= m.seq /\ m.seq <= 0 /\ m.seq \in Int
    BY <1>2 DEF IInv, LogInv, TypeOK, Seqs
  <2> QED  BY <2>1
<1>4. ASSUME NEW u \in Users PROVE tree.browse[u] = 0
  BY <1>2, Types DEF IInv, LogInv
<1>5. tree.browse = FreshTree.browse
  <2>1. tree.browse \in [Users -> Seqs] /\ FreshTree.browse \in [Users -> Seqs]
    BY NoTreeType, Types DEF IInv, TreeType
  <2> QED  BY <1>4, <2>1, NoTreeType
<1> QED  BY <1>1, <1>2, <1>3, <1>5, NoTreeType

LEMMA TreeWritten ==
  ASSUME IInv, NEW p \in Workers, job[p].pc = "redis", tree' \in {tree, FreshTree},
         UNCHANGED <<issued, nextId>>
  PROVE  Grown /\ LogInv' /\ tree'.seq = tree.seq /\ tree'.browse = tree.browse
<1>1. tree'.seq = tree.seq /\ tree'.browse = tree.browse /\ tree' \in TreeType
  BY CreateTreeSame, NoTreeType, Types DEF IInv
<1>2. Ids' = Ids
  BY DEF Ids
<1> QED  BY <1>1, <1>2, Types DEF IInv, LogInv, Grown

LEMMA CreateTreeKeeps ==
  ASSUME IInv, NEW p \in Workers, CreateTree(p)
  PROVE  IInv'
<1> DEFINE r == [job[p] EXCEPT !.pc = "tree"]
<1>1. /\ job[p].pc = "redis" /\ tree' = FreshTree /\ conv' = [NoConv EXCEPT !.ok = TRUE]
      /\ convLock' = NoWorker /\ GoTo(p, "tree")
      /\ UNCHANGED <<dbConv, issued, item, acks, rx, clear, sent, nextId, crashes>>
  BY DEF CreateTree
<1>2. /\ convLock = p /\ ~conv.ok /\ tree.seq = 0 /\ dbConv /\ JobOk(p) /\ p # NoWorker
  BY <1>1, CreateTreeSame, ConvAssumption DEF IInv, JobInv, JobOk
<1>3. Grown /\ LogInv' /\ tree'.seq = tree.seq /\ tree'.browse = tree.browse
  BY <1>1, TreeWritten
<1>4. /\ conv' \in ConvType /\ conv'.ok /\ conv'.seq = 0 /\ conv'.lastId = 0 /\ conv'.lastMsg = 0
  BY <1>1, NewConv
<1>5. /\ r \in JobType /\ job' = [job EXCEPT ![p] = r] /\ job'[p].pc = "tree"
      /\ job'[p].id = job[p].id /\ job'[p].s = job[p].s /\ r.id = job[p].id
  BY <1>1, GoToJob
<1> HIDE DEF r
<1>6. JobOk(p)'
  <2>1. Ids' = Ids
    BY <1>1 DEF Ids
  <2> QED  BY <1>1, <1>2, <1>4, <1>5, <2>1 DEF JobOk
<1>7. JobInv' /\ job' \in [Workers -> JobType]
  <2>1. nextId' \in Int /\ nextId <= nextId' /\ (conv.ok => conv'.ok) /\ (dbConv => dbConv')
        /\ job[p].pc # "idle"
    BY <1>1, <1>2, Types DEF IInv
  <2>2. \A m \in issued' \ issued : m.id = job[p].id /\ job[p].pc # "idle"
    BY <1>1
  <2>3. \A q \in Workers \ {p} : convLock' = q <=> convLock = q
    BY <1>1, <1>2, ConvAssumption
  <2> QED  BY <1>3, <1>5, <1>6, <2>1, <2>2, <2>3, JobMoves
<1>8. AckInv'
  BY <1>1, <1>3, AcksStay
<1>9. MemInv'
  BY <1>1, <1>3, <1>4, Types DEF IInv, MemInv, MemoryNotAhead, NoPhantomUnread
<1>10. CreateInv'
  BY <1>1, <1>2, <1>3 DEF CreateInv
<1>11. TypeOK'
  BY <1>1, <1>3, <1>4, <1>7 DEF Grown, IInv, TypeOK, JobType, ConvType
<1> QED  BY <1>3, <1>7, <1>8, <1>9, <1>10, <1>11 DEF IInv

LEMMA CreateTreeFailsKeeps ==
  ASSUME IInv, NEW p \in Workers, CreateTreeFails(p)
  PROVE  IInv'
<1>1. /\ job[p].pc = "redis" /\ tree' \in {tree, FreshTree} /\ convLock' = NoWorker
      /\ Returns(p) /\ job' = [job EXCEPT ![p] = Idle]
      /\ UNCHANGED <<dbConv, issued, conv, item, acks, rx, clear, sent, nextId, crashes>>
  BY DEF CreateTreeFails, Returns
<1>2. /\ convLock = p /\ ~conv.ok /\ tree.seq = 0 /\ p # NoWorker
  BY <1>1, CreateTreeSame, ConvAssumption
<1>3. Grown /\ LogInv' /\ tree'.seq = tree.seq /\ tree'.browse = tree.browse
  BY <1>1, TreeWritten
<1>4. JobOk(p)'
  <2>1. job'[p] = Idle
    BY <1>1 DEF IInv, TypeOK
  <2> QED  BY <1>1, <1>2, <2>1, IdleType DEF JobOk
<1>5. JobInv' /\ job' \in [Workers -> JobType]
  <2>1. nextId' \in Int /\ nextId <= nextId' /\ (conv.ok => conv'.ok) /\ (dbConv => dbConv')
    BY <1>1, Types DEF IInv
  <2>2. \A m \in issued' \ issued : m.id = job[p].id /\ job[p].pc # "idle"
    BY <1>1
  <2>3. \A q \in Workers \ {p} : convLock' = q <=> convLock = q
    BY <1>1, <1>2, ConvAssumption
  <2> QED  BY <1>1, <1>3, <1>4, <2>1, <2>2, <2>3, IdleType, JobMoves
<1>6. AckInv' /\ MemInv'
  BY <1>1, <1>3, AcksStay, MemStays
<1>7. CreateInv'
  BY <1>1, <1>2, <1>3 DEF CreateInv, IInv
<1>8. TypeOK'
  BY <1>1, <1>3, <1>5 DEF Grown, IInv, TypeOK, JobType
<1> QED  BY <1>3, <1>5, <1>6, <1>7, <1>8 DEF IInv

LEMMA ReadTreeKeeps ==
  ASSUME IInv, NEW p \in Workers, ReadTree(p)
  PROVE  IInv'
<1> DEFINE r == [job[p] EXCEPT !.pc = "conv", !.snap = tree]
<1>1. /\ job[p].pc = "tree"
      /\ UNCHANGED <<tree, issued, dbConv, conv, item, convLock, acks, rx, clear, sent,
                     nextId, crashes>>
  BY DEF ReadTree, stores, memory
<1>2. job' = [job EXCEPT ![p] = r] /\ job'[p] = r
  BY DEF ReadTree, IInv, TypeOK
<1>3. /\ r \in JobType /\ r.pc = "conv" /\ r.snap = tree /\ r.id = job[p].id /\ r.s = job[p].s
  BY Types DEF IInv, JobType
<1> HIDE DEF r
<1>4. JobOk(p)'
  <2>1. Ids' = Ids /\ JobOk(p)
    BY <1>1 DEF Ids, IInv, JobInv
  <2>2. tree.seq <= tree.seq /\ \A u \in Users : tree.browse[u] <= tree.browse[u]
    BY Types DEF IInv
  <2> QED  BY <1>1, <1>2, <1>3, <2>1, <2>2 DEF JobOk
<1>5. CreateInv' /\ dbConv' \in {dbConv, TRUE} /\ convLock' \in Workers \cup {NoWorker}
  BY <1>1 DEF IInv, CreateInv, TypeOK
<1> QED  BY <1>1, <1>2, <1>3, <1>4, <1>5, WorkerMoves

LEMMA SyncConvKeeps ==
  ASSUME IInv, NEW p \in Workers, SyncConv(p)
  PROVE  IInv'
<1> DEFINE r == [job[p] EXCEPT !.pc = "items", !.left = Users]
<1>1. /\ job[p].pc = "conv"
      /\ conv' = [conv EXCEPT !.seq = IF @ <= job[p].snap.seq THEN job[p].snap.seq ELSE @]
      /\ UNCHANGED <<tree, issued, dbConv, item, convLock, acks, rx, clear, sent,
                     nextId, crashes>>
  BY DEF SyncConv, stores
<1>2. job' = [job EXCEPT ![p] = r] /\ job'[p] = r
  BY DEF SyncConv, IInv, TypeOK
<1>3. /\ r \in JobType /\ r.pc = "items" /\ r.snap = job[p].snap /\ r.id = job[p].id
      /\ r.s = job[p].s
  BY Types DEF IInv, JobType
<1>4. JobOk(p) /\ Ids' = Ids /\ conv \in ConvType /\ job[p].snap.seq \in Seqs
  BY <1>1, Types DEF Ids, IInv, JobInv, TypeOK, ConvType, JobType, TreeType
<1> HIDE DEF r
<1>5. /\ conv' \in ConvType /\ conv'.ok = conv.ok /\ conv'.lastId = conv.lastId
      /\ conv'.lastMsg = conv.lastMsg /\ conv'.seq \in {conv.seq, job[p].snap.seq}
  BY <1>1, <1>4 DEF ConvType
<1>6. JobOk(p)'
  BY <1>1, <1>2, <1>3, <1>4, <1>5 DEF JobOk
<1>7. MemInv'
  <2>1. conv'.seq <= tree.seq
    BY <1>1, <1>4, <1>5 DEF JobOk, IInv, MemInv, MemoryNotAhead
  <2> QED  BY <1>1, <1>5, <2>1 DEF IInv, MemInv, MemoryNotAhead, NoPhantomUnread
<1>8. /\ CreateInv' /\ dbConv' \in {dbConv, TRUE} /\ convLock' \in Workers \cup {NoWorker}
      /\ item' \in ItemType
  BY <1>1, <1>5 DEF IInv, CreateInv, TypeOK, ItemType
<1> QED  BY <1>1, <1>2, <1>3, <1>5, <1>6, <1>7, <1>8, WorkerActs

LEMMA SyncItemKeeps ==
  ASSUME IInv, NEW p \in Workers, NEW u \in Users, SyncItem(p, u)
  PROVE  IInv'
<1> DEFINE snap == job[p].snap
           pc == IF job[p].left = {u} THEN "seq" ELSE "items"
           r == [job[p] EXCEPT !.left = @ \ {u}, !.pc = pc]
           i == [ok |-> TRUE, browse |-> snap.browse[u],
                 unread |-> Positive(snap.seq - snap.browse[u])]
<1>1. /\ job[p].pc = "items" /\ item' = [item EXCEPT ![u] = i]
      /\ UNCHANGED <<tree, issued, dbConv, conv, convLock, acks, rx, clear, sent,
                     nextId, crashes>>
  BY DEF SyncItem, stores
<1>2. job' = [job EXCEPT ![p] = r] /\ job'[p] = r
  BY <1>1 DEF SyncItem, IInv, TypeOK
<1>3. /\ r \in JobType /\ r.pc = pc /\ r.snap = snap /\ r.id = job[p].id /\ r.s = job[p].s
  <2>1. pc \in {"seq", "items"}
    OBVIOUS
  <2> HIDE DEF pc
  <2> QED  BY <2>1, Types DEF IInv, JobType
<1>4. JobOk(p) /\ Ids' = Ids
  BY <1>1 DEF Ids, IInv, JobInv
<1> HIDE DEF r
<1>5. JobOk(p)'
  BY <1>1, <1>2, <1>3, <1>4 DEF JobOk
<1>6. /\ snap.seq \in Seqs /\ snap.browse[u] \in Seqs
      /\ snap.seq \in Nat /\ snap.browse[u] \in Nat
      /\ snap.seq <= tree.seq /\ snap.browse[u] <= tree.browse[u]
  BY <1>1, <1>4, Types DEF IInv, JobOk, JobType, TreeType, Seqs
<1>7. i.browse = snap.browse[u] /\ i.browse \in Seqs /\ i.unread \in Seqs
      /\ i.unread <= Positive(tree.seq - i.browse)
  BY <1>6, Types DEF IInv, Positive, Seqs
<1> HIDE DEF snap
<1>8. item' \in ItemType /\ item'[u] = i /\ \A v \in Users \ {u} : item'[v] = item[v]
  <2>1. item \in ItemType
    BY DEF IInv, TypeOK, ItemType
  <2>2. i \in [ok : BOOLEAN, browse : Seqs, unread : Seqs]
    BY <1>7
  <2> HIDE DEF i
  <2> QED  BY <1>1, <2>1, <2>2 DEF ItemType
<1> HIDE DEF i
<1>9. MemInv'
  BY <1>1, <1>6, <1>7, <1>8 DEF IInv, MemInv, MemoryNotAhead, NoPhantomUnread
<1>10. /\ CreateInv' /\ dbConv' \in {dbConv, TRUE} /\ convLock' \in Workers \cup {NoWorker}
       /\ conv' \in ConvType
  BY <1>1 DEF IInv, CreateInv, TypeOK, ConvType
<1> QED  BY <1>1, <1>2, <1>3, <1>5, <1>8, <1>9, <1>10, WorkerActs

\* The script gives the message of the worker the next number.
LEMMA NumberedEffect ==
  ASSUME IInv, NEW p \in Workers, job[p].pc = "seq", Numbered(p), UNCHANGED nextId
  PROVE  /\ Grown /\ LogInv' /\ tree'.seq = tree.seq + 1 /\ tree'.seq \in Seqs
         /\ tree'.browse = [tree.browse EXCEPT ![job[p].s] = tree.seq + 1]
         /\ issued' = issued \cup {[id |-> job[p].id, seq |-> tree.seq + 1]}
         /\ issued' \subseteq [id : Seqs, seq : Seqs]
         /\ job[p].s \in Users /\ job[p].id \notin Ids
<1> DEFINE s == job[p].s
           id == job[p].id
           n == tree.seq + 1
           m == [id |-> id, seq |-> n]
<1>1. /\ tree' = [tree EXCEPT !.ok = TRUE, !.seq = n, !.browse[s] = n]
      /\ issued' = issued \cup {m}
  BY DEF Numbered
<1>2. s \in Users /\ id \in 1 .. nextId - 1 /\ id \notin Ids
  BY DEF IInv, JobInv, JobOk
<1>3. /\ Ids \subseteq 1 .. nextId - 1 /\ tree.seq = Cardinality(Ids) /\ tree.seq \in Nat
      /\ nextId \in 1 .. MaxMsgs + 1 /\ MaxMsgs \in Nat
  BY Types DEF IInv, LogInv, TypeOK
<1>4. Ids' = Ids \cup {id}
  <2>1. m.id = id
    OBVIOUS
  <2> HIDE DEF m, id
  <2>2. issued' = issued \cup {m}
    BY <1>1
  <2>3. \A x : x \in Ids' <=> \E k \in issued' : x = k.id
    BY DEF Ids
  <2>4. \A x : x \in Ids <=> \E k \in issued : x = k.id
    BY DEF Ids
  <2> QED  BY <2>1, <2>2, <2>3, <2>4
<1>5. n = Cardinality(Ids') /\ n <= MaxMsgs /\ Ids' \subseteq 1 .. nextId - 1
  <2>1. /\ IsFiniteSet(1 .. nextId - 1) /\ Cardinality(1 .. nextId - 1) = nextId - 1
    <3>1. 1 \in Int /\ nextId - 1 \in Int /\ nextId - 1 >= 0 /\ (nextId - 1) - 1 + 1 = nextId - 1
      BY <1>3
    <3> DEFINE h == nextId - 1
    <3> HIDE DEF h
    <3>2. /\ IsFiniteSet(1 .. h)
          /\ Cardinality(1 .. h) = IF 1 > h THEN 0 ELSE h - 1 + 1
      BY <3>1, FS_Interval DEF h
    <3> QED  BY <3>1, <3>2 DEF h
  <2>2. IsFiniteSet(Ids)
    BY <1>3, <2>1, FS_Subset
  <2>3. Cardinality(Ids \cup {id}) = Cardinality(Ids) + 1
    BY <1>2, <2>2, FS_AddElement
  <2>4. Ids \cup {id} \subseteq 1 .. nextId - 1
    BY <1>2, <1>3
  <2>5. Cardinality(Ids \cup {id}) <= nextId - 1
    BY <2>1, <2>4, FS_Subset
  <2> QED  BY <1>3, <1>4, <2>3, <2>4, <2>5
<1>6. /\ tree'.seq = n /\ n \in Seqs /\ tree'.browse = [tree.browse EXCEPT ![s] = n]
      /\ tree' \in TreeType
  <2>1. n \in Seqs /\ tree \in TreeType
    BY <1>3, <1>5, Types DEF IInv, Seqs
  <2> HIDE DEF n
  <2> QED  BY <1>1, <1>2, <2>1 DEF TreeType
<1>7. issued' \subseteq [id : Seqs, seq : Seqs] /\ issued \subseteq [id : Seqs, seq : Seqs]
  <2>1. id \in Seqs
    BY <1>2, <1>3 DEF Seqs
  <2> QED  BY <1>1, <1>6, <2>1 DEF IInv, TypeOK
<1>8. \A u \in Users : tree'.browse[u] = IF u = s THEN n ELSE tree.browse[u]
  BY <1>2, <1>6, Types DEF IInv, TreeType
<1> HIDE DEF m
<1>9. m.id = id /\ m.seq = n
  BY DEF m
<1>10. \A k \in issued : 1 <= k.seq /\ k.seq <= tree.seq /\ k.seq \in Int
  BY <1>7 DEF IInv, LogInv, Seqs
<1>11. \A u \in Users : tree.browse[u] <= tree.seq /\ tree.browse[u] \in Nat
  BY Types DEF IInv, LogInv
<1> HIDE DEF s, id
<1>12. LogInv'
  <2>1. \A k \in issued' : 1 <= k.seq /\ k.seq <= tree'.seq
    BY <1>1, <1>3, <1>6, <1>9, <1>10
  <2>2. \A k, h \in issued' : k.seq = h.seq => k = h
    <3>1. \A k \in issued : k.seq # m.seq
      BY <1>3, <1>9, <1>10
    <3>2. \A k, h \in issued : k.seq = h.seq => k = h
      BY DEF IInv, LogInv
    <3> QED  BY <1>1, <3>1, <3>2
  <2>3. \A u \in Users : tree'.browse[u] <= tree'.seq
    BY <1>3, <1>6, <1>8, <1>11
  <2> QED  BY <1>5, <1>6, <2>1, <2>2, <2>3 DEF LogInv
<1>13. Grown
  BY <1>1, <1>3, <1>6, <1>8, <1>11 DEF Grown
<1> QED  BY <1>1, <1>2, <1>6, <1>7, <1>12, <1>13 DEF m, s, id

LEMMA ScriptKeeps ==
  ASSUME IInv, NEW p \in Workers, ModifyConvTree(p) \/ ModifyConvTreeFails(p)
  PROVE  IInv'
<1>1. /\ job[p].pc = "seq" /\ UNCHANGED <<dbConv, memory, acks, rx, clear, sent, nextId, crashes>>
      /\ \/ Numbered(p)
         \/ UNCHANGED <<tree, issued>> /\ ModifyConvTreeFails(p)
  BY DEF ModifyConvTree, ModifyConvTreeFails
<1>2. CASE UNCHANGED <<tree, issued>> /\ ModifyConvTreeFails(p)
  <2>1. convLock # p
    BY <1>1 DEF IInv, JobInv, JobOk
  <2>2. Returns(p) /\ UNCHANGED <<conv, item, convLock>>
    BY <1>1, <1>2 DEF ModifyConvTreeFails, memory
  <2> QED  BY <1>1, <1>2, <2>1, <2>2, ReturnKeeps
<1>3. CASE Numbered(p)
  <2> DEFINE s == job[p].s
             id == job[p].id
             m == [id |-> id, seq |-> tree.seq + 1]
  <2>1. /\ Grown /\ LogInv' /\ tree'.seq = tree.seq + 1 /\ tree'.seq \in Seqs
        /\ tree'.browse = [tree.browse EXCEPT ![s] = tree.seq + 1]
        /\ issued' = issued \cup {m} /\ issued' \subseteq [id : Seqs, seq : Seqs]
        /\ s \in Users /\ id \notin Ids
    BY <1>1, <1>3, NumberedEffect
  <2>2. tree'.browse[s] = tree.seq + 1
    BY <2>1, Types DEF IInv, TreeType
  <2>3. PICK r \in JobType :
          /\ job' = [job EXCEPT ![p] = r] /\ job'[p] = r /\ r.pc \in {"idle", "publish"}
          /\ r.pc = "publish" => r.id = id /\ r.s = s /\ r.seq = tree.seq + 1
    <3>1. CASE ModifyConvTree(p)
      <4> DEFINE r == [job[p] EXCEPT !.pc = "publish", !.seq = tree.seq + 1]
      <4>1. job' = [job EXCEPT ![p] = r] /\ job'[p] = r
        BY <3>1 DEF ModifyConvTree, IInv, TypeOK
      <4>2. tree.seq + 1 \in Seqs /\ job[p] \in JobType
        BY <2>1, Types DEF IInv
      <4>3. r \in JobType /\ r.pc = "publish" /\ r.id = id /\ r.s = s /\ r.seq = tree.seq + 1
        BY <4>2 DEF JobType
      <4> HIDE DEF r
      <4> QED  BY <4>1, <4>3
    <3>2. CASE ModifyConvTreeFails(p)
      <4>1. job' = [job EXCEPT ![p] = Idle] /\ job'[p] = Idle
        BY <3>2 DEF ModifyConvTreeFails, Returns, IInv, TypeOK
      <4> QED  BY <4>1, IdleType
    <3> QED  BY <3>1, <3>2
  <2>4. JobOk(p) /\ UNCHANGED <<conv, item, convLock>>
    BY <1>1 DEF IInv, JobInv, memory
  <2>5. JobOk(p)'
    <3>1. m \in issued' /\ tree.seq + 1 <= tree'.browse[s]
      BY <2>1, <2>2, Types DEF IInv
    <3> QED  BY <1>1, <2>3, <2>4, <3>1 DEF JobOk
  <2>6. JobInv' /\ job' \in [Workers -> JobType]
    <3>1. nextId' \in Int /\ nextId <= nextId' /\ (conv.ok => conv'.ok) /\ (dbConv => dbConv')
      BY <1>1, <2>4, Types DEF IInv
    <3>2. \A k \in issued' \ issued : k.id = job[p].id /\ job[p].pc # "idle"
      BY <1>1, <2>1
    <3>3. r.pc = "idle" \/ (r.id = job[p].id /\ job[p].pc # "idle")
      BY <1>1, <2>3
    <3>4. \A q \in Workers \ {p} : convLock' = q <=> convLock = q
      BY <2>4
    <3> QED  BY <2>1, <2>3, <2>5, <3>1, <3>2, <3>3, <3>4, JobMoves
  <2>7. AckInv' /\ MemInv'
    BY <1>1, <2>1, <2>4, AcksStay, MemStays
  <2>8. CreateInv'
    <3>1. conv.ok /\ dbConv /\ convLock = NoWorker
      BY <1>1, <2>4 DEF JobOk, IInv, CreateInv
    <3> QED  BY <1>1, <2>4, <3>1 DEF CreateInv
  <2>9. TypeOK'
    BY <1>1, <2>1, <2>4, <2>6 DEF Grown, IInv, TypeOK, JobType
  <2> QED  BY <2>1, <2>6, <2>7, <2>8, <2>9 DEF IInv
<1> QED  BY <1>1, <1>2, <1>3

LEMMA SendMsgKeeps ==
  ASSUME IInv, NEW p \in Workers, NEW taken \in BOOLEAN, NEW ok \in BOOLEAN,
         SendMsg(p, taken, ok)
  PROVE  IInv'
<1> DEFINE j == job[p]
           m == [id |-> j.id, seq |-> j.seq]
           a == [id |-> j.id, seq |-> j.seq, s |-> j.s, ok |-> ok]
<1>1. /\ j.pc = "publish" /\ acks' = Append(acks, a)
      /\ sent' = IF taken THEN sent \cup {m} ELSE sent
      /\ job' = [job EXCEPT ![p] = Idle]
      /\ UNCHANGED <<tree, issued, dbConv, conv, item, convLock, rx, clear, nextId, crashes>>
  BY DEF SendMsg, Returns, stores, memory
<1>2. /\ job[p] \in JobType /\ m \in issued /\ j.seq <= tree.browse[j.s] /\ convLock # p
      /\ j.s \in Users
  BY <1>1, Types DEF IInv, JobInv, JobOk
<1>3. a \in AckType /\ a.id = j.id /\ a.seq = j.seq /\ a.s = j.s
  BY <1>2 DEF JobType, AckType
<1> HIDE DEF a
<1>4. acks' \in Seq(AckType) /\ ToSet(acks') = ToSet(acks) \cup {a}
  <2>1. acks \in Seq(AckType)
    BY DEF IInv, TypeOK, AckType
  <2> QED  BY <1>1, <1>3, <2>1, AppendSet
<1>5. AckInv'
  <2>1. sent' \subseteq issued
    BY <1>1, <1>2 DEF IInv, AckInv
  <2>2. \A b \in ToSet(acks') : AckOk(b, issued, tree.browse)
    BY <1>2, <1>3, <1>4 DEF IInv, AckInv, AckOk
  <2> QED  BY <1>1, <2>1, <2>2 DEF IInv, AckInv
<1>6. Grown /\ LogInv' /\ MemInv'
  BY <1>1, TreeStays, LogStays, MemStays, Types DEF IInv
<1>7. JobInv' /\ job' \in [Workers -> JobType]
  <2>1. job'[p] = Idle
    BY <1>1 DEF IInv, TypeOK
  <2>2. JobOk(p)'
    BY <1>1, <1>2, <2>1, IdleType DEF JobOk
  <2>3. nextId' \in Int /\ nextId <= nextId' /\ (conv.ok => conv'.ok) /\ (dbConv => dbConv')
        /\ convLock' = convLock
    BY <1>1, Types DEF IInv
  <2>4. \A k \in issued' \ issued : k.id = job[p].id /\ job[p].pc # "idle"
    BY <1>1
  <2> QED  BY <1>1, <1>6, <2>2, <2>3, <2>4, IdleType, JobMoves
<1>8. TypeOK'
  <2>1. m \in [id : Seqs, seq : Seqs]
    BY <1>2 DEF JobType
  <2> QED  BY <1>1, <1>4, <1>7, <2>1 DEF IInv, TypeOK, JobType, AckType
<1>9. CreateInv'
  BY <1>1 DEF IInv, CreateInv
<1> QED  BY <1>5, <1>6, <1>7, <1>8, <1>9 DEF IInv

-----------------------------------------------------------------------------
(* receiveMqSendAsyncResult, OnMsgStored, ClearUnread and crashes *)

LEMMA JobsStay ==
  ASSUME IInv, Grown, UNCHANGED <<job, issued, nextId, dbConv, convLock>>, conv.ok => conv'.ok
  PROVE  JobInv'
<1>1. ASSUME NEW p \in Workers PROVE JobOk(p)'
  <2>1. JobOk(p) /\ Ids' = Ids /\ job[p] \in JobType
    BY Types DEF IInv, JobInv, Ids
  <2>2. job[p].pc = "publish" => job[p].seq <= tree'.browse[job[p].s]
    <3> SUFFICES ASSUME job[p].pc = "publish"
                 PROVE  job[p].seq <= tree'.browse[job[p].s]
      OBVIOUS
    <3>1. job[p].s \in Users /\ job[p].seq <= tree.browse[job[p].s]
      BY <2>1 DEF JobOk
    <3>2. /\ job[p].seq \in Int /\ tree.browse[job[p].s] \in Int
          /\ tree'.browse[job[p].s] \in Int /\ tree.browse[job[p].s] <= tree'.browse[job[p].s]
      BY <2>1, <3>1, Types DEF IInv, Grown, TreeType, JobType, Seqs
    <3> QED  BY <3>1, <3>2
  <2>3. job[p].pc \in {"conv", "items"} =>
          /\ job[p].snap.seq <= tree'.seq
          /\ \A u \in Users : job[p].snap.browse[u] <= tree'.browse[u]
    <3>1. /\ job[p].snap.seq \in Int /\ \A u \in Users : job[p].snap.browse[u] \in Int
          /\ tree.seq \in Int /\ \A u \in Users : tree.browse[u] \in Int
          /\ tree'.seq \in Int /\ \A u \in Users : tree'.browse[u] \in Int
      BY <2>1, Types DEF IInv, Grown, TreeType, JobType, Seqs
    <3> QED  BY <2>1, <3>1 DEF JobOk, Grown
  <2> QED  BY <2>1, <2>2, <2>3 DEF JobOk
<1> QED  BY <1>1 DEF IInv, JobInv

LEMMA RxErrorKeeps ==
  ASSUME IInv, RxError
  PROVE  IInv'
<1>1. /\ acks # <<>> /\ acks' = Tail(acks)
      /\ UNCHANGED <<stores, memory, job, rx, clear, sent, nextId, crashes>>
  BY DEF RxError
<1>2. acks' \in Seq(AckType) /\ ToSet(acks') \subseteq ToSet(acks)
  <2>1. acks \in Seq(AckType)
    BY DEF IInv, TypeOK, AckType
  <2> QED  BY <1>1, <2>1, TailSet
<1>3. AckInv'
  BY <1>1, <1>2 DEF stores, IInv, AckInv
<1>4. Grown /\ LogInv' /\ MemInv' /\ JobInv'
  BY <1>1, TreeStays, LogStays, MemStays, JobsStay, Types DEF IInv, stores, memory
<1>5. TypeOK' /\ CreateInv'
  BY <1>1, <1>2 DEF stores, memory, IInv, TypeOK, AckType, CreateInv
<1> QED  BY <1>3, <1>4, <1>5 DEF IInv

LEMMA RxConvKeeps ==
  ASSUME IInv, RxConv
  PROVE  IInv'
<1> DEFINE a == Head(acks)
<1>1. /\ acks # <<>> /\ acks' = Tail(acks)
      /\ conv' = IF conv.ok
                 THEN [conv EXCEPT !.seq = Larger(@, a.seq), !.lastId = Larger(@, a.id)]
                 ELSE conv
      /\ rx' = [id |-> a.id, seq |-> a.seq, s |-> a.s, left |-> Users]
      /\ UNCHANGED <<stores, item, convLock, job, clear, sent, nextId, crashes>>
  BY DEF RxConv
<1>2. /\ acks' \in Seq(AckType) /\ ToSet(acks') \subseteq ToSet(acks)
      /\ a \in AckType /\ a \in ToSet(acks)
  <2>1. acks \in Seq(AckType)
    BY DEF IInv, TypeOK, AckType
  <2> QED  BY <1>1, <2>1, TailSet, ElementsType
<1> HIDE DEF a
<1>3. AckOk(a, issued, tree.browse)
  BY <1>2 DEF IInv, AckInv
<1>4. AckInv'
  <2>1. AckOk(rx', issued, tree.browse) /\ rx'.s \in Users
    BY <1>1, <1>2, <1>3 DEF AckOk, AckType
  <2> QED  BY <1>1, <1>2, <2>1 DEF stores, IInv, AckInv
<1>5. conv \in ConvType /\ a.seq \in Seqs /\ a.id \in Seqs /\ a.seq \in Nat /\ a.id \in Nat
  BY <1>2 DEF IInv, TypeOK, ConvType, AckType, Seqs
<1>6. /\ conv' \in ConvType /\ conv'.ok = conv.ok /\ conv'.lastMsg = conv.lastMsg
      /\ conv'.seq \in {conv.seq, a.seq} /\ conv.lastId <= conv'.lastId
  <2> DEFINE n == Larger(conv.seq, a.seq)
             k == Larger(conv.lastId, a.id)
  <2>1. /\ n \in {conv.seq, a.seq} /\ n \in Seqs
        /\ k \in {conv.lastId, a.id} /\ k \in Seqs /\ conv.lastId <= k
    BY <1>5, Types DEF ConvType, Larger, IInv
  <2>2. conv' = IF conv.ok THEN [conv EXCEPT !.seq = n, !.lastId = k] ELSE conv
    BY <1>1
  <2> HIDE DEF n, k
  <2>3. CASE conv.ok
    BY <1>5, <2>1, <2>2, <2>3 DEF ConvType
  <2>4. CASE ~conv.ok
    BY <1>5, <2>2, <2>4, Types DEF IInv
  <2> QED  BY <2>3, <2>4
<1>7. MemInv'
  <2>1. a.seq <= tree.seq
    BY <1>3 DEF AckOk, IInv, LogInv
  <2>2. conv'.seq <= tree.seq
    BY <1>6, <2>1 DEF IInv, MemInv, MemoryNotAhead
  <2>3. conv'.lastMsg <= conv'.lastId
    <3>1. conv'.lastId \in Int
      BY <1>6 DEF ConvType, Seqs
    <3> QED  BY <1>6, <3>1, Types DEF IInv, MemInv
  <2> QED  BY <1>1, <2>2, <2>3 DEF stores, IInv, MemInv, MemoryNotAhead, NoPhantomUnread
<1>8. Grown /\ LogInv' /\ JobInv'
  BY <1>1, <1>6, TreeStays, LogStays, JobsStay, Types DEF IInv, stores
<1>9. CreateInv'
  BY <1>1, <1>6 DEF stores, IInv, CreateInv
<1>10. TypeOK'
  <2>1. rx' \in [id : Seqs, seq : Seqs, s : Users \cup {NoUser}, left : SUBSET Users]
    BY <1>1, <1>2 DEF AckType
  <2> QED  BY <1>1, <1>2, <1>6, <2>1 DEF stores, IInv, TypeOK, AckType, ConvType
<1> QED  BY <1>4, <1>7, <1>8, <1>9, <1>10 DEF IInv

\* One member's conversation in memory changes.
LEMMA ItemSet ==
  ASSUME IInv, NEW u \in Users, NEW i \in [ok : BOOLEAN, browse : Seqs, unread : Seqs],
         item' = item \/ item' = [item EXCEPT ![u] = i],
         i.browse <= tree.browse[u], i.unread <= Positive(tree.seq - i.browse),
         UNCHANGED <<tree, conv>>,
         \A c \in Clearers : clear'[c].u # NoUser => clear'[c] = clear[c]
  PROVE  MemInv' /\ item' \in ItemType
<1>1. item \in ItemType
  BY DEF IInv, TypeOK, ItemType
<1>2. item' \in ItemType /\ \A v \in Users : item'[v] = item[v] \/ (v = u /\ item'[v] = i)
  BY <1>1 DEF ItemType
<1>3. MemoryNotAhead'
  BY <1>2 DEF IInv, MemInv, MemoryNotAhead
<1>4. NoPhantomUnread'
  BY <1>2 DEF IInv, MemInv, NoPhantomUnread
<1>5. \A c \in Clearers : clear'[c].u # NoUser =>
                            clear'[c].seq <= tree.browse[clear'[c].u]
  BY DEF IInv, MemInv
<1> QED  BY <1>2, <1>3, <1>4, <1>5 DEF IInv, MemInv

LEMMA RxItemKeeps ==
  ASSUME IInv, NEW u \in Users, RxItem(u)
  PROVE  IInv'
<1> DEFINE i == IF u = rx.s
                THEN [item[u] EXCEPT !.browse = Larger(@, rx.seq), !.unread = 0]
                ELSE [item[u] EXCEPT !.unread = Positive(rx.seq - item[u].browse)]
<1>1. /\ u \in rx.left
      /\ item' = item \/ item' = [item EXCEPT ![u] = i]
      /\ rx' = IF rx.left = {u} THEN RxIdle ELSE [rx EXCEPT !.left = @ \ {u}]
      /\ UNCHANGED <<stores, conv, convLock, job, acks, clear, sent, nextId, crashes>>
  <2>1. item' = item \/ item' = [item EXCEPT ![u] = i]
    BY DEF RxItem, IInv, TypeOK
  <2> QED  BY <2>1 DEF RxItem
<1>2. /\ rx \in [id : Seqs, seq : Seqs, s : Users \cup {NoUser}, left : SUBSET Users]
      /\ rx.s \in Users /\ AckOk(rx, issued, tree.browse)
      /\ rx.seq \in Nat /\ rx.seq \in Seqs
  BY <1>1 DEF IInv, TypeOK, AckInv, Seqs
<1>3. rx.seq <= tree.seq /\ rx.seq <= tree.browse[rx.s]
  BY <1>2 DEF AckOk, IInv, LogInv
<1>4. /\ item[u] \in [ok : BOOLEAN, browse : Seqs, unread : Seqs]
      /\ item[u].browse \in Nat /\ item[u].browse <= tree.browse[u]
      /\ tree.browse[u] \in Nat /\ tree.seq \in Nat
  BY Types DEF IInv, TypeOK, MemInv, MemoryNotAhead
<1>5. /\ i \in [ok : BOOLEAN, browse : Seqs, unread : Seqs]
      /\ i.browse <= tree.browse[u] /\ i.unread <= Positive(tree.seq - i.browse)
  <2>1. CASE u = rx.s
    <3> DEFINE b == Larger(item[u].browse, rx.seq)
    <3>1. b \in {item[u].browse, rx.seq} /\ 0 \in Seqs
      BY ConvAssumption DEF Larger, Seqs
    <3>2. b \in Seqs /\ b <= tree.browse[u] /\ b \in Nat
      BY <1>2, <1>3, <1>4, <2>1, <3>1
    <3>3. 0 <= Positive(tree.seq - b)
      BY <1>4, <3>2 DEF Positive
    <3>4. i = [item[u] EXCEPT !.browse = b, !.unread = 0]
      BY <2>1
    <3> HIDE DEF b, i
    <3>5. i \in [ok : BOOLEAN, browse : Seqs, unread : Seqs] /\ i.browse = b /\ i.unread = 0
      BY <1>4, <3>1, <3>2, <3>4
    <3> QED  BY <3>2, <3>3, <3>5
  <2>2. CASE u # rx.s
    <3> DEFINE n == Positive(rx.seq - item[u].browse)
    <3>1. n \in Seqs /\ n <= Positive(tree.seq - item[u].browse)
      <4>1. rx.seq - item[u].browse <= rx.seq /\ MaxMsgs \in Nat /\ rx.seq <= MaxMsgs
        BY <1>2, <1>4, ConvAssumption DEF Seqs
      <4>2. n \in 0 .. MaxMsgs
        BY <1>2, <1>4, <4>1 DEF Positive
      <4>3. n <= Positive(tree.seq - item[u].browse)
        BY <1>2, <1>3, <1>4 DEF Positive
      <4> QED  BY <4>2, <4>3 DEF Seqs
    <3>2. i = [item[u] EXCEPT !.unread = n]
      BY <2>2
    <3> HIDE DEF n, i
    <3>3. /\ i \in [ok : BOOLEAN, browse : Seqs, unread : Seqs]
          /\ i.browse = item[u].browse /\ i.unread = n
      BY <1>4, <3>1, <3>2
    <3> QED  BY <1>4, <3>1, <3>3
  <2> QED  BY <2>1, <2>2
<1> HIDE DEF i
<1>6. MemInv' /\ item' \in ItemType
  BY <1>1, <1>5, ItemSet DEF stores
<1>7. /\ rx' \in [id : Seqs, seq : Seqs, s : Users \cup {NoUser}, left : SUBSET Users]
      /\ rx'.left # {} => rx'.s \in Users /\ AckOk(rx', issued, tree.browse)
  <2>1. CASE rx.left = {u}
    BY <1>1, <2>1, ConvAssumption DEF RxIdle, Seqs
  <2>2. CASE rx.left # {u}
    BY <1>1, <1>2, <2>2 DEF AckOk
  <2> QED  BY <2>1, <2>2
<1>8. AckInv'
  BY <1>1, <1>7 DEF stores, IInv, AckInv
<1>9. Grown /\ LogInv' /\ JobInv'
  BY <1>1, TreeStays, LogStays, JobsStay, Types DEF IInv, stores
<1>10. TypeOK' /\ CreateInv'
  BY <1>1, <1>6, <1>7 DEF stores, IInv, TypeOK, ItemType, CreateInv
<1> QED  BY <1>6, <1>8, <1>9, <1>10 DEF IInv

LEMMA OnMsgStoredKeeps ==
  ASSUME IInv, NEW m \in sent, OnMsgStored(m)
  PROVE  IInv'
<1>1. /\ m.id >= conv.lastId /\ conv' = [conv EXCEPT !.lastId = m.id, !.lastMsg = m.id]
      /\ UNCHANGED <<stores, item, convLock, job, acks, rx, clear, sent, nextId, crashes>>
  BY DEF OnMsgStored
<1>2. m.id \in Seqs /\ m.id \in Nat /\ conv \in ConvType
  BY DEF IInv, TypeOK, ConvType, Seqs
<1>3. /\ conv' \in ConvType /\ conv'.ok = conv.ok /\ conv'.seq = conv.seq
      /\ conv'.lastId = m.id /\ conv'.lastMsg = m.id
  BY <1>1, <1>2 DEF ConvType
<1>4. MemInv'
  BY <1>1, <1>2, <1>3 DEF stores, IInv, MemInv, MemoryNotAhead, NoPhantomUnread
<1>5. Grown /\ LogInv' /\ JobInv' /\ AckInv'
  BY <1>1, <1>3, TreeStays, LogStays, JobsStay, AcksStay, Types DEF IInv, stores
<1>6. TypeOK' /\ CreateInv'
  BY <1>1, <1>3 DEF stores, IInv, TypeOK, ConvType, CreateInv
<1> QED  BY <1>4, <1>5, <1>6 DEF IInv

LEMMA ClearTreeKeeps ==
  ASSUME IInv, NEW c \in Clearers, NEW u \in Users, ClearTree(c, u)
  PROVE  /\ IInv' /\ issued' = issued /\ tree'.seq = tree.seq
         /\ tree'.browse = [tree.browse EXCEPT ![u] = tree.seq]
<1>1. /\ tree' = [tree EXCEPT !.browse[u] = tree.seq]
      /\ clear' \in {clear, [clear EXCEPT ![c] = [u |-> u, seq |-> tree.seq]]}
      /\ UNCHANGED <<dbConv, issued, memory, job, acks, rx, sent, nextId, crashes>>
  BY DEF ClearTree
<1>2. /\ tree' \in TreeType /\ tree'.seq = tree.seq
      /\ tree'.browse = [tree.browse EXCEPT ![u] = tree.seq]
  BY <1>1, Types DEF IInv, TreeType
<1>3. \A v \in Users : tree'.browse[v] = IF v = u THEN tree.seq ELSE tree.browse[v]
  BY <1>2, Types DEF IInv, TreeType
<1>4. \A v \in Users : tree.browse[v] <= tree.seq /\ tree.browse[v] \in Nat
  BY Types DEF IInv, LogInv
<1>5. Grown
  BY <1>1, <1>2, <1>3, <1>4, Types DEF IInv, Grown
<1>6. LogInv'
  <2>1. Ids' = Ids
    BY <1>1 DEF Ids
  <2> QED  BY <1>1, <1>2, <1>3, <1>4, <2>1, Types DEF IInv, LogInv
<1>7. AckInv' /\ JobInv'
  BY <1>1, <1>5, AcksStay, JobsStay DEF memory
<1>8. MemInv'
  <2>1. /\ \A v \in Users : item[v].browse \in Nat
        /\ \A d \in Clearers : clear[d].seq \in Nat
    <3>1. \A v \in Users : item[v].browse \in Seqs
      BY DEF IInv, TypeOK
    <3>2. \A d \in Clearers : clear[d].seq \in Seqs
      BY DEF IInv, TypeOK, ClearType
    <3> QED  BY <3>1, <3>2 DEF Seqs
  <2>2. MemoryNotAhead'
    BY <1>1, <1>2, <1>3, <1>4, <2>1, Types DEF memory, IInv, MemInv, MemoryNotAhead
  <2>3. NoPhantomUnread'
    BY <1>1, <1>2 DEF memory, IInv, MemInv, NoPhantomUnread
  <2>4. ASSUME NEW d \in Clearers, clear'[d].u # NoUser
        PROVE  clear'[d].seq <= tree'.browse[clear'[d].u]
    <3>1. CASE clear'[d] = clear[d]
      <4>1. clear[d].seq <= tree.browse[clear[d].u] /\ clear[d].u \in Users
        BY <2>4, <3>1 DEF IInv, MemInv, TypeOK, ClearType
      <4>2. clear[d].seq \in Nat
        BY <2>1
      <4>3. tree.browse[clear[d].u] <= tree'.browse[clear[d].u]
        BY <1>3, <1>4, <4>1, Types DEF IInv
      <4> QED  BY <1>3, <1>4, <3>1, <4>1, <4>2, <4>3, Types DEF IInv
    <3>2. CASE clear'[d] # clear[d]
      <4>1. clear'[d].u = u /\ clear'[d].seq = tree.seq
        BY <1>1, <3>2 DEF IInv, TypeOK
      <4> QED  BY <1>3, <4>1, Types DEF IInv
    <3> QED  BY <3>1, <3>2
  <2> QED  BY <1>1, <2>2, <2>3, <2>4 DEF memory, IInv, MemInv
<1>9. CreateInv'
  BY <1>1, <1>2 DEF memory, IInv, CreateInv
<1>10. TypeOK'
  <2>1. [u |-> u, seq |-> tree.seq] \in ClearType
    BY DEF IInv, TypeOK, TreeType, ClearType
  <2>2. clear' \in [Clearers -> ClearType]
    BY <1>1, <2>1 DEF IInv, TypeOK
  <2> QED  BY <1>1, <1>2, <2>2 DEF memory, IInv, TypeOK
<1> QED  BY <1>1, <1>2, <1>6, <1>7, <1>8, <1>9, <1>10 DEF IInv

LEMMA ClearMemKeeps ==
  ASSUME IInv, NEW c \in Clearers, ClearMem(c)
  PROVE  IInv'
<1> DEFINE u == clear[c].u
           i == [item[u] EXCEPT !.browse = clear[c].seq, !.unread = 0]
<1>1. /\ u # NoUser /\ clear' = [clear EXCEPT ![c] = ClearIdle]
      /\ item' = item \/ item' = [item EXCEPT ![u] = i]
      /\ UNCHANGED <<stores, conv, convLock, job, acks, rx, sent, nextId, crashes>>
  <2>1. item' = item \/ item' = [item EXCEPT ![u] = i]
    BY DEF ClearMem, IInv, TypeOK
  <2> QED  BY <2>1 DEF ClearMem
<1>2. /\ u \in Users
      /\ clear[c].seq \in Seqs /\ clear[c].seq \in Nat /\ clear[c].seq <= tree.browse[u]
      /\ 0 \in Seqs /\ item[u] \in [ok : BOOLEAN, browse : Seqs, unread : Seqs]
  <2>1. u \in Users /\ clear[c].seq \in Seqs
    BY <1>1 DEF IInv, TypeOK, ClearType
  <2>2. clear[c].seq <= tree.browse[u]
    BY <1>1 DEF IInv, MemInv
  <2>3. item[u] \in [ok : BOOLEAN, browse : Seqs, unread : Seqs]
    BY <2>1 DEF IInv, TypeOK
  <2>4. 0 \in Seqs /\ clear[c].seq \in Nat
    BY <2>1, ConvAssumption DEF Seqs
  <2> QED  BY <2>1, <2>2, <2>3, <2>4
<1>3. /\ i \in [ok : BOOLEAN, browse : Seqs, unread : Seqs]
      /\ i.browse = clear[c].seq /\ i.unread = 0
  BY <1>2
<1> HIDE DEF i
<1>4. i.unread <= Positive(tree.seq - i.browse)
  BY <1>2, <1>3, Types DEF IInv, Positive
<1>5. /\ clear' \in [Clearers -> ClearType]
      /\ \A d \in Clearers : clear'[d].u # NoUser => clear'[d] = clear[d]
  BY <1>1, <1>2 DEF IInv, TypeOK, ClearIdle, ClearType
<1>6. MemInv' /\ item' \in ItemType
  BY <1>1, <1>2, <1>3, <1>4, <1>5, ItemSet DEF stores
<1>7. Grown /\ LogInv' /\ JobInv' /\ AckInv'
  BY <1>1, TreeStays, LogStays, JobsStay, AcksStay, Types DEF IInv, stores
<1>8. TypeOK' /\ CreateInv'
  BY <1>1, <1>5, <1>6 DEF stores, IInv, TypeOK, ItemType, CreateInv
<1> QED  BY <1>6, <1>7, <1>8 DEF IInv

\* After a crash memory says nothing, and nobody holds anything.
LEMMA CrashKeeps ==
  ASSUME IInv, Crash
  PROVE  IInv'
<1>1. /\ conv' = NoConv /\ item' = [u \in Users |-> NoItem] /\ convLock' = NoWorker
      /\ job' = [p \in Workers |-> Idle] /\ acks' = <<>> /\ rx' = RxIdle
      /\ clear' = [c \in Clearers |-> ClearIdle] /\ crashes < MaxCrashes
      /\ crashes' = crashes + 1 /\ UNCHANGED <<stores, sent, nextId>>
  BY DEF Crash
<1>2. 0 \in Seqs
  BY ConvAssumption DEF Seqs
<1>3. LogInv'
  BY <1>1, LogStays, Types DEF IInv, stores
<1>4. JobInv'
  BY <1>1, IdleType, ConvAssumption DEF JobInv, JobOk
<1>5. CreateInv'
  BY <1>1 DEF stores, IInv, CreateInv, NoConv
<1>6. AckInv'
  BY <1>1 DEF stores, IInv, AckInv, ToSet, RxIdle
<1>7. MemInv'
  BY <1>1, Types DEF stores, IInv, MemInv, MemoryNotAhead, NoPhantomUnread, Positive,
                     NoConv, NoItem, ClearIdle
<1>8. TypeOK'
  <2>1. job' \in [Workers -> JobType]
    BY <1>1, IdleType
  <2>2. conv' \in ConvType
    BY <1>1, <1>2 DEF NoConv, ConvType
  <2>3. item' \in ItemType
    BY <1>1, <1>2 DEF NoItem, ItemType
  <2>4. rx' \in [id : Seqs, seq : Seqs, s : Users \cup {NoUser}, left : SUBSET Users]
    BY <1>1, <1>2 DEF RxIdle
  <2>5. clear' \in [Clearers -> ClearType]
    BY <1>1, <1>2 DEF ClearIdle, ClearType
  <2>6. acks' \in Seq(AckType)
    BY <1>1, EmptySeq
  <2>7. crashes' \in 0 .. MaxCrashes
    BY <1>1, ConvAssumption DEF IInv, TypeOK
  <2> QED  BY <1>1, <2>1, <2>2, <2>3, <2>4, <2>5, <2>6, <2>7
           DEF stores, IInv, TypeOK, JobType, ConvType, ItemType, AckType
<1> QED  BY <1>3, <1>4, <1>5, <1>6, <1>7, <1>8 DEF IInv

-----------------------------------------------------------------------------
(* The theorems *)

LEMMA StepKeeps == IInv /\ [Next]_vars => IInv'
<1> SUFFICES ASSUME IInv, [Next]_vars PROVE IInv'
  OBVIOUS
<1>1. CASE UNCHANGED vars
  <2>1. /\ UNCHANGED <<stores, memory, job, acks, rx, clear, sent, nextId, crashes>>
        /\ UNCHANGED <<tree, issued, dbConv, conv, item, convLock>>
    BY <1>1 DEF vars, stores, memory
  <2>2. Grown /\ LogInv' /\ JobInv' /\ AckInv' /\ MemInv'
    BY <2>1, TreeStays, LogStays, JobsStay, AcksStay, MemStays, Types DEF IInv
  <2>3. TypeOK' /\ CreateInv'
    BY <2>1 DEF IInv, TypeOK, CreateInv
  <2> QED  BY <2>2, <2>3 DEF IInv
<1>2. CASE Next
  <2>1. ASSUME NEW p \in Workers, HandleStep(p) PROVE IInv'
    BY <2>1, LoadLockedKeeps, FailuresKeep, CreateRowsKeeps, CreateTreeKeeps,
       CreateTreeFailsKeeps, ReadTreeKeeps, SyncConvKeeps, SyncItemKeeps, ScriptKeeps,
       SendMsgKeeps DEF HandleStep
  <2>2. ASSUME RxStep PROVE IInv'
    BY <2>2, RxErrorKeeps, RxConvKeeps, RxItemKeeps DEF RxStep
  <2> QED  BY <1>2, <2>1, <2>2, SendStartKeeps, OnMsgStoredKeeps, ClearTreeKeeps,
              ClearMemKeeps, CrashKeeps DEF Next
<1> QED  BY <1>1, <1>2

\* The invariant holds throughout.
THEOREM Inductive == Spec => []IInv
<1> QED  BY InitInv, StepKeeps, PTL DEF Spec

\* Every variable keeps its type: no number runs ahead of the messages.
THEOREM TypeCorrect == Spec => []TypeOK
<1>1. IInv => TypeOK
  BY DEF IInv
<1> QED  BY Inductive, <1>1, PTL

\* No two messages on their way to the members share a number, whatever failed
\* or crashed between.
THEOREM NumbersAreUnique == Spec => []SentSeqUnique
<1>1. IInv => SentSeqUnique
  BY DEF IInv, LogInv, AckInv, SentSeqUnique
<1> QED  BY Inductive, <1>1, PTL

\* No load, result or clear that comes late puts memory ahead of the hash.
THEOREM MemoryFollows == Spec => []MemoryNotAhead
<1>1. IInv => MemoryNotAhead
  BY DEF IInv, MemInv
<1> QED  BY Inductive, <1>1, PTL

\* No unread count shows messages that are not there.
THEOREM UnreadIsReal == Spec => []NoPhantomUnread
<1>1. IInv => NoPhantomUnread
  BY DEF IInv, MemInv
<1> QED  BY Inductive, <1>1, PTL

\* In whatever order loads, results and stored messages arrive, what is shown of a
\* conversation never goes back.
THEOREM NeverGoesBack == Spec => ConvGrows
<1>1. IInv /\ [Next]_vars => [ConvGrowsStep]_vars
  <2> SUFFICES ASSUME IInv, Next, conv.ok, conv'.ok
               PROVE  conv.seq <= conv'.seq /\ conv.lastId <= conv'.lastId
                      /\ conv.lastMsg <= conv'.lastMsg
    BY DEF ConvGrowsStep
  <2>0. /\ conv.seq \in Nat /\ conv.lastId \in Nat /\ conv.lastMsg \in Nat
        /\ conv.lastMsg <= conv.lastId /\ conv \in ConvType
    BY Types DEF IInv, MemInv, TypeOK, ConvType
  <2>1. CASE conv' = conv
    BY <2>0, <2>1
  <2>2. ASSUME NEW p \in Workers, HandleStep(p), conv' # conv
        PROVE  SyncConv(p)
    <3>1. ~CreateTree(p)
      <4>1. ASSUME job[p].pc = "redis" PROVE FALSE
        BY <4>1, CreateTreeSame
      <4> QED  BY <4>1 DEF CreateTree
    <3>2. ~LoadLocked(p)
      BY <2>2 DEF LoadLocked
    <3> QED  BY <2>2, <3>1, <3>2
             DEF HandleStep, LoadFails, CreateRows, CreateRowsFails, CreateTreeFails, ReadTree,
                 ReadTreeFails, SyncItem, ModifyConvTree, ModifyConvTreeFails, SendMsg,
                 SendMsgFails, memory
  <2>3. ASSUME NEW p \in Workers, SyncConv(p)
        PROVE  conv.seq <= conv'.seq /\ conv.lastId = conv'.lastId /\ conv.lastMsg = conv'.lastMsg
    <3>1. conv' = [conv EXCEPT !.seq = IF @ <= job[p].snap.seq THEN job[p].snap.seq ELSE @]
      BY <2>3 DEF SyncConv
    <3> QED  BY <2>0, <3>1 DEF ConvType
  <2>4. ASSUME RxConv
        PROVE  /\ conv.seq <= conv'.seq /\ conv.lastId <= conv'.lastId
               /\ conv.lastMsg = conv'.lastMsg
    <3> DEFINE n == Larger(conv.seq, Head(acks).seq)
               k == Larger(conv.lastId, Head(acks).id)
    <3>1. Head(acks) \in AckType
      <4>1. acks # <<>> /\ acks \in Seq(AckType)
        BY <2>4 DEF RxConv, IInv, TypeOK, AckType
      <4> QED  BY <4>1, TailSet, ElementsType
    <3>2. conv.seq <= n /\ conv.lastId <= k
      <4>1. Head(acks).seq \in Int /\ Head(acks).id \in Int
        BY <3>1 DEF AckType, Seqs
      <4> QED  BY <2>0, <4>1 DEF Larger
    <3>3. conv' = [conv EXCEPT !.seq = n, !.lastId = k]
      BY <2>4 DEF RxConv
    <3> HIDE DEF n, k
    <3> QED  BY <2>0, <3>2, <3>3 DEF ConvType
  <2>5. ASSUME NEW m \in sent, OnMsgStored(m)
        PROVE  /\ conv.seq = conv'.seq /\ conv.lastId <= conv'.lastId
               /\ conv.lastMsg <= conv'.lastMsg
    <3>1. m.id >= conv.lastId /\ conv' = [conv EXCEPT !.lastId = m.id, !.lastMsg = m.id]
      BY <2>5 DEF OnMsgStored
    <3>2. m.id \in Nat
      BY DEF IInv, TypeOK, Seqs
    <3> QED  BY <2>0, <3>1, <3>2 DEF ConvType
  <2>6. CASE conv' # conv
    <3>1. ~Crash
      BY DEF Crash, NoConv
    <3>2. ASSUME NEW p \in Workers, NEW s \in Users PROVE ~SendStart(p, s)
      BY <2>6 DEF SendStart, memory
    <3>3. \A c \in Clearers : ~ClearMem(c)
      BY <2>6 DEF ClearMem
    <3>4. \A u \in Users : ~RxItem(u)
      BY <2>6 DEF RxItem
    <3>5. \A c \in Clearers, u \in Users : ~ClearTree(c, u)
      BY <2>6 DEF ClearTree, memory
    <3>6. ~RxError
      BY <2>6 DEF RxError, memory
    <3>7. \/ \E p \in Workers : SyncConv(p)
          \/ RxConv
          \/ \E m \in sent : OnMsgStored(m)
      BY <2>2, <2>6, <3>1, <3>2, <3>3, <3>4, <3>5, <3>6 DEF Next, RxStep
    <3> QED  BY <2>0, <2>3, <2>4, <2>5, <3>7
  <2> QED  BY <2>1, <2>6
<1> QED  BY Inductive, <1>1, PTL DEF Spec, ConvGrows

\* The lock of the conversation is held just by a worker that creates it, and will be released
\* by it: the safety half of SendEnds.
LockInv ==
  /\ \A p \in Workers : convLock = p <=> job[p].pc \in {"create", "redis"}
  /\ convLock # NoWorker => convLock \in Workers

\* However the steps of a creation fail, none returns with the lock.
THEOREM LockHeld == Spec => []LockInv
<1>1. IInv => LockInv
  BY DEF IInv, TypeOK, JobInv, JobOk, LockInv
<1> QED  BY Inductive, <1>1, PTL

\* A result waits for a conversation that is in memory.
AwaitedInv == acks # <<>> => conv.ok

\* A successful result leaves the queue only for the number in memory, or with the process.
NoResultLostStep ==
  \A a \in ToSet(acks) :
    a.ok => a \in ToSet(acks') \/ conv'.seq >= a.seq \/ crashes' = crashes + 1
NoResultLost == [][NoResultLostStep]_vars

\* Most steps neither touch the queue nor take the conversation out of memory.
LEMMA AckSteps ==
  ASSUME IInv, [Next]_vars
  PROVE  \/ UNCHANGED acks /\ (conv.ok => conv'.ok)
         \/ \E p \in Workers : \E taken, ok \in BOOLEAN : SendMsg(p, taken, ok)
         \/ RxError \/ RxConv \/ Crash
<1> USE DEF memory
<1>1. ASSUME NEW p \in Workers,
             LoadLocked(p) \/ LoadFails(p) \/ CreateRows(p) \/ CreateRowsFails(p)
      PROVE  UNCHANGED acks /\ (conv.ok => conv'.ok)
  BY <1>1 DEF LoadLocked, LoadFails, CreateRows, CreateRowsFails
<1>2. ASSUME NEW p \in Workers,
             CreateTree(p) \/ CreateTreeFails(p) \/ ReadTree(p) \/ ReadTreeFails(p)
      PROVE  UNCHANGED acks /\ (conv.ok => conv'.ok)
  BY <1>2 DEF CreateTree, CreateTreeFails, ReadTree, ReadTreeFails, NoConv
<1>3. ASSUME NEW p \in Workers, SyncConv(p)
      PROVE  UNCHANGED acks /\ (conv.ok => conv'.ok)
  <2>1. conv \in ConvType
    BY DEF IInv, TypeOK, ConvType
  <2> QED  BY <1>3, <2>1 DEF SyncConv, ConvType
<1>4. ASSUME NEW p \in Workers,
             \/ \E u \in Users : SyncItem(p, u)
             \/ ModifyConvTree(p) \/ ModifyConvTreeFails(p) \/ SendMsgFails(p)
             \/ \E s \in Users : SendStart(p, s)
      PROVE  UNCHANGED acks /\ (conv.ok => conv'.ok)
  BY <1>4 DEF SyncItem, ModifyConvTree, ModifyConvTreeFails, SendMsgFails, SendStart
<1>5. ASSUME \/ \E u \in Users : RxItem(u)
             \/ \E c \in Clearers : ClearMem(c) \/ \E u \in Users : ClearTree(c, u)
      PROVE  UNCHANGED acks /\ (conv.ok => conv'.ok)
  BY <1>5 DEF RxItem, ClearTree, ClearMem
<1>6. ASSUME NEW m \in sent, OnMsgStored(m)
      PROVE  UNCHANGED acks /\ (conv.ok => conv'.ok)
  <2>1. conv \in ConvType
    BY DEF IInv, TypeOK, ConvType
  <2> QED  BY <1>6, <2>1 DEF OnMsgStored, ConvType
<1>7. ASSUME UNCHANGED vars PROVE UNCHANGED acks /\ (conv.ok => conv'.ok)
  BY <1>7 DEF vars
<1> QED  BY <1>1, <1>2, <1>3, <1>4, <1>5, <1>6, <1>7 DEF Next, HandleStep, RxStep

\* Whoever publishes has found the conversation in memory, where it stays.
LEMMA AwaitedKeeps == ASSUME IInv, AwaitedInv, [Next]_vars PROVE AwaitedInv'
<1>1. acks \in Seq(AckType)
  BY DEF IInv, TypeOK, AckType
<1>2. ASSUME NEW p \in Workers, NEW taken \in BOOLEAN, NEW ok \in BOOLEAN,
             SendMsg(p, taken, ok)
      PROVE  AwaitedInv'
  <2>1. job[p].pc = "publish" /\ conv' = conv
    BY <1>2 DEF SendMsg, memory
  <2> QED  BY <2>1 DEF IInv, JobInv, JobOk, AwaitedInv
<1>3. ASSUME RxError PROVE AwaitedInv'
  BY <1>3 DEF RxError, AwaitedInv, memory
<1>4. ASSUME RxConv PROVE AwaitedInv'
  <2>1. conv \in ConvType
    BY DEF IInv, TypeOK, ConvType
  <2> QED  BY <1>4, <2>1 DEF RxConv, AwaitedInv, ConvType
<1>5. ASSUME Crash PROVE AwaitedInv'
  BY <1>5 DEF Crash, AwaitedInv
<1> QED  BY <1>2, <1>3, <1>4, <1>5, AckSteps DEF AwaitedInv

\* Only the receiver shortens the queue, and what it takes it counts.
LEMMA ResultKept == ASSUME IInv, AwaitedInv, [Next]_vars PROVE NoResultLostStep
<1>1. acks \in Seq(AckType)
  BY DEF IInv, TypeOK, AckType
<1>2. ASSUME NEW a \in ToSet(acks), a.ok
      PROVE  a \in ToSet(acks') \/ conv'.seq >= a.seq \/ crashes' = crashes + 1
  <2>1. ASSUME NEW p \in Workers, NEW taken \in BOOLEAN, NEW ok \in BOOLEAN,
               SendMsg(p, taken, ok)
        PROVE  a \in ToSet(acks')
    <3>1. PICK e : acks' = Append(acks, e) /\ e \in AckType
      <4>1. job[p].s \in Users /\ job[p].id \in Seqs /\ job[p].seq \in Seqs
        <5>1. job[p] \in JobType /\ job[p].pc = "publish"
          BY <2>1, Types DEF IInv, SendMsg
        <5> QED  BY <5>1 DEF JobType, IInv, JobInv, JobOk
      <4> QED  BY <2>1, <4>1 DEF SendMsg, AckType
    <3> QED  BY <1>1, <3>1, AppendSet
  <2>2. ASSUME acks # <<>>, acks' = Tail(acks), a # Head(acks)
        PROVE  a \in ToSet(acks')
    BY <1>1, <2>2, TailSet
  <2>3. CASE RxError
    BY <1>2, <2>2, <2>3 DEF RxError
  <2>4. CASE RxConv /\ a = Head(acks)
    <3>1. a \in AckType
      BY <1>1, ElementsType
    <3>2. a.seq \in Nat /\ conv.seq \in Nat /\ conv \in ConvType
      BY <3>1, Types DEF IInv, TypeOK, AckType, ConvType, Seqs
    <3>3. conv'.seq = Larger(conv.seq, a.seq)
      BY <2>4, <3>2 DEF RxConv, AwaitedInv, ConvType
    <3> QED  BY <3>2, <3>3 DEF Larger
  <2>5. CASE RxConv /\ a # Head(acks)
    BY <2>2, <2>5 DEF RxConv
  <2>6. CASE Crash
    BY <2>6 DEF Crash
  <2> QED  BY <2>1, <2>3, <2>4, <2>5, <2>6, AckSteps
<1> QED  BY <1>2 DEF NoResultLostStep

\* The safety half of AckedIsCounted: no result that says a message was published gets lost,
\* whatever failed before it, or is left for a conversation that memory does not have.
THEOREM ResultsAreCounted == Spec => NoResultLost
<1>1. Init => AwaitedInv
  BY DEF Init, AwaitedInv
<1>2. IInv /\ AwaitedInv /\ [Next]_vars => AwaitedInv' /\ [NoResultLostStep]_vars
  BY AwaitedKeeps, ResultKept
<1> QED  BY Inductive, <1>1, <1>2, PTL DEF Spec, NoResultLost

\* The hash implements the log: no creation resets a conversation that has numbers,
\* no message gets a second number, no position moves but by a send or a clear.
THEOREM Refinement == Spec => ImplementsLog
<1>1. Init => Log!Init
  <2> SUFFICES ASSUME Init PROVE tree.seq = 0 /\ issued = {} /\ tree.browse = [u \in Users |-> 0]
    BY DEF Log!Init
  <2> QED  BY DEF Init, NoTree
<1>2. IInv /\ [Next]_vars => [Log!Next]_<<tree.seq, issued, tree.browse>>
  <2> SUFFICES ASSUME IInv, [Next]_vars
               PROVE  [Log!Next]_<<tree.seq, issued, tree.browse>>
    OBVIOUS
  <2>1. ASSUME NEW p \in Workers, job[p].pc = "seq", Numbered(p), UNCHANGED nextId
        PROVE  Log!Next
    <3> DEFINE s == job[p].s
               id == job[p].id
    <3>1. /\ tree'.seq = tree.seq + 1
          /\ tree'.browse = [tree.browse EXCEPT ![s] = tree.seq + 1]
          /\ issued' = issued \cup {[id |-> id, seq |-> tree.seq + 1]}
          /\ s \in Users /\ id \notin Ids
      BY <2>1, NumberedEffect
    <3>2. id \in 1 .. MaxMsgs
      <4>1. id \in 1 .. nextId - 1 /\ nextId \in 1 .. MaxMsgs + 1
        BY <2>1 DEF IInv, JobInv, JobOk, TypeOK
      <4> QED  BY <4>1, ConvAssumption
    <3>3. \A m \in issued : m.id # id
      BY <3>1 DEF Ids
    <3>4. Log!Accept(s, id)
      BY <3>1, <3>3 DEF Log!Accept
    <3> QED  BY <3>1, <3>2, <3>4 DEF Log!Next
  <2>2. ASSUME NEW c \in Clearers, NEW u \in Users, ClearTree(c, u)
        PROVE  Log!Next
    <3>1. Log!ReadAll(u)
      BY <2>2, ClearTreeKeeps DEF Log!ReadAll
    <3> QED  BY <3>1 DEF Log!Next
  <2>3. ASSUME NEW p \in Workers, CreateTree(p) \/ CreateTreeFails(p)
        PROVE  UNCHANGED <<tree.seq, issued, tree.browse>>
    <3>1. job[p].pc = "redis" /\ tree' \in {tree, FreshTree} /\ UNCHANGED <<issued, nextId>>
      BY <2>3 DEF CreateTree, CreateTreeFails
    <3> QED  BY <3>1, TreeWritten
  <2>4. ASSUME NEW p \in Workers, HandleStep(p)
        PROVE  \/ UNCHANGED <<tree, issued>>
               \/ job[p].pc = "seq" /\ Numbered(p) /\ UNCHANGED nextId
               \/ CreateTree(p) \/ CreateTreeFails(p)
    BY <2>4 DEF HandleStep, LoadLocked, LoadFails, CreateRows, CreateRowsFails, ReadTree,
                ReadTreeFails, SyncConv, SyncItem, ModifyConvTree, ModifyConvTreeFails,
                SendMsg, SendMsgFails, stores
  <2>5. CASE UNCHANGED <<tree, issued>>
    BY <2>5
  <2>6. CASE ~UNCHANGED <<tree, issued>>
    <3>1. Next
      BY <2>6 DEF vars, stores
    <3>2. \/ \E p \in Workers : HandleStep(p)
          \/ \E c \in Clearers, u \in Users : ClearTree(c, u)
      <4>1. ASSUME NEW p \in Workers, NEW s \in Users PROVE ~SendStart(p, s)
        BY <2>6 DEF SendStart, stores
      <4>2. ~RxStep
        BY <2>6 DEF RxStep, RxError, RxConv, RxItem, stores
      <4>3. \A m \in sent : ~OnMsgStored(m)
        BY <2>6 DEF OnMsgStored, stores
      <4>4. \A c \in Clearers : ~ClearMem(c)
        BY <2>6 DEF ClearMem, stores
      <4>5. ~Crash
        BY <2>6 DEF Crash, stores
      <4> QED  BY <3>1, <4>1, <4>2, <4>3, <4>4, <4>5 DEF Next
    <3>3. CASE \E c \in Clearers, u \in Users : ClearTree(c, u)
      BY <2>2, <3>3
    <3>4. CASE \E p \in Workers : HandleStep(p)
      <4>1. PICK p \in Workers : HandleStep(p)
        BY <3>4
      <4> QED  BY <2>1, <2>3, <2>4, <2>6, <4>1
    <3> QED  BY <3>2, <3>3, <3>4
  <2> QED  BY <2>5, <2>6
<1>3. Init /\ [][Next]_vars => Log!Init /\ [][Log!Next]_<<tree.seq, issued, tree.browse>>
  BY Inductive, <1>1, <1>2, PTL DEF Spec
<1> QED  BY <1>3 DEF Spec, ImplementsLog, Log!Spec
=============================================================================
