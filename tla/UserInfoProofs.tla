--------------------------- MODULE UserInfoProofs ---------------------------
(* Theorems about UserInfo, for any users, callers, lifetimes and CallSpan. *)
EXTENDS UserInfo, TLAPS

-----------------------------------------------------------------------------
(* Partial maps of ages *)

LEMMA Bounds == /\ MaxTtl \in Nat /\ MaxTtl >= 1 /\ CallSpan \in Nat /\ Horizon \in Nat
                /\ MinTtl \in Nat /\ MinTtl >= 1
                /\ Horizon = MaxTtl + 3 * CallSpan
BY UserAssumption DEF Horizon

LEMMA OlderBy == ASSUME NEW n \in Ages
                 PROVE  Older(n) \in Ages /\ Older(n) <= n + 1
BY Bounds DEF Older, Ages

LEMMA InfosOf ==
  ASSUME NEW f \in Infos
  PROVE  /\ DOMAIN f \subseteq Users /\ f \in [DOMAIN f -> Ages]
         /\ \A u \in DOMAIN f : f[u] \in Ages
BY DEF Infos

LEMMA InfosMake == ASSUME NEW S \in SUBSET Users, NEW f \in [S -> Ages] PROVE f \in Infos
BY DEF Infos

LEMMA AgedOf ==
  ASSUME NEW f \in Infos
  PROVE  /\ Aged(f) \in Infos /\ DOMAIN Aged(f) = DOMAIN f
         /\ \A u \in DOMAIN f : Aged(f)[u] = Older(f[u])
<1>1. DOMAIN f \in SUBSET Users /\ \A u \in DOMAIN f : Older(f[u]) \in Ages
  BY InfosOf, OlderBy
<1>2. Aged(f) \in [DOMAIN f -> Ages]
  BY <1>1 DEF Aged
<1> QED  BY <1>1, <1>2, InfosMake DEF Aged

LEMMA MergeOf ==
  ASSUME NEW f \in Infos, NEW g \in Infos
  PROVE  /\ Over(f, g) \in Infos /\ DOMAIN Over(f, g) = DOMAIN f \cup DOMAIN g
         /\ \A u \in DOMAIN f \cup DOMAIN g :
              Over(f, g)[u] = IF u \in DOMAIN f THEN f[u] ELSE g[u]
<1>1. /\ DOMAIN f \cup DOMAIN g \in SUBSET Users
      /\ \A u \in DOMAIN f : f[u] \in Ages
      /\ \A u \in DOMAIN g : g[u] \in Ages
  BY InfosOf
<1>2. Over(f, g) = [u \in DOMAIN f \cup DOMAIN g |-> IF u \in DOMAIN f THEN f[u] ELSE g[u]]
  BY DEF Over
<1>3. Over(f, g) \in [DOMAIN f \cup DOMAIN g -> Ages]
  BY <1>1, <1>2
<1> QED  BY <1>1, <1>2, <1>3, InfosMake

LEMMA NoInfos == None \in Infos /\ DOMAIN None = {}
<1>1. None \in [{} -> Ages]
  BY DEF None
<1> QED  BY <1>1, InfosMake DEF None

-----------------------------------------------------------------------------
(* The inductive invariant *)

\* A caller whose flight is under way.
Leading == {"query", "end", "fail"}
Leads(p) == call[p].pc \in Leading

\* What a flight found is at most n minutes old, and who is missing from it has,
\* by the table s, been there for at most n minutes.
FoundInv(c, n, s) ==
  /\ \A u \in DOMAIN c.found : c.found[u] <= n
  /\ \A u \in c.miss \ DOMAIN c.found : s[u] <= n

\* A caller knows, or is still to ask for, each of its users; no answer is older
\* than a lifetime and two calls when the call begins, no find older than one call
\* when it is shared.
CallInv(p) ==
  /\ \A u \in DOMAIN call[p].got :
       call[p].got[u] <= MaxTtl + 2 * CallSpan - 1 + call[p].began
  /\ call[p].pc \notin {"idle", "done"} =>
       /\ call[p].miss # {}
       /\ call[p].uids \subseteq DOMAIN call[p].got \cup call[p].miss
  /\ call[p].pc = "end" => FoundInv(call[p], call[p].began, since)
  /\ call[p].pc = "store" => FoundInv(call[p], CallSpan + call[p].began, since)
  /\ call[p].pc = "done" =>
       \A u \in call[p].uids \ DOMAIN call[p].got : since[u] <= CallSpan + call[p].began

\* A key is held by a caller that leads a flight for just those users, and whoever
\* waits waits for a flight for its own users.
FlightInv == \A k \in Keys : flight[k] # NoCaller =>
               Leads(flight[k]) /\ call[flight[k]].miss = k
WaitInv == \A p \in Callers : call[p].pc = "wait" =>
             /\ call[p].leader \in Callers /\ Leads(call[p].leader)
             /\ call[call[p].leader].miss = call[p].miss

\* The older a cached copy is, the less it has left.
CacheInv == \A u \in Users : cache[u].left > 0 =>
              cache[u].age + cache[u].left <= MaxTtl + 2 * CallSpan

IInv == TypeOK /\ (\A p \in Callers : CallInv(p)) /\ FlightInv /\ WaitInv /\ CacheInv

LEMMA IdleType == CallIdle \in CallType /\ CallIdle.began = 0
BY NoInfos, Bounds DEF CallIdle, CallType

LEMMA InitInv == Init => IInv
<1> SUFFICES ASSUME Init PROVE IInv
  OBVIOUS
<1> USE DEF Init
<1>1. CallIdle \in CallType
  BY IdleType
<1>2. \A p \in Callers : call[p] = CallIdle
  OBVIOUS
<1>3. TypeOK
  BY <1>1, Bounds DEF TypeOK, Entries, Ages
<1>4. ASSUME NEW p \in Callers PROVE CallInv(p)
  BY <1>2, NoInfos DEF CallInv, CallIdle
<1>5. FlightInv /\ WaitInv
  BY <1>2 DEF FlightInv, WaitInv, CallIdle
<1>6. CacheInv
  BY DEF CacheInv, NoEntry
<1> QED  BY <1>3, <1>4, <1>5, <1>6 DEF IInv

-----------------------------------------------------------------------------
(* Steps of one caller *)

LEMMA CallOf ==
  ASSUME IInv, NEW p \in Callers
  PROVE  /\ call[p] \in CallType /\ CallInv(p)
         /\ call[p].got \in Infos /\ call[p].found \in Infos
         /\ call[p].miss \in SUBSET Users /\ call[p].uids \in SUBSET Users
         /\ call[p].began \in Nat /\ call[p].began <= CallSpan
BY Bounds DEF IInv, TypeOK, CallType

\* The other callers are where they were.
LEMMA CallSet ==
  ASSUME IInv, NEW p \in Callers, NEW r \in CallType,
         call' = [call EXCEPT ![p] = r], UNCHANGED since
  PROVE  /\ call' \in [Callers -> CallType] /\ call'[p] = r
         /\ \A q \in Callers \ {p} : call'[q] = call[q] /\ CallInv(q)'
<1>1. /\ call' \in [Callers -> CallType] /\ call'[p] = r
      /\ \A q \in Callers \ {p} : call'[q] = call[q]
  BY DEF IInv, TypeOK
<1>2. ASSUME NEW q \in Callers \ {p} PROVE CallInv(q)'
  <2>1. CallInv(q) /\ call'[q] = call[q]
    BY <1>1 DEF IInv
  <2> QED  BY <2>1 DEF CallInv, FoundInv
<1> QED  BY <1>1, <1>2

\* A caller that leads no flight, and does not begin to wait, disturbs none.
LEMMA FlightsKept ==
  ASSUME IInv, NEW p \in Callers, NEW r \in CallType, ~Leads(p), r.pc # "wait",
         call' = [call EXCEPT ![p] = r], UNCHANGED <<since, flight>>
  PROVE  FlightInv' /\ WaitInv'
<1>1. /\ call'[p] = r /\ \A q \in Callers \ {p} : call'[q] = call[q]
  BY CallSet
<1>2. FlightInv'
  <2>1. ASSUME NEW k \in Keys, flight'[k] # NoCaller
        PROVE  call'[flight'[k]].pc \in Leading /\ call'[flight'[k]].miss = k
    <3>1. /\ Leads(flight[k]) /\ call[flight[k]].miss = k /\ flight'[k] = flight[k]
          /\ flight[k] \in Callers
      BY <2>1 DEF IInv, FlightInv, TypeOK
    <3> QED  BY <1>1, <3>1 DEF Leads, Leading
  <2> QED  BY <2>1 DEF FlightInv, Leads
<1>3. WaitInv'
  <2>1. ASSUME NEW q \in Callers, call'[q].pc = "wait"
        PROVE  /\ call'[q].leader \in Callers /\ call'[call'[q].leader].pc \in Leading
               /\ call'[call'[q].leader].miss = call'[q].miss
    <3>1. q # p /\ call'[q] = call[q]
      BY <1>1, <2>1
    <3>2. /\ call[q].leader \in Callers /\ Leads(call[q].leader)
          /\ call[call[q].leader].miss = call[q].miss
      BY <2>1, <3>1 DEF IInv, WaitInv
    <3> QED  BY <1>1, <3>1, <3>2 DEF Leads, Leading
  <2> QED  BY <2>1 DEF WaitInv, Leads
<1> QED  BY <1>2, <1>3

LEMMA LookKeeps ==
  ASSUME IInv, NEW p \in Callers, NEW S \in Keys, Look(p, S)
  PROVE  IInv'
<1> DEFINE got == [u \in Hits(S) |-> cache[u].age]
           pc == IF S \subseteq Hits(S) THEN "done" ELSE "do"
           miss == S \ Hits(S)
           r == [CallIdle EXCEPT !.uids = S, !.got = got, !.miss = miss, !.pc = pc]
<1>1. /\ call' = [call EXCEPT ![p] = r] /\ call[p].pc = "idle"
      /\ UNCHANGED <<since, cache, flight>>
  BY DEF Look
<1>2. /\ S \in SUBSET Users /\ Hits(S) \in SUBSET S /\ Hits(S) \in SUBSET Users
  BY DEF Keys, Hits
<1>s. S \in SUBSET Users
  BY <1>2
<1>3. ASSUME NEW u \in Hits(S)
      PROVE  cache[u].age \in Ages /\ cache[u].age <= MaxTtl + 2 * CallSpan - 1
  <2>1. u \in Users /\ cache[u].left > 0 /\ cache[u] \in Entries
    BY <1>2 DEF Hits, IInv, TypeOK
  <2>2. cache[u].age \in Ages /\ cache[u].left \in 1..MaxTtl
    BY <2>1 DEF Entries, NoEntry, Gone
  <2>3. cache[u].age + cache[u].left <= MaxTtl + 2 * CallSpan
    BY <2>1 DEF IInv, CacheInv
  <2> QED  BY <2>2, <2>3, Bounds DEF Ages
<1>4. got \in Infos /\ DOMAIN got = Hits(S)
  <2>1. got \in [Hits(S) -> Ages]
    BY <1>3
  <2> QED  BY <1>2, <2>1, InfosMake
<1>5. \A u \in Hits(S) : got[u] = cache[u].age
  OBVIOUS
<1> HIDE DEF got
<1>6. /\ r \in CallType /\ r.uids = S /\ r.got = got /\ r.miss = S \ Hits(S) /\ r.began = 0
      /\ r.pc = IF S \subseteq Hits(S) THEN "done" ELSE "do"
  <2>1. miss \in SUBSET Users /\ pc \in {"done", "do"} /\ None \in Infos /\ 0 \in 0..CallSpan
    BY <1>2, NoInfos, Bounds
  <2> HIDE DEF pc, miss
  <2>2. CallIdle \in CallType /\ CallIdle.began = 0
    BY IdleType
  <2>3. r \in CallType /\ r.uids = S /\ r.got = got /\ r.miss = miss /\ r.began = 0 /\ r.pc = pc
    BY <1>4, <2>1, <2>2, <1>s DEF CallType
  <2> QED  BY <2>3 DEF pc, miss
<1> HIDE DEF r
<1>7. CallInv(p)'
  <2>1. call'[p] = r
    BY <1>1, <1>6, CallSet
  <2>2. \A u \in DOMAIN got : got[u] <= MaxTtl + 2 * CallSpan - 1 + 0
    BY <1>3, <1>4, <1>5, Bounds DEF Ages
  <2> QED  BY <1>2, <1>4, <1>6, <2>1, <2>2 DEF CallInv
<1>8. FlightInv' /\ WaitInv'
  BY <1>1, <1>6, FlightsKept DEF Leads, Leading
<1> QED  BY <1>1, <1>6, <1>7, <1>8, CallSet DEF IInv, TypeOK, CacheInv

LEMMA DoKeeps ==
  ASSUME IInv, NEW p \in Callers, Do(p)
  PROVE  IInv'
<1> DEFINE k == call[p].miss
           lead == flight[k] = NoCaller
           r == IF lead THEN [call[p] EXCEPT !.pc = "query"]
                ELSE [call[p] EXCEPT !.pc = "wait", !.leader = flight[k]]
<1>1. /\ call[p].pc = "do" /\ call' = [call EXCEPT ![p] = r]
      /\ flight' = IF lead THEN [flight EXCEPT ![k] = p] ELSE flight
      /\ UNCHANGED <<since, cache>>
  BY DEF Do, KeyOf
<1>2. k \in Keys
  <2>1. k \in SUBSET Users /\ CallInv(p)
    BY CallOf
  <2>2. k # {}
    BY <1>1, <2>1 DEF CallInv
  <2> QED  BY <2>1, <2>2 DEF Keys
<1>3. /\ flight \in [Keys -> Callers \cup {NoCaller}] /\ flight[k] \in Callers \cup {NoCaller}
      /\ NoCaller \notin Callers
  BY <1>2, UserAssumption DEF IInv, TypeOK
<1>4. /\ r \in CallType /\ r.uids = call[p].uids /\ r.got = call[p].got /\ r.miss = k
      /\ r.began = call[p].began /\ r.pc = IF lead THEN "query" ELSE "wait"
      /\ ~lead => r.leader = flight[k]
  BY <1>3, CallOf DEF CallType
<1> HIDE DEF r
<1>5. /\ call' \in [Callers -> CallType] /\ call'[p] = r
      /\ \A q \in Callers \ {p} : call'[q] = call[q] /\ CallInv(q)'
  BY <1>1, <1>4, CallSet
<1>6. CallInv(p)'
  BY <1>1, <1>4, <1>5, CallOf DEF CallInv
<1>7. flight' \in [Keys -> Callers \cup {NoCaller}]
  BY <1>1, <1>3
<1>8. ASSUME NEW q \in Callers, Leads(q)
      PROVE  q # p /\ call'[q].pc \in Leading /\ call'[q].miss = call[q].miss
  BY <1>1, <1>5, <1>8 DEF Leads, Leading
<1>9. FlightInv'
  <2>1. ASSUME NEW h \in Keys, flight'[h] # NoCaller
        PROVE  call'[flight'[h]].pc \in Leading /\ call'[flight'[h]].miss = h
    <3>1. CASE lead /\ h = k
      <4>1. flight'[h] = p
        BY <1>1, <1>3, <3>1
      <4> QED  BY <1>4, <1>5, <3>1, <4>1 DEF Leads, Leading
    <3>2. CASE ~(lead /\ h = k)
      <4>1. flight'[h] = flight[h] /\ flight[h] \in Callers
        BY <1>1, <1>3, <2>1, <3>2
      <4>2. Leads(flight[h]) /\ call[flight[h]].miss = h
        BY <2>1, <4>1 DEF IInv, FlightInv
      <4> QED  BY <1>8, <4>1, <4>2
    <3> QED  BY <3>1, <3>2
  <2> QED  BY <2>1 DEF FlightInv, Leads
<1>10. WaitInv'
  <2>1. ASSUME NEW q \in Callers, call'[q].pc = "wait"
        PROVE  /\ call'[q].leader \in Callers /\ call'[call'[q].leader].pc \in Leading
               /\ call'[call'[q].leader].miss = call'[q].miss
    <3>1. CASE q = p
      <4>1. ~lead /\ r.leader = flight[k] /\ flight[k] \in Callers
        BY <1>3, <1>4, <1>5, <2>1, <3>1
      <4>2. Leads(flight[k]) /\ call[flight[k]].miss = k
        BY <1>2, <4>1 DEF IInv, FlightInv
      <4> QED  BY <1>4, <1>5, <1>8, <3>1, <4>1, <4>2
    <3>2. CASE q # p
      <4>1. call'[q] = call[q]
        BY <1>5, <3>2
      <4>2. /\ call[q].leader \in Callers /\ Leads(call[q].leader)
            /\ call[call[q].leader].miss = call[q].miss
        BY <2>1, <4>1 DEF IInv, WaitInv
      <4> QED  BY <1>8, <4>1, <4>2
    <3> QED  BY <3>1, <3>2
  <2> QED  BY <2>1 DEF WaitInv, Leads
<1> QED  BY <1>1, <1>5, <1>6, <1>7, <1>9, <1>10 DEF IInv, TypeOK, CacheInv

LEMMA QueryKeeps ==
  ASSUME IInv, NEW p \in Callers, Query(p)
  PROVE  IInv'
<1> DEFINE S == {x \in call[p].miss : since[x] # NoRow}
           found == [u \in S |-> 0]
<1>1. /\ call[p].pc = "query" /\ UNCHANGED <<since, cache, flight>>
      /\ \/ call' = [call EXCEPT ![p].pc = "end", ![p].found = found]
         \/ call' = [call EXCEPT ![p].pc = "fail"]
  BY DEF Query
<1>2. found \in Infos /\ DOMAIN found = S /\ \A u \in S : found[u] = 0
  <2>1. S \in SUBSET Users
    BY CallOf
  <2>2. found \in [S -> Ages]
    BY Bounds DEF Ages
  <2> QED  BY <2>1, <2>2, InfosMake
<1>3. \A u \in call[p].miss \ S : since[u] = -1
  BY DEF NoRow
<1> HIDE DEF found, S
<1>4. PICK r \in CallType :
        /\ call' = [call EXCEPT ![p] = r] /\ r.pc \in {"end", "fail"}
        /\ r.uids = call[p].uids /\ r.got = call[p].got /\ r.miss = call[p].miss
        /\ r.began = call[p].began
        /\ r.pc = "end" => r.found = found
  <2>1. CASE call' = [call EXCEPT ![p].pc = "end", ![p].found = found]
    <3> DEFINE r == [call[p] EXCEPT !.pc = "end", !.found = found]
    <3>1. /\ r \in CallType /\ r.pc = "end" /\ r.uids = call[p].uids /\ r.got = call[p].got
          /\ r.miss = call[p].miss /\ r.began = call[p].began /\ r.found = found
      BY <1>2, CallOf DEF CallType
    <3>2. call' = [call EXCEPT ![p] = r]
      BY <2>1 DEF IInv, TypeOK
    <3> HIDE DEF r
    <3> QED  BY <3>1, <3>2
  <2>2. CASE call' = [call EXCEPT ![p].pc = "fail"]
    <3> DEFINE r == [call[p] EXCEPT !.pc = "fail"]
    <3>1. /\ r \in CallType /\ r.pc = "fail" /\ r.uids = call[p].uids /\ r.got = call[p].got
          /\ r.miss = call[p].miss /\ r.began = call[p].began
      BY CallOf DEF CallType
    <3>2. call' = [call EXCEPT ![p] = r]
      BY <2>2 DEF IInv, TypeOK
    <3> HIDE DEF r
    <3> QED  BY <3>1, <3>2
  <2> QED  BY <1>1, <2>1, <2>2
<1>5. /\ call' \in [Callers -> CallType] /\ call'[p] = r
      /\ \A q \in Callers \ {p} : call'[q] = call[q] /\ CallInv(q)'
  BY <1>1, <1>4, CallSet
<1>6. CallInv(p)'
  <2>1. CallInv(p) /\ call[p].began \in Nat
    BY CallOf
  <2>2. r.pc = "end" => FoundInv(r, r.began, since')
    BY <1>1, <1>2, <1>3, <1>4, <2>1 DEF FoundInv
  <2> QED  BY <1>1, <1>4, <1>5, <2>1, <2>2 DEF CallInv, FoundInv
<1>7. ASSUME NEW q \in Callers
      PROVE  /\ Leads(q) => call'[q].pc \in Leading /\ call'[q].miss = call[q].miss
             /\ call'[q].pc = "wait" => call'[q] = call[q]
  BY <1>1, <1>4, <1>5 DEF Leads, Leading
<1>8. FlightInv'
  BY <1>1, <1>7 DEF IInv, TypeOK, FlightInv, Leads
<1>9. WaitInv'
  BY <1>1, <1>7 DEF IInv, WaitInv, Leads
<1> QED  BY <1>1, <1>5, <1>6, <1>8, <1>9 DEF IInv, TypeOK, CacheInv

LEMMA FlightEndsKeeps ==
  ASSUME IInv, NEW p \in Callers, FlightEnds(p)
  PROVE  IInv'
<1> DEFINE k == call[p].miss
           on == {p} \cup {q \in Callers : call[q].pc = "wait" /\ call[q].leader = p}
<1>1. /\ call[p].pc \in {"end", "fail"} /\ UNCHANGED <<since, cache>>
      /\ flight' = [flight EXCEPT ![k] = IF @ = p THEN NoCaller ELSE @]
      /\ call' = [q \in Callers |->
           IF q \notin on THEN call[q]
           ELSE IF call[p].pc = "fail" THEN CallIdle
           ELSE [call[q] EXCEPT !.pc = "store", !.found = call[p].found, !.leader = NoCaller]]
  BY DEF FlightEnds, KeyOf
<1>2. \A q \in on : /\ q \in Callers /\ call[q].pc \in {"wait", "end", "fail"}
                    /\ call[q].miss = k
  BY <1>1 DEF IInv, WaitInv
<1>3. ASSUME NEW q \in Callers \ on PROVE call'[q] = call[q] /\ CallInv(q)'
  <2>1. CallInv(q) /\ call'[q] = call[q]
    BY <1>1 DEF IInv
  <2> QED  BY <1>1, <2>1 DEF CallInv, FoundInv
<1>4. ASSUME NEW q \in on
      PROVE  /\ call'[q] \in CallType /\ CallInv(q)'
             /\ call'[q].pc \in {"idle", "store"}
  <2>1. CASE call[p].pc = "fail"
    <3>1. call'[q] = CallIdle
      BY <1>1, <1>2, <2>1
    <3> QED  BY <3>1, IdleType, NoInfos DEF CallInv, CallIdle
  <2>2. CASE call[p].pc = "end"
    <3> DEFINE r == [call[q] EXCEPT !.pc = "store", !.found = call[p].found, !.leader = NoCaller]
    <3>1. call'[q] = r
      BY <1>1, <1>2, <2>2
    <3>2. q \in Callers
      BY <1>2
    <3>3. /\ r \in CallType /\ r.pc = "store" /\ r.found = call[p].found /\ r.miss = k
          /\ r.uids = call[q].uids /\ r.got = call[q].got /\ r.began = call[q].began
      <4>1. /\ call[q] \in CallType /\ call[q].miss = k /\ call[p].found \in Infos
        BY <1>2, <3>2, CallOf
      <4> QED  BY <4>1 DEF CallType
    <3> HIDE DEF r
    <3>4. FoundInv(call[p], call[p].began, since)
      BY <2>2, CallOf DEF CallInv
    <3>5. /\ call[p].began \in Nat /\ call[p].began <= CallSpan
          /\ call[q].began \in Nat /\ CallSpan \in Nat
          /\ k \in SUBSET Users /\ call[p].found \in Infos
      BY <3>2, CallOf, Bounds
    <3>6. /\ \A u \in DOMAIN call[p].found : call[p].found[u] \in Int
          /\ \A u \in Users : since[u] \in Int
      BY <3>5, InfosOf, Bounds DEF IInv, TypeOK, Ages, NoRow
    <3>7. FoundInv(r, CallSpan + r.began, since)
      BY <3>3, <3>4, <3>5, <3>6 DEF FoundInv
    <3>8. CallInv(q)
      BY <3>2, CallOf
    <3>9. CallInv(q)'
      <4>1. FoundInv(call'[q], CallSpan + call'[q].began, since')
        BY <1>1, <3>1, <3>7
      <4>2. call[q].pc \in {"wait", "end", "fail"} /\ call[q].miss = k
        BY <1>2
      <4> QED  BY <3>1, <3>3, <3>8, <4>1, <4>2 DEF CallInv
    <3> QED  BY <3>1, <3>3, <3>9
  <2> QED  BY <1>1, <2>1, <2>2
<1>5. call' \in [Callers -> CallType] /\ \A q \in Callers : CallInv(q)'
  <2>1. \A q \in Callers : call'[q] \in CallType /\ CallInv(q)'
    BY <1>3, <1>4 DEF IInv, TypeOK
  <2> QED  BY <1>1, <2>1
<1>6. flight' \in [Keys -> Callers \cup {NoCaller}]
  BY <1>1 DEF IInv, TypeOK
<1>7. ASSUME NEW q \in Callers \ {p}, Leads(q)
      PROVE  call'[q].pc \in Leading /\ call'[q].miss = call[q].miss
  <2>1. q \notin on
    BY <1>7 DEF Leads, Leading
  <2> QED  BY <1>3, <1>7, <2>1 DEF Leads
<1>8. FlightInv'
  <2>1. ASSUME NEW h \in Keys, flight'[h] # NoCaller
        PROVE  call'[flight'[h]].pc \in Leading /\ call'[flight'[h]].miss = h
    <3>1. flight'[h] = flight[h] /\ flight[h] # NoCaller /\ (h = k => flight[h] # p)
      BY <1>1, <2>1 DEF IInv, TypeOK
    <3>2. flight[h] \in Callers /\ Leads(flight[h]) /\ call[flight[h]].miss = h
      BY <3>1 DEF IInv, TypeOK, FlightInv
    <3>3. flight[h] # p
      BY <3>1, <3>2
    <3> QED  BY <1>7, <3>1, <3>2, <3>3
  <2> QED  BY <2>1 DEF FlightInv, Leads
<1>9. WaitInv'
  <2>1. ASSUME NEW q \in Callers, call'[q].pc = "wait"
        PROVE  /\ call'[q].leader \in Callers /\ call'[call'[q].leader].pc \in Leading
               /\ call'[call'[q].leader].miss = call'[q].miss
    <3>1. q \notin on /\ call'[q] = call[q]
      BY <1>3, <1>4, <2>1
    <3>2. /\ call[q].leader \in Callers \ {p} /\ Leads(call[q].leader)
          /\ call[call[q].leader].miss = call[q].miss
      BY <2>1, <3>1 DEF IInv, WaitInv
    <3> QED  BY <1>7, <3>1, <3>2
  <2> QED  BY <2>1 DEF WaitInv, Leads
<1> QED  BY <1>1, <1>5, <1>6, <1>8, <1>9 DEF IInv, TypeOK, CacheInv

LEMMA StoreKeeps ==
  ASSUME IInv, NEW p \in Callers, NEW lost \in SUBSET Users, NEW ttl \in MinTtl .. MaxTtl,
         Store(p, lost, ttl)
  PROVE  IInv'
<1> DEFINE found == call[p].found
           got == call[p].got
           S == DOMAIN found \ lost
           new == [u \in S |-> [age |-> found[u], left |-> ttl]]
           r == [call[p] EXCEPT !.pc = "done", !.got = Answer(p), !.miss = {}, !.found = None]
<1>1. /\ call[p].pc = "store" /\ cache' = Over(new, cache)
      /\ call' = [call EXCEPT ![p] = r] /\ UNCHANGED <<since, flight>>
  <2>1. call' = [call EXCEPT ![p].pc = "done", ![p].got = Answer(p),
                             ![p].miss = {}, ![p].found = None]
    BY DEF Store
  <2>2. call' = [call EXCEPT ![p] = r]
    BY <2>1 DEF IInv, TypeOK
  <2> QED  BY <2>2 DEF Store, Cached, Stored
<1>2. /\ found \in Infos /\ got \in Infos /\ CallInv(p)
      /\ call[p].began \in Nat /\ call[p].began <= CallSpan /\ call[p].uids \in SUBSET Users
  BY CallOf
<1>3. /\ Answer(p) \in Infos /\ DOMAIN Answer(p) = DOMAIN found \cup DOMAIN got
      /\ \A u \in DOMAIN found \cup DOMAIN got :
           Answer(p)[u] = IF u \in DOMAIN found THEN found[u] ELSE got[u]
  <2> HIDE DEF found, got
  <2>1. Answer(p) = Over(found, got)
    BY DEF Answer, found, got
  <2>2. /\ Over(found, got) \in Infos /\ DOMAIN Over(found, got) = DOMAIN found \cup DOMAIN got
        /\ \A u \in DOMAIN found \cup DOMAIN got :
             Over(found, got)[u] = IF u \in DOMAIN found THEN found[u] ELSE got[u]
    BY <1>2, MergeOf, Zenon
  <2> QED  BY <2>1, <2>2
<1>4. /\ DOMAIN found \subseteq Users
      /\ \A u \in DOMAIN found : found[u] \in Ages /\ found[u] <= CallSpan + call[p].began
  BY <1>1, <1>2, InfosOf DEF CallInv, FoundInv
<1>5. /\ r \in CallType /\ r.pc = "done" /\ r.got = Answer(p) /\ r.uids = call[p].uids
      /\ r.began = call[p].began
  <2> HIDE DEF found, got
  <2> QED  BY <1>3, CallOf, NoInfos DEF CallType
<1> HIDE DEF r
<1>6. CallInv(p)'
  <2>1. call'[p] = r
    BY <1>1, <1>5, CallSet
  <2>2. ASSUME NEW u \in DOMAIN Answer(p)
        PROVE  Answer(p)[u] <= MaxTtl + 2 * CallSpan - 1 + call[p].began
    <3>1. CASE u \in DOMAIN found
      BY <1>2, <1>3, <1>4, <3>1, Bounds DEF Ages
    <3>2. CASE u \notin DOMAIN found
      BY <1>2, <1>3, <3>2 DEF CallInv
    <3> QED  BY <3>1, <3>2
  <2>3. ASSUME NEW u \in call[p].uids \ DOMAIN Answer(p)
        PROVE  since[u] <= CallSpan + call[p].began
    <3>1. u \in call[p].miss \ DOMAIN found
      BY <1>1, <1>2, <1>3 DEF CallInv
    <3> QED  BY <1>1, <1>2, <3>1 DEF CallInv, FoundInv
  <2> QED  BY <1>1, <1>5, <2>1, <2>2, <2>3 DEF CallInv
<1>7. FlightInv' /\ WaitInv'
  BY <1>1, <1>5, FlightsKept DEF Leads, Leading
<1>8. /\ cache' \in [Users -> Entries]
      /\ \A u \in Users : cache'[u] = IF u \in S THEN [age |-> found[u], left |-> ttl] ELSE cache[u]
  <2>1. /\ DOMAIN new = S /\ S \subseteq Users /\ DOMAIN cache = Users
        /\ \A u \in S : new[u] = [age |-> found[u], left |-> ttl]
    BY <1>4 DEF IInv, TypeOK
  <2>2. \A u \in S : [age |-> found[u], left |-> ttl] \in Entries
    <3>1. ttl \in 1..MaxTtl
      BY Bounds
    <3> QED  BY <1>4, <3>1 DEF Entries
  <2>3. /\ cache' = [u \in Users |-> IF u \in S THEN new[u] ELSE cache[u]]
    BY <1>1, <2>1 DEF Over
  <2> QED  BY <2>1, <2>2, <2>3 DEF IInv, TypeOK
<1>9. CacheInv'
  <2>1. ASSUME NEW u \in Users, cache'[u].left > 0
        PROVE  cache'[u].age + cache'[u].left <= MaxTtl + 2 * CallSpan
    <3>1. CASE u \in S
      <4>1. cache'[u].age = found[u] /\ cache'[u].left = ttl
        BY <1>8, <3>1
      <4> QED  BY <1>2, <1>4, <3>1, <4>1, Bounds DEF Ages
    <3>2. CASE u \notin S
      BY <1>8, <2>1, <3>2 DEF IInv, CacheInv
    <3> QED  BY <3>1, <3>2
  <2> QED  BY <2>1 DEF CacheInv
<1> QED  BY <1>1, <1>5, <1>6, <1>7, <1>8, <1>9, CallSet DEF IInv, TypeOK

LEMMA ReturnKeeps ==
  ASSUME IInv, NEW p \in Callers, Return(p)
  PROVE  IInv'
<1>1. /\ call[p].pc = "done" /\ call' = [call EXCEPT ![p] = CallIdle]
      /\ UNCHANGED <<since, cache, flight>>
  BY DEF Return
<1>2. CallInv(p)'
  <2>1. call'[p] = CallIdle
    BY <1>1 DEF IInv, TypeOK
  <2> QED  BY <2>1, NoInfos DEF CallInv, CallIdle
<1>3. FlightInv' /\ WaitInv'
  <2>1. CallIdle.pc = "idle" /\ ~Leads(p)
    BY <1>1 DEF CallIdle, Leads, Leading
  <2> QED  BY <1>1, <2>1, IdleType, FlightsKept
<1> QED  BY <1>1, <1>2, <1>3, IdleType, CallSet DEF IInv, TypeOK, CacheInv

-----------------------------------------------------------------------------
(* The cache, the database and the clock *)

LEMMA EvictKeeps ==
  ASSUME IInv, NEW u \in Users, Evict(u)
  PROVE  IInv'
<1>1. /\ cache' = [cache EXCEPT ![u] = NoEntry] /\ flight' = [flight EXCEPT ![{u}] = NoCaller]
      /\ UNCHANGED <<since, call>>
  BY DEF Evict
<1>2. /\ cache' \in [Users -> Entries] /\ flight' \in [Keys -> Callers \cup {NoCaller}]
  BY <1>1 DEF IInv, TypeOK, Entries
<1>3. \A p \in Callers : CallInv(p)'
  BY <1>1 DEF IInv, CallInv, FoundInv
<1>4. FlightInv'
  BY <1>1 DEF IInv, TypeOK, FlightInv, Leads
<1>5. WaitInv'
  BY <1>1 DEF IInv, WaitInv, Leads
<1>6. CacheInv'
  BY <1>1 DEF IInv, TypeOK, CacheInv, NoEntry
<1> QED  BY <1>1, <1>2, <1>3, <1>4, <1>5, <1>6 DEF IInv, TypeOK

LEMMA RegisterKeeps ==
  ASSUME IInv, NEW u \in Users, Register(u)
  PROVE  IInv'
<1>1. since' = [since EXCEPT ![u] = 0] /\ UNCHANGED <<cache, flight, call>>
  BY DEF Register
<1>2. since' \in [Users -> Ages \cup {NoRow}]
  BY <1>1, Bounds DEF IInv, TypeOK, Ages
<1>3. ASSUME NEW p \in Callers PROVE CallInv(p)'
  <2>1. /\ CallInv(p) /\ call[p].began \in Nat /\ call[p].miss \in SUBSET Users
        /\ call[p].uids \in SUBSET Users /\ CallSpan \in Nat
    BY CallOf, Bounds
  <2>2. \A v \in Users : since'[v] = since[v] \/ since'[v] = 0
    BY <1>1 DEF IInv, TypeOK
  <2> QED  BY <1>1, <2>1, <2>2 DEF CallInv, FoundInv
<1>4. FlightInv' /\ WaitInv' /\ CacheInv'
  BY <1>1 DEF IInv, FlightInv, WaitInv, CacheInv, Leads
<1> QED  BY <1>1, <1>2, <1>3, <1>4 DEF IInv, TypeOK

LEMMA TickKeeps ==
  ASSUME IInv, Tick
  PROVE  IInv'
<1>1. /\ \A p \in Callers : call[p].pc # "idle" => call[p].began < CallSpan
      /\ since' = [u \in Users |-> IF since[u] = NoRow THEN NoRow ELSE Older(since[u])]
      /\ cache' = [u \in Users |->
                     IF cache[u].left > 1
                     THEN [age |-> Older(cache[u].age), left |-> cache[u].left - 1]
                     ELSE IF cache[u].left = 1 THEN Gone ELSE cache[u]]
      /\ call' = [p \in Callers |->
                    IF call[p].pc = "idle" THEN call[p]
                    ELSE [call[p] EXCEPT !.began = @ + 1, !.got = Aged(@), !.found = Aged(@)]]
      /\ UNCHANGED flight
  BY DEF Tick
<1>2. /\ since' \in [Users -> Ages \cup {NoRow}]
      /\ \A u \in Users : since[u] \in Int /\ since'[u] \in Int /\ since'[u] <= since[u] + 1
  <2>1. ASSUME NEW u \in Users
        PROVE  /\ since'[u] \in Ages \cup {NoRow}
               /\ since[u] \in Int /\ since'[u] \in Int /\ since'[u] <= since[u] + 1
    <3>1. since[u] \in Ages \cup {NoRow}
      BY DEF IInv, TypeOK
    <3>2. since'[u] = IF since[u] = NoRow THEN NoRow ELSE Older(since[u])
      BY <1>1
    <3>3. CASE since[u] = NoRow
      <4>1. since'[u] = NoRow
        BY <3>2, <3>3
      <4> QED  BY <3>3, <4>1 DEF NoRow
    <3>4. CASE since[u] # NoRow
      <4>1. since[u] \in Ages /\ since'[u] = Older(since[u])
        BY <3>1, <3>2, <3>4
      <4> QED  BY <4>1, OlderBy, Bounds DEF Ages
    <3> QED  BY <3>3, <3>4
  <2> QED  BY <1>1, <2>1
<1>3. /\ cache' \in [Users -> Entries] /\ CacheInv'
  <2>1. ASSUME NEW u \in Users
        PROVE  /\ cache'[u] \in Entries
               /\ cache'[u].left > 0 => cache'[u].age + cache'[u].left <= MaxTtl + 2 * CallSpan
    <3>1. cache[u] \in Entries
      BY DEF IInv, TypeOK
    <3>2. cache[u].left \in Int
      BY <3>1 DEF Entries, NoEntry, Gone
    <3>3. cache'[u] = IF cache[u].left > 1
                      THEN [age |-> Older(cache[u].age), left |-> cache[u].left - 1]
                      ELSE IF cache[u].left = 1 THEN Gone ELSE cache[u]
      BY <1>1
    <3>4. CASE cache[u].left > 1
      <4>1. /\ cache[u].age \in Ages /\ cache[u].left \in 1..MaxTtl
            /\ cache[u].age + cache[u].left <= MaxTtl + 2 * CallSpan
        BY <3>1, <3>4 DEF Entries, NoEntry, Gone, IInv, CacheInv
      <4>2. Older(cache[u].age) \in Ages /\ Older(cache[u].age) <= cache[u].age + 1
        BY <4>1, OlderBy
      <4>3. cache'[u] = [age |-> Older(cache[u].age), left |-> cache[u].left - 1]
        BY <3>3, <3>4
      <4>4. cache[u].left - 1 \in 1..MaxTtl
        BY <3>4, <4>1, Bounds
      <4>5. cache'[u] \in Entries
        BY <4>2, <4>3, <4>4 DEF Entries
      <4> QED  BY <4>1, <4>2, <4>3, <4>5, Bounds DEF Ages
    <3>5. CASE cache[u].left = 1
      <4>1. cache'[u] = Gone
        BY <3>3, <3>5
      <4> QED  BY <4>1 DEF Gone, Entries
    <3>6. CASE cache[u].left <= 0
      <4>1. cache'[u] = cache[u]
        BY <3>2, <3>3, <3>6
      <4>2. ~(cache'[u].left > 0)
        BY <3>2, <3>6, <4>1
      <4> QED  BY <3>1, <4>1, <4>2
    <3> QED  BY <3>2, <3>4, <3>5, <3>6
  <2> QED  BY <1>1, <2>1 DEF CacheInv
<1>4. ASSUME NEW p \in Callers
      PROVE  /\ call'[p] \in CallType /\ CallInv(p)'
             /\ call'[p].pc = call[p].pc /\ call'[p].miss = call[p].miss
             /\ call'[p].leader = call[p].leader
  <2>0. /\ call[p] \in CallType /\ CallInv(p) /\ call[p].got \in Infos /\ call[p].found \in Infos
        /\ call[p].miss \in SUBSET Users /\ call[p].uids \in SUBSET Users
        /\ call[p].began \in Nat /\ CallSpan \in Nat
    BY CallOf, Bounds
  <2>1. CASE call[p].pc = "idle"
    <3>1. call'[p] = call[p]
      BY <1>1, <2>1
    <3> QED  BY <2>0, <2>1, <3>1 DEF CallInv
  <2>2. CASE call[p].pc # "idle"
    <3> DEFINE c == call[p]
               got == Aged(c.got)
               found == Aged(c.found)
               began == c.began + 1
               r == [c EXCEPT !.began = began, !.got = got, !.found = found]
    <3>1. call'[p] = r
      BY <1>1, <2>2
    <3>2. /\ got \in Infos /\ DOMAIN got = DOMAIN c.got
          /\ \A u \in DOMAIN c.got : got[u] = Older(c.got[u]) /\ c.got[u] \in Ages
      BY <2>0, AgedOf, InfosOf
    <3>3. /\ found \in Infos /\ DOMAIN found = DOMAIN c.found
          /\ \A u \in DOMAIN c.found : found[u] = Older(c.found[u]) /\ c.found[u] \in Ages
      BY <2>0, AgedOf, InfosOf
    <3>4. began \in 0..CallSpan
      <4>1. call[p].began < CallSpan
        BY <1>1, <2>2
      <4> QED  BY <2>0, <4>1
    <3> HIDE DEF got, found
    <3>5. /\ r \in CallType /\ r.pc = c.pc /\ r.uids = c.uids /\ r.miss = c.miss
          /\ r.leader = c.leader /\ r.got = got /\ r.found = found /\ r.began = c.began + 1
      BY <2>0, <3>2, <3>3, <3>4 DEF CallType
    <3> HIDE DEF r
    <3>6. /\ \A u \in DOMAIN got : got[u] \in Int /\ c.got[u] \in Int /\ got[u] <= c.got[u] + 1
          /\ \A u \in DOMAIN found :
               found[u] \in Int /\ c.found[u] \in Int /\ found[u] <= c.found[u] + 1
      BY <3>2, <3>3, OlderBy, Bounds DEF Ages
    <3>7. /\ \A u \in DOMAIN got : got[u] <= MaxTtl + 2 * CallSpan - 1 + r.began
          /\ c.pc = "end" => FoundInv(r, r.began, since')
          /\ c.pc = "store" => FoundInv(r, CallSpan + r.began, since')
          /\ c.pc = "done" => \A u \in c.uids \ DOMAIN got : since'[u] <= CallSpan + r.began
      <4>1. ASSUME NEW u \in DOMAIN got PROVE got[u] <= MaxTtl + 2 * CallSpan - 1 + r.began
        <5>1. c.got[u] <= MaxTtl + 2 * CallSpan - 1 + c.began
          BY <2>0, <3>2 DEF CallInv
        <5> QED  BY <2>0, <3>5, <3>6, <5>1, Bounds
      <4>2. ASSUME NEW n \in Nat, FoundInv(c, n, since)
            PROVE  /\ \A u \in DOMAIN found : found[u] <= n + 1
                   /\ \A u \in c.miss \ DOMAIN found : since'[u] <= n + 1
        BY <1>2, <2>0, <3>3, <3>6, <4>2 DEF FoundInv
      <4>3. ASSUME c.pc = "end" PROVE FoundInv(r, r.began, since')
        <5>1. FoundInv(c, c.began, since)
          BY <2>0, <4>3 DEF CallInv
        <5> QED  BY <2>0, <3>5, <4>2, <5>1 DEF FoundInv
      <4>4. ASSUME c.pc = "store" PROVE FoundInv(r, CallSpan + r.began, since')
        <5>1. FoundInv(c, CallSpan + c.began, since)
          BY <2>0, <4>4 DEF CallInv
        <5>2. CallSpan + c.began \in Nat /\ CallSpan + r.began = CallSpan + c.began + 1
          BY <2>0, <3>5
        <5> QED  BY <3>5, <4>2, <5>1, <5>2 DEF FoundInv
      <4>5. ASSUME c.pc = "done", NEW u \in c.uids \ DOMAIN got
            PROVE  since'[u] <= CallSpan + r.began
        <5>1. since[u] <= CallSpan + c.began /\ u \in Users
          BY <2>0, <3>2, <4>5 DEF CallInv
        <5> QED  BY <1>2, <2>0, <3>5, <5>1
      <4> QED  BY <4>1, <4>3, <4>4, <4>5
    <3>8. CallInv(p)'
      BY <2>0, <2>2, <3>1, <3>2, <3>5, <3>7 DEF CallInv, FoundInv
    <3> QED  BY <3>1, <3>5, <3>8
  <2> QED  BY <2>1, <2>2
<1>5. call' \in [Callers -> CallType]
  BY <1>1, <1>4
<1>6. FlightInv'
  <2>1. ASSUME NEW k \in Keys, flight'[k] # NoCaller
        PROVE  call'[flight'[k]].pc \in Leading /\ call'[flight'[k]].miss = k
    <3>1. flight'[k] = flight[k] /\ flight[k] \in Callers
      BY <1>1, <2>1 DEF IInv, TypeOK
    <3>2. Leads(flight[k]) /\ call[flight[k]].miss = k
      BY <2>1, <3>1 DEF IInv, FlightInv
    <3> QED  BY <1>4, <3>1, <3>2 DEF Leads
  <2> QED  BY <2>1 DEF FlightInv, Leads
<1>7. WaitInv'
  BY <1>4 DEF IInv, WaitInv, Leads
<1> QED  BY <1>1, <1>2, <1>3, <1>4, <1>5, <1>6, <1>7 DEF IInv, TypeOK

-----------------------------------------------------------------------------
(* The theorems *)

LEMMA StepKeeps == IInv /\ [Next]_vars => IInv'
<1> SUFFICES ASSUME IInv, [Next]_vars PROVE IInv'
  OBVIOUS
<1>1. CASE UNCHANGED vars
  BY <1>1 DEF vars, IInv, TypeOK, CallInv, FoundInv, FlightInv, WaitInv, CacheInv, Leads
<1>2. CASE Next
  BY <1>2, LookKeeps, DoKeeps, QueryKeeps, FlightEndsKeeps, StoreKeeps, ReturnKeeps,
     EvictKeeps, RegisterKeeps, TickKeeps DEF Next
<1> QED  BY <1>1, <1>2

\* The invariant holds throughout.
THEOREM Inductive == Spec => []IInv
<1> QED  BY InitInv, StepKeeps, PTL DEF Spec

\* Every variable keeps its type, for any users, callers and lifetimes.
THEOREM TypeCorrect == Spec => []TypeOK
<1>1. IInv => TypeOK
  BY DEF IInv
<1> QED  BY Inductive, <1>1, PTL

\* The age of an answer is bounded by a lifetime and three calls, for any number
\* of users and of calls that overlap.
THEOREM AgeIsBounded == Spec => []StaleAtMost
<1>1. IInv => StaleAtMost
  <2> SUFFICES ASSUME IInv, NEW p \in Callers, NEW u \in DOMAIN call[p].got
               PROVE  call[p].got[u] < MaxTtl + 3 * CallSpan
    BY DEF StaleAtMost
  <2>1. call[p].got[u] \in Int
    BY CallOf, InfosOf, Bounds DEF Ages
  <2>2. call[p].got[u] <= MaxTtl + 2 * CallSpan - 1 + call[p].began
    BY CallOf DEF CallInv
  <2> QED  BY <2>1, <2>2, CallOf, Bounds
<1> QED  BY Inductive, <1>1, PTL

\* A user with a row is not missing from an answer for longer than two calls.
THEOREM AbsenceIsBounded == Spec => []NoFalseAbsence
<1>1. IInv => NoFalseAbsence
  <2> SUFFICES ASSUME IInv, NEW p \in Callers, call[p].pc = "done",
                      NEW u \in call[p].uids \ DOMAIN call[p].got
               PROVE  since[u] <= 2 * CallSpan
    BY DEF NoFalseAbsence
  <2>1. since[u] <= CallSpan + call[p].began /\ u \in Users
    BY CallOf DEF CallInv
  <2>2. since[u] \in Int
    BY <2>1, Bounds DEF IInv, TypeOK, Ages, NoRow
  <2> QED  BY <2>1, <2>2, CallOf, Bounds
<1> QED  BY Inductive, <1>1, PTL
=============================================================================
