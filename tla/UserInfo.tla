------------------------------ MODULE UserInfo ------------------------------
(***************************************************************************)
(* The user info service                                                   *)
(* (usersrv/internal/services/infosrv/user_info_service.go) and the query  *)
(* it makes (repostories/inforepo/user_info_repository.go): a local cache  *)
(* of user rows with a lifetime, behind it one flight per batch of users   *)
(* the cache misses.                                                       *)
(*                                                                         *)
(* Callers are the goroutines of the rpc server.  They interleave between  *)
(* the look into the cache, singleflight's Do, the moment the database     *)
(* reads the rows, the end of the flight, and the writes to the cache.     *)
(* Nothing tells the service that a row of t_user has changed, so what a   *)
(* copy of a row says is abstracted to its age, the minutes since the      *)
(* database read it.  The cache (ristretto) and singleflight are           *)
(* libraries, modelled by what the service relies on.                      *)
(*                                                                         *)
(* Time passes in minutes, the unit of the lifetimes.                      *)
(***************************************************************************)
EXTENDS Integers

CONSTANTS Users,          \* user ids
          Callers,        \* goroutines of the rpc server
          MinTtl, MaxTtl, \* userLocalCacheMinTtl and userLocalCacheMaxTtl
          CallSpan,       \* a call sees at most so many minutes begin
          NoCaller

ASSUME UserAssumption ==
  /\ MinTtl \in Nat \ {0} /\ MaxTtl \in Nat /\ MinTtl <= MaxTtl
  /\ CallSpan \in Nat
  /\ NoCaller \notin Callers

VARIABLES
  since,  \* per user: the minutes since its row is there, or NoRow
  cache,  \* userLc: per user an entry, with the minutes it has left
  flight, \* sf: per batch key the caller that leads its flight
  call    \* per caller: the call of UsersUnitInfo it is in

vars == <<since, cache, flight, call>>

\* No copy older than this need be told apart.
Horizon == MaxTtl + 3 * CallSpan
Ages == 0 .. Horizon
Older(n) == IF n < Horizon THEN n + 1 ELSE n

NoRow == -1
NoEntry == [age |-> 0, left |-> -1]
Gone == [age |-> 0, left |-> 0] \* its lifetime is over, not yet cleaned up
Entries == {NoEntry, Gone} \cup [age : Ages, left : 1 .. MaxTtl]

Keys == (SUBSET Users) \ {{}}

\* Mutant of KeyOf: the flight is keyed by the first user of the batch.
KeyOfFirst(miss) == {CHOOSE u \in miss : TRUE}

\* A key is the sorted ids of the batch, joined: the set of its users.
KeyOf(miss) == miss

\* A partial map from users to the age of what is known of them.
Infos == UNION {[S -> Ages] : S \in SUBSET Users}
None == [u \in {} |-> 0]

\* f, and g where f says nothing: what writes to a Go map leave.
Over(f, g) == [u \in DOMAIN f \cup DOMAIN g |-> IF u \in DOMAIN f THEN f[u] ELSE g[u]]

CallIdle == [pc |-> "idle", uids |-> {}, got |-> None, miss |-> {}, leader |-> NoCaller,
             found |-> None, began |-> 0]
CallType == [pc : {"idle", "do", "query", "end", "fail", "wait", "store", "done"},
             uids : SUBSET Users, got : Infos, miss : SUBSET Users,
             leader : Callers \cup {NoCaller}, found : Infos, began : 0 .. CallSpan]

TypeOK ==
  /\ since \in [Users -> Ages \cup {NoRow}]
  /\ cache \in [Users -> Entries]
  /\ flight \in [Keys -> Callers \cup {NoCaller}]
  /\ call \in [Callers -> CallType]

Init ==
  /\ since \in [Users -> {NoRow, Horizon}]
  /\ cache = [u \in Users |-> NoEntry]
  /\ flight = [k \in Keys |-> NoCaller]
  /\ call = [p \in Callers |-> CallIdle]

-----------------------------------------------------------------------------
(* UsersUnitInfo in caller p *)

\* userLc.Get: an entry whose lifetime is over counts as a miss.
Hits(S) == {u \in S : cache[u].left > 0}

\* The look into the cache; with a hit for every user the answer is complete.
Look(p, S) ==
  /\ call[p].pc = "idle"
  /\ call' = [call EXCEPT ![p] =
       [CallIdle EXCEPT !.uids = S,
                        !.got = [u \in Hits(S) |-> cache[u].age],
                        !.miss = S \ Hits(S),
                        !.pc = IF S \subseteq Hits(S) THEN "done" ELSE "do"]]
  /\ UNCHANGED <<since, cache, flight>>

\* sf.Do: the caller leads a flight for its batch, or waits for the one there is.
Do(p) ==
  LET key == KeyOf(call[p].miss)
  IN /\ call[p].pc = "do"
     /\ IF flight[key] = NoCaller
        THEN /\ flight' = [flight EXCEPT ![key] = p]
             /\ call' = [call EXCEPT ![p].pc = "query"]
        ELSE /\ call' = [call EXCEPT ![p].pc = "wait", ![p].leader = flight[key]]
             /\ UNCHANGED flight
     /\ UNCHANGED <<since, cache>>

\* FindUsersUnitInfo: the database reads the rows there are, or an error returns.
Query(p) ==
  /\ call[p].pc = "query"
  /\ \/ call' = [call EXCEPT ![p].pc = "end",
                             ![p].found = [u \in {x \in call[p].miss : since[x] # NoRow} |-> 0]]
     \/ call' = [call EXCEPT ![p].pc = "fail"]
  /\ UNCHANGED <<since, cache, flight>>

\* The flight of p ends: its key is free, unless it was forgotten and is another
\* flight's; p and everyone who waited for it go on with what it found, or
\* answer its error.
FlightEnds(p) ==
  LET key == KeyOf(call[p].miss)
      on == {p} \cup {q \in Callers : call[q].pc = "wait" /\ call[q].leader = p}
  IN /\ call[p].pc \in {"end", "fail"}
     /\ flight' = [flight EXCEPT ![key] = IF @ = p THEN NoCaller ELSE @]
     /\ call' = [q \in Callers |->
          IF q \notin on THEN call[q]
          ELSE IF call[p].pc = "fail" THEN CallIdle
          ELSE [call[q] EXCEPT !.pc = "store", !.found = call[p].found, !.leader = NoCaller]]
     /\ UNCHANGED <<since, cache>>

\* What the flight found joins the answer.
Answer(p) == Over(call[p].found, call[p].got)

\* SetWithTTL with one lifetime for the users of infos.  The cache may drop a
\* new entry, never the update of one it has.
Cached(infos, lost, ttl) ==
  /\ lost \subseteq {u \in DOMAIN infos : cache[u] = NoEntry}
  /\ cache' = Over([u \in DOMAIN infos \ lost |-> [age |-> infos[u], left |-> ttl]], cache)

\* Mutant of Stored: the loop goes over the answer, so that hits are stored anew.
StoredAnswer(p) == Answer(p)

\* Every user the flight found is written to the cache.
Stored(p) == call[p].found

Store(p, lost, ttl) ==
  /\ call[p].pc = "store"
  /\ Cached(Stored(p), lost, ttl)
  /\ call' = [call EXCEPT ![p].pc = "done", ![p].got = Answer(p),
                          ![p].miss = {}, ![p].found = None]
  /\ UNCHANGED <<since, flight>>

\* The call returns its answer.
Return(p) ==
  /\ call[p].pc = "done"
  /\ call' = [call EXCEPT ![p] = CallIdle]
  /\ UNCHANGED <<since, cache, flight>>

-----------------------------------------------------------------------------
(* The cache, the database and the clock *)

\* The cache evicts an entry, or cleans up one whose lifetime is over:
\* onUserInfoLocalCacheEvict forgets the flight whose key is that one user.
Evict(u) ==
  /\ cache[u] # NoEntry
  /\ cache' = [cache EXCEPT ![u] = NoEntry]
  /\ flight' = [flight EXCEPT ![{u}] = NoCaller]
  /\ UNCHANGED <<since, call>>

\* A user gets a row.
Register(u) ==
  /\ since[u] = NoRow
  /\ since' = [since EXCEPT ![u] = 0]
  /\ UNCHANGED <<cache, flight, call>>

Aged(infos) == [u \in DOMAIN infos |-> Older(infos[u])]

\* A minute passes.  No call under way lasts longer than CallSpan.
Tick ==
  /\ \A p \in Callers : call[p].pc # "idle" => call[p].began < CallSpan
  /\ since' = [u \in Users |-> IF since[u] = NoRow THEN NoRow ELSE Older(since[u])]
  /\ cache' = [u \in Users |->
                 IF cache[u].left > 1
                 THEN [age |-> Older(cache[u].age), left |-> cache[u].left - 1]
                 ELSE IF cache[u].left = 1 THEN Gone ELSE cache[u]]
  /\ call' = [p \in Callers |->
                IF call[p].pc = "idle" THEN call[p]
                ELSE [call[p] EXCEPT !.began = @ + 1, !.got = Aged(@), !.found = Aged(@)]]
  /\ UNCHANGED flight

Next ==
  \/ \E p \in Callers :
       \/ \E S \in Keys : Look(p, S)
       \/ Do(p) \/ Query(p) \/ FlightEnds(p)
       \/ \E lost \in SUBSET Users, ttl \in MinTtl .. MaxTtl : Store(p, lost, ttl)
       \/ Return(p)
  \/ \E u \in Users : Evict(u) \/ Register(u)
  \/ Tick

Spec == Init /\ [][Next]_vars

-----------------------------------------------------------------------------
(* Properties *)

\* An answer never shows a user as it was more than a lifetime and three calls
\* ago (that of the flight's leader, that of whoever stored what it found, its
\* own), whichever flights overlapped, were forgotten or overwrote each other.
StaleAtMost ==
  \A p \in Callers : call[p].pc = "done" =>
    \A u \in DOMAIN call[p].got : call[p].got[u] < MaxTtl + 3 * CallSpan

\* A user who is missing from an answer had no row two calls ago at the most:
\* what is not there is never cached, and whoever shares a flight shares it for
\* its own users.
NoFalseAbsence ==
  \A p \in Callers : call[p].pc = "done" =>
    \A u \in call[p].uids \ DOMAIN call[p].got : since[u] <= 2 * CallSpan
=============================================================================
