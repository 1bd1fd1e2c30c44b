# sdim in TLA+

TLA+ models of sdim, a distributed instant-messaging server in Go, with TLC
configurations that check them on small instances and TLAPS proofs of theorems
about them. This file says what the system consists of, what is modelled and how
the models correspond to the code, what is checked and proved, and what is left.

## 1. The system

Four servers talk over RPC and NSQ; MySQL and Redis keep what survives a crash.

A message travels: the client's Send frame reaches the **engine server**
(`frhandler.handleFrames`), which calls `MsgComing` of the **topic server**
(`convManager.OnMsgComing`: a number from Redis, then `topic.msg_receive`). The
**msg server** stores it and publishes `topic.msg_forward`. The engine pushes it to
the receivers' devices (`mqhandler/msgforward`), the topic server updates the
conversation in memory (`OnMsgStored`) and publishes `topic.conv_msg.update`, which
the engine pushes as well. The **user server** answers who a user is.

| component | state | operations | interacts with |
|---|---|---|---|
| connection manager (`connmgr`) | `connId2conn`, `uid2conn` (a wrap per user with `conns` and `level2conn`), each connection's `state`, `uid`, `clevel`, `lastPingTime`; a delay queue | `AddWhenOpened`, `ModifyAfterAuthed`, `ModifyAfterPingSuccess`, `CleanAfterConnClosed`, `GetUserConns`, the taker's two checks, `GracefulStop` | gnet callbacks, frame handler, push consumers |
| gnet event handler (`drive`) | none; gnet keeps an inbound buffer per connection | `OnOpen`, `OnTraffic`, `OnClose`, `OnDispose` | connection manager, frame handler, codec |
| frame handler (`frhandler`) | a pool of goroutines | Conn, Ping and Send frames | `UserState` and `MsgComing` RPCs, connection manager |
| frame codec (`fcodec`) | none | encode; decode from the inbound buffer, with length, CRC and partial frames | event handler |
| push consumers (`mqhandler`) | none | five NSQ topics to frames | connection manager |
| conversation manager (`convmgr`) | `convId2items`, `uid2convItems`, segment locks, `doneChan` | `OnMsgComing`, `OnMsgStored`, `ClearUnread`, lists, `UpsertGroupChatConv`, results of `PublishAsync` | conversation repository, message sender, group manager |
| conversation repository (`convrepo`) | rows in MySQL, a hash per conversation in Redis changed by Lua scripts | `UpsertConv`, `ModifyConvTree`, `ClearUnread`, queries | |
| group manager (`grpmgr`) | `grpNo2info`: the members of a group with role and state | lazy load, created, added, removed, can-send | group repository |
| group handlers, repository | rows in MySQL, a hash in Redis | create, add, remove, settings | group and conversation managers, NSQ |
| receive consumer (`msgreceive`) | none | store, forward, requeue | msg repository, NSQ |
| user info service (`infosrv`) | `userLc`, a cache with a time to live; `sf`, the flights under way | `UsersUnitInfo`, its eviction callback; `UserState`, `UserUnitInfo` (stateless) | user repository |

`PROJECT.json` lists every part with its files, also the ones that are not modelled
(boot and configuration, stubs, stateless queries, example clients), and every
hazard met so far at its line.

What makes this code hard:

* goroutines that share maps and structs under per-key *segment* locks, with reads
  outside the locks (`connmgr`, `convmgr`, `grpmgr`);
* state kept three times: rows, a Redis hash and memory, changed in that order with
  no common transaction, by calls that may fail after they took effect;
* results and messages that come back out of order, late or twice;
* timers that race with logins and pings;
* a byte stream that is cut anywhere, read in batches by callbacks that run only when
  more arrives;
* flights that are shared, forgotten and overtaken, in front of a cache;
* crashes, after which memory is rebuilt lazily from rows and hash.

What makes the parts correct:

* connections: pushed frames reach exactly the devices that are logged in as the
  user, within the device limit; a timeout and a login exclude each other; silent
  and unauthenticated sockets are closed; closes are cleaned up to the end;
* streams: every frame that was written whole and well-formed is decoded and handled in
  order, none behind a malformed one, and none waits in a buffer;
* conversations: each accepted message has its own number for ever; memory never
  shows what was not numbered; a message that went out is counted; no failure leaves
  a conversation locked;
* groups: memory forgets no member; sends reach all settled members; removed members
  are out;
* user infos: an answer is not older than the cache allows, and a user who has a row is not
  missing for longer than the calls under way last.

## 2. The modules

| module | what it is | extends |
|---|---|---|
| `DeviceLists` | whose list a connection is in, where, and who has to leave it | |
| `ConnManager` | connection manager, its callers and its taker; implements `DeviceLists` | |
| `SequenceLemmas` | what the proofs need about sequences | |
| `ConnManagerProofs` | theorems about `ConnManager`: owners, states, lists of devices, ping checks, the refinement | `ConnManager`, `SequenceLemmas` |
| `FrameChannel` | what a client may rely on when it writes frames | |
| `FrameStream` | codec, `OnTraffic` and `Handle` on one connection's stream; implements `FrameChannel` | |
| `FrameStreamProofs` | theorems about `FrameStream` | `FrameStream`, `SequenceLemmas` |
| `ConvLog` | what a conversation promises: an append-only numbered log with read positions | |
| `ConvManager` | one p2p conversation: MySQL, Redis, memory, workers, results, crash; implements `ConvLog` | |
| `ConvManagerProofs` | theorems about `ConvManager` | `ConvManager`, `SequenceLemmas` |
| `GroupConv` | group conversations in memory: creation, loading, results, clears, lists, crash | |
| `GroupConvProofs` | theorems about `GroupConv` | `GroupConv`, `SequenceLemmas` |
| `GroupManager` | the members of one group: rows, memory, handlers, sends, crash | |
| `GroupManagerProofs` | theorems about `GroupManager` | `GroupManager` |
| `Delivery` | what becomes of accepted messages: forwarded once or lost | |
| `MsgPipeline` | messages from Send frames to devices: batches, calls, NSQ, the msg server, the consumers; implements `Delivery` | |
| `MsgPipelineProofs` | theorems about `MsgPipeline` | `MsgPipeline`, `SequenceLemmas` |
| `UserInfo` | the user info service: cache, single flight, eviction, time | |
| `UserInfoProofs` | theorems about `UserInfo` | `UserInfo` |
| `MCConnManager`, `MCFrameStream`, `MCUserInfo`, `MCConvManager`, `MCGroupConv`, `MCGroupManager`, `MCMsgPipeline` | small instances, symmetry sets and views | their module |

### ConnManager and DeviceLists

State is one variable per field of the Go structs (`state`, `uid`, `clevel`,
`lastPing`, `conns`, `level2conn`, `uid2conn`, `connId2conn`), the delay queue `dq`
as a set of checks, and a program counter with locals for every thread: `job` for the
pool's goroutines in `handleConnFrame`/`ModifyAfterAuthed`, `clean` for
`CleanAfterConnClosed`, `taker` for the delay-queue goroutine. A step ends wherever
the code reads or writes shared state without the user's segment lock, so the model
has the interleavings the code has: the uid read in `CleanReadUid` while
`ModifyLock` is about to write it, or a wrap pointer that is used after the wrap was
dropped from `uid2wrap`. A wrap is named by the connection that made it, which is
unique. `TakerCas` is the CompareAndSwap of both checks, `UserStateOk` that of
`ModifyAfterAuthed`.

`DeviceLists` is that without wraps, level lists and locks: a list per user. A login
appends its connection and pushes out the earliest slave at the limit, or one master at
most; a cleanup takes its own connection out, or finds nothing to do, or concludes from an
old wrap that the user has none left, which the code does (section 4).
`ImplementsLists` maps the list to `conns` of the wrap in use.

Abstracted: the time of the last ping is `fresh` or `stale`; queued checks have no
time (the taker may take any, which covers every order); what frames say; the unlocked
read of a string header while it is written (a torn uid).

### FrameStream and FrameChannel

One connection, from the client's writes to the pool. The stream is in units, one per
field of the header and of the payload, for `Decode` only ever looks at a whole header
or a whole frame. `stream`, `got` and `pos` are what was written, what gnet has read
into the inbound buffer, and what `Discard` has taken from it; `Inbound` is what `Peek`
sees. `OnTraffic(n)` is a callback after any number of units arrived, `DecodeFrame`,
`DecodeFails` and `DecodeEnds` are the rounds of its loop, `HandleUnauthed`,
`HandlePings` and `HandleOthers` are `Handle`, and `WakeIfFull` is the end. The client
(`Writes`) may write anything that is not a lie about the length of a payload
(`StreamAssumption`: behind such a lie the server cannot tell frames any more); the
connection may be authenticated, time out or be closed between the steps. A connection
that timed out is in state closing but still registered while it is closed (`late` before
its authentication, `lost` after it), and `OnTraffic` then takes it for one that is not
authenticated; the check for authentication also removes it (`AuthExpiredDel`), after the
ping check only `OnClose` does. `FrameChannel` says what all that amounts to: the server receives what was written, in order, each
once, up to the first thing it cannot receive.

Abstracted: bytes within a field; the request id and the body, which nothing here looks
into; the checksum, which is any function of the payload; what the pool does
(`ConnManager`, `MsgPipeline`).

### UserInfo

`cache` is `userLc`, `flight` is `sf`: per batch key the caller whose query is under way.
`UsersUnitInfo` is `Look`, `Do`, `Query`, `FlightEnds`, `Store` and `Return` of a caller;
`Evict` is ristretto's eviction or cleanup with its callback, which forgets the flight
whose key is that user alone, as `sf.Forget` does. A forgotten flight goes on and ends,
and does not take away the key of the one that followed it. The cache may drop a new
entry.

A copy of a row is abstracted to its age in minutes since the database read it. That a call
sees at most `CallSpan` minutes begin is an assumption (calls end, by their deadlines or
the database's); every bound the properties name is in calls and lifetimes. The loops over
the users of a batch are one step each, for the entries of different users do not depend
on each other. `UserState`, `UserUnitInfo` and the profile handler read a row and keep
nothing.

### ConvManager and ConvLog

`dbConv`, `tree` (msg_seq and the browse positions), `conv` and `item` are the rows,
the hash and the two maps in memory. `p2pConvHandle` is a sequence of actions of a
worker (`LoadLocked`, `CreateRows`, `CreateTree`, `ReadTree`, `SyncConv`, `SyncItem`,
`ModifyConvTree`, `SendMsg`), one per section under a lock or call to another process,
each call with its failure, which may have had its effect. `acks` and `rx` are
`doneChan` and the goroutine that applies it. `OnMsgStored` takes any message that
went out, any number of times. `ClearUnread` is its Redis half and its memory half, of any
goroutine (`Clearers`) for any member, so that several clears of one member overlap.
`Crash` empties memory at any point; it also covers a stop of the process in the
middle of its work. `ConvLog` has two actions, a message is numbered and everything is
read; `ImplementsLog` maps its variables to the hash.

Abstracted: users' profiles, titles and timestamps; `RecentlyMsgs`, which no reachable
caller reads; conversations other than the one modelled, with which it shares only
segment locks. Not in the model yet: `GracefulStop` of the manager.

### GroupConv

The same manager for groups, with what p2p conversations do not have: each user's
*wrap* (`ConvItems`, `ConvId2Item`) is made on demand by two procedures that race.
`UpsertGroupChatConv` (`UpsertLook`, `UpsertConv`, `UpsertMember`, `UpsertWrap`,
`UpsertItem`) looks under the read lock and acts under another lock without looking
again; `groupConvHandle` (`LoadLocked`, `ReadTree`, `SyncConv`, `SyncMember`, `SyncHeld`,
`SyncFresh`, `ModifyConvTree`, `SendMsg`) does look again. A wrap is named by the group
or worker that made it, and both may go on with the pointer of a wrap that was replaced:
`wraps` keeps every wrap, `uid2conv` says which one is in use. `item` has the numbers of
the conversations in the wrap in use; what is written into another one is lost.
`created`, `rows` and `tree` are MySQL and Redis; a crash leaves them and empties the rest.

Those invited (`Members`, the handler's `newMebs`) and those with a row are not the same.
The rows are made for the users `UsersUnitInfo` returned, and it leaves out ids it does not
find: `CreateGroupChat` makes rows for the invited without any of `Unknown`. Memory is told
of all that were invited (`group_handler.go:166`), in the order of the list, the owner
perhaps twice. A user without a row may send, for `canSendMsgInGroup` lets a sender without
an entry pass, clears and is counted for like the others. A group nobody has a row of is
cached as an empty conversation.

`RecentlyConvList` and `SyncHotConvList` are the two answers a client can ask for, and
`HotCoversRecent` relates them. It names whoever was invited and got no row as the one
case in which the first shows a conversation that the second does not have.

Abstracted: titles, icons and remarks (`OnGroupDataChanged` and the setting handlers
change nothing else); the last message and its time; the members of a group, which are
those it was created with (`GroupManager` has their changes). Whom a result is counted for
(`ForwardMembers`, what the group manager answered when the message was sent) is any set of
those invited, with the sender. Conversations that fail with a hash that cannot be parsed
are left out.

### GroupManager

`db` is the state column of `t_group_item`, `mem` the `GroupInfo` in memory. The
handlers that change the members are a transaction (its snapshot in `BeginAdd` and
`BeginRemove`, its end in `Commit`, `CommitFails`) followed by the change of memory
(`Load`/`FindGroupItems`/`PutInfo` under the segment lock, `OnGroupMebAdded`,
`OnGroupMebRemoved`). A send reads the member map without the lock, one member per
step (`Look`, `Visit`, `CanSend`). `OnGroupCreated` may come after other handlers have
already loaded the group, for a founder can learn of it from the rows; a send keeps
the `GroupInfo` it holds (`old`).

Abstracted: roles (only the creator's allows changes and no operation changes one), the
group's state (no operation changes it), profiles and notifications. `lost` and `due`
are ghosts; no guard reads them.

### MsgPipeline and Delivery

A message is named by its Send frame. `todo` holds what the goroutines of the pool
have left of their batches; `call` and `ack` follow `MsgComing` and the SendAck of each
frame, `num` its number. `recv`, `att` and `hnd` are the message in
`topic.msg_receive`, its `Attempts`, and the goroutine that handles it in the msg
server (`UserUnitInfo`, `UpsertMsg`, `Publish`, and `CallFails` at each of them). A
publish into `topic.msg_forward` gives a copy to the topic server (`OnMsgStored`, which
tells the lists) and to the engine (`Forward`, which writes to the devices).

NSQ is external and modelled by what its clients see: at least once, in any order, again
after a requeue, a timeout or a restart of the consumer, with the attempts counted, and
the first response to a delivery is the one that counts. The engine's 400 ms for
`MsgComing` are a choice between the answer and giving up; a call that was given up
is still served.

`Delivery` knows nothing of calls, queues, handlers and attempts: a message is accepted,
stored, forwarded once or lost, and shown to devices. `ImplementsDelivery` maps `lost` to
the numbered messages that nobody is left to forward (`Lost`: neither queued nor in a
handler, and not published), so that being lost is final whatever nsqd redelivers and
however late a handler wakes up; `lost` may only grow in `Accept` (the publish of
`SendMsg` failed), `Store` (a late insert, whose publish nobody will wait for) and `Lose`
(dropped at the second attempt, or a restart).

Abstracted: what happens inside the topic server between call and number
(`ConvManager`), when the receiver's connections come and go (`ConnManager`; here a
fixed list whose sockets may close), the groups' members, the contents of messages.

## 3. The runs

Each run is a question; all finish within five minutes on two workers.

| run | shows | instance |
|---|---|---|
| `conn_safety` | own user only, timeout excludes login, ping checks are never lost, the state machine, listed once, device limit, no empty wrap, implements `DeviceLists` | 2 connections, 2 users, 2 workers, a master and a slave type, limit 1 |
| `conn_live` | unauthenticated and silent connections are kicked, closes are cleaned | 1 connection, 2 users, 2 workers, fair |
| `conn_masters` | violated: masters kick each other | 2 master devices |
| `conn_ghost` | violated: no closed connection stays listed | 2 connections, 1 worker |
| `conv_safety` | implements `ConvLog`, numbers are unique, memory behind Redis, no phantom unread, memory only grows | 2 members, 2 workers, 2 goroutines that clear, 2 messages, 1 crash |
| `conv_live` | no failure keeps the lock, a successful publish is counted | 3 messages, 1 crash, fair |
| `groupconv_safety` | lists have no duplicates and no holes, show what the stores do not know only to a user without a row, no phantom unread | 2 groups, one user in both, who may get no row, and one in the first; 1 worker, 1 goroutine that clears, 2 messages, any number of failures and crashes |
| `group_safety` | memory follows the rows, no member forgotten, sends reach settled members | owner, founding member, newcomer; 2 workers; any number of requests and crashes |
| `group_kicked` | violated: a removed member cannot send | as above |
| `frame_stream` | decoding implements the channel; what is handed over and answered follows it; no whole frame is left in the buffer | 4 writes of 7 kinds, 3 of them malformed, batches of 2; fair |
| `user_info` | how old an answer can be, how long a new user can be missing | 2 users, 2 calls at a time, lifetimes of 1 and 2 minutes, any number of calls, failures and evictions |
| `pipeline_safety` | implements `Delivery`: forwarded once or lost for good; stored before pushed, forwarded once, batches acknowledged in order, no loss without a failure, reachable devices get it, the queue drains | 2 messages in one batch or two, 2 devices, any number of failures, timeouts, redeliveries and restarts; fair |

Why these bounds: two workers are what a race on one lock or one CompareAndSwap needs,
and a third thread is there anyway (taker, event loop, receiver). A cleanup that holds a
stale wrap needs a login beside it that makes the new one, and with a limit of one slave
every second login evicts; more connections and larger limits are covered by the proofs.
Two messages give an order to be wrong about; liveness takes three so that a failure can
come before, between and after successes.

The stream has batches of two and four writes, so that a batch can be full with a frame
left over, full exactly, or broken off by a malformed frame. `Window`, the units written
that have not arrived, is large enough for two frames on their way, so that every cut of
a frame and of the border between two is reached. In `user_info` two calls share,
overtake or miss each other's flights, and two users give batches that overlap in one;
the lifetimes differ so that one batch may outlive another. Both bounds are tight: with
one minute less each property is violated. In the group, the owner can remove itself and
others, a founder be removed and added again, and a newcomer be added; requests and
crashes are not bounded.

Group conversations need two groups for a wrap to be replaced that already holds
something, and one worker to load it beside the handlers that create; the results and
clears are further threads. One member may get no row (`Unknown`), so there are groups in
which all, some or none of those invited have one. To keep the instance small there is one
clear at a time, and a member clears only what it has not read (`ClearsRead` is FALSE). With
`ClearsRead` TRUE, and with an owner who invites itself too, the run is several times as
long and finds nothing else; the proofs have any number of clears at a time.

In the pipeline two frames are a batch with something left to lose, or two batches that
race; two devices are one before and one behind a dead socket. `Attempts` stops counting
at two, beyond which the handler makes no difference.

`MaxWrites` and `Window` bound the stream, `Horizon` is the age beyond which copies are
not told apart (the bound that is checked), `MaxFrames` bounds the frames of the
pipeline, `MaxMsgs` the messages and message ids of conversations and `MaxCrashes` the
crashes of a p2p conversation. The views leave out of the fingerprint only what no step
or property of that run can read any more; that of `MCGroupConv` leaves out the names of
the wraps too, for only which of them is in use and who holds which matters. Deadlock is checked in `user_info`, where
calls can always begin; elsewhere it is not, because the systems may come to rest: every
client may be gone, every bound used up.

Fairness: `ConnManager` assumes that goroutines and event loops are scheduled, that
`UserState` returns (it has a timeout), and that the delay queue hands out items in the
order of expiry, so that none is passed over for ever (strong fairness of taking one).
`ConvManager` assumes that goroutines are scheduled and that calls end, well or badly
(they have deadlines). Nothing is assumed of clients, and no call is assumed to succeed.
`MsgPipeline` assumes only that nsqd delivers what is queued and takes back what is not
answered in time; handlers may hang, fail and be restarted for ever. `FrameStream`
assumes that gnet's event loop runs its callbacks to the end and the Wakes it was asked
for; not that anything more arrives.

## 4. What the code says and does not do

* `conn_masters`: `handleConnFrame` drops the connections `ModifyAfterAuthed` evicts,
  so two masters stay online, against the comment on `ClientLevel`.
* `conn_ghost`: a close between the CompareAndSwap and the locked section of
  `ModifyAfterAuthed` leaves the closed connection in the user's wrap.
* `group_kicked`: `canSendMsgInGroup` has no answer for a sender without an entry in
  memory, which after a restart is what a removed member is.

Without a run of its own:

* `CleanAfterConnClosed` deletes a user's entry in `uid2conn` when the wrap it fetched before
  the lock is empty (`conn_manager.go:291`), without looking whether it is still the entry,
  against the comment that the user has no connections any more (`:290`). Three connections
  show it: a slave is evicted and closes, its cleanup fetches the wrap, the user's other
  connection closes, which empties and deletes the wrap, a third logs in, and the first
  cleanup deletes the third's new wrap: a device online that no push reaches. `DeviceLists`
  has it as the last case of `Clean`.
* A conversation is put in memory before its hash is read (`conv_manager.go:774`): when
  that read fails the handler returns, every later message finds the conversation and
  skips the load, and the members' conversations stay missing until a restart, against
  the comment that a conversation in the store is synced to memory (`:766`).
  `ConvManager` has that path; its properties hold in spite of it.
* The two halves of `ClearUnread`, and results out of order, leave an unread count that is
  not the distance to the position the comment on `BrowseMsgSeq` says it is computed from
  (`conversation_manager.go:77`).
* `UpsertGroupChatConv` creates a user's wrap when it "does not exist"
  (`conv_manager.go:429`) without looking again, and replaces one that was made since it
  looked: the user's other conversations are gone from memory, and a conversation that was
  loaded in between has its number set back to 0. `GroupConv` has both; its properties
  are about what is right in spite of them.
* `HandleStartGroupChat` makes rows only for the users `UsersUnitInfo` returned
  (`group_handler.go:124`), but passes all it was asked to invite to
  `UpsertGroupChatConv` (`:166`), which lists the conversation for each of them. An id
  that was left out, for it is unknown or because of an answer as old as
  `NoFalseAbsence` allows, then has a conversation in `RecentlyConvList` that
  `SyncHotConvList` never has and that is gone after a restart. In `HotCoversRecent` this is
  the second case; without it the property is violated by the creation alone.
* `HandleStartGroupChat` passes the avatar as the title of the conversation
  (`group_handler.go:166`).
* A member's remark for a group ("设置群备注", `group_router.go:15`) is written to
  `t_group_item.remark` and `conv_title` (`group_repository.go:281`, `:291`), but a
  conversation is loaded with `conv_remark` (`conversation_repostory.go:218`), which no
  statement writes: once it is loaded again the list shows neither the remark nor a title
  with it, while `SyncHotConvList`, which answers from the rows, has it as the title.
* `maxRetryTimes` is 1, and messages are dropped at the second attempt, so the four
  `Requeue` of the msg server never lead to a retry: the first failure loses the message
  (`NoSilentLoss` records it in `failed`). The same line is what `ForwardedOnce` depends
  on, for nothing else recognises a message that is handled twice; with one attempt more
  the property is violated.

## 5. The proofs

`ConnManagerProofs` holds for any sets of connections, users, workers and client types
and any limit on slaves, from `ConnAssumption` (the limit is positive, the master types
are types, the null values are no ids).

`TypeOK` is proved first (`TypeCorrect`). `ConnsOfOwnUserOnly` is not inductive: a
connection is put into a wrap by a worker that won the CompareAndSwap some steps
before, and nothing in the property says that the uid was not changed in between.
`IndInv` adds

* `WinnerInv`: at most one worker is past the CompareAndSwap of a connection, its uid
  is empty until that worker holds the lock and its own afterwards;
* `CheckInv`: ping checks exist only for connections with a uid;
* `OwnerInv`: all connections of a wrap, also of one no longer published, have the uid
  of the connection that made it, and `uid2conn` files it under that uid.

`Inductive` is that invariant; `OwnUserOnly`, `TimeoutIsFinal` and `ConnStateMachine` (an
action property) follow from it. `SequenceLemmas` states what `Append`, `Tail` and
`RemoveFirst` do to the elements of a sequence.

The second half of `ConnManagerProofs` goes on to the lists of a user's devices. `ListedOnce`,
`DeviceLimit` and `NoEmptyWrap` depend on what the connection that is about to join is
known not to be, and on which wrap it will find. `ListInd` adds to `IndInv`

* `FreshInv`: a connection whose uid is not written yet, or whose worker is still to publish
  it, is in no list of any wrap, published or not;
* `SlaveInv`: a wrap lists nothing twice, its list of slaves is within the limit and
  holds every slave of the wrap;
* `FiledInv`: a cleanup works on a wrap of its own connection's user, and no wrap that
  can be found is empty.

Only three steps concern the lists (`ListSteps`): a cleanup's locked section, the write
of a uid and a publication.

`PingCheckPending` needs `PingInv`: a connection has a ping time before its first check is
queued, and a check that runs belongs to a connection that was opened, so no check can
find the time unset and end the chain.

Of the liveness properties of `conn_live` the safety halves are proved. `SegmentHeld`: a segment
is taken just while one worker is between the write of a uid and its publication, so what a
cleanup waits for is always about to be given back. `KickIsComing`: a connection that is not
authenticated has its check ahead of it, and one whose state a check has taken is about to
lose its socket.

`Refinement` shows that `ConnManager` implements `DeviceLists`. `DeviceLists` evicts by the
list and the code by a second list, of the slaves; that they agree is `RefInd`:

* `LevelInv`: a connection has no level until its login is published, and keeps it;
* `OrderInv`: the list of slaves has just the slaves of the wrap, in the wrap's order
  (`InOrder`), and the listed masters are masters.

So the head of the one is the earliest slave of the other (`SlaveRoom`), and their lengths
agree (`SlaveCount`). A `ModifyLock` claims, a `ModifyPublish` logs in, and the step in which
a cleanup ends cleans; all others change nothing of the lists. With this every safety property
of `conn_safety` is proved. The lemmas on order are in `SequenceLemmas`.

`FrameStreamProofs` holds for any writes that satisfy `StreamAssumption`, any sizes,
checksum and bounds. `DecodeEncode` is about the codec alone. `Refinement` shows that
`FrameStream` implements `FrameChannel` however the stream is cut, from `IndInv`: the
stream is the units of the writes one after the other and `ends` says where they end
(`StreamInv`), and `Decode` stands at the end of the last frame it returned, which was
the last of as many well-formed writes (`LoopInv`). A step of `Decode` then finds the
units of one write where the header says they are (`SliceEqual`, `BufferUnits`).

What `Handle` does with the frames is proved in the second half. `HandledInOrder` is not
inductive: between `Decode` and the pool a batch is on its way, half of it perhaps done.
`WorkInv` adds that what was handed over, followed by what the batch still has to hand over
(`ToHand`), is the frames of the second group of all that was decoded, and the same of the
pongs (`ToAnswer`); a connection that was closed has a prefix of it. The groups are made by
a loop, a recursive function, for which no induction theorem can be used; that the loop
is well-defined, and that the group of a longer batch continues the group of a shorter one
(`GroupOfMore`, `GroupOfFirst`), is shown by a least counterexample (`MinOfNats`).
`TypeCorrect` needs what `Decode` demands of a payload, so that no pong reads beyond it,
and that the checksum is a number. `ConnBeforeAll` states a property that no run checks by
name: the first frame handed to the pool is a Conn frame.

`GroupManagerProofs` holds for any sets of users, founders, member lists and workers,
from `GroupAssumption` (the creator is a founder, founders are users, lists are of users,
the null values are no ids). All three properties of `group_safety` are proved
(`RowsFollowed`, `NoneForgotten`, `AllReached`) beside the type (`TypeCorrect`, which
includes that the lock over the queries is exclusive and released on every way out). None is
inductive, for each depends on what handlers that are on their way to memory carry in
their locals. `IInv` says what that is:

* `PhaseInv`, `LockInv`: what operation is at which step, a group in memory has rows, the
  lock is held only while the group is not in memory, and nobody is past the load then;
* `RowInv`: those a handler is to add have rows, those it is to remove are kicked, and
  `kicked` is for ever; so a late handler cannot contradict the rows;
* `PutInv`: what was read under the lock misses nobody but those whose handlers are still
  to come (they wait for the lock) or that are `lost`;
* `ReachInv`: the members due to a send are in memory, in what is to be put there, and in
  the `GroupInfo` it holds; after each visit those passed have been taken.

There is one lemma per action, then `StepKeeps`, and PTL for the rest.

`MsgPipelineProofs` holds for any number of frames and any list of devices without
repetition. All safety properties of `pipeline_safety` are proved (`StoredFirst`,
`PublishedOnce`, `AcksFollowNumbers`, `LostOnlyByFailure`, `ReachedAll`, `TypeCorrect`).
Only `ReachableGotIt` is inductive as it stands. `IInv` adds

* `RecvInv`: no message before its call is served, no handler before its first delivery, no
  second handler, and no publish before the handler's end; so one attempt means one publish;
* `StoreInv`: what is, or is about to be, in `topic.msg_forward` has a row;
* `LossInv`: a message that was delivered is being handled, was published, or failed;
* `CountInv`: the number taken last is the count of numbered frames (for the type);
* `RunInv`, `FrameInv`, `BatchInv`: a batch under way is a run of sent frames, those before
  its head are acknowledged with OK and have smaller numbers, and no acknowledged frame
  has a call under way that could number it again.

`Refinement` shows that `MsgPipeline` implements `Delivery`, from `IInv` and `QueuedInv` (what
is in `topic.msg_receive` has its number). Each action is one of the abstract ones or
changes nothing there; what has to be shown is mostly that `Lost` does not shrink, which
is what `RecvInv` and `LossInv` say of the handlers still at work. A `Forward` that dies
at a closed socket has shown the message to the devices before it: a prefix of them
(`ReachableFirst`, by the least unreached position).

For the steps with several outcomes an `...Effect` states once, frame by frame, what the
step does; each part of `IInv` then has a lemma with one case per action.

`ConvManagerProofs` holds for any members, workers, messages and crashes, from
`ConvAssumption` (the null values are no ids). All properties of `conv_safety` are proved:
`SentSeqUnique`, `MemoryNotAhead`, `NoPhantomUnread`, `ConvGrows`, the type, and that the hash
implements `ConvLog` (`ImplementsLog`). What endangers them is carried by threads: copies of
the hash, numbers and results on their way, and a creation that writes zeros. `IInv` says

* `LogInv`: there are as many numbers as numbered messages (a cardinality), each has one, and
  no position is beyond the last;
* `JobInv`: the message of a worker is its own, and has no number before the script ran;
  the copy of the hash it goes by is not ahead of it; a message it is to publish has a
  number, which its sender has read; it holds the lock while it creates, and only then;
* `CreateInv`: while rows are missing or somebody creates, nothing has been numbered, so
  the zeros that creation writes are those that are there (`CreateTreeSame`);
* `AckInv`, `MemInv`: results, clears and memory are not ahead of the hash.

The hash only grows (`Grown`), so what is carried stays behind it however late it arrives; the
lemmas on what stays (`LogStays`, `JobsStay`, `AcksStay`, `MemStays`) are cited by all actions.
In the refinement the script is `Accept`, the script of `ClearUnread` is `ReadAll`, and every
other step, creation and crash included, changes nothing of the log.

Of `conv_live` the safety halves are proved. `LockHeld`: the lock is taken just while one
worker creates the conversation. `ResultsAreCounted`, an action property: a result that says
the message was published leaves the queue only into the number in memory, or with the
process; for that `AwaitedInv` says that a result never waits for a conversation that memory
does not have.

`GroupConvProofs` holds for any sets of groups, users, workers and clearers, any lists of
those invited, any of whom may be left out of the rows, and any number of messages, from
`GroupConvAssumption` (a list of invited users is not empty, for it has the owner, the null
values are no ids, no worker is named like a group). All properties of
`groupconv_safety` are proved (`NoneListedTwice`, `ListsAreWhole`, `RecentIsCovered`,
`UnreadIsReal`, `TypeCorrect`). They speak of the wrap in use; but a thread may hold a
wrap that was replaced, or a number that has been overtaken, so `IInv` says the same of
all wraps and of all that is carried:

* `LocalsInv`: a thread that is about to add a conversation to a wrap knows that it is in
  memory and that the user was invited into it;
* `ListInv`: rows are made only for those invited; every wrap, in use or not, lists such
  conversations, each once;
* `MemInv`, `CarriedInv`: every number in memory, in a snapshot, in a result or in a
  clear was reached in the hash, in whose order the positions lie below the number.

The hash only grows (`Grows`), so what is old stays below it (`StaysRead`, `StaysBelow`);
`ItemFits` is the step every change of an item goes through.

`UserInfoProofs` holds for any users, callers, lifetimes and length of a call, from
`UserAssumption` (a lifetime is a minute at least). Both bounds of `user_info` are proved.
An answer is built from the cache, from the caller's own flight or from someone else's, so
`IInv` gives an account of age for each place a copy passes through:

* `CacheInv`: the age of a copy in the cache and what it has left are together at most a
  lifetime and two calls: the older it was when it was stored, the less a later reader gets;
* `CallInv`: what a flight found is at most as old as its leader's call, once it is
  shared at most one call older than the call that shares it; an answer is younger than a
  lifetime, two calls and its own call; and for each of its users a call knows an age or is
  still to ask;
* `FlightInv`, `WaitInv`: a key is held by a caller whose flight is for just those users,
  and whoever waits, waits for a flight for its own users, also when it was forgotten.

Only model-checked: the liveness properties (fairness and ENABLED are beyond the prover), of
which some have their safety halves proved as said above, and everything that is expected to be violated.

## 6. Plan

1. `ConnManager`, `DeviceLists` - done, with proofs, the refinement among them.
2. `ConvManager`, `ConvLog`, `GroupConv` - done, with proofs, the refinement of `ConvLog` among
   them.
3. `GroupManager` - done for the members, with proofs.
4. `MsgPipeline`, `Delivery` - done, with proofs, the refinement among them.
5. `FrameStream`, `FrameChannel` - done, with proofs.
6. `UserInfo` - done, with proofs.

## 7. Not modelled

Configuration, wiring, routers, response formatting and the example clients have no
behaviour of their own. The stores, NSQ, gnet and the RPC framework are modelled by what
the code can see of them: a call succeeds or fails with or without its effect, NSQ
delivers at least once in any order, gnet runs the callbacks of a connection in
sequence. The effect of a call that fails comes before the failure, never after it. For the
script of `ModifyConvTree` this leaves nothing out: its worker holds no lock there, so an
effect that comes later is a worker that learns of its failure later, and the proofs are
for any number of workers. An HMSet of `UpsertConv` that Redis runs only after the lock was
given back is not modelled; with a message numbered in between it would write zeros over
its number.

Of the parts with behaviour, these are left out. The settings of a group (name, remark,
nickname: `HandleSetting...`, `OnGroupDataChanged`) write rows, then the titles and
remarks in memory, which only the lists read and nothing is decided by. Between the
commit and memory a rename may be overtaken by another one, by a load that read the old
name, or end with an error; a wrong title then stays in memory until the next rename or
restart. No document promises more; the same order of commit and memory is what
`MemFollowsDb` is about for the members. The events `conv_add`, `conv_data` and
`notify_event` are published without waiting and turned into frames; nothing depends on
them. The stop of the conversation manager ends the process, which `Crash` covers; that
its channel of results may block a goroutine then has no effect that lasts. The pool of
database connections, which a handler takes two of, belongs to a library: its size and
deadlines decide whether handlers wait for each other. A frame over the limit is refused
by `Encode`, and the push consumers then write an empty slice: the message is not
delivered, which `MsgPipeline`, without sizes, does not have.
