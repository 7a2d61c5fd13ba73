# A TLA+ model of qipai_server

qipai_server is a game server for card and board games. Clients talk to it over
TCP with MessagePack messages; it keeps its data in MySQL and Redis, and talks to
other servers through RabbitMQ. This directory holds TLA+ specifications of its
core, TLC configurations that check them on small instances, and proofs for
TLAPS.

All paths below are relative to `src/Framework`.

## 1. Inventory

The repository has two halves that do not quite fit together:

* a framework (`Base`, `Thread`, `Timer`, `Network`, `Message`, `DataBase`,
  `Mysql`, `Redis`, `RabbitMQ`), in the global namespace, work in progress;
* the game server proper (`Player`, `Venue`, `Game`), in namespace `NiuMa`, written
  against an earlier framework with the same classes but other names
  (`syncQuery` for `SyncQuery`, `MysqlCommonTask` for `MysqlCommandTask`;
  `Constant/ErrorDefines.h` is missing).

Where the second half calls the first, its modules rely on what the call is used
for: `syncQuery` executes one statement and says whether it succeeded,
`ThreadWorker::dispatch` runs a closure on the worker's thread, in order. The
framework of this repository does not yet do so (`MysqlPoolImpl::execute` never
calls `setSucceed`, `ThreadWorker::run` returns at once); its own modules model it as
it is.

| Component | State | Operations | Hard because | Correct when |
|---|---|---|---|---|
| Cash pledges (`Game/GameRoom`) | rows of `capital` (gold, diamond, version) and `cash_pledge`; the avatars' copies | joinGame, leaveImpl, kickAvatar, kickAllAvatars, returnCashPledge, deductCashPledge, deductDiamond | several writers of an account; two tables without a transaction; failures and crashes between statements | no update is lost, no account overdrawn, no pledge promises gold that was not taken |
| Venues (`Venue/*`, `Game/GameDumb`) | `VenueManager::_venues`, `_loadingVenues`, `_venueHandlerMap`; for each inner handler its venues, list and counts; each venue's status and players | enter, leave, load, distribute, game over, removal, leave command of another server | outer threads, one thread per inner handler, closures with weak pointers, two tables | one open object per venue, reachable from both tables; none after the game is over; counts are right; every request is answered |
| Connection pool (`DataBase/*`, `Thread/ThreadBlocker`) | connections, occupied flags, queue of blockers, stop flag | getConnection, removeConnection, recycle, notifyOne, clear, stop, onTimer | some operations take `_mtx`, some do not | one query per connection, the limit holds, waiting threads are woken |
| MySQL and Redis pools | the above, asynchronous tasks | SyncQuery, AsyncQuery, the Redis commands | threads of their own; Stop | tasks are executed once |
| Room membership (`Game/GameRoom`) | avatars, spectators, seats | enter, spectate, ready, chat | disconnects during a game | one seat per player |
| Players and sessions (`Player/*`, `VenueOuterHandler`) | players by id and by session, offline list | connect, disconnect, load, freeDormantPlayers | an old session ends while a new one begins | session and player agree; dormant players are freed |
| Message signatures (`PlayerSignatureHandler`) | nonces of a player | verify | window of nonces | a nonce counts once |
| Worker threads and timers (`Thread/*`, `Timer/*`) | queues of dispatches, sorted timers, stop flag | run, dispatch, addSyncTimer, Stop | hand-over between threads | every dispatch runs; timers run in order |
| Messages (`Message/*`) | creators, handlers, shared queue | register, unregister, receive | registration during handling | each message has one handler |
| TCP sessions (`Network/*`) | connections, write queues, heartbeats | accept, read, send, close, timeout | close during a write | a session is closed once; a silent one is closed |
| Blacklist (`Network/SecurityManager`) | times of abnormal behaviours, listed addresses, a copy in Redis | abnormalBehavior, checkBlackList, init | several threads and servers, a clock read outside the lock, restarts | an address is listed when it should be, only then, and for the whole time |
| RabbitMQ (`RabbitMQ/*`) | bounded queue of messages, connection | publish, publishInner, reconnect, consume | lost connections | order and limit of the queue |
| Debt liquidation (`Game/DebtLiquidation`) | cash and debt sheets of the nodes | operator() | recursion on parts of the net, proportional shares | it ends, keeps the money and pays what can be paid |
| Robots, utilities, configuration, vendored libraries | none that matters | | | |

How they interact: `Network` hands messages to handlers in `Message`;
`VenueOuterHandler` takes the ones about entering and leaving and dispatches
closures to the threads of the `VenueInnerHandler`s, whose venues (`GameRoom` or
`GameDumb`) query MySQL and Redis through the pools; `RabbitMQ` brings the leave
commands of other servers to `VenueManager::handleMessage`.

`PROJECT.json` lists the hazards, each at its line, with the properties that cover
them.

## 2. Modules

| Module | Models |
|---|---|
| `CapitalLedger` | abstract: what an account promises to rooms, indivisible transfers |
| `CashPledge` | the pledge protocol of `GameRoom.cpp`, a step per SQL statement |
| `CashPledgeProofs` | proofs about `CashPledge` |
| `VenueEntry` | entering, loading, leaving and removing venues |
| `VenueEntryProofs` | proofs about the loading lock of `VenueEntry` |
| `VenueSafetyProofs` | proofs about the tables, objects, closures, counts and types of `VenueEntry` |
| `PlayerSession` | connecting and disconnecting, `PlayerManager`, the avatars' sessions |
| `PlayerSessionProofs` | proofs about `PlayerSession` |
| `ConnectionPool` | `DataBasePool` under `MysqlPool` and `RedisPool` |
| `ConnectionPoolProofs` | proofs about `ConnectionPool` |
| `Blacklist` | `SecurityManager` on several servers that share a Redis hash |
| `BlacklistProofs` | proofs about `Blacklist` |
| `DebtLiquidation` | the recursive settlement of a net of debts |
| `DebtLiquidationProofs` | proofs about `DebtLiquidation` |
| `FiniteSums` | lemmas about sums over a finite set, for `VenueEntry` and `DebtLiquidation` |
| `MCCashPledge`, `MCVenueEntry`, `MCPlayerSession`, `MCConnectionPool`, `MCBlacklist`, `MCDebtLiquidation` | instances for TLC, symmetry |

Operators named `...Always`, `...Not`, `...All` and the like, with a comment
"Mutant of", are plausible bugs that `PROJECT.json` uses to show that the
properties can fail. They are in no specification.

### CashPledge

`gold`, `diamond`, `version` are the rows of `capital`; `pledge[r][p]` is the amount
in `cash_pledge` (0: no row); `avatar[r][p]` is the avatar's `_cashPledge`, `None`
without an avatar; `th[r]` has the local variables of the call the room's thread
executes. A room's calls run on the thread of its handler, so there is one at a
time per room, while different rooms interleave. A step is one SQL statement with
the code up to the next one. `Fate` gives its outcome: "ok"; "lost", it had no effect
and failed; "late", it took effect and was reported as failed. `updateCashPledge`
is a count followed by an insert or an update (`JoinCount`/`JoinRow`,
`DeductCount`/`DeductRow`).

`OtherService` stands for the other writers of `capital`, which follow the version
discipline; `Settle` for a concrete game changing a pledge (row and avatar alike);
`Crash` for the end of the process. These three are external.
`taken`, `charged`, `torn` and `broken` are history: what a room took from a player
and did not give back, and the players for whom a call ended between its two
writes.

The row and `getCashPledge` are 64 bits wide; `joinGame` stores the pledge in the
avatar through `static_cast<int>` (`Game/GameRoom.cpp:318`), the operator `ToInt` with
`IntLimit` for 2^31. A room takes `PledgeNeed`, and a larger pledge comes from a
settlement that left one in the table, which the next `joinGame` finds. If it does not
fit, avatar and row differ without any fault (`cut` is history: for whom), and
`deductCashPledge` computes with the wrong copy: it charges the difference to a copy
that may be negative, and when it pays such a copy out, it takes gold the account may
not have. So `AvatarMatchesRow` says what the copy is then (`HasCopyOf`), and
`PledgeExact`, the sign of `gold` in `TypeOK` and the guard against overdrawing in
`CapitalLedger` except the players in `cut`. `PledgeBacked` holds for them too.

### VenueEntry

Outer threads `w` execute `onEnterVenue` and `loadVenue`; a step is one critical
section of `VenueManager` or `VenueInnerHandler`, or one SQL statement. Inner handlers
run closures from `queue[h]` (`Execute`), `gameOver` and `onTimer`. `onTimer` is split
into the choice of what to remove (`OnTimer`) and the two removals of each venue
(`RemoveInner`, `RemoveVenue`), since they take two mutexes. `Alive` says when the weak
pointer of a closure can be locked. Objects and requests are numbered; a request
loads one object at most.

Abstractions: the game is `GameDumb`, whose players can always leave; all inner
handlers support the game type and have a worker; `gameOver` is called by the game
at any time (nothing in the repository but concrete games calls it); the copies in
Redis of the current venue and of the counts are left out; the closure that calls
`initialize`, empty for `GameDumb`, too. The code of a refusal is "error", whichever
it is; `EnterVenueResult::SUCCESS` is taken to be 0, as the comment on
`MsgEnterVenueResp` says. `Served` counts an answer with code 0 and nothing behind it
(a thread that gave up waiting, a wrong game type) as an answer.

Two properties state what the headers say and the code does not do, each in a run of
its own: `LeaveAnswered` (a leave is answered although the venue has been released) and
`TotalIsPlayers` (the total of a handler is the number of players inside). What is
true instead is proved: `DroppedWhenOver`, a request is dropped only if the game is
over; `CountsExact`, the total is the sum of the counts, and those of venues in the
table are right.

Timing: `Elapse`, the 30 seconds between the end of a game and its removal, waits for
threads that are loading the same venue. They wait one second at most for the lock,
so this only excludes a load that takes 30 seconds. Without that assumption
`NoReopen` is false: the row a slow thread queried is out of date.

### ConnectionPool

A thread's query is `getConnection` (scan; then queue up or create, with `_mtx` held),
`Execute`, and then `Recycle` with `notifyOne`, or `RemoveConnection`. `notifyOne` is three
steps, since it takes no mutex: test, front, pop. Taking from an empty queue is
undefined and ends the process (`dead`). `_stopFlag` has no initializer, so `Init` leaves
it open. `Stop` is `ClearConnection`, then `SetStop`. `OnTimer` is the whole of
`onTimerImpl`: it either keeps `_mtx` for good or uses a null pointer, whatever the
times are, so the times are left out.

### PlayerSession

A connection is "open", "closed" or "gone" (`net`); the network threads push
`MsgPlayerConnect` and `MsgDisconnect` on one queue, and any outer thread pops the
next. The handling is cut at every critical section: for a connect, the signature
handler loads or touches the player (`Preprocess`, `AddPlayer`), then
`onPlayerConnect` gets the player, unlinks the old session, sets the new one, links it
and tells the room; for a disconnect, `Find`, `RemoveSessionId`, `SetOffline`,
`AddOfflinePlayer` and again the room. The inner thread sets the avatar's session
(`Notify`), and joins and leaves in two steps, for the room and the player's venue are
set one after the other (`JoinGame` or `RemoveAvatar`, then `AfterRoom`). `OnTimer` is
`freeDormantPlayers`; of its loop the model has what comes out: where it ends (`Ends`,
`End`), which entries it erases (`Erased`) and which players it frees on the way
(`Freeable`, `Freed`), and the list that is left (`Kept`). Ages are counted in timer
periods; `held` says whether the object a call holds is still the one in the table.

The module composes `PlayerManager`, `VenueOuterHandler`, the network and the room, over
one venue whose game does not end; the end of venues is in `VenueEntry`. The environment
is restricted in two ways: a connection sends one connect message, at its
beginning, and its session belongs to one player. A call, and a
closure in the inner thread's queue, sees at most one run of the timer (5 seconds).
That assumption is needed: `getPlayer` touches a player with a time that is itself as
old as the last run, and `HeldNotFreed` fails for a call that takes longer.

`tangled` is history: the players for whom the handling of two messages really
overlapped, whose old connection was removed before they connected again, whose new
connection was removed while it was being connected, or who were freed with a
disconnection waiting. For these, `PlayerManager` does end up with sessions and
players that disagree, since nothing orders the messages of one player: two outer
threads may take the disconnection of the old session and the connection of the new
one at the same time. `SessionsAgree` and `AvatarAgrees` say that these are all the ways.
For the avatar there is one more, also in `tangled`: a player who is removed from the room
before it was told of a disconnection, and has reconnected and entered again when it is.

### Blacklist

`record`, `blackLists` and `redis` are the list of times, the table and the hash, for one
address. `checkBlackList` of an expired entry is three steps (`CheckBlackList`, `Hdel`,
`RemoveFromBlacklist`), `abnormalBehavior` four (`AbnormalBehavior` reads the clock, `Record`,
`Add2BlackList`, `Hset`), `init` after a restart two. `Tick` advances the clock, and a call
sees one tick at most. Broadcasts to other servers are left out: `publishJson` returns
false without sending, and the keys it writes are not the ones `handlerMessage` reads.
`init` reads the clock, then the keys and then the entry, as one step: nothing of this
server runs beside it, and what another one writes in between is either there or not.

Each Redis command may fail, and no caller looks at the result: `Hset` then leaves the ban
in memory alone, `Hdel` and `InitHdel` leave the expired entry, `InitGet` skips an entry it
cannot read. A command that took effect and was reported as failed is the same as one
that worked. So a ban can be lost, and the history says how. `unsaved` has the servers
whose last ban is not in Redis: `hset` failed, the server stopped before it, or an `hdel`
meant for an older entry hit it; the next `hset` of any server empties it, for all of
them share one entry. `lost` has the servers whose last ban is not in memory: a removal
meant for an older entry hit it, or a restart could not read it or came while it was
unsaved; the next listing takes the server out. `BanSaved` and `BanHolds` say that a ban is
ended in no other way.

`listed` is when a server last listed the address. `AbnormalIsListed` asks it to keep up
with the history `past`: whenever `Limit` behaviours fall into the window, the address
has been listed as of the last of them, the first time and every time after it. Listed
again while the ban is on, the entry gets the later time, as in the code.

### DebtLiquidation

`calls` is the stack of `operator()`; `Descend` is a call up to the recursive one, `Ascend` the
rest of it, `Return` a call that finds no creditor. The copies of the nodes in a recursive
call are the nodes restricted to `net`, as the code copies the cash back and erases the
debts between them. A double is an exact number of `Parts` of a coin: 216000 parts make
every share of the instance whole; with fewer, shares are rounded down, which is not how
a double rounds, so what the model says of the last digits is not about the code.
`created` is history: a
node that owes nothing, but was overdrawn by repaying in full before its claims came in,
is set to zero, which makes money; `MoneyConserved` says this is the only way.
`NobodyOverpaid` is about creditors and debtors alike: nobody ends with more than their
cash less their net debt, and a net debtor who cannot pay that ends with nothing.
(`Game/DebtLiquidation.h:64` describes `getDebt` with the sign reversed: it is positive if
the node owes. The model follows the code.)

## 3. Runs

| Run | Instance | Shows |
|---|---|---|
| `pledge_accounts` | 2 rooms, 2 players, 4 calls or settlements, 2 foreign writes, 2 faults or crashes, ints below 4 | `TypeOK`, `AvatarMatchesRow`, `PledgeExact`, `PledgeBacked`, `ReleasedOwesNothing`, and `NoLostUpdate`: the protocol implements `CapitalLedger` |
| `venue_load` | 2 threads, 2 handlers, 1 venue, 1 player, 3 requests, 1 fault | `TypeOK`, `LockHeld`, `OneOpen`, `NoReopen`, `Reachable`, `CurrentVenue`, `Served` |
| `session_safe` | 2 threads, 1 player, 2 sessions, 1 request, 1 removed connection | `TypeOK`, `SessionsAgree`, `HeldNotFreed`, `AvatarAgrees` |
| `session_live` | 1 thread, 2 players, 2 sessions, 1 request | `MemberIsKnown`, `DormantFreed` |
| `blacklist` | 2 servers, 2 threads each, limit 3, window and ban 3 seconds, 5 behaviours, 4 ticks, 1 restart, 1 failed command | `TypeOK`, `BanHolds`, `BanSaved`, `ListedOnlyIfAbnormal`, `AbnormalIsListed` |
| `debt` | all nets of 4 nodes, debts up to 1, cash 0 or 2 | `TypeOK`, `OneWayDebts`, `MoneyConserved`, `SolventNetsSettle`, `NobodyOverpaid`, `Settles` |
| `pool_safe` | 3 threads, 2 connections at most, 5 queries, 2 faults, Stop, timer | `TypeOK`, `Exclusive`, `AtMostMax` |
| `pool_enough` | 2 threads, 2 connections, 5 queries, 2 faults, Stop | `Returns` |

Four further runs end in a violation, each of a sentence in the source:

| Run | The source says | The model shows |
|---|---|---|
| `pledge_deduct` | a deduction that cannot be made fails (`Game/GameRoom.h`, `kick`) | it fails with the pledge row raised, and leaving pays it out |
| `venue_leave` | a player can leave when the venue has been released (`Venue/VenueMessages.h:161`) | the leave waits in the inner thread's queue while the venue is removed, and is dropped |
| `venue_counts` | the current number of players (`Venue/VenueInnerHandler.h:57`, `:120`) | the players of a removed venue stay in the total |
| `pool_blocked` | blocks when the connections are used up (`DataBase/DataBasePool.h`) | a thread stays blocked with every connection idle |

Two more disagreements are visible in single expressions and have no run of their
own: `loadVenue` returns no venue and code 0 for a loaded venue of another game type
(`Venue/VenueManager.cpp:115`), although `Venue/VenueMessages.h:79` calls 0 success;
`notifyOne` may pop two waiters and wake one (`DataBase/DataBasePool.cpp:90`). The models
have both as the code has them.

`pool_blocked` and `pool_enough` belong together: the lost wake-up needs more threads
than connections.

### Bounds

The bounds (`MaxCalls`, `MaxOther`, `MaxFaults`, `MaxRequests`, `MaxQueries`,
`MaxTicks`, `Stops`) only limit how often the environment acts. Two rooms are enough
for a conflict between rooms, since conflicts are pairwise on one account; four calls
let a room join, settle, top up and release, or two rooms join and one of them deduct
and leave; two players make a room that is emptied return two pledges. Ten attempts of
the loops are `MaxTries` = 2, and two foreign writes let them run out: one conflict
that is repaired and one that is not. Two faults let a room crash with a pledge left
in the table and a statement of its next `joinGame` fail. An `IntLimit` of 4 lets the
pledge 5 of a settlement be cut to a negative copy by the `joinGame` after that crash.
`MaxWaits` = 1 stands for the 200 waits likewise. Three requests and a fault let a
venue be loaded, end with its status not saved, be removed, and be loaded again while
a third request is under way; two handlers let it come back on another one than
before. `venue_leave` and `venue_counts` need one thread and one handler. Two sessions
of a player give the old and the new one, each with its connect, disconnect and second
disconnect; limits of 3 and 2 timer periods keep the order of the code's 6 and 4. With
a limit of 3, times added out of order can keep an old one in the list that counts
towards the limit. Five behaviours are two more than the limit: a server lists the
address a second and a third time, before its first ban ends or when it has ended, or
lists it only after a restart, within 4 ticks of the clock. Four nodes are the fewest
for which a recursive call recurses again. Three threads on two connections give two
in `notifyOne` and one that waits. The gold values make both outcomes of every
comparison happen. Deadlock is not checked: when the bounds are used up everything has
stopped, and so may the program when nobody asks for anything.

### Fairness

* `CashPledge` and `Blacklist` have safety properties only, and no fairness. That the
  loops of `returnCashPledge`, `deductCashPledge` and `deductDiamond` end is visible in
  their bound; what they leave behind when it is reached is in `PledgeExact`.
* `VenueEntry`: weak fairness of each outer thread, and of a handler's thread for
  closures and for removals it has begun. `OnTimer`, games and players are not fair.
* `PlayerSession`: weak fairness of each outer thread, of the inner thread and of the
  timer, which `PlayerManager` schedules again and again. Clients are not fair.
* `DebtLiquidation`: weak fairness of the one thread that computes.
* `ConnectionPool`: weak fairness of each thread's steps. Queries, Stop and the timer
  are not fair. `pool_enough` has no run of `onTimer`, which does not return.

## 4. Proofs

`CashPledgeProofs` proves for any sets of rooms and players, any amounts and any
bounds, from `ConstantsAssumption` alone (amounts are naturals, the pledge is not 0,
there is at least one attempt, `IntLimit` is not 0, `NoPlayer` is no player):

| Theorem | States |
|---|---|
| `PledgeInvariant` | `PledgeInv` is an invariant |
| `TypeCorrect` | `TypeOK`; so no row is negative, and no account but for the cast in `joinGame` |
| `Backed` | `PledgeBacked` |
| `Exact` | `PledgeExact` |
| `AvatarRow` | `AvatarMatchesRow`: the copy is the row, or what the cast leaves of it |
| `ReleasedNothing` | `ReleasedOwesNothing`, from `ReleasedInv` |
| `LedgerRefinement` | `NoLostUpdate`: `CashPledge` implements `CapitalLedger` |

`PledgeBacked` is not inductive: whether a step keeps it depends on what the running
call has read and done. `PledgeInv` adds, for every room,

* `SnapshotValid`: as long as the version a call read is the present one, so are the
  gold and the diamonds. This is what optimistic locking rests on;
* `CallInv`: what the call has established at its program point (joining:
  no avatar, a row below the pledge, enough gold; returning: the row is gone;
  deducting: the avatar's copy is the amount the call started from);
* `HoldingInv`: the gold taken is at least the row and what the call is in the
  course of moving (`Expected`), and exactly that unless a fault struck between two
  writes or the avatar's copy was cut (`cut`). The copy is the row, or `ToInt` of it.

The inductive step has one lemma per action. `OtherRooms` says once that an action
of one room keeps the invariant of the others if it writes `capital` only together
with the version, so each action is left with its own room. The refinement uses
`SnapshotValid`: an update that matches the version acts on the account as it is.
`ReleasedOwesNothing` is about calls that are over; `ReleasedInv` says of every state without
faults that whoever is out of the room, or was dealt with by a call that empties it, has
no row.

`ConnectionPoolProofs` proves for any sets of threads and connections, any limit and
any bounds, from `PoolAssumption` (there are finitely many connection objects, more
than the limit, and `Nil` and `Timer` are neither threads nor connections):

| Theorem | States |
|---|---|
| `PoolInvariant` | `PoolInv` is an invariant |
| `PoolTypes` | `TypeOK`; so `_mtx` is not left with a thread that has returned |
| `PoolExclusive` | `Exclusive` |
| `PoolAtMostMax` | `AtMostMax`, as `stops = 0` until the pool is cleared |

`AtMostMax` counts the connections of running queries too, and a step that makes a
connection looks only at the list. `PoolInv` therefore adds `InUseListed`: until the
pool is cleared a connection in use is in the list. That in turn needs `Exclusive`,
for `removeConnection` must not take out a connection another query has. The lemmas
named `...Moves` say once what each action does to the threads; the step of each part
of the invariant then has one case per action. Both promises hold although neither
`recycle()` nor `notifyOne()` takes the mutex: what that breaks is waking up, as the
run `pool_blocked` shows.

`VenueEntryProofs` and `VenueSafetyProofs` prove for any sets of threads, handlers,
venues and players and any bounds, from `VenueAssumption` (there is a handler; handlers,
venues and players are finite; `Nil` is none of them):

| Theorem | States |
|---|---|
| `LockInvariant`, `VenueLockHeld` | `LockInv`; `LockHeld` |
| `VenueInvariant` | `VenueInv` is an invariant |
| `VenueOneOpen`, `VenueNoReopen` | `OneOpen`, `NoReopen` |
| `VenueReachable` | `Reachable` |
| `VenueCurrent` | `CurrentVenue` |
| `VenueDropped` | `DroppedWhenOver`, the other side of `venue_leave` |
| `VenueCountsExact` | `CountsExact`, the other side of `venue_counts` |
| `VenueTypeOK` | `TypeOK` |

The argument has three layers, each inductive given the ones before.

* The lock. `LockHeld` speaks of the venue of a thread's request, so `LockInv` adds that a
  thread that is not idle has a request, and `Extends` that no step changes the venue of
  one. Only `LockLoading` and `UnlockLoading` touch the lock; `CalmKeeps` disposes of every
  step that leaves alone which threads are between the two.
* The tables. `ThreadInv` says what a thread knows of its venue at each point of
  `loadVenue` (that the manager has no entry of it from the second look on, for example),
  `TableInv` that the two tables agree but for a venue that is being added or removed,
  `SweepInv` that what `onTimer` removes is in them and has been over for a while, and
  `ObjectInv` that an object is in the manager's table or in the hands of its loader until
  it is ripe for removal, and that then nobody is loading its venue. `NoReopen` is part
  of the invariant: removal is by id, and is harmless only because the obsolete object
  is the one in the table. That rests on the time `Elapse` assumes.
* Counts and bounds. `HandlerInv` says that closures are in the queue of the handler of
  their object and that an object without a handler is empty; `CountInv` adds to
  `CountsExact` that a count other than zero was left by an object of the same handler,
  which with `NoReopen` makes the count of a venue that is new in the table zero.
  `BoundInv` counts the requests that may still load a venue (`Pending`): objects made and
  pending requests together are never more than the requests.

`PlayerSessionProofs` proves for any sets of threads and players and any number of
sessions, from `SessionAssumption` (the offline limit is greater than the reference limit,
which is greater than one timer period, as in the code) and `NilAssumption`:

| Theorem | States |
|---|---|
| `SessionInvariant`, `SessionTypeOK` | `SessionInv`; `TypeOK` |
| `SessionHeldNotFreed` | `HeldNotFreed` |
| `SessionMemberIsKnown` | `MemberIsKnown` |
| `SessionSessionsAgree` | `SessionsAgree` |
| `SessionAvatarAgrees` | `AvatarAgrees` |

`HeldNotFreed` comes down to ages: a call has touched the player, with a time that is as
old as the last run of the timer, and it sees one run at most. `CallTouched` and
`ClosureTouched` say so of calls and closures. The time of the last run is itself old if
the list of offline players was empty; `ListInv` says that then nobody in the list has
been offline for long, and `CallOffline` that nobody about to be added has. `RoomInv` ties
room and player together between the two writes of the inner thread. `SessionsAgree` is
proved from that: as long as the calls about a player do not overlap there is one at
most (`OneCall`), and `CallAgree` says what it has made sure of at each point.

For `AvatarAgrees` the invariant `AvatarInv` speaks of the order of the closures. A player in
the room is `Told` unless a call has set the session and not yet dispatched (`Setting`): the
avatar has the session already, or something about the player is still in the queue of
the inner thread, and if the last of it is a disconnection the player has no open
session. A call dispatches only about a player who is inside (`CallRoom`), and one that is
over without dispatching was about a player who is not; that needs `VenueKnown`, the
converse of `MemberIsKnown`. The proof does not need the message queue to be empty of
messages about the player, so the property does not ask for it.

`BlacklistProofs` proves for any sets of servers and threads, any limit, window and
length of the ban, from `BlacklistAssumption` (the limit and the ban are not zero,
`Nil` is no number):

| Theorem | States |
|---|---|
| `BlacklistInvariant`, `BlacklistTypeOK` | `BlacklistInv`; `TypeOK` |
| `BlacklistBanHolds`, `BlacklistBanSaved` | `BanHolds`, `BanSaved` |
| `BlacklistOnlyIfAbnormal` | `ListedOnlyIfAbnormal` |
| `BlacklistAbnormalIsListed` | `AbnormalIsListed` |

`BanInv` says that the entry of a ban is in memory unless it is `lost`, and in Redis unless
it is just being written or `unsaved`, as old as the ban but for a second; `CallInv` that a
call removes only what it found expired. Since all servers share the entry in Redis, a
successful `hset` of one repairs what the others have lost there: the entry it writes is
not older than any ban but for that second. `HistoryInv` says that the list of times is
the end of the history, that what is missing is too old to count, and that the times are
in order but for a second, since the clock is read before the lock is taken; `BurstInv`
that every burst has been answered with an entry as late as the burst, unless a call is
about to write one. Its step is lemma `RecordBurst`: a behaviour that does not reach the
limit completes no burst, since what the list has dropped is too old to be part of one.

`DebtLiquidationProofs` proves for any net and any cash, from `DebtAssumption` (finitely many
nodes, `Parts` is not 0):

| Theorem | States |
|---|---|
| `DebtInvariant`, `DebtsOneWay` | `DebtInv`; `OneWayDebts` |
| `DebtWorthInvariant`, `DebtTypeOK` | `DebtBooks` (`DebtInv`, `NestInv` and `WorthInv`); `TypeOK` |
| `DebtSolventSettle` | `SolventNetsSettle` |
| `DebtNobodyOverpaid` | `NobodyOverpaid` |
| `DebtMoneyNotMade` | `MoneyNotMade`: rounding the shares down never makes money |
| `DebtMoneyConserved` | `MoneyConserved`, if the shares are exact (`[]ExactShares`) |

`OneWayDebts` is what the comment before the last loop of `operator()` claims. It is about
the innermost call that is on its way back; `DebtInv` says it of every call in progress,
and adds that the sheets are antisymmetric. A step only erases entries, on both sides
alike (`Erases`), so what holds of a call when it descends still holds when the calls
below it have returned. For the money, `Worth` of a node is its cash less what it owes on
balance. A payment in full leaves it alone on both sides; only a node that cannot pay
changes the worth of others, and lowers it for those it owes; a node that is let off what
it cannot pay gains, but not beyond nothing (`WorthInv` bounds a worth by that of the start
or by 0, whichever is more). `NestInv` says how the nets
of the calls are nested (the net of a call has no claims on the nodes outside it) and
that a net that has been settled has no balances left, so that at the end worth and cash
are the same. `MoneyConserved` holds only if the shares of a node that cannot pay add up
to its cash, which in the model is a condition on `Parts`: the theorem has it as its
hypothesis, and the instance of the run `debt` satisfies it with 216000.

`FiniteSums` has what both need about `SumFunctionOnSet`: that the recursive function
behind it exists, that the order of the elements does not matter, and how a sum changes
with its function and its set. The library's induction theorems take an operator, which
the provers cannot instantiate; the proofs take a smallest counterexample instead, with
the property given as a set (`SubsetInduction`, and `Least` for the loop of
`freeDormantPlayers` and the list of times).

Only model-checked: the liveness properties `Served`, `Returns`, `DormantFreed`
and `Settles`, which are out of the prover's reach.

## 5. Not modelled, and the plan

Not modelled, because the code as it stands has no behaviour to check:

* `Thread` and `Timer`: the stop flag of a worker starts as true, so `run` returns at once;
  with a false flag its first inner loop has no body but the stop test. Timers are
  inserted by comparing a timer with itself, and `CaptureFirstTimer` changes the shared
  list without the mutex. `MysqlPool::AsyncQuery` rests on these.
* The transfer of bytes in `TcpServer`: `_session` of a connection is never set, `Send` starts
  a write only if one is running, `splitSend` does not advance, `isTimeOut` is inverted.
  `PlayerSession` has the life of a connection as the game server uses it.
* `RabbitmqClient::publish` refuses whenever there is a connection; the consumer is a loop
  over the client library.
* `GameRoom::rewardAgency`: the task is not given its reward.

Not modelled, because no property depends on it: seats, spectators, readiness and chat
of a room, which one thread handles and the subclasses decide; the window of nonces;
hashing, Base64 and time formatting in `Base`; logging; RabbitMQ configuration; robots; the
vendored code.

Next, in this order: `WorkerThread` and `MysqlPool::AsyncQuery`, against an abstract
queue whose entries are executed once and in order, as soon as `run` has a body;
`GameOver` in `PlayerSession`, which doubles the instance.
