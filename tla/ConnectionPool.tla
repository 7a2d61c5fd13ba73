--------------------------- MODULE ConnectionPool ---------------------------
(***************************************************************************)
(* DataBasePool, the pool of connections under MysqlPool and RedisPool:    *)
(* getConnection, removeConnection, notifyOne, clearConnection, stop and   *)
(* onTimer, with the ThreadBlockers threads wait on, as MysqlPoolImpl and  *)
(* RedisPoolImpl drive them for each query.                                *)
(*                                                                         *)
(* _mtx guards _connections.  recycle() does not take it, and neither does *)
(* notifyOne(), so a scan of the connections and the calls on _blockQueue  *)
(* interleave with them: a step below ends where another thread can act.   *)
(***************************************************************************)
EXTENDS Integers, Sequences, FiniteSets

CONSTANTS
  Threads,         \* threads that query the database
  Connections,     \* connection objects
  Nil,
  Timer,           \* the timer thread, as owner of _mtx
  MaxConnections,  \* _maxConnections
  MaxQueries,      \* bound: queries of all threads
  MaxFaults,       \* bound: failures of the database
  MaxTicks,        \* bound: runs of onTimer
  Stops            \* bound: calls of Stop, 0 or 1

ASSUME PoolAssumption ==
  /\ IsFiniteSet(Connections) /\ Cardinality(Connections) > MaxConnections
  /\ Nil \notin Connections \cup Threads \cup {Timer} /\ Timer \notin Threads
  /\ MaxConnections \in Nat \ {0} /\ MaxQueries \in Nat /\ MaxFaults \in Nat
  /\ MaxTicks \in Nat /\ Stops \in {0, 1}

VARIABLES
  conns,       \* _connections
  occupied,    \* connections whose _isOccupy is set
  queue,       \* _blockQueue, of blockers
  signalled,   \* blockers whose _flag is off
  blockers,    \* number of ThreadBlockers made
  mtx,         \* owner of _mtx between two steps
  stop,        \* _stopFlag
  th,          \* th[t]: the query thread t is executing
  tick,        \* is onTimer running?
  dead,        \* the process has crashed
  queries, faults, ticks, stops

pool == <<conns, occupied, queue, signalled, blockers, mtx>>
bounds == <<queries, faults, ticks, stops>>
vars == <<conns, occupied, queue, signalled, blockers, mtx, stop, th, tick, dead,
          queries, faults, ticks, stops>>

Pcs == {"idle", "get", "full", "block", "execute", "recycle", "remove",
        "check", "front", "pop"}

Thread == [pc : Pcs, con : Connections \cup {Nil}, blocker : Nat]

Idle == [pc |-> "idle", con |-> Nil, blocker |-> 0]

\* _stopFlag is an atomic_bool without an initial value, in C++17.
Init ==
  /\ conns = {} /\ occupied = {} /\ queue = <<>> /\ signalled = {} /\ blockers = 0
  /\ mtx = Nil /\ stop \in BOOLEAN /\ tick = FALSE /\ dead = FALSE
  /\ th = [t \in Threads |-> Idle]
  /\ queries = 0 /\ faults = 0 /\ ticks = 0 /\ stops = 0

Goto(t, s, pc) == th' = [th EXCEPT ![t] = [s EXCEPT !.pc = pc]]
Return(t) == th' = [th EXCEPT ![t] = Idle]
Release(t) == mtx' = IF mtx = t THEN Nil ELSE mtx
At(t, pc) == ~dead /\ th[t].pc = pc

\* MysqlPool::SyncQuery, or an operation of RedisPool.
Query(t) ==
  /\ At(t, "idle")
  /\ queries < MaxQueries /\ queries' = queries + 1
  /\ Goto(t, Idle, "get")
  /\ UNCHANGED <<pool, stop, tick, dead, faults, ticks, stops>>

Free == conns \ occupied

\* Mutant of GetConnection: the connection is not marked as occupied.
GetUnoccupied(t) ==
  LET s == th[t]
  IN /\ At(t, "get")
     /\ \/ stop /\ Return(t) /\ UNCHANGED mtx
        \/ /\ ~stop /\ mtx = Nil /\ Free # {}
           /\ \E c \in Free : Goto(t, [s EXCEPT !.con = c], "execute")
           /\ UNCHANGED mtx
        \/ /\ ~stop /\ mtx = Nil /\ Free = {}
           /\ mtx' = t /\ Goto(t, s, "full")
     /\ UNCHANGED <<conns, occupied, queue, signalled, blockers, stop, tick, dead,
                    bounds>>

\* getConnection(blocker) scans the connections.  If all are occupied it goes on
\* with _mtx held; that a connection is recycled meanwhile does not show.
GetConnection(t) ==
  LET s == th[t]
  IN /\ At(t, "get")
     /\ \/ stop /\ Return(t) /\ UNCHANGED <<occupied, mtx>>
        \/ /\ ~stop /\ mtx = Nil /\ Free # {}
           /\ \E c \in Free :
                /\ occupied' = occupied \cup {c}
                /\ Goto(t, [s EXCEPT !.con = c], "execute")
           /\ UNCHANGED mtx
        \/ /\ ~stop /\ mtx = Nil /\ Free = {}
           /\ mtx' = t /\ Goto(t, s, "full") /\ UNCHANGED occupied
     /\ UNCHANGED <<conns, queue, signalled, blockers, stop, tick, dead, bounds>>

\* Connections that no thread and no list refers to.
Fresh == (Connections \ conns) \ {th[t].con : t \in Threads}

\* Mutant of AtLimit: one connection too many.
AboveLimit == Cardinality(conns) > MaxConnections

\* Mutant of AtLimit: one connection too few.
NearLimit == Cardinality(conns) + 1 >= MaxConnections

AtLimit == Cardinality(conns) >= MaxConnections

\* At the limit the thread queues up with a new blocker; below it, it makes a
\* connection, or fails to and gives up.
QueueUpOrCreate(t) ==
  LET s == th[t]
  IN /\ At(t, "full")
     /\ mtx' = Nil
     /\ \/ /\ AtLimit
           /\ blockers' = blockers + 1
           /\ queue' = Append(queue, blockers + 1)
           /\ Goto(t, [s EXCEPT !.blocker = blockers + 1], "block")
           /\ UNCHANGED <<conns, occupied, faults>>
        \/ /\ ~AtLimit
           /\ \E c \in Fresh :
                /\ conns' = conns \cup {c}
                /\ occupied' = occupied \cup {c}
                /\ Goto(t, [s EXCEPT !.con = c], "execute")
           /\ UNCHANGED <<queue, blockers, faults>>
        \/ /\ ~AtLimit
           /\ faults < MaxFaults /\ faults' = faults + 1
           /\ Return(t)
           /\ UNCHANGED <<conns, occupied, queue, blockers>>
     /\ UNCHANGED <<signalled, stop, tick, dead, queries, ticks, stops>>

\* ThreadBlocker::block ends, and getConnection starts over.
Unblock(t) ==
  /\ At(t, "block")
  /\ th[t].blocker \in signalled
  /\ Goto(t, Idle, "get")
  /\ UNCHANGED <<pool, stop, tick, dead, bounds>>

\* The statement is executed; the connection may turn out to be lost.
Execute(t) ==
  /\ At(t, "execute")
  /\ \/ Goto(t, th[t], "recycle") /\ UNCHANGED faults
     \/ /\ faults < MaxFaults /\ faults' = faults + 1
        /\ Goto(t, th[t], "remove")
  /\ UNCHANGED <<pool, stop, tick, dead, queries, ticks, stops>>

\* DataBaseConnection::recycle; then notifyOne, without _mtx.
Recycle(t) ==
  /\ At(t, "recycle")
  /\ occupied' = occupied \ {th[t].con}
  /\ Goto(t, Idle, "check")
  /\ UNCHANGED <<conns, queue, signalled, blockers, mtx, stop, tick, dead, bounds>>

\* removeConnection takes _mtx and drops the connection; the rest is the text of
\* notifyOne.
RemoveConnection(t) ==
  /\ At(t, "remove")
  /\ mtx = Nil /\ mtx' = t
  /\ conns' = conns \ {th[t].con}
  /\ occupied' = occupied \ {th[t].con}
  /\ Goto(t, Idle, "check")
  /\ UNCHANGED <<queue, signalled, blockers, stop, tick, dead, bounds>>

\* Mutant of NotifyCheck: an early return without unlocking.
NotifyCheckKeeps(t) ==
  /\ At(t, "check")
  /\ IF queue = <<>> THEN Return(t) ELSE Goto(t, th[t], "front")
  /\ UNCHANGED <<pool, stop, tick, dead, bounds>>

\* notifyOne: if (_blockQueue.empty()) return.
NotifyCheck(t) ==
  /\ At(t, "check")
  /\ IF queue = <<>> THEN Return(t) /\ Release(t)
                     ELSE Goto(t, th[t], "front") /\ UNCHANGED mtx
  /\ UNCHANGED <<conns, occupied, queue, signalled, blockers, stop, tick, dead, bounds>>

\* front() of a queue that another thread has emptied meanwhile is undefined.
NotifyFront(t) ==
  /\ At(t, "front")
  /\ IF queue = <<>> THEN dead' = TRUE /\ UNCHANGED th
     ELSE Goto(t, [th[t] EXCEPT !.blocker = Head(queue)], "pop") /\ UNCHANGED dead
  /\ UNCHANGED <<pool, stop, tick, bounds>>

\* pop() takes whatever is first by now; the signal goes to what was first.
NotifyPop(t) ==
  /\ At(t, "pop")
  /\ IF queue = <<>>
     THEN dead' = TRUE /\ UNCHANGED <<th, queue, signalled, mtx>>
     ELSE /\ queue' = Tail(queue)
          /\ signalled' = signalled \cup {th[t].blocker}
          /\ Return(t) /\ Release(t) /\ UNCHANGED dead
  /\ UNCHANGED <<conns, occupied, blockers, stop, tick, bounds>>

\* Stop of either pool: clear(), which drops the connections, then stop().
ClearConnection ==
  /\ ~dead /\ mtx = Nil /\ stops < Stops
  /\ stops' = stops + 1
  /\ conns' = {}
  /\ UNCHANGED <<occupied, queue, signalled, blockers, mtx, stop, th, tick, dead,
                 queries, faults, ticks>>

SetStop ==
  /\ ~dead /\ stops = 1 /\ ~stop /\ stop' = TRUE
  /\ UNCHANGED <<pool, th, tick, dead, bounds>>

\* onTimer, every 2 seconds.  With an idle connection in the list its loop does
\* not advance, under _mtx; without one it ends and a null pointer is used.
OnTimer ==
  /\ ~dead /\ ~tick /\ ~stop /\ mtx = Nil
  /\ ticks < MaxTicks /\ ticks' = ticks + 1
  /\ tick' = TRUE
  /\ IF Free # {} THEN mtx' = Timer /\ UNCHANGED dead ELSE dead' = TRUE /\ UNCHANGED mtx
  /\ UNCHANGED <<conns, occupied, queue, signalled, blockers, stop, th, queries,
                 faults, stops>>

-----------------------------------------------------------------------------
Step(t) ==
  \/ GetConnection(t) \/ QueueUpOrCreate(t) \/ Unblock(t) \/ Execute(t)
  \/ Recycle(t) \/ RemoveConnection(t)
  \/ NotifyCheck(t) \/ NotifyFront(t) \/ NotifyPop(t)

Next ==
  \/ \E t \in Threads : Query(t) \/ Step(t)
  \/ ClearConnection \/ SetStop \/ OnTimer

Spec == Init /\ [][Next]_vars

\* A thread that can go on does.
FairSpec == Spec /\ \A t \in Threads : WF_vars(Step(t))

-----------------------------------------------------------------------------
(* Properties *)

\* The threads: _mtx is with one only at a program point that holds it, and the
\* blocker notifyOne has in hand exists.
ThreadOK ==
  /\ th \in [Threads -> Thread]
  /\ \A t \in Threads : mtx = t => th[t].pc \in {"full", "check", "front", "pop"}
  /\ \A t \in Threads : th[t].pc = "pop" => th[t].blocker \in 1 .. blockers

TypeOK ==
  /\ conns \subseteq Connections /\ occupied \subseteq Connections
  /\ queue \in Seq(1 .. blockers) /\ signalled \subseteq 1 .. blockers
  /\ blockers \in Nat
  /\ mtx \in Threads \cup {Timer, Nil}
  /\ stop \in BOOLEAN /\ tick \in BOOLEAN /\ dead \in BOOLEAN
  /\ queries \in Nat /\ faults \in Nat /\ ticks \in Nat /\ stops \in Nat
  /\ ThreadOK

\* No connection serves two queries at a time, and none that is in use passes for
\* idle, although recycle() and the scan of getConnection share no mutex.
Exclusive ==
  \A t \in Threads : th[t].con # Nil =>
    /\ th[t].con \in occupied
    /\ \A u \in Threads : th[u].con = th[t].con => u = t

\* The pool never has more than _maxConnections connections open, those of queries
\* under way included, until it is cleared.
AtMostMax ==
  stops = 0 =>
    Cardinality(conns \cup ({th[t].con : t \in Threads} \ {Nil})) <= MaxConnections

\* Until the pool is cleared a connection in use is in the list, and the list
\* respects the limit.
InUseListed ==
  stops = 0 => /\ \A t \in Threads : th[t].con # Nil => th[t].con \in conns
               /\ Cardinality(conns) <= MaxConnections

\* The inductive invariant behind Exclusive and AtMostMax.
PoolInv == TypeOK /\ Exclusive /\ InUseListed

\* As many connections as threads: every query returns, whatever the database does.
Returns == \A t \in Threads : th[t].pc # "idle" ~> th[t].pc = "idle" \/ dead

\* What the comment on getConnection says: it blocks when there are more than the
\* greatest number of connections.  So a thread does not stay blocked when every
\* connection is idle again.
BlocksOnlyAtLimit == \A t \in Threads : th[t].pc = "block" ~> th[t].pc # "block"
=============================================================================
