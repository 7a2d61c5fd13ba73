------------------------ MODULE ConnectionPoolProofs ------------------------
(***************************************************************************)
(* Proofs about ConnectionPool: type correctness, and that the pool keeps  *)
(* its two promises about connections, Exclusive and AtMostMax, for any    *)
(* number of threads and connections, with notifyOne unprotected as it is. *)
(*                                                                         *)
(* Moves(t, pc, con) says what each step of thread t does to the threads;  *)
(* it is proved once for each action, and the parts of the invariant       *)
(* follow from it and from what the action does to the pool.               *)
(***************************************************************************)
EXTENDS ConnectionPool, FiniteSetTheorems, TLAPS

\* Thread t goes to pc with connection con, and the other threads stay.
Moves(t, pc, con) ==
  /\ th' \in [Threads -> Thread]
  /\ th'[t].pc = pc /\ th'[t].con = con
  /\ \A u \in Threads : u # t => th'[u] = th[u]

\* No thread is the timer or Nil, so the owner of the mutex is never mistaken.
LEMMA Owners == \A t \in Threads : t # Nil /\ t # Timer
  BY PoolAssumption

\* No connection is the null pointer.
LEMMA ConNotNil == Nil \notin Connections
  BY PoolAssumption

\* The thread records the actions start from.
LEMMA Records ==
  ASSUME TypeOK, NEW t \in Threads
  PROVE  th[t] \in Thread /\ Idle \in Thread /\ Idle.con = Nil
  BY DEF TypeOK, ThreadOK, Thread, Idle, Pcs

\* Goto moves the thread, with the connection of the record it is given.
LEMMA GotoMoves ==
  ASSUME TypeOK, NEW t \in Threads, NEW s \in Thread, NEW pc \in Pcs, Goto(t, s, pc)
  PROVE  Moves(t, pc, s.con) /\ th'[t].blocker = s.blocker
  BY DEF TypeOK, ThreadOK, Goto, Thread, Moves

\* The same with a connection that the thread has just got.
LEMMA GotoWithCon ==
  ASSUME TypeOK, NEW t \in Threads, NEW c \in Connections, NEW pc \in Pcs,
         Goto(t, [th[t] EXCEPT !.con = c], pc)
  PROVE  Moves(t, pc, c)
<1>1. th'[t] = [[th[t] EXCEPT !.con = c] EXCEPT !.pc = pc]
  BY DEF TypeOK, ThreadOK, Goto
<1>2. th[t] \in Thread
  BY Records
<1>3. th'[t] \in Thread /\ th'[t].pc = pc /\ th'[t].con = c
  BY <1>1, <1>2 DEF Thread
<1> QED BY <1>3 DEF TypeOK, ThreadOK, Goto, Moves

\* The same with a blocker.
LEMMA GotoWithBlocker ==
  ASSUME TypeOK, NEW t \in Threads, NEW b \in Nat, NEW pc \in Pcs,
         Goto(t, [th[t] EXCEPT !.blocker = b], pc)
  PROVE  Moves(t, pc, th[t].con) /\ th'[t].blocker = b
<1>1. th'[t] = [[th[t] EXCEPT !.blocker = b] EXCEPT !.pc = pc]
  BY DEF TypeOK, ThreadOK, Goto
<1>2. th[t] \in Thread
  BY Records
<1>3. th'[t] \in Thread /\ th'[t].pc = pc /\ th'[t].con = th[t].con /\ th'[t].blocker = b
  BY <1>1, <1>2 DEF Thread
<1> QED BY <1>3 DEF TypeOK, ThreadOK, Goto, Moves

\* A query that returns leaves its thread without a connection.
LEMMA ReturnMoves ==
  ASSUME TypeOK, NEW t \in Threads, Return(t)
  PROVE  Moves(t, "idle", Nil)
  BY Records DEF TypeOK, ThreadOK, Return, Moves, Idle

\* A step that neither gives _mtx to another thread nor leaves t with _mtx at a
\* point that does not hold it keeps ThreadOK.
LEMMA KeepsThreadOK ==
  ASSUME TypeOK, NEW t \in Threads, NEW pc, NEW con, Moves(t, pc, con),
         mtx' = t => pc \in {"full", "check", "front", "pop"},
         mtx' \in {mtx, t, Nil},
         pc = "pop" => th'[t].blocker \in 1 .. blockers,
         blockers \in Nat, blockers' \in {blockers, blockers + 1}
  PROVE  ThreadOK'
<1>1. \A u \in Threads : mtx' = u => th'[u].pc \in {"full", "check", "front", "pop"}
  BY Owners DEF TypeOK, ThreadOK, Moves
<1>2. \A u \in Threads : th'[u].pc = "pop" => th'[u].blocker \in 1 .. blockers'
  BY DEF TypeOK, ThreadOK, Moves
<1> QED BY <1>1, <1>2 DEF ThreadOK, Moves

\* A step that leaves the threads alone and takes _mtx from no thread keeps it too.
LEMMA IdleKeepsThreadOK ==
  ASSUME TypeOK, UNCHANGED <<th, blockers>>, mtx' \in {mtx, Timer}
  PROVE  ThreadOK'
  BY Owners DEF TypeOK, ThreadOK

-----------------------------------------------------------------------------
(* What each action does to the threads *)

\* A query starts at getConnection, without a connection.
LEMMA QueryMoves ==
  ASSUME TypeOK, NEW t \in Threads, Query(t)
  PROVE  Moves(t, "get", Nil) /\ th[t].pc = "idle"
  BY Records, GotoMoves DEF Query, Pcs, At

\* getConnection gives up, takes a connection nobody occupies, or goes on with _mtx.
LEMMA GetMoves ==
  ASSUME TypeOK, NEW t \in Threads, GetConnection(t)
  PROVE  /\ th[t].pc = "get"
         /\ \/ Moves(t, "idle", Nil) /\ UNCHANGED <<occupied, mtx>>
            \/ \E c \in Free : /\ Moves(t, "execute", c) /\ c \in Connections
                               /\ occupied' = occupied \cup {c} /\ UNCHANGED mtx
            \/ Moves(t, "full", th[t].con) /\ mtx' = t /\ UNCHANGED occupied
<1>1. Free \subseteq Connections
  BY DEF Free, TypeOK
<1>2. CASE stop /\ Return(t) /\ UNCHANGED <<occupied, mtx>>
  BY <1>2, ReturnMoves DEF GetConnection, At
<1>3. ASSUME NEW c \in Free, Goto(t, [th[t] EXCEPT !.con = c], "execute"),
             occupied' = occupied \cup {c}, UNCHANGED mtx
      PROVE  Moves(t, "execute", c)
  BY <1>1, <1>3, GotoWithCon DEF Pcs
<1>4. ASSUME Goto(t, th[t], "full") PROVE Moves(t, "full", th[t].con)
  BY <1>4, Records, GotoMoves DEF Pcs
<1> QED BY <1>1, <1>2, <1>3, <1>4 DEF GetConnection, At

\* At the limit the thread waits; below it, it gets a new connection or gives up.
LEMMA QueueUpMoves ==
  ASSUME TypeOK, NEW t \in Threads, QueueUpOrCreate(t)
  PROVE  /\ th[t].pc = "full"
         /\ \/ /\ Moves(t, "block", th[t].con)
               /\ blockers' = blockers + 1 /\ queue' = Append(queue, blockers + 1)
               /\ UNCHANGED <<conns, occupied, faults>>
            \/ \E c \in Fresh : /\ Moves(t, "execute", c) /\ c \in Connections
                                /\ ~AtLimit
                                /\ conns' = conns \cup {c}
                                /\ occupied' = occupied \cup {c}
                                /\ UNCHANGED <<queue, blockers, faults>>
            \/ /\ Moves(t, "idle", Nil)
               /\ faults' = faults + 1
               /\ UNCHANGED <<conns, occupied, queue, blockers>>
<1>1. Fresh \subseteq Connections /\ blockers + 1 \in Nat
  BY DEF Fresh, TypeOK
<1>2. ASSUME Goto(t, [th[t] EXCEPT !.blocker = blockers + 1], "block")
      PROVE  Moves(t, "block", th[t].con)
  BY <1>1, <1>2, GotoWithBlocker DEF Pcs
<1>3. ASSUME NEW c \in Fresh, Goto(t, [th[t] EXCEPT !.con = c], "execute")
      PROVE  Moves(t, "execute", c)
  BY <1>1, <1>3, GotoWithCon DEF Pcs
<1>4. ASSUME Return(t) PROVE Moves(t, "idle", Nil)
  BY <1>4, ReturnMoves
<1> QED BY <1>1, <1>2, <1>3, <1>4 DEF QueueUpOrCreate, At

\* A thread that is woken calls getConnection again, without a connection.
LEMMA UnblockMoves ==
  ASSUME TypeOK, NEW t \in Threads, Unblock(t)
  PROVE  Moves(t, "get", Nil) /\ th[t].pc = "block"
  BY Records, GotoMoves DEF Unblock, Pcs, At

\* Executing a statement does not change who has which connection.
LEMMA ExecuteMoves ==
  ASSUME TypeOK, NEW t \in Threads, Execute(t)
  PROVE  /\ th[t].pc = "execute"
         /\ Moves(t, "recycle", th[t].con) \/ Moves(t, "remove", th[t].con)
  BY Records, GotoMoves DEF Execute, Pcs, At

\* recycle() takes the connection from the thread.
LEMMA RecycleMoves ==
  ASSUME TypeOK, NEW t \in Threads, Recycle(t)
  PROVE  Moves(t, "check", Nil) /\ th[t].pc = "recycle"
  BY Records, GotoMoves DEF Recycle, Pcs, At

\* removeConnection takes the connection from the thread.
LEMMA RemoveMoves ==
  ASSUME TypeOK, NEW t \in Threads, RemoveConnection(t)
  PROVE  Moves(t, "check", Nil) /\ th[t].pc = "remove"
  BY Records, GotoMoves DEF RemoveConnection, Pcs, At

\* notifyOne returns and gives up _mtx, or goes on with it.
LEMMA CheckMoves ==
  ASSUME TypeOK, NEW t \in Threads, NotifyCheck(t)
  PROVE  \/ Moves(t, "idle", Nil) /\ Release(t)
         \/ Moves(t, "front", th[t].con) /\ UNCHANGED mtx /\ th[t].pc = "check"
  BY Records, GotoMoves, ReturnMoves DEF NotifyCheck, Pcs, At

\* notifyOne crashes on an empty queue, or has a blocker that exists in hand.
LEMMA FrontMoves ==
  ASSUME TypeOK, NEW t \in Threads, NotifyFront(t)
  PROVE  \/ UNCHANGED th
         \/ Moves(t, "pop", th[t].con) /\ th'[t].blocker \in 1 .. blockers
<1>1. CASE queue = <<>>
  BY <1>1 DEF NotifyFront
<1>2. CASE queue # <<>>
  <2>1. Head(queue) \in 1 .. blockers
    BY <1>2 DEF TypeOK
  <2>2. Head(queue) \in Nat
    BY <2>1 DEF TypeOK
  <2> QED BY <1>2, <2>1, <2>2, GotoWithBlocker DEF NotifyFront, Pcs
<1> QED BY <1>1, <1>2

\* notifyOne crashes on an empty queue, or signals a blocker that exists and returns.
LEMMA PopMoves ==
  ASSUME TypeOK, NEW t \in Threads, NotifyPop(t)
  PROVE  \/ UNCHANGED <<th, queue, signalled, mtx>>
         \/ /\ Moves(t, "idle", Nil) /\ Release(t)
            /\ queue # <<>> /\ queue' = Tail(queue)
            /\ th[t].blocker \in 1 .. blockers
            /\ signalled' = signalled \cup {th[t].blocker}
<1>1. th[t].pc = "pop" /\ th[t].blocker \in 1 .. blockers
  BY DEF NotifyPop, At, TypeOK, ThreadOK
<1> QED BY <1>1, ReturnMoves DEF NotifyPop

-----------------------------------------------------------------------------
(* Type correctness *)

\* A new blocker joins the queue.
LEMMA Longer ==
  ASSUME NEW n \in Nat, NEW q \in Seq(1 .. n)
  PROVE  q \in Seq(1 .. n + 1) /\ Append(q, n + 1) \in Seq(1 .. n + 1)
<1>1. q \in Seq(1 .. n + 1)
  OBVIOUS
<1> QED BY <1>1

\* A blocker leaves the queue.
LEMMA Shorter ==
  ASSUME NEW S, NEW q \in Seq(S), q # <<>>
  PROVE  Tail(q) \in Seq(S)
  OBVIOUS

\* Every step keeps the types; the mutex is with a thread only at a program point
\* that holds it, the early returns of notifyOne included.
LEMMA TypeStep == TypeOK /\ [Next]_vars => TypeOK'
<1> SUFFICES ASSUME TypeOK, [Next]_vars PROVE TypeOK'
  OBVIOUS
<1>1. ASSUME NEW t \in Threads, Query(t) PROVE TypeOK'
  <2>1. ThreadOK'
    BY <1>1, QueryMoves, KeepsThreadOK DEF Query, TypeOK, ThreadOK, pool
  <2> QED BY <1>1, <2>1 DEF Query, TypeOK, pool
<1>2. ASSUME NEW t \in Threads, GetConnection(t) PROVE TypeOK'
  <2>1. ThreadOK'
    BY <1>2, GetMoves, KeepsThreadOK DEF GetConnection, TypeOK, ThreadOK
  <2>2. occupied' \subseteq Connections /\ mtx' \in Threads \cup {Timer, Nil}
    BY <1>2, GetMoves DEF TypeOK
  <2> QED BY <1>2, <2>1, <2>2 DEF GetConnection, TypeOK, bounds
<1>3. ASSUME NEW t \in Threads, QueueUpOrCreate(t) PROVE TypeOK'
  <2>1. mtx' = Nil /\ UNCHANGED <<signalled, stop, tick, dead, queries, ticks, stops>>
    BY <1>3 DEF QueueUpOrCreate
  <2>2. ThreadOK'
    BY <1>3, <2>1, QueueUpMoves, KeepsThreadOK, Owners DEF TypeOK
  <2>3. \/ blockers' = blockers /\ queue' = queue
        \/ blockers' = blockers + 1 /\ queue' = Append(queue, blockers + 1)
    BY <1>3, QueueUpMoves
  <2>4. queue' \in Seq(1 .. blockers')
    BY <2>3, Longer DEF TypeOK
  <2>5. signalled' \subseteq 1 .. blockers'
    BY <2>1, <2>3 DEF TypeOK
  <2>6. conns' \subseteq Connections /\ occupied' \subseteq Connections
    BY <1>3, QueueUpMoves DEF TypeOK
  <2>7. blockers' \in Nat /\ faults' \in Nat
    BY <1>3, QueueUpMoves DEF TypeOK
  <2> QED BY <2>1, <2>2, <2>4, <2>5, <2>6, <2>7 DEF TypeOK
<1>4. ASSUME NEW t \in Threads, Unblock(t) PROVE TypeOK'
  <2>1. ThreadOK'
    BY <1>4, UnblockMoves, KeepsThreadOK DEF Unblock, TypeOK, ThreadOK, pool
  <2> QED BY <1>4, <2>1 DEF Unblock, TypeOK, pool, bounds
<1>5. ASSUME NEW t \in Threads, Execute(t) PROVE TypeOK'
  <2>1. ThreadOK'
    BY <1>5, ExecuteMoves, KeepsThreadOK DEF Execute, TypeOK, ThreadOK, pool
  <2> QED BY <1>5, <2>1 DEF Execute, TypeOK, pool
<1>6. ASSUME NEW t \in Threads, Recycle(t) PROVE TypeOK'
  <2>1. ThreadOK'
    BY <1>6, RecycleMoves, KeepsThreadOK DEF Recycle, TypeOK, ThreadOK
  <2> QED BY <1>6, <2>1 DEF Recycle, TypeOK, bounds
<1>7. ASSUME NEW t \in Threads, RemoveConnection(t) PROVE TypeOK'
  <2>1. ThreadOK'
    BY <1>7, RemoveMoves, KeepsThreadOK DEF RemoveConnection, TypeOK
  <2> QED BY <1>7, <2>1 DEF RemoveConnection, TypeOK, bounds
<1>8. ASSUME NEW t \in Threads, NotifyCheck(t) PROVE TypeOK'
  <2>1. mtx' \in {mtx, Nil} /\ UNCHANGED blockers
    BY <1>8, CheckMoves DEF NotifyCheck, Release
  <2>2. CASE Moves(t, "idle", Nil) /\ Release(t)
    BY <2>1, <2>2, KeepsThreadOK, Owners, <1>8 DEF NotifyCheck, Release, TypeOK, bounds
  <2>3. CASE Moves(t, "front", th[t].con) /\ UNCHANGED mtx /\ th[t].pc = "check"
    BY <2>1, <2>3, KeepsThreadOK, <1>8 DEF NotifyCheck, TypeOK, bounds
  <2> QED BY <1>8, <2>2, <2>3, CheckMoves
<1>9. ASSUME NEW t \in Threads, NotifyFront(t) PROVE TypeOK'
  <2>1. UNCHANGED <<mtx, blockers>>
    BY <1>9 DEF NotifyFront, pool
  <2>2. ThreadOK'
    BY <1>9, <2>1, FrontMoves, KeepsThreadOK, IdleKeepsThreadOK DEF TypeOK
  <2>3. dead' \in BOOLEAN
    BY <1>9 DEF NotifyFront, TypeOK
  <2> QED BY <1>9, <2>2, <2>3 DEF NotifyFront, TypeOK, pool, bounds
<1>10. ASSUME NEW t \in Threads, NotifyPop(t) PROVE TypeOK'
  <2>1. UNCHANGED <<conns, occupied, blockers, stop, tick, bounds>> /\ dead' \in BOOLEAN
    BY <1>10 DEF NotifyPop, TypeOK
  <2>2. CASE UNCHANGED <<th, queue, signalled, mtx>>
    BY <2>1, <2>2, IdleKeepsThreadOK DEF TypeOK, bounds
  <2>3. CASE /\ Moves(t, "idle", Nil) /\ Release(t)
             /\ queue # <<>> /\ queue' = Tail(queue)
             /\ th[t].blocker \in 1 .. blockers
             /\ signalled' = signalled \cup {th[t].blocker}
    <3>1. ThreadOK'
      BY <2>1, <2>3, KeepsThreadOK, Owners DEF Release, TypeOK
    <3>2. queue' \in Seq(1 .. blockers)
      BY <2>3, Shorter DEF TypeOK
    <3>3. signalled' \subseteq 1 .. blockers
      BY <2>3 DEF TypeOK
    <3> QED BY <2>1, <2>3, <3>1, <3>2, <3>3 DEF Release, TypeOK, bounds
  <2> QED BY <1>10, <2>2, <2>3, PopMoves
<1>11. CASE ClearConnection
  <2>1. ThreadOK'
    BY <1>11, IdleKeepsThreadOK DEF ClearConnection
  <2> QED BY <1>11, <2>1 DEF ClearConnection, TypeOK
<1>12. CASE SetStop
  <2>1. ThreadOK'
    BY <1>12, IdleKeepsThreadOK DEF SetStop, pool
  <2> QED BY <1>12, <2>1 DEF SetStop, TypeOK, pool, bounds
<1>13. CASE OnTimer
  <2>1. mtx' \in {mtx, Timer} /\ dead' \in BOOLEAN
    BY <1>13 DEF OnTimer, TypeOK
  <2>2. ThreadOK'
    BY <1>13, <2>1, IdleKeepsThreadOK DEF OnTimer
  <2> QED BY <1>13, <2>1, <2>2 DEF OnTimer, TypeOK
<1>14. CASE UNCHANGED vars
  BY <1>14 DEF vars, TypeOK, ThreadOK, Thread
<1> QED
  BY <1>1, <1>2, <1>3, <1>4, <1>5, <1>6, <1>7, <1>8, <1>9, <1>10, <1>11, <1>12, <1>13,
     <1>14 DEF Next, Step

-----------------------------------------------------------------------------
(* No connection is in two hands *)

\* A step of t keeps Exclusive if what t has afterwards is occupied and nobody
\* else's, and what the others have stays occupied.
LEMMA KeepsExclusive ==
  ASSUME TypeOK, Exclusive, NEW t \in Threads, NEW pc, NEW con, Moves(t, pc, con),
         con # Nil => con \in occupied' /\ \A u \in Threads : u # t => th[u].con # con,
         \A u \in Threads : u # t /\ th[u].con # Nil => th[u].con \in occupied'
  PROVE  Exclusive'
<1> SUFFICES ASSUME NEW a \in Threads, th'[a].con # Nil
             PROVE  /\ th'[a].con \in occupied'
                    /\ \A b \in Threads : th'[b].con = th'[a].con => b = a
  BY DEF Exclusive
<1>1. th'[t].con = con /\ \A u \in Threads : u # t => th'[u].con = th[u].con
  BY DEF Moves
<1>2. CASE a = t
  BY <1>1, <1>2
<1>3. CASE a # t
  BY <1>1, <1>3 DEF Exclusive
<1> QED BY <1>2, <1>3

\* A step of t that takes no connection and frees none keeps it.
LEMMA HoldsNoMore ==
  ASSUME TypeOK, Exclusive, NEW t \in Threads, NEW pc, NEW con, Moves(t, pc, con),
         con \in {Nil, th[t].con}, UNCHANGED occupied
  PROVE  Exclusive'
  BY KeepsExclusive DEF Exclusive

\* Every step keeps Exclusive: the scan of getConnection takes only what is not
\* occupied, and a thread frees only the connection that it alone has.
LEMMA ExclusiveStep == TypeOK /\ Exclusive /\ [Next]_vars => Exclusive'
<1> SUFFICES ASSUME TypeOK, Exclusive, [Next]_vars PROVE Exclusive'
  OBVIOUS
<1>1. ASSUME NEW t \in Threads, Query(t) PROVE Exclusive'
  BY <1>1, QueryMoves, HoldsNoMore DEF Query, pool
<1>2. ASSUME NEW t \in Threads, GetConnection(t) PROVE Exclusive'
  <2>1. ASSUME NEW c \in Free, Moves(t, "execute", c), occupied' = occupied \cup {c}
        PROVE  Exclusive'
    <3>1. c \notin occupied
      BY <2>1 DEF Free
    <3>2. \A u \in Threads : th[u].con # Nil => th[u].con \in occupied
      BY DEF Exclusive
    <3>3. c # Nil => \A u \in Threads : u # t => th[u].con # c
      BY <3>1, <3>2
    <3> QED BY <2>1, <3>2, <3>3, KeepsExclusive
  <2> QED BY <1>2, <2>1, GetMoves, HoldsNoMore
<1>3. ASSUME NEW t \in Threads, QueueUpOrCreate(t) PROVE Exclusive'
  <2>1. ASSUME NEW c \in Fresh, Moves(t, "execute", c), occupied' = occupied \cup {c}
        PROVE  Exclusive'
    <3>1. \A u \in Threads : th[u].con # c
      BY <2>1 DEF Fresh
    <3>2. \A u \in Threads : th[u].con # Nil => th[u].con \in occupied
      BY DEF Exclusive
    <3> QED BY <2>1, <3>1, <3>2, KeepsExclusive
  <2> QED BY <1>3, <2>1, QueueUpMoves, HoldsNoMore
<1>4. ASSUME NEW t \in Threads, Unblock(t) PROVE Exclusive'
  BY <1>4, UnblockMoves, HoldsNoMore DEF Unblock, pool
<1>5. ASSUME NEW t \in Threads, Execute(t) PROVE Exclusive'
  BY <1>5, ExecuteMoves, HoldsNoMore DEF Execute, pool
<1>6. ASSUME NEW t \in Threads, Recycle(t) \/ RemoveConnection(t) PROVE Exclusive'
  <2>1. Moves(t, "check", Nil) /\ occupied' = occupied \ {th[t].con}
    BY <1>6, RecycleMoves, RemoveMoves DEF Recycle, RemoveConnection
  <2>2. \A u \in Threads : u # t /\ th[u].con # Nil => th[u].con \in occupied'
    BY <2>1 DEF Exclusive
  <2> QED BY <2>1, <2>2, KeepsExclusive
<1>7. ASSUME NEW t \in Threads, NotifyCheck(t) PROVE Exclusive'
  BY <1>7, CheckMoves, HoldsNoMore DEF NotifyCheck
<1>8. ASSUME NEW t \in Threads, NotifyFront(t) PROVE Exclusive'
  <2>1. UNCHANGED occupied
    BY <1>8 DEF NotifyFront, pool
  <2>2. CASE UNCHANGED th
    BY <2>1, <2>2 DEF Exclusive
  <2> QED BY <1>8, <2>1, <2>2, FrontMoves, HoldsNoMore
<1>9. ASSUME NEW t \in Threads, NotifyPop(t) PROVE Exclusive'
  <2>1. UNCHANGED occupied
    BY <1>9 DEF NotifyPop
  <2>2. CASE UNCHANGED th
    BY <2>1, <2>2 DEF Exclusive
  <2> QED BY <1>9, <2>1, <2>2, PopMoves, HoldsNoMore
<1>10. CASE ClearConnection \/ SetStop \/ OnTimer \/ UNCHANGED vars
  <2>1. UNCHANGED <<th, occupied>>
    BY <1>10 DEF ClearConnection, SetStop, OnTimer, vars, pool
  <2> QED BY <2>1 DEF Exclusive
<1> QED
  BY <1>1, <1>2, <1>3, <1>4, <1>5, <1>6, <1>7, <1>8, <1>9, <1>10 DEF Next, Step

-----------------------------------------------------------------------------
(* The limit *)

\* The list is finite.
LEMMA ConnsFinite ==
  ASSUME TypeOK
  PROVE  IsFiniteSet(conns) /\ Cardinality(conns) \in Nat
<1>1. conns \in SUBSET Connections /\ IsFiniteSet(Connections)
  BY PoolAssumption DEF TypeOK
<1>2. IsFiniteSet(conns)
  BY <1>1, FS_Subset
<1> QED BY <1>2, FS_CardinalityType

\* A step of t keeps InUseListed if what the threads have afterwards is in the
\* list and the list is within the limit.
LEMMA KeepsListed ==
  ASSUME NEW t \in Threads, NEW pc, NEW con, Moves(t, pc, con),
         con # Nil => con \in conns',
         \A u \in Threads : u # t /\ th[u].con # Nil => th[u].con \in conns',
         Cardinality(conns') <= MaxConnections
  PROVE  InUseListed'
  BY DEF Moves, InUseListed

\* A step of t that takes no connection and leaves the list alone keeps it.
LEMMA ListsNoMore ==
  ASSUME InUseListed, NEW t \in Threads, NEW pc, NEW con, Moves(t, pc, con),
         con \in conns \cup {Nil, th[t].con}, UNCHANGED <<conns, stops>>
  PROVE  InUseListed'
  BY DEF Moves, InUseListed

\* Every step keeps InUseListed: the list grows by one connection, below the limit,
\* removeConnection takes out only what the thread alone has, and clearConnection
\* ends the promise.
LEMMA ListedStep == TypeOK /\ Exclusive /\ InUseListed /\ [Next]_vars => InUseListed'
<1> SUFFICES ASSUME TypeOK, Exclusive, InUseListed, [Next]_vars PROVE InUseListed'
  OBVIOUS
<1>1. ASSUME NEW t \in Threads, Query(t) PROVE InUseListed'
  BY <1>1, QueryMoves, ListsNoMore DEF Query, pool
<1>2. ASSUME NEW t \in Threads, GetConnection(t) PROVE InUseListed'
  <2>1. UNCHANGED <<conns, stops>>
    BY <1>2 DEF GetConnection, bounds
  <2>2. Free \subseteq conns
    BY DEF Free
  <2> QED BY <1>2, <2>1, <2>2, GetMoves, ListsNoMore
<1>3. ASSUME NEW t \in Threads, QueueUpOrCreate(t) PROVE InUseListed'
  <2>1. UNCHANGED stops
    BY <1>3 DEF QueueUpOrCreate
  <2>2. ASSUME NEW c \in Fresh, Moves(t, "execute", c), ~AtLimit,
               conns' = conns \cup {c}, stops = 0
        PROVE  InUseListed'
    <3>1. c \notin conns
      BY <2>2 DEF Fresh
    <3>2. Cardinality(conns') = Cardinality(conns) + 1
      BY <2>2, <3>1, ConnsFinite, FS_AddElement
    <3>3. Cardinality(conns') <= MaxConnections
      BY <2>2, <3>2, ConnsFinite, PoolAssumption DEF AtLimit
    <3>4. \A u \in Threads : th[u].con # Nil => th[u].con \in conns'
      BY <2>2 DEF InUseListed
    <3> QED BY <2>2, <3>3, <3>4, KeepsListed
  <2>3. CASE stops # 0
    BY <2>1, <2>3 DEF InUseListed
  <2> QED BY <1>3, <2>1, <2>2, <2>3, QueueUpMoves, ListsNoMore
<1>4. ASSUME NEW t \in Threads, Unblock(t) PROVE InUseListed'
  BY <1>4, UnblockMoves, ListsNoMore DEF Unblock, pool, bounds
<1>5. ASSUME NEW t \in Threads, Execute(t) PROVE InUseListed'
  BY <1>5, ExecuteMoves, ListsNoMore DEF Execute, pool
<1>6. ASSUME NEW t \in Threads, Recycle(t) PROVE InUseListed'
  BY <1>6, RecycleMoves, ListsNoMore DEF Recycle, bounds
<1>7. ASSUME NEW t \in Threads, RemoveConnection(t) PROVE InUseListed'
  <2>1. /\ Moves(t, "check", Nil)
        /\ conns' = conns \ {th[t].con} /\ UNCHANGED stops
    BY <1>7, RemoveMoves DEF RemoveConnection, bounds
  <2>2. CASE stops = 0
    <3>1. Cardinality(conns') <= Cardinality(conns) /\ Cardinality(conns') \in Nat
      <4>1. IsFiniteSet(conns) /\ conns' \in SUBSET conns
        BY <2>1, ConnsFinite
      <4>2. IsFiniteSet(conns') /\ Cardinality(conns') <= Cardinality(conns)
        BY <4>1, FS_Subset
      <4> QED BY <4>2, FS_CardinalityType
    <3>2. Cardinality(conns') <= MaxConnections
      BY <2>2, <3>1, ConnsFinite, PoolAssumption DEF InUseListed
    <3>3. \A u \in Threads : u # t /\ th[u].con # Nil => th[u].con \in conns'
      BY <2>1, <2>2 DEF InUseListed, Exclusive
    <3> QED BY <2>1, <3>2, <3>3, KeepsListed
  <2> QED BY <2>1, <2>2 DEF InUseListed
<1>8. ASSUME NEW t \in Threads, NotifyCheck(t) PROVE InUseListed'
  BY <1>8, CheckMoves, ListsNoMore DEF NotifyCheck, bounds
<1>9. ASSUME NEW t \in Threads, NotifyFront(t) PROVE InUseListed'
  <2>1. UNCHANGED <<conns, stops>>
    BY <1>9 DEF NotifyFront, pool, bounds
  <2>2. CASE UNCHANGED th
    BY <2>1, <2>2 DEF InUseListed
  <2> QED BY <1>9, <2>1, <2>2, FrontMoves, ListsNoMore
<1>10. ASSUME NEW t \in Threads, NotifyPop(t) PROVE InUseListed'
  <2>1. UNCHANGED <<conns, stops>>
    BY <1>10 DEF NotifyPop, bounds
  <2>2. CASE UNCHANGED th
    BY <2>1, <2>2 DEF InUseListed
  <2> QED BY <1>10, <2>1, <2>2, PopMoves, ListsNoMore
<1>11. CASE ClearConnection
  <2>1. stops' # 0
    BY <1>11 DEF ClearConnection, TypeOK
  <2> QED BY <2>1 DEF InUseListed
<1>12. CASE SetStop \/ OnTimer \/ UNCHANGED vars
  <2>1. UNCHANGED <<th, conns, stops>>
    BY <1>12 DEF SetStop, OnTimer, vars, pool, bounds
  <2> QED BY <2>1 DEF InUseListed
<1> QED
  BY <1>1, <1>2, <1>3, <1>4, <1>5, <1>6, <1>7, <1>8, <1>9, <1>10, <1>11, <1>12
  DEF Next, Step

-----------------------------------------------------------------------------
(* The theorems *)

\* The pool starts empty, with every thread idle.
LEMMA PoolInit == Init => PoolInv
<1> SUFFICES ASSUME Init PROVE PoolInv
  OBVIOUS
<1>1. \A t \in Threads : th[t] = Idle
  BY DEF Init
<1>2. ThreadOK
  BY <1>1, Owners DEF Init, ThreadOK, Idle, Thread, Pcs
<1>3. TypeOK
  <2>1. queue \in Seq(1 .. blockers)
    BY DEF Init
  <2>2. mtx \in Threads \cup {Timer, Nil} /\ stop \in BOOLEAN
    BY DEF Init
  <2> QED BY <1>2, <2>1, <2>2 DEF Init, TypeOK
<1>4. Exclusive
  BY <1>1 DEF Exclusive, Idle
<1>5. InUseListed
  BY <1>1, FS_EmptySet, PoolAssumption DEF InUseListed, Init, Idle
<1> QED BY <1>3, <1>4, <1>5 DEF PoolInv

\* PoolInv holds in every state the pool reaches, however its threads interleave.
THEOREM PoolInvariant == Spec => []PoolInv
<1>1. PoolInv /\ [Next]_vars => PoolInv'
  BY TypeStep, ExclusiveStep, ListedStep DEF PoolInv
<1> QED BY PoolInit, <1>1, PTL DEF Spec

\* The state of the pool stays well-typed, and _mtx is never left with a thread that
\* has returned.
THEOREM PoolTypes == Spec => []TypeOK
<1>1. PoolInv => TypeOK
  BY DEF PoolInv
<1> QED BY <1>1, PoolInvariant, PTL

\* For any number of threads, no connection serves two queries at a time and none in
\* use passes for idle.
THEOREM PoolExclusive == Spec => []Exclusive
<1>1. PoolInv => Exclusive
  BY DEF PoolInv
<1> QED BY <1>1, PoolInvariant, PTL

\* For any _maxConnections, the pool has no more connections open, those of queries
\* under way included, until it is cleared.
THEOREM PoolAtMostMax == Spec => []AtMostMax
<1>1. PoolInv => AtMostMax
  <2> SUFFICES ASSUME PoolInv, stops = 0
               PROVE  Cardinality(conns \cup ({th[t].con : t \in Threads} \ {Nil}))
                        <= MaxConnections
    BY DEF AtMostMax
  <2>1. conns \cup ({th[t].con : t \in Threads} \ {Nil}) = conns
    BY DEF PoolInv, InUseListed
  <2> QED BY <2>1 DEF PoolInv, InUseListed
<1> QED BY <1>1, PoolInvariant, PTL
=============================================================================
