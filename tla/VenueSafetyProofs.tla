-------------------------- MODULE VenueSafetyProofs -------------------------
(***************************************************************************)
(* Proof that the two tables of venues, the objects, the closures and the   *)
(* players' records of where they are agree, for any number of threads,     *)
(* handlers, venues, players, requests and failed statements.  VenueInv is  *)
(* inductive given the loading lock of VenueEntryProofs; then HandlerInv    *)
(* and CountInv, for the player counts, and BoundInv, for the objects and   *)
(* the requests that load them, are inductive given both.                   *)
(***************************************************************************)
EXTENDS VenueEntryProofs, FiniteSums

\* The objects there are keep their venue, and there may be a new one.
Grows ==
  /\ made' \in Nat /\ made <= made'
  /\ \A o \in 1 .. made : obj'[o].venue = obj[o].venue

\* No request is dropped in the step.
NoDrop == \A i \in 1 .. asked' : req'[i].ans = "dropped" =>
            i \in 1 .. asked /\ req[i].ans = "dropped"

\* What a step may rely on.
Before == LockInv /\ VenueInv

LEMMA AnswerNoDrop ==
  ASSUME LockInv, NEW i, NEW a \in Answers \ {"dropped"}, Answer(i, a), asked' = asked
  PROVE  NoDrop
<1>1. req \in [1 .. asked -> Request] /\ req' = [req EXCEPT ![i].ans = a] /\ asked \in Nat
  BY DEF LockInv, Answer
<1>2. \A j \in 1 .. asked : req'[j] = IF j = i THEN [req[j] EXCEPT !.ans = a] ELSE req[j]
  BY <1>1
<1>3. \A j \in 1 .. asked : req[j] \in Request
  BY <1>1
<1>4. \A j \in 1 .. asked : j = i => req'[j].ans = a
  BY <1>2, <1>3 DEF Request
<1> QED
  BY <1>2, <1>4 DEF NoDrop

LEMMA NewRequestNoDrop ==
  ASSUME LockInv, NEW k, NEW p, NEW v, NEW b, NEW a \in Answers \ {"dropped"},
         NewRequest(k, p, v, b, a)
  PROVE  NoDrop
BY DEF NoDrop, NewRequest, LockInv

LEMMA SameNoDrop ==
  ASSUME UNCHANGED <<req, asked>>
  PROVE  NoDrop
BY DEF NoDrop

\* Nothing happens to a closure in a queue.
LEMMA FitGrows ==
  ASSUME Before, Extends, Grows
  PROVE  Fit \subseteq Fit'
<1> SUFFICES ASSUME NEW c \in Fit
             PROVE  c \in Fit'
  OBVIOUS
<1>1. c \in [id : 1 .. asked, obj : 1 .. made] /\ obj[c.obj].venue = req[c.id].venue
  BY DEF Fit
<1>2. c.id \in 1 .. asked /\ c.obj \in 1 .. made
  BY <1>1
<1>3. asked \in Nat /\ made \in Nat
  BY DEF Before, LockInv
<1>4. 1 .. asked \subseteq 1 .. asked' /\ 1 .. made \subseteq 1 .. made'
  BY <1>3 DEF Extends, Grows
<1>5. c \in [id : 1 .. asked', obj : 1 .. made']
  BY <1>1, <1>4
<1>6. obj'[c.obj].venue = req'[c.id].venue
  BY <1>1, <1>2 DEF Extends, Grows
<1> QED
  BY <1>5, <1>6 DEF Fit

LEMMA QueueKept ==
  ASSUME Before, Extends, Grows
  PROVE  queue \in [Handlers -> Seq(Fit')]
<1>1. Fit \subseteq Fit'
  BY FitGrows
<1>2. queue \in [Handlers -> Seq(Fit)]
  BY DEF Before, VenueInv, Typed
<1>3. \A h \in Handlers : queue[h] \in Seq(Fit')
  BY <1>1, <1>2
<1> QED
  BY <1>2, <1>3

\* A closure is put at the end of the queue of some handler.
LEMMA QueueAppended ==
  ASSUME Before, Extends, Grows, NEW h, NEW i \in 1 .. asked', NEW o \in 1 .. made',
         obj'[o].venue = req'[i].venue,
         queue' = [queue EXCEPT ![h] = Append(@, [id |-> i, obj |-> o])]
  PROVE  queue' \in [Handlers -> Seq(Fit')]
<1>1. queue \in [Handlers -> Seq(Fit')]
  BY QueueKept
<1> DEFINE c == [id |-> i, obj |-> o]
<1>2. c \in Fit'
  BY DEF Fit
<1>3. queue' = [queue EXCEPT ![h] = Append(@, c)]
  OBVIOUS
<1> HIDE DEF c
<1>4. \A g \in Handlers : queue'[g] = IF g = h THEN Append(queue[g], c) ELSE queue[g]
  BY <1>1, <1>3
<1>5. ASSUME NEW g \in Handlers
      PROVE  queue'[g] \in Seq(Fit')
  <2>1. queue[g] \in Seq(Fit')
    BY <1>1
  <2>2. Append(queue[g], c) \in Seq(Fit')
    BY <1>2, <2>1
  <2> QED
    BY <1>4, <2>1, <2>2
<1>6. queue' = [g \in Handlers |-> queue'[g]]
  BY <1>1, <1>3
<1> QED
  BY <1>5, <1>6

LEMMA DroppedKept ==
  ASSUME Before, Extends, Grows, NoDrop, \A o \in 1 .. made : obj'[o].open => obj[o].open,
         obj' \in [1 .. made' -> Object]
  PROVE  DroppedWhenOver'
<1>1. asked \in Nat /\ made \in Nat /\ 1 .. made \subseteq 1 .. made'
  BY DEF Before, LockInv, Grows
<1> SUFFICES ASSUME NEW i \in 1 .. asked', req'[i].ans = "dropped"
             PROVE  \E o \in 1 .. made' : obj'[o].venue = req'[i].venue /\ ~obj'[o].open
  BY DEF DroppedWhenOver
<1>2. i \in 1 .. asked /\ req[i].ans = "dropped"
  BY DEF NoDrop
<1>3. PICK o \in 1 .. made : obj[o].venue = req[i].venue /\ ~obj[o].open
  BY <1>2 DEF Before, VenueInv, DroppedWhenOver
<1> QED
  BY <1>1, <1>2, <1>3 DEF Extends, Grows

-----------------------------------------------------------------------------
(* Steps of the outer threads that change nothing but the lock and the requests *)

\* The parts of VenueInv that are about the tables and the objects.
Structure == ThreadInv /\ TableInv /\ SweepInv /\ ObjectInv /\ NoReopen /\ CurrentVenue

\* The other threads are where they were.
LEMMA Others ==
  ASSUME Before, Extends, NEW w \in Outers, NEW t \in Thread, th' = [th EXCEPT ![w] = t]
  PROVE  /\ th'[w] = t
         /\ \A u \in Outers \ {w} :
              /\ th'[u] = th[u] /\ (Loading(u)' <=> Loading(u))
              /\ th[u].pc # "idle" => VenueOf(u)' = VenueOf(u)
<1>1. /\ th'[w] = t
      /\ \A u \in Outers \ {w} :
           th'[u] = th[u] /\ (th[u].pc # "idle" => VenueOf(u)' = VenueOf(u))
  BY OthersKeep DEF Before
<1> QED
  BY <1>1 DEF Loading

\* The thread has no object of its own before or after, and if it has just queried
\* the row of the venue the game was not over.
LEMMA ThreadStep ==
  ASSUME Before, Extends, NEW w \in Outers, NEW t \in Thread, th' = [th EXCEPT ![w] = t],
         UNCHANGED <<over, mgr, assigned, inner, list, stale, obj, made, at, sweep, half,
                     unsaved>>,
         th[w].pc \notin Held, t.pc \notin Held, Knows(w)',
         t.pc # "idle" => t.id \in 1 .. asked',
         Loading(w)' /\ ~Loading(w) => VenueOf(w)' \notin over,
         Loading(w)' /\ Loading(w) => t.id = th[w].id
  PROVE  Structure'
<1>1. /\ th'[w] = t
      /\ \A u \in Outers \ {w} :
           /\ th'[u] = th[u] /\ (Loading(u)' <=> Loading(u))
           /\ th[u].pc # "idle" => VenueOf(u)' = VenueOf(u)
  BY Others
<1>2. \A u \in Outers : th'[u].pc \in Held <=> th[u].pc \in Held
  BY <1>1
<1>3. \A u \in Outers : th[u].pc \in Held => th'[u] = th[u]
  BY <1>1
<1>4. ThreadInv'
  <2> SUFFICES ASSUME NEW u \in Outers, u # w
               PROVE  Knows(u)'
    BY DEF ThreadInv
  <2>1. Knows(u) /\ th'[u] = th[u]
    BY <1>1 DEF Before, VenueInv, ThreadInv
  <2>2. CASE th[u].pc = "idle"
    BY <2>1, <2>2 DEF Knows, Held
  <2>3. CASE th[u].pc # "idle"
    <3>1. VenueOf(u)' = VenueOf(u)
      BY <1>1, <2>3
    <3> QED
      BY <2>1, <3>1 DEF Knows
  <2> QED
    BY <2>2, <2>3
<1>5. TableInv'
  <2>1. \A u \in Outers : th[u].pc = "publish" => th'[u] = th[u]
    BY <1>3 DEF Held
  <2> QED
    BY <2>1 DEF Before, VenueInv, TableInv
<1>6. SweepInv'
  BY DEF Before, VenueInv, SweepInv
<1>7. ObjectInv'
  <2>1. \A u \in Outers : th'[u].pc \in Held => th[u].pc \in Held /\ th'[u].obj = th[u].obj
    BY <1>2, <1>3
  <2>2. \A u \in Outers : th[u].pc \in Held => th'[u].pc \in Held /\ th'[u].obj = th[u].obj
    BY <1>2, <1>3
  <2>3. ASSUME NEW o \in 1 .. made, obj[o].ripe, obj[o].venue \notin unsaved,
               NEW u \in Outers, Loading(u)'
        PROVE  VenueOf(u)' # obj[o].venue
    <3>1. Loading(u) => VenueOf(u) # obj[o].venue
      BY <2>3 DEF Before, VenueInv, ObjectInv
    <3>2. obj[o].venue \in over
      BY <2>3 DEF Before, VenueInv, ObjectInv
    <3>3. CASE u # w
      <4>1. Loading(u) /\ th[u].pc # "idle"
        BY <1>1, <2>3, <3>3 DEF Loading
      <4> QED
        BY <1>1, <3>1, <3>3, <4>1
    <3>4. CASE u = w /\ Loading(w)
      <4>1. th[w].id \in 1 .. asked /\ t.id = th[w].id
        BY <2>3, <3>4 DEF Before, LockInv, Loading
      <4>2. VenueOf(w)' = VenueOf(w)
        BY <1>1, <4>1 DEF VenueOf, Extends
      <4> QED
        BY <3>1, <3>4, <4>2
    <3>5. CASE u = w /\ ~Loading(w)
      BY <2>3, <3>2, <3>5
    <3> QED
      BY <3>3, <3>4, <3>5
  <2> QED
    BY <2>1, <2>2, <2>3 DEF Before, VenueInv, ObjectInv
<1>8. NoReopen' /\ CurrentVenue'
  BY DEF Before, VenueInv, NoReopen, CurrentVenue
<1> QED
  BY <1>4, <1>5, <1>6, <1>7, <1>8 DEF Structure

\* What those steps leave alone.
Quiet == UNCHANGED <<over, mgr, assigned, inner, list, stale, obj, made, at, sweep, half,
                     unsaved>>

LEMMA QuietKeeps ==
  ASSUME Before, Extends, NoDrop, Quiet, Structure', queue' \in [Handlers -> Seq(Fit')]
  PROVE  VenueInv'
<1>1. Grows
  BY DEF Grows, Quiet, Before, VenueInv, Typed
<1>2. DroppedWhenOver'
  BY <1>1, DroppedKept DEF Quiet, Before, VenueInv, Typed
<1>3. Typed'
  BY DEF Quiet, Before, VenueInv, Typed
<1> QED
  BY <1>2, <1>3 DEF VenueInv, Structure

\* The thread is done with its request.
LEMMA IdleStep ==
  ASSUME Before, Extends, NoDrop, Quiet, NEW w \in Outers, th[w].pc \notin Held,
         th' = [th EXCEPT ![w] = Idle], queue' \in [Handlers -> Seq(Fit')]
  PROVE  VenueInv'
<1>1. Idle \in Thread /\ Idle.pc = "idle" /\ Idle.obj = Nil
  BY DEF Idle, Thread, Pcs
<1>2. th'[w] = Idle
  BY <1>1, Others
<1>3. Knows(w)' /\ ~Loading(w)'
  BY <1>1, <1>2 DEF Knows, Held, Loading
<1>4. Structure'
  BY <1>1, <1>3, ThreadStep DEF Quiet, Held
<1> QED
  BY <1>4, QuietKeeps

\* The thread answers its request and is done with it.
LEMMA ReplyStep ==
  ASSUME Before, Quiet, NEW w \in Outers, th[w].pc \notin Held, asked' = asked,
         NEW a \in Answers \ {"dropped"}, Reply(w, a), queue' = queue
  PROVE  VenueInv'
<1>1. Extends /\ NoDrop
  BY AnswerExtends, AnswerNoDrop DEF Reply, Before
<1>2. Grows
  BY DEF Grows, Quiet, Before, VenueInv, Typed
<1>3. queue' \in [Handlers -> Seq(Fit')]
  BY <1>1, <1>2, QueueKept
<1> QED
  BY <1>1, <1>3, IdleStep DEF Reply

\* The thread goes on with its request.
LEMMA GotoStep ==
  ASSUME Before, Quiet, UNCHANGED <<req, asked, queue>>, NEW w \in Outers,
         th[w].pc \notin Held \cup {"idle"},
         NEW s \in Thread, s.id = th[w].id, NEW pc \in Pcs \ (Held \cup {"idle"}),
         Goto(w, s, pc),
         pc \notin {"unlock", "dispatch"} => s.obj = Nil,
         pc = "dispatch" => s.obj # Nil,
         s.obj # Nil => s.obj \in 1 .. made /\ obj[s.obj].venue = VenueOf(w),
         pc = "load" => mgr[VenueOf(w)] = Nil,
         ~Loading(w) => pc \in {"query", "dispatch"} \/ VenueOf(w) \notin over
  PROVE  VenueInv'
<1> DEFINE t == [s EXCEPT !.pc = pc]
<1>1. t \in Thread /\ t.pc = pc /\ t.id = s.id /\ t.obj = s.obj
  BY DEF Thread
<1>2. th' = [th EXCEPT ![w] = t]
  BY DEF Goto
<1> HIDE DEF t
<1>3. Extends /\ NoDrop
  BY SameExtends, SameNoDrop DEF Before
<1>4. th'[w] = t /\ th[w].id \in 1 .. asked
  BY <1>1, <1>2, <1>3, Others DEF Before, LockInv
<1>5. VenueOf(w)' = VenueOf(w)
  BY <1>1, <1>4 DEF VenueOf
<1>6. Knows(w)'
  BY <1>1, <1>4, <1>5 DEF Knows, Quiet, Held
<1>7. Loading(w)' /\ ~Loading(w) => VenueOf(w)' \notin over
  BY <1>1, <1>4, <1>5 DEF Loading
<1>8. Structure'
  BY <1>1, <1>2, <1>3, <1>4, <1>6, <1>7, ThreadStep DEF Quiet
<1>9. Grows
  BY DEF Grows, Quiet, Before, VenueInv, Typed
<1>10. queue' \in [Handlers -> Seq(Fit')]
  BY <1>3, <1>9, QueueKept
<1> QED
  BY <1>3, <1>8, <1>10, QuietKeeps

\* What a thread with a request knows.
LEMMA Acting ==
  ASSUME Before, NEW w \in Outers, th[w].pc # "idle"
  PROVE  /\ th[w] \in Thread /\ Knows(w) /\ VenueOf(w) \in Venues
         /\ th[w].id \in 1 .. asked
         /\ mgr[VenueOf(w)] # Nil =>
              /\ mgr[VenueOf(w)] \in 1 .. made
              /\ obj[mgr[VenueOf(w)]].venue = VenueOf(w)
<1>1. th[w] \in Thread /\ VenueOf(w) \in Venues
  BY Busy DEF Before
<1> QED
  BY <1>1 DEF Before, LockInv, VenueInv, ThreadInv, TableInv, Typed

LEMMA GetVenueStep ==
  ASSUME Before, NEW w \in Outers, GetVenue(w)
  PROVE  VenueInv'
<1> DEFINE o == mgr[VenueOf(w)]
           t == th[w]
<1>1. t.pc = "get" /\ t.pc \notin Held \cup {"idle"} /\ ~Loading(w)
  BY DEF GetVenue, Held, Loading
<1>2. /\ t \in Thread /\ Knows(w)
      /\ o # Nil => o \in 1 .. made /\ obj[o].venue = VenueOf(w)
  BY <1>1, Acting
<1>3. Quiet /\ UNCHANGED <<asked, queue>>
  BY DEF GetVenue, Quiet, tables, worker
<1>4. CASE Goto(w, t, "query") /\ UNCHANGED req
  <2>1. t.obj = Nil
    BY <1>1, <1>2 DEF Knows, Held
  <2>2. "query" \in Pcs \ (Held \cup {"idle"})
    BY DEF Pcs, Held
  <2> QED
    BY <1>1, <1>2, <1>3, <1>4, <2>1, <2>2, GotoStep
<1>5. CASE o # Nil /\ Goto(w, [t EXCEPT !.obj = o], "dispatch") /\ UNCHANGED req
  <2> DEFINE s == [t EXCEPT !.obj = o]
  <2>0. made \in Nat
    BY DEF Before, LockInv
  <2>1. s \in Thread /\ s.id = t.id /\ s.obj = o
    BY <1>2, <1>5, <2>0 DEF Thread
  <2>2. "dispatch" \in Pcs \ (Held \cup {"idle"})
    BY DEF Pcs, Held
  <2>3. Goto(w, s, "dispatch")
    BY <1>5
  <2> HIDE DEF s
  <2> QED
    BY <1>1, <1>2, <1>3, <1>5, <2>1, <2>2, <2>3, GotoStep
<1>6. CASE Reply(w, "zero")
  BY <1>1, <1>3, <1>6, ReplyStep DEF Answers
<1> QED
  BY <1>4, <1>5, <1>6 DEF GetVenue

LEMMA QueryVenueStep ==
  ASSUME Before, NEW w \in Outers, QueryVenue(w)
  PROVE  VenueInv'
<1>1. th[w].pc = "query" /\ th[w].pc \notin Held \cup {"idle"}
  BY DEF QueryVenue, Held
<1>2. th[w] \in Thread /\ th[w].obj = Nil
  BY <1>1, Acting DEF Knows
<1>3. Quiet /\ UNCHANGED <<asked, queue>>
  BY DEF QueryVenue, Quiet, tables, worker
<1>4. CASE Reply(w, "error")
  BY <1>1, <1>3, <1>4, ReplyStep DEF Answers
<1>5. CASE VenueOf(w) \notin over /\ Goto(w, th[w], "lock") /\ UNCHANGED req
  <2>1. "lock" \in Pcs \ (Held \cup {"idle"})
    BY DEF Pcs, Held
  <2> QED
    BY <1>1, <1>2, <1>3, <1>5, <2>1, GotoStep
<1> QED
  BY <1>4, <1>5 DEF QueryVenue

LEMMA LockLoadingStep ==
  ASSUME Before, NEW w \in Outers, LockLoading(w)
  PROVE  VenueInv'
<1>1. th[w].pc = "lock" /\ th[w].pc \notin Held \cup {"idle"} /\ Loading(w)
  BY DEF LockLoading, Held, Loading
<1>2. th[w] \in Thread /\ th[w].obj = Nil
  BY <1>1, Acting DEF Knows
<1>3. Quiet /\ UNCHANGED <<asked, queue>>
  BY DEF LockLoading, Quiet, worker
<1>4. {"lock", "recheck"} \subseteq Pcs \ (Held \cup {"idle"})
  BY DEF Pcs, Held
<1>5. CASE Goto(w, th[w], "recheck") /\ UNCHANGED req
  BY <1>1, <1>2, <1>3, <1>4, <1>5, GotoStep
<1>6. CASE Goto(w, [th[w] EXCEPT !.waits = @ + 1], "lock") /\ UNCHANGED req
  <2> DEFINE s == [th[w] EXCEPT !.waits = @ + 1]
  <2>1. s \in Thread /\ s.id = th[w].id /\ s.obj = th[w].obj
    BY <1>2 DEF Thread
  <2>2. Goto(w, s, "lock")
    BY <1>6
  <2> HIDE DEF s
  <2> QED
    BY <1>1, <1>2, <1>3, <1>4, <1>6, <2>1, <2>2, GotoStep
<1>7. CASE Reply(w, "zero")
  BY <1>1, <1>3, <1>7, ReplyStep DEF Answers
<1> QED
  BY <1>5, <1>6, <1>7 DEF LockLoading

LEMMA RecheckStep ==
  ASSUME Before, NEW w \in Outers, Recheck(w)
  PROVE  VenueInv'
<1> DEFINE o == mgr[VenueOf(w)]
           t == th[w]
           s == [t EXCEPT !.obj = o]
           pc == IF o = Nil THEN "load" ELSE "unlock"
<1>1. t.pc = "recheck" /\ t.pc \notin Held \cup {"idle"} /\ Loading(w)
  BY DEF Recheck, Held, Loading
<1>2. t \in Thread /\ (o # Nil => o \in 1 .. made /\ obj[o].venue = VenueOf(w))
  BY <1>1, Acting
<1>3. Quiet /\ UNCHANGED <<req, asked, queue>>
  BY DEF Recheck, Quiet, tables, worker
<1>4. pc \in Pcs \ (Held \cup {"idle"}) /\ pc # "dispatch" /\ (pc # "unlock" => o = Nil)
      /\ (pc = "load" => o = Nil)
  BY DEF Pcs, Held
<1>5. made \in Nat
  BY DEF Before, LockInv
<1>6. s \in Thread /\ s.id = t.id /\ s.obj = o
  BY <1>2, <1>5 DEF Thread
<1>7. Goto(w, s, pc)
  BY DEF Recheck
<1> HIDE DEF s, pc
<1> QED
  BY <1>1, <1>2, <1>3, <1>4, <1>6, <1>7, GotoStep

LEMMA UnlockLoadingStep ==
  ASSUME Before, NEW w \in Outers, UnlockLoading(w)
  PROVE  VenueInv'
<1>1. th[w].pc = "unlock" /\ th[w].pc \notin Held \cup {"idle"} /\ Loading(w)
  BY DEF UnlockLoading, Held, Loading
<1>2. th[w] \in Thread /\ Knows(w)
  BY <1>1, Acting
<1>3. Quiet /\ UNCHANGED <<asked, queue>>
  BY DEF UnlockLoading, Quiet, worker
<1>4. CASE th[w].obj = Nil /\ Reply(w, "error")
  BY <1>1, <1>3, <1>4, ReplyStep DEF Answers
<1>5. CASE th[w].obj # Nil /\ Goto(w, th[w], "dispatch") /\ UNCHANGED req
  <2>1. "dispatch" \in Pcs \ (Held \cup {"idle"})
    BY DEF Pcs, Held
  <2>2. th[w].obj \in 1 .. made /\ obj[th[w].obj].venue = VenueOf(w)
    BY <1>2, <1>5 DEF Knows
  <2> QED
    BY <1>1, <1>2, <1>3, <1>5, <2>1, <2>2, GotoStep
<1> QED
  BY <1>4, <1>5 DEF UnlockLoading

LEMMA DispatchStep ==
  ASSUME Before, NEW w \in Outers, Dispatch(w)
  PROVE  VenueInv'
<1>1. th[w].pc = "dispatch" /\ th[w].pc \notin Held /\ th[w].pc # "idle"
  BY DEF Dispatch, Held
<1>2. Quiet /\ UNCHANGED <<req, asked>> /\ th' = [th EXCEPT ![w] = Idle]
  BY DEF Dispatch, Quiet, tables, worker
<1>3. Extends /\ NoDrop /\ Grows
  BY <1>2, SameExtends, SameNoDrop DEF Before, Grows, Quiet, VenueInv, Typed
<1>4. /\ th[w].id \in 1 .. asked /\ th[w].obj \in 1 .. made
      /\ obj[th[w].obj].venue = req[th[w].id].venue
  BY <1>1, Acting DEF Knows, VenueOf
<1>5. \E h : queue' = [queue EXCEPT ![h] = Append(@, [id |-> th[w].id, obj |-> th[w].obj])]
  BY DEF Dispatch
<1>6. queue' \in [Handlers -> Seq(Fit')]
  BY <1>2, <1>3, <1>4, <1>5, QueueAppended DEF Quiet
<1> QED
  BY <1>1, <1>2, <1>3, <1>6, IdleStep

-----------------------------------------------------------------------------
(* The requests *)

\* The threads are where they were.
LEMMA SameThreads ==
  ASSUME Before, Extends, th' = th
  PROVE  /\ \A u \in Outers : Loading(u)' => Loading(u)
         /\ \A u \in Outers : th[u].pc # "idle" => VenueOf(u)' = VenueOf(u)
<1>1. \A u \in Outers : th[u].pc # "idle" => th[u].id \in 1 .. asked
  BY DEF Before, LockInv
<1>2. \A u \in Outers : th[u].pc # "idle" => VenueOf(u)' = VenueOf(u)
  BY <1>1 DEF VenueOf, Extends
<1> QED
  BY <1>2 DEF Loading

LEMMA AskStep ==
  ASSUME Before, Extends, Quiet, th' = th
  PROVE  Structure'
<1>1. /\ \A u \in Outers : Loading(u)' => Loading(u)
      /\ \A u \in Outers : th[u].pc # "idle" => VenueOf(u)' = VenueOf(u)
  BY SameThreads
<1>2. ThreadInv'
  <2> SUFFICES ASSUME NEW u \in Outers
               PROVE  Knows(u)'
    BY DEF ThreadInv
  <2>1. Knows(u)
    BY DEF Before, VenueInv, ThreadInv
  <2>2. CASE th[u].pc = "idle"
    BY <2>1, <2>2 DEF Knows, Held
  <2>3. CASE th[u].pc # "idle"
    <3>1. VenueOf(u)' = VenueOf(u)
      BY <1>1, <2>3
    <3> QED
      BY <2>1, <3>1 DEF Knows, Quiet
  <2> QED
    BY <2>2, <2>3
<1>3. TableInv' /\ SweepInv' /\ NoReopen' /\ CurrentVenue'
  BY DEF Before, VenueInv, TableInv, SweepInv, NoReopen, CurrentVenue, Quiet
<1>4. \A u \in Outers : Loading(u)' => Loading(u) /\ VenueOf(u)' = VenueOf(u)
  BY <1>1 DEF Loading
<1>5. ObjectInv'
  BY <1>4 DEF Before, VenueInv, ObjectInv, Quiet
<1> QED
  BY <1>2, <1>3, <1>5 DEF Structure

LEMMA EnterVenueStep ==
  ASSUME Before, NEW w \in Outers, NEW p \in Players, NEW v \in Venues,
         NEW b \in BOOLEAN, EnterVenue(w, p, v, b)
  PROVE  VenueInv'
<1>1. Quiet /\ queue' = queue /\ th[w].pc = "idle"
  BY DEF EnterVenue, Quiet, tables, worker
<1>2. Grows
  BY <1>1 DEF Grows, Quiet, Before, VenueInv, Typed
<1>3. CASE NewRequest("enter", p, v, b, "asked")
           /\ Goto(w, [Idle EXCEPT !.id = asked + 1], "get")
  <2> DEFINE t == [[Idle EXCEPT !.id = asked + 1] EXCEPT !.pc = "get"]
  <2>1. Extends /\ asked' = asked + 1 /\ NoDrop
    BY <1>3, NewRequestExtends, NewRequestNoDrop DEF Answers, Before
  <2>2. asked \in Nat /\ asked + 1 \in Requests
    BY <1>3, VenueAssumption DEF Before, LockInv, NewRequest, Requests
  <2>3. t \in Thread /\ t.pc = "get" /\ t.id = asked + 1 /\ t.obj = Nil
    BY <2>2 DEF Idle, Thread, Pcs
  <2>4. th' = [th EXCEPT ![w] = t]
    BY <1>3 DEF Goto
  <2> HIDE DEF t
  <2>5. th'[w] = t
    BY <2>1, <2>3, <2>4, Others
  <2>6. Knows(w)' /\ ~Loading(w)'
    BY <2>3, <2>5 DEF Knows, Held, Loading
  <2>7. t.id \in 1 .. asked'
    BY <2>1, <2>2, <2>3
  <2>8. th[w].pc \notin Held /\ t.pc \notin Held
    BY <1>1, <2>3 DEF Held
  <2>9. Structure'
    BY <1>1, <2>1, <2>3, <2>4, <2>6, <2>7, <2>8, ThreadStep DEF Quiet
  <2> QED
    BY <1>1, <1>2, <2>1, <2>9, QueueKept, QuietKeeps
<1>4. CASE NewRequest("enter", p, v, b, "error") /\ UNCHANGED th
  <2>1. Extends /\ NoDrop
    BY <1>4, NewRequestExtends, NewRequestNoDrop DEF Answers, Before
  <2> QED
    BY <1>1, <1>2, <1>4, <2>1, AskStep, QueueKept, QuietKeeps
<1> QED
  BY <1>3, <1>4 DEF EnterVenue

\* onLeaveVenue and handleMessage: the object they dispatch to is of the venue.
LEMMA LeaveStep ==
  ASSUME Before, NEW p \in Players, NEW v \in Venues,
         LeaveVenue(p, v) \/ HandleMessage(p, v)
  PROVE  VenueInv'
<1>1. Quiet /\ th' = th
  BY DEF LeaveVenue, HandleMessage, Quiet, tables, worker
<1>2. Grows
  BY <1>1 DEF Grows, Quiet, Before, VenueInv, Typed
<1>3. PICK k \in {"leave", "command"}, o \in {mgr[v], Nil} : LeaveOrReply(k, p, v, o)
  BY DEF LeaveVenue, HandleMessage
<1>4. PICK a \in {"asked", "zero"} : NewRequest(k, p, v, TRUE, a)
  BY <1>3 DEF LeaveOrReply
<1>5. Extends /\ NoDrop /\ asked' = asked + 1 /\ asked \in Nat
  BY <1>4, NewRequestExtends, NewRequestNoDrop DEF Answers, Before, LockInv
<1>6. queue' \in [Handlers -> Seq(Fit')]
  <2>1. CASE o = Nil
    BY <1>2, <1>3, <1>5, <2>1, QueueKept DEF LeaveOrReply
  <2>2. CASE o # Nil
    <3>1. o \in 1 .. made /\ obj[o].venue = v
      BY <2>2 DEF Before, VenueInv, Typed, TableInv
    <3>2. asked + 1 \in 1 .. asked' /\ req'[asked + 1].venue = v
      BY <1>4, <1>5 DEF NewRequest
    <3>3. queue' = [queue EXCEPT ![obj[o].handler] = Append(@, [id |-> asked + 1, obj |-> o])]
      BY <1>3, <2>2 DEF LeaveOrReply
    <3>4. o \in 1 .. made' /\ obj'[o].venue = req'[asked + 1].venue
      BY <1>1, <3>1, <3>2 DEF Quiet
    <3> QED
      BY <1>2, <1>5, <3>2, <3>3, <3>4, QueueAppended
  <2> QED
    BY <2>1, <2>2
<1> QED
  BY <1>1, <1>5, <1>6, AskStep, QuietKeeps

-----------------------------------------------------------------------------
(* Loading a venue *)

\* No other thread between lockLoading and unlockLoading is at the same venue.
LEMMA Alone ==
  ASSUME Before, NEW w \in Outers, Locked(w), NEW u \in Outers \ {w}, Locked(u)
  PROVE  VenueOf(u) # VenueOf(w) /\ (th[u].pc \in Held => th[u].obj # th[w].obj)
<1>1. VenueOf(u) # VenueOf(w)
  BY DEF Before, LockInv, LockHeld
<1>2. Knows(u) /\ Knows(w)
  BY DEF Before, VenueInv, ThreadInv
<1> QED
  BY <1>1, <1>2 DEF Knows

\* A venue that is about to be loaded has no object that is still in use, and if
\* its last gameOver was recorded it has none at all.
LEMMA NothingThere ==
  ASSUME Before, NEW w \in Outers, th[w].pc = "load", NEW o \in 1 .. made,
         obj[o].venue = VenueOf(w)
  PROVE  obj[o].ripe /\ obj[o].venue \in unsaved
<1>1. Locked(w) /\ Loading(w) /\ mgr[VenueOf(w)] = Nil
  BY DEF Locked, Loading, Before, VenueInv, ThreadInv, Knows
<1>2. obj[o].ripe
  <2> SUFFICES ASSUME ~obj[o].ripe
               PROVE  FALSE
    OBVIOUS
  <2>1. o # Nil
    BY VenueAssumption DEF Before, LockInv
  <2>2. PICK u \in Outers : th[u].pc \in Held /\ th[u].obj = o
    BY <1>1, <2>1 DEF Before, VenueInv, ObjectInv
  <2>3. Locked(u) /\ u # w
    BY <2>2 DEF Held, Locked
  <2>4. VenueOf(u) = VenueOf(w)
    BY <2>1, <2>2 DEF Before, VenueInv, ThreadInv, Knows
  <2> QED
    BY <1>1, <2>3, <2>4, Alone
<1> QED
  BY <1>1, <1>2 DEF Before, VenueInv, ObjectInv

LEMMA LoadVenueStep ==
  ASSUME Before, NEW w \in Outers, LoadVenue(w)
  PROVE  VenueInv'
<1> DEFINE new == made + 1
           v == VenueOf(w)
<1>1. th[w].pc = "load" /\ th[w].pc \notin Held \cup {"idle"} /\ Loading(w) /\ Locked(w)
  BY DEF LoadVenue, Held, Loading, Locked
<1>2. th[w] \in Thread /\ Knows(w) /\ v \in Venues /\ th[w].id \in 1 .. asked
  BY <1>1, Acting
<1>3. UNCHANGED <<over, mgr, assigned, inner, list, stale, at, sweep, half, unsaved, queue,
                  req, asked>>
  BY DEF LoadVenue, tables, worker
<1>4. CASE Goto(w, th[w], "unlock") /\ UNCHANGED <<obj, made>>
  <2>1. "unlock" \in Pcs \ (Held \cup {"idle"})
    BY DEF Pcs, Held
  <2>2. th[w].obj = Nil
    BY <1>1, <1>2 DEF Knows, Held
  <2> QED
    BY <1>1, <1>2, <1>3, <1>4, <2>1, <2>2, GotoStep DEF Quiet
<1>5. CASE /\ made' = new
           /\ obj' = [o \in 1 .. new |->
                        IF o = new
                        THEN [venue |-> VenueOf(w), handler |-> Nil, open |-> TRUE,
                              ripe |-> FALSE, members |-> {}]
                        ELSE obj[o]]
           /\ Goto(w, [th[w] EXCEPT !.obj = new], "distribute")
  <2> DEFINE t == [[th[w] EXCEPT !.obj = new] EXCEPT !.pc = "distribute"]
             r == [venue |-> v, handler |-> Nil, open |-> TRUE, ripe |-> FALSE,
                   members |-> {}]
  <2>1. made \in Nat /\ new \in Nat /\ new # Nil /\ new \notin 1 .. made
        /\ 1 .. made' = (1 .. made) \cup {new}
    BY <1>5, VenueAssumption DEF Before, LockInv
  <2>2. t \in Thread /\ t.pc = "distribute" /\ t.id = th[w].id /\ t.obj = new
    BY <1>2, <2>1 DEF Thread, Pcs
  <2>3. th' = [th EXCEPT ![w] = t]
    BY <1>5 DEF Goto
  <2>4. r \in Object /\ r.venue = v /\ r.handler = Nil /\ r.open /\ ~r.ripe
    BY <1>2 DEF Object
  <2>5. obj' = [o \in 1 .. made' |-> IF o = new THEN r ELSE obj[o]]
    BY <1>5
  <2> HIDE DEF t, r
  <2>6. obj'[new] = r /\ \A o \in 1 .. made : obj'[o] = obj[o]
    BY <2>1, <2>5
  <2>7. obj' \in [1 .. made' -> Object]
    BY <2>1, <2>4, <2>5 DEF Before, VenueInv, Typed
  <2>8. Extends /\ NoDrop /\ Grows
    BY <1>3, <1>5, <2>1, <2>6, SameExtends, SameNoDrop DEF Before, Grows
  <2>9. /\ th'[w] = t
        /\ \A u \in Outers \ {w} :
             /\ th'[u] = th[u] /\ (Loading(u)' <=> Loading(u))
             /\ th[u].pc # "idle" => VenueOf(u)' = VenueOf(u)
    BY <2>2, <2>3, <2>8, Others
  <2>10. VenueOf(w)' = v
    BY <1>3, <2>2, <2>9 DEF VenueOf
  <2>11. \A x \in Venues : mgr[x] # Nil => mgr[x] \in 1 .. made
    BY DEF Before, VenueInv, Typed
  <2>12. \A h \in Handlers, x \in Venues : inner[h][x] # Nil => inner[h][x] \in 1 .. made
    BY DEF Before, VenueInv, Typed
  <2>13. \A h \in Handlers : sweep[h] \subseteq 1 .. made /\ (half[h] # Nil => half[h] \in 1 .. made)
    BY DEF Before, VenueInv, Typed
  <2>14. Typed'
    <3>1. queue' \in [Handlers -> Seq(Fit')]
      BY <1>3, <2>8, QueueKept
    <3>2. /\ mgr' \in [Venues -> 1 .. made' \cup {Nil}]
          /\ inner' \in [Handlers -> [Venues -> 1 .. made' \cup {Nil}]]
      BY <1>3, <2>1, <2>11, <2>12 DEF Before, VenueInv, Typed
    <3>3. /\ list' \in [Handlers -> SUBSET (1 .. made')]
          /\ sweep' \in [Handlers -> SUBSET (1 .. made')]
          /\ half' \in [Handlers -> 1 .. made' \cup {Nil}]
      BY <1>3, <2>1 DEF Before, VenueInv, Typed
    <3> QED
      BY <1>3, <2>7, <2>8, <3>1, <3>2, <3>3 DEF Before, VenueInv, Typed, Grows
  <2>15. ThreadInv'
    <3> SUFFICES ASSUME NEW u \in Outers
                 PROVE  Knows(u)'
      BY DEF ThreadInv
    <3>1. CASE u = w
      <4>1. mgr[v] = Nil
        BY <1>1, <1>2 DEF Knows
      <4> QED
        BY <1>3, <2>1, <2>2, <2>4, <2>6, <2>9, <2>10, <3>1, <4>1 DEF Knows, Held
    <3>2. CASE u # w
      <4>1. Knows(u) /\ th'[u] = th[u] /\ (th[u].pc # "idle" => VenueOf(u)' = VenueOf(u))
        BY <2>9, <3>2 DEF Before, VenueInv, ThreadInv
      <4>2. th[u].obj # Nil => th[u].pc # "idle"
        BY <4>1 DEF Knows, Held
      <4> QED
        BY <1>3, <2>1, <2>6, <4>1, <4>2 DEF Knows, Held
    <3> QED
      BY <3>1, <3>2
  <2>16. TableInv'
    <3>1. \A u \in Outers : th[u].pc = "publish" => th'[u] = th[u]
      BY <1>1, <2>9
    <3> QED
      BY <1>3, <2>6, <2>11, <2>12, <3>1 DEF Before, VenueInv, TableInv
  <2>17. SweepInv'
    BY <1>3, <2>6, <2>13 DEF Before, VenueInv, SweepInv
  <2>18. ObjectInv'
    <3>1. ASSUME NEW o \in 1 .. made
          PROVE  /\ obj[o].ripe => \A u \in Outers : th'[u].pc \in Held => th'[u].obj # o
                 /\ ~obj[o].ripe => \/ mgr[obj[o].venue] = o
                                    \/ \E u \in Outers : th'[u].pc \in Held /\ th'[u].obj = o
      <4>1. \A u \in Outers : th[u].pc \in Held => th'[u] = th[u]
        BY <1>1, <2>9
      <4>2. \A u \in Outers : th'[u].pc \in Held => u = w \/ th'[u] = th[u]
        BY <2>9
      <4> QED
        BY <2>1, <2>2, <2>9, <4>1, <4>2 DEF Before, VenueInv, ObjectInv
    <3>2. \A u \in Outers : Loading(u)' => Loading(u) /\ VenueOf(u)' = VenueOf(u)
      BY <1>1, <2>9, <2>10 DEF Loading
    <3>3. th'[w].pc \in Held /\ th'[w].obj = new
      BY <2>2, <2>9 DEF Held
    <3> QED
      BY <1>3, <2>1, <2>4, <2>6, <3>1, <3>2, <3>3 DEF Before, VenueInv, ObjectInv
  <2>19. NoReopen'
    <3>1. \A o \in 1 .. made : obj[o].venue = v => obj[o].venue \in unsaved
      BY <1>1, NothingThere
    <3> QED
      BY <1>3, <2>1, <2>4, <2>6, <3>1 DEF Before, VenueInv, NoReopen
  <2>20. CurrentVenue'
    BY <1>3, <2>1, <2>6 DEF Before, VenueInv, CurrentVenue
  <2>21. DroppedWhenOver'
    BY <2>6, <2>7, <2>8, DroppedKept
  <2> QED
    BY <2>14, <2>15, <2>16, <2>17, <2>18, <2>19, <2>20, <2>21 DEF VenueInv
<1> QED
  BY <1>4, <1>5 DEF LoadVenue

\* The handler a venue has is never changed, and nothing depends on one it has not.
LEMMA DistributeHandlerStep ==
  ASSUME Before, NEW w \in Outers, DistributeHandler(w)
  PROVE  VenueInv'
<1> DEFINE v == VenueOf(w)
<1>1. th[w].pc = "distribute" /\ th[w].pc # "idle" /\ Locked(w) /\ Loading(w)
  BY DEF DistributeHandler, Locked, Loading
<1>2. th[w] \in Thread /\ Knows(w) /\ v \in Venues /\ th[w].id \in 1 .. asked
  BY <1>1, Acting
<1>3. UNCHANGED <<over, mgr, inner, list, stale, at, sweep, half, unsaved, queue, req, asked,
                  obj, made>>
  BY DEF DistributeHandler, worker
<1>4. PICK h \in Handlers : /\ assigned[v] = Nil \/ h = assigned[v]
                            /\ assigned' = [assigned EXCEPT ![v] = h]
                            /\ Goto(w, [th[w] EXCEPT !.handler = h], "insert")
  BY DEF DistributeHandler
<1> DEFINE t == [[th[w] EXCEPT !.handler = h] EXCEPT !.pc = "insert"]
<1>5. /\ t \in Thread /\ t.pc = "insert" /\ t.id = th[w].id /\ t.obj = th[w].obj
      /\ t.handler = h
  BY <1>2 DEF Thread, Pcs
<1>6. th' = [th EXCEPT ![w] = t]
  BY <1>4 DEF Goto
<1> HIDE DEF t
<1>7. Extends /\ NoDrop /\ Grows
  BY <1>3, SameExtends, SameNoDrop DEF Before, Grows, VenueInv, Typed
<1>8. /\ th'[w] = t
      /\ \A u \in Outers \ {w} :
           /\ th'[u] = th[u] /\ (Loading(u)' <=> Loading(u))
           /\ th[u].pc # "idle" => VenueOf(u)' = VenueOf(u)
  BY <1>5, <1>6, <1>7, Others
<1>9. VenueOf(w)' = v /\ h # Nil
  BY <1>3, <1>5, <1>8, VenueAssumption DEF VenueOf
<1>10. /\ assigned'[v] = h /\ \A x \in Venues : x # v => assigned'[x] = assigned[x]
       /\ \A x \in Venues : assigned[x] # Nil => assigned'[x] = assigned[x]
       /\ assigned' \in [Venues -> Handlers \cup {Nil}]
  BY <1>2, <1>4 DEF Before, VenueInv, Typed
<1>11. Typed' /\ DroppedWhenOver' /\ NoReopen' /\ CurrentVenue'
  <2>1. queue' \in [Handlers -> Seq(Fit')]
    BY <1>3, <1>7, QueueKept
  <2>2. DroppedWhenOver'
    BY <1>3, <1>7, DroppedKept DEF Before, VenueInv, Typed
  <2> QED
    BY <1>3, <1>10, <2>1, <2>2 DEF Before, VenueInv, Typed, NoReopen, CurrentVenue
<1>12. ThreadInv'
  <2> SUFFICES ASSUME NEW u \in Outers
               PROVE  Knows(u)'
    BY DEF ThreadInv
  <2>1. CASE u = w
    BY <1>1, <1>2, <1>3, <1>5, <1>8, <1>9, <1>10, <2>1 DEF Knows, Held
  <2>2. CASE u # w
    <3>1. Knows(u) /\ th'[u] = th[u] /\ (th[u].pc # "idle" => VenueOf(u)' = VenueOf(u))
      BY <1>8, <2>2 DEF Before, VenueInv, ThreadInv
    <3>2. th[u].obj # Nil => th[u].pc # "idle"
      BY <3>1 DEF Knows, Held
    <3>3. th[u].pc \in {"insert", "publish"} => VenueOf(u) # v /\ VenueOf(u) \in Venues
      BY <1>1, <2>2, Alone, Busy DEF Locked, Before
    <3> QED
      BY <1>3, <1>10, <3>1, <3>2, <3>3 DEF Knows, Held
  <2> QED
    BY <2>1, <2>2
<1>13. TableInv'
  <2>1. \A u \in Outers : th[u].pc = "publish" => th'[u] = th[u]
    BY <1>1, <1>8
  <2>2. \A g \in Handlers, x \in Venues : inner[g][x] # Nil => assigned'[x] = assigned[x]
    BY <1>10, VenueAssumption DEF Before, VenueInv, TableInv
  <2> QED
    BY <1>3, <1>10, <2>1, <2>2 DEF Before, VenueInv, TableInv
<1>14. SweepInv'
  BY <1>3 DEF Before, VenueInv, SweepInv
<1>15. ObjectInv'
  <2>1. \A u \in Outers : th'[u].obj = th[u].obj /\ (th[u].pc \in Held <=> th'[u].pc \in Held)
    BY <1>1, <1>5, <1>8 DEF Held
  <2>2. \A u \in Outers : Loading(u)' => Loading(u) /\ VenueOf(u)' = VenueOf(u)
    BY <1>1, <1>8, <1>9 DEF Loading
  <2> QED
    BY <1>3, <2>1, <2>2 DEF Before, VenueInv, ObjectInv
<1> QED
  BY <1>11, <1>12, <1>13, <1>14, <1>15 DEF VenueInv

\* The entry of the venue in the handler's table is free: what was there before is
\* in neither table any more, and nobody else is putting anything there.
LEMMA EntryFree ==
  ASSUME Before, NEW w \in Outers, th[w].pc = "insert", NEW h \in Handlers
  PROVE  inner[h][VenueOf(w)] = Nil
<1>1. Locked(w) /\ mgr[VenueOf(w)] = Nil
  BY DEF Locked, Before, VenueInv, ThreadInv, Knows, Held
<1>2. VenueOf(w) \in Venues
  BY Busy DEF Before
<1> SUFFICES ASSUME inner[h][VenueOf(w)] # Nil
             PROVE  FALSE
  OBVIOUS
<1>3. PICK u \in Outers : th[u].pc = "publish" /\ th[u].obj = inner[h][VenueOf(w)]
  BY <1>1, <1>2 DEF Before, VenueInv, TableInv
<1>4. obj[th[u].obj].venue = VenueOf(w)
  BY <1>2, <1>3 DEF Before, VenueInv, TableInv
<1>5. VenueOf(u) = VenueOf(w) /\ Locked(u) /\ u # w
  BY <1>3, <1>4 DEF Before, VenueInv, ThreadInv, Knows, Locked
<1> QED
  BY <1>1, <1>5, Alone

LEMMA AddInnerStep ==
  ASSUME Before, NEW w \in Outers, AddInner(w)
  PROVE  VenueInv'
<1> DEFINE v == VenueOf(w)
           h == th[w].handler
           o == th[w].obj
<1>1. th[w].pc = "insert" /\ th[w].pc # "idle" /\ Locked(w) /\ Loading(w)
  BY DEF AddInner, Locked, Loading
<1>2. th[w] \in Thread /\ Knows(w) /\ v \in Venues /\ th[w].id \in 1 .. asked
  BY <1>1, Acting
<1>3. UNCHANGED <<over, mgr, assigned, list, at, sweep, half, unsaved, queue, req, asked, made>>
  BY DEF AddInner
<1>4. /\ h \in Handlers /\ assigned[v] = h /\ mgr[v] = Nil
      /\ o # Nil /\ o \in 1 .. made /\ obj[o].venue = v /\ obj[o].handler = Nil
  BY <1>1, <1>2 DEF Knows, Thread, Held
<1>5. inner[h][v] = Nil
  BY <1>1, <1>4, EntryFree
<1>6. /\ inner' \in [Handlers -> [Venues -> 1 .. made \cup {Nil}]]
      /\ inner'[h][v] = o
      /\ \A g \in Handlers, x \in Venues : g # h \/ x # v => inner'[g][x] = inner[g][x]
  <2>1. inner \in [Handlers -> [Venues -> 1 .. made \cup {Nil}]]
    BY DEF Before, VenueInv, Typed
  <2>2. inner' = [inner EXCEPT ![h] = [inner[h] EXCEPT ![v] = o]]
    BY <1>5 DEF AddInner
  <2> QED
    BY <1>2, <1>4, <2>1, <2>2
<1>7. stale' \in [Handlers -> BOOLEAN] /\ stale'[h] /\ \A g \in Handlers : stale[g] => stale'[g]
  BY <1>4 DEF AddInner, Before, VenueInv, Typed
<1>8. /\ obj' \in [1 .. made -> Object] /\ obj'[o].handler = h
      /\ \A q \in 1 .. made :
           /\ obj'[q].venue = obj[q].venue /\ obj'[q].open = obj[q].open
           /\ obj'[q].ripe = obj[q].ripe /\ obj'[q].members = obj[q].members
           /\ q # o => obj'[q].handler = obj[q].handler
  <2>1. obj \in [1 .. made -> Object] /\ obj' = [obj EXCEPT ![o].handler = h]
    BY DEF Before, VenueInv, Typed, AddInner
  <2>2. \A q \in 1 .. made : obj'[q] = IF q = o THEN [obj[q] EXCEPT !.handler = h] ELSE obj[q]
    BY <2>1
  <2>3. \A q \in 1 .. made : obj[q] \in Object
    BY <2>1
  <2> DEFINE r == [obj[o] EXCEPT !.handler = h]
  <2>4. /\ r \in Object /\ r.handler = h /\ r.venue = obj[o].venue
        /\ r.open = obj[o].open /\ r.ripe = obj[o].ripe /\ r.members = obj[o].members
    BY <1>4, <2>3 DEF Object
  <2>5. obj' = [obj EXCEPT ![o] = r] /\ obj'[o] = r /\ \A q \in 1 .. made : q # o => obj'[q] = obj[q]
    BY <1>4, <2>1, <2>2
  <2> HIDE DEF r
  <2> QED
    BY <2>1, <2>4, <2>5
<1> DEFINE t == [th[w] EXCEPT !.pc = "publish"]
<1>9. /\ t \in Thread /\ t.pc = "publish" /\ t.id = th[w].id /\ t.obj = o
      /\ t.handler = h
  BY <1>2 DEF Thread, Pcs
<1>10. th' = [th EXCEPT ![w] = t]
  BY DEF Goto, AddInner
<1> HIDE DEF t
<1>11. Extends /\ NoDrop /\ Grows
  BY <1>3, <1>8, SameExtends, SameNoDrop DEF Before, Grows, LockInv
<1>12. /\ th'[w] = t
       /\ \A u \in Outers \ {w} :
            /\ th'[u] = th[u] /\ (Loading(u)' <=> Loading(u))
            /\ th[u].pc # "idle" => VenueOf(u)' = VenueOf(u)
  BY <1>9, <1>10, <1>11, Others
<1>13. VenueOf(w)' = v /\ h # Nil
  BY <1>3, <1>4, <1>9, <1>12, VenueAssumption DEF VenueOf
<1> HIDE DEF v, h, o
<1>14. Typed' /\ DroppedWhenOver' /\ NoReopen' /\ CurrentVenue'
  <2>1. queue' \in [Handlers -> Seq(Fit')]
    BY <1>3, <1>11, QueueKept
  <2>2. DroppedWhenOver'
    BY <1>3, <1>8, <1>11, DroppedKept
  <2>3. NoReopen' /\ CurrentVenue'
    BY <1>3, <1>8 DEF Before, VenueInv, NoReopen, CurrentVenue
  <2> QED
    BY <1>3, <1>6, <1>7, <1>8, <2>1, <2>2, <2>3 DEF Before, VenueInv, Typed
<1>15. ThreadInv'
  <2> SUFFICES ASSUME NEW u \in Outers
               PROVE  Knows(u)'
    BY DEF ThreadInv
  <2>1. CASE u = w
    BY <1>1, <1>3, <1>4, <1>6, <1>8, <1>9, <1>12, <1>13, <2>1 DEF Knows, Held
  <2>2. CASE u # w
    <3>1. Knows(u) /\ th'[u] = th[u] /\ (th[u].pc # "idle" => VenueOf(u)' = VenueOf(u))
      BY <1>12, <2>2 DEF Before, VenueInv, ThreadInv
    <3>2. th[u].obj # Nil => th[u].pc # "idle"
      BY <3>1 DEF Knows, Held
    <3>3. th[u].pc \in Held => VenueOf(u) # v /\ VenueOf(u) \in Venues /\ th[u].obj # o
      BY <1>1, <2>2, Alone, Busy DEF Locked, Before, Held, v, o
    <3>4. th[u].handler \in Handlers \cup {Nil}
      BY Busy DEF Before, Thread
    <3> QED
      BY <1>3, <1>6, <1>8, <3>1, <3>2, <3>3, <3>4 DEF Knows, Held
  <2> QED
    BY <2>1, <2>2
<1>16. TableInv'
  <2>1. \A u \in Outers : th[u].pc = "publish" => th'[u] = th[u]
    BY <1>1, <1>12
  <2>2. \A x \in Venues : mgr[x] # Nil => mgr[x] \in 1 .. made /\ mgr[x] # o /\ x # v
    BY <1>4, VenueAssumption DEF Before, VenueInv, Typed, TableInv
  <2>3. \A g \in Handlers, x \in Venues : inner[g][x] # Nil => inner[g][x] \in 1 .. made /\ inner[g][x] # o
    BY <1>4, VenueAssumption DEF Before, VenueInv, Typed, TableInv
  <2>4. \A x \in Venues : mgr'[x] # Nil =>
       /\ obj'[mgr'[x]].venue = x
       /\ assigned'[x] # Nil /\ obj'[mgr'[x]].handler = assigned'[x]
       /\ inner'[assigned'[x]][x] = mgr'[x] \/ half'[assigned'[x]] = mgr'[x]
    <3>1. assigned \in [Venues -> Handlers \cup {Nil}]
      BY DEF Before, VenueInv, Typed
    <3> QED
      BY <1>3, <1>6, <1>8, <2>2, <3>1 DEF Before, VenueInv, TableInv
  <2>5. ASSUME NEW g \in Handlers, NEW x \in Venues, inner'[g][x] # Nil
        PROVE  /\ obj'[inner'[g][x]].venue = x
               /\ assigned'[x] = g /\ obj'[inner'[g][x]].handler = g
               /\ \/ mgr'[x] = inner'[g][x]
                  \/ \E u \in Outers : th'[u].pc = "publish" /\ th'[u].obj = inner'[g][x]
    <3>1. CASE g = h /\ x = v
      BY <1>3, <1>4, <1>6, <1>8, <1>9, <1>12, <3>1
    <3>2. CASE g # h \/ x # v
      <4>1. inner'[g][x] = inner[g][x] /\ inner[g][x] # Nil
        BY <1>6, <2>5, <3>2
      <4>2. /\ obj[inner[g][x]].venue = x
            /\ assigned[x] = g /\ obj[inner[g][x]].handler = g
            /\ \/ mgr[x] = inner[g][x]
               \/ \E u \in Outers : th[u].pc = "publish" /\ th[u].obj = inner[g][x]
        BY <4>1 DEF Before, VenueInv, TableInv
      <4>3. obj'[inner[g][x]].venue = x /\ obj'[inner[g][x]].handler = g
        BY <1>8, <2>3, <4>1, <4>2
      <4>4. mgr' = mgr /\ assigned' = assigned
        BY <1>3
      <4> QED
        BY <2>1, <4>1, <4>2, <4>3, <4>4
    <3> QED
      BY <3>1, <3>2
  <2> QED
    BY <2>4, <2>5 DEF TableInv
<1>17. SweepInv'
  <2> SUFFICES ASSUME NEW g \in Handlers
               PROVE  /\ ~stale'[g] => list'[g] = {inner'[g][x] : x \in Venues} \ {Nil}
                      /\ \A q \in sweep'[g] : obj'[q].ripe /\ inner'[g][obj'[q].venue] = q
                      /\ half'[g] # Nil =>
                           /\ obj'[half'[g]].ripe /\ obj'[half'[g]].handler = g
                           /\ mgr'[obj'[half'[g]].venue] = half'[g]
                           /\ inner'[g][obj'[half'[g]].venue] = Nil
    BY DEF SweepInv
  <2>1. \A q \in 1 .. made : obj[q].venue \in Venues
    BY DEF Before, VenueInv, Typed, Object
  <2>2. sweep[g] \subseteq 1 .. made /\ (half[g] # Nil => half[g] \in 1 .. made)
    BY DEF Before, VenueInv, Typed
  <2>3. ~stale'[g] => list'[g] = {inner'[g][x] : x \in Venues} \ {Nil}
    <3>1. ~stale'[g] => ~stale[g] /\ g # h
      BY <1>7
    <3>2. g # h => \A x \in Venues : inner'[g][x] = inner[g][x]
      BY <1>6
    <3> QED
      BY <1>3, <3>1, <3>2 DEF Before, VenueInv, SweepInv
  <2>4. \A q \in sweep'[g] : obj'[q].ripe /\ inner'[g][obj'[q].venue] = q
    <3>1. \A q \in sweep[g] : obj[q].ripe /\ inner[g][obj[q].venue] = q /\ q # Nil
      BY <2>2, VenueAssumption DEF Before, VenueInv, SweepInv, LockInv
    <3>2. \A q \in sweep[g] : inner'[g][obj[q].venue] = inner[g][obj[q].venue]
      BY <1>5, <1>6, <2>1, <2>2, <3>1 DEF h, v
    <3> QED
      BY <1>3, <1>8, <2>2, <3>1, <3>2
  <2>5. half[g] # Nil => mgr[obj[half[g]].venue] # Nil /\ obj[half[g]].handler # Nil
                         /\ obj[half[g]].venue # v /\ half[g] # o
    BY <1>4, VenueAssumption DEF Before, VenueInv, SweepInv
  <2>6. half'[g] # Nil =>
          /\ obj'[half'[g]].ripe /\ obj'[half'[g]].handler = g
          /\ mgr'[obj'[half'[g]].venue] = half'[g]
          /\ inner'[g][obj'[half'[g]].venue] = Nil
    BY <1>3, <1>6, <1>8, <2>1, <2>2, <2>5 DEF Before, VenueInv, SweepInv
  <2> QED
    BY <2>3, <2>4, <2>6
<1>18. ObjectInv'
  <2>1. \A u \in Outers : th'[u].obj = th[u].obj /\ (th[u].pc \in Held <=> th'[u].pc \in Held)
    BY <1>1, <1>9, <1>12 DEF Held, o
  <2>2. \A u \in Outers : Loading(u)' => Loading(u) /\ VenueOf(u)' = VenueOf(u)
    BY <1>1, <1>12, <1>13 DEF Loading, v
  <2> QED
    BY <1>3, <1>8, <2>1, <2>2 DEF Before, VenueInv, ObjectInv
<1> QED
  BY <1>14, <1>15, <1>16, <1>17, <1>18 DEF VenueInv

LEMMA AddVenueStep ==
  ASSUME Before, NEW w \in Outers, AddVenue(w)
  PROVE  VenueInv'
<1> DEFINE v == VenueOf(w)
           h == th[w].handler
           o == th[w].obj
<1>1. th[w].pc = "publish" /\ th[w].pc # "idle" /\ Locked(w) /\ Loading(w)
  BY DEF AddVenue, Locked, Loading
<1>2. th[w] \in Thread /\ Knows(w) /\ v \in Venues /\ th[w].id \in 1 .. asked
  BY <1>1, Acting
<1>3. UNCHANGED <<over, assigned, inner, list, stale, at, sweep, half, unsaved, queue, req,
                  asked, obj, made>>
  BY DEF AddVenue, worker
<1>4. /\ h \in Handlers /\ assigned[v] = h /\ mgr[v] = Nil
      /\ o # Nil /\ o \in 1 .. made /\ obj[o].venue = v /\ obj[o].handler = h
      /\ inner[h][v] = o
  BY <1>1, <1>2 DEF Knows, Thread, Held
<1>5. /\ mgr' \in [Venues -> 1 .. made \cup {Nil}] /\ mgr'[v] = o
      /\ \A x \in Venues : x # v => mgr'[x] = mgr[x]
  <2>1. mgr \in [Venues -> 1 .. made \cup {Nil}]
    BY DEF Before, VenueInv, Typed
  <2>2. mgr' = [mgr EXCEPT ![v] = o]
    BY <1>4 DEF AddVenue
  <2> QED
    BY <1>2, <1>4, <2>1, <2>2
<1> DEFINE t == [th[w] EXCEPT !.pc = "unlock"]
<1>6. /\ t \in Thread /\ t.pc = "unlock" /\ t.id = th[w].id /\ t.obj = o
  BY <1>2 DEF Thread, Pcs
<1>7. th' = [th EXCEPT ![w] = t]
  BY DEF Goto, AddVenue
<1> HIDE DEF t
<1>8. Extends /\ NoDrop /\ Grows
  BY <1>3, SameExtends, SameNoDrop DEF Before, Grows, LockInv
<1>9. /\ th'[w] = t
      /\ \A u \in Outers \ {w} :
           /\ th'[u] = th[u] /\ (Loading(u)' <=> Loading(u))
           /\ th[u].pc # "idle" => VenueOf(u)' = VenueOf(u)
  BY <1>6, <1>7, <1>8, Others
<1>10. VenueOf(w)' = v /\ h # Nil
  BY <1>3, <1>4, <1>6, <1>9, VenueAssumption DEF VenueOf
<1> HIDE DEF v, h, o
<1>11. Typed' /\ DroppedWhenOver' /\ NoReopen' /\ CurrentVenue'
  <2>1. queue' \in [Handlers -> Seq(Fit')]
    BY <1>3, <1>8, QueueKept
  <2>2. DroppedWhenOver'
    BY <1>3, <1>8, DroppedKept DEF Before, VenueInv, Typed
  <2>3. NoReopen' /\ CurrentVenue'
    BY <1>3 DEF Before, VenueInv, NoReopen, CurrentVenue
  <2> QED
    BY <1>3, <1>5, <2>1, <2>2, <2>3 DEF Before, VenueInv, Typed
<1>12. ThreadInv'
  <2> SUFFICES ASSUME NEW u \in Outers
               PROVE  Knows(u)'
    BY DEF ThreadInv
  <2>1. CASE u = w
    BY <1>3, <1>4, <1>6, <1>9, <1>10, <2>1 DEF Knows, Held
  <2>2. CASE u # w
    <3>1. Knows(u) /\ th'[u] = th[u] /\ (th[u].pc # "idle" => VenueOf(u)' = VenueOf(u))
      BY <1>9, <2>2 DEF Before, VenueInv, ThreadInv
    <3>2. th[u].obj # Nil => th[u].pc # "idle"
      BY <3>1 DEF Knows, Held
    <3>3. th[u].pc \in Held \cup {"load"} => VenueOf(u) # v /\ VenueOf(u) \in Venues
      BY <1>1, <2>2, Alone, Busy DEF Locked, Before, Held, v
    <3> QED
      BY <1>3, <1>5, <3>1, <3>2, <3>3 DEF Knows, Held
  <2> QED
    BY <2>1, <2>2
<1>13. TableInv'
  <2>1. \A u \in Outers \ {w} : th'[u] = th[u]
    BY <1>9
  <2>2. \A x \in Venues : mgr'[x] # Nil =>
       /\ obj'[mgr'[x]].venue = x
       /\ assigned'[x] # Nil /\ obj'[mgr'[x]].handler = assigned'[x]
       /\ inner'[assigned'[x]][x] = mgr'[x] \/ half'[assigned'[x]] = mgr'[x]
    BY <1>3, <1>4, <1>5, <1>10 DEF Before, VenueInv, TableInv
  <2>3. ASSUME NEW g \in Handlers, NEW x \in Venues, inner'[g][x] # Nil
        PROVE  /\ obj'[inner'[g][x]].venue = x
               /\ assigned'[x] = g /\ obj'[inner'[g][x]].handler = g
               /\ \/ mgr'[x] = inner'[g][x]
                  \/ \E u \in Outers : th'[u].pc = "publish" /\ th'[u].obj = inner'[g][x]
    <3>1. /\ obj[inner[g][x]].venue = x /\ assigned[x] = g /\ obj[inner[g][x]].handler = g
          /\ \/ mgr[x] = inner[g][x]
             \/ \E u \in Outers : th[u].pc = "publish" /\ th[u].obj = inner[g][x]
      BY <1>3, <2>3 DEF Before, VenueInv, TableInv
    <3>2. CASE x = v
      BY <1>3, <1>4, <1>5, <3>1, <3>2
    <3>3. CASE x # v
      <4>1. inner[g][x] # o
        BY <1>4, <3>1, <3>3
      <4> QED
        BY <1>3, <1>5, <2>1, <3>1, <3>3, <4>1 DEF o
    <3> QED
      BY <3>2, <3>3
  <2> QED
    BY <2>2, <2>3 DEF TableInv
<1>14. SweepInv'
  <2>1. \A q \in 1 .. made : obj[q].venue \in Venues
    BY DEF Before, VenueInv, Typed, Object
  <2>2. \A g \in Handlers : half[g] # Nil => half[g] \in 1 .. made
    BY DEF Before, VenueInv, Typed
  <2>3. \A g \in Handlers : half[g] # Nil => obj[half[g]].venue # v
    BY <1>4 DEF Before, VenueInv, SweepInv
  <2> QED
    BY <1>3, <1>5, <2>1, <2>2, <2>3 DEF Before, VenueInv, SweepInv
<1>15. ObjectInv'
  <2>1. \A u \in Outers : th'[u].pc \in Held => th[u].pc \in Held /\ th'[u].obj = th[u].obj
    BY <1>6, <1>9 DEF Held
  <2>2. \A u \in Outers : Loading(u)' => Loading(u) /\ VenueOf(u)' = VenueOf(u)
    BY <1>1, <1>9, <1>10 DEF Loading, v
  <2>3. ASSUME NEW q \in 1 .. made, ~obj[q].ripe
        PROVE  mgr'[obj[q].venue] = q \/ \E u \in Outers : th'[u].pc \in Held /\ th'[u].obj = q
    <3>1. obj[q].venue \in Venues /\ q # Nil
      BY VenueAssumption DEF Before, VenueInv, Typed, Object
    <3>2. CASE q = o
      BY <1>4, <1>5, <3>2
    <3>3. CASE mgr[obj[q].venue] = q
      BY <1>4, <1>5, <3>1, <3>3
    <3>4. ASSUME NEW u \in Outers, th[u].pc \in Held, th[u].obj = q, q # o
          PROVE  \E x \in Outers : th'[x].pc \in Held /\ th'[x].obj = q
      BY <1>9, <3>4 DEF o
    <3> QED
      BY <2>3, <3>2, <3>3, <3>4 DEF Before, VenueInv, ObjectInv
  <2> QED
    BY <1>3, <2>1, <2>2, <2>3 DEF Before, VenueInv, ObjectInv
<1> QED
  BY <1>11, <1>12, <1>13, <1>14, <1>15 DEF VenueInv

-----------------------------------------------------------------------------
(* The threads of the inner handlers, the games and the clock *)

\* What a game or a closure does to an object: it keeps its venue and its handler.
ObjectKept ==
  /\ obj' \in [1 .. made -> Object]
  /\ \A q \in 1 .. made :
       /\ obj'[q].venue = obj[q].venue /\ obj'[q].handler = obj[q].handler
       /\ obj[q].ripe => obj'[q].ripe

\* A step of an inner thread that leaves the tables alone.
LEMMA InsideStep ==
  ASSUME Before, Extends, ObjectKept,
         UNCHANGED <<mgr, assigned, inner, list, stale, made, sweep, half, th>>
  PROVE  ThreadInv' /\ TableInv' /\ SweepInv' /\ Grows
         /\ \A u \in Outers : Loading(u)' => Loading(u) /\ VenueOf(u)' = VenueOf(u)
<1>1. /\ \A u \in Outers : Loading(u)' => Loading(u)
      /\ \A u \in Outers : th[u].pc # "idle" => VenueOf(u)' = VenueOf(u)
  BY SameThreads
<1>2. \A u \in Outers : Loading(u)' => Loading(u) /\ VenueOf(u)' = VenueOf(u)
  BY <1>1 DEF Loading
<1>3. \A x \in Venues : mgr[x] # Nil => mgr[x] \in 1 .. made
  BY DEF Before, VenueInv, Typed
<1>4. \A h \in Handlers, x \in Venues : inner[h][x] # Nil => inner[h][x] \in 1 .. made
  BY DEF Before, VenueInv, Typed
<1>5. \A h \in Handlers : sweep[h] \subseteq 1 .. made /\ (half[h] # Nil => half[h] \in 1 .. made)
  BY DEF Before, VenueInv, Typed
<1>6. ThreadInv'
  <2> SUFFICES ASSUME NEW u \in Outers
               PROVE  Knows(u)'
    BY DEF ThreadInv
  <2>1. Knows(u)
    BY DEF Before, VenueInv, ThreadInv
  <2>2. CASE th[u].pc = "idle"
    BY <2>1, <2>2 DEF Knows, Held
  <2>3. CASE th[u].pc # "idle"
    <3>1. VenueOf(u)' = VenueOf(u)
      BY <1>1, <2>3
    <3> QED
      BY <2>1, <3>1 DEF Knows, ObjectKept, Held
  <2> QED
    BY <2>2, <2>3
<1>7. TableInv'
  BY <1>3, <1>4 DEF Before, VenueInv, TableInv, ObjectKept
<1>8. SweepInv'
  BY <1>5 DEF Before, VenueInv, SweepInv, ObjectKept
<1>9. Grows
  BY DEF Grows, ObjectKept, Before, LockInv
<1> QED
  BY <1>2, <1>6, <1>7, <1>8, <1>9

\* A step that changes one field of one object.
LEMMA OneObject ==
  ASSUME Before, NEW o \in 1 .. made, NEW r \in Object, obj' = [obj EXCEPT ![o] = r],
         r.venue = obj[o].venue, r.handler = obj[o].handler, obj[o].ripe => r.ripe
  PROVE  /\ ObjectKept /\ obj'[o] = r
         /\ \A q \in 1 .. made : q # o => obj'[q] = obj[q]
<1>1. obj \in [1 .. made -> Object]
  BY DEF Before, VenueInv, Typed
<1>2. obj' \in [1 .. made -> Object] /\ obj'[o] = r /\ \A q \in 1 .. made : q # o => obj'[q] = obj[q]
  BY <1>1
<1> QED
  BY <1>2 DEF ObjectKept

\* An object nobody has a strong pointer to is not open.
LEMMA ExpiredIsOver ==
  ASSUME Before, NEW o \in 1 .. made, ~Alive(o)
  PROVE  ~obj[o].open
<1>1. obj[o].venue \in Venues
  BY DEF Before, VenueInv, Typed, Object
<1>2. mgr[obj[o].venue] # o /\ \A w \in Outers : th[w].obj # o
  BY <1>1 DEF Alive
<1> QED
  BY <1>2 DEF Before, VenueInv, ObjectInv

\* onEnter and onLeave: somebody is in or out of the venue, and is recorded there or
\* nowhere.
LEMMA MovedStep ==
  ASSUME Before, NEW o \in 1 .. made, NEW p \in Players, NEW m, NEW v, Moved(o, p, m, v),
         \/ m = obj[o].members \cup {p} /\ obj[o].open /\ v = obj[o].venue
         \/ m = obj[o].members \ {p} /\ v = Nil,
         made' = made
  PROVE  /\ ObjectKept /\ at' \in [Players -> Venues \cup {Nil}] /\ CurrentVenue'
         /\ \A q \in 1 .. made : obj'[q].open = obj[q].open /\ obj'[q].ripe = obj[q].ripe
<1> DEFINE r == [obj[o] EXCEPT !.members = m]
<1>1. obj[o] \in Object /\ at \in [Players -> Venues \cup {Nil}]
  BY DEF Before, VenueInv, Typed
<1>2. /\ r \in Object /\ r.venue = obj[o].venue /\ r.handler = obj[o].handler
      /\ r.open = obj[o].open /\ r.ripe = obj[o].ripe /\ r.members = m
      /\ obj[o].venue \in Venues
  BY <1>1 DEF Object
<1>3. obj' = [obj EXCEPT ![o] = r] /\ at' = [at EXCEPT ![p] = v]
  BY DEF Moved
<1> HIDE DEF r
<1>4. ObjectKept /\ obj'[o] = r /\ \A q \in 1 .. made : q # o => obj'[q] = obj[q]
  BY <1>2, <1>3, OneObject
<1>5. /\ at' \in [Players -> Venues \cup {Nil}] /\ at'[p] = v
      /\ \A x \in Players : x # p => at'[x] = at[x]
  BY <1>1, <1>2, <1>3
<1>6. CurrentVenue'
  <2> SUFFICES ASSUME NEW x \in Players, at'[x] # Nil
               PROVE  \E q \in 1 .. made : /\ obj'[q].open /\ obj'[q].venue = at'[x]
                                           /\ x \in obj'[q].members
    BY DEF CurrentVenue
  <2>1. CASE x = p
    BY <1>2, <1>4, <1>5, <2>1
  <2>2. CASE x # p
    <3>1. PICK q \in 1 .. made : obj[q].open /\ obj[q].venue = at[x] /\ x \in obj[q].members
      BY <1>5, <2>2 DEF Before, VenueInv, CurrentVenue
    <3>2. CASE q = o
      BY <1>2, <1>4, <1>5, <2>2, <3>1, <3>2
    <3>3. CASE q # o
      BY <1>4, <1>5, <2>2, <3>1, <3>3
    <3> QED
      BY <3>2, <3>3
  <2> QED
    BY <2>1, <2>2
<1>7. \A q \in 1 .. made : obj'[q].open = obj[q].open /\ obj'[q].ripe = obj[q].ripe
  BY <1>2, <1>4
<1> QED
  BY <1>4, <1>5, <1>6, <1>7

\* The end of a closure in which nobody moves.
LEMMA StayedStep ==
  ASSUME Before, UNCHANGED <<obj, at, made>>
  PROVE  /\ ObjectKept /\ at' \in [Players -> Venues \cup {Nil}] /\ CurrentVenue'
         /\ \A q \in 1 .. made : obj'[q].open = obj[q].open /\ obj'[q].ripe = obj[q].ripe
BY DEF Before, VenueInv, Typed, ObjectKept, CurrentVenue

LEMMA ExecuteStep ==
  ASSUME Before, NEW h \in Handlers, Execute(h)
  PROVE  VenueInv'
<1> DEFINE i == Head(queue[h]).id
           o == Head(queue[h]).obj
<1>1. UNCHANGED <<over, mgr, assigned, inner, list, stale, sweep, half, made, th, asked, unsaved>>
  BY DEF Execute, tables, worker
<1>2. queue \in [Handlers -> Seq(Fit)] /\ queue[h] # <<>>
  BY DEF Execute, Before, VenueInv, Typed
<1>3. Head(queue[h]) \in Fit /\ Tail(queue[h]) \in Seq(Fit)
  BY <1>2
<1>4. i \in 1 .. asked /\ o \in 1 .. made /\ obj[o].venue = req[i].venue
  BY <1>3 DEF Fit
<1>5. req[i] \in Request
  BY <1>4 DEF Before, LockInv
<1>6. req[i].player \in Players
  BY <1>5 DEF Request
<1>7. queue' = [queue EXCEPT ![h] = Tail(@)]
  BY DEF Execute
<1> HIDE DEF i, o
<1>8. /\ ObjectKept /\ at' \in [Players -> Venues \cup {Nil}] /\ CurrentVenue'
      /\ \A q \in 1 .. made : obj'[q].open = obj[q].open /\ obj'[q].ripe = obj[q].ripe
  <2>1. CASE UNCHANGED <<obj, at, count>>
    BY <1>1, <2>1, StayedStep
  <2>2. CASE Alive(o) /\ OnEnter(i, o, req[i].player) /\ ~UNCHANGED <<obj, at, count>>
    <3>1. /\ Moved(o, req[i].player, obj[o].members \cup {req[i].player}, obj[o].venue)
          /\ obj[o].open
      BY <2>2 DEF OnEnter
    <3> QED
      BY <1>1, <1>4, <1>6, <3>1, MovedStep
  <2>3. CASE Alive(o) /\ OnLeave(i, o, req[i].player) /\ ~UNCHANGED <<obj, at, count>>
    <3>1. Moved(o, req[i].player, obj[o].members \ {req[i].player}, Nil)
      BY <2>3 DEF OnLeave
    <3> QED
      BY <1>1, <1>4, <1>6, <3>1, MovedStep
  <2> QED
    BY <2>1, <2>2, <2>3 DEF Execute, i, o
<1>9. /\ Extends
      /\ \/ NoDrop
         \/ ~obj[o].open /\ \A j \in 1 .. asked : j # i => req'[j] = req[j]
  <2>1. PICK a \in Answers : Answer(i, a) /\ (a = "dropped" => ~Alive(o))
    BY DEF Execute, OnEnter, OnLeave, Answers, i, o
  <2>2. Extends
    BY <1>1, <2>1, AnswerExtends DEF Before
  <2>3. CASE a # "dropped"
    <3>1. a \in Answers \ {"dropped"} /\ LockInv /\ asked' = asked
      BY <1>1, <2>3 DEF Before
    <3>2. NoDrop
      BY <2>1, <3>1, AnswerNoDrop
    <3> QED
      BY <2>2, <3>2
  <2>4. CASE a = "dropped"
    <3>1. ~obj[o].open
      BY <1>4, <2>1, <2>4, ExpiredIsOver
    <3>2. \A j \in 1 .. asked : j # i => req'[j] = req[j]
      BY <2>1 DEF Answer, Before, LockInv
    <3> QED
      BY <2>2, <3>1, <3>2
  <2> QED
    BY <2>3, <2>4
<1>10. /\ ThreadInv' /\ TableInv' /\ SweepInv' /\ Grows
       /\ \A u \in Outers : Loading(u)' => Loading(u) /\ VenueOf(u)' = VenueOf(u)
  BY <1>1, <1>8, <1>9, InsideStep
<1>11. DroppedWhenOver'
  <2>1. CASE NoDrop
    BY <1>1, <1>8, <1>9, <1>10, <2>1, DroppedKept DEF ObjectKept
  <2>2. CASE ~obj[o].open /\ \A j \in 1 .. asked : j # i => req'[j] = req[j]
    <3> SUFFICES ASSUME NEW j \in 1 .. asked, req'[j].ans = "dropped"
                 PROVE  \E q \in 1 .. made : obj'[q].venue = req'[j].venue /\ ~obj'[q].open
      BY <1>1 DEF DroppedWhenOver
    <3>1. req'[j].venue = req[j].venue
      BY <1>9 DEF Extends
    <3>2. CASE j = i
      BY <1>4, <1>8, <2>2, <3>1, <3>2 DEF ObjectKept
    <3>3. CASE j # i
      <4>1. PICK q \in 1 .. made : obj[q].venue = req[j].venue /\ ~obj[q].open
        BY <2>2, <3>3 DEF Before, VenueInv, DroppedWhenOver
      <4> QED
        BY <1>8, <3>1, <4>1 DEF ObjectKept
    <3> QED
      BY <3>2, <3>3
  <2> QED
    BY <1>9, <2>1, <2>2
<1>12. Typed'
  <2>1. Fit \subseteq Fit'
    BY <1>9, <1>10, FitGrows
  <2>2. queue' \in [Handlers -> Seq(Fit)]
    BY <1>2, <1>3, <1>7
  <2>3. queue' \in [Handlers -> Seq(Fit')]
    <3>1. \A g \in Handlers : queue'[g] \in Seq(Fit')
      BY <2>1, <2>2
    <3> QED
      BY <2>2, <3>1
  <2> QED
    BY <1>1, <1>8, <2>3 DEF Before, VenueInv, Typed, ObjectKept
<1>13. NoReopen'
  BY <1>1, <1>8 DEF Before, VenueInv, NoReopen, ObjectKept
<1>14. ObjectInv'
  BY <1>1, <1>8, <1>10 DEF Before, VenueInv, ObjectInv, ObjectKept
<1> QED
  BY <1>8, <1>10, <1>11, <1>12, <1>13, <1>14 DEF VenueInv

LEMMA GameOverStep ==
  ASSUME Before, NEW h \in Handlers, NEW o \in 1 .. made, GameOver(h, o)
  PROVE  VenueInv'
<1> DEFINE r == [obj[o] EXCEPT !.open = FALSE]
           v == obj[o].venue
<1>1. /\ UNCHANGED <<mgr, assigned, inner, list, stale, sweep, half, made, th, queue, req, asked>>
      /\ obj[o].open
  BY DEF GameOver, tables, worker
<1>2. obj[o] \in Object
  BY DEF Before, VenueInv, Typed
<1>3. /\ r \in Object /\ r.venue = v /\ r.handler = obj[o].handler
      /\ ~r.open /\ r.ripe = obj[o].ripe /\ r.members = obj[o].members
  BY <1>2 DEF Object
<1>4. obj' = [obj EXCEPT ![o] = r]
  BY DEF GameOver
<1> HIDE DEF r
<1>5. ObjectKept /\ obj'[o] = r /\ \A q \in 1 .. made : q # o => obj'[q] = obj[q]
  BY <1>3, <1>4, OneObject
<1>6. at' = [x \in Players |-> IF x \in obj[o].members THEN Nil ELSE at[x]]
  BY DEF GameOver
<1>7. \/ over' = over \cup {v} /\ unsaved' = unsaved
      \/ over' = over /\ unsaved' = unsaved \cup {v}
  BY DEF GameOver
<1>8. Extends /\ NoDrop
  BY <1>1, SameExtends, SameNoDrop DEF Before
<1>9. /\ ThreadInv' /\ TableInv' /\ SweepInv' /\ Grows
      /\ \A u \in Outers : Loading(u)' => Loading(u) /\ VenueOf(u)' = VenueOf(u)
  BY <1>1, <1>5, <1>8, InsideStep
<1> HIDE DEF v
<1>10. at' \in [Players -> Venues \cup {Nil}]
  BY <1>6 DEF Before, VenueInv, Typed
<1>11. CurrentVenue'
  <2> SUFFICES ASSUME NEW x \in Players, at'[x] # Nil
               PROVE  \E q \in 1 .. made : /\ obj'[q].open /\ obj'[q].venue = at'[x]
                                           /\ x \in obj'[q].members
    BY <1>1 DEF CurrentVenue
  <2>1. x \notin obj[o].members /\ at'[x] = at[x]
    BY <1>6
  <2>2. PICK q \in 1 .. made : obj[q].open /\ obj[q].venue = at[x] /\ x \in obj[q].members
    BY <2>1 DEF Before, VenueInv, CurrentVenue
  <2> QED
    BY <1>5, <2>1, <2>2
<1>12. Typed'
  <2>1. queue' \in [Handlers -> Seq(Fit')]
    BY <1>1, <1>8, <1>9, QueueKept
  <2> QED
    BY <1>1, <1>5, <1>10, <2>1 DEF Before, VenueInv, Typed, ObjectKept
<1>13. \A q \in 1 .. made : /\ obj'[q].open => obj[q].open
                            /\ obj'[q].ripe = obj[q].ripe
                            /\ q # o => obj'[q].open = obj[q].open
  BY <1>3, <1>5
<1>14. DroppedWhenOver'
  BY <1>1, <1>5, <1>8, <1>9, <1>13, DroppedKept DEF ObjectKept
<1>15. NoReopen'
  BY <1>1, <1>5, <1>7 DEF Before, VenueInv, NoReopen, ObjectKept
<1>16. ObjectInv'
  <2>1. ASSUME NEW q \in 1 .. made, ~obj'[q].open, obj[q].venue \notin unsaved'
        PROVE  obj[q].venue \in over'
    <3>1. CASE q = o
      BY <1>7, <2>1, <3>1 DEF v
    <3>2. CASE q # o
      BY <1>7, <1>13, <2>1, <3>2 DEF Before, VenueInv, ObjectInv
    <3> QED
      BY <3>1, <3>2
  <2>2. \A q \in 1 .. made : obj[q].ripe => ~obj'[q].open
    BY <1>13 DEF Before, VenueInv, ObjectInv
  <2>3. unsaved \subseteq unsaved'
    BY <1>7
  <2> QED
    BY <1>1, <1>5, <1>9, <1>13, <2>1, <2>2, <2>3 DEF Before, VenueInv, ObjectInv, ObjectKept
<1> QED
  BY <1>9, <1>11, <1>12, <1>14, <1>15, <1>16 DEF VenueInv

LEMMA ElapseStep ==
  ASSUME Before, NEW o \in 1 .. made, Elapse(o)
  PROVE  VenueInv'
<1> DEFINE r == [obj[o] EXCEPT !.ripe = TRUE]
<1>1. /\ UNCHANGED <<over, mgr, assigned, inner, list, stale, sweep, half, made, th, queue,
                     req, asked, at, unsaved>>
      /\ ~obj[o].open /\ \A u \in Outers : Loading(u) => VenueOf(u) # obj[o].venue
  BY DEF Elapse, tables, worker
<1>2. obj[o] \in Object
  BY DEF Before, VenueInv, Typed
<1>3. /\ r \in Object /\ r.venue = obj[o].venue /\ r.handler = obj[o].handler
      /\ r.open = obj[o].open /\ r.ripe /\ r.members = obj[o].members
  BY <1>2 DEF Object
<1>4. obj' = [obj EXCEPT ![o] = r]
  BY DEF Elapse
<1> HIDE DEF r
<1>5. ObjectKept /\ obj'[o] = r /\ \A q \in 1 .. made : q # o => obj'[q] = obj[q]
  BY <1>3, <1>4, OneObject
<1>6. Extends /\ NoDrop
  BY <1>1, SameExtends, SameNoDrop DEF Before
<1>7. /\ ThreadInv' /\ TableInv' /\ SweepInv' /\ Grows
      /\ \A u \in Outers : Loading(u)' => Loading(u) /\ VenueOf(u)' = VenueOf(u)
  BY <1>1, <1>5, <1>6, InsideStep
<1>8. \A q \in 1 .. made : /\ obj'[q].open = obj[q].open /\ obj'[q].members = obj[q].members
                           /\ q # o => obj'[q].ripe = obj[q].ripe
  BY <1>3, <1>5
<1>9. Typed'
  <2>1. queue' \in [Handlers -> Seq(Fit')]
    BY <1>1, <1>6, <1>7, QueueKept
  <2> QED
    BY <1>1, <1>5, <2>1 DEF Before, VenueInv, Typed, ObjectKept
<1>10. CurrentVenue' /\ NoReopen'
  BY <1>1, <1>5, <1>8 DEF Before, VenueInv, CurrentVenue, NoReopen, ObjectKept
<1>11. DroppedWhenOver'
  BY <1>1, <1>5, <1>6, <1>7, <1>8, DroppedKept DEF ObjectKept
<1>12. ObjectInv'
  <2>1. \A u \in Outers : th[u].pc \in Held => th[u].obj # o
    <3> SUFFICES ASSUME NEW u \in Outers, th[u].pc \in Held, th[u].obj = o
                 PROVE  FALSE
      OBVIOUS
    <3>1. Loading(u) /\ VenueOf(u) = obj[o].venue
      BY DEF Before, VenueInv, ThreadInv, Knows, Held, Loading
    <3> QED
      BY <1>1, <3>1
  <2>2. ASSUME NEW q \in 1 .. made, obj'[q].ripe, obj[q].venue \notin unsaved,
               NEW u \in Outers, Loading(u)'
        PROVE  VenueOf(u)' # obj[q].venue
    <3>1. Loading(u) /\ VenueOf(u)' = VenueOf(u)
      BY <1>7, <2>2
    <3>2. CASE q = o
      BY <1>1, <3>1, <3>2
    <3>3. CASE q # o
      BY <1>8, <2>2, <3>1, <3>3 DEF Before, VenueInv, ObjectInv
    <3> QED
      BY <3>2, <3>3
  <2>3. \A q \in 1 .. made : obj'[q].ripe =>
          ~obj'[q].open /\ \A u \in Outers : th[u].pc \in Held => th[u].obj # q
    BY <1>1, <1>8, <2>1 DEF Before, VenueInv, ObjectInv
  <2>4. \A q \in 1 .. made : ~obj'[q].ripe => ~obj[q].ripe
    BY <1>5 DEF ObjectKept
  <2> QED
    BY <1>1, <1>5, <1>8, <2>2, <2>3, <2>4 DEF Before, VenueInv, ObjectInv, ObjectKept
<1> QED
  BY <1>7, <1>9, <1>10, <1>11, <1>12 DEF VenueInv

\* onTimer: what it is going to remove is in the handler's table.
LEMMA OnTimerStep ==
  ASSUME Before, NEW h \in Handlers, OnTimer(h)
  PROVE  VenueInv'
<1> DEFINE F == {inner[h][x] : x \in Venues} \ {Nil}
<1>1. UNCHANGED <<over, mgr, assigned, inner, half, obj, made, at, th, queue, req, asked, unsaved>>
  BY DEF OnTimer, tables
<1>2. Fresh(h) = F
  BY DEF Fresh, Before, VenueInv, SweepInv
<1>3. F \subseteq 1 .. made
  BY DEF Before, VenueInv, Typed
<1>4. \A q \in F : inner[h][obj[q].venue] = q
  BY DEF Before, VenueInv, TableInv
<1>5. /\ list' = [list EXCEPT ![h] = F] /\ stale' = [stale EXCEPT ![h] = FALSE]
      /\ sweep' = [sweep EXCEPT ![h] = {q \in F : obj[q].ripe}]
  BY <1>2 DEF OnTimer
<1>6. /\ list \in [Handlers -> SUBSET (1 .. made)] /\ stale \in [Handlers -> BOOLEAN]
      /\ sweep \in [Handlers -> SUBSET (1 .. made)]
  BY DEF Before, VenueInv, Typed
<1>7. /\ list' \in [Handlers -> SUBSET (1 .. made)] /\ list'[h] = F
      /\ \A g \in Handlers : g # h => list'[g] = list[g]
  <2> HIDE DEF F
  <2> QED
    BY <1>3, <1>5, <1>6
<1>8. stale' \in [Handlers -> BOOLEAN] /\ \A g \in Handlers : g # h => stale'[g] = stale[g]
  BY <1>5, <1>6
<1>9. /\ sweep' \in [Handlers -> SUBSET (1 .. made)]
      /\ sweep'[h] = {q \in F : obj[q].ripe}
      /\ \A g \in Handlers : g # h => sweep'[g] = sweep[g]
  <2> DEFINE R == {q \in F : obj[q].ripe}
  <2>1. R \subseteq 1 .. made /\ sweep' = [sweep EXCEPT ![h] = R]
    BY <1>3, <1>5
  <2> HIDE DEF R
  <2>2. /\ sweep' \in [Handlers -> SUBSET (1 .. made)] /\ sweep'[h] = R
        /\ \A g \in Handlers : g # h => sweep'[g] = sweep[g]
    BY <1>6, <2>1
  <2> QED
    BY <2>2 DEF R
<1>10. Extends /\ NoDrop /\ Grows
  BY <1>1, SameExtends, SameNoDrop DEF Before, Grows, LockInv
<1>11. Typed'
  <2>1. queue' \in [Handlers -> Seq(Fit')]
    BY <1>1, <1>10, QueueKept
  <2> QED
    BY <1>1, <1>7, <1>8, <1>9, <2>1 DEF Before, VenueInv, Typed
<1>12. SweepInv'
  <2> SUFFICES ASSUME NEW g \in Handlers
               PROVE  /\ ~stale'[g] => list'[g] = {inner[g][x] : x \in Venues} \ {Nil}
                      /\ \A q \in sweep'[g] : obj[q].ripe /\ inner[g][obj[q].venue] = q
                      /\ half[g] # Nil =>
                           /\ obj[half[g]].ripe /\ obj[half[g]].handler = g
                           /\ mgr[obj[half[g]].venue] = half[g]
                           /\ inner[g][obj[half[g]].venue] = Nil
    BY <1>1 DEF SweepInv
  <2>1. CASE g = h
    <3>1. list'[g] = {inner[g][x] : x \in Venues} \ {Nil}
      BY <1>7, <2>1
    <3>2. \A q \in sweep'[g] : obj[q].ripe /\ inner[g][obj[q].venue] = q
      BY <1>4, <1>9, <2>1
    <3> QED
      BY <3>1, <3>2 DEF Before, VenueInv, SweepInv
  <2>2. CASE g # h
    BY <1>7, <1>8, <1>9, <2>2 DEF Before, VenueInv, SweepInv
  <2> QED
    BY <2>1, <2>2
<1>13. ThreadInv' /\ TableInv' /\ ObjectInv' /\ NoReopen' /\ CurrentVenue' /\ DroppedWhenOver'
  <2>1. ThreadInv'
    <3> SUFFICES ASSUME NEW u \in Outers
                 PROVE  Knows(u)'
      BY DEF ThreadInv
    <3>1. Knows(u) /\ VenueOf(u)' = VenueOf(u)
      BY <1>1 DEF Before, VenueInv, ThreadInv, VenueOf
    <3> QED
      BY <1>1, <3>1 DEF Knows
  <2>2. TableInv'
    BY <1>1 DEF Before, VenueInv, TableInv
  <2>3. ObjectInv'
    BY <1>1 DEF Before, VenueInv, ObjectInv, Loading, VenueOf
  <2>4. NoReopen' /\ CurrentVenue' /\ DroppedWhenOver'
    BY <1>1 DEF Before, VenueInv, NoReopen, CurrentVenue, DroppedWhenOver
  <2> QED
    BY <2>1, <2>2, <2>3, <2>4
<1> QED
  BY <1>11, <1>12, <1>13 DEF VenueInv

\* removeVenue of the inner handler: the venue has been over for so long that nobody
\* is publishing it, so the manager's table still has it.
LEMMA RemoveInnerStep ==
  ASSUME Before, NEW h \in Handlers, RemoveInner(h)
  PROVE  VenueInv'
<1>1. UNCHANGED <<over, mgr, assigned, list, obj, made, at, th, queue, req, asked, unsaved>>
  BY DEF RemoveInner
<1>2. PICK o \in sweep[h] :
        /\ half' = [half EXCEPT ![h] = o]
        /\ sweep' = [sweep EXCEPT ![h] = @ \ {o}]
        /\ stale' = [stale EXCEPT ![h] = @ \/ inner[h][obj[o].venue] # Nil]
        /\ inner' = [inner EXCEPT ![h][obj[o].venue] = Nil]
  BY DEF RemoveInner
<1> DEFINE v == obj[o].venue
<1>3. o \in 1 .. made /\ o # Nil /\ v \in Venues /\ half[h] = Nil
  BY VenueAssumption DEF RemoveInner, Before, VenueInv, Typed, Object
<1>4. obj[o].ripe /\ inner[h][v] = o
  BY DEF Before, VenueInv, SweepInv
<1>5. assigned[v] = h /\ obj[o].handler = h /\ mgr[v] = o
  <2>1. \A w \in Outers : th[w].pc = "publish" => th[w].obj # o
    BY <1>3, <1>4 DEF Before, VenueInv, ObjectInv, Held
  <2> QED
    BY <1>3, <1>4, <2>1 DEF Before, VenueInv, TableInv
<1>6. /\ half' \in [Handlers -> 1 .. made \cup {Nil}] /\ half'[h] = o
      /\ \A g \in Handlers : g # h => half'[g] = half[g]
  BY <1>2, <1>3 DEF Before, VenueInv, Typed
<1>7. /\ sweep' \in [Handlers -> SUBSET (1 .. made)] /\ sweep'[h] = sweep[h] \ {o}
      /\ \A g \in Handlers : g # h => sweep'[g] = sweep[g]
  BY <1>2, <1>3 DEF Before, VenueInv, Typed
<1>8. /\ stale' \in [Handlers -> BOOLEAN] /\ stale'[h]
      /\ \A g \in Handlers : g # h => stale'[g] = stale[g]
  BY <1>2, <1>3, <1>4 DEF Before, VenueInv, Typed
<1>9. /\ inner' \in [Handlers -> [Venues -> 1 .. made \cup {Nil}]]
      /\ inner'[h][v] = Nil
      /\ \A g \in Handlers, x \in Venues : g # h \/ x # v => inner'[g][x] = inner[g][x]
  <2>1. inner \in [Handlers -> [Venues -> 1 .. made \cup {Nil}]]
    BY DEF Before, VenueInv, Typed
  <2>2. inner' = [inner EXCEPT ![h] = [inner[h] EXCEPT ![v] = Nil]]
    BY <1>2
  <2> QED
    BY <1>3, <2>1, <2>2
<1>10. Extends /\ NoDrop /\ Grows
  BY <1>1, SameExtends, SameNoDrop DEF Before, Grows, LockInv
<1>11. \A q \in 1 .. made : obj[q].venue \in Venues
  BY DEF Before, VenueInv, Typed, Object
<1> HIDE DEF v
<1>12. Typed'
  <2>1. queue' \in [Handlers -> Seq(Fit')]
    BY <1>1, <1>10, QueueKept
  <2> QED
    BY <1>1, <1>6, <1>7, <1>8, <1>9, <2>1 DEF Before, VenueInv, Typed
<1>13. ThreadInv'
  <2> SUFFICES ASSUME NEW u \in Outers
               PROVE  Knows(u)'
    BY DEF ThreadInv
  <2>1. Knows(u) /\ VenueOf(u)' = VenueOf(u)
    BY <1>1 DEF Before, VenueInv, ThreadInv, VenueOf
  <2>2. th[u].pc = "publish" => th[u].obj # o
    BY <1>3, <1>4 DEF Before, VenueInv, ObjectInv, Held
  <2>3. th[u].pc = "publish" => VenueOf(u) \in Venues /\ th[u].handler \in Handlers \cup {Nil}
    BY Busy DEF Before, Thread
  <2>4. th[u].pc = "publish" => inner'[th[u].handler][VenueOf(u)] = th[u].obj
    BY <1>4, <1>9, <2>1, <2>2, <2>3 DEF Knows, v
  <2> QED
    BY <1>1, <2>1, <2>4 DEF Knows
<1>14. TableInv'
  <2>1. ASSUME NEW x \in Venues, mgr[x] # Nil
        PROVE  /\ obj[mgr[x]].venue = x
               /\ assigned[x] # Nil /\ obj[mgr[x]].handler = assigned[x]
               /\ inner'[assigned[x]][x] = mgr[x] \/ half'[assigned[x]] = mgr[x]
    <3>1. /\ obj[mgr[x]].venue = x
          /\ assigned[x] # Nil /\ obj[mgr[x]].handler = assigned[x]
          /\ inner[assigned[x]][x] = mgr[x] \/ half[assigned[x]] = mgr[x]
          /\ assigned[x] \in Handlers \cup {Nil}
      BY <2>1 DEF Before, VenueInv, TableInv, Typed
    <3>2. CASE x = v
      BY <1>5, <1>6, <3>1, <3>2 DEF v
    <3>3. CASE x # v
      BY <1>3, <1>6, <1>9, <2>1, <3>1, <3>3
    <3> QED
      BY <3>2, <3>3
  <2>2. ASSUME NEW g \in Handlers, NEW x \in Venues, inner'[g][x] # Nil
        PROVE  inner'[g][x] = inner[g][x]
    BY <1>9, <2>2
  <2> QED
    BY <1>1, <2>1, <2>2 DEF Before, VenueInv, TableInv
<1>15. SweepInv'
  <2> SUFFICES ASSUME NEW g \in Handlers
               PROVE  /\ ~stale'[g] => list[g] = {inner'[g][x] : x \in Venues} \ {Nil}
                      /\ \A q \in sweep'[g] : obj[q].ripe /\ inner'[g][obj[q].venue] = q
                      /\ half'[g] # Nil =>
                           /\ obj[half'[g]].ripe /\ obj[half'[g]].handler = g
                           /\ mgr[obj[half'[g]].venue] = half'[g]
                           /\ inner'[g][obj[half'[g]].venue] = Nil
    BY <1>1 DEF SweepInv
  <2>1. CASE g = h
    <3>1. \A q \in sweep'[g] : q \in sweep[h] /\ q # o /\ q \in 1 .. made
      BY <1>7, <2>1
    <3>2. \A q \in sweep'[g] : obj[q].ripe /\ inner[h][obj[q].venue] = q /\ obj[q].venue # v
      BY <1>4, <3>1 DEF Before, VenueInv, SweepInv, v
    <3>3. \A q \in sweep'[g] : obj[q].ripe /\ inner'[g][obj[q].venue] = q
      BY <1>9, <1>11, <2>1, <3>1, <3>2
    <3> QED
      BY <1>4, <1>5, <1>6, <1>8, <1>9, <2>1, <3>3 DEF v
  <2>2. CASE g # h
    <3>1. \A x \in Venues : inner'[g][x] = inner[g][x]
      BY <1>9, <2>2
    <3>2. sweep[g] \subseteq 1 .. made /\ (half[g] # Nil => half[g] \in 1 .. made)
      BY DEF Before, VenueInv, Typed
    <3>3. {inner'[g][x] : x \in Venues} = {inner[g][x] : x \in Venues}
      BY <3>1
    <3> QED
      BY <1>6, <1>7, <1>8, <1>11, <2>2, <3>1, <3>2, <3>3 DEF Before, VenueInv, SweepInv
  <2> QED
    BY <2>1, <2>2
<1>16. ObjectInv'
  BY <1>1 DEF Before, VenueInv, ObjectInv, Loading, VenueOf
<1>17. NoReopen' /\ CurrentVenue' /\ DroppedWhenOver'
  BY <1>1 DEF Before, VenueInv, NoReopen, CurrentVenue, DroppedWhenOver
<1> QED
  BY <1>12, <1>13, <1>14, <1>15, <1>16, <1>17 DEF VenueInv

\* removeVenue of the manager: what it takes away by id is the object the handler
\* has taken away, and no other handler has the venue.
LEMMA RemoveVenueStep ==
  ASSUME Before, NEW h \in Handlers, RemoveVenue(h)
  PROVE  VenueInv'
<1> DEFINE o == half[h]
           v == obj[o].venue
<1>1. UNCHANGED <<over, assigned, inner, list, stale, sweep, obj, made, at, th, queue, req,
                  asked, unsaved>>
  BY DEF RemoveVenue
<1>2. o # Nil /\ mgr' = [mgr EXCEPT ![v] = Nil] /\ half' = [half EXCEPT ![h] = Nil]
  BY DEF RemoveVenue
<1>3. o \in 1 .. made /\ v \in Venues
  BY <1>2 DEF Before, VenueInv, Typed, Object
<1>4. obj[o].ripe /\ obj[o].handler = h /\ mgr[v] = o /\ inner[h][v] = Nil
  BY <1>2 DEF Before, VenueInv, SweepInv
<1>5. assigned[v] = h
  BY <1>2, <1>3, <1>4 DEF Before, VenueInv, TableInv
<1>6. /\ mgr' \in [Venues -> 1 .. made \cup {Nil}] /\ mgr'[v] = Nil
      /\ \A x \in Venues : x # v => mgr'[x] = mgr[x]
  BY <1>2, <1>3 DEF Before, VenueInv, Typed
<1>7. /\ half' \in [Handlers -> 1 .. made \cup {Nil}] /\ half'[h] = Nil
      /\ \A g \in Handlers : g # h => half'[g] = half[g]
  BY <1>2 DEF Before, VenueInv, Typed
<1>8. Extends /\ NoDrop /\ Grows
  BY <1>1, SameExtends, SameNoDrop DEF Before, Grows, LockInv
<1>9. \A q \in 1 .. made : obj[q].venue \in Venues
  BY DEF Before, VenueInv, Typed, Object
<1> HIDE DEF v, o
<1>10. Typed'
  <2>1. queue' \in [Handlers -> Seq(Fit')]
    BY <1>1, <1>8, QueueKept
  <2> QED
    BY <1>1, <1>6, <1>7, <2>1 DEF Before, VenueInv, Typed
<1>11. ThreadInv'
  <2> SUFFICES ASSUME NEW u \in Outers
               PROVE  Knows(u)'
    BY DEF ThreadInv
  <2>1. Knows(u) /\ VenueOf(u)' = VenueOf(u)
    BY <1>1 DEF Before, VenueInv, ThreadInv, VenueOf
  <2>2. th[u].pc # "idle" => VenueOf(u) \in Venues
    BY Busy DEF Before
  <2>3. th[u].pc # "idle" /\ mgr[VenueOf(u)] = Nil => mgr'[VenueOf(u)] = Nil
    BY <1>6, <2>2
  <2> QED
    BY <1>1, <2>1, <2>3 DEF Knows, Held
<1>12. TableInv'
  <2>1. ASSUME NEW x \in Venues, mgr'[x] # Nil
        PROVE  /\ obj[mgr'[x]].venue = x
               /\ assigned[x] # Nil /\ obj[mgr'[x]].handler = assigned[x]
               /\ inner[assigned[x]][x] = mgr'[x] \/ half'[assigned[x]] = mgr'[x]
    <3>1. x # v /\ mgr'[x] = mgr[x]
      BY <1>6, <2>1
    <3>2. /\ obj[mgr[x]].venue = x
          /\ assigned[x] # Nil /\ obj[mgr[x]].handler = assigned[x]
          /\ inner[assigned[x]][x] = mgr[x] \/ half[assigned[x]] = mgr[x]
          /\ assigned[x] \in Handlers \cup {Nil}
      BY <2>1, <3>1 DEF Before, VenueInv, TableInv, Typed
    <3>3. mgr[x] # half[h]
      BY <3>1, <3>2 DEF v, o
    <3> QED
      BY <1>7, <3>1, <3>2, <3>3
  <2>2. ASSUME NEW g \in Handlers, NEW x \in Venues, inner[g][x] # Nil
        PROVE  mgr'[x] = mgr[x]
    <3>1. assigned[x] = g
      BY <2>2 DEF Before, VenueInv, TableInv
    <3>2. x # v
      BY <1>4, <1>5, <2>2, <3>1
    <3> QED
      BY <1>6, <3>2
  <2> QED
    BY <1>1, <2>1, <2>2 DEF Before, VenueInv, TableInv
<1>13. SweepInv'
  <2> SUFFICES ASSUME NEW g \in Handlers
               PROVE  /\ ~stale[g] => list[g] = {inner[g][x] : x \in Venues} \ {Nil}
                      /\ \A q \in sweep[g] : obj[q].ripe /\ inner[g][obj[q].venue] = q
                      /\ half'[g] # Nil =>
                           /\ obj[half'[g]].ripe /\ obj[half'[g]].handler = g
                           /\ mgr'[obj[half'[g]].venue] = half'[g]
                           /\ inner[g][obj[half'[g]].venue] = Nil
    BY <1>1 DEF SweepInv
  <2>1. half'[g] # Nil =>
          /\ obj[half'[g]].ripe /\ obj[half'[g]].handler = g
          /\ mgr'[obj[half'[g]].venue] = half'[g]
          /\ inner[g][obj[half'[g]].venue] = Nil
    <3> SUFFICES ASSUME half'[g] # Nil
                 PROVE  /\ obj[half'[g]].ripe /\ obj[half'[g]].handler = g
                        /\ mgr'[obj[half'[g]].venue] = half'[g]
                        /\ inner[g][obj[half'[g]].venue] = Nil
      OBVIOUS
    <3>1. g # h /\ half'[g] = half[g] /\ half[g] \in 1 .. made
      BY <1>7 DEF Before, VenueInv, Typed
    <3>2. /\ obj[half[g]].ripe /\ obj[half[g]].handler = g
          /\ mgr[obj[half[g]].venue] = half[g] /\ inner[g][obj[half[g]].venue] = Nil
      BY <3>1 DEF Before, VenueInv, SweepInv
    <3>3. obj[half[g]].venue # v
      BY <1>4, <3>1, <3>2
    <3> QED
      BY <1>6, <1>9, <3>1, <3>2, <3>3
  <2> QED
    BY <2>1 DEF Before, VenueInv, SweepInv
<1>14. ObjectInv'
  <2>1. \A q \in 1 .. made : ~obj[q].ripe /\ mgr[obj[q].venue] = q => mgr'[obj[q].venue] = q
    BY <1>4, <1>6, <1>9
  <2> QED
    BY <1>1, <2>1 DEF Before, VenueInv, ObjectInv, Loading, VenueOf
<1>15. NoReopen' /\ CurrentVenue' /\ DroppedWhenOver'
  BY <1>1 DEF Before, VenueInv, NoReopen, CurrentVenue, DroppedWhenOver
<1> QED
  BY <1>10, <1>11, <1>12, <1>13, <1>14, <1>15 DEF VenueInv

LEMMA StutterStep ==
  ASSUME Before, UNCHANGED vars
  PROVE  VenueInv'
<1>1. Quiet /\ UNCHANGED <<th, queue, req, asked>>
  BY DEF vars, Quiet
<1>2. Extends /\ NoDrop /\ Grows
  BY <1>1, SameExtends, SameNoDrop DEF Before, Grows, LockInv, Quiet
<1> QED
  BY <1>1, <1>2, AskStep, QueueKept, QuietKeeps

LEMMA InitVenue ==
  ASSUME Init
  PROVE  VenueInv
<1>1. Idle.pc = "idle" /\ Idle.obj = Nil
  BY DEF Idle
<1>2. \A w \in Outers : th[w].pc = "idle" /\ th[w].obj = Nil
  BY <1>1 DEF Init
<1>3. made = 0 /\ asked = 0 /\ 1 .. made = {} /\ 1 .. asked = {}
  BY DEF Init
<1>4. Typed
  <2>1. obj \in [1 .. made -> Object]
    BY <1>3 DEF Init
  <2>2. queue \in [Handlers -> Seq(Fit)]
    BY DEF Init
  <2> QED
    BY <1>3, <2>1, <2>2 DEF Init, Typed
<1>5. ThreadInv
  BY <1>2 DEF ThreadInv, Knows, Held
<1>6. TableInv
  BY DEF Init, TableInv
<1>7. SweepInv
  <2>1. \A h \in Handlers : {inner[h][v] : v \in Venues} \ {Nil} = {}
    BY DEF Init
  <2> QED
    BY <2>1 DEF Init, SweepInv
<1>8. ObjectInv /\ NoReopen /\ DroppedWhenOver
  BY <1>3 DEF ObjectInv, NoReopen, DroppedWhenOver
<1>9. CurrentVenue
  BY DEF Init, CurrentVenue
<1> QED
  BY <1>4, <1>5, <1>6, <1>7, <1>8, <1>9 DEF VenueInv

-----------------------------------------------------------------------------
\* VenueManager, VenueInnerHandler and Venue: the tables, the objects, the closures
\* and the records of the players fit together at every step, for any number of outer
\* threads, handlers, venues, players, requests and failed statements.
THEOREM VenueInvariant == Spec => []VenueInv
<1>1. Init => VenueInv
  BY InitVenue
<1>2. ASSUME LockInv, VenueInv, [Next]_vars
      PROVE  VenueInv'
  <2>1. Before
    BY <1>2 DEF Before
  <2>2. CASE Ask
    BY <2>1, <2>2, EnterVenueStep, LeaveStep DEF Ask
  <2>3. ASSUME NEW w \in Outers, Outer(w)
        PROVE  VenueInv'
    BY <2>1, <2>3, GetVenueStep, QueryVenueStep, LockLoadingStep, RecheckStep,
       LoadVenueStep, DistributeHandlerStep, AddInnerStep, AddVenueStep,
       UnlockLoadingStep, DispatchStep DEF Outer
  <2>4. ASSUME NEW h \in Handlers, Inner(h)
        PROVE  VenueInv'
    BY <2>1, <2>4, ExecuteStep, OnTimerStep, RemoveInnerStep, RemoveVenueStep DEF Inner
  <2>5. CASE \E h \in Handlers, o \in 1 .. made : GameOver(h, o)
    BY <2>1, <2>5, GameOverStep
  <2>6. CASE \E o \in 1 .. made : Elapse(o)
    BY <2>1, <2>6, ElapseStep
  <2>7. CASE UNCHANGED vars
    BY <2>1, <2>7, StutterStep
  <2> QED
    BY <1>2, <2>2, <2>3, <2>4, <2>5, <2>6, <2>7 DEF Next
<1> QED
  BY <1>1, <1>2, LockInvariant, PTL DEF Spec

\* loadVenue: however many threads load a venue at once, no two open objects of it.
\* Each open object is in the manager's table or in the hands of the one thread that
\* has the loading lock, and that thread has seen the table without the venue.
THEOREM VenueOneOpen == Spec => []OneOpen
<1>1. ASSUME LockInv, VenueInv
      PROVE  OneOpen
  <2> SUFFICES ASSUME NEW o \in 1 .. made, NEW q \in 1 .. made, obj[o].open, obj[q].open,
                      obj[o].venue = obj[q].venue
               PROVE  o = q
    BY DEF OneOpen
  <2>1. Before /\ o # Nil /\ q # Nil
    BY <1>1, VenueAssumption DEF Before, LockInv
  <2>2. /\ mgr[obj[o].venue] = o \/ \E w \in Outers : th[w].pc \in Held /\ th[w].obj = o
        /\ mgr[obj[q].venue] = q \/ \E w \in Outers : th[w].pc \in Held /\ th[w].obj = q
    BY <1>1 DEF VenueInv, ObjectInv
  <2>3. \A w \in Outers : th[w].pc \in Held => Locked(w)
    BY DEF Held, Locked
  <2>4. \A w \in Outers : th[w].pc \in Held /\ th[w].obj \in {o, q} =>
          VenueOf(w) = obj[o].venue /\ mgr[obj[o].venue] = Nil
    BY <1>1, <2>1 DEF VenueInv, ThreadInv, Knows
  <2>5. ASSUME NEW w \in Outers, NEW u \in Outers, th[w].pc \in Held, th[u].pc \in Held,
               th[w].obj = o, th[u].obj = q
        PROVE  w = u
    BY <1>1, <2>3, <2>4, <2>5 DEF LockInv, LockHeld
  <2> QED
    BY <2>1, <2>2, <2>4, <2>5
<1> QED
  BY <1>1, LockInvariant, VenueInvariant, PTL

\* VenueManager and VenueInnerHandler: an open venue that has been loaded is in both
\* tables, under the handler its closures go to.  Removal by id, in two steps, never
\* takes away an open venue.
THEOREM VenueReachable == Spec => []Reachable
<1>1. ASSUME LockInv, VenueInv
      PROVE  Reachable
  <2> SUFFICES ASSUME NEW o \in 1 .. made, obj[o].open,
                      \A w \in Outers : th[w].obj = o => ~Loading(w)
               PROVE  /\ mgr[obj[o].venue] = o
                      /\ obj[o].handler # Nil
                      /\ inner[obj[o].handler][obj[o].venue] = o
    BY DEF Reachable
  <2>1. o # Nil /\ obj[o].venue \in Venues
    BY <1>1, VenueAssumption DEF VenueInv, Typed, Object
  <2>2. mgr[obj[o].venue] = o
    <3>1. \A w \in Outers : th[w].pc \in Held => th[w].obj # o
      BY DEF Held, Loading
    <3> QED
      BY <1>1, <3>1 DEF VenueInv, ObjectInv
  <2>3. /\ assigned[obj[o].venue] # Nil /\ obj[o].handler = assigned[obj[o].venue]
        /\ \/ inner[obj[o].handler][obj[o].venue] = o
           \/ half[obj[o].handler] = o
        /\ assigned[obj[o].venue] \in Handlers \cup {Nil}
    BY <1>1, <2>1, <2>2 DEF VenueInv, TableInv, Typed
  <2>4. half[obj[o].handler] # o
    <3>1. half[obj[o].handler] = o => obj[o].ripe
      BY <1>1, <2>1, <2>3 DEF VenueInv, SweepInv
    <3> QED
      BY <1>1, <3>1 DEF VenueInv, ObjectInv
  <2> QED
    BY <2>2, <2>3, <2>4
<1> QED
  BY <1>1, LockInvariant, VenueInvariant, PTL

\* loadVenue and gameOver: a venue whose game is over is not loaded again, although
\* the row a thread queried may be out of date, unless the update of the row failed.
THEOREM VenueNoReopen == Spec => []NoReopen
<1>1. VenueInv => NoReopen
  BY DEF VenueInv
<1> QED
  BY <1>1, VenueInvariant, PTL

\* onEnter, onLeave and gameOver: the venue a Player is recorded in is open, and the
\* player is inside.
THEOREM VenueCurrent == Spec => []CurrentVenue
<1>1. VenueInv => CurrentVenue
  BY DEF VenueInv
<1> QED
  BY <1>1, VenueInvariant, PTL

\* The closures hold weak pointers: a request ends without an answer only when the
\* game of its venue is over.
THEOREM VenueDropped == Spec => []DroppedWhenOver
<1>1. VenueInv => DroppedWhenOver
  BY DEF VenueInv
<1> QED
  BY <1>1, VenueInvariant, PTL

-----------------------------------------------------------------------------
(* The objects and their handlers *)

\* An object keeps its venue, and the handler it has got.
Steady ==
  /\ made' \in Nat /\ made <= made'
  /\ \A o \in 1 .. made :
       /\ obj'[o].venue = obj[o].venue
       /\ obj[o].handler # Nil => obj'[o].handler = obj[o].handler

LEMMA SameSteady ==
  ASSUME Before, UNCHANGED <<obj, made>>
  PROVE  Steady
BY DEF Steady, Before, LockInv

LEMMA KeptSteady ==
  ASSUME Before, ObjectKept, made' = made
  PROVE  Steady
BY DEF Steady, ObjectKept, Before, LockInv

LEMMA LoadedKept ==
  ASSUME Before, HandlerInv, Steady, th' = th
  PROVE  LoadedInv'
<1> SUFFICES ASSUME NEW w \in Outers, th[w].pc \in {"unlock", "dispatch"}, th[w].obj # Nil
             PROVE  obj'[th[w].obj].handler # Nil
  BY DEF LoadedInv
<1>1. th[w].obj \in 1 .. made
  BY DEF Before, VenueInv, ThreadInv, Knows
<1>2. obj[th[w].obj].handler # Nil
  BY DEF HandlerInv, LoadedInv
<1> QED
  BY <1>1, <1>2 DEF Steady

LEMMA LoadedMoves ==
  ASSUME Before, HandlerInv, Steady, NEW w \in Outers, NEW t, th' = [th EXCEPT ![w] = t],
         t.pc \in {"unlock", "dispatch"} /\ t.obj # Nil => obj'[t.obj].handler # Nil
  PROVE  LoadedInv'
<1>1. th'[w] = t /\ \A u \in Outers : u # w => th'[u] = th[u]
  BY DEF Before, LockInv
<1> SUFFICES ASSUME NEW u \in Outers, th'[u].pc \in {"unlock", "dispatch"}, th'[u].obj # Nil
             PROVE  obj'[th'[u].obj].handler # Nil
  BY DEF LoadedInv
<1>2. CASE u = w
  BY <1>1, <1>2
<1>3. CASE u # w
  <2>1. th'[u] = th[u]
    BY <1>1, <1>3
  <2>2. th[u].obj \in 1 .. made
    BY <2>1 DEF Before, VenueInv, ThreadInv, Knows
  <2>3. obj[th[u].obj].handler # Nil
    BY <2>1 DEF HandlerInv, LoadedInv
  <2> QED
    BY <2>1, <2>2, <2>3 DEF Steady
<1> QED
  BY <1>2, <1>3

LEMMA OwnGrows ==
  ASSUME Before, Steady, NEW h \in Handlers
  PROVE  Own(h) \subseteq Own(h)'
<1>1. h # Nil /\ made \in Nat
  BY VenueAssumption DEF Before, LockInv
<1>2. 1 .. made \subseteq 1 .. made'
  BY <1>1 DEF Steady
<1> SUFFICES ASSUME NEW c \in Own(h)
             PROVE  c \in Own(h)'
  OBVIOUS
<1>3. c \in [id : Nat, obj : 1 .. made] /\ obj[c.obj].handler = h
  BY DEF Own
<1>4. c.obj \in 1 .. made
  BY <1>3
<1>5. obj'[c.obj].handler = h
  BY <1>1, <1>3, <1>4 DEF Steady
<1>6. c \in [id : Nat, obj : 1 .. made']
  BY <1>2, <1>3
<1> QED
  BY <1>5, <1>6 DEF Own

LEMMA QueueOwned ==
  ASSUME Before, HandlerInv, Steady, NEW h \in Handlers
  PROVE  queue[h] \in Seq(Own(h)')
<1>1. Own(h) \subseteq Own(h)' /\ queue[h] \in Seq(Own(h))
  BY OwnGrows DEF HandlerInv, QueueInv
<1> QED
  BY <1>1

LEMMA QueueSame ==
  ASSUME Before, HandlerInv, Steady, queue' = queue
  PROVE  QueueInv'
BY QueueOwned DEF QueueInv

LEMMA QueueAdded ==
  ASSUME Before, HandlerInv, Steady, NEW h \in Handlers, NEW i \in Nat, NEW o \in 1 .. made',
         obj'[o].handler = h, queue' = [queue EXCEPT ![h] = Append(@, [id |-> i, obj |-> o])]
  PROVE  QueueInv'
<1> DEFINE c == [id |-> i, obj |-> o]
<1>1. c \in Own(h)'
  BY DEF Own
<1>2. queue \in [Handlers -> Seq(Fit)] /\ queue' = [queue EXCEPT ![h] = Append(@, c)]
  BY DEF Before, VenueInv, Typed
<1> HIDE DEF c
<1>3. \A g \in Handlers : queue'[g] = IF g = h THEN Append(queue[g], c) ELSE queue[g]
  BY <1>2
<1>4. ASSUME NEW g \in Handlers
      PROVE  queue'[g] \in Seq(Own(g)')
  <2>1. queue[g] \in Seq(Own(g)')
    BY QueueOwned
  <2>2. CASE g = h
    <3>1. queue[h] \in Seq(Own(h)')
      BY QueueOwned
    <3>2. Append(queue[h], c) \in Seq(Own(h)')
      BY <1>1, <3>1
    <3>3. queue'[h] = Append(queue[h], c)
      BY <1>3
    <3> QED
      BY <2>2, <3>2, <3>3
  <2>3. CASE g # h
    BY <1>3, <2>1, <2>3
  <2> QED
    BY <2>2, <2>3
<1> QED
  BY <1>4 DEF QueueInv

LEMMA QueueTaken ==
  ASSUME Before, HandlerInv, Steady, NEW h \in Handlers, queue[h] # <<>>,
         queue' = [queue EXCEPT ![h] = Tail(@)]
  PROVE  QueueInv'
<1>1. queue \in [Handlers -> Seq(Fit)]
  BY DEF Before, VenueInv, Typed
<1>2. \A g \in Handlers : queue'[g] = IF g = h THEN Tail(queue[g]) ELSE queue[g]
  BY <1>1
<1>3. ASSUME NEW g \in Handlers
      PROVE  queue'[g] \in Seq(Own(g)')
  <2>1. queue[g] \in Seq(Own(g)')
    BY QueueOwned
  <2>2. CASE g = h
    BY <1>2, <2>1, <2>2
  <2>3. CASE g # h
    BY <1>2, <2>1, <2>3
  <2> QED
    BY <2>2, <2>3
<1> QED
  BY <1>3 DEF QueueInv

\* An object of the manager's table has its handler.
LEMMA ManagerOwned ==
  ASSUME Before, NEW v \in Venues, mgr[v] # Nil
  PROVE  /\ mgr[v] \in 1 .. made /\ obj[mgr[v]].venue = v
         /\ obj[mgr[v]].handler \in Handlers /\ obj[mgr[v]].handler # Nil
BY DEF Before, VenueInv, TableInv, Typed

\* Steps that leave the objects alone: the requests of the players,
LEMMA AskHandlers ==
  ASSUME Before, HandlerInv, Ask
  PROVE  HandlerInv' /\ Steady
<1>1. UNCHANGED <<obj, made>>
  BY DEF Ask, EnterVenue, LeaveVenue, HandleMessage
<1>2. Steady /\ EmptyInv'
  BY <1>1, SameSteady DEF HandlerInv, EmptyInv
<1>3. ASSUME NEW w \in Outers, NEW p \in Players, NEW v \in Venues, NEW r \in BOOLEAN,
             EnterVenue(w, p, v, r)
      PROVE  LoadedInv' /\ QueueInv'
  <2>1. queue' = queue
    BY <1>3 DEF EnterVenue
  <2>2. CASE th' = th
    BY <1>2, <2>1, <2>2, LoadedKept, QueueSame
  <2>3. CASE th' # th
    <3> DEFINE t == [[Idle EXCEPT !.id = asked + 1] EXCEPT !.pc = "get"]
    <3>1. th' = [th EXCEPT ![w] = t] /\ t.pc = "get"
      BY <1>3, <2>3 DEF EnterVenue, Goto, Idle
    <3> HIDE DEF t
    <3> QED
      BY <1>2, <2>1, <3>1, LoadedMoves, QueueSame
  <2> QED
    BY <2>2, <2>3
<1>4. ASSUME NEW k, NEW p \in Players, NEW v \in Venues, NEW o, LeaveOrReply(k, p, v, o),
             o = Nil \/ o = mgr[v], th' = th
      PROVE  LoadedInv' /\ QueueInv'
  <2>1. LoadedInv'
    BY <1>2, <1>4, LoadedKept
  <2>2. CASE o = Nil
    BY <1>2, <1>4, <2>1, <2>2, QueueSame DEF LeaveOrReply
  <2>3. CASE o # Nil
    <3>1. o \in 1 .. made /\ obj[o].handler \in Handlers /\ o \in 1 .. made'
      BY <1>1, <1>4, <2>3, ManagerOwned
    <3>2. queue' = [queue EXCEPT ![obj[o].handler] = Append(@, [id |-> asked + 1, obj |-> o])]
      BY <1>4, <2>3 DEF LeaveOrReply
    <3>3. asked + 1 \in Nat /\ obj'[o].handler = obj[o].handler
      BY <1>1 DEF Before, LockInv
    <3> QED
      BY <1>2, <2>1, <3>1, <3>2, <3>3, QueueAdded
  <2> QED
    BY <2>2, <2>3
<1>5. ASSUME NEW p \in Players, NEW v \in Venues, LeaveVenue(p, v) \/ HandleMessage(p, v)
      PROVE  LoadedInv' /\ QueueInv'
  <2>1. th' = th
    BY <1>5 DEF LeaveVenue, HandleMessage
  <2>2. CASE LeaveVenue(p, v)
    BY <1>4, <2>1, <2>2 DEF LeaveVenue
  <2>3. CASE HandleMessage(p, v)
    BY <1>4, <2>1, <2>3 DEF HandleMessage
  <2> QED
    BY <1>5, <2>2, <2>3
<1> QED
  BY <1>2, <1>3, <1>5 DEF Ask, HandlerInv


\* the steps of the outer threads,
LEMMA IdleHandlers ==
  ASSUME Before, HandlerInv, NEW w \in Outers, UNCHANGED <<obj, made, queue>>,
         th' = [th EXCEPT ![w] = Idle]
  PROVE  HandlerInv' /\ Steady
<1>1. Steady /\ EmptyInv'
  BY SameSteady DEF HandlerInv, EmptyInv
<1>2. Idle.pc = "idle"
  BY DEF Idle
<1>3. LoadedInv' /\ QueueInv'
  BY <1>1, <1>2, LoadedMoves, QueueSame
<1> QED
  BY <1>1, <1>3 DEF HandlerInv

LEMMA GotoHandlers ==
  ASSUME Before, HandlerInv, NEW w \in Outers, UNCHANGED <<obj, made, queue>>,
         NEW t \in Thread, NEW x, Goto(w, t, x),
         x \in {"unlock", "dispatch"} /\ t.obj # Nil => obj[t.obj].handler # Nil
  PROVE  HandlerInv' /\ Steady
<1> DEFINE r == [t EXCEPT !.pc = x]
<1>1. Steady /\ EmptyInv'
  BY SameSteady DEF HandlerInv, EmptyInv
<1>2. r.pc = x /\ r.obj = t.obj /\ th' = [th EXCEPT ![w] = r]
  BY DEF Thread, Goto
<1> HIDE DEF r
<1>3. LoadedInv' /\ QueueInv'
  BY <1>1, <1>2, LoadedMoves, QueueSame
<1> QED
  BY <1>1, <1>3 DEF HandlerInv

LEMMA OuterHandlers ==
  ASSUME Before, HandlerInv, NEW w \in Outers, Outer(w)
  PROVE  HandlerInv' /\ Steady
<1> DEFINE t == th[w]
           found == mgr[VenueOf(w)]
<1>1. t.pc # "idle"
  BY DEF Outer, GetVenue, QueryVenue, LockLoading, Recheck, LoadVenue, DistributeHandler,
         AddInner, AddVenue, UnlockLoading, Dispatch
<1>2. /\ t \in Thread /\ Knows(w) /\ VenueOf(w) \in Venues /\ t.id \in 1 .. asked
      /\ found # Nil =>
           /\ found \in 1 .. made
           /\ obj[found].handler \in Handlers /\ obj[found].handler # Nil
  BY <1>1, Acting, ManagerOwned
<1>3. \A o \in Nat \cup {Nil} :
        [t EXCEPT !.obj = o] \in Thread /\ [t EXCEPT !.obj = o].obj = o
  BY <1>2 DEF Thread
<1>4. found \in Nat \cup {Nil}
  BY <1>2
<1>5. CASE th' = [th EXCEPT ![w] = Idle] /\ UNCHANGED <<obj, made, queue>>
  BY <1>5, IdleHandlers
<1>6. CASE GetVenue(w)
  <2>1. UNCHANGED <<obj, made, queue>>
    BY <1>6 DEF GetVenue
  <2>2. \/ Goto(w, t, "query")
        \/ found # Nil /\ Goto(w, [t EXCEPT !.obj = found], "dispatch")
        \/ th' = [th EXCEPT ![w] = Idle]
    BY <1>6 DEF GetVenue, Reply
  <2>3. CASE Goto(w, t, "query")
    BY <1>2, <2>1, <2>3, GotoHandlers
  <2>4. CASE found # Nil /\ Goto(w, [t EXCEPT !.obj = found], "dispatch")
    <3> DEFINE s == [t EXCEPT !.obj = found]
    <3>1. s \in Thread /\ s.obj = found
      BY <1>3, <1>4
    <3>2. Goto(w, s, "dispatch") /\ obj[found].handler # Nil
      BY <1>2, <2>4
    <3> HIDE DEF s
    <3> QED
      BY <2>1, <3>1, <3>2, GotoHandlers
  <2> QED
    BY <1>5, <2>1, <2>2, <2>3, <2>4
<1>7. CASE QueryVenue(w)
  <2>1. UNCHANGED <<obj, made, queue>>
    BY <1>7 DEF QueryVenue
  <2>2. Goto(w, t, "lock") \/ th' = [th EXCEPT ![w] = Idle]
    BY <1>7 DEF QueryVenue, Reply
  <2> QED
    BY <1>2, <1>5, <2>1, <2>2, GotoHandlers
<1>8. CASE LockLoading(w)
  <2>1. UNCHANGED <<obj, made, queue>>
    BY <1>8 DEF LockLoading
  <2> DEFINE s == [t EXCEPT !.waits = @ + 1]
  <2>2. Goto(w, t, "recheck") \/ Goto(w, s, "lock") \/ th' = [th EXCEPT ![w] = Idle]
    BY <1>8 DEF LockLoading, Reply
  <2>3. s \in Thread
    BY <1>2 DEF Thread
  <2> HIDE DEF s
  <2> QED
    BY <1>2, <1>5, <2>1, <2>2, <2>3, GotoHandlers
<1>9. CASE DistributeHandler(w)
  <2>1. UNCHANGED <<obj, made, queue>>
    BY <1>9 DEF DistributeHandler
  <2>2. PICK h \in Handlers : Goto(w, [t EXCEPT !.handler = h], "insert")
    BY <1>9 DEF DistributeHandler
  <2> DEFINE s == [t EXCEPT !.handler = h]
  <2>3. s \in Thread /\ Goto(w, s, "insert")
    BY <1>2, <2>2 DEF Thread
  <2> HIDE DEF s
  <2> QED
    BY <2>1, <2>3, GotoHandlers
<1>10. CASE Recheck(w)
  <2> DEFINE s == [t EXCEPT !.obj = found]
  <2>1. UNCHANGED <<obj, made, queue>>
    BY <1>10 DEF Recheck
  <2>2. Goto(w, s, IF found = Nil THEN "load" ELSE "unlock")
    BY <1>10 DEF Recheck
  <2>3. s \in Thread /\ s.obj = found
    BY <1>3, <1>4
  <2> HIDE DEF s
  <2> QED
    BY <1>2, <2>1, <2>2, <2>3, GotoHandlers
<1>11. CASE AddVenue(w)
  <2>1. UNCHANGED <<obj, made, queue>> /\ t.pc = "publish" /\ Goto(w, t, "unlock")
    BY <1>11 DEF AddVenue, worker
  <2>2. obj[t.obj].handler # Nil
    BY <1>2, <2>1 DEF Knows
  <2> QED
    BY <1>2, <2>1, <2>2, GotoHandlers
<1>12. CASE UnlockLoading(w)
  <2>1. UNCHANGED <<obj, made, queue>> /\ t.pc = "unlock"
        /\ (Goto(w, t, "dispatch") \/ th' = [th EXCEPT ![w] = Idle])
    BY <1>12 DEF UnlockLoading, Reply
  <2>2. t.obj # Nil => obj[t.obj].handler # Nil
    BY <2>1 DEF HandlerInv, LoadedInv
  <2> QED
    BY <1>2, <1>5, <2>1, <2>2, GotoHandlers
<1>13. CASE Dispatch(w)
  <2>1. UNCHANGED <<obj, made>> /\ t.pc = "dispatch" /\ th' = [th EXCEPT ![w] = Idle]
    BY <1>13 DEF Dispatch
  <2>2. Steady /\ EmptyInv'
    BY <2>1, SameSteady DEF HandlerInv, EmptyInv
  <2>3. LoadedInv'
    <3>1. Idle.pc = "idle"
      BY DEF Idle
    <3> QED
      BY <2>1, <2>2, <3>1, LoadedMoves
  <2>4. /\ t.obj \in 1 .. made /\ t.obj \in 1 .. made' /\ obj[t.obj].handler \in Handlers
        /\ t.id \in Nat /\ obj'[t.obj].handler = obj[t.obj].handler
    <3>1. t.obj \in 1 .. made /\ t.obj # Nil /\ t.id \in Nat
      BY <1>2, <2>1 DEF Knows, Held, Before, LockInv
    <3>2. obj[t.obj].handler # Nil
      BY <2>1, <3>1 DEF HandlerInv, LoadedInv
    <3>3. obj[t.obj].handler \in Handlers \cup {Nil}
      BY <3>1 DEF Before, VenueInv, Typed, Object
    <3> QED
      BY <2>1, <3>1, <3>2, <3>3
  <2>5. queue' = [queue EXCEPT ![obj[t.obj].handler] = Append(@, [id |-> t.id, obj |-> t.obj])]
    BY <1>13 DEF Dispatch
  <2>6. QueueInv'
    BY <2>2, <2>4, <2>5, QueueAdded
  <2> QED
    BY <2>2, <2>3, <2>6 DEF HandlerInv
<1>14. CASE LoadVenue(w)
  <2>1. CASE UNCHANGED <<obj, made>>
    <3>1. queue' = queue /\ t.pc = "load"
      BY <1>14 DEF LoadVenue
    <3>2. Goto(w, t, "unlock") /\ t.obj = Nil
      BY <1>2, <1>14, <2>1, <3>1 DEF LoadVenue, Knows, Held, Before, LockInv
    <3> QED
      BY <1>2, <2>1, <3>1, <3>2, GotoHandlers
  <2>2. CASE ~ UNCHANGED <<obj, made>>
    <3> DEFINE r == [[t EXCEPT !.obj = made + 1] EXCEPT !.pc = "distribute"]
    <3>1. /\ made' = made + 1 /\ queue' = queue /\ th' = [th EXCEPT ![w] = r]
          /\ obj' = [o \in 1 .. made + 1 |->
                       IF o = made + 1
                       THEN [venue |-> VenueOf(w), handler |-> Nil, open |-> TRUE,
                             ripe |-> FALSE, members |-> {}]
                       ELSE obj[o]]
      BY <1>14, <2>2 DEF LoadVenue, Goto
    <3>2. r.pc = "distribute"
      BY <1>2 DEF Thread
    <3> HIDE DEF r
    <3>3. made \in Nat
      BY DEF Before, LockInv
    <3>4. \A o \in 1 .. made : obj'[o] = obj[o]
      BY <3>1, <3>3
    <3>5. obj'[made + 1].members = {}
      BY <3>1, <3>3
    <3>6. Steady
      BY <3>1, <3>3, <3>4 DEF Steady
    <3>7. EmptyInv'
      <4> SUFFICES ASSUME NEW o \in 1 .. made', obj'[o].handler = Nil
                   PROVE  obj'[o].members = {}
        BY DEF EmptyInv
      <4>1. CASE o = made + 1
        BY <3>5, <4>1
      <4>2. CASE o \in 1 .. made
        BY <3>4, <4>2 DEF HandlerInv, EmptyInv
      <4> QED
        BY <3>1, <3>3, <4>1, <4>2
    <3>8. LoadedInv' /\ QueueInv'
      BY <3>1, <3>2, <3>6, LoadedMoves, QueueSame
    <3> QED
      BY <3>6, <3>7, <3>8 DEF HandlerInv
  <2> QED
    BY <2>1, <2>2
<1>15. CASE AddInner(w)
  <2> DEFINE r == [t EXCEPT !.pc = "publish"]
             o == t.obj
             x == [obj[o] EXCEPT !.handler = t.handler]
  <2>1. /\ made' = made /\ queue' = queue /\ t.pc = "insert" /\ th' = [th EXCEPT ![w] = r]
        /\ obj' = [obj EXCEPT ![o] = x]
    BY <1>15 DEF AddInner, Goto
  <2>2. r.pc = "publish"
    BY <1>2 DEF Thread
  <2>3. o \in 1 .. made /\ obj[o].handler = Nil /\ t.handler # Nil
    BY <1>2, <2>1 DEF Knows, Held
  <2>4. obj \in [1 .. made -> Object] /\ obj[o] \in Object /\ made \in Nat
    BY <2>3 DEF Before, VenueInv, Typed
  <2>5. x.venue = obj[o].venue /\ x.handler = t.handler
    BY <2>4 DEF Object
  <2> HIDE DEF r, x
  <2>6. obj'[o] = x /\ \A q \in 1 .. made : q # o => obj'[q] = obj[q]
    BY <2>1, <2>3, <2>4
  <2>7. Steady
    BY <2>1, <2>3, <2>4, <2>5, <2>6 DEF Steady
  <2>8. EmptyInv'
    BY <2>1, <2>3, <2>5, <2>6 DEF HandlerInv, EmptyInv
  <2>9. LoadedInv' /\ QueueInv'
    BY <2>1, <2>2, <2>7, LoadedMoves, QueueSame
  <2> QED
    BY <2>7, <2>8, <2>9 DEF HandlerInv
<1> QED
  BY <1>6, <1>7, <1>8, <1>9, <1>10, <1>11, <1>12, <1>13, <1>14, <1>15 DEF Outer


\* and the steps of the inner threads, the games and the clock.
LEMMA MovedObject ==
  ASSUME Before, NEW o \in 1 .. made, NEW p, NEW m \in SUBSET Players, NEW v,
         Moved(o, p, m, v), made' = made
  PROVE  /\ ObjectKept /\ obj'[o].members = m
         /\ \A q \in 1 .. made : q # o => obj'[q] = obj[q]
<1> DEFINE r == [obj[o] EXCEPT !.members = m]
<1>1. obj[o] \in Object
  BY DEF Before, VenueInv, Typed
<1>2. /\ r \in Object /\ r.venue = obj[o].venue /\ r.handler = obj[o].handler
      /\ r.ripe = obj[o].ripe /\ r.members = m
  BY <1>1 DEF Object
<1>3. obj' = [obj EXCEPT ![o] = r]
  BY DEF Moved
<1> HIDE DEF r
<1> QED
  BY <1>2, <1>3, OneObject

\* A closure moves a player in or out of an object of the handler's, or nobody.
LEMMA ExecuteEffect ==
  ASSUME Before, HandlerInv, NEW h \in Handlers, Execute(h)
  PROVE  \E o \in 1 .. made :
           /\ obj[o].handler = h
           /\ \/ UNCHANGED <<obj, counts, total>>
              \/ \E p \in Players, m \in SUBSET Players, v \in Venues \cup {Nil} :
                   Moved(o, p, m, v)
<1> DEFINE i == Head(queue[h]).id
           o == Head(queue[h]).obj
<1>1. queue[h] \in Seq(Fit) /\ queue[h] \in Seq(Own(h)) /\ queue[h] # <<>>
  BY DEF Execute, Before, VenueInv, Typed, HandlerInv, QueueInv
<1>2. Head(queue[h]) \in Fit /\ Head(queue[h]) \in Own(h)
  BY <1>1
<1>3. i \in 1 .. asked /\ o \in 1 .. made /\ obj[o].handler = h
  BY <1>2 DEF Fit, Own
<1>4. req[i] \in Request
  BY <1>3 DEF Before, LockInv
<1>5. req[i].player \in Players
  BY <1>4 DEF Request
<1>6. obj[o].members \in SUBSET Players /\ obj[o].venue \in Venues
  BY <1>3 DEF Before, VenueInv, Typed, Object
<1> DEFINE p == req[i].player
           m == obj[o].members
<1>7. m \cup {p} \in SUBSET Players /\ m \ {p} \in SUBSET Players
  BY <1>5, <1>6
<1>8. \/ UNCHANGED <<obj, at, count>> \/ OnEnter(i, o, p) \/ OnLeave(i, o, p)
  BY DEF Execute
<1> HIDE DEF i, o
<1>9. \/ UNCHANGED <<obj, counts, total>>
      \/ Moved(o, p, m \cup {p}, obj[o].venue) \/ Moved(o, p, m \ {p}, Nil)
  BY <1>8 DEF OnEnter, OnLeave, count
<1> QED
  BY <1>3, <1>5, <1>6, <1>7, <1>9

LEMMA ExecuteHandlers ==
  ASSUME Before, HandlerInv, NEW h \in Handlers, Execute(h)
  PROVE  HandlerInv' /\ Steady
<1>1. made' = made /\ th' = th /\ queue[h] # <<>> /\ queue' = [queue EXCEPT ![h] = Tail(@)]
  BY DEF Execute
<1>2. PICK o \in 1 .. made :
        /\ obj[o].handler = h
        /\ \/ UNCHANGED <<obj, counts, total>>
           \/ \E p \in Players, m \in SUBSET Players, v \in Venues \cup {Nil} :
                   Moved(o, p, m, v)
  BY ExecuteEffect
<1>3. Steady /\ EmptyInv'
  <2>1. CASE UNCHANGED obj
    BY <1>1, <2>1, SameSteady DEF HandlerInv, EmptyInv
  <2>2. CASE \E p \in Players, m \in SUBSET Players, v \in Venues \cup {Nil} :
                   Moved(o, p, m, v)
    <3>1. PICK p \in Players, m \in SUBSET Players, v \in Venues \cup {Nil} :
                   Moved(o, p, m, v)
      BY <2>2
    <3>2. ObjectKept /\ \A q \in 1 .. made : q # o => obj'[q] = obj[q]
      BY <1>1, <3>1, MovedObject
    <3>3. obj'[o].handler # Nil
      BY <1>2, <3>2, VenueAssumption DEF ObjectKept
    <3> QED
      BY <1>1, <3>2, <3>3, KeptSteady DEF HandlerInv, EmptyInv
  <2> QED
    BY <1>2, <2>1, <2>2
<1> QED
  BY <1>1, <1>3, LoadedKept, QueueTaken DEF HandlerInv

LEMMA GameOverObject ==
  ASSUME Before, NEW h \in Handlers, NEW o \in 1 .. made, GameOver(h, o)
  PROVE  ObjectKept /\ \A q \in 1 .. made : obj'[q].members = obj[q].members
<1> DEFINE r == [obj[o] EXCEPT !.open = FALSE]
<1>1. obj[o] \in Object
  BY DEF Before, VenueInv, Typed
<1>2. /\ r \in Object /\ r.venue = obj[o].venue /\ r.handler = obj[o].handler
      /\ r.ripe = obj[o].ripe /\ r.members = obj[o].members
  BY <1>1 DEF Object
<1>3. obj' = [obj EXCEPT ![o] = r]
  BY DEF GameOver
<1> HIDE DEF r
<1>4. ObjectKept /\ obj'[o] = r /\ \A q \in 1 .. made : q # o => obj'[q] = obj[q]
  BY <1>2, <1>3, OneObject
<1> QED
  BY <1>2, <1>4

LEMMA ElapseObject ==
  ASSUME Before, NEW o \in 1 .. made, Elapse(o)
  PROVE  ObjectKept /\ \A q \in 1 .. made : obj'[q].members = obj[q].members
<1> DEFINE r == [obj[o] EXCEPT !.ripe = TRUE]
<1>1. obj[o] \in Object
  BY DEF Before, VenueInv, Typed
<1>2. /\ r \in Object /\ r.venue = obj[o].venue /\ r.handler = obj[o].handler
      /\ r.ripe /\ r.members = obj[o].members
  BY <1>1 DEF Object
<1>3. obj' = [obj EXCEPT ![o] = r]
  BY DEF Elapse
<1> HIDE DEF r
<1>4. ObjectKept /\ obj'[o] = r /\ \A q \in 1 .. made : q # o => obj'[q] = obj[q]
  BY <1>2, <1>3, OneObject
<1> QED
  BY <1>2, <1>4

LEMMA OtherHandlers ==
  ASSUME Before, HandlerInv, UNCHANGED <<made, th, queue>>,
         \/ obj' = obj
         \/ ObjectKept /\ \A q \in 1 .. made : obj'[q].members = obj[q].members
  PROVE  HandlerInv' /\ Steady
<1>1. Steady
  BY SameSteady, KeptSteady
<1>2. EmptyInv'
  BY DEF HandlerInv, EmptyInv, ObjectKept
<1> QED
  BY <1>1, <1>2, LoadedKept, QueueSame DEF HandlerInv

LEMMA NextHandlers ==
  ASSUME Before, HandlerInv, [Next]_vars
  PROVE  HandlerInv' /\ Steady
<1>1. CASE Ask
  BY <1>1, AskHandlers
<1>2. ASSUME NEW w \in Outers, Outer(w)
      PROVE  HandlerInv' /\ Steady
  BY <1>2, OuterHandlers
<1>3. ASSUME NEW h \in Handlers, Inner(h)
      PROVE  HandlerInv' /\ Steady
  <2>1. CASE Execute(h)
    BY <2>1, ExecuteHandlers
  <2>2. CASE OnTimer(h) \/ RemoveInner(h) \/ RemoveVenue(h)
    <3>1. UNCHANGED <<made, th, queue, obj>>
      BY <2>2 DEF OnTimer, RemoveInner, RemoveVenue
    <3> QED
      BY <3>1, OtherHandlers
  <2> QED
    BY <1>3, <2>1, <2>2 DEF Inner
<1>4. ASSUME NEW h \in Handlers, NEW o \in 1 .. made, GameOver(h, o)
      PROVE  HandlerInv' /\ Steady
  <2>1. UNCHANGED <<made, th, queue>>
    BY <1>4 DEF GameOver
  <2> QED
    BY <1>4, <2>1, GameOverObject, OtherHandlers
<1>5. ASSUME NEW o \in 1 .. made, Elapse(o)
      PROVE  HandlerInv' /\ Steady
  <2>1. UNCHANGED <<made, th, queue>>
    BY <1>5 DEF Elapse
  <2> QED
    BY <1>5, <2>1, ElapseObject, OtherHandlers
<1>6. CASE UNCHANGED vars
  <2>1. UNCHANGED <<made, th, queue, obj>>
    BY <1>6 DEF vars
  <2> QED
    BY <2>1, OtherHandlers
<1> QED
  BY <1>1, <1>2, <1>3, <1>4, <1>5, <1>6 DEF Next


-----------------------------------------------------------------------------
(* The player counts *)

\* setPlayerCount keeps the total.
LEMMA SetPlayerCountSum ==
  ASSUME CountInv, NEW o, NEW n \in Nat, SetPlayerCount(o, n),
         obj[o].handler \in Handlers, obj[o].venue \in Venues
  PROVE  /\ counts' \in [Handlers -> [Venues -> Nat]] /\ total' \in [Handlers -> Int]
         /\ \A g \in Handlers : total'[g] = SumFunctionOnSet(counts'[g], Venues)
         /\ \A g \in Handlers, x \in Venues :
              counts'[g][x] = IF /\ g = obj[o].handler /\ x = obj[o].venue
                                 /\ inner[g][x] # Nil
                              THEN n ELSE counts[g][x]
<1> DEFINE h == obj[o].handler
           v == obj[o].venue
<1>1. /\ counts \in [Handlers -> [Venues -> Nat]] /\ total \in [Handlers -> Int]
      /\ \A g \in Handlers : total[g] = SumFunctionOnSet(counts[g], Venues)
  BY DEF CountInv, CountsExact
<1>2. CASE inner[h][v] = Nil
  BY <1>1, <1>2 DEF SetPlayerCount, count
<1>3. CASE inner[h][v] # Nil
  <2>1. /\ counts' = [counts EXCEPT ![h][v] = n]
        /\ total' = [total EXCEPT ![h] = @ - counts[h][v] + n]
    BY <1>3 DEF SetPlayerCount
  <2>2. h \in Handlers /\ v \in Venues
    OBVIOUS
  <2> HIDE DEF h, v
  <2>3. /\ counts' \in [Handlers -> [Venues -> Nat]]
        /\ \A g \in Handlers, x \in Venues :
             counts'[g][x] = IF g = h /\ x = v THEN n ELSE counts[g][x]
    BY <1>1, <2>1, <2>2
  <2>4. /\ total' \in [Handlers -> Int]
        /\ \A g \in Handlers :
             total'[g] = IF g = h THEN total[h] - counts[h][v] + n ELSE total[g]
    <3>1. counts[h][v] \in Int
      BY <1>1, <2>2
    <3> QED
      BY <1>1, <2>1, <2>2, <3>1
  <2>5. IsFiniteSet(Venues)
    BY VenueAssumption
  <2>6. ASSUME NEW g \in Handlers
        PROVE  total'[g] = SumFunctionOnSet(counts'[g], Venues)
    <3>1. CASE g = h
      <4> DEFINE f == counts[h]
                 k == counts'[h]
      <4>1. /\ \A x \in Venues : f[x] \in Int /\ k[x] \in Int
            /\ \A x \in Venues \ {v} : k[x] = f[x]
            /\ k[v] = n
        BY <1>1, <2>2, <2>3
      <4>2. total'[h] = SumFunctionOnSet(f, Venues) - f[v] + n
        BY <1>1, <2>2, <2>4
      <4> HIDE DEF f, k
      <4>3. SumFunctionOnSet(k, Venues) = SumFunctionOnSet(f, Venues) - f[v] + k[v]
        BY <2>2, <2>5, <4>1, SumUpdate
      <4> QED
        BY <3>1, <4>1, <4>2, <4>3 DEF k
    <3>2. CASE g # h
      <4>1. \A x \in Venues : counts[g][x] = counts'[g][x]
        BY <2>3, <3>2
      <4>2. SumFunctionOnSet(counts[g], Venues) = SumFunctionOnSet(counts'[g], Venues)
        BY <2>5, <4>1, SumSame
      <4> QED
        BY <1>1, <2>4, <3>2, <4>2
    <3> QED
      BY <3>1, <3>2
  <2>7. \A g \in Handlers, x \in Venues :
          (g = h /\ x = v) <=> (g = h /\ x = v /\ inner[g][x] # Nil)
    BY <1>3
  <2> QED
    BY <2>3, <2>4, <2>6, <2>7 DEF h, v
<1> QED
  BY <1>2, <1>3

\* A venue in the table of a handler is an object of this handler's, and the only
\* one of the venue if the end of its game was recorded.
LEMMA TableEntry ==
  ASSUME Before, NEW g \in Handlers, NEW x \in Venues, inner[g][x] # Nil
  PROVE  /\ inner[g][x] \in 1 .. made
         /\ obj[inner[g][x]].venue = x /\ obj[inner[g][x]].handler = g
         /\ x \notin unsaved => \A o \in 1 .. made : obj[o].venue = x => o = inner[g][x]
<1>1. /\ inner[g][x] \in 1 .. made
      /\ obj[inner[g][x]].venue = x /\ obj[inner[g][x]].handler = g
  BY DEF Before, VenueInv, Typed, TableInv
<1> QED
  BY <1>1 DEF Before, VenueInv, NoReopen

\* A count is left by an object of the handler's.
LEMMA CountLeft ==
  ASSUME Before, CountInv, Steady, NEW g \in Handlers, NEW x \in Venues, counts[g][x] # 0
  PROVE  \E o \in 1 .. made' : obj'[o].venue = x /\ obj'[o].handler = g
<1>1. PICK o \in 1 .. made : obj[o].venue = x /\ obj[o].handler = g
  BY DEF CountInv
<1>2. g # Nil /\ made \in Nat
  BY VenueAssumption DEF Before, LockInv
<1>3. o \in 1 .. made'
  BY <1>2 DEF Steady
<1> QED
  BY <1>1, <1>2, <1>3 DEF Steady

\* Steps that leave the counts and the members alone.
LEMMA CountSame ==
  ASSUME Before, CountInv, Steady, UNCHANGED <<counts, total>>, unsaved \subseteq unsaved',
         \A g \in Handlers, x \in Venues :
           inner'[g][x] # Nil => inner'[g][x] = inner[g][x],
         \A q \in 1 .. made : obj'[q].members = obj[q].members
  PROVE  CountInv'
<1>1. ASSUME NEW g \in Handlers, NEW x \in Venues \ unsaved', inner'[g][x] # Nil
      PROVE  counts[g][x] = Cardinality(obj'[inner'[g][x]].members)
  <2>1. inner'[g][x] = inner[g][x] /\ x \in Venues \ unsaved
    BY <1>1
  <2>2. inner[g][x] \in 1 .. made
    BY <1>1, <2>1, TableEntry
  <2>3. counts[g][x] = Cardinality(obj[inner[g][x]].members)
    BY <1>1, <2>1 DEF CountInv, CountsExact
  <2> QED
    BY <2>1, <2>2, <2>3
<1>2. CountsExact'
  BY <1>1 DEF CountInv, CountsExact
<1>3. \A g \in Handlers, x \in Venues : counts'[g][x] # 0 =>
        \E o \in 1 .. made' : obj'[o].venue = x /\ obj'[o].handler = g
  BY CountLeft
<1> QED
  BY <1>2, <1>3 DEF CountInv

\* afterEnter, afterLeave and gameOver: the count of the venue is set to the number
\* of its members.
LEMMA CountSet ==
  ASSUME Before, CountInv, Steady, ObjectKept, UNCHANGED <<made, inner>>,
         unsaved \subseteq unsaved', NEW o \in 1 .. made, obj[o].handler \in Handlers,
         SetPlayerCount(o, Cardinality(obj'[o].members)),
         \A q \in 1 .. made : q # o => obj'[q].members = obj[q].members
  PROVE  CountInv'
<1> DEFINE n == Cardinality(obj'[o].members)
           h == obj[o].handler
           v == obj[o].venue
<1>1. v \in Venues /\ obj'[o].members \in SUBSET Players
  BY DEF Before, VenueInv, Typed, Object, ObjectKept
<1>2. n \in Nat
  <2>1. IsFiniteSet(obj'[o].members)
    BY <1>1, VenueAssumption, FS_Subset
  <2> QED
    BY <2>1, FS_CardinalityType
<1>3. /\ counts' \in [Handlers -> [Venues -> Nat]] /\ total' \in [Handlers -> Int]
      /\ \A g \in Handlers : total'[g] = SumFunctionOnSet(counts'[g], Venues)
      /\ \A g \in Handlers, x \in Venues :
           counts'[g][x] = IF g = h /\ x = v /\ inner[g][x] # Nil THEN n ELSE counts[g][x]
  BY <1>1, <1>2, SetPlayerCountSum
<1> HIDE DEF n
<1>4. ASSUME NEW g \in Handlers, NEW x \in Venues \ unsaved', inner[g][x] # Nil
      PROVE  counts'[g][x] = Cardinality(obj'[inner[g][x]].members)
  <2>1. x \in Venues \ unsaved
    BY <1>4
  <2>2. /\ inner[g][x] \in 1 .. made
        /\ obj[inner[g][x]].venue = x /\ obj[inner[g][x]].handler = g
        /\ v = x => o = inner[g][x]
    BY <1>4, <2>1, TableEntry
  <2>3. CASE inner[g][x] = o
    BY <1>3, <1>4, <2>2, <2>3 DEF n
  <2>4. CASE inner[g][x] # o
    <3>1. counts'[g][x] = counts[g][x]
      BY <1>3, <2>2, <2>4
    <3>2. counts[g][x] = Cardinality(obj[inner[g][x]].members)
      BY <1>4, <2>1 DEF CountInv, CountsExact
    <3>3. obj'[inner[g][x]].members = obj[inner[g][x]].members
      BY <2>2, <2>4
    <3> QED
      BY <3>1, <3>2, <3>3
  <2> QED
    BY <2>3, <2>4
<1>5. CountsExact'
  BY <1>3, <1>4 DEF CountsExact
<1>6. ASSUME NEW g \in Handlers, NEW x \in Venues, counts'[g][x] # 0
      PROVE  \E q \in 1 .. made' : obj'[q].venue = x /\ obj'[q].handler = g
  <2>1. CASE g = h /\ x = v
    BY <2>1 DEF ObjectKept
  <2>2. CASE ~(g = h /\ x = v)
    <3>1. counts[g][x] # 0
      BY <1>3, <1>6, <2>2
    <3> QED
      BY <3>1, CountLeft
  <2> QED
    BY <2>1, <2>2
<1> QED
  BY <1>3, <1>5, <1>6 DEF CountInv


\* VenueInnerHandler::addVenue: a venue that is new in the table has no count left
\* over, because it has had no other object, and no members.
LEMMA AddInnerCounts ==
  ASSUME Before, HandlerInv, CountInv, Steady, NEW w \in Outers, AddInner(w)
  PROVE  CountInv'
<1> DEFINE v == VenueOf(w)
           h == th[w].handler
           o == th[w].obj
           r == [obj[o] EXCEPT !.handler = h]
<1>1. /\ th[w].pc = "insert" /\ UNCHANGED <<made, counts, total, unsaved>>
      /\ inner' = [inner EXCEPT ![h][v] = IF @ = Nil THEN o ELSE @]
      /\ obj' = [obj EXCEPT ![o] = r]
  BY DEF AddInner, count
<1>2. th[w] \in Thread /\ Knows(w) /\ v \in Venues
  BY <1>1, Acting
<1>3. o \in 1 .. made /\ obj[o].handler = Nil /\ obj[o].venue = v /\ h \in Handlers
  BY <1>1, <1>2 DEF Knows, Held, Thread
<1>4. obj \in [1 .. made -> Object] /\ obj[o] \in Object
  BY <1>3 DEF Before, VenueInv, Typed
<1>5. r.members = obj[o].members
  BY <1>4 DEF Object
<1> HIDE DEF r
<1>6. \A q \in 1 .. made : obj'[q].members = obj[q].members
  BY <1>1, <1>3, <1>4, <1>5
<1>7. inner[h][v] = Nil
  BY <1>1, <1>3, EntryFree
<1>8. inner \in [Handlers -> [Venues -> 1 .. made \cup {Nil}]]
  BY DEF Before, VenueInv, Typed
<1> HIDE DEF h, v, o
<1>9. \A g \in Handlers, x \in Venues :
        inner'[g][x] = IF g = h /\ x = v THEN o ELSE inner[g][x]
  BY <1>1, <1>2, <1>3, <1>7, <1>8
<1>10. v \notin unsaved => counts[h][v] = 0
  <2> SUFFICES ASSUME v \notin unsaved, counts[h][v] # 0
               PROVE  FALSE
    OBVIOUS
  <2>1. PICK q \in 1 .. made : obj[q].venue = v /\ obj[q].handler = h
    BY <1>2, <1>3 DEF CountInv
  <2>2. q = o
    BY <1>3, <2>1 DEF Before, VenueInv, NoReopen
  <2> QED
    BY <1>3, <2>1, <2>2, VenueAssumption
<1>11. obj'[o].members = {}
  BY <1>3, <1>6 DEF HandlerInv, EmptyInv
<1>12. ASSUME NEW g \in Handlers, NEW x \in Venues \ unsaved, inner'[g][x] # Nil
       PROVE  counts[g][x] = Cardinality(obj'[inner'[g][x]].members)
  <2>1. CASE g = h /\ x = v
    <3>1. Cardinality(obj'[inner'[g][x]].members) = 0
      BY <1>9, <1>11, <2>1, FS_EmptySet
    <3> QED
      BY <1>10, <1>12, <2>1, <3>1
  <2>2. CASE ~(g = h /\ x = v)
    <3>1. inner'[g][x] = inner[g][x]
      BY <1>9, <2>2
    <3>2. inner[g][x] \in 1 .. made
      BY <1>12, <3>1, TableEntry
    <3>3. counts[g][x] = Cardinality(obj[inner[g][x]].members)
      BY <1>12, <3>1 DEF CountInv, CountsExact
    <3> QED
      BY <1>6, <3>1, <3>2, <3>3
  <2> QED
    BY <2>1, <2>2
<1>13. CountsExact'
  BY <1>1, <1>12 DEF CountInv, CountsExact
<1>14. \A g \in Handlers, x \in Venues : counts'[g][x] # 0 =>
         \E q \in 1 .. made' : obj'[q].venue = x /\ obj'[q].handler = g
  BY <1>1, CountLeft
<1> QED
  BY <1>1, <1>13, <1>14 DEF CountInv

LEMMA NextCounts ==
  ASSUME Before, HandlerInv, CountInv, [Next]_vars
  PROVE  CountInv'
<1>1. Steady
  BY NextHandlers
<1>2. CASE UNCHANGED <<counts, total, inner, obj, made, unsaved>>
  BY <1>1, <1>2, CountSame
<1>3. CASE Ask
  <2>1. UNCHANGED <<counts, total, inner, obj, made, unsaved>>
    BY <1>3 DEF Ask, EnterVenue, LeaveVenue, HandleMessage, count, tables
  <2> QED
    BY <1>2, <2>1
<1>4. ASSUME NEW w \in Outers, Outer(w)
      PROVE  CountInv'
  <2>1. CASE AddInner(w)
    BY <1>1, <2>1, AddInnerCounts
  <2>2. CASE LoadVenue(w)
    <3>1. UNCHANGED <<counts, total, inner, unsaved>>
      BY <2>2 DEF LoadVenue, count, tables
    <3>2. CASE obj' = obj
      BY <1>1, <3>1, <3>2, CountSame
    <3>3. CASE obj' # obj
      <4>1. obj' = [o \in 1 .. made + 1 |->
                      IF o = made + 1
                      THEN [venue |-> VenueOf(w), handler |-> Nil, open |-> TRUE,
                            ripe |-> FALSE, members |-> {}]
                      ELSE obj[o]]
        BY <2>2, <3>3 DEF LoadVenue
      <4>2. made \in Nat
        BY DEF Before, LockInv
      <4>3. \A q \in 1 .. made : obj'[q] = obj[q]
        BY <4>1, <4>2
      <4> QED
        BY <1>1, <3>1, <4>3, CountSame
    <3> QED
      BY <3>2, <3>3
  <2>3. CASE UNCHANGED <<counts, total, inner, obj, made, unsaved>>
    BY <1>2, <2>3
  <2>4. ~(AddInner(w) \/ LoadVenue(w)) =>
          UNCHANGED <<counts, total, inner, obj, made, unsaved>>
    BY <1>4 DEF Outer, GetVenue, QueryVenue, LockLoading, Recheck, DistributeHandler,
                AddVenue, UnlockLoading, Dispatch, count, tables
  <2> QED
    BY <2>1, <2>2, <2>3, <2>4
<1>5. ASSUME NEW h \in Handlers, Inner(h)
      PROVE  CountInv'
  <2>1. CASE Execute(h)
    <3>1. UNCHANGED <<made, inner, unsaved>>
      BY <2>1 DEF Execute, tables
    <3>2. PICK o \in 1 .. made :
            /\ obj[o].handler = h
            /\ \/ UNCHANGED <<obj, counts, total>>
               \/ \E p \in Players, m \in SUBSET Players, v \in Venues \cup {Nil} :
                    Moved(o, p, m, v)
      BY <2>1, ExecuteEffect
    <3>3. CASE UNCHANGED <<obj, counts, total>>
      BY <1>2, <3>1, <3>3
    <3>4. ASSUME NEW p \in Players, NEW m \in SUBSET Players, NEW v \in Venues \cup {Nil},
                 Moved(o, p, m, v)
          PROVE  CountInv'
      <4>1. /\ ObjectKept /\ obj'[o].members = m
            /\ \A q \in 1 .. made : q # o => obj'[q] = obj[q]
        BY <3>1, <3>4, MovedObject
      <4>2. SetPlayerCount(o, Cardinality(obj'[o].members))
        BY <3>4, <4>1 DEF Moved
      <4> QED
        BY <1>1, <3>1, <3>2, <4>1, <4>2, CountSet
    <3> QED
      BY <3>2, <3>3, <3>4
  <2>2. CASE OnTimer(h) \/ RemoveVenue(h)
    <3>1. UNCHANGED <<counts, total, inner, obj, made, unsaved>>
      BY <2>2 DEF OnTimer, RemoveVenue, count, tables
    <3> QED
      BY <1>2, <3>1
  <2>3. CASE RemoveInner(h)
    <3>1. UNCHANGED <<counts, total, obj, made, unsaved>>
      BY <2>3 DEF RemoveInner, count
    <3>2. PICK o \in sweep[h] : inner' = [inner EXCEPT ![h][obj[o].venue] = Nil]
      BY <2>3 DEF RemoveInner
    <3>3. inner \in [Handlers -> [Venues -> 1 .. made \cup {Nil}]]
      BY DEF Before, VenueInv, Typed
    <3>4. \A g \in Handlers, x \in Venues :
            inner'[g][x] # Nil => inner'[g][x] = inner[g][x]
      BY <3>2, <3>3
    <3> QED
      BY <1>1, <3>1, <3>4, CountSame
  <2> QED
    BY <1>5, <2>1, <2>2, <2>3 DEF Inner
<1>6. ASSUME NEW h \in Handlers, NEW o \in 1 .. made, GameOver(h, o)
      PROVE  CountInv'
  <2>1. UNCHANGED <<made, inner>> /\ unsaved \subseteq unsaved'
        /\ inner[h][obj[o].venue] = o /\ SetPlayerCount(o, Cardinality(obj[o].members))
    BY <1>6 DEF GameOver, tables
  <2>2. ObjectKept /\ \A q \in 1 .. made : obj'[q].members = obj[q].members
    BY <1>6, GameOverObject
  <2>3. obj[o].venue \in Venues /\ o # Nil
    BY VenueAssumption DEF Before, LockInv, VenueInv, Typed, Object
  <2>4. obj[o].handler \in Handlers
    BY <2>1, <2>3, TableEntry
  <2>5. SetPlayerCount(o, Cardinality(obj'[o].members))
    BY <2>1, <2>2
  <2> QED
    BY <1>1, <2>1, <2>2, <2>4, <2>5, CountSet
<1>7. ASSUME NEW o \in 1 .. made, Elapse(o)
      PROVE  CountInv'
  <2>1. UNCHANGED <<counts, total, inner, made, unsaved>>
    BY <1>7 DEF Elapse, count, tables
  <2> QED
    BY <1>1, <1>7, <2>1, ElapseObject, CountSame
<1>8. CASE UNCHANGED vars
  BY <1>2, <1>8 DEF vars
<1> QED
  BY <1>3, <1>4, <1>5, <1>6, <1>7, <1>8 DEF Next

LEMMA InitCounts ==
  ASSUME Init
  PROVE  HandlerInv /\ CountInv
<1>1. made = 0 /\ 1 .. made = {}
  BY DEF Init
<1>2. \A w \in Outers : th[w].pc = "idle"
  BY DEF Init, Idle
<1>3. HandlerInv
  <2>1. \A h \in Handlers : queue[h] = <<>>
    BY DEF Init
  <2>2. \A S : <<>> \in Seq(S)
    OBVIOUS
  <2>3. QueueInv
    BY <2>1, <2>2 DEF QueueInv
  <2> QED
    BY <1>1, <1>2, <2>3 DEF HandlerInv, EmptyInv, LoadedInv
<1>4. /\ counts = [h \in Handlers |-> [v \in Venues |-> 0]] /\ total = [h \in Handlers |-> 0]
      /\ \A h \in Handlers, v \in Venues : inner[h][v] = Nil
  BY DEF Init
<1>5. counts \in [Handlers -> [Venues -> Nat]] /\ total \in [Handlers -> Int]
  BY <1>4
<1>6. \A h \in Handlers : total[h] = SumFunctionOnSet(counts[h], Venues)
  <2> SUFFICES ASSUME NEW h \in Handlers
               PROVE  total[h] = SumFunctionOnSet(counts[h], Venues)
    OBVIOUS
  <2>1. IsFiniteSet(Venues) /\ \A v \in Venues : counts[h][v] = 0
    BY <1>4, VenueAssumption
  <2>2. SumFunctionOnSet(counts[h], Venues) = 0
    BY <2>1, SumZero
  <2> QED
    BY <1>4, <2>2
<1>7. CountsExact
  BY <1>4, <1>6 DEF CountsExact
<1>8. \A h \in Handlers, v \in Venues : counts[h][v] = 0
  BY <1>4
<1> QED
  BY <1>3, <1>5, <1>7, <1>8 DEF CountInv

\* setPlayerCount, addVenue and removeVenue of VenueInnerHandler: the total that
\* distributeHandler balances with is the sum of the counts, and those of the venues
\* in the table are exact, for any number of handlers, venues and players.
THEOREM VenueCountsExact == Spec => []CountsExact
<1>1. Init => HandlerInv /\ CountInv
  BY InitCounts
<1>2. ASSUME LockInv, VenueInv, HandlerInv /\ CountInv, [Next]_vars
      PROVE  (HandlerInv /\ CountInv)'
  BY <1>2, NextHandlers, NextCounts DEF Before
<1>3. HandlerInv /\ CountInv => CountsExact
  BY DEF CountInv
<1> QED
  BY <1>1, <1>2, <1>3, LockInvariant, VenueInvariant, PTL DEF Spec


-----------------------------------------------------------------------------
(* Requests and the objects they load *)

LEMMA PendingFinite ==
  ASSUME LockInv
  PROVE  IsFiniteSet(Pending) /\ Cardinality(Pending) \in Nat
<1>1. asked \in Nat
  BY DEF LockInv
<1>2. IsFiniteSet(1 .. asked)
  BY <1>1, FS_Interval
<1>3. IsFiniteSet(Pending)
  BY <1>2, FS_Subset DEF Pending
<1> QED
  BY <1>3, FS_CardinalityType

LEMMA PendingFiniteNext ==
  ASSUME LockInv'
  PROVE  Cardinality(Pending') \in Nat
<1>1. asked' \in Nat
  BY DEF LockInv
<1>2. IsFiniteSet(1 .. asked')
  BY <1>1, FS_Interval
<1>3. IsFiniteSet(Pending')
  BY <1>2, FS_Subset DEF Pending
<1> QED
  BY <1>3, FS_CardinalityType

\* The threads keep their requests, and none has still to load that was done.
LEMMA SameTickets ==
  ASSUME LockInv, TicketInv, th' = th, asked' \in Nat, asked' >= asked
  PROVE  TicketInv' /\ Pending' \subseteq Pending
<1>1. TicketInv'
  BY DEF TicketInv
<1>2. Pending' \subseteq Pending
  <2> SUFFICES ASSUME NEW i \in Pending'
               PROVE  i \in Pending
    OBVIOUS
  <2>1. PICK w \in Outers : th[w].id = i /\ th[w].pc \in Early
    BY DEF Pending
  <2>2. i \in 1 .. asked
    BY <2>1 DEF LockInv, Early
  <2> QED
    BY <2>1, <2>2 DEF Pending
<1> QED
  BY <1>1, <1>2

LEMMA TicketMoves ==
  ASSUME LockInv, TicketInv, NEW w \in Outers, NEW t, th' = [th EXCEPT ![w] = t],
         asked' = asked, t.id = Nil \/ (t.id = th[w].id /\ t.pc # "idle"),
         t.pc \in Early => th[w].pc \in Early /\ t.id = th[w].id
  PROVE  /\ TicketInv' /\ Pending' \subseteq Pending
         /\ t.pc \notin Early => th[w].id = Nil \/ th[w].id \notin Pending'
<1>1. th'[w] = t /\ \A u \in Outers : u # w => th'[u] = th[u]
  BY DEF LockInv
<1>2. TicketInv'
  <2>1. \A u \in Outers : th'[u].pc = "idle" => th'[u].id = Nil
    BY <1>1 DEF TicketInv
  <2>2. ASSUME NEW x \in Outers, NEW u \in Outers, th'[x].id # Nil, th'[x].id = th'[u].id
        PROVE  x = u
    <3>1. th'[x].id = th[x].id /\ th'[u].id = th[u].id
      BY <1>1, <2>2
    <3> QED
      BY <2>2, <3>1 DEF TicketInv
  <2> QED
    BY <2>1, <2>2 DEF TicketInv
<1>3. Pending' \subseteq Pending
  <2> SUFFICES ASSUME NEW i \in Pending'
               PROVE  i \in Pending
    OBVIOUS
  <2>1. PICK u \in Outers : th'[u].id = i /\ th'[u].pc \in Early
    BY DEF Pending
  <2>2. th[u].id = i /\ th[u].pc \in Early /\ i \in 1 .. asked
    BY <1>1, <2>1 DEF Pending
  <2> QED
    BY <2>2 DEF Pending
<1>4. ASSUME t.pc \notin Early, th[w].id # Nil
      PROVE  th[w].id \notin Pending'
  <2> SUFFICES ASSUME th[w].id \in Pending'
               PROVE  FALSE
    OBVIOUS
  <2>1. PICK u \in Outers : th'[u].id = th[w].id /\ th'[u].pc \in Early
    BY DEF Pending
  <2>2. u # w /\ th[u].id = th[w].id
    BY <1>1, <1>4, <2>1
  <2> QED
    BY <1>4, <2>2 DEF TicketInv
<1> QED
  BY <1>2, <1>3, <1>4

\* What is left of the bound when no object is made.
LEMMA BoundKept ==
  ASSUME LockInv, LockInv', BoundInv, Pending' \subseteq Pending, made' = made, asked' >= asked
  PROVE  made' + Cardinality(Pending') <= asked'
<1>1. /\ IsFiniteSet(Pending) /\ Cardinality(Pending) \in Nat /\ Cardinality(Pending') \in Nat
  BY PendingFinite, PendingFiniteNext
<1>2. Cardinality(Pending') <= Cardinality(Pending)
  BY <1>1, FS_Subset
<1>3. made \in Nat /\ asked \in Nat /\ asked' \in Nat /\ made + Cardinality(Pending) <= asked
  BY DEF LockInv, BoundInv
<1> QED
  BY <1>1, <1>2, <1>3

LEMMA AskBound ==
  ASSUME LockInv, LockInv', BoundInv, Ask
  PROVE  BoundInv'
<1>1. /\ asked' = asked + 1 /\ asked < MaxRequests
      /\ UNCHANGED <<made, faults, over, loading, unsaved>>
  BY ZenonT(60) DEF Ask, EnterVenue, LeaveVenue, HandleMessage, LeaveOrReply, NewRequest, tables
<1>2. asked \in Nat /\ MaxRequests \in Nat /\ asked' \in Nat /\ made \in Nat
  BY VenueAssumption DEF LockInv
<1>3. asked' <= MaxRequests /\ asked' >= asked
  BY <1>1, <1>2
<1>4. CASE th' = th
  <2>1. TicketInv' /\ Pending' \subseteq Pending
    BY <1>2, <1>3, <1>4, SameTickets DEF BoundInv
  <2>2. made' + Cardinality(Pending') <= asked'
    BY <1>1, <1>3, <2>1, BoundKept
  <2> QED
    BY <1>1, <1>3, <2>1, <2>2 DEF BoundInv
<1>5. CASE th' # th
  <2> DEFINE t == [[Idle EXCEPT !.id = asked + 1] EXCEPT !.pc = "get"]
             n == asked + 1
  <2>1. PICK w \in Outers : th[w].pc = "idle" /\ th' = [th EXCEPT ![w] = t]
    BY <1>5 DEF Ask, EnterVenue, LeaveVenue, HandleMessage, Goto
  <2>2. t.pc = "get" /\ t.id = n
    BY DEF Idle
  <2> HIDE DEF t
  <2>3. th'[w] = t /\ \A u \in Outers : u # w => th'[u] = th[u]
    BY <2>1 DEF LockInv
  <2>4. \A u \in Outers : th[u].id # Nil => th[u].id \in 1 .. asked
    BY DEF LockInv, BoundInv, TicketInv
  <2>5. TicketInv'
    <3>1. \A u \in Outers : th'[u].pc = "idle" => th'[u].id = Nil
      BY <2>2, <2>3 DEF BoundInv, TicketInv
    <3>2. n \notin 1 .. asked /\ n # Nil
      BY <1>2, VenueAssumption
    <3>3. ASSUME NEW x \in Outers, NEW u \in Outers, th'[x].id # Nil, th'[x].id = th'[u].id
          PROVE  x = u
      <4>1. CASE x = w
        <5>1. th'[u].id = n
          BY <2>2, <2>3, <3>3, <4>1
        <5> QED
          BY <2>3, <2>4, <3>2, <4>1, <5>1
      <4>2. CASE u = w
        <5>1. th'[x].id = n
          BY <2>2, <2>3, <3>3, <4>2
        <5> QED
          BY <2>3, <2>4, <3>2, <4>2, <5>1
      <4>3. CASE x # w /\ u # w
        BY <2>3, <3>3, <4>3 DEF BoundInv, TicketInv
      <4> QED
        BY <4>1, <4>2, <4>3
    <3> QED
      BY <3>1, <3>3 DEF TicketInv
  <2>6. Pending' \subseteq Pending \cup {n}
    <3> SUFFICES ASSUME NEW i \in Pending', i # n
                 PROVE  i \in Pending
      OBVIOUS
    <3>1. PICK u \in Outers : th'[u].id = i /\ th'[u].pc \in Early
      BY DEF Pending
    <3>2. u # w /\ th[u].id = i /\ th[u].pc \in Early
      BY <2>2, <2>3, <3>1
    <3>3. i \in 1 .. asked
      BY <3>2 DEF LockInv, Early
    <3> QED
      BY <3>2, <3>3 DEF Pending
  <2>7. made' + Cardinality(Pending') <= asked'
    <3>1. /\ IsFiniteSet(Pending) /\ Cardinality(Pending) \in Nat
          /\ Cardinality(Pending') \in Nat
      BY PendingFinite, PendingFiniteNext
    <3>2. /\ IsFiniteSet(Pending \cup {n})
          /\ Cardinality(Pending \cup {n}) <= Cardinality(Pending) + 1
          /\ Cardinality(Pending \cup {n}) \in Nat
      <4>1. /\ IsFiniteSet(Pending \cup {n})
            /\ Cardinality(Pending \cup {n}) =
                 IF n \in Pending THEN Cardinality(Pending) ELSE Cardinality(Pending) + 1
        BY <3>1, FS_AddElement
      <4> QED
        BY <3>1, <4>1
    <3>3. Cardinality(Pending') <= Cardinality(Pending \cup {n})
      BY <2>6, <3>2, FS_Subset
    <3>4. made + Cardinality(Pending) <= asked
      BY DEF BoundInv
    <3> QED
      BY <1>1, <1>2, <3>1, <3>2, <3>3, <3>4
  <2> QED
    BY <1>1, <1>3, <2>5, <2>7 DEF BoundInv
<1> QED
  BY <1>4, <1>5


\* A step of an outer thread: it goes on with its request or is done with it, and
\* makes an object only as it leaves "load".
LEMMA OuterMoves ==
  ASSUME LockInv, NEW w \in Outers, Outer(w)
  PROVE  \E t :
    /\ th' = [th EXCEPT ![w] = t] /\ asked' = asked
    /\ t.id = Nil \/ (t.id = th[w].id /\ t.pc # "idle")
    /\ t.pc \in Early => th[w].pc \in Early /\ t.id = th[w].id
    /\ \/ made' = made
       \/ made' = made + 1 /\ th[w].pc = "load" /\ t.pc \notin Early
<1>1. th[w] \in Thread
  BY DEF LockInv
<1>2. Idle.id = Nil /\ Idle.pc = "idle" /\ "idle" \notin Early
  BY DEF Idle, Early
<1> DEFINE Good(t) ==
      /\ th' = [th EXCEPT ![w] = t] /\ asked' = asked
      /\ t.id = Nil \/ (t.id = th[w].id /\ t.pc # "idle")
      /\ t.pc \in Early => th[w].pc \in Early /\ t.id = th[w].id
      /\ \/ made' = made
         \/ made' = made + 1 /\ th[w].pc = "load" /\ t.pc \notin Early
<1>3. CASE th' = [th EXCEPT ![w] = Idle] /\ asked' = asked /\ made' = made
  <2>1. Good(Idle)
    BY <1>2, <1>3
  <2> QED
    BY <2>1
<1>4. ASSUME NEW u \in Thread, NEW pc \in Pcs, Goto(w, u, pc), u.id = th[w].id, pc # "idle",
             asked' = asked, pc \in Early => th[w].pc \in Early,
             \/ made' = made
             \/ made' = made + 1 /\ th[w].pc = "load" /\ pc \notin Early
      PROVE  \E t : Good(t)
  <2> DEFINE t == [u EXCEPT !.pc = pc]
  <2>1. t.pc = pc /\ t.id = th[w].id /\ th' = [th EXCEPT ![w] = t]
    BY <1>4 DEF Thread, Goto
  <2> HIDE DEF t
  <2>2. Good(t)
    BY <1>4, <2>1
  <2> QED
    BY <2>2
<1>5. /\ "get" \in Early /\ "query" \in Early /\ "lock" \in Early /\ "recheck" \in Early
      /\ "load" \in Early /\ "distribute" \notin Early /\ "insert" \notin Early
      /\ "publish" \notin Early /\ "unlock" \notin Early /\ "dispatch" \notin Early
  BY DEF Early
<1>6. Pcs = {"idle", "get", "query", "lock", "recheck", "load", "distribute",
             "insert", "publish", "unlock", "dispatch"}
  BY DEF Pcs
<1>7. mgr[VenueOf(w)] \in Nat \cup {Nil} \/ th[w].pc = "idle"
  BY DEF LockInv, VenueOf, Request
<1>8. ASSUME NEW o \in Nat \cup {Nil}
      PROVE  [th[w] EXCEPT !.obj = o] \in Thread /\ [th[w] EXCEPT !.obj = o].id = th[w].id
  BY <1>1 DEF Thread
<1> HIDE DEF Good
<1>9. CASE GetVenue(w)
  <2>1. th[w].pc = "get" /\ asked' = asked /\ made' = made
    BY <1>9 DEF GetVenue
  <2>2. \/ Goto(w, th[w], "query")
        \/ Goto(w, [th[w] EXCEPT !.obj = mgr[VenueOf(w)]], "dispatch")
        \/ th' = [th EXCEPT ![w] = Idle]
    BY <1>9 DEF GetVenue, Reply
  <2>3. mgr[VenueOf(w)] \in Nat \cup {Nil}
    BY <1>7, <2>1
  <2>4. CASE Goto(w, th[w], "query")
    BY <1>1, <1>4, <1>5, <1>6, <2>1, <2>4 DEF Good
  <2>5. CASE Goto(w, [th[w] EXCEPT !.obj = mgr[VenueOf(w)]], "dispatch")
    BY <1>4, <1>5, <1>6, <1>8, <2>1, <2>3, <2>5 DEF Good
  <2> QED
    BY <1>3, <2>1, <2>2, <2>4, <2>5 DEF Good
<1>10. CASE QueryVenue(w)
  <2>1. th[w].pc = "query" /\ asked' = asked /\ made' = made
    BY <1>10 DEF QueryVenue
  <2>2. Goto(w, th[w], "lock") \/ th' = [th EXCEPT ![w] = Idle]
    BY <1>10 DEF QueryVenue, Reply
  <2>3. CASE Goto(w, th[w], "lock")
    BY <1>1, <1>4, <1>5, <1>6, <2>1, <2>3 DEF Good
  <2> QED
    BY <1>3, <2>1, <2>2, <2>3 DEF Good
<1>11. CASE LockLoading(w)
  <2> DEFINE u == [th[w] EXCEPT !.waits = @ + 1]
  <2>1. th[w].pc = "lock" /\ asked' = asked /\ made' = made
    BY <1>11 DEF LockLoading
  <2>2. \/ Goto(w, th[w], "recheck")
        \/ Goto(w, u, "lock")
        \/ th' = [th EXCEPT ![w] = Idle]
    BY <1>11 DEF LockLoading, Reply
  <2>3. u \in Thread /\ u.id = th[w].id
    BY <1>1 DEF Thread
  <2> HIDE DEF u
  <2>4. CASE Goto(w, th[w], "recheck")
    BY <1>1, <1>4, <1>5, <1>6, <2>1, <2>4 DEF Good
  <2>5. CASE Goto(w, u, "lock")
    BY <1>4, <1>5, <1>6, <2>1, <2>3, <2>5 DEF Good
  <2> QED
    BY <1>3, <2>1, <2>2, <2>4, <2>5 DEF Good
<1>12. CASE Recheck(w)
  <2> DEFINE pc == IF mgr[VenueOf(w)] = Nil THEN "load" ELSE "unlock"
  <2>1. th[w].pc = "recheck" /\ asked' = asked /\ made' = made
        /\ Goto(w, [th[w] EXCEPT !.obj = mgr[VenueOf(w)]], pc)
    BY <1>12 DEF Recheck
  <2>2. mgr[VenueOf(w)] \in Nat \cup {Nil}
    BY <1>7, <2>1
  <2>3. pc \in {"load", "unlock"}
    OBVIOUS
  <2> HIDE DEF pc
  <2> QED
    BY <1>4, <1>5, <1>6, <1>8, <2>1, <2>2, <2>3 DEF Good
<1>13. CASE LoadVenue(w)
  <2>1. th[w].pc = "load" /\ asked' = asked
    BY <1>13 DEF LoadVenue
  <2>2. \/ Goto(w, th[w], "unlock") /\ made' = made
        \/ Goto(w, [th[w] EXCEPT !.obj = made + 1], "distribute") /\ made' = made + 1
    BY <1>13 DEF LoadVenue
  <2>3. CASE Goto(w, th[w], "unlock") /\ made' = made
    BY <1>1, <1>4, <1>5, <1>6, <2>1, <2>3 DEF Good
  <2>4. CASE Goto(w, [th[w] EXCEPT !.obj = made + 1], "distribute") /\ made' = made + 1
    <3>1. made + 1 \in Nat \cup {Nil}
      BY DEF LockInv
    <3> QED
      BY <1>4, <1>5, <1>6, <1>8, <2>1, <2>4, <3>1 DEF Good
  <2> QED
    BY <2>2, <2>3, <2>4 DEF Good
<1>14. CASE DistributeHandler(w)
  <2>1. asked' = asked /\ made' = made
    BY <1>14 DEF DistributeHandler
  <2>2. PICK h \in Handlers : Goto(w, [th[w] EXCEPT !.handler = h], "insert")
    BY <1>14 DEF DistributeHandler
  <2> DEFINE u == [th[w] EXCEPT !.handler = h]
  <2>3. u \in Thread /\ u.id = th[w].id
    BY <1>1 DEF Thread
  <2> HIDE DEF u
  <2>4. Goto(w, u, "insert")
    BY <2>2 DEF u
  <2> QED
    BY <1>4, <1>5, <1>6, <2>1, <2>3, <2>4 DEF Good
<1>15. CASE AddInner(w)
  <2>1. asked' = asked /\ made' = made /\ Goto(w, th[w], "publish")
    BY <1>15 DEF AddInner
  <2> QED
    BY <1>1, <1>4, <1>5, <1>6, <2>1 DEF Good
<1>16. CASE AddVenue(w)
  <2>1. asked' = asked /\ made' = made /\ Goto(w, th[w], "unlock")
    BY <1>16 DEF AddVenue
  <2> QED
    BY <1>1, <1>4, <1>5, <1>6, <2>1 DEF Good
<1>17. CASE UnlockLoading(w)
  <2>1. asked' = asked /\ made' = made
        /\ (Goto(w, th[w], "dispatch") \/ th' = [th EXCEPT ![w] = Idle])
    BY <1>17 DEF UnlockLoading, Reply
  <2>2. CASE Goto(w, th[w], "dispatch")
    BY <1>1, <1>4, <1>5, <1>6, <2>1, <2>2 DEF Good
  <2> QED
    BY <1>3, <2>1, <2>2 DEF Good
<1>18. CASE Dispatch(w)
  BY <1>3, <1>18 DEF Dispatch, Good
<1> QED
  BY <1>9, <1>10, <1>11, <1>12, <1>13, <1>14, <1>15, <1>16, <1>17, <1>18 DEF Outer

\* The database and the set of venues that are being loaded.
LEMMA SetsKept ==
  ASSUME LockInv, VenueInv, BoundInv, [Next]_vars
  PROVE  /\ faults' \in Nat
         /\ over' \subseteq Venues /\ loading' \subseteq Venues /\ unsaved' \subseteq Venues
<1>1. /\ faults \in Nat
      /\ over \subseteq Venues /\ loading \subseteq Venues /\ unsaved \subseteq Venues
  BY DEF BoundInv
<1>2. faults + 1 \in Nat
  BY <1>1
<1>3. CASE Ask
  BY <1>1, <1>3 DEF Ask, EnterVenue, LeaveVenue, HandleMessage, tables
<1>4. ASSUME NEW w \in Outers, Outer(w)
      PROVE  /\ faults' \in Nat
             /\ over' \subseteq Venues /\ loading' \subseteq Venues /\ unsaved' \subseteq Venues
  <2>1. CASE LockLoading(w)
    <3>1. /\ UNCHANGED <<over, faults, unsaved>> /\ th[w].pc = "lock"
          /\ loading' \subseteq loading \cup {VenueOf(w)}
      BY <2>1 DEF LockLoading
    <3>2. VenueOf(w) \in Venues
      BY <3>1 DEF LockInv, VenueOf, Request
    <3> QED
      BY <1>1, <3>1, <3>2
  <2>2. ~LockLoading(w) =>
          /\ loading' \subseteq loading /\ UNCHANGED <<over, unsaved>>
          /\ faults' = faults \/ faults' = faults + 1
    BY <1>4 DEF Outer, GetVenue, QueryVenue, Recheck, LoadVenue, DistributeHandler,
                AddInner, AddVenue, UnlockLoading, Dispatch, tables, Fail
  <2> QED
    BY <1>1, <1>2, <2>1, <2>2
<1>5. ASSUME NEW h \in Handlers, Inner(h)
      PROVE  UNCHANGED <<over, loading, faults, unsaved>>
  BY <1>5 DEF Inner, Execute, OnTimer, RemoveInner, RemoveVenue, tables
<1>6. ASSUME NEW h \in Handlers, NEW o \in 1 .. made, GameOver(h, o)
      PROVE  /\ faults' \in Nat
             /\ over' \subseteq Venues /\ loading' \subseteq Venues /\ unsaved' \subseteq Venues
  <2>1. obj[o].venue \in Venues
    BY DEF VenueInv, Typed, Object
  <2>2. /\ loading' = loading
        /\ over' \subseteq over \cup {obj[o].venue} /\ unsaved' \subseteq unsaved \cup {obj[o].venue}
        /\ faults' = faults \/ faults' = faults + 1
    BY <1>6 DEF GameOver, tables, Fail
  <2> QED
    BY <1>1, <1>2, <2>1, <2>2
<1>7. ASSUME NEW o \in 1 .. made, Elapse(o)
      PROVE  UNCHANGED <<over, loading, faults, unsaved>>
  BY <1>7 DEF Elapse, tables
<1>8. CASE UNCHANGED vars
  BY <1>1, <1>8 DEF vars
<1> QED
  BY <1>1, <1>3, <1>4, <1>5, <1>6, <1>7, <1>8 DEF Next


LEMMA OuterBound ==
  ASSUME LockInv, LockInv', BoundInv, NEW w \in Outers, Outer(w)
  PROVE  asked' = asked /\ TicketInv' /\ made' + Cardinality(Pending') <= asked'
<1>1. PICK t :
    /\ th' = [th EXCEPT ![w] = t] /\ asked' = asked
    /\ t.id = Nil \/ (t.id = th[w].id /\ t.pc # "idle")
    /\ t.pc \in Early => th[w].pc \in Early /\ t.id = th[w].id
    /\ \/ made' = made
       \/ made' = made + 1 /\ th[w].pc = "load" /\ t.pc \notin Early
  BY OuterMoves
<1>2. /\ TicketInv' /\ Pending' \subseteq Pending
      /\ t.pc \notin Early => th[w].id = Nil \/ th[w].id \notin Pending'
  BY <1>1, TicketMoves DEF BoundInv
<1>3. asked \in Nat /\ made \in Nat /\ made + Cardinality(Pending) <= asked
  BY DEF LockInv, BoundInv
<1>4. CASE made' = made
  <2>1. asked' >= asked
    BY <1>1, <1>3
  <2> QED
    BY <1>1, <1>2, <1>4, <2>1, BoundKept
<1>5. CASE made' = made + 1 /\ th[w].pc = "load" /\ t.pc \notin Early
  <2> DEFINE i == th[w].id
  <2>1. i \in 1 .. asked /\ i # Nil
    BY <1>3, <1>5, VenueAssumption DEF LockInv
  <2>2. i \in Pending
    BY <1>5, <2>1 DEF Pending, Early
  <2>3. Pending' \subseteq Pending \ {i}
    BY <1>2, <1>5, <2>1
  <2> HIDE DEF i
  <2>4. /\ IsFiniteSet(Pending) /\ Cardinality(Pending) \in Nat
        /\ Cardinality(Pending') \in Nat
    BY PendingFinite, PendingFiniteNext
  <2>5. /\ IsFiniteSet(Pending \ {i})
        /\ Cardinality(Pending \ {i}) = Cardinality(Pending) - 1
    BY <2>2, <2>4, FS_RemoveElement
  <2>6. Cardinality(Pending') <= Cardinality(Pending \ {i})
    BY <2>3, <2>5, FS_Subset
  <2>7. made' + Cardinality(Pending') <= asked
    BY <1>3, <1>5, <2>4, <2>5, <2>6
  <2> QED
    BY <1>1, <1>2, <2>7
<1> QED
  BY <1>1, <1>4, <1>5

LEMMA NextBound ==
  ASSUME LockInv, LockInv', VenueInv, BoundInv, [Next]_vars
  PROVE  BoundInv'
<1>1. /\ faults' \in Nat
      /\ over' \subseteq Venues /\ loading' \subseteq Venues /\ unsaved' \subseteq Venues
  BY SetsKept
<1>2. CASE Ask
  BY <1>2, AskBound
<1>3. ASSUME NEW w \in Outers, Outer(w)
      PROVE  BoundInv'
  BY <1>1, <1>3, OuterBound DEF BoundInv
<1>4. CASE UNCHANGED <<th, asked, made>>
  <2>1. asked' \in Nat /\ asked' >= asked
    BY <1>4 DEF LockInv
  <2>2. TicketInv' /\ Pending' \subseteq Pending
    BY <1>4, <2>1, SameTickets DEF BoundInv
  <2>3. made' + Cardinality(Pending') <= asked'
    BY <1>4, <2>1, <2>2, BoundKept
  <2> QED
    BY <1>1, <1>4, <2>2, <2>3 DEF BoundInv
<1>5. ASSUME NEW h \in Handlers, Inner(h)
      PROVE  UNCHANGED <<th, asked, made>>
  BY <1>5 DEF Inner, Execute, OnTimer, RemoveInner, RemoveVenue
<1>6. ASSUME NEW h \in Handlers, NEW o \in 1 .. made, GameOver(h, o)
      PROVE  UNCHANGED <<th, asked, made>>
  BY <1>6 DEF GameOver
<1>7. ASSUME NEW o \in 1 .. made, Elapse(o)
      PROVE  UNCHANGED <<th, asked, made>>
  BY <1>7 DEF Elapse
<1>8. CASE UNCHANGED vars
  BY <1>4, <1>8 DEF vars
<1> QED
  BY <1>2, <1>3, <1>4, <1>5, <1>6, <1>7, <1>8 DEF Next

LEMMA InitBound ==
  ASSUME Init
  PROVE  BoundInv
<1>1. /\ made = 0 /\ asked = 0 /\ faults = 0
      /\ over = {} /\ loading = {} /\ unsaved = {}
  BY DEF Init
<1>2. \A w \in Outers : th[w].id = Nil /\ th[w].pc = "idle"
  BY DEF Init, Idle
<1>3. TicketInv
  BY <1>2 DEF TicketInv
<1>4. Pending = {}
  BY <1>1 DEF Pending
<1>5. Cardinality(Pending) = 0
  BY <1>4, FS_EmptySet
<1> QED
  BY <1>1, <1>3, <1>5, VenueAssumption DEF BoundInv

LEMMA TypesFit ==
  ASSUME LockInv, VenueInv, CountInv, BoundInv
  PROVE  TypeOK
<1>1. made \in 0 .. asked /\ asked \in 0 .. MaxRequests /\ faults \in Nat
  <2>1. made \in Nat /\ asked \in Nat /\ Cardinality(Pending) \in Nat /\ MaxRequests \in Nat
    BY PendingFinite, VenueAssumption DEF LockInv
  <2> QED
    BY <2>1 DEF BoundInv
<1>2. /\ over \subseteq Venues /\ loading \subseteq Venues /\ unsaved \subseteq Venues
      /\ req \in [1 .. asked -> Request] /\ th \in [Outers -> Thread]
      /\ counts \in [Handlers -> [Venues -> Nat]]
  BY DEF LockInv, BoundInv, CountInv
<1>3. total \in [Handlers -> Nat]
  <2>1. total \in [Handlers -> Int]
    BY DEF CountInv
  <2>2. ASSUME NEW h \in Handlers
        PROVE  total[h] \in Nat
    <3>1. IsFiniteSet(Venues) /\ \A v \in Venues : counts[h][v] \in Nat
      BY <1>2, VenueAssumption
    <3>2. SumFunctionOnSet(counts[h], Venues) \in Nat
      BY <3>1, SumNat
    <3> QED
      BY <3>2 DEF CountInv, CountsExact
  <2> QED
    BY <2>1, <2>2
<1>4. queue \in [Handlers -> Seq(Closure)]
  <2>1. queue \in [Handlers -> Seq(Fit)]
    BY DEF VenueInv, Typed
  <2>2. Fit \subseteq Closure
    <3> SUFFICES ASSUME NEW c \in Fit
                 PROVE  c \in Closure
      OBVIOUS
    <3>1. c \in [id : 1 .. asked, obj : 1 .. made]
      BY DEF Fit
    <3>2. 1 .. asked \subseteq Requests /\ 1 .. made \subseteq Objs
      BY <1>1, VenueAssumption DEF Requests, Objs
    <3> QED
      BY <3>1, <3>2 DEF Closure
  <2>3. Seq(Fit) \subseteq Seq(Closure)
    <3> HIDE DEF Fit, Closure
    <3> QED
      BY <2>2
  <2> QED
    BY <2>1, <2>3
<1> QED
  BY <1>1, <1>2, <1>3, <1>4 DEF TypeOK, VenueInv, Typed

\* The state has its type; a request loads one object at most, so the objects are
\* never more than the requests, and setPlayerCount never takes more from _totalCount
\* than is in it.
THEOREM VenueTypeOK == Spec => []TypeOK
<1>1. Init => HandlerInv /\ CountInv /\ BoundInv
  BY InitCounts, InitBound
<1>2. ASSUME LockInv, LockInv', VenueInv, HandlerInv /\ CountInv /\ BoundInv, [Next]_vars
      PROVE  (HandlerInv /\ CountInv /\ BoundInv)'
  BY <1>2, NextHandlers, NextCounts, NextBound DEF Before
<1>3. ASSUME LockInv, VenueInv, HandlerInv /\ CountInv /\ BoundInv
      PROVE  TypeOK
  BY <1>3, TypesFit
<1> QED
  BY <1>1, <1>2, <1>3, LockInvariant, VenueInvariant, PTL DEF Spec
=============================================================================
