-------------------------- MODULE VenueEntryProofs --------------------------
(***************************************************************************)
(* Proof that the loading lock of VenueManager is exclusive and is always   *)
(* given back, for any number of threads, handlers, venues and requests.    *)
(* Only LockLoading and UnlockLoading touch the lock; every other step      *)
(* leaves alone which threads are between the two, and for which venue.     *)
(***************************************************************************)
EXTENDS VenueEntry, TLAPS

Answers == {"asked", "zero", "error", "dropped"}

\* The requests there are keep their venue, and there may be new ones.
Extends ==
  /\ asked' \in Nat /\ asked <= asked' /\ req' \in [1 .. asked' -> Request]
  /\ \A i \in 1 .. asked : req'[i].venue = req[i].venue

\* A step that leaves the lock alone: no thread comes in between lockLoading and
\* unlockLoading or gets out, or turns to another request.
Calm ==
  /\ loading' = loading
  /\ \A w \in Outers : Locked(w)' <=> Locked(w)
  /\ \A w \in Outers : Locked(w) => th'[w].id = th[w].id

\* VenueOuterHandler answers a request: the request keeps its venue.
LEMMA AnswerExtends ==
  ASSUME LockInv, NEW i, NEW a \in Answers, Answer(i, a), asked' = asked
  PROVE  Extends
<1>1. req \in [1 .. asked -> Request] /\ req' = [req EXCEPT ![i].ans = a] /\ asked \in Nat
  BY DEF LockInv, Answer
<1>2. \A j \in 1 .. asked : req'[j] = IF j = i THEN [req[j] EXCEPT !.ans = a] ELSE req[j]
  BY <1>1
<1>3. \A j \in 1 .. asked : req[j] \in Request
  BY <1>1
<1>4. \A j \in 1 .. asked : req'[j] \in Request /\ req'[j].venue = req[j].venue
  BY <1>2, <1>3, ZenonT(60) DEF Request, Answers
<1>5. req' \in [1 .. asked -> Request]
  BY <1>1, <1>4
<1> QED
  BY <1>1, <1>4, <1>5 DEF Extends

\* A new request leaves the others alone.
LEMMA NewRequestExtends ==
  ASSUME LockInv, NEW k \in {"enter", "leave", "command"}, NEW p \in Players,
         NEW v \in Venues, NEW b \in BOOLEAN, NEW a \in Answers,
         NewRequest(k, p, v, b, a)
  PROVE  Extends /\ asked' = asked + 1
<1>1. req \in [1 .. asked -> Request] /\ asked \in Nat /\ asked' = asked + 1
  BY DEF LockInv, NewRequest
<1>2. [kind |-> k, player |-> p, venue |-> v, right |-> b, ans |-> a] \in Request
  BY DEF Request, Answers
<1>3. req' = [i \in 1 .. asked + 1 |->
                IF i <= asked THEN req[i]
                ELSE [kind |-> k, player |-> p, venue |-> v, right |-> b, ans |-> a]]
  BY DEF NewRequest
<1>4. \A i \in 1 .. asked + 1 : i <= asked => i \in 1 .. asked
  BY <1>1
<1>5. \A i \in 1 .. asked : req'[i] = req[i]
  BY <1>1, <1>3
<1>6. req' \in [1 .. asked + 1 -> Request]
  BY <1>1, <1>2, <1>3, <1>4
<1> QED
  BY <1>1, <1>5, <1>6 DEF Extends

\* A step that leaves the requests alone.
LEMMA SameExtends ==
  ASSUME LockInv, UNCHANGED <<req, asked>>
  PROVE  Extends
BY DEF LockInv, Extends

\* The tables a thread takes an object from.
TablesTyped == made \in Nat /\ mgr \in [Venues -> Nat \cup {Nil}]

\* A calm step keeps the invariant, whatever it does to the rest of the state.
LEMMA CalmKeeps ==
  ASSUME LockInv, Extends, Calm, TablesTyped', th' \in [Outers -> Thread],
         \A w \in Outers : th'[w].pc # "idle" => th'[w].id \in 1 .. asked'
  PROVE  LockInv'
<1>1. \A w \in Outers : Locked(w) => th[w].id \in 1 .. asked
  BY DEF LockInv, Locked
<1>2. \A w \in Outers : Locked(w) => VenueOf(w)' = VenueOf(w)
  BY <1>1 DEF Calm, Extends, VenueOf
<1>3. LockHeld'
  BY <1>2 DEF Calm, LockInv, LockHeld
<1> QED
  BY <1>3 DEF LockInv, Extends, TablesTyped

\* Steps of the inner handlers, of the game and of the clock.
LEMMA ElsewhereKeeps ==
  ASSUME LockInv, Extends, TablesTyped', UNCHANGED <<th, loading>>
  PROVE  LockInv'
<1>1. Calm
  BY DEF Calm, Locked
<1>2. \A w \in Outers : th'[w].pc # "idle" => th'[w].id \in 1 .. asked'
  BY DEF LockInv, Extends
<1> QED
  BY <1>1, <1>2, CalmKeeps DEF LockInv

LockedPcs == {"recheck", "load", "distribute", "insert", "publish", "unlock"}

\* A step of an outer thread on one side of the lock.
LEMMA ThreadKeeps ==
  ASSUME LockInv, Extends, TablesTyped', loading' = loading,
         NEW w \in Outers, NEW t \in Thread, th' = [th EXCEPT ![w] = t],
         t.pc # "idle" => t.id \in 1 .. asked',
         t.pc \in LockedPcs <=> Locked(w), Locked(w) => t.id = th[w].id
  PROVE  LockInv'
<1>1. th \in [Outers -> Thread]
  BY DEF LockInv
<1>2. \A u \in Outers : th'[u] = IF u = w THEN t ELSE th[u]
  BY <1>1
<1>3. th' \in [Outers -> Thread]
  BY <1>1
<1>4. Calm
  BY <1>2 DEF Calm, Locked, LockedPcs
<1>5. \A u \in Outers : th'[u].pc # "idle" => th'[u].id \in 1 .. asked'
  BY <1>2 DEF LockInv, Extends
<1> QED
  BY <1>3, <1>4, <1>5, CalmKeeps

\* The thread goes on with its request, having set some of its variables.
LEMMA GotoKeeps ==
  ASSUME LockInv, Extends, TablesTyped', loading' = loading,
         NEW w \in Outers, th[w].pc # "idle",
         NEW t \in Thread, t.id = th[w].id, NEW pc \in Pcs, Goto(w, t, pc),
         pc \in LockedPcs <=> Locked(w)
  PROVE  LockInv'
<1> DEFINE s == [t EXCEPT !.pc = pc]
<1>1. s \in Thread /\ s.pc = pc /\ s.id = t.id
  BY DEF Thread
<1>2. th' = [th EXCEPT ![w] = s]
  BY DEF Goto
<1>3. s.id \in 1 .. asked'
  BY <1>1 DEF LockInv, Extends
<1> HIDE DEF s
<1> QED
  BY <1>1, <1>2, <1>3, ThreadKeeps

\* A thread without the lock is done with its request.
LEMMA IdleKeeps ==
  ASSUME LockInv, Extends, TablesTyped', loading' = loading,
         NEW w \in Outers, th' = [th EXCEPT ![w] = Idle], ~Locked(w)
  PROVE  LockInv'
<1>1. Idle \in Thread /\ Idle.pc = "idle"
  BY DEF Idle, Thread, Pcs
<1>2. Idle.pc \notin LockedPcs
  BY <1>1 DEF LockedPcs
<1> QED
  BY <1>1, <1>2, ThreadKeeps

-----------------------------------------------------------------------------
(* The initial state and the requests *)

LEMMA InitLock ==
  ASSUME Init
  PROVE  LockInv
<1>1. Idle \in Thread /\ Idle.pc = "idle"
  BY DEF Idle, Thread, Pcs
<1>2. th \in [Outers -> Thread] /\ \A w \in Outers : th[w].pc = "idle"
  BY <1>1 DEF Init
<1>3. asked = 0 /\ loading = {} /\ made = 0 /\ mgr \in [Venues -> Nat \cup {Nil}]
  BY DEF Init
<1>4. req \in [1 .. asked -> Request]
  BY <1>3 DEF Init
<1>5. LockHeld
  BY <1>2, <1>3 DEF LockHeld, Locked
<1> QED
  BY <1>2, <1>3, <1>4, <1>5 DEF LockInv

LEMMA EnterVenueLock ==
  ASSUME LockInv, NEW w \in Outers, NEW p \in Players, NEW v \in Venues,
         NEW b \in BOOLEAN, EnterVenue(w, p, v, b)
  PROVE  LockInv'
<1>1. TablesTyped' /\ loading' = loading
  BY DEF EnterVenue, TablesTyped, LockInv, tables
<1>2. CASE NewRequest("enter", p, v, b, "asked")
           /\ Goto(w, [Idle EXCEPT !.id = asked + 1], "get")
  <2> DEFINE t == [[Idle EXCEPT !.id = asked + 1] EXCEPT !.pc = "get"]
  <2>1. Extends /\ asked' = asked + 1
    BY <1>2, NewRequestExtends DEF Answers
  <2>2. asked \in Nat /\ asked + 1 \in Requests
    BY <1>2, VenueAssumption DEF LockInv, NewRequest, Requests
  <2>3. t \in Thread /\ t.pc = "get" /\ t.id = asked + 1
    BY <2>2 DEF Idle, Thread, Pcs
  <2>4. th' = [th EXCEPT ![w] = t]
    BY <1>2 DEF Goto
  <2>5. ~Locked(w) /\ t.pc \notin LockedPcs
    BY <2>3 DEF EnterVenue, Locked, LockedPcs
  <2>6. t.id \in 1 .. asked'
    BY <2>1, <2>2, <2>3
  <2> HIDE DEF t
  <2> QED
    BY <1>1, <2>1, <2>3, <2>4, <2>5, <2>6, ThreadKeeps
<1>3. CASE NewRequest("enter", p, v, b, "error") /\ UNCHANGED th
  <2>1. Extends
    BY <1>3, NewRequestExtends DEF Answers
  <2> QED
    BY <1>1, <1>3, <2>1, ElsewhereKeeps
<1> QED
  BY <1>2, <1>3 DEF EnterVenue

LEMMA LeaveLock ==
  ASSUME LockInv, NEW p \in Players, NEW v \in Venues,
         LeaveVenue(p, v) \/ HandleMessage(p, v)
  PROVE  LockInv'
<1>1. TablesTyped' /\ UNCHANGED <<th, loading>>
  BY DEF LeaveVenue, HandleMessage, TablesTyped, LockInv, tables
<1>2. \E k \in {"enter", "leave", "command"}, a \in Answers : NewRequest(k, p, v, TRUE, a)
  BY DEF LeaveVenue, HandleMessage, LeaveOrReply, Answers
<1>3. Extends
  BY <1>2, NewRequestExtends
<1> QED
  BY <1>1, <1>3, ElsewhereKeeps

-----------------------------------------------------------------------------
(* VenueManager::loadVenue *)

\* What every step of a thread with a request may rely on.
LEMMA Busy ==
  ASSUME LockInv, NEW w \in Outers
  PROVE  /\ th[w] \in Thread
         /\ Locked(w) <=> th[w].pc \in LockedPcs
         /\ th[w].pc # "idle" => VenueOf(w) \in Venues
<1>1. th[w].pc # "idle" => req[th[w].id] \in Request
  BY DEF LockInv
<1>2. th[w].pc # "idle" => VenueOf(w) \in Venues
  BY <1>1 DEF VenueOf, Request
<1> QED
  BY <1>2 DEF LockInv, Locked, LockedPcs

LEMMA GetVenueLock ==
  ASSUME LockInv, NEW w \in Outers, GetVenue(w)
  PROVE  LockInv'
<1> DEFINE o == mgr[VenueOf(w)]
           t == th[w]
<1>1. t.pc = "get" /\ t \in Thread /\ ~Locked(w) /\ VenueOf(w) \in Venues
  BY Busy DEF GetVenue, Locked
<1>2. TablesTyped' /\ loading' = loading /\ asked' = asked /\ o \in Nat \cup {Nil}
  BY <1>1 DEF GetVenue, TablesTyped, LockInv, tables
<1>3. CASE Goto(w, t, "query") /\ UNCHANGED req
  <2>1. Extends
    BY <1>2, <1>3, SameExtends
  <2> QED
    BY <1>1, <1>2, <1>3, <2>1, GotoKeeps DEF Pcs, LockedPcs
<1>4. CASE Goto(w, [t EXCEPT !.obj = o], "dispatch") /\ UNCHANGED req
  <2>1. Extends
    BY <1>2, <1>4, SameExtends
  <2> DEFINE s == [t EXCEPT !.obj = o]
  <2>2. s \in Thread /\ s.id = t.id
    BY <1>1, <1>2 DEF Thread
  <2> HIDE DEF s
  <2>3. Goto(w, s, "dispatch")
    BY <1>4 DEF s
  <2> QED
    BY <1>1, <1>2, <2>1, <2>2, <2>3, GotoKeeps DEF Pcs, LockedPcs
<1>5. CASE Reply(w, "zero")
  <2>1. Extends
    BY <1>2, <1>5, AnswerExtends DEF Reply, Answers
  <2> QED
    BY <1>1, <1>2, <1>5, <2>1, IdleKeeps DEF Reply
<1> QED
  BY <1>3, <1>4, <1>5 DEF GetVenue

LEMMA QueryVenueLock ==
  ASSUME LockInv, NEW w \in Outers, QueryVenue(w)
  PROVE  LockInv'
<1>1. th[w].pc = "query" /\ th[w] \in Thread /\ ~Locked(w)
  BY Busy DEF QueryVenue, Locked
<1>2. TablesTyped' /\ loading' = loading /\ asked' = asked
  BY DEF QueryVenue, TablesTyped, LockInv, tables
<1>3. CASE Reply(w, "error")
  <2>1. Extends
    BY <1>2, <1>3, AnswerExtends DEF Reply, Answers
  <2> QED
    BY <1>1, <1>2, <1>3, <2>1, IdleKeeps DEF Reply
<1>4. CASE Goto(w, th[w], "lock") /\ UNCHANGED req
  <2>1. Extends
    BY <1>2, <1>4, SameExtends
  <2> QED
    BY <1>1, <1>2, <1>4, <2>1, GotoKeeps DEF Pcs, LockedPcs
<1> QED
  BY <1>3, <1>4 DEF QueryVenue

\* Recheck, load, distribute, insert and publish all happen with the lock held.
LEMMA RecheckLock ==
  ASSUME LockInv, NEW w \in Outers, Recheck(w)
  PROVE  LockInv'
<1> DEFINE o == mgr[VenueOf(w)]
           t == th[w]
           s == [t EXCEPT !.obj = o]
           pc == IF o = Nil THEN "load" ELSE "unlock"
<1>1. t.pc = "recheck" /\ t \in Thread /\ Locked(w) /\ VenueOf(w) \in Venues
  BY Busy DEF Recheck, Locked
<1>2. TablesTyped' /\ loading' = loading /\ UNCHANGED <<req, asked>> /\ o \in Nat \cup {Nil}
  BY <1>1 DEF Recheck, TablesTyped, LockInv, tables
<1>3. Extends
  BY <1>2, SameExtends
<1>4. s \in Thread /\ s.id = t.id
  BY <1>1, <1>2 DEF Thread
<1>5. pc \in Pcs /\ pc \in LockedPcs
  BY DEF Pcs, LockedPcs
<1>6. Goto(w, s, pc)
  BY DEF Recheck
<1> HIDE DEF s, pc
<1> QED
  BY <1>1, <1>2, <1>3, <1>4, <1>5, <1>6, GotoKeeps

LEMMA LoadVenueLock ==
  ASSUME LockInv, NEW w \in Outers, LoadVenue(w)
  PROVE  LockInv'
<1>1. th[w].pc = "load" /\ th[w] \in Thread /\ Locked(w)
  BY Busy DEF LoadVenue, Locked
<1>2. loading' = loading /\ UNCHANGED <<req, asked>>
  BY DEF LoadVenue, tables
<1>3. Extends
  BY <1>2, SameExtends
<1>4. TablesTyped'
  BY DEF LoadVenue, TablesTyped, LockInv, tables
<1>5. CASE Goto(w, th[w], "unlock")
  BY <1>1, <1>2, <1>3, <1>4, <1>5, GotoKeeps DEF Pcs, LockedPcs
<1>6. CASE Goto(w, [th[w] EXCEPT !.obj = made + 1], "distribute")
  <2> DEFINE s == [th[w] EXCEPT !.obj = made + 1]
  <2>0. made + 1 \in Nat
    BY DEF LockInv
  <2>1. s \in Thread /\ s.id = th[w].id
    BY <1>1, <2>0 DEF Thread
  <2> HIDE DEF s
  <2>2. Goto(w, s, "distribute")
    BY <1>6 DEF s
  <2> QED
    BY <1>1, <1>2, <1>3, <1>4, <2>1, <2>2, GotoKeeps DEF Pcs, LockedPcs
<1> QED
  BY <1>5, <1>6 DEF LoadVenue

LEMMA DistributeHandlerLock ==
  ASSUME LockInv, NEW w \in Outers, DistributeHandler(w)
  PROVE  LockInv'
<1>1. th[w].pc = "distribute" /\ th[w] \in Thread /\ Locked(w)
  BY Busy DEF DistributeHandler, Locked
<1>2. TablesTyped' /\ loading' = loading /\ UNCHANGED <<req, asked>>
  BY DEF DistributeHandler, TablesTyped, LockInv
<1>3. Extends
  BY <1>2, SameExtends
<1>4. PICK h \in Handlers : Goto(w, [th[w] EXCEPT !.handler = h], "insert")
  BY DEF DistributeHandler
<1> DEFINE s == [th[w] EXCEPT !.handler = h]
<1>5. s \in Thread /\ s.id = th[w].id
  BY <1>1 DEF Thread
<1> HIDE DEF s
<1>6. Goto(w, s, "insert")
  BY <1>4 DEF s
<1> QED
  BY <1>1, <1>2, <1>3, <1>5, <1>6, GotoKeeps DEF Pcs, LockedPcs

LEMMA AddInnerLock ==
  ASSUME LockInv, NEW w \in Outers, AddInner(w)
  PROVE  LockInv'
<1>1. th[w].pc = "insert" /\ th[w] \in Thread /\ Locked(w) /\ Goto(w, th[w], "publish")
  BY Busy DEF AddInner, Locked
<1>2. TablesTyped' /\ loading' = loading /\ UNCHANGED <<req, asked>>
  BY DEF AddInner, TablesTyped, LockInv
<1>3. Extends
  BY <1>2, SameExtends
<1> QED
  BY <1>1, <1>2, <1>3, GotoKeeps DEF Pcs, LockedPcs

LEMMA AddVenueLock ==
  ASSUME LockInv, NEW w \in Outers, AddVenue(w)
  PROVE  LockInv'
<1>1. th[w].pc = "publish" /\ th[w] \in Thread /\ Locked(w) /\ Goto(w, th[w], "unlock")
  BY Busy DEF AddVenue, Locked
<1>2. th[w].obj \in Nat \cup {Nil}
  BY <1>1 DEF Thread
<1>3. mgr \in [Venues -> Nat \cup {Nil}] /\ made \in Nat /\ made' = made
  BY DEF LockInv, AddVenue
<1>4. mgr' = [mgr EXCEPT ![VenueOf(w)] = IF @ = Nil THEN th[w].obj ELSE @]
  BY DEF AddVenue
<1>5. TablesTyped'
  BY <1>2, <1>3, <1>4 DEF TablesTyped
<1>6. loading' = loading /\ UNCHANGED <<req, asked>>
  BY DEF AddVenue
<1>7. Extends
  BY <1>6, SameExtends
<1> QED
  BY <1>1, <1>5, <1>6, <1>7, GotoKeeps DEF Pcs, LockedPcs

LEMMA DispatchLock ==
  ASSUME LockInv, NEW w \in Outers, Dispatch(w)
  PROVE  LockInv'
<1>1. ~Locked(w) /\ th' = [th EXCEPT ![w] = Idle]
  BY DEF Dispatch, Locked
<1>2. TablesTyped' /\ loading' = loading /\ UNCHANGED <<req, asked>>
  BY DEF Dispatch, TablesTyped, LockInv, tables
<1>3. Extends
  BY <1>2, SameExtends
<1> QED
  BY <1>1, <1>2, <1>3, IdleKeeps

-----------------------------------------------------------------------------
(* The lock itself *)

\* Every other thread is where it was, and the requests keep their venues.
LEMMA OthersKeep ==
  ASSUME LockInv, Extends, NEW w \in Outers, NEW t \in Thread,
         th' = [th EXCEPT ![w] = t]
  PROVE  /\ th' \in [Outers -> Thread] /\ th'[w] = t
         /\ Locked(w)' <=> t.pc \in LockedPcs
         /\ \A u \in Outers \ {w} :
              /\ th'[u] = th[u] /\ (Locked(u)' <=> Locked(u))
              /\ th[u].pc # "idle" => VenueOf(u)' = VenueOf(u)
<1>1. th \in [Outers -> Thread]
  BY DEF LockInv
<1>2. th' \in [Outers -> Thread] /\ th'[w] = t /\ \A u \in Outers \ {w} : th'[u] = th[u]
  BY <1>1
<1>3. \A u \in Outers \ {w} : th[u].pc # "idle" => VenueOf(u)' = VenueOf(u)
  BY <1>2 DEF LockInv, Extends, VenueOf
<1> QED
  BY <1>2, <1>3 DEF Locked, LockedPcs

\* lockLoading: the thread comes in only if the venue is not locked, so no other
\* thread is loading it.
LEMMA LockLoadingLock ==
  ASSUME LockInv, NEW w \in Outers, LockLoading(w)
  PROVE  LockInv'
<1> DEFINE v == VenueOf(w)
<1>1. th[w].pc = "lock" /\ th[w] \in Thread /\ ~Locked(w) /\ th[w].id \in 1 .. asked
  BY Busy DEF LockLoading, Locked, LockInv
<1>2. TablesTyped' /\ asked' = asked
  BY DEF LockLoading, TablesTyped, LockInv
<1>3. CASE v \notin loading /\ loading' = loading \cup {v}
           /\ Goto(w, th[w], "recheck") /\ UNCHANGED req
  <2> DEFINE t == [th[w] EXCEPT !.pc = "recheck"]
  <2>1. t \in Thread /\ t.pc = "recheck" /\ t.id = th[w].id
    BY <1>1 DEF Thread, Pcs
  <2>2. th' = [th EXCEPT ![w] = t]
    BY <1>3 DEF Goto
  <2>3. Extends
    BY <1>2, <1>3, SameExtends
  <2> HIDE DEF t
  <2>4. /\ th' \in [Outers -> Thread] /\ th'[w] = t /\ Locked(w)'
        /\ \A u \in Outers \ {w} :
             /\ th'[u] = th[u] /\ (Locked(u)' <=> Locked(u))
             /\ th[u].pc # "idle" => VenueOf(u)' = VenueOf(u)
    BY <2>1, <2>2, <2>3, OthersKeep DEF LockedPcs
  <2>5. VenueOf(w)' = v
    BY <1>3, <2>1, <2>4 DEF VenueOf
  <2>6. \A u \in Outers \ {w} : Locked(u) => VenueOf(u)' = VenueOf(u) /\ VenueOf(u) # v
    BY <1>3, <2>4 DEF LockInv, LockHeld, Locked
  <2>7. LockHeld'
    <3>1. \A x \in loading' : \E u \in Outers : Locked(u)' /\ VenueOf(u)' = x
      <4> TAKE x \in loading'
      <4>1. CASE x = v
        BY <4>1, <2>4, <2>5
      <4>2. CASE x \in loading
        <5>1. PICK u \in Outers : Locked(u) /\ VenueOf(u) = x
          BY <4>2 DEF LockInv, LockHeld
        <5> QED
          BY <1>1, <5>1, <2>4, <2>6
      <4> QED
        BY <1>3, <4>1, <4>2
    <3>2. \A u \in Outers : Locked(u)' => VenueOf(u)' \in loading'
      BY <1>3, <2>4, <2>5, <2>6 DEF LockInv, LockHeld
    <3>3. \A x, u \in Outers : Locked(x)' /\ Locked(u)' /\ VenueOf(x)' = VenueOf(u)' => x = u
      BY <2>4, <2>5, <2>6 DEF LockInv, LockHeld
    <3> QED
      BY <3>1, <3>2, <3>3 DEF LockHeld
  <2>8. \A u \in Outers : th'[u].pc # "idle" => th'[u].id \in 1 .. asked'
    BY <1>1, <1>2, <2>1, <2>4 DEF LockInv
  <2> QED
    BY <1>2, <2>3, <2>4, <2>7, <2>8 DEF LockInv, Extends, TablesTyped
<1>4. CASE Goto(w, [th[w] EXCEPT !.waits = @ + 1], "lock") /\ UNCHANGED <<loading, req>>
  <2> DEFINE s == [th[w] EXCEPT !.waits = @ + 1]
  <2>1. s \in Thread /\ s.id = th[w].id
    BY <1>1 DEF Thread
  <2> HIDE DEF s
  <2>2. Goto(w, s, "lock")
    BY <1>4 DEF s
  <2>3. Extends
    BY <1>2, <1>4, SameExtends
  <2> QED
    BY <1>1, <1>2, <1>4, <2>1, <2>2, <2>3, GotoKeeps DEF Pcs, LockedPcs
<1>5. CASE Reply(w, "zero") /\ UNCHANGED loading
  <2>1. Extends
    BY <1>2, <1>5, AnswerExtends DEF Reply, Answers
  <2> QED
    BY <1>1, <1>2, <1>5, <2>1, IdleKeeps DEF Reply
<1> QED
  BY <1>3, <1>4, <1>5 DEF LockLoading

\* unlockLoading: the thread that goes out was the only one loading the venue.
LEMMA UnlockLoadingLock ==
  ASSUME LockInv, NEW w \in Outers, UnlockLoading(w)
  PROVE  LockInv'
<1> DEFINE v == VenueOf(w)
<1>1. th[w].pc = "unlock" /\ th[w] \in Thread /\ Locked(w) /\ th[w].id \in 1 .. asked
  BY Busy DEF UnlockLoading, Locked, LockInv
<1>2. TablesTyped' /\ asked' = asked /\ loading' = loading \ {v}
  BY DEF UnlockLoading, TablesTyped, LockInv
<1>3. \E t \in Thread : /\ th' = [th EXCEPT ![w] = t] /\ t.pc \notin LockedPcs
                        /\ t.pc # "idle" => t.id = th[w].id
                        /\ Extends
  <2>1. CASE Reply(w, "error")
    <3>1. Extends
      BY <1>2, <2>1, AnswerExtends DEF Reply, Answers
    <3>2. Idle \in Thread /\ Idle.pc = "idle" /\ Idle.pc \notin LockedPcs
      BY DEF Idle, Thread, Pcs, LockedPcs
    <3> QED
      BY <2>1, <3>1, <3>2 DEF Reply
  <2>2. CASE Goto(w, th[w], "dispatch") /\ UNCHANGED req
    <3> DEFINE s == [th[w] EXCEPT !.pc = "dispatch"]
    <3>1. s \in Thread /\ s.pc = "dispatch" /\ s.id = th[w].id
      BY <1>1 DEF Thread, Pcs
    <3>2. th' = [th EXCEPT ![w] = s]
      BY <2>2 DEF Goto
    <3>3. Extends
      BY <1>2, <2>2, SameExtends
    <3> HIDE DEF s
    <3> QED
      BY <3>1, <3>2, <3>3 DEF LockedPcs
  <2> QED
    BY <2>1, <2>2 DEF UnlockLoading
<1>4. PICK t \in Thread : /\ th' = [th EXCEPT ![w] = t] /\ t.pc \notin LockedPcs
                          /\ t.pc # "idle" => t.id = th[w].id
                          /\ Extends
  BY <1>3
<1>5. /\ th' \in [Outers -> Thread] /\ th'[w] = t /\ ~Locked(w)'
      /\ \A u \in Outers \ {w} :
           /\ th'[u] = th[u] /\ (Locked(u)' <=> Locked(u))
           /\ th[u].pc # "idle" => VenueOf(u)' = VenueOf(u)
  BY <1>4, OthersKeep
<1>6. \A u \in Outers \ {w} : Locked(u) => VenueOf(u)' = VenueOf(u) /\ VenueOf(u) # v
  BY <1>1, <1>5 DEF LockInv, LockHeld, Locked
<1>7. LockHeld'
  <2>1. \A x \in loading' : \E u \in Outers : Locked(u)' /\ VenueOf(u)' = x
    <3> TAKE x \in loading'
    <3>1. PICK u \in Outers : Locked(u) /\ VenueOf(u) = x
      BY <1>2 DEF LockInv, LockHeld
    <3>2. u # w
      BY <1>2, <3>1
    <3> QED
      BY <1>5, <1>6, <3>1, <3>2
  <2>2. \A u \in Outers : Locked(u)' => VenueOf(u)' \in loading'
    BY <1>2, <1>5, <1>6 DEF LockInv, LockHeld
  <2>3. \A x, u \in Outers : Locked(x)' /\ Locked(u)' /\ VenueOf(x)' = VenueOf(u)' => x = u
    BY <1>5, <1>6 DEF LockInv, LockHeld
  <2> QED
    BY <2>1, <2>2, <2>3 DEF LockHeld
<1>8. \A u \in Outers : th'[u].pc # "idle" => th'[u].id \in 1 .. asked'
  BY <1>1, <1>2, <1>4, <1>5 DEF LockInv
<1> QED
  BY <1>2, <1>4, <1>5, <1>7, <1>8 DEF LockInv, Extends, TablesTyped

-----------------------------------------------------------------------------
(* The threads of the inner handlers, the games and the clock *)

LEMMA ExecuteLock ==
  ASSUME LockInv, NEW h \in Handlers, Execute(h)
  PROVE  LockInv'
<1>1. TablesTyped' /\ UNCHANGED <<th, loading, asked>>
  BY DEF Execute, TablesTyped, LockInv, tables
<1>2. Extends
  <2> DEFINE i == Head(queue[h]).id
             o == Head(queue[h]).obj
  <2>1. CASE OnEnter(i, o, req[i].player)
    <3>1. \E a \in Answers : Answer(i, a)
      BY <2>1 DEF OnEnter, Answers
    <3> QED
      BY <1>1, <3>1, AnswerExtends
  <2>2. CASE OnLeave(i, o, req[i].player)
    BY <1>1, <2>2, AnswerExtends DEF OnLeave, Answers
  <2>3. CASE Answer(i, IF req[i].kind = "command" THEN "zero" ELSE "dropped")
    <3>1. \E a \in Answers : Answer(i, a)
      BY <2>3 DEF Answers
    <3> QED
      BY <1>1, <3>1, AnswerExtends
  <2> QED
    BY <2>1, <2>2, <2>3 DEF Execute
<1> QED
  BY <1>1, <1>2, ElsewhereKeeps

LEMMA OtherLock ==
  ASSUME LockInv, NEW h \in Handlers,
         \/ OnTimer(h) \/ RemoveInner(h)
         \/ \E o \in 1 .. made : GameOver(h, o) \/ Elapse(o)
  PROVE  LockInv'
<1>1. UNCHANGED <<th, loading, req, asked, made, mgr>>
  BY DEF OnTimer, RemoveInner, GameOver, Elapse, tables
<1>2. Extends /\ TablesTyped'
  BY <1>1, SameExtends DEF TablesTyped, LockInv
<1> QED
  BY <1>1, <1>2, ElsewhereKeeps

LEMMA RemoveVenueLock ==
  ASSUME LockInv, NEW h \in Handlers, RemoveVenue(h)
  PROVE  LockInv'
<1>1. UNCHANGED <<th, loading, req, asked, made>>
  BY DEF RemoveVenue
<1>2. mgr' = [mgr EXCEPT ![obj[half[h]].venue] = Nil]
  BY DEF RemoveVenue
<1>3. Extends /\ TablesTyped'
  BY <1>1, <1>2, SameExtends DEF TablesTyped, LockInv
<1> QED
  BY <1>1, <1>3, ElsewhereKeeps

-----------------------------------------------------------------------------
\* lockLoading and unlockLoading: LockInv is an invariant, for any number of outer
\* threads, handlers, venues, players, requests and failed statements.
THEOREM LockInvariant == Spec => []LockInv
<1>1. Init => LockInv
  BY InitLock
<1>2. ASSUME LockInv, [Next]_vars
      PROVE  LockInv'
  <2>1. CASE Ask
    BY <1>2, <2>1, EnterVenueLock, LeaveLock DEF Ask
  <2>2. ASSUME NEW w \in Outers, Outer(w)
        PROVE  LockInv'
    BY <1>2, <2>2, GetVenueLock, QueryVenueLock, LockLoadingLock, RecheckLock,
       LoadVenueLock, DistributeHandlerLock, AddInnerLock, AddVenueLock,
       UnlockLoadingLock, DispatchLock DEF Outer
  <2>3. ASSUME NEW h \in Handlers, Inner(h)
        PROVE  LockInv'
    BY <1>2, <2>3, ExecuteLock, OtherLock, RemoveVenueLock DEF Inner
  <2>4. CASE \E h \in Handlers, o \in 1 .. made : GameOver(h, o)
    BY <1>2, <2>4, OtherLock
  <2>5. CASE \E o \in 1 .. made : Elapse(o)
    BY <1>2, <2>5, OtherLock, VenueAssumption
  <2>6. CASE UNCHANGED vars
    <3>1. UNCHANGED <<th, loading, req, asked, made, mgr>>
      BY <2>6 DEF vars
    <3>2. Extends /\ TablesTyped'
      BY <1>2, <3>1, SameExtends DEF TablesTyped, LockInv
    <3> QED
      BY <1>2, <3>1, <3>2, ElsewhereKeeps
  <2> QED
    BY <1>2, <2>1, <2>2, <2>3, <2>4, <2>5, <2>6 DEF Next
<1> QED
  BY <1>1, <1>2, PTL DEF Spec

\* An id is in VenueManager::_loadingVenues exactly as long as one thread is between
\* lockLoading and unlockLoading for it: loading is exclusive, and neither a failed
\* load nor a venue found on the second look leaves the venue locked.
THEOREM VenueLockHeld == Spec => []LockHeld
<1>1. LockInv => LockHeld
  BY DEF LockInv
<1> QED
  BY <1>1, LockInvariant, PTL
=============================================================================
