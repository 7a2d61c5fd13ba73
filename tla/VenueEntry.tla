----------------------------- MODULE VenueEntry -----------------------------
(***************************************************************************)
(* How players get into venues and out of them, and how venues come and    *)
(* go: VenueOuterHandler, VenueManager, VenueInnerHandler, Venue and       *)
(* GameDumb.                                                               *)
(*                                                                         *)
(* Outer threads share one message queue: any of them takes a player's     *)
(* request, finds the venue or loads it from the database, and dispatches  *)
(* a closure to the thread of the inner handler the venue belongs to.  A   *)
(* closure holds a weak pointer, so the venue may be gone when it runs.    *)
(* Venues are in two tables, the manager's and the inner handler's, each   *)
(* with a mutex of its own; onTimer of the inner handler removes a venue   *)
(* from both, one after the other, 30 seconds after the game is over.      *)
(* A step below is one critical section, one SQL statement or one closure. *)
(***************************************************************************)
EXTENDS Integers, Sequences, FiniteSets, FiniteSetsExt

CONSTANTS
  Outers,        \* threads running a VenueOuterHandler (or the RabbitMQ consumer)
  Handlers,      \* VenueInnerHandlers that support the game type, a thread each
  Venues,        \* ids with a row in table `venue`
  Players,
  Nil,           \* a null pointer, a missing entry
  MaxPlayers,    \* GameDumb::_maxPlayers
  MaxWaits,      \* attempts to lock the loading of a venue, 200 in the code
  MaxRequests,   \* bound: requests of players
  MaxFaults      \* bound: failed SQL statements

ASSUME VenueAssumption ==
  /\ Handlers # {}
  /\ IsFiniteSet(Handlers) /\ IsFiniteSet(Venues) /\ IsFiniteSet(Players)
  /\ Nil \notin Handlers \cup Venues \cup Players \cup Nat
  /\ MaxPlayers \in Nat /\ MaxWaits \in Nat
  /\ MaxRequests \in Nat /\ MaxFaults \in Nat

Requests == 1 .. MaxRequests
Objs == Requests        \* a request loads at most one Venue object

VARIABLES
  over,       \* rows of table `venue` whose status is not 0
  mgr,        \* VenueManager::_venues
  loading,    \* VenueManager::_loadingVenues
  assigned,   \* VenueManager::_venueHandlerMap
  inner,      \* inner[h]: VenueInnerHandler::_venues
  list,       \* list[h]: _venueList, for the inner thread only
  stale,      \* stale[h]: _counterMap and _counterList differ
  counts,     \* counts[h][v]: _playerCounts
  total,      \* total[h]: _totalCount
  obj, made,  \* the Venue objects, and how many were made
  at,         \* at[p]: Player::_venueId
  th,         \* th[w]: the request outer thread w is executing
  queue,      \* queue[h]: closures dispatched to the thread of h
  sweep,      \* sweep[h]: venues this run of onTimer has still to remove
  half,       \* half[h]: the one it has removed from the first table only
  req, asked, \* the requests and their answers
  faults,     \* failed statements
  unsaved     \* history: venues whose gameOver could not update the database

tables == <<mgr, loading, assigned, inner>>
worker == <<list, stale, sweep, half>>
count  == <<counts, total>>
vars == <<over, mgr, loading, assigned, inner, list, stale, counts, total, obj,
          made, at, th, queue, sweep, half, req, asked, faults, unsaved>>

Pcs == {"idle", "get", "query", "lock", "recheck", "load", "distribute",
        "insert", "publish", "unlock", "dispatch"}

Thread == [pc : Pcs, id : Requests \cup {Nil}, obj : Nat \cup {Nil},
           handler : Handlers \cup {Nil}, waits : Nat]

Idle == [pc |-> "idle", id |-> Nil, obj |-> Nil, handler |-> Nil, waits |-> 0]

Request == [kind : {"enter", "leave", "command"}, player : Players,
            venue : Venues, right : BOOLEAN,
            ans : {"asked", "zero", "error", "dropped"}]

Object == [venue : Venues, handler : Handlers \cup {Nil}, open : BOOLEAN,
           ripe : BOOLEAN, members : SUBSET Players]

Closure == [id : Requests, obj : Objs]

Init ==
  /\ over = {} /\ loading = {} /\ unsaved = {}
  /\ mgr = [v \in Venues |-> Nil]
  /\ assigned = [v \in Venues |-> Nil]
  /\ inner = [h \in Handlers |-> [v \in Venues |-> Nil]]
  /\ list = [h \in Handlers |-> {}]
  /\ stale = [h \in Handlers |-> FALSE]
  /\ counts = [h \in Handlers |-> [v \in Venues |-> 0]]
  /\ total = [h \in Handlers |-> 0]
  /\ obj = [o \in {} |-> Nil] /\ made = 0
  /\ at = [p \in Players |-> Nil]
  /\ th = [w \in Outers |-> Idle]
  /\ queue = [h \in Handlers |-> <<>>]
  /\ sweep = [h \in Handlers |-> {}]
  /\ half = [h \in Handlers |-> Nil]
  /\ req = [i \in {} |-> Nil] /\ asked = 0 /\ faults = 0

Fail == faults < MaxFaults /\ faults' = faults + 1

-----------------------------------------------------------------------------
(* Requests *)

NewRequest(kind, p, v, right, ans) ==
  /\ asked < MaxRequests
  /\ asked' = asked + 1
  /\ req' = [i \in 1 .. asked + 1 |->
               IF i <= asked THEN req[i]
               ELSE [kind |-> kind, player |-> p, venue |-> v,
                     right |-> right, ans |-> ans]]

Answer(i, a) == req' = [req EXCEPT ![i].ans = a]
Goto(w, t, pc) == th' = [th EXCEPT ![w] = [t EXCEPT !.pc = pc]]

\* The thread is done with its request, having sent answer a.
Reply(w, a) == Answer(th[w].id, a) /\ th' = [th EXCEPT ![w] = Idle]

\* VenueOuterHandler::onEnterVenue.  The platform authorises a player for one
\* venue; a request for another one is refused.
EnterVenue(w, p, v, right) ==
  /\ th[w].pc = "idle"
  /\ \/ /\ NewRequest("enter", p, v, right, "asked")
        /\ Goto(w, [Idle EXCEPT !.id = asked + 1], "get")
     \/ NewRequest("enter", p, v, right, "error") /\ UNCHANGED th
  /\ UNCHANGED <<over, tables, worker, count, obj, made, at, queue, faults, unsaved>>

\* The result of a leave of either kind when there is no venue: success.
\* Otherwise a closure leaves it to the inner thread.
LeaveOrReply(kind, p, v, o) ==
  IF o = Nil
  THEN NewRequest(kind, p, v, TRUE, "zero") /\ UNCHANGED queue
  ELSE /\ NewRequest(kind, p, v, TRUE, "asked")
       /\ queue' = [queue EXCEPT ![obj[o].handler] =
                      Append(@, [id |-> asked + 1, obj |-> o])]

\* VenueOuterHandler::onLeaveVenue.
LeaveVenue(p, v) ==
  /\ LeaveOrReply("leave", p, v, mgr[v])
  /\ UNCHANGED <<over, tables, worker, count, obj, made, at, th, faults, unsaved>>

\* VenueManager::handleMessage: another server asks the player to leave.
HandleMessage(p, v) ==
  /\ LeaveOrReply("command", p, v, IF at[p] = v THEN mgr[v] ELSE Nil)
  /\ UNCHANGED <<over, tables, worker, count, obj, made, at, th, faults, unsaved>>

-----------------------------------------------------------------------------
(* VenueManager::loadVenue, by thread w *)

VenueOf(w) == req[th[w].id].venue

\* The thread found the venue in no table and is about to load it.
Loading(w) == th[w].pc \notin {"idle", "get", "query", "dispatch"}

\* The venue is in the table.  If the type is wrong the error code stays 0.
GetVenue(w) ==
  LET t == th[w]
      o == mgr[VenueOf(w)]
  IN /\ t.pc = "get"
     /\ \/ o = Nil /\ Goto(w, t, "query") /\ UNCHANGED req
        \/ /\ o # Nil /\ req[t.id].right
           /\ Goto(w, [t EXCEPT !.obj = o], "dispatch") /\ UNCHANGED req
        \/ o # Nil /\ ~req[t.id].right /\ Reply(w, "zero")
     /\ UNCHANGED <<over, tables, worker, count, obj, made, at, queue, asked,
                    faults, unsaved>>

\* Mutant of QueryVenue: the status of the row is not looked at.
QueryAnyStatus(w) ==
  LET t == th[w]
  IN /\ t.pc = "query"
     /\ \/ Fail /\ Reply(w, "error")
        \/ ~req[t.id].right /\ Reply(w, "error") /\ UNCHANGED faults
        \/ req[t.id].right /\ Goto(w, t, "lock") /\ UNCHANGED <<req, faults>>
     /\ UNCHANGED <<over, tables, worker, count, obj, made, at, queue, asked, unsaved>>

\* LoadVenueTask and the tests on its result.
QueryVenue(w) ==
  LET t == th[w]
      fit == req[t.id].right /\ VenueOf(w) \notin over
  IN /\ t.pc = "query"
     /\ \/ Fail /\ Reply(w, "error")
        \/ ~fit /\ Reply(w, "error") /\ UNCHANGED faults
        \/ fit /\ Goto(w, t, "lock") /\ UNCHANGED <<req, faults>>
     /\ UNCHANGED <<over, tables, worker, count, obj, made, at, queue, asked, unsaved>>

\* lockLoading, MaxWaits times at most; after that the error code is still 0.
LockLoading(w) ==
  LET t == th[w]
  IN /\ t.pc = "lock"
     /\ \/ /\ VenueOf(w) \notin loading
           /\ loading' = loading \cup {VenueOf(w)}
           /\ Goto(w, t, "recheck") /\ UNCHANGED req
        \/ /\ VenueOf(w) \in loading /\ t.waits < MaxWaits
           /\ Goto(w, [t EXCEPT !.waits = @ + 1], "lock")
           /\ UNCHANGED <<loading, req>>
        \/ /\ VenueOf(w) \in loading /\ t.waits >= MaxWaits
           /\ Reply(w, "zero") /\ UNCHANGED loading
     /\ UNCHANGED <<over, mgr, assigned, inner, worker, count, obj, made, at, queue,
                    asked, faults, unsaved>>

\* Mutant of Recheck: no second look at the table once the lock is there.
RecheckNot(w) ==
  /\ th[w].pc = "recheck"
  /\ Goto(w, th[w], "load")
  /\ UNCHANGED <<over, tables, worker, count, obj, made, at, queue, req, asked,
                 faults, unsaved>>

\* Another thread may have loaded the venue meanwhile.
Recheck(w) ==
  LET t == th[w]
      o == mgr[VenueOf(w)]
  IN /\ t.pc = "recheck"
     /\ Goto(w, [t EXCEPT !.obj = o], IF o = Nil THEN "load" ELSE "unlock")
     /\ UNCHANGED <<over, tables, worker, count, obj, made, at, queue, req, asked,
                    faults, unsaved>>

\* GameDumbLoader::load.
LoadVenue(w) ==
  LET t == th[w]
      new == made + 1
  IN /\ t.pc = "load"
     /\ \/ /\ Fail /\ Goto(w, t, "unlock") /\ UNCHANGED <<obj, made>>
        \/ /\ made' = new
           /\ obj' = [o \in 1 .. new |->
                        IF o = new
                        THEN [venue |-> VenueOf(w), handler |-> Nil, open |-> TRUE,
                              ripe |-> FALSE, members |-> {}]
                        ELSE obj[o]]
           /\ Goto(w, [t EXCEPT !.obj = new], "distribute")
           /\ UNCHANGED faults
     /\ UNCHANGED <<over, tables, worker, count, at, queue, req, asked, unsaved>>

\* distributeHandler: the handler the venue had before, or else the one with the
\* fewest players.
DistributeHandler(w) ==
  LET t == th[w]
      v == VenueOf(w)
  IN /\ t.pc = "distribute"
     /\ \E h \in Handlers :
          /\ IF assigned[v] = Nil THEN \A g \in Handlers : total[h] <= total[g]
                                  ELSE h = assigned[v]
          /\ assigned' = [assigned EXCEPT ![v] = h]
          /\ Goto(w, [t EXCEPT !.handler = h], "insert")
     /\ UNCHANGED <<over, mgr, loading, inner, worker, count, obj, made, at, queue,
                    req, asked, faults, unsaved>>

\* VenueInnerHandler::addVenue: insert leaves an entry that is there alone.
AddInner(w) ==
  LET t == th[w]
  IN /\ t.pc = "insert"
     /\ inner' = [inner EXCEPT ![t.handler][VenueOf(w)] =
                    IF @ = Nil THEN t.obj ELSE @]
     /\ stale' = [stale EXCEPT ![t.handler] = TRUE]
     /\ obj' = [obj EXCEPT ![t.obj].handler = t.handler]
     /\ Goto(w, t, "publish")
     /\ UNCHANGED <<over, mgr, loading, assigned, list, sweep, half, count, made, at,
                    queue, req, asked, faults, unsaved>>

\* VenueManager::addVenue.
AddVenue(w) ==
  LET t == th[w]
  IN /\ t.pc = "publish"
     /\ mgr' = [mgr EXCEPT ![VenueOf(w)] = IF @ = Nil THEN t.obj ELSE @]
     /\ Goto(w, t, "unlock")
     /\ UNCHANGED <<over, loading, assigned, inner, worker, count, obj, made, at,
                    queue, req, asked, faults, unsaved>>

\* Mutant of UnlockLoading: the id stays locked when the venue was not loaded.
UnlockLoaded(w) ==
  LET t == th[w]
  IN /\ t.pc = "unlock"
     /\ loading' = IF t.obj = Nil THEN loading ELSE loading \ {VenueOf(w)}
     /\ IF t.obj = Nil THEN Reply(w, "error")
                       ELSE Goto(w, t, "dispatch") /\ UNCHANGED req
     /\ UNCHANGED <<over, mgr, assigned, inner, worker, count, obj, made, at, queue,
                    asked, faults, unsaved>>

UnlockLoading(w) ==
  LET t == th[w]
  IN /\ t.pc = "unlock"
     /\ loading' = loading \ {VenueOf(w)}
     /\ IF t.obj = Nil THEN Reply(w, "error")
                       ELSE Goto(w, t, "dispatch") /\ UNCHANGED req
     /\ UNCHANGED <<over, mgr, assigned, inner, worker, count, obj, made, at, queue,
                    asked, faults, unsaved>>

\* The rest of onEnterVenue: the closure goes to the thread of the handler.
Dispatch(w) ==
  LET t == th[w]
      h == obj[t.obj].handler
  IN /\ t.pc = "dispatch"
     /\ queue' = [queue EXCEPT ![h] = Append(@, [id |-> t.id, obj |-> t.obj])]
     /\ th' = [th EXCEPT ![w] = Idle]
     /\ UNCHANGED <<over, tables, worker, count, obj, made, at, req, asked, faults,
                    unsaved>>

-----------------------------------------------------------------------------
(* The thread of inner handler h *)

\* Does a strong pointer to the object exist?
Alive(o) ==
  \/ \E v \in Venues : mgr[v] = o
  \/ \E h \in Handlers : o \in list[h] \/ \E v \in Venues : inner[h][v] = o
  \/ \E w \in Outers : th[w].obj = o

\* Mutant of SetPlayerCount: the new count is not added to the total.
SetPlayerCountSubtracts(o, n) ==
  LET h == obj[o].handler
      v == obj[o].venue
  IN IF inner[h][v] = Nil THEN UNCHANGED count
     ELSE /\ counts' = [counts EXCEPT ![h][v] = n]
          /\ total' = [total EXCEPT ![h] = @ - counts[h][v]]

\* updatePlayerCount of object o with n members: setPlayerCount does nothing for
\* an id that is not in the table.
SetPlayerCount(o, n) ==
  LET h == obj[o].handler
      v == obj[o].venue
  IN IF inner[h][v] = Nil THEN UNCHANGED count
     ELSE /\ counts' = [counts EXCEPT ![h][v] = n]
          /\ total' = [total EXCEPT ![h] = @ - counts[h][v] + n]

\* afterEnter and afterLeave: player p is now recorded in v, and the venue has the
\* members m.
Moved(o, p, m, v) ==
  /\ obj' = [obj EXCEPT ![o].members = m]
  /\ at' = [at EXCEPT ![p] = v]
  /\ SetPlayerCount(o, Cardinality(m))

\* GameDumb::enterImpl.
HasRoom(o) == Cardinality(obj[o].members) < MaxPlayers

\* Mutant of OnEnter: a refusal is not answered.
OnEnterSilent(i, o, p) ==
  LET m == obj[o].members
  IN \/ /\ p \in m
        /\ Answer(i, "zero") /\ UNCHANGED <<obj, at, count>>
     \/ /\ p \notin m /\ (~obj[o].open \/ ~HasRoom(o))
        /\ UNCHANGED <<req, obj, at, count>>
     \/ /\ p \notin m /\ obj[o].open /\ HasRoom(o)
        /\ Moved(o, p, m \cup {p}, obj[o].venue)
        /\ Answer(i, "zero")

\* Venue::onEnter.
OnEnter(i, o, p) ==
  LET m == obj[o].members
  IN \/ /\ p \in m
        /\ Answer(i, "zero") /\ UNCHANGED <<obj, at, count>>
     \/ /\ p \notin m /\ (~obj[o].open \/ ~HasRoom(o))
        /\ Answer(i, "error") /\ UNCHANGED <<obj, at, count>>
     \/ /\ p \notin m /\ obj[o].open /\ HasRoom(o)
        /\ Moved(o, p, m \cup {p}, obj[o].venue)
        /\ Answer(i, "zero")

\* Venue::onLeave, GameDumb::leaveImpl.
OnLeave(i, o, p) ==
  /\ Answer(i, "zero")
  /\ IF p \in obj[o].members
     THEN Moved(o, p, obj[o].members \ {p}, Nil)
     ELSE UNCHANGED <<obj, at, count>>

\* The thread runs the first closure of its queue.  Without the venue an enter or
\* a leave of the player ends without an answer, a command with success.
Execute(h) ==
  /\ queue[h] # <<>> /\ sweep[h] = {} /\ half[h] = Nil
  /\ queue' = [queue EXCEPT ![h] = Tail(@)]
  /\ LET i == Head(queue[h]).id
         o == Head(queue[h]).obj
     IN IF Alive(o)
        THEN IF req[i].kind = "enter" THEN OnEnter(i, o, req[i].player)
                                      ELSE OnLeave(i, o, req[i].player)
        ELSE /\ Answer(i, IF req[i].kind = "command" THEN "zero" ELSE "dropped")
             /\ UNCHANGED <<obj, at, count>>
  /\ UNCHANGED <<over, tables, worker, made, th, asked, faults, unsaved>>

\* Mutant of GameOver: the players inside stay recorded in the venue.
GameOverKeepsAt(h, o) ==
  /\ inner[h][obj[o].venue] = o /\ obj[o].open
  /\ sweep[h] = {} /\ half[h] = Nil
  /\ obj' = [obj EXCEPT ![o].open = FALSE]
  /\ SetPlayerCount(o, Cardinality(obj[o].members))
  /\ over' = over \cup {obj[o].venue}
  /\ UNCHANGED <<tables, worker, made, at, th, queue, req, asked, faults, unsaved>>

\* Venue::gameOver, called by the game on the thread of its handler.  The members
\* stay; the update of the database may fail, which nobody looks at.
GameOver(h, o) ==
  /\ inner[h][obj[o].venue] = o /\ obj[o].open
  /\ sweep[h] = {} /\ half[h] = Nil
  /\ obj' = [obj EXCEPT ![o].open = FALSE]
  /\ at' = [p \in Players |-> IF p \in obj[o].members THEN Nil ELSE at[p]]
  /\ SetPlayerCount(o, Cardinality(obj[o].members))
  /\ \/ over' = over \cup {obj[o].venue} /\ UNCHANGED <<faults, unsaved>>
     \/ Fail /\ unsaved' = unsaved \cup {obj[o].venue} /\ UNCHANGED over
  /\ UNCHANGED <<tables, worker, made, th, queue, req, asked>>

\* 30 seconds have gone by since the game was over.  A thread that queried the
\* row before, or that is adding the venue to the tables, is done long since: the
\* wait for the loading lock is one second at most.
Elapse(o) ==
  /\ ~obj[o].open /\ ~obj[o].ripe
  /\ \A w \in Outers : Loading(w) => VenueOf(w) # obj[o].venue
  /\ obj' = [obj EXCEPT ![o].ripe = TRUE]
  /\ UNCHANGED <<over, tables, worker, count, made, at, th, queue, req, asked, faults,
                 unsaved>>

\* updateVenueList.
Fresh(h) == IF stale[h] THEN {inner[h][v] : v \in Venues} \ {Nil} ELSE list[h]

\* VenueInnerHandler::onTimer starts: the list, then the venues to remove.  A run
\* that finds nothing to do is left out.
OnTimer(h) ==
  LET ripe == {o \in Fresh(h) : obj[o].ripe}
  IN /\ sweep[h] = {} /\ half[h] = Nil
     /\ stale[h] \/ ripe # {}
     /\ list' = [list EXCEPT ![h] = Fresh(h)]
     /\ stale' = [stale EXCEPT ![h] = FALSE]
     /\ sweep' = [sweep EXCEPT ![h] = ripe]
     /\ UNCHANGED <<over, tables, half, count, obj, made, at, th, queue, req, asked,
                    faults, unsaved>>

\* Mutant of RemoveInner: the handler keeps the venue in its own table.
RemoveMgrFirst(h) ==
  /\ half[h] = Nil
  /\ \E o \in sweep[h] :
       /\ half' = [half EXCEPT ![h] = o]
       /\ sweep' = [sweep EXCEPT ![h] = @ \ {o}]
       /\ mgr' = [mgr EXCEPT ![obj[o].venue] = Nil]
  /\ UNCHANGED <<over, loading, assigned, inner, list, stale, count, obj, made, at, th,
                 queue, req, asked, faults, unsaved>>

\* VenueInnerHandler::removeVenue, by id.
RemoveInner(h) ==
  /\ half[h] = Nil
  /\ \E o \in sweep[h] :
       /\ half' = [half EXCEPT ![h] = o]
       /\ sweep' = [sweep EXCEPT ![h] = @ \ {o}]
       /\ stale' = [stale EXCEPT ![h] = @ \/ inner[h][obj[o].venue] # Nil]
       /\ inner' = [inner EXCEPT ![h][obj[o].venue] = Nil]
  /\ UNCHANGED <<over, mgr, loading, assigned, list, count, obj, made, at, th, queue,
                 req, asked, faults, unsaved>>

\* VenueManager::removeVenue, by id.
RemoveVenue(h) ==
  /\ half[h] # Nil
  /\ mgr' = [mgr EXCEPT ![obj[half[h]].venue] = Nil]
  /\ half' = [half EXCEPT ![h] = Nil]
  /\ UNCHANGED <<over, loading, assigned, inner, list, stale, sweep, count, obj, made,
                 at, th, queue, req, asked, faults, unsaved>>

-----------------------------------------------------------------------------
Ask ==
  \/ \E w \in Outers, p \in Players, v \in Venues, right \in BOOLEAN :
       EnterVenue(w, p, v, right)
  \/ \E p \in Players, v \in Venues : LeaveVenue(p, v) \/ HandleMessage(p, v)

Outer(w) ==
  \/ GetVenue(w) \/ QueryVenue(w) \/ LockLoading(w) \/ Recheck(w) \/ LoadVenue(w)
  \/ DistributeHandler(w) \/ AddInner(w) \/ AddVenue(w) \/ UnlockLoading(w)
  \/ Dispatch(w)

Inner(h) == Execute(h) \/ OnTimer(h) \/ RemoveInner(h) \/ RemoveVenue(h)

Next ==
  \/ Ask
  \/ \E w \in Outers : Outer(w)
  \/ \E h \in Handlers : Inner(h)
  \/ \E h \in Handlers, o \in 1 .. made : GameOver(h, o)
  \/ \E o \in 1 .. made : Elapse(o)

Spec == Init /\ [][Next]_vars

\* Every thread goes on with what it has begun and with what is in its queue;
\* nothing obliges a player to ask or a game to end.
FairSpec ==
  /\ Spec
  /\ \A w \in Outers : WF_vars(Outer(w))
  /\ \A h \in Handlers : WF_vars(Execute(h))
                         /\ WF_vars(RemoveInner(h)) /\ WF_vars(RemoveVenue(h))

-----------------------------------------------------------------------------
(* Properties *)

TypeOK ==
  /\ over \subseteq Venues /\ loading \subseteq Venues /\ unsaved \subseteq Venues
  /\ made \in 0 .. asked /\ asked \in 0 .. MaxRequests /\ faults \in Nat
  /\ obj \in [1 .. made -> Object]
  /\ req \in [1 .. asked -> Request]
  /\ mgr \in [Venues -> 1 .. made \cup {Nil}]
  /\ inner \in [Handlers -> [Venues -> 1 .. made \cup {Nil}]]
  /\ assigned \in [Venues -> Handlers \cup {Nil}]
  /\ list \in [Handlers -> SUBSET (1 .. made)]
  /\ stale \in [Handlers -> BOOLEAN]
  /\ counts \in [Handlers -> [Venues -> Nat]]
  /\ total \in [Handlers -> Nat]
  /\ at \in [Players -> Venues \cup {Nil}]
  /\ th \in [Outers -> Thread]
  /\ queue \in [Handlers -> Seq(Closure)]
  /\ sweep \in [Handlers -> SUBSET (1 .. made)]
  /\ half \in [Handlers -> 1 .. made \cup {Nil}]

\* Between lockLoading and unlockLoading.
Locked(w) == th[w].pc \in {"recheck", "load", "distribute", "insert", "publish",
                           "unlock"}

\* lockLoading and unlockLoading make loading exclusive, whatever the outcome of a
\* load: an id is in _loadingVenues exactly as long as one thread is between the
\* two, so no failed load blocks a venue for good.
LockHeld ==
  /\ \A v \in loading : \E w \in Outers : Locked(w) /\ VenueOf(w) = v
  /\ \A w \in Outers : Locked(w) => VenueOf(w) \in loading
  /\ \A w, u \in Outers : Locked(w) /\ Locked(u) /\ VenueOf(w) = VenueOf(u) => w = u

\* The inductive invariant behind LockHeld: a thread that is not idle has a request,
\* whose venue stays the same.
LockInv ==
  /\ asked \in Nat /\ req \in [1 .. asked -> Request]
  /\ made \in Nat /\ mgr \in [Venues -> Nat \cup {Nil}]
  /\ th \in [Outers -> Thread]
  /\ \A w \in Outers : th[w].pc # "idle" => th[w].id \in 1 .. asked
  /\ LockHeld

\* However many threads are asked for a venue at the same time, there are never
\* two open objects of it, with some of the players in each.
OneOpen ==
  \A o, q \in 1 .. made :
    obj[o].open /\ obj[q].open /\ obj[o].venue = obj[q].venue => o = q

\* A venue whose game is over is not loaded again, although the row a thread
\* queried may be out of date when it loads; the exception is a gameOver that
\* could not update the database.
NoReopen ==
  \A o, q \in 1 .. made :
    obj[o].venue = obj[q].venue /\ obj[o].venue \notin unsaved => o = q

\* An open venue is in both tables once its loader is done, under the handler
\* whose thread gets the closures: timers, messages and leaves all find it.
\* Removal by id never takes away an open venue that replaced the obsolete one.
Reachable ==
  \A o \in 1 .. made :
    obj[o].open /\ (\A w \in Outers : th[w].obj = o => ~Loading(w)) =>
      /\ mgr[obj[o].venue] = o
      /\ obj[o].handler # Nil
      /\ inner[obj[o].handler][obj[o].venue] = o

\* The venue a Player is recorded in, which handleMessage and freeDormantPlayers
\* rely on, is an open venue with the player inside.
CurrentVenue ==
  \A p \in Players : at[p] # Nil =>
    \E o \in 1 .. made : obj[o].open /\ obj[o].venue = at[p] /\ p \in obj[o].members

\* What the header says of getTotalCount, with which distributeHandler balances: it
\* is the current number of players in the venues of the handler.  A venue that is
\* removed leaves its players in it.
TotalIsPlayers ==
  \A h \in Handlers :
    total[h] = SumFunctionOnSet(
                 [v \in Venues |-> IF inner[h][v] = Nil THEN 0
                                  ELSE Cardinality(obj[inner[h][v]].members)], Venues)

\* What is true of the counts: the total is the sum, and each count is the number of
\* players inside, as long as the venue is in the table and not loaded a second time
\* over the count it left.
CountsExact ==
  \A h \in Handlers :
    /\ total[h] = SumFunctionOnSet(counts[h], Venues)
    /\ \A v \in Venues \ unsaved :
         inner[h][v] # Nil => counts[h][v] = Cardinality(obj[inner[h][v]].members)

\* What the comment on MsgLeaveVenue says of the outer handler: it handles a leave so
\* that a player can leave even when the venue has been released.
LeaveAnswered ==
  \A i \in 1 .. asked : req[i].kind = "leave" => req[i].ans # "dropped"

\* What is true of the answers: a request ends without one only because the game is
\* over, and a weak pointer never expires under a player who asked for an open venue.
DroppedWhenOver ==
  \A i \in 1 .. asked : req[i].ans = "dropped" =>
    \E o \in 1 .. made : obj[o].venue = req[i].venue /\ ~obj[o].open

\* The inductive invariant behind the properties above, except the sums.

Held == {"distribute", "insert", "publish"}   \* a thread there has made its object

\* What a thread knows of its venue at each point of loadVenue.
Knows(w) ==
  LET t == th[w]
  IN /\ t.pc \notin Held \cup {"unlock", "dispatch"} => t.obj = Nil
     /\ t.pc \in Held \cup {"dispatch"} => t.obj # Nil
     /\ t.obj # Nil => t.obj \in 1 .. made /\ obj[t.obj].venue = VenueOf(w)
     /\ t.pc \in Held \cup {"load"} => mgr[VenueOf(w)] = Nil
     /\ t.pc \in {"distribute", "insert"} => obj[t.obj].handler = Nil
     /\ t.pc \in {"insert", "publish"} =>
          t.handler # Nil /\ assigned[VenueOf(w)] = t.handler
     /\ t.pc = "publish" =>
          inner[t.handler][VenueOf(w)] = t.obj /\ obj[t.obj].handler = t.handler

ThreadInv == \A w \in Outers : Knows(w)

\* The two tables agree, but for a venue that is being added or removed.
TableInv ==
  /\ \A v \in Venues : mgr[v] # Nil =>
       /\ obj[mgr[v]].venue = v
       /\ assigned[v] # Nil /\ obj[mgr[v]].handler = assigned[v]
       /\ inner[assigned[v]][v] = mgr[v] \/ half[assigned[v]] = mgr[v]
  /\ \A h \in Handlers, v \in Venues : inner[h][v] # Nil =>
       /\ obj[inner[h][v]].venue = v
       /\ assigned[v] = h /\ obj[inner[h][v]].handler = h
       /\ \/ mgr[v] = inner[h][v]
          \/ \E w \in Outers : th[w].pc = "publish" /\ th[w].obj = inner[h][v]

\* What onTimer removes is in the tables, and has been over for a while.
SweepInv ==
  \A h \in Handlers :
    /\ ~stale[h] => list[h] = {inner[h][v] : v \in Venues} \ {Nil}
    /\ \A o \in sweep[h] : obj[o].ripe /\ inner[h][obj[o].venue] = o
    /\ half[h] # Nil =>
         /\ obj[half[h]].ripe /\ obj[half[h]].handler = h
         /\ mgr[obj[half[h]].venue] = half[h] /\ inner[h][obj[half[h]].venue] = Nil

\* An object is in the manager's table or in the hands of its loader until it is
\* ripe for removal; then nobody is loading its venue, nor will be.
ObjectInv ==
  \A o \in 1 .. made :
    /\ obj[o].ripe => ~obj[o].open /\ \A w \in Outers : th[w].pc \in Held => th[w].obj # o
    /\ ~obj[o].ripe =>
         mgr[obj[o].venue] = o \/ \E w \in Outers : th[w].pc \in Held /\ th[w].obj = o
    /\ ~obj[o].open /\ obj[o].venue \notin unsaved => obj[o].venue \in over
    /\ obj[o].ripe /\ obj[o].venue \notin unsaved =>
         \A w \in Outers : Loading(w) => VenueOf(w) # obj[o].venue

\* A closure is for an object of the venue the player asked for.
Fit == {c \in [id : 1 .. asked, obj : 1 .. made] : obj[c.obj].venue = req[c.id].venue}

\* TypeOK, without the counts and the bounds.
Typed ==
  /\ made \in Nat /\ obj \in [1 .. made -> Object]
  /\ mgr \in [Venues -> 1 .. made \cup {Nil}]
  /\ inner \in [Handlers -> [Venues -> 1 .. made \cup {Nil}]]
  /\ assigned \in [Venues -> Handlers \cup {Nil}]
  /\ list \in [Handlers -> SUBSET (1 .. made)]
  /\ stale \in [Handlers -> BOOLEAN]
  /\ at \in [Players -> Venues \cup {Nil}]
  /\ queue \in [Handlers -> Seq(Fit)]
  /\ sweep \in [Handlers -> SUBSET (1 .. made)]
  /\ half \in [Handlers -> 1 .. made \cup {Nil}]

VenueInv ==
  /\ Typed /\ ThreadInv /\ TableInv /\ SweepInv /\ ObjectInv
  /\ NoReopen /\ CurrentVenue /\ DroppedWhenOver

\* The inductive invariants behind CountsExact and TypeOK.

\* Closures for objects of handler h.
Own(h) == {c \in [id : Nat, obj : 1 .. made] : obj[c.obj].handler = h}

\* Only an object that has its handler gets players and closures.
EmptyInv == \A o \in 1 .. made : obj[o].handler = Nil => obj[o].members = {}

LoadedInv ==
  \A w \in Outers : th[w].pc \in {"unlock", "dispatch"} /\ th[w].obj # Nil =>
    obj[th[w].obj].handler # Nil

QueueInv == \A h \in Handlers : queue[h] \in Seq(Own(h))

HandlerInv == EmptyInv /\ LoadedInv /\ QueueInv

\* A count is left over only from an object that had the same handler.
CountInv ==
  /\ counts \in [Handlers -> [Venues -> Nat]] /\ total \in [Handlers -> Int]
  /\ CountsExact
  /\ \A h \in Handlers, v \in Venues : counts[h][v] # 0 =>
       \E o \in 1 .. made : obj[o].venue = v /\ obj[o].handler = h

\* The requests of threads that may still load a venue.
Early == {"get", "query", "lock", "recheck", "load"}
Pending == {i \in 1 .. asked : \E w \in Outers : th[w].id = i /\ th[w].pc \in Early}

\* A request is in the hands of one thread, and loads one object at most.
TicketInv ==
  /\ \A w \in Outers : th[w].pc = "idle" => th[w].id = Nil
  /\ \A w, u \in Outers : th[w].id # Nil /\ th[w].id = th[u].id => w = u

BoundInv ==
  /\ TicketInv /\ made + Cardinality(Pending) <= asked
  /\ asked <= MaxRequests /\ faults \in Nat
  /\ over \subseteq Venues /\ loading \subseteq Venues /\ unsaved \subseteq Venues

\* Every request is answered, or dropped with its venue: no thread waits for ever
\* for the loading lock and no closure is left in a queue.
Served ==
  \A i \in Requests :
    (i <= asked /\ req[i].ans = "asked") ~> (i <= asked /\ req[i].ans # "asked")
=============================================================================
