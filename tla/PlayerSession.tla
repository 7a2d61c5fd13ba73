--------------------------- MODULE PlayerSession ---------------------------
(***************************************************************************)
(* Players, their network sessions and their avatars: the connecting and   *)
(* disconnecting of VenueOuterHandler, the tables of PlayerManager, and    *)
(* what GameRoom is told about it.                                         *)
(*                                                                         *)
(* The network threads push MsgPlayerConnect and MsgDisconnect on one      *)
(* queue that several outer threads pop; each message is then handled in   *)
(* many short critical sections, so the handling of two messages overlaps. *)
(* The inner thread of the venue executes closures the outer threads       *)
(* dispatch.  A timer frees the players that have been offline for a while.*)
(* A step below is one critical section.  There is one venue, and its game *)
(* is not over; VenueEntry has the end of a venue.                         *)
(***************************************************************************)
EXTENDS Integers, Sequences, FiniteSets, SequencesExt

CONSTANTS
  Threads,        \* outer threads, sharing one MessageQueue
  Players,
  MaxSessions,    \* bound: network connections
  Nil,            \* a null pointer, an empty id, a missing entry
  OfflineLimit,   \* timer periods offline before a player is freed, 6 in the code
  ReferenceLimit, \* timer periods unreferenced before that, 4 in the code
  MaxRequests,    \* bound: requests to enter the venue
  MaxRemoved      \* bound: closed connections the server removes

ASSUME SessionAssumption ==
  /\ MaxSessions \in Nat /\ Nil \notin Players \cup Nat
  /\ OfflineLimit \in Nat /\ ReferenceLimit \in Nat
  /\ ReferenceLimit > 1 /\ OfflineLimit > ReferenceLimit
  /\ MaxRequests \in Nat /\ MaxRemoved \in Nat

Sessions == 1 .. MaxSessions   \* a connection gets a fresh id

VARIABLES
  net,        \* net[s]: the connection of session s
  owner,      \* owner[s]: the player whose client opened s
  queue,      \* the MessageQueue of the outer handlers
  th,         \* th[t]: the message outer thread t is handling
  players,    \* PlayerManager::_players
  session,    \* session[p]: Player::_session
  venueId,    \* venueId[p]: Player::_venueId is not empty
  offline,    \* offline[p]: timer periods since Player::_offlineTime
  reference,  \* reference[p]: timer periods since Player::_referenceTime
  inexact,    \* timer periods since PlayerManager::_inexactTime
  sessionMap, \* PlayerManager::_sessionMap
  offlineIds, \* PlayerManager::_offlineIds
  avatar,     \* avatar[p]: GameAvatar::_session of the avatar of p in the room
  inRoom,     \* players with an avatar, GameRoom::_allAvatars
  inner,      \* closures dispatched to the inner thread
  half,       \* the one the inner thread is in the middle of
  asked,      \* requests so far
  tangled     \* history: players some steps of whose messages overlapped

manager == <<players, session, venueId, offline, reference, inexact>>
room == <<avatar, inRoom, inner, half>>
vars == <<net, owner, queue, th, players, session, venueId, offline, reference,
          inexact, sessionMap, offlineIds, avatar, inRoom, inner, half, asked,
          tangled>>

Ids == Sessions \cup {Nil}
ConnectPcs == {"load", "add", "get", "old", "unlink", "set", "link", "venue", "tell"}
DisconnectPcs == {"find", "remove", "off", "list", "venue", "tell"}

Message == [kind : {"connect", "disconnect"}, session : Sessions]

\* held: the Player object the call holds is the one in the table; late: the
\* call began before the last run of the timer.
Call == [pc : {"idle"} \cup ConnectPcs \cup DisconnectPcs,
         kind : {"connect", "disconnect"}, session : Ids,
         player : Players \cup {Nil}, id : Ids, held : BOOLEAN,
         late : BOOLEAN]

Idle == [pc |-> "idle", kind |-> "connect", session |-> Nil, player |-> Nil,
         id |-> Nil, held |-> FALSE, late |-> FALSE]

Closure == [op : {"enter", "leave", "connect", "disconnect"}, player : Players,
            late : BOOLEAN]

ASSUME NilAssumption == Nil \notin Closure

TypeOK ==
  /\ net \in [Sessions -> {"new", "open", "closed", "gone"}]
  /\ owner \in [Sessions -> Players \cup {Nil}]
  /\ queue \in Seq(Message) /\ th \in [Threads -> Call]
  /\ players \subseteq Players
  /\ session \in [Players -> Ids]
  /\ venueId \in [Players -> BOOLEAN]
  /\ offline \in [Players -> 0 .. OfflineLimit]
  /\ reference \in [Players -> 0 .. ReferenceLimit]
  /\ inexact \in 0 .. ReferenceLimit
  /\ sessionMap \in [Ids -> Players \cup {Nil}]
  /\ offlineIds \in Seq(Players)
  /\ avatar \in [Players -> Ids] /\ inRoom \subseteq Players
  /\ inner \in Seq(Closure) /\ half \in Closure \cup {Nil}
  /\ asked \in 0 .. MaxRequests
  /\ tangled \subseteq Players

Init ==
  /\ net = [s \in Sessions |-> "new"] /\ owner = [s \in Sessions |-> Nil]
  /\ queue = <<>> /\ th = [t \in Threads |-> Idle]
  /\ players = {} /\ session = [p \in Players |-> Nil]
  /\ venueId = [p \in Players |-> FALSE]
  /\ offline = [p \in Players |-> OfflineLimit]
  /\ reference = [p \in Players |-> 0] /\ inexact = 0
  /\ sessionMap = [s \in Ids |-> Nil] /\ offlineIds = <<>>
  /\ avatar = [p \in Players |-> Nil] /\ inRoom = {} /\ inner = <<>> /\ half = Nil
  /\ asked = 0 /\ tangled = {}

-----------------------------------------------------------------------------
(* Sessions.  The connection and the Session object go together, but a call *)
(* that has locked the weak pointer of its message keeps the object.        *)

Alive(s) ==
  /\ s # Nil
  /\ \/ net[s] # "gone"
     \/ \E t \in Threads : /\ th[t].session = s /\ th[t].kind = "connect"
                           /\ th[t].pc \in {"old", "unlink", "set", "link", "venue", "tell"}

\* Player::getSession.
GetSession(p) == IF Alive(session[p]) THEN session[p] ELSE Nil

Open(s) == s # Nil /\ net[s] = "open"

\* Player::getOffline.
GetOffline(p) == ~Open(session[p])

\* A client of p connects and sends MsgPlayerConnect.
Connect(s, p) ==
  /\ net[s] = "new" /\ \A r \in 1 .. s - 1 : net[r] # "new"
  /\ net' = [net EXCEPT ![s] = "open"] /\ owner' = [owner EXCEPT ![s] = p]
  /\ queue' = Append(queue, [kind |-> "connect", session |-> s])
  /\ UNCHANGED <<th, manager, sessionMap, offlineIds, room, asked, tangled>>

\* ConnectionImpl::OnError and MsgSession::onDisconnect.
OnDisconnect(s) ==
  /\ net[s] = "open"
  /\ net' = [net EXCEPT ![s] = "closed"]
  /\ queue' = Append(queue, [kind |-> "disconnect", session |-> s])
  /\ UNCHANGED <<owner, th, manager, sessionMap, offlineIds, room, asked, tangled>>

\* TcpServer::checkConnection: a second MsgDisconnect, then removeConnection.
CheckConnection(s) ==
  /\ net[s] = "closed"
  /\ Cardinality({r \in Sessions : net[r] = "gone"}) < MaxRemoved
  /\ net' = [net EXCEPT ![s] = "gone"]
  /\ queue' = Append(queue, [kind |-> "disconnect", session |-> s])
  /\ UNCHANGED <<owner, th, manager, sessionMap, offlineIds, room, asked, tangled>>

-----------------------------------------------------------------------------
(* Outer threads *)

Goto(t, c, pc) == th' = [th EXCEPT ![t] = [c EXCEPT !.pc = pc]]
Done(t) == th' = [th EXCEPT ![t] = Idle]

\* Some other call, or the inner thread, is in the middle of something about p.
Working(p) ==
  \/ \E t \in Threads : th[t].pc # "idle" /\ owner[th[t].session] = p
  \/ half # Nil /\ half.player = p

\* Mutant of Touch: the time of the reference is not renewed.
TouchNot(p) == UNCHANGED reference

\* PlayerManager::getPlayer, for a player that is there.
Touch(p) == reference' = [reference EXCEPT ![p] = inexact]

\* MessageQueue::pop.
Pop(t) ==
  /\ th[t].pc = "idle" /\ queue # <<>>
  /\ LET m == Head(queue)
         p == owner[m.session]
     IN /\ queue' = Tail(queue)
        /\ Goto(t, [Idle EXCEPT !.kind = m.kind, !.session = m.session,
                                !.player = IF m.kind = "connect" THEN p ELSE Nil],
                IF m.kind = "connect" THEN "load" ELSE "find")
        /\ tangled' = IF Working(p) THEN tangled \cup {p} ELSE tangled
  /\ UNCHANGED <<net, owner, manager, sessionMap, offlineIds, room, asked>>

\* PlayerSignatureHandler::preproccess; verifySignature begins with loadPlayer.
Preprocess(t) ==
  LET c == th[t]
      p == c.player
  IN
  /\ c.pc = "load"
  /\ \/ net[c.session] = "gone" /\ Done(t) /\ UNCHANGED reference
     \/ /\ net[c.session] # "gone" /\ p \in players
        /\ Touch(p)
        /\ Goto(t, c, "get") \/ Done(t)       \* the signature is right or wrong
     \/ /\ net[c.session] # "gone" /\ p \notin players
        /\ Goto(t, c, "add") \/ Done(t)       \* LoadPlayerTask succeeds or fails
        /\ UNCHANGED reference
  /\ UNCHANGED <<net, owner, queue, players, session, venueId, offline, inexact,
                 sessionMap, offlineIds, room, asked, tangled>>

\* The table has a new Player object for p.
NewPlayer(p) ==
  /\ players' = players \cup {p}
  /\ session' = [session EXCEPT ![p] = Nil]
  /\ venueId' = [venueId EXCEPT ![p] = FALSE]
  /\ offline' = [offline EXCEPT ![p] = OfflineLimit]   \* _offlineTime is 0
  /\ reference' = [reference EXCEPT ![p] = 0]

\* PlayerManager::addPlayer, or getPlayer when another thread was faster.
AddPlayer(t) ==
  LET c == th[t]
      p == c.player
  IN
  /\ c.pc = "add"
  /\ IF p \in players
     THEN Touch(p) /\ UNCHANGED <<players, session, venueId, offline>>
     ELSE NewPlayer(p)
  /\ Goto(t, c, "get") \/ Done(t)
  /\ UNCHANGED <<net, owner, queue, inexact, sessionMap, offlineIds, room,
                 asked, tangled>>

\* VenueOuterHandler::onPlayerConnect up to getPlayer.
GetPlayer(t) ==
  LET c == th[t]
      p == c.player
  IN
  /\ c.pc = "get"
  /\ IF net[c.session] = "gone" \/ p \notin players
     THEN Done(t) /\ UNCHANGED reference
     ELSE Touch(p) /\ Goto(t, [c EXCEPT !.held = TRUE], "old")
  /\ UNCHANGED <<net, owner, queue, players, session, venueId, offline, inexact,
                 sessionMap, offlineIds, room, asked, tangled>>

\* The old session is gone, and what it was linked to cannot be found any more.
LostOld(p) == session[p] # Nil /\ ~Alive(session[p]) /\ sessionMap[session[p]] = p

\* getSessionId of the old session; its id is empty if the connection is gone.
GetOld(t) ==
  LET c == th[t]
      p == c.player
      old == GetSession(p)
  IN
  /\ c.pc = "old"
  /\ IF c.held /\ old # Nil
     THEN Goto(t, [c EXCEPT !.id = IF net[old] = "gone" THEN Nil ELSE old], "unlink")
     ELSE Goto(t, c, "set")
  /\ tangled' = IF c.held /\ LostOld(p) THEN tangled \cup {p} ELSE tangled
  /\ UNCHANGED <<net, owner, queue, manager, sessionMap, offlineIds, room, asked>>

\* Mutant of Unlink: the old session stays in the map.
UnlinkNot(t) ==
  /\ th[t].pc = "unlink"
  /\ Goto(t, th[t], "set")
  /\ UNCHANGED <<net, owner, queue, manager, sessionMap, offlineIds, room, asked,
                 tangled>>

\* removeSessionId.
Unlink(t) ==
  /\ th[t].pc = "unlink"
  /\ sessionMap' = [sessionMap EXCEPT ![th[t].id] = Nil]
  /\ Goto(t, th[t], "set")
  /\ UNCHANGED <<net, owner, queue, manager, offlineIds, room, asked, tangled>>

\* session->getId, which leaves the old id if the connection is gone; setSession.
SetSession(t) ==
  LET c == th[t]
      gone == net[c.session] = "gone"
  IN
  /\ c.pc = "set"
  /\ session' = IF c.held THEN [session EXCEPT ![c.player] = c.session] ELSE session
  /\ Goto(t, IF gone THEN c ELSE [c EXCEPT !.id = c.session], "link")
  /\ tangled' = IF gone THEN tangled \cup {c.player} ELSE tangled
  /\ UNCHANGED <<net, owner, queue, players, venueId, offline, reference, inexact,
                 sessionMap, offlineIds, room, asked>>

\* Mutant of Link: the session is linked to the session.
LinkSwapped(t) ==
  /\ th[t].pc = "link"
  /\ sessionMap' = [sessionMap EXCEPT ![th[t].id] = th[t].id]
  /\ Goto(t, th[t], "venue")
  /\ UNCHANGED <<net, owner, queue, manager, offlineIds, room, asked, tangled>>

\* setSessionPlayerId.
Link(t) ==
  /\ th[t].pc = "link"
  /\ sessionMap' = [sessionMap EXCEPT ![th[t].id] = th[t].player]
  /\ Goto(t, th[t], "venue")
  /\ UNCHANGED <<net, owner, queue, manager, offlineIds, room, asked, tangled>>

\* onDisconnect: getPlayerBySessionId does not touch the player.
Find(t) ==
  LET c == th[t]
      p == sessionMap[c.session]
  IN
  /\ c.pc = "find"
  /\ IF p \in players
     THEN Goto(t, [c EXCEPT !.player = p, !.held = TRUE], "remove")
     ELSE Done(t)
  /\ UNCHANGED <<net, owner, queue, manager, sessionMap, offlineIds, room,
                 asked, tangled>>

\* removeSessionId.
RemoveSessionId(t) ==
  /\ th[t].pc = "remove"
  /\ sessionMap' = [sessionMap EXCEPT ![th[t].session] = Nil]
  /\ Goto(t, th[t], "off")
  /\ UNCHANGED <<net, owner, queue, manager, offlineIds, room, asked, tangled>>

\* Player::setOffline.
SetOffline(t) ==
  LET c == th[t]
      p == c.player
  IN
  /\ c.pc = "off"
  /\ session' = IF c.held THEN [session EXCEPT ![p] = Nil] ELSE session
  /\ offline' = IF c.held THEN [offline EXCEPT ![p] = 0] ELSE offline
  /\ Goto(t, c, "list")
  /\ UNCHANGED <<net, owner, queue, players, venueId, reference, inexact,
                 sessionMap, offlineIds, room, asked, tangled>>

AddOfflinePlayer(t) ==
  /\ th[t].pc = "list"
  /\ offlineIds' = Append(offlineIds, th[t].player)
  /\ Goto(t, th[t], "venue")
  /\ UNCHANGED <<net, owner, queue, manager, sessionMap, room, asked, tangled>>

\* Player::getVenueId: the room need only be told of a player inside.
GetVenueId(t) ==
  LET c == th[t]
  IN
  /\ c.pc = "venue"
  /\ IF c.held /\ venueId[c.player] THEN Goto(t, c, "tell") ELSE Done(t)
  /\ UNCHANGED <<net, owner, queue, manager, sessionMap, offlineIds, room,
                 asked, tangled>>

\* dispatch of Venue::onConnect or onDisconnect to the inner thread.
Tell(t) ==
  LET c == th[t]
  IN
  /\ c.pc = "tell"
  /\ inner' = Append(inner, [op |-> c.kind, player |-> c.player, late |-> FALSE])
  /\ Done(t)
  /\ UNCHANGED <<net, owner, queue, manager, sessionMap, offlineIds, avatar,
                 inRoom, half, asked, tangled>>

\* A signed request to enter the venue, which VenueOuterHandler turns into a
\* closure; verifySignature loads or touches the player.
RequestEnter(s) ==
  LET p == owner[s]
  IN
  /\ net[s] = "open" /\ asked < MaxRequests
  /\ asked' = asked + 1
  /\ IF p \in players
     THEN Touch(p) /\ UNCHANGED <<players, session, venueId, offline>>
     ELSE NewPlayer(p)
  /\ inner' = Append(inner, [op |-> "enter", player |-> p, late |-> FALSE])
  /\ UNCHANGED <<net, owner, queue, th, inexact, sessionMap, offlineIds, avatar,
                 inRoom, half, tangled>>

-----------------------------------------------------------------------------
(* The inner thread *)

TouchIfThere(p) ==
  IF p \in players THEN Touch(p) ELSE UNCHANGED reference

\* Mutant of RoomOnConnect: the avatar keeps its session.
RoomOnConnectKeeps(p) ==
  /\ IF p \in inRoom THEN TouchIfThere(p) ELSE UNCHANGED reference
  /\ UNCHANGED avatar

\* GameRoom::onConnect.
RoomOnConnect(p) ==
  /\ IF p \in inRoom
     THEN /\ TouchIfThere(p)
          /\ avatar' = IF p \in players THEN [avatar EXCEPT ![p] = GetSession(p)]
                       ELSE avatar
     ELSE UNCHANGED <<reference, avatar>>

\* GameRoom::onDisconnect.
RoomOnDisconnect(p) ==
  /\ avatar' = [avatar EXCEPT ![p] = Nil]
  /\ UNCHANGED reference

Notify ==
  /\ inner # <<>> /\ half = Nil
  /\ LET c == Head(inner)
     IN \/ c.op = "connect" /\ RoomOnConnect(c.player)
        \/ c.op = "disconnect" /\ RoomOnDisconnect(c.player)
  /\ inner' = Tail(inner)
  /\ UNCHANGED <<net, owner, queue, th, players, session, venueId, offline,
                 inexact, sessionMap, offlineIds, inRoom, half, asked, tangled>>

Overlap(p) == tangled' = IF Working(p) THEN tangled \cup {p} ELSE tangled

\* The end of GameRoom::joinGame, which enterImpl may refuse.
JoinGame ==
  /\ inner # <<>> /\ half = Nil /\ Head(inner).op = "enter"
  /\ LET p == Head(inner).player
     IN \/ UNCHANGED <<avatar, inRoom, half, reference, tangled>>
        \/ /\ p \notin inRoom
           /\ inRoom' = inRoom \cup {p}
           /\ avatar' = [avatar EXCEPT ![p] = IF p \in players THEN GetSession(p) ELSE Nil]
           /\ TouchIfThere(p)
           /\ half' = Head(inner) /\ Overlap(p)
  /\ inner' = Tail(inner)
  /\ UNCHANGED <<net, owner, queue, th, players, session, venueId, offline,
                 inexact, sessionMap, offlineIds, asked>>

\* The room has still to be told something about p.
ToTell(p) == \E i \in DOMAIN inner : inner[i].player = p /\ inner[i].op # "enter"

\* GameRoom::leaveImpl or kickAvatar: the avatar is removed.
RemoveAvatar(p) ==
  /\ half = Nil /\ p \in inRoom
  /\ inRoom' = inRoom \ {p}
  /\ avatar' = [avatar EXCEPT ![p] = Nil]
  /\ half' = [op |-> "leave", player |-> p, late |-> FALSE]
  /\ tangled' = IF Working(p) \/ ToTell(p) THEN tangled \cup {p} ELSE tangled
  /\ UNCHANGED <<net, owner, queue, th, manager, sessionMap, offlineIds, inner, asked>>

\* Venue::afterEnter and afterLeave.
AfterRoom ==
  /\ half # Nil
  /\ LET p == half.player
     IN /\ TouchIfThere(p)
        /\ venueId' = IF p \in players THEN [venueId EXCEPT ![p] = half.op = "enter"]
                      ELSE venueId
  /\ half' = Nil
  /\ UNCHANGED <<net, owner, queue, th, players, session, offline, inexact,
                 sessionMap, offlineIds, avatar, inRoom, inner, asked, tangled>>

-----------------------------------------------------------------------------
(* Time *)

Older(age, limit) == IF age < limit THEN age + 1 ELSE limit

\* What the loop of freeDormantPlayers asks about an entry of its list: it drops the
\* entry of a player who is not there or not offline, stops at one who is offline for
\* too short a time, steps over one who is in a venue or was referenced, and frees
\* the others.
Dropped(p) == p \notin players \/ ~GetOffline(p)
Young(p) == Older(offline[p], OfflineLimit) < OfflineLimit
Referenced(p) == Older(reference[p], ReferenceLimit) < ReferenceLimit

\* Mutants of Freeable: a player in a venue is freed as well; the test of the
\* reference time the wrong way round.
FreeableAll(p) == ~Young(p) /\ ~Referenced(p)
FreeableReferenced(p) == ~venueId[p] /\ ~Young(p) /\ Referenced(p)

Freeable(p) == ~venueId[p] /\ ~Young(p) /\ ~Referenced(p)

\* The loop ends, with a break, after an entry it drops, a second entry of a player
\* it has freed included, and at a player who is offline for too short a time.
Breaks(i) ==
  LET p == offlineIds[i]
  IN Dropped(p) \/ (Freeable(p) /\ \E j \in 1 .. i - 1 : offlineIds[j] = p)
Ends(i) == Breaks(i) \/ (~venueId[offlineIds[i]] /\ Young(offlineIds[i]))
End == Min({Len(offlineIds) + 1} \cup {i \in DOMAIN offlineIds : Ends(i)})

\* The entries that are erased, the players that are freed, and what is left.
Erased ==
  {i \in DOMAIN offlineIds : (i < End /\ Freeable(offlineIds[i])) \/ (i = End /\ Breaks(i))}
Freed == {offlineIds[i] : i \in Erased \ {End}}
Kept ==
  LET kept[i \in 0 .. Len(offlineIds)] ==
        IF i = 0 THEN <<>>
        ELSE IF i \in Erased THEN kept[i - 1] ELSE Append(kept[i - 1], offlineIds[i])
  IN kept[Len(offlineIds)]

\* A timer period goes by and PlayerManager::onTimer runs.  A call, or a closure
\* in the inner thread's queue, sees at most one run of the timer.
OnTimer ==
  /\ \A t \in Threads : ~th[t].late
  /\ \A i \in DOMAIN inner : ~inner[i].late
  /\ half # Nil => ~half.late
  /\ th' = [t \in Threads |->
              [th[t] EXCEPT !.late = th[t].pc # "idle",
                            !.held = @ /\ th[t].player \notin Freed]]
  /\ inner' = [i \in DOMAIN inner |-> [inner[i] EXCEPT !.late = TRUE]]
  /\ half' = IF half = Nil THEN Nil ELSE [half EXCEPT !.late = TRUE]
  /\ session' = [p \in Players |-> IF p \in Freed THEN Nil ELSE session[p]]
  /\ offline' = [p \in Players |-> IF p \in players \ Freed
                                   THEN Older(offline[p], OfflineLimit) ELSE OfflineLimit]
  /\ reference' = [p \in Players |-> IF p \in players \ Freed
                                     THEN Older(reference[p], ReferenceLimit) ELSE 0]
  /\ inexact' = IF offlineIds = <<>> THEN Older(inexact, ReferenceLimit) ELSE 0
  /\ offlineIds' = Kept /\ players' = players \ Freed
  /\ tangled' = tangled \cup {p \in Freed : \E s \in Sessions : sessionMap[s] = p}
  /\ UNCHANGED <<net, owner, queue, venueId, sessionMap, avatar, inRoom, asked>>

-----------------------------------------------------------------------------

Step(t) ==
  \/ Pop(t) \/ Preprocess(t) \/ AddPlayer(t) \/ GetPlayer(t) \/ GetOld(t)
  \/ Unlink(t) \/ SetSession(t) \/ Link(t) \/ Find(t) \/ RemoveSessionId(t)
  \/ SetOffline(t) \/ AddOfflinePlayer(t) \/ GetVenueId(t) \/ Tell(t)

InnerStep == Notify \/ JoinGame \/ AfterRoom

Next ==
  \/ \E t \in Threads : Step(t)
  \/ InnerStep \/ OnTimer
  \/ \E s \in Sessions :
       \/ \E p \in Players : Connect(s, p)
       \/ OnDisconnect(s) \/ CheckConnection(s)
       \/ RequestEnter(s)
  \/ \E p \in Players : RemoveAvatar(p)

Spec == Init /\ [][Next]_vars

\* Every outer thread and the inner thread go on with what they have begun and
\* take the next message, and the timer runs again and again.
FairSpec ==
  Spec /\ (\A t \in Threads : WF_vars(Step(t))) /\ WF_vars(InnerStep) /\ WF_vars(OnTimer)

-----------------------------------------------------------------------------
(* Properties *)

Calling(p) == \E t \in Threads : th[t].pc # "idle" /\ owner[th[t].session] = p

\* PlayerManager's two views agree: between the calls about a player, a session
\* that is open and mapped to the player is the player's session, the player is
\* in the table, and an open session of a player is mapped to that player.  The
\* exceptions are players whose messages were handled in overlap, whose old
\* session was destroyed before the new one was connected, or who were freed
\* while a disconnection was waiting.
SessionsAgree ==
  \A p \in Players, s \in Sessions :
    ~Calling(p) /\ p \notin tangled /\ net[s] = "open" =>
      (sessionMap[s] = p <=> p \in players /\ session[p] = s)

\* The object onPlayerConnect got from getPlayer stays in the table until the
\* call is over, for touch keeps freeDormantPlayers from freeing it: a session
\* is never given to an object nobody can find.
HeldNotFreed ==
  \A t \in Threads :
    th[t].kind = "connect" /\ th[t].pc \in {"old", "unlink", "set", "link", "venue", "tell"}
      => th[t].held /\ th[t].player \in players

\* A player with an avatar in a room is not freed, and the room and the player
\* agree about it whenever the inner thread is between two closures.
MemberIsKnown ==
  \A p \in inRoom : p \in players /\ (venueId[p] \/ (half # Nil /\ half.player = p))

\* While nothing about a player is being handled or waits for the inner thread, the
\* avatar is online exactly if the player is, in the same session, whatever messages
\* are still in the queue.  The same exceptions, and one more: a player removed from
\* the room before it was told of a disconnection, who has reconnected and entered
\* again when it is told.
AvatarAgrees ==
  \A p \in inRoom :
    /\ p \notin tangled /\ ~Working(p)
    /\ \A i \in DOMAIN inner : inner[i].player # p
    => /\ Open(avatar[p]) <=> Open(session[p])
       /\ Open(session[p]) => avatar[p] = session[p]

\* Once an offline player is listed and out of the venue, the entry goes away: the
\* player is freed unless there is a new session, or enters again.
DormantFreed ==
  \A p \in Players :
    p \in ToSet(offlineIds) /\ ~venueId[p] ~> p \notin ToSet(offlineIds) \/ venueId[p]

-----------------------------------------------------------------------------
(* The inductive invariants behind the safety properties *)

\* In onPlayerConnect after getPlayer.
Connecting == {"old", "unlink", "set", "link", "venue", "tell"}

\* A call is about a session, and after the first step about a player.
CallOf(c) ==
  /\ c.pc # "idle" => c.session \in Sessions
  /\ c.pc \notin {"idle", "find"} => c.player \in Players
  /\ c.pc \in {"idle"} \cup (IF c.kind = "connect" THEN ConnectPcs ELSE DisconnectPcs)

\* The player is in the table and will not be freed by the next run of the timer.
Touched(p, late) == p \in players /\ (~late => reference[p] \in {0, inexact})

\* Connecting, the call has touched the player.  Disconnecting, it has not: the
\* player may have been freed, but only by a run of the timer that has renewed
\* _inexactTime, and has not been offline for long when it is listed.
CallTouched(c) ==
  c.kind = "connect" /\ c.pc \in Connecting => c.held /\ Touched(c.player, c.late)
CallOffline(c) ==
  c.kind = "disconnect" /\ c.pc \in {"remove", "off", "list"} =>
    /\ IF c.held THEN c.player \in players ELSE c.late /\ inexact = 0
    /\ c.held /\ c.pc = "list" => offline[c.player] <= IF c.late THEN 1 ELSE 0
CallInv ==
  \A t \in Threads : CallOf(th[t]) /\ CallTouched(th[t]) /\ CallOffline(th[t])

\* A request to enter has touched the player.
ClosureTouched(c) == c.op = "enter" => Touched(c.player, c.late)
ClosureInv ==
  /\ \A i \in DOMAIN inner : ClosureTouched(inner[i])
  /\ half # Nil => ClosureTouched(half)

\* _inexactTime is old only if the list of the offline players was empty at the last
\* run of the timer, so that those in it now have not been offline for long.
ListInv ==
  inexact > 0 => \A i \in DOMAIN offlineIds :
                   offlineIds[i] \in players /\ offline[offlineIds[i]] <= 1

\* Who is in the room, and what the inner thread is doing about it.
RoomInv ==
  /\ half # Nil => half.op = IF half.player \in inRoom THEN "enter" ELSE "leave"
  /\ MemberIsKnown

\* A session that is known has an owner.
QueueInv ==
  /\ \A s \in Sessions : owner[s] = Nil <=> net[s] = "new"
  /\ \A i \in DOMAIN queue : owner[queue[i].session] # Nil

SessionInv == TypeOK /\ CallInv /\ ClosureInv /\ ListInv /\ RoomInv /\ QueueInv

\* Everything about a session is about its owner.
CallOwner(c) ==
  /\ c.pc # "idle" => owner[c.session] # Nil
  /\ c.pc \notin {"idle", "find"} => c.player = owner[c.session]
  /\ c.id # Nil => c.pc # "find" /\ c.player # Nil /\ owner[c.id] = c.player
OwnerInv ==
  /\ \A s \in Sessions : sessionMap[s] \in {Nil, owner[s]}
  /\ \A p \in Players : session[p] # Nil => owner[session[p]] = p
  /\ \A t \in Threads : CallOwner(th[t])

About(t, p) == th[t].pc # "idle" /\ owner[th[t].session] = p
OneCall(p) == \A t, u \in Threads : About(t, p) /\ About(u, p) => t = u

\* The map and the player agree, unless a call is between two writes; NoSession is
\* what it has made true by then.
Agree(p) == \A s \in Sessions : sessionMap[s] = p <=> p \in players /\ session[p] = s
NoSession(p) == \A s \in Sessions : sessionMap[s] # p
Between == {"set", "link", "off"}

\* What a call about p has made sure of.
CallAgree(c, p) ==
  /\ c.pc = "unlink" => session[p] = c.id \/ net[c.session] = "gone"
  /\ c.pc = "set" => NoSession(p) \/ net[c.session] = "gone"
  /\ c.pc = "link" => NoSession(p) /\ session[p] = c.session /\ c.id = c.session
  /\ c.pc = "remove" => sessionMap[c.session] = p /\ c.held
  /\ c.pc = "off" => NoSession(p) /\ (c.held \/ session[p] = Nil)

AgreeFor(p) ==
  /\ OneCall(p)
  /\ (\A t \in Threads : About(t, p) => th[t].pc \notin Between) => Agree(p)
  /\ \A t \in Threads : About(t, p) => CallAgree(th[t], p)
AgreeInv == \A p \in Players \ tangled : AgreeFor(p)

\* The avatar of p has the player's session, as far as it is open.
Same(p) == Open(avatar[p]) \/ Open(session[p]) => avatar[p] = session[p]

\* The last the room has still to be told about p is a disconnection.
DisconnectLast(p) ==
  \E i \in DOMAIN inner :
    /\ inner[i].player = p /\ inner[i].op = "disconnect"
    /\ \A j \in DOMAIN inner : j > i /\ inner[j].player = p => inner[j].op = "enter"

\* The avatar is up to date, or will be when the room has been told everything.
Told(p) ==
  /\ ToTell(p) \/ Same(p)
  /\ DisconnectLast(p) => ~Open(session[p])

\* A call that has set the session and not yet told the room.
Setting(c) == c.pc \in IF c.kind = "connect" THEN {"link", "venue", "tell"}
                       ELSE {"list", "venue", "tell"}

\* What a call about p knows of the room: it tells only a room with p inside, and
\* the player whose object was freed is not there.
CallRoom(c, p) ==
  /\ c.pc = "tell" => p \in inRoom
  /\ c.kind = "disconnect" /\ c.pc \in {"remove", "off", "list", "venue", "tell"} =>
       /\ c.held \/ p \notin inRoom
       /\ c.pc \in {"list", "venue", "tell"} => session[p] = Nil

\* The inner thread is in the middle of a closure about p.
HalfOf(p) == half # Nil /\ half.player = p

AvatarFor(p) ==
  /\ HalfOf(p) => \A t \in Threads : ~About(t, p)
  /\ p \notin inRoom => ~ToTell(p)
  /\ \A t \in Threads : About(t, p) => CallRoom(th[t], p)
  /\ p \in inRoom /\ (\A t \in Threads : About(t, p) => ~Setting(th[t])) => Told(p)

AvatarOwner == \A p \in Players : avatar[p] # Nil => owner[avatar[p]] = p
VenueKnown ==
  \A p \in Players : venueId[p] => p \in players /\ (p \in inRoom \/ HalfOf(p))

AvatarInv == AvatarOwner /\ VenueKnown /\ \A p \in Players \ tangled : AvatarFor(p)
=============================================================================
