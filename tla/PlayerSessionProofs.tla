------------------------- MODULE PlayerSessionProofs -------------------------
(***************************************************************************)
(* Proof that a player somebody works with is not freed, that sessions and  *)
(* players agree between the calls about a player, and that the avatars in  *)
(* the room agree with the players, for any number of threads, players and  *)
(* sessions and any limits.                                                 *)
(***************************************************************************)
EXTENDS PlayerSession, SequenceTheorems, WellFoundedInduction, TLAPS

-----------------------------------------------------------------------------
(* Calls *)

\* The constants, and what is not what.
LEMMA Limits ==
  /\ Nil \notin Players /\ Nil \notin Nat /\ Sessions \subseteq Nat /\ Nil \notin Sessions
  /\ OfflineLimit \in Nat /\ ReferenceLimit \in Nat
  /\ ReferenceLimit > 1 /\ OfflineLimit > 2
  /\ MaxRequests \in Nat /\ MaxSessions \in Nat
BY SessionAssumption DEF Sessions

\* Thread t sets its call, and the others keep theirs.
Sets(t, c) ==
  /\ th' \in [Threads -> Call] /\ th'[t] = c
  /\ \A u \in Threads : u # t => th'[u] = th[u]

LEMMA SetCall ==
  ASSUME TypeOK, NEW t \in Threads, NEW c \in Call, th' = [th EXCEPT ![t] = c]
  PROVE  Sets(t, c)
<1>1. th \in [Threads -> Call]
  BY DEF TypeOK
<1> QED
  BY <1>1 DEF Sets

LEMMA IdleCall ==
  Idle \in Call /\ Idle.pc = "idle" /\ Idle.kind = "connect" /\ Idle.held = FALSE
  /\ Idle.late = FALSE /\ Idle.session = Nil /\ Idle.player = Nil /\ Idle.id = Nil
BY DEF Idle, Call, Ids

\* A call goes on to pc.
Follows(c, d, pc) ==
  /\ d.pc = pc /\ d.kind = c.kind /\ d.session = c.session /\ d.player = c.player
  /\ d.id = c.id /\ d.held = c.held /\ d.late = c.late

LEMMA GotoSets ==
  ASSUME SessionInv, NEW t \in Threads, NEW c \in Call,
         NEW pc \in {"idle"} \cup ConnectPcs \cup DisconnectPcs, Goto(t, c, pc)
  PROVE  \E d \in Call : Sets(t, d) /\ Follows(c, d, pc)
<1> DEFINE d == [c EXCEPT !.pc = pc]
<1>1. d \in Call /\ Follows(c, d, pc)
  BY DEF Call, Follows
<1>2. th' = [th EXCEPT ![t] = d]
  BY DEF Goto
<1> HIDE DEF d
<1>3. Sets(t, d)
  BY <1>1, <1>2, SetCall DEF SessionInv
<1> QED
  BY <1>1, <1>3

-----------------------------------------------------------------------------
(* What a step other than OnTimer leaves alone *)

\* Nobody is freed and the clock stands still: players are added, and those that
\* are there are touched or go offline.
Quiet ==
  /\ players \subseteq players' /\ inexact' = inexact
  /\ \A p \in players : /\ reference'[p] \in {reference[p], inexact}
                        /\ offline'[p] \in {offline[p], 0}

LEMMA QuietTouched ==
  ASSUME Quiet, NEW p, NEW late, Touched(p, late)
  PROVE  Touched(p, late)'
BY DEF Quiet, Touched

LEMMA QuietCall ==
  ASSUME SessionInv, Quiet, NEW c \in Call, CallOf(c), CallTouched(c), CallOffline(c)
  PROVE  CallTouched(c)' /\ CallOffline(c)'
<1>1. CallTouched(c)'
  BY DEF Quiet, CallTouched, Touched
<1>2. CallOffline(c)'
  <2> SUFFICES ASSUME c.kind = "disconnect", c.pc \in {"remove", "off", "list"}
               PROVE  /\ IF c.held THEN c.player \in players' ELSE c.late /\ inexact' = 0
                      /\ c.held /\ c.pc = "list" =>
                           offline'[c.player] <= IF c.late THEN 1 ELSE 0
    BY DEF CallOffline
  <2>1. /\ IF c.held THEN c.player \in players ELSE c.late /\ inexact = 0
        /\ c.held /\ c.pc = "list" => offline[c.player] <= IF c.late THEN 1 ELSE 0
    BY DEF CallOffline
  <2>2. c.held => offline'[c.player] \in {offline[c.player], 0}
    BY <2>1 DEF Quiet
  <2> QED
    BY <2>1, <2>2 DEF Quiet
<1> QED
  BY <1>1, <1>2

\* Calls after a step of thread t, or of no thread.
LEMMA CallsKept ==
  ASSUME SessionInv, Quiet, NEW t \in Threads, NEW c \in Call, Sets(t, c),
         CallOf(c), CallTouched(c)', CallOffline(c)'
  PROVE  CallInv'
<1> SUFFICES ASSUME NEW u \in Threads
             PROVE  (CallOf(th[u]) /\ CallTouched(th[u]) /\ CallOffline(th[u]))'
  BY DEF CallInv
<1>1. CASE u = t
  <2>1. th'[u] = c
    BY <1>1 DEF Sets
  <2> QED
    BY <2>1 DEF CallOf, CallTouched, CallOffline, Touched
<1>2. CASE u # t
  <2>1. th'[u] = th[u] /\ th[u] \in Call
    BY <1>2 DEF Sets, SessionInv, TypeOK
  <2> DEFINE d == th[u]
  <2>2. CallOf(d) /\ CallTouched(d) /\ CallOffline(d)
    BY DEF SessionInv, CallInv
  <2>3. \A e \in Call : CallOf(e) /\ CallTouched(e) /\ CallOffline(e) =>
                          CallTouched(e)' /\ CallOffline(e)'
    BY QuietCall
  <2> QED
    BY <2>1, <2>2, <2>3 DEF CallOf, CallTouched, CallOffline, Touched
<1> QED
  BY <1>1, <1>2

LEMMA CallsSame ==
  ASSUME SessionInv, Quiet, th' = th
  PROVE  CallInv'
<1> SUFFICES ASSUME NEW u \in Threads
             PROVE  (CallOf(th[u]) /\ CallTouched(th[u]) /\ CallOffline(th[u]))'
  BY DEF CallInv
<1> DEFINE d == th[u]
<1>1. d \in Call /\ CallOf(d) /\ CallTouched(d) /\ CallOffline(d)
  BY DEF SessionInv, CallInv, TypeOK
<1>2. \A e \in Call : CallOf(e) /\ CallTouched(e) /\ CallOffline(e) =>
                        CallTouched(e)' /\ CallOffline(e)'
  BY QuietCall
<1> QED
  BY <1>1, <1>2 DEF CallOf, CallTouched, CallOffline, Touched

\* The closures after a step that does not touch them.
LEMMA ClosuresSame ==
  ASSUME SessionInv, Quiet, UNCHANGED <<inner, half>>
  PROVE  ClosureInv'
<1>1. \A c : ClosureTouched(c) => ClosureTouched(c)'
  BY DEF Quiet, ClosureTouched, Touched
<1> QED
  BY <1>1 DEF SessionInv, ClosureInv, ClosureTouched, Touched

LEMMA ListSame ==
  ASSUME SessionInv, Quiet, UNCHANGED offlineIds
  PROVE  ListInv'
<1> SUFFICES ASSUME inexact > 0, NEW i \in DOMAIN offlineIds
             PROVE  offlineIds[i] \in players' /\ offline'[offlineIds[i]] <= 1
  BY DEF ListInv, Quiet
<1>1. offlineIds[i] \in players /\ offline[offlineIds[i]] <= 1
  BY DEF SessionInv, ListInv
<1>2. offline'[offlineIds[i]] \in {offline[offlineIds[i]], 0}
  BY <1>1 DEF Quiet
<1> QED
  BY <1>1, <1>2 DEF Quiet

LEMMA RoomSame ==
  ASSUME SessionInv, Quiet, UNCHANGED <<half, inRoom>>,
         \A p \in players : venueId'[p] = venueId[p]
  PROVE  RoomInv'
BY DEF SessionInv, Quiet, RoomInv, MemberIsKnown

LEMMA QueueSame ==
  ASSUME SessionInv, UNCHANGED <<net, owner, queue>>
  PROVE  QueueInv'
BY DEF SessionInv, QueueInv

LEMMA StepKept ==
  ASSUME SessionInv, Quiet, NEW t \in Threads, NEW c \in Call, Sets(t, c),
         CallOf(c), CallTouched(c)', CallOffline(c)',
         UNCHANGED <<inner, half, inRoom, offlineIds>>,
         \A p \in players : venueId'[p] = venueId[p], TypeOK', QueueInv'
  PROVE  SessionInv'
<1>1. CallInv' /\ ClosureInv' /\ ListInv' /\ RoomInv'
  BY CallsKept, ClosuresSame, ListSame, RoomSame
<1> QED
  BY <1>1 DEF SessionInv

LEMMA StillQuiet ==
  ASSUME UNCHANGED <<players, reference, inexact, offline>>
  PROVE  Quiet
BY DEF Quiet

LEMMA TouchQuiet ==
  ASSUME SessionInv, NEW p \in Players, Touch(p), UNCHANGED <<players, inexact, offline>>
  PROVE  /\ Quiet /\ reference' \in [Players -> 0 .. ReferenceLimit] /\ reference'[p] = inexact
<1>1. reference \in [Players -> 0 .. ReferenceLimit] /\ inexact \in 0 .. ReferenceLimit
  BY DEF SessionInv, TypeOK
<1>2. players \subseteq Players
  BY DEF SessionInv, TypeOK
<1> QED
  BY <1>1, <1>2 DEF Touch, Quiet

LEMMA NewQuiet ==
  ASSUME SessionInv, NEW p \in Players, p \notin players, NewPlayer(p), UNCHANGED inexact
  PROVE  /\ Quiet /\ players' = players \cup {p} /\ players' \subseteq Players
         /\ session' \in [Players -> Ids] /\ venueId' \in [Players -> BOOLEAN]
         /\ offline' \in [Players -> 0 .. OfflineLimit]
         /\ reference' \in [Players -> 0 .. ReferenceLimit] /\ reference'[p] = 0
         /\ \A q \in players : venueId'[q] = venueId[q]
<1>1. /\ players \subseteq Players /\ session \in [Players -> Ids]
      /\ venueId \in [Players -> BOOLEAN] /\ offline \in [Players -> 0 .. OfflineLimit]
      /\ reference \in [Players -> 0 .. ReferenceLimit]
  BY DEF SessionInv, TypeOK
<1>2. Nil \in Ids /\ 0 \in 0 .. ReferenceLimit /\ OfflineLimit \in 0 .. OfflineLimit
  BY Limits DEF Ids
<1>3. /\ players' = players \cup {p} /\ session' = [session EXCEPT ![p] = Nil]
      /\ venueId' = [venueId EXCEPT ![p] = FALSE] /\ offline' = [offline EXCEPT ![p] = OfflineLimit]
      /\ reference' = [reference EXCEPT ![p] = 0]
  BY DEF NewPlayer
<1> QED
  BY <1>1, <1>2, <1>3 DEF Quiet

\* getPlayer or addPlayer: the player is in the table and touched.
Loads(p) ==
  IF p \in players THEN Touch(p) /\ UNCHANGED <<players, session, venueId, offline>>
  ELSE NewPlayer(p)

LEMMA LoadsQuiet ==
  ASSUME SessionInv, NEW p \in Players, Loads(p), UNCHANGED inexact
  PROVE  /\ Quiet /\ players' = players \cup {p} /\ players' \subseteq Players
         /\ session' \in [Players -> Ids] /\ venueId' \in [Players -> BOOLEAN]
         /\ offline' \in [Players -> 0 .. OfflineLimit]
         /\ reference' \in [Players -> 0 .. ReferenceLimit]
         /\ reference'[p] \in {0, inexact}
         /\ \A q \in players : venueId'[q] = venueId[q]
<1>1. CASE p \in players
  <2>1. Touch(p) /\ UNCHANGED <<players, session, venueId, offline>>
    BY <1>1 DEF Loads
  <2>2. /\ Quiet /\ reference' \in [Players -> 0 .. ReferenceLimit] /\ reference'[p] = inexact
    BY <2>1, TouchQuiet
  <2> QED
    BY <1>1, <2>1, <2>2 DEF SessionInv, TypeOK
<1>2. CASE p \notin players
  BY <1>2, NewQuiet DEF Loads
<1> QED
  BY <1>1, <1>2

\* The call of a thread before the step.
LEMMA CallFacts ==
  ASSUME SessionInv, NEW t \in Threads
  PROVE  /\ th[t] \in Call /\ CallOf(th[t]) /\ CallTouched(th[t]) /\ CallOffline(th[t])
         /\ th[t].player \in Players \cup {Nil} /\ th[t].session \in Ids /\ th[t].id \in Ids
         /\ th[t].held \in BOOLEAN /\ th[t].late \in BOOLEAN
<1>1. th[t] \in Call
  BY DEF SessionInv, TypeOK
<1> QED
  BY <1>1 DEF SessionInv, CallInv, Call

\* The last step of a call.
LEMMA DoneKept ==
  ASSUME SessionInv, Quiet, NEW t \in Threads, Done(t), TypeOK', QueueInv',
         UNCHANGED <<inner, half, inRoom, offlineIds>>, \A p \in players : venueId'[p] = venueId[p]
  PROVE  SessionInv'
<1>1. Sets(t, Idle) /\ Idle \in Call
  BY IdleCall, SetCall DEF Done, SessionInv
<1>2. CallOf(Idle) /\ CallTouched(Idle)' /\ CallOffline(Idle)'
  BY IdleCall DEF CallOf, CallTouched, CallOffline, Connecting, Idle
<1> QED
  BY <1>1, <1>2, StepKept

-----------------------------------------------------------------------------
(* onPlayerConnect *)

LEMMA DoneType ==
  ASSUME SessionInv, NEW t \in Threads, Done(t)
  PROVE  th' \in [Threads -> Call]
BY IdleCall, SetCall DEF Done, SessionInv, Sets

LEMMA PreprocessStep ==
  ASSUME SessionInv, NEW t \in Threads, Preprocess(t)
  PROVE  SessionInv'
<1> DEFINE c == th[t]
           p == c.player
<1>1. UNCHANGED <<net, owner, queue, players, session, venueId, offline, inexact,
                  sessionMap, offlineIds, avatar, inRoom, inner, half, asked, tangled>>
  BY DEF Preprocess, room
<1>2. c \in Call /\ CallOf(c) /\ c.pc = "load"
  BY CallFacts DEF Preprocess
<1>3. p \in Players /\ c.session \in Sessions /\ c.kind = "connect"
  BY <1>2 DEF CallOf, ConnectPcs, DisconnectPcs
<1>4. Quiet /\ reference' \in [Players -> 0 .. ReferenceLimit]
  <2>1. CASE UNCHANGED reference
    BY <1>1, <2>1, StillQuiet DEF SessionInv, TypeOK
  <2>2. CASE Touch(p)
    BY <1>1, <1>3, <2>2, TouchQuiet
  <2> QED
    BY <2>1, <2>2 DEF Preprocess
<1>5. ASSUME NEW pc \in {"get", "add"}, Goto(t, c, pc)
      PROVE  SessionInv'
  <2>1. PICK d \in Call : Sets(t, d) /\ Follows(c, d, pc)
    BY <1>2, <1>5, GotoSets DEF ConnectPcs
  <2>2. d.kind = "connect" /\ d.session \in Sessions /\ d.player \in Players /\ d.pc = pc
    BY <1>3, <2>1 DEF Follows
  <2> HIDE DEF c
  <2>4. CallOf(d) /\ CallTouched(d)' /\ CallOffline(d)'
    BY <1>5, <2>2 DEF CallOf, CallTouched, CallOffline, Connecting, ConnectPcs
  <2>5. TypeOK'
    BY <1>1, <1>4, <2>1 DEF SessionInv, TypeOK, Sets
  <2> QED
    BY <1>1, <1>4, <2>1, <2>4, <2>5, StepKept, QueueSame
<1>6. ASSUME Done(t)
      PROVE  SessionInv'
  <2>1. TypeOK'
    BY <1>1, <1>4, <1>6, DoneType DEF SessionInv, TypeOK
  <2> QED
    BY <1>1, <1>4, <1>6, <2>1, DoneKept, QueueSame
<1> QED
  BY <1>5, <1>6 DEF Preprocess

LEMMA AddPlayerStep ==
  ASSUME SessionInv, NEW t \in Threads, AddPlayer(t)
  PROVE  SessionInv'
<1> DEFINE c == th[t]
           p == c.player
<1>1. UNCHANGED <<net, owner, queue, inexact, sessionMap, offlineIds, avatar, inRoom,
                  inner, half, asked, tangled>>
  BY DEF AddPlayer, room
<1>2. c \in Call /\ CallOf(c) /\ c.pc = "add" /\ Loads(p)
  BY CallFacts DEF AddPlayer, Loads
<1>3. p \in Players /\ c.session \in Sessions /\ c.kind = "connect"
  BY <1>2 DEF CallOf, ConnectPcs, DisconnectPcs
<1>4. /\ Quiet /\ players' \subseteq Players
      /\ session' \in [Players -> Ids] /\ venueId' \in [Players -> BOOLEAN]
      /\ offline' \in [Players -> 0 .. OfflineLimit]
      /\ reference' \in [Players -> 0 .. ReferenceLimit]
      /\ \A q \in players : venueId'[q] = venueId[q]
  BY <1>1, <1>2, <1>3, LoadsQuiet
<1>5. ASSUME th' \in [Threads -> Call]
      PROVE  TypeOK'
  BY <1>1, <1>4, <1>5 DEF SessionInv, TypeOK
<1>6. CASE Goto(t, c, "get")
  <2>1. PICK d \in Call : Sets(t, d) /\ Follows(c, d, "get")
    BY <1>2, <1>6, GotoSets DEF ConnectPcs
  <2>2. d.kind = "connect" /\ d.session \in Sessions /\ d.player \in Players /\ d.pc = "get"
    BY <1>3, <2>1 DEF Follows
  <2>3. CallOf(d) /\ CallTouched(d)' /\ CallOffline(d)'
    BY <2>2 DEF CallOf, CallTouched, CallOffline, Connecting, ConnectPcs
  <2>4. TypeOK'
    BY <1>5, <2>1 DEF Sets
  <2> QED
    BY <1>1, <1>4, <2>1, <2>3, <2>4, StepKept, QueueSame
<1>7. CASE Done(t)
  BY <1>1, <1>4, <1>5, <1>7, DoneType, DoneKept, QueueSame
<1> QED
  BY <1>6, <1>7 DEF AddPlayer

LEMMA GetPlayerStep ==
  ASSUME SessionInv, NEW t \in Threads, GetPlayer(t)
  PROVE  SessionInv'
<1> DEFINE c == th[t]
           p == c.player
           b == [c EXCEPT !.held = TRUE]
<1>1. UNCHANGED <<net, owner, queue, players, session, venueId, offline, inexact,
                  sessionMap, offlineIds, avatar, inRoom, inner, half, asked, tangled>>
  BY DEF GetPlayer, room
<1>2. c \in Call /\ CallOf(c) /\ c.pc = "get"
  BY CallFacts DEF GetPlayer
<1>3. p \in Players /\ c.session \in Sessions /\ c.kind = "connect"
  BY <1>2 DEF CallOf, ConnectPcs, DisconnectPcs
<1>4. ASSUME th' \in [Threads -> Call], reference' \in [Players -> 0 .. ReferenceLimit]
      PROVE  TypeOK'
  BY <1>1, <1>4 DEF SessionInv, TypeOK
<1>5. CASE Done(t) /\ UNCHANGED reference
  <2>1. Quiet /\ TypeOK'
    BY <1>1, <1>4, <1>5, DoneType, StillQuiet DEF SessionInv, TypeOK
  <2> QED
    BY <1>1, <1>5, <2>1, DoneKept, QueueSame
<1>6. CASE p \in players /\ Touch(p) /\ Goto(t, b, "old")
  <2>1. /\ b \in Call /\ b.kind = "connect" /\ b.session \in Sessions /\ b.player = p
        /\ b.held = TRUE
    BY <1>2, <1>3 DEF Call
  <2>2. PICK d \in Call : Sets(t, d) /\ Follows(b, d, "old")
    BY <1>6, <2>1, GotoSets DEF ConnectPcs
  <2>3. PICK q \in Players : q = p
    BY <1>3
  <2>4. d.kind = "connect" /\ d.session \in Sessions /\ d.player = q /\ d.pc = "old" /\ d.held
    BY <2>1, <2>2, <2>3 DEF Follows
  <2>5. /\ Quiet /\ reference' \in [Players -> 0 .. ReferenceLimit] /\ reference'[q] = inexact
        /\ q \in players
    BY <1>1, <1>6, <2>3, TouchQuiet
  <2>6. CallOf(d) /\ CallTouched(d)' /\ CallOffline(d)'
    BY <1>1, <2>4, <2>5 DEF CallOf, CallTouched, CallOffline, Touched, Connecting, ConnectPcs
  <2>7. TypeOK'
    BY <1>4, <2>2, <2>5 DEF Sets
  <2> QED
    BY <1>1, <2>2, <2>5, <2>6, <2>7, StepKept, QueueSame
<1> QED
  BY <1>5, <1>6 DEF GetPlayer

\* A step of a connecting call that holds its player.
LEMMA ConnectingKept ==
  ASSUME SessionInv, NEW t \in Threads, th[t].kind = "connect", th[t].pc \in Connecting,
         NEW b \in Call, NEW pc \in Connecting, Goto(t, b, pc),
         b.kind = th[t].kind, b.session = th[t].session, b.player = th[t].player,
         b.held = th[t].held, b.late = th[t].late,
         UNCHANGED <<net, owner, queue, players, venueId, offline, reference, inexact,
                     offlineIds, avatar, inRoom, inner, half, asked>>,
         session' \in [Players -> Ids], sessionMap' \in [Ids -> Players \cup {Nil}],
         tangled' \subseteq Players
  PROVE  SessionInv'
<1> USE DEF Connecting
<1>1. PICK d \in Call : Sets(t, d) /\ Follows(b, d, pc)
  BY GotoSets DEF ConnectPcs
<1>2. Quiet
  BY StillQuiet
<1>3. CallOf(th[t]) /\ CallTouched(th[t])
  BY CallFacts
<1>4. /\ th[t].session \in Sessions /\ th[t].player \in Players
      /\ th[t].held /\ Touched(th[t].player, th[t].late)
  BY <1>3 DEF CallOf, CallTouched
<1>5. /\ d.kind = "connect" /\ d.session \in Sessions /\ d.player \in Players /\ d.pc = pc
      /\ d.held /\ Touched(d.player, d.late)
  BY <1>1, <1>4 DEF Follows
<1>6. CallOf(d) /\ CallTouched(d)' /\ CallOffline(d)'
  BY <1>5 DEF CallOf, CallTouched, CallOffline, Touched, ConnectPcs
<1>7. TypeOK'
  BY <1>1 DEF SessionInv, TypeOK, Sets
<1> QED
  BY <1>1, <1>2, <1>6, <1>7, StepKept, QueueSame

LEMMA ConnectingSteps ==
  ASSUME SessionInv, NEW t \in Threads, GetOld(t) \/ Unlink(t) \/ SetSession(t) \/ Link(t)
  PROVE  SessionInv'
<1> DEFINE c == th[t]
<1>1. /\ c \in Call /\ CallOf(c) /\ c.player \in Players /\ c.session \in Sessions
      /\ c.kind = "connect" /\ c.pc \in Connecting /\ c.id \in Ids
  BY CallFacts DEF GetOld, Unlink, SetSession, Link, CallOf, ConnectPcs, DisconnectPcs, Connecting
<1>2. /\ session \in [Players -> Ids] /\ sessionMap \in [Ids -> Players \cup {Nil}]
      /\ tangled \subseteq Players
  BY DEF SessionInv, TypeOK
<1>3. CASE GetOld(t)
  <2>1. UNCHANGED <<net, owner, queue, players, session, venueId, offline, reference, inexact,
                    sessionMap, offlineIds, avatar, inRoom, inner, half, asked>>
    BY <1>3 DEF GetOld, manager, room
  <2>2. tangled' \subseteq Players
    BY <1>1, <1>2, <1>3 DEF GetOld
  <2>3. ASSUME NEW i \in Ids, Goto(t, [c EXCEPT !.id = i], "unlink")
        PROVE  SessionInv'
    <3> DEFINE b == [c EXCEPT !.id = i]
    <3>1. /\ b \in Call /\ b.kind = c.kind /\ b.session = c.session /\ b.player = c.player
          /\ b.held = c.held /\ b.late = c.late
      BY <1>1 DEF Call
    <3> HIDE DEF b
    <3>2. Goto(t, b, "unlink")
      BY <2>3 DEF b
    <3> QED
      BY <1>1, <1>2, <2>1, <2>2, <3>1, <3>2, ConnectingKept DEF Connecting
  <2>4. ASSUME Goto(t, c, "set")
        PROVE  SessionInv'
    BY <1>1, <1>2, <2>1, <2>2, <2>4, ConnectingKept DEF Connecting
  <2>5. GetSession(c.player) \in Ids /\ Nil \in Ids
    BY <1>1, <1>2 DEF GetSession, Ids
  <2> QED
    BY <1>3, <2>3, <2>4, <2>5 DEF GetOld
<1>4. CASE Unlink(t)
  <2>1. UNCHANGED <<net, owner, queue, players, session, venueId, offline, reference, inexact,
                    offlineIds, avatar, inRoom, inner, half, asked, tangled>>
    BY <1>4 DEF Unlink, manager, room
  <2>2. sessionMap' \in [Ids -> Players \cup {Nil}] /\ Goto(t, c, "set")
    BY <1>1, <1>2, <1>4 DEF Unlink
  <2> QED
    BY <1>1, <1>2, <2>1, <2>2, ConnectingKept DEF Connecting
<1>5. CASE SetSession(t)
  <2>1. UNCHANGED <<net, owner, queue, players, venueId, offline, reference, inexact, sessionMap,
                    offlineIds, avatar, inRoom, inner, half, asked>>
    BY <1>5 DEF SetSession, room
  <2>2. session' \in [Players -> Ids] /\ tangled' \subseteq Players
    BY <1>1, <1>2, <1>5 DEF SetSession, Ids
  <2> DEFINE b == IF net[c.session] = "gone" THEN c ELSE [c EXCEPT !.id = c.session]
  <2>3. /\ b \in Call /\ b.kind = c.kind /\ b.session = c.session /\ b.player = c.player
        /\ b.held = c.held /\ b.late = c.late
    BY <1>1 DEF Call, Ids
  <2>4. Goto(t, b, "link")
    BY <1>5 DEF SetSession
  <2> HIDE DEF b
  <2> QED
    BY <1>1, <1>2, <2>1, <2>2, <2>3, <2>4, ConnectingKept DEF Connecting
<1>6. CASE Link(t)
  <2>1. UNCHANGED <<net, owner, queue, players, session, venueId, offline, reference, inexact,
                    offlineIds, avatar, inRoom, inner, half, asked, tangled>>
    BY <1>6 DEF Link, manager, room
  <2>2. sessionMap' \in [Ids -> Players \cup {Nil}] /\ Goto(t, c, "venue")
    BY <1>1, <1>2, <1>6 DEF Link
  <2> QED
    BY <1>1, <1>2, <2>1, <2>2, ConnectingKept DEF Connecting
<1> QED
  BY <1>3, <1>4, <1>5, <1>6

-----------------------------------------------------------------------------
(* MessageQueue::pop and onDisconnect *)

LEMMA PopStep ==
  ASSUME SessionInv, NEW t \in Threads, Pop(t)
  PROVE  SessionInv'
<1> DEFINE m == Head(queue)
           p == owner[m.session]
           b == [Idle EXCEPT !.kind = m.kind, !.session = m.session,
                             !.player = IF m.kind = "connect" THEN p ELSE Nil]
           pc == IF m.kind = "connect" THEN "load" ELSE "find"
<1>1. UNCHANGED <<net, owner, players, session, venueId, offline, reference, inexact,
                  sessionMap, offlineIds, avatar, inRoom, inner, half, asked>>
  BY DEF Pop, manager, room
<1>2. /\ queue # <<>> /\ queue' = Tail(queue) /\ Goto(t, b, pc)
      /\ tangled' = IF Working(p) THEN tangled \cup {p} ELSE tangled
  BY DEF Pop
<1>3. queue \in Seq(Message) /\ owner \in [Sessions -> Players \cup {Nil}] /\ tangled \subseteq Players
  BY DEF SessionInv, TypeOK
<1>4. /\ queue' \in Seq(Message) /\ m \in Message /\ m = queue[1] /\ 1 \in DOMAIN queue
      /\ \A i \in DOMAIN queue' : i + 1 \in DOMAIN queue /\ queue'[i] = queue[i + 1]
  <2>1. /\ Tail(queue) \in Seq(Message) /\ m \in Message /\ m = queue[1] /\ Len(queue) \in Nat \ {0}
        /\ DOMAIN queue = 1 .. Len(queue) /\ Len(Tail(queue)) = Len(queue) - 1
        /\ DOMAIN Tail(queue) = 1 .. Len(queue) - 1
        /\ \A i \in 1 .. Len(queue) - 1 : Tail(queue)[i] = queue[i + 1]
    BY <1>2, <1>3
  <2> HIDE DEF m
  <2> QED
    BY <1>2, <2>1
<1>5. /\ m.kind \in {"connect", "disconnect"} /\ m.session \in Sessions /\ p \in Players
  <2>1. m.kind \in {"connect", "disconnect"} /\ m.session \in Sessions
    BY <1>4 DEF Message
  <2> QED
    BY <1>3, <1>4, <2>1 DEF SessionInv, QueueInv
<1> HIDE DEF m, p
<1>6. b \in Call /\ b.kind = m.kind /\ b.session = m.session
      /\ b.player = (IF m.kind = "connect" THEN p ELSE Nil)
  BY <1>5 DEF Idle, Call, Ids
<1> HIDE DEF b
<1>7. PICK d \in Call : Sets(t, d) /\ Follows(b, d, pc)
  <2>1. pc \in {"idle"} \cup ConnectPcs \cup DisconnectPcs
    BY DEF ConnectPcs, DisconnectPcs
  <2> HIDE DEF pc
  <2> QED
    BY <1>2, <1>6, <2>1, GotoSets
<1>8. /\ d.session \in Sessions
      /\ d.kind = "connect" => d.pc = "load" /\ d.player \in Players
      /\ d.kind # "connect" => d.pc = "find"
  BY <1>5, <1>6, <1>7 DEF Follows
<1>9. CallOf(d) /\ CallTouched(d)' /\ CallOffline(d)'
  BY <1>8 DEF CallOf, CallTouched, CallOffline, Connecting, ConnectPcs, DisconnectPcs
<1>10. tangled' \subseteq Players
  BY <1>2, <1>3, <1>5
<1>11. TypeOK'
  BY <1>1, <1>4, <1>7, <1>10 DEF SessionInv, TypeOK, Sets
<1>12. QueueInv'
  BY <1>1, <1>4 DEF SessionInv, QueueInv
<1>13. Quiet
  BY <1>1, StillQuiet
<1> QED
  BY <1>1, <1>7, <1>9, <1>11, <1>12, <1>13, StepKept

LEMMA FindStep ==
  ASSUME SessionInv, NEW t \in Threads, Find(t)
  PROVE  SessionInv'
<1> DEFINE c == th[t]
           p == sessionMap[c.session]
           b == [c EXCEPT !.player = p, !.held = TRUE]
<1>1. UNCHANGED <<net, owner, queue, players, session, venueId, offline, reference, inexact,
                  sessionMap, offlineIds, avatar, inRoom, inner, half, asked, tangled>>
  BY DEF Find, manager, room
<1>2. c \in Call /\ c.pc = "find" /\ c.kind = "disconnect" /\ c.session \in Sessions
  BY CallFacts DEF Find, CallOf, ConnectPcs, Call
<1>3. ASSUME th' \in [Threads -> Call]
      PROVE  TypeOK'
  BY <1>1, <1>3 DEF SessionInv, TypeOK
<1>4. Quiet
  BY <1>1, StillQuiet
<1>5. CASE Done(t)
  BY <1>1, <1>3, <1>4, <1>5, DoneType, DoneKept, QueueSame
<1>6. CASE p \in players /\ Goto(t, b, "remove")
  <2>1. p \in Players /\ b \in Call /\ b.kind = "disconnect" /\ b.session = c.session
        /\ b.player = p /\ b.held = TRUE
    BY <1>2, <1>6 DEF Call, SessionInv, TypeOK
  <2>2. PICK d \in Call : Sets(t, d) /\ Follows(b, d, "remove")
    BY <1>6, <2>1, GotoSets DEF DisconnectPcs
  <2>3. /\ d.pc = "remove" /\ d.kind = "disconnect" /\ d.session \in Sessions /\ d.held
        /\ d.player \in Players /\ d.player \in players
    BY <1>2, <1>6, <2>1, <2>2 DEF Follows
  <2>4. CallOf(d) /\ CallTouched(d)' /\ CallOffline(d)'
    BY <1>1, <2>3 DEF CallOf, CallTouched, CallOffline, DisconnectPcs
  <2> QED
    BY <1>1, <1>3, <1>4, <2>2, <2>4, StepKept, QueueSame DEF Sets
<1> QED
  BY <1>5, <1>6 DEF Find

LEMMA RemoveSessionIdStep ==
  ASSUME SessionInv, NEW t \in Threads, RemoveSessionId(t)
  PROVE  SessionInv'
<1> DEFINE c == th[t]
<1>1. UNCHANGED <<net, owner, queue, players, session, venueId, offline, reference, inexact,
                  offlineIds, avatar, inRoom, inner, half, asked, tangled>>
  BY DEF RemoveSessionId, manager, room
<1>2. /\ c \in Call /\ c.pc = "remove" /\ c.kind = "disconnect" /\ c.session \in Sessions
      /\ c.player \in Players
      /\ IF c.held THEN c.player \in players ELSE c.late /\ inexact = 0
  BY CallFacts DEF RemoveSessionId, CallOf, CallOffline, ConnectPcs, Call
<1>3. sessionMap' \in [Ids -> Players \cup {Nil}] /\ Goto(t, c, "off")
  BY <1>2 DEF RemoveSessionId, SessionInv, TypeOK
<1>4. PICK d \in Call : Sets(t, d) /\ Follows(c, d, "off")
  BY <1>2, <1>3, GotoSets DEF DisconnectPcs
<1>5. /\ d.pc = "off" /\ d.kind = "disconnect" /\ d.session \in Sessions /\ d.player \in Players
      /\ IF d.held THEN d.player \in players ELSE d.late /\ inexact = 0
  BY <1>2, <1>4 DEF Follows
<1>6. CallOf(d) /\ CallTouched(d)' /\ CallOffline(d)'
  BY <1>1, <1>5 DEF CallOf, CallTouched, CallOffline, DisconnectPcs
<1>7. TypeOK'
  BY <1>1, <1>3, <1>4 DEF SessionInv, TypeOK, Sets
<1>8. Quiet
  BY <1>1, StillQuiet
<1> QED
  BY <1>1, <1>4, <1>6, <1>7, <1>8, StepKept, QueueSame

LEMMA SetOfflineStep ==
  ASSUME SessionInv, NEW t \in Threads, SetOffline(t)
  PROVE  SessionInv'
<1> DEFINE c == th[t]
<1>1. UNCHANGED <<net, owner, queue, players, venueId, reference, inexact, sessionMap,
                  offlineIds, avatar, inRoom, inner, half, asked, tangled>>
  BY DEF SetOffline, room
<1>2. /\ c \in Call /\ c.pc = "off" /\ c.kind = "disconnect" /\ c.session \in Sessions
      /\ c.player \in Players
      /\ IF c.held THEN c.player \in players ELSE c.late /\ inexact = 0
  BY CallFacts DEF SetOffline, CallOf, CallOffline, ConnectPcs, Call
<1>3. /\ session' = IF c.held THEN [session EXCEPT ![c.player] = Nil] ELSE session
      /\ offline' = IF c.held THEN [offline EXCEPT ![c.player] = 0] ELSE offline
      /\ Goto(t, c, "list")
  BY DEF SetOffline
<1>4. /\ session' \in [Players -> Ids] /\ offline' \in [Players -> 0 .. OfflineLimit]
      /\ c.held => offline'[c.player] = 0
      /\ \A p \in Players : offline'[p] \in {offline[p], 0}
  <2>1. session \in [Players -> Ids] /\ offline \in [Players -> 0 .. OfflineLimit]
        /\ Nil \in Ids /\ 0 \in 0 .. OfflineLimit
    BY Limits DEF SessionInv, TypeOK, Ids
  <2> QED
    BY <1>2, <1>3, <2>1
<1>5. PICK d \in Call : Sets(t, d) /\ Follows(c, d, "list")
  BY <1>2, <1>3, GotoSets DEF DisconnectPcs
<1>6. /\ d.pc = "list" /\ d.kind = "disconnect" /\ d.session \in Sessions /\ d.player \in Players
      /\ IF d.held THEN d.player \in players ELSE d.late /\ inexact = 0
      /\ d.held => offline'[d.player] = 0
  BY <1>2, <1>4, <1>5 DEF Follows
<1>7. CallOf(d) /\ CallTouched(d)' /\ CallOffline(d)'
  <2>1. 0 <= (IF d.late THEN 1 ELSE 0)
    OBVIOUS
  <2> QED
    BY <1>1, <1>6, <2>1 DEF CallOf, CallTouched, CallOffline, DisconnectPcs
<1>8. TypeOK'
  BY <1>1, <1>4, <1>5 DEF SessionInv, TypeOK, Sets
<1>9. Quiet
  BY <1>1, <1>4 DEF Quiet, SessionInv, TypeOK
<1> QED
  BY <1>1, <1>5, <1>7, <1>8, <1>9, StepKept, QueueSame

LEMMA AddOfflinePlayerStep ==
  ASSUME SessionInv, NEW t \in Threads, AddOfflinePlayer(t)
  PROVE  SessionInv'
<1> DEFINE c == th[t]
<1>1. UNCHANGED <<net, owner, queue, players, session, venueId, offline, reference, inexact,
                  sessionMap, avatar, inRoom, inner, half, asked, tangled>>
  BY DEF AddOfflinePlayer, manager, room
<1>2. /\ c \in Call /\ c.pc = "list" /\ c.kind = "disconnect" /\ c.session \in Sessions
      /\ c.player \in Players
      /\ IF c.held THEN c.player \in players ELSE c.late /\ inexact = 0
      /\ c.held => offline[c.player] <= IF c.late THEN 1 ELSE 0
  BY CallFacts DEF AddOfflinePlayer, CallOf, CallOffline, ConnectPcs, Call
<1>3. offlineIds' = Append(offlineIds, c.player) /\ Goto(t, c, "venue")
  BY DEF AddOfflinePlayer
<1>4. PICK d \in Call : Sets(t, d) /\ Follows(c, d, "venue")
  BY <1>2, <1>3, GotoSets DEF DisconnectPcs
<1>5. d.pc = "venue" /\ d.kind = "disconnect" /\ d.session \in Sessions /\ d.player \in Players
  BY <1>2, <1>4 DEF Follows
<1>6. CallOf(d) /\ CallTouched(d)' /\ CallOffline(d)'
  BY <1>5 DEF CallOf, CallTouched, CallOffline, DisconnectPcs
<1>7. /\ offlineIds \in Seq(Players) /\ offlineIds' \in Seq(Players)
      /\ DOMAIN offlineIds' = 1 .. Len(offlineIds) + 1 /\ DOMAIN offlineIds = 1 .. Len(offlineIds)
      /\ Len(offlineIds) \in Nat
      /\ \A i \in 1 .. Len(offlineIds) : offlineIds'[i] = offlineIds[i]
      /\ offlineIds'[Len(offlineIds) + 1] = c.player
  <2>1. offlineIds \in Seq(Players)
    BY DEF SessionInv, TypeOK
  <2> HIDE DEF c
  <2> QED
    BY <1>2, <1>3, <2>1, AppendProperties, LenProperties
<1>8. TypeOK'
  BY <1>1, <1>4, <1>7 DEF SessionInv, TypeOK, Sets
<1>9. Quiet
  BY <1>1, StillQuiet
<1>10. ListInv'
  <2> SUFFICES ASSUME inexact > 0, NEW i \in DOMAIN offlineIds'
               PROVE  offlineIds'[i] \in players /\ offline[offlineIds'[i]] <= 1
    BY <1>1 DEF ListInv
  <2>1. CASE i \in DOMAIN offlineIds
    BY <1>7, <2>1 DEF SessionInv, ListInv
  <2>2. CASE i = Len(offlineIds) + 1
    <3>1. c.player \in players /\ offline[c.player] <= IF c.late THEN 1 ELSE 0
      BY <1>2
    <3>2. offline[c.player] \in Nat
      BY <1>2 DEF SessionInv, TypeOK
    <3>3. offline[c.player] <= 1
      BY <3>1, <3>2
    <3> QED
      BY <1>7, <2>2, <3>1, <3>3
  <2> QED
    BY <1>7, <2>1, <2>2
<1>11. CallInv' /\ ClosureInv' /\ RoomInv' /\ QueueInv'
  BY <1>1, <1>4, <1>6, <1>9, CallsKept, ClosuresSame, RoomSame, QueueSame
<1> QED
  BY <1>8, <1>10, <1>11 DEF SessionInv

LEMMA GetVenueIdStep ==
  ASSUME SessionInv, NEW t \in Threads, GetVenueId(t)
  PROVE  SessionInv'
<1> DEFINE c == th[t]
<1>1. UNCHANGED <<net, owner, queue, players, session, venueId, offline, reference, inexact,
                  sessionMap, offlineIds, avatar, inRoom, inner, half, asked, tangled>>
  BY DEF GetVenueId, manager, room
<1>2. /\ c \in Call /\ c.pc = "venue" /\ c.kind \in {"connect", "disconnect"}
      /\ c.session \in Sessions /\ c.player \in Players
  BY CallFacts DEF GetVenueId, CallOf, Call
<1>3. ASSUME th' \in [Threads -> Call]
      PROVE  TypeOK'
  BY <1>1, <1>3 DEF SessionInv, TypeOK
<1>4. Quiet
  BY <1>1, StillQuiet
<1>5. CASE Done(t)
  BY <1>1, <1>3, <1>4, <1>5, DoneType, DoneKept, QueueSame
<1>6. CASE Goto(t, c, "tell") /\ c.kind = "connect"
  BY <1>1, <1>2, <1>6, ConnectingKept DEF Connecting, SessionInv, TypeOK
<1>7. CASE Goto(t, c, "tell") /\ c.kind = "disconnect"
  <2>1. PICK d \in Call : Sets(t, d) /\ Follows(c, d, "tell")
    BY <1>2, <1>7, GotoSets DEF DisconnectPcs
  <2>2. d.pc = "tell" /\ d.kind = "disconnect" /\ d.session \in Sessions /\ d.player \in Players
    BY <1>2, <1>7, <2>1 DEF Follows
  <2>3. CallOf(d) /\ CallTouched(d)' /\ CallOffline(d)'
    BY <2>2 DEF CallOf, CallTouched, CallOffline, DisconnectPcs
  <2> QED
    BY <1>1, <1>3, <1>4, <2>1, <2>3, StepKept, QueueSame DEF Sets
<1> QED
  BY <1>2, <1>5, <1>6, <1>7 DEF GetVenueId

\* A closure is added to the queue of the inner thread.
LEMMA InnerAppend ==
  ASSUME SessionInv, Quiet, NEW e \in Closure, inner' = Append(inner, e), UNCHANGED half,
         ClosureTouched(e)'
  PROVE  ClosureInv' /\ inner' \in Seq(Closure)
<1>1. inner \in Seq(Closure)
  BY DEF SessionInv, TypeOK
<1>2. /\ inner' \in Seq(Closure) /\ Len(inner) \in Nat /\ DOMAIN inner = 1 .. Len(inner)
      /\ DOMAIN inner' = 1 .. Len(inner) + 1 /\ inner'[Len(inner) + 1] = e
      /\ \A i \in 1 .. Len(inner) : inner'[i] = inner[i]
  BY <1>1, AppendProperties, LenProperties
<1>3. \A c : ClosureTouched(c) => ClosureTouched(c)'
  BY DEF Quiet, ClosureTouched, Touched
<1>4. ASSUME NEW i \in DOMAIN inner'
      PROVE  ClosureTouched(inner[i])'
  <2>1. CASE i \in 1 .. Len(inner)
    <3>1. ClosureTouched(inner[i]) /\ inner'[i] = inner[i]
      BY <1>2, <2>1 DEF SessionInv, ClosureInv
    <3> QED
      BY <1>3, <3>1 DEF ClosureTouched, Touched
  <2>2. CASE i = Len(inner) + 1
    <3>1. inner'[i] = e
      BY <1>2, <2>2
    <3> QED
      BY <3>1 DEF ClosureTouched, Touched
  <2> QED
    BY <1>2, <2>1, <2>2
<1>5. (half # Nil => ClosureTouched(half))'
  BY <1>3 DEF SessionInv, ClosureInv, ClosureTouched, Touched
<1> QED
  BY <1>2, <1>4, <1>5 DEF ClosureInv

LEMMA TellStep ==
  ASSUME SessionInv, NEW t \in Threads, Tell(t)
  PROVE  SessionInv'
<1> DEFINE c == th[t]
<1>1. UNCHANGED <<net, owner, queue, players, session, venueId, offline, reference, inexact,
                  sessionMap, offlineIds, avatar, inRoom, half, asked, tangled>>
  BY DEF Tell, manager
<1>2. c.player \in Players /\ c.kind \in {"connect", "disconnect"}
  BY CallFacts DEF Tell, CallOf, Call
<1>3. PICK e \in Closure : e = [op |-> c.kind, player |-> c.player, late |-> FALSE]
  BY <1>2 DEF Closure
<1>4. inner' = Append(inner, e) /\ e.op # "enter" /\ Done(t)
  BY <1>2, <1>3 DEF Tell
<1>5. Quiet
  BY <1>1, StillQuiet
<1>6. ClosureInv' /\ inner' \in Seq(Closure)
  BY <1>1, <1>4, <1>5, InnerAppend DEF ClosureTouched
<1>7. Sets(t, Idle) /\ CallOf(Idle) /\ CallTouched(Idle)' /\ CallOffline(Idle)'
  <2>1. Sets(t, Idle)
    BY <1>4, IdleCall, SetCall DEF Done, SessionInv
  <2> QED
    BY <2>1, IdleCall DEF CallOf, CallTouched, CallOffline, Connecting, Idle
<1>8. TypeOK'
  BY <1>1, <1>6, <1>7 DEF SessionInv, TypeOK, Sets
<1>9. CallInv' /\ ListInv' /\ RoomInv' /\ QueueInv'
  BY <1>1, <1>5, <1>7, IdleCall, CallsKept, ListSame, RoomSame, QueueSame
<1> QED
  BY <1>6, <1>8, <1>9 DEF SessionInv

-----------------------------------------------------------------------------
(* freeDormantPlayers *)

\* A set of natural numbers has a least one.
LEMMA Least ==
  ASSUME NEW T, T \subseteq Nat, T # {}
  PROVE  \E i \in T : \A j \in T : i <= j
<1>1. \E i \in T : \A j \in T : ~(<<j, i>> \in OpToRel(<, Nat))
  BY NatLessThanWellFounded, WFMin
<1>2. PICK i \in T : \A j \in T : ~(<<j, i>> \in OpToRel(<, Nat))
  BY <1>1
<1>3. \A j \in T : ~(j < i)
  BY <1>2 DEF OpToRel
<1> QED
  BY <1>3

\* The recursion of Kept, for the first n entries of a list: what step i leaves.
Leaves(f, i, ids, E) ==
  IF i = 0 THEN <<>> ELSE IF i \in E THEN f[i - 1] ELSE Append(f[i - 1], ids[i])

LEMMA LeavesExists ==
  ASSUME NEW ids, NEW E, NEW n \in Nat
  PROVE  \E f : f = [i \in 0 .. n |-> Leaves(f, i, ids, E)]
<1> DEFINE Q(m) == \E f : f = [i \in 0 .. m |-> Leaves(f, i, ids, E)]
           T == {m \in Nat : ~Q(m)}
<1> SUFFICES ASSUME T # {}
             PROVE  FALSE
  OBVIOUS
<1>1. PICK m \in T : \A j \in T : m <= j
  <2> HIDE DEF Q
  <2>1. T \subseteq Nat
    OBVIOUS
  <2> HIDE DEF T
  <2> QED
    BY <2>1, Least
<1>2. m \in Nat /\ ~Q(m)
  OBVIOUS
<1>3. CASE m = 0
  <2> DEFINE g == [i \in 0 .. 0 |-> <<>>]
  <2>1. \A i \in 0 .. 0 : Leaves(g, i, ids, E) = <<>>
    BY DEF Leaves
  <2>2. g = [i \in 0 .. 0 |-> Leaves(g, i, ids, E)]
    BY <2>1
  <2> QED
    BY <1>2, <1>3, <2>2
<1>4. CASE m # 0
  <2>1. m - 1 \in Nat /\ ~(m <= m - 1)
    BY <1>2, <1>4
  <2>2. Q(m - 1)
    <3> HIDE DEF Q
    <3> QED
      BY <1>1, <2>1
  <2>3. PICK f : f = [i \in 0 .. m - 1 |-> Leaves(f, i, ids, E)]
    BY <2>2
  <2> DEFINE g == [i \in 0 .. m |-> IF i = m THEN Leaves(f, m, ids, E) ELSE f[i]]
  <2>4. ASSUME NEW i \in 0 .. m
        PROVE  g[i] = Leaves(g, i, ids, E)
    <3>1. CASE i = 0
      <4>1. g[i] = f[i] /\ i \in 0 .. m - 1
        BY <1>2, <1>4, <3>1
      <4>2. f[i] = Leaves(f, i, ids, E)
        BY <2>3, <4>1
      <4> QED
        BY <3>1, <4>1, <4>2 DEF Leaves
    <3>2. CASE i # 0
      <4>1. i - 1 \in 0 .. m /\ i - 1 # m
        BY <1>2, <3>2
      <4>2. g[i - 1] = f[i - 1]
        BY <4>1
      <4>3. Leaves(g, i, ids, E) = Leaves(f, i, ids, E)
        BY <3>2, <4>2 DEF Leaves
      <4>4. g[i] = Leaves(f, i, ids, E)
        <5>1. CASE i = m
          BY <5>1
        <5>2. CASE i # m
          <6>1. i \in 0 .. m - 1 /\ g[i] = f[i]
            BY <1>2, <5>2
          <6> QED
            BY <2>3, <6>1
        <5> QED
          BY <5>1, <5>2
      <4> QED
        BY <4>3, <4>4
    <3> QED
      BY <3>1, <3>2
  <2>5. g = [i \in 0 .. m |-> g[i]]
    OBVIOUS
  <2> HIDE DEF g
  <2>6. g = [i \in 0 .. m |-> Leaves(g, i, ids, E)]
    BY <2>4, <2>5
  <2> QED
    BY <1>2, <2>6
<1> QED
  BY <1>3, <1>4

LEMMA LeavesSeq ==
  ASSUME NEW S, NEW ids \in Seq(S), NEW E,
         NEW f, f = [i \in 0 .. Len(ids) |-> Leaves(f, i, ids, E)]
  PROVE  f[Len(ids)] \in Seq(S)
<1> DEFINE T == {m \in 0 .. Len(ids) : f[m] \notin Seq(S)}
<1>1. Len(ids) \in Nat /\ \A i \in 1 .. Len(ids) : ids[i] \in S
  BY LenProperties, ElementOfSeq
<1> SUFFICES ASSUME T # {}
             PROVE  FALSE
  BY <1>1
<1>2. PICK m \in T : \A j \in T : m <= j
  <2>1. T \subseteq Nat
    BY <1>1
  <2> HIDE DEF T
  <2> QED
    BY <2>1, Least
<1>3. m \in 0 .. Len(ids) /\ f[m] \notin Seq(S) /\ f[m] = Leaves(f, m, ids, E)
  OBVIOUS
<1>4. CASE m = 0
  BY <1>3, <1>4, EmptySeq DEF Leaves
<1>5. CASE m # 0
  <2>1. m - 1 \in 0 .. Len(ids) /\ m \in 1 .. Len(ids) /\ ~(m <= m - 1)
    BY <1>1, <1>3, <1>5
  <2>2. f[m - 1] \in Seq(S)
    BY <1>2, <2>1
  <2>3. Append(f[m - 1], ids[m]) \in Seq(S)
    BY <1>1, <2>1, <2>2, AppendProperties
  <2> QED
    BY <1>3, <1>5, <2>2, <2>3 DEF Leaves
<1> QED
  BY <1>4, <1>5

\* What is left of the list is a list of players.
LEMMA KeptType ==
  ASSUME SessionInv
  PROVE  Kept \in Seq(Players)
<1> DEFINE k == CHOOSE f : f = [i \in 0 .. Len(offlineIds) |-> Leaves(f, i, offlineIds, Erased)]
<1>1. offlineIds \in Seq(Players) /\ Len(offlineIds) \in Nat
  BY LenProperties DEF SessionInv, TypeOK
<1>2. Kept = k[Len(offlineIds)]
  BY DEF Kept, Leaves
<1>3. k = [i \in 0 .. Len(offlineIds) |-> Leaves(k, i, offlineIds, Erased)]
  BY <1>1, LeavesExists
<1> HIDE DEF k
<1>4. k[Len(offlineIds)] \in Seq(Players)
  BY <1>1, <1>3, LeavesSeq
<1> QED
  BY <1>2, <1>4

LEMMA KeptEmpty ==
  ASSUME SessionInv, offlineIds = <<>>
  PROVE  Kept = <<>>
<1> DEFINE k == CHOOSE f : f = [i \in 0 .. Len(offlineIds) |-> Leaves(f, i, offlineIds, Erased)]
<1>1. Len(offlineIds) = 0
  BY EmptySeq
<1>2. Kept = k[Len(offlineIds)]
  BY DEF Kept, Leaves
<1>3. k = [i \in 0 .. Len(offlineIds) |-> Leaves(k, i, offlineIds, Erased)]
  BY <1>1, LeavesExists
<1> HIDE DEF k
<1>4. k[0] = Leaves(k, 0, offlineIds, Erased)
  BY <1>1, <1>3
<1> QED
  BY <1>1, <1>2, <1>4 DEF Leaves

\* Whoever is freed was listed and freeable.
LEMMA FreedFacts ==
  ASSUME SessionInv, NEW p \in Freed
  PROVE  /\ p \in Players /\ Freeable(p) /\ offlineIds # <<>>
         /\ \E i \in DOMAIN offlineIds : offlineIds[i] = p
<1>1. offlineIds \in Seq(Players) /\ DOMAIN offlineIds = 1 .. Len(offlineIds)
      /\ \A i \in 1 .. Len(offlineIds) : offlineIds[i] \in Players
  BY LenProperties, ElementOfSeq DEF SessionInv, TypeOK
<1>2. PICK i \in DOMAIN offlineIds : offlineIds[i] = p /\ Freeable(p)
  BY DEF Freed, Erased
<1>3. offlineIds # <<>>
  BY <1>1, <1>2, EmptySeq
<1> QED
  BY <1>1, <1>2, <1>3

\* A player that was touched since the last run of the timer is not freed: either
\* _inexactTime was new, or nobody in the list has been offline for long.
LEMMA TouchedNotFreed ==
  ASSUME SessionInv, NEW p, Touched(p, FALSE)
  PROVE  p \notin Freed
<1> SUFFICES ASSUME p \in Freed
             PROVE  FALSE
  OBVIOUS
<1>1. p \in Players /\ Freeable(p) /\ \E i \in DOMAIN offlineIds : offlineIds[i] = p
  BY FreedFacts
<1>2. /\ reference[p] \in 0 .. ReferenceLimit /\ offline[p] \in 0 .. OfflineLimit
      /\ inexact \in 0 .. ReferenceLimit
  BY <1>1 DEF SessionInv, TypeOK
<1>3. ~(Older(reference[p], ReferenceLimit) < ReferenceLimit)
      /\ ~(Older(offline[p], OfflineLimit) < OfflineLimit)
  BY <1>1 DEF Freeable, Young, Referenced
<1>4. reference[p] > 0
  BY <1>2, <1>3, Limits DEF Older
<1>5. inexact > 0
  BY <1>2, <1>4 DEF Touched
<1>6. offline[p] <= 1
  BY <1>1, <1>5 DEF SessionInv, ListInv
<1> QED
  BY <1>2, <1>3, <1>6, Limits DEF Older

LEMMA OlderType ==
  ASSUME NEW limit \in Nat, NEW age \in 0 .. limit
  PROVE  /\ Older(age, limit) \in 0 .. limit /\ Older(age, limit) <= age + 1
BY DEF Older

\* The effect of the timer on a call and on a closure.
Aged(c) == [c EXCEPT !.late = c.pc # "idle", !.held = @ /\ c.player \notin Freed]
AgedClosure(e) == [e EXCEPT !.late = TRUE]

LEMMA TimerTypes ==
  ASSUME SessionInv, OnTimer
  PROVE  TypeOK'
<1>1. UNCHANGED <<net, owner, queue, venueId, sessionMap, avatar, inRoom, asked>>
  BY DEF OnTimer
<1>2. TypeOK
  BY DEF SessionInv
<1>3. th' \in [Threads -> Call]
  <2>1. \A t \in Threads : Aged(th[t]) \in Call
    <3> TAKE t \in Threads
    <3>1. th[t] \in Call
      BY <1>2 DEF TypeOK
    <3>2. (th[t].held /\ th[t].player \notin Freed) \in BOOLEAN /\ (th[t].pc # "idle") \in BOOLEAN
      OBVIOUS
    <3> QED
      BY <3>1, <3>2 DEF Call, Aged
  <2>2. th' = [t \in Threads |-> Aged(th[t])]
    BY DEF OnTimer, Aged
  <2> QED
    BY <2>1, <2>2
<1>4. inner' \in Seq(Closure)
  <2>1. inner \in Seq(Closure) /\ DOMAIN inner = 1 .. Len(inner) /\ Len(inner) \in Nat
        /\ \A i \in 1 .. Len(inner) : inner[i] \in Closure
    BY <1>2, LenProperties, ElementOfSeq DEF TypeOK
  <2>2. \A i \in 1 .. Len(inner) : AgedClosure(inner[i]) \in Closure
    BY <2>1 DEF AgedClosure, Closure
  <2>3. inner' = [i \in 1 .. Len(inner) |-> AgedClosure(inner[i])]
    BY <2>1 DEF OnTimer, AgedClosure
  <2> QED
    BY <2>1, <2>2, <2>3, IsASeq
<1>5. half' \in Closure \cup {Nil}
  <2>1. half \in Closure \cup {Nil}
    BY <1>2 DEF TypeOK
  <2>2. CASE half = Nil
    BY <2>2 DEF OnTimer
  <2>3. CASE half # Nil
    <3>1. half \in Closure /\ half' = AgedClosure(half)
      BY <2>1, <2>3 DEF OnTimer, AgedClosure
    <3> QED
      BY <3>1 DEF AgedClosure, Closure
  <2> QED
    BY <2>2, <2>3
<1>6. /\ session' \in [Players -> Ids] /\ players' \subseteq Players
  BY <1>2 DEF TypeOK, OnTimer, Ids
<1>7. /\ offline' \in [Players -> 0 .. OfflineLimit]
      /\ reference' \in [Players -> 0 .. ReferenceLimit] /\ inexact' \in 0 .. ReferenceLimit
  <2>1. /\ OfflineLimit \in Nat /\ ReferenceLimit \in Nat
        /\ \A p \in Players : /\ Older(offline[p], OfflineLimit) \in 0 .. OfflineLimit
                              /\ Older(reference[p], ReferenceLimit) \in 0 .. ReferenceLimit
        /\ Older(inexact, ReferenceLimit) \in 0 .. ReferenceLimit
    BY Limits, <1>2, OlderType DEF TypeOK
  <2>5. /\ offline' = [p \in Players |-> IF p \in players \ Freed
                                        THEN Older(offline[p], OfflineLimit) ELSE OfflineLimit]
        /\ reference' = [p \in Players |-> IF p \in players \ Freed
                                          THEN Older(reference[p], ReferenceLimit) ELSE 0]
        /\ inexact' = IF offlineIds = <<>> THEN Older(inexact, ReferenceLimit) ELSE 0
    BY DEF OnTimer
  <2>6. OfflineLimit \in 0 .. OfflineLimit /\ 0 \in 0 .. ReferenceLimit
    BY <2>1
  <2>2. offline' \in [Players -> 0 .. OfflineLimit]
    BY <2>1, <2>5, <2>6
  <2>3. reference' \in [Players -> 0 .. ReferenceLimit]
    BY <2>1, <2>5, <2>6
  <2>4. inexact' \in 0 .. ReferenceLimit
    BY <2>1, <2>5, <2>6
  <2> QED
    BY <2>2, <2>3, <2>4
<1>8. offlineIds' \in Seq(Players)
  BY KeptType DEF OnTimer
<1>9. tangled' \subseteq Players
  BY <1>2, FreedFacts DEF TypeOK, OnTimer
<1> QED
  BY <1>1, <1>2, <1>3, <1>4, <1>5, <1>6, <1>7, <1>8, <1>9 DEF TypeOK

LEMMA OnTimerStep ==
  ASSUME SessionInv, OnTimer
  PROVE  SessionInv'
<1>1. UNCHANGED <<net, owner, queue, venueId, sessionMap, avatar, inRoom, asked>>
  BY DEF OnTimer
<1>2. TypeOK /\ TypeOK'
  BY TimerTypes DEF SessionInv
<1>3. /\ players' = players \ Freed
      /\ \A p \in players \ Freed : offline'[p] = Older(offline[p], OfflineLimit)
      /\ inexact' = IF offlineIds = <<>> THEN Older(inexact, ReferenceLimit) ELSE 0
      /\ offlineIds' = Kept
  BY <1>2 DEF OnTimer, TypeOK
<1>4. \A p : Touched(p, FALSE) => Touched(p, TRUE)'
  BY <1>3, TouchedNotFreed DEF Touched
<1>5. CallInv'
  <2> SUFFICES ASSUME NEW t \in Threads
               PROVE  (CallOf(th[t]) /\ CallTouched(th[t]) /\ CallOffline(th[t]))'
    BY DEF CallInv
  <2> DEFINE c == th[t]
             d == th'[t]
  <2>1. c \in Call /\ CallOf(c) /\ CallTouched(c) /\ CallOffline(c) /\ ~c.late
    BY CallFacts DEF OnTimer
  <2>2. /\ d.pc = c.pc /\ d.kind = c.kind /\ d.session = c.session /\ d.player = c.player
        /\ d.late = (c.pc # "idle") /\ d.held = (c.held /\ c.player \notin Freed)
    <3>1. d = Aged(c)
      BY DEF OnTimer, Aged
    <3> HIDE DEF c, d
    <3> QED
      BY <2>1, <3>1 DEF Call, Aged
  <2>3. CallOf(th[t])'
    BY <2>1, <2>2 DEF CallOf
  <2>4. CallTouched(th[t])'
    <3> SUFFICES ASSUME c.kind = "connect", c.pc \in Connecting
                 PROVE  d.held /\ Touched(c.player, TRUE)'
      BY <2>2 DEF CallTouched, Touched, Connecting
    <3>1. c.held /\ Touched(c.player, FALSE)
      BY <2>1 DEF CallTouched, Touched
    <3>2. PICK p : p = c.player
      OBVIOUS
    <3>3. Touched(p, TRUE)' /\ p \notin Freed
      BY <1>4, <3>1, <3>2, TouchedNotFreed
    <3> QED
      BY <2>2, <3>1, <3>2, <3>3 DEF Touched
  <2>5. CallOffline(th[t])'
    <3> SUFFICES ASSUME c.kind = "disconnect", c.pc \in {"remove", "off", "list"}
                 PROVE  /\ IF d.held THEN d.player \in players' ELSE d.late /\ inexact' = 0
                        /\ d.held /\ d.pc = "list" =>
                             offline'[d.player] <= IF d.late THEN 1 ELSE 0
      BY <2>2 DEF CallOffline
    <3>1. /\ c.held /\ c.player \in players /\ d.late
          /\ c.pc = "list" => offline[c.player] <= 0
      BY <2>1, <2>2 DEF CallOffline
    <3>2. CASE c.player \in Freed
      <4>1. offlineIds # <<>>
        BY <3>2, FreedFacts
      <4> QED
        BY <1>3, <2>2, <3>1, <3>2, <4>1
    <3>3. CASE c.player \notin Freed
      <4>1. d.held /\ d.player \in players'
        BY <1>3, <2>2, <3>1, <3>3
      <4>2. d.pc = "list" => offline'[d.player] <= 1
        <5> SUFFICES ASSUME c.pc = "list"
                     PROVE  offline'[c.player] <= 1
          BY <2>2
        <5>1. offline[c.player] \in 0 .. OfflineLimit /\ OfflineLimit \in Nat
          BY <1>2, <3>1, Limits DEF TypeOK
        <5>2. offline'[c.player] = Older(offline[c.player], OfflineLimit)
          BY <1>3, <3>1, <3>3
        <5>3. offline[c.player] = 0
          BY <3>1, <5>1
        <5> QED
          BY <5>1, <5>2, <5>3, Limits DEF Older
      <4> QED
        BY <3>1, <4>1, <4>2
    <3> QED
      BY <3>2, <3>3
  <2> QED
    BY <2>3, <2>4, <2>5
<1>6. ClosureInv'
  <2>1. ASSUME NEW i \in DOMAIN inner'
        PROVE  ClosureTouched(inner[i])'
    <3>1. i \in DOMAIN inner /\ inner'[i] = AgedClosure(inner[i]) /\ ~inner[i].late
      BY <2>1 DEF OnTimer, AgedClosure
    <3>2. inner[i] \in Closure
      BY <1>2, <3>1, LenProperties, ElementOfSeq DEF TypeOK
    <3>3. /\ inner'[i].op = inner[i].op /\ inner'[i].player = inner[i].player
          /\ inner'[i].late = TRUE
      BY <3>1, <3>2 DEF AgedClosure, Closure
    <3> SUFFICES ASSUME inner[i].op = "enter"
                 PROVE  Touched(inner[i].player, inner[i].late)'
      BY <3>3 DEF ClosureTouched
    <3>4. Touched(inner[i].player, FALSE)
      BY <3>1 DEF SessionInv, ClosureInv, ClosureTouched, Touched
    <3>5. PICK p : p = inner[i].player
      OBVIOUS
    <3>6. Touched(p, TRUE)'
      BY <1>4, <3>4, <3>5
    <3> QED
      BY <3>3, <3>5, <3>6 DEF Touched
  <2>2. ASSUME half' # Nil
        PROVE  ClosureTouched(half)'
    <3>1. half # Nil /\ half' = AgedClosure(half) /\ ~half.late
      BY <2>2 DEF OnTimer, AgedClosure
    <3>2. half'.op = half.op /\ half'.player = half.player /\ half'.late = TRUE
      BY <1>2, <3>1 DEF AgedClosure, Closure, TypeOK
    <3> SUFFICES ASSUME half.op = "enter"
                 PROVE  Touched(half.player, half.late)'
      BY <3>2 DEF ClosureTouched
    <3>3. Touched(half.player, FALSE)
      BY <3>1 DEF SessionInv, ClosureInv, ClosureTouched, Touched
    <3>4. PICK p : p = half.player
      OBVIOUS
    <3>5. Touched(p, TRUE)'
      BY <1>4, <3>3, <3>4
    <3> QED
      BY <3>2, <3>4, <3>5 DEF Touched
  <2> QED
    BY <2>1, <2>2 DEF ClosureInv
<1>7. ListInv'
  <2> SUFFICES ASSUME inexact' > 0
               PROVE  DOMAIN offlineIds' = {}
    BY DEF ListInv
  <2>1. offlineIds = <<>>
    BY <1>3
  <2>2. Kept = <<>>
    BY <2>1, KeptEmpty
  <2> QED
    BY <1>3, <2>2
<1>8. RoomInv'
  <2>1. /\ half' # Nil => half # Nil /\ half'.op = half.op /\ half'.player = half.player
        /\ half # Nil => half' # Nil /\ ~half.late
    <3>1. CASE half = Nil
      BY <3>1 DEF OnTimer
    <3>2. CASE half # Nil
      <4>1. half \in Closure /\ half' = AgedClosure(half) /\ ~half.late
        BY <1>2, <3>2 DEF OnTimer, AgedClosure, TypeOK
      <4>2. half'.op = half.op /\ half'.player = half.player /\ half'.late = TRUE
        BY <4>1 DEF AgedClosure, Closure
      <4>3. half' # Nil
        BY <4>1, NilAssumption DEF AgedClosure, Closure
      <4> QED
        BY <3>2, <4>1, <4>2, <4>3
    <3> QED
      BY <3>1, <3>2
  <2>2. ASSUME NEW p \in inRoom
        PROVE  p \in players' /\ (venueId[p] \/ (half' # Nil /\ half'.player = p))
    <3>1. p \in players /\ (venueId[p] \/ (half # Nil /\ half.player = p))
      BY DEF SessionInv, RoomInv, MemberIsKnown
    <3>2. CASE venueId[p]
      <4>1. p \notin Freed
        BY <3>2, FreedFacts DEF Freeable
      <4> QED
        BY <1>3, <3>1, <3>2, <4>1
    <3>3. CASE half # Nil /\ half.player = p
      <4>1. half.op = "enter"
        BY <3>3 DEF SessionInv, RoomInv
      <4>2. Touched(p, FALSE)
        BY <2>1, <3>3, <4>1 DEF SessionInv, ClosureInv, ClosureTouched, Touched
      <4>3. p \notin Freed
        BY <4>2, TouchedNotFreed
      <4> QED
        BY <1>3, <2>1, <3>1, <3>3, <4>3
    <3> QED
      BY <3>1, <3>2, <3>3
  <2> QED
    BY <1>1, <2>1, <2>2 DEF SessionInv, RoomInv, MemberIsKnown
<1>9. QueueInv'
  BY <1>1, QueueSame
<1> QED
  BY <1>2, <1>5, <1>6, <1>7, <1>8, <1>9 DEF SessionInv

-----------------------------------------------------------------------------
(* The network *)

\* A message is pushed on the queue.
LEMMA Push ==
  ASSUME SessionInv, NEW m \in Message, queue' = Append(queue, m),
         NEW s \in Sessions, NEW state \in {"open", "closed", "gone"},
         net' = [net EXCEPT ![s] = state],
         owner' \in [Sessions -> Players \cup {Nil}], owner'[s] # Nil, m.session = s,
         \A r \in Sessions \ {s} : owner'[r] = owner[r],
         UNCHANGED <<th, players, session, venueId, offline, reference, inexact, sessionMap,
                     offlineIds, avatar, inRoom, inner, half, asked, tangled>>
  PROVE  SessionInv'
<1>1. queue \in Seq(Message) /\ net \in [Sessions -> {"new", "open", "closed", "gone"}]
  BY DEF SessionInv, TypeOK
<1>2. /\ queue' \in Seq(Message) /\ Len(queue) \in Nat /\ DOMAIN queue = 1 .. Len(queue)
      /\ DOMAIN queue' = 1 .. Len(queue) + 1 /\ queue'[Len(queue) + 1] = m
      /\ \A i \in 1 .. Len(queue) : queue'[i] = queue[i] /\ queue[i].session \in Sessions
  <2>1. /\ queue' \in Seq(Message) /\ Len(queue) \in Nat /\ DOMAIN queue = 1 .. Len(queue)
        /\ Len(queue') = Len(queue) + 1 /\ queue'[Len(queue) + 1] = m
        /\ \A i \in 1 .. Len(queue) : queue'[i] = queue[i]
    BY <1>1, AppendProperties, LenProperties
  <2>2. DOMAIN queue' = 1 .. Len(queue) + 1
    BY <2>1, LenProperties
  <2>3. \A i \in 1 .. Len(queue) : queue[i] \in Message
    BY <1>1, ElementOfSeq
  <2>4. \A i \in 1 .. Len(queue) : queue[i].session \in Sessions
    BY <2>3 DEF Message
  <2> QED
    BY <2>1, <2>2, <2>4
<1>3. net' \in [Sessions -> {"new", "open", "closed", "gone"}] /\ net'[s] = state
      /\ \A r \in Sessions \ {s} : net'[r] = net[r]
  BY <1>1
<1>4. TypeOK'
  BY <1>2, <1>3 DEF SessionInv, TypeOK
<1>5. QueueInv'
  <2>1. \A r \in Sessions : owner'[r] = Nil <=> net'[r] = "new"
    BY <1>3 DEF SessionInv, QueueInv
  <2>2. ASSUME NEW i \in DOMAIN queue'
        PROVE  owner'[queue'[i].session] # Nil
    <3>1. CASE i = Len(queue) + 1
      BY <1>2, <3>1
    <3>2. CASE i \in 1 .. Len(queue)
      BY <1>2, <3>2 DEF SessionInv, QueueInv
    <3> QED
      BY <1>2, <3>1, <3>2
  <2> QED
    BY <2>1, <2>2 DEF QueueInv
<1>6. Quiet
  BY StillQuiet
<1>7. CallInv' /\ ClosureInv' /\ ListInv' /\ RoomInv'
  BY <1>6, CallsSame, ClosuresSame, ListSame, RoomSame
<1> QED
  BY <1>4, <1>5, <1>7 DEF SessionInv

LEMMA NetworkSteps ==
  ASSUME SessionInv, NEW s \in Sessions,
         (\E p \in Players : Connect(s, p)) \/ OnDisconnect(s) \/ CheckConnection(s)
  PROVE  SessionInv'
<1>1. owner \in [Sessions -> Players \cup {Nil}] /\ Nil \notin Players
  BY Limits DEF SessionInv, TypeOK
<1>2. ASSUME NEW p \in Players, Connect(s, p)
      PROVE  SessionInv'
  <2>1. PICK m \in Message : m = [kind |-> "connect", session |-> s]
    BY DEF Message
  <2>2. /\ queue' = Append(queue, m) /\ net' = [net EXCEPT ![s] = "open"]
        /\ owner' = [owner EXCEPT ![s] = p]
        /\ UNCHANGED <<th, players, session, venueId, offline, reference, inexact, sessionMap,
                       offlineIds, avatar, inRoom, inner, half, asked, tangled>>
    BY <1>2, <2>1 DEF Connect, manager, room
  <2>3. /\ owner' \in [Sessions -> Players \cup {Nil}] /\ owner'[s] # Nil
        /\ \A r \in Sessions \ {s} : owner'[r] = owner[r]
    BY <1>1, <2>2
  <2> QED
    BY <2>1, <2>2, <2>3, Push
<1>3. CASE OnDisconnect(s) \/ CheckConnection(s)
  <2>1. PICK m \in Message : m = [kind |-> "disconnect", session |-> s]
    BY DEF Message
  <2>2. PICK state \in {"closed", "gone"} : net' = [net EXCEPT ![s] = state]
    BY <1>3 DEF OnDisconnect, CheckConnection
  <2>3. /\ queue' = Append(queue, m) /\ owner' = owner /\ net[s] # "new"
        /\ UNCHANGED <<th, players, session, venueId, offline, reference, inexact, sessionMap,
                       offlineIds, avatar, inRoom, inner, half, asked, tangled>>
    BY <1>3, <2>1 DEF OnDisconnect, CheckConnection, manager, room
  <2>4. owner[s] # Nil
    BY <2>3 DEF SessionInv, QueueInv
  <2> QED
    BY <1>1, <2>1, <2>2, <2>3, <2>4, Push
<1> QED
  BY <1>2, <1>3

LEMMA RequestEnterStep ==
  ASSUME SessionInv, NEW s \in Sessions, RequestEnter(s)
  PROVE  SessionInv'
<1>1. PICK p : p = owner[s]
  OBVIOUS
<1>2. /\ net[s] = "open" /\ asked < MaxRequests /\ asked' = asked + 1 /\ Loads(p)
      /\ inner' = Append(inner, [op |-> "enter", player |-> p, late |-> FALSE])
      /\ UNCHANGED <<net, owner, queue, th, inexact, sessionMap, offlineIds, avatar, inRoom,
                     half, tangled>>
  BY <1>1 DEF RequestEnter, Loads
<1>3. p \in Players
  BY <1>1, <1>2 DEF SessionInv, TypeOK, QueueInv
<1>4. /\ Quiet /\ players' = players \cup {p} /\ players' \subseteq Players
      /\ session' \in [Players -> Ids] /\ venueId' \in [Players -> BOOLEAN]
      /\ offline' \in [Players -> 0 .. OfflineLimit]
      /\ reference' \in [Players -> 0 .. ReferenceLimit]
      /\ reference'[p] \in {0, inexact}
      /\ \A q \in players : venueId'[q] = venueId[q]
  BY <1>2, <1>3, LoadsQuiet
<1>5. PICK e \in Closure : e = [op |-> "enter", player |-> p, late |-> FALSE]
  BY <1>3 DEF Closure
<1>6. e.player = p /\ ClosureTouched(e)'
  BY <1>2, <1>4, <1>5 DEF ClosureTouched, Touched
<1>7. ClosureInv' /\ inner' \in Seq(Closure)
  BY <1>2, <1>4, <1>5, <1>6, InnerAppend
<1>8. asked' \in 0 .. MaxRequests
  BY <1>2, Limits DEF SessionInv, TypeOK
<1>9. TypeOK'
  BY <1>2, <1>4, <1>7, <1>8 DEF SessionInv, TypeOK
<1>10. CallInv' /\ ListInv' /\ RoomInv' /\ QueueInv'
  BY <1>2, <1>4, CallsSame, ListSame, RoomSame, QueueSame
<1> QED
  BY <1>7, <1>9, <1>10 DEF SessionInv

-----------------------------------------------------------------------------
(* The inner thread *)

\* The first closure is taken from the queue.
LEMMA InnerTail ==
  ASSUME SessionInv, Quiet, inner # <<>>, inner' = Tail(inner)
  PROVE  /\ inner' \in Seq(Closure) /\ Head(inner) \in Closure /\ ClosureTouched(Head(inner))
         /\ \A i \in DOMAIN inner' : ClosureTouched(inner[i])'
         /\ \A i \in DOMAIN inner' : i + 1 \in DOMAIN inner /\ inner'[i] = inner[i + 1]
<1>1. inner \in Seq(Closure)
  BY DEF SessionInv, TypeOK
<1>2. /\ Tail(inner) \in Seq(Closure) /\ Head(inner) = inner[1] /\ Len(inner) \in Nat \ {0}
      /\ DOMAIN inner = 1 .. Len(inner) /\ DOMAIN Tail(inner) = 1 .. Len(inner) - 1
      /\ \A i \in 1 .. Len(inner) - 1 : Tail(inner)[i] = inner[i + 1]
      /\ Head(inner) \in Closure
  BY <1>1
<1>3. \A i \in DOMAIN inner' : i + 1 \in DOMAIN inner /\ inner'[i] = inner[i + 1]
  BY <1>2
<1>4. \A c : ClosureTouched(c) => ClosureTouched(c)'
  BY DEF Quiet, ClosureTouched, Touched
<1>5. ASSUME NEW i \in DOMAIN inner'
      PROVE  ClosureTouched(inner[i])'
  <2>1. ClosureTouched(inner[i + 1]) /\ inner'[i] = inner[i + 1]
    BY <1>3 DEF SessionInv, ClosureInv
  <2> QED
    BY <1>4, <2>1 DEF ClosureTouched, Touched
<1>6. ClosureTouched(Head(inner))
  <2>1. 1 \in DOMAIN inner
    BY <1>2
  <2> QED
    BY <1>2, <2>1 DEF SessionInv, ClosureInv
<1> QED
  BY <1>2, <1>3, <1>5, <1>6

\* getPlayer of somebody who may not be there.
LEMMA TouchIfThereQuiet ==
  ASSUME SessionInv, NEW p \in Players, TouchIfThere(p) \/ UNCHANGED reference,
         UNCHANGED <<players, inexact, offline>>
  PROVE  /\ Quiet /\ reference' \in [Players -> 0 .. ReferenceLimit]
         /\ \A late : Touched(p, late) => Touched(p, late)'
<1>1. CASE UNCHANGED reference
  BY <1>1, StillQuiet DEF SessionInv, TypeOK, Touched
<1>2. CASE Touch(p)
  BY <1>2, TouchQuiet DEF Touched
<1> QED
  BY <1>1, <1>2 DEF TouchIfThere

LEMMA NotifyStep ==
  ASSUME SessionInv, Notify
  PROVE  SessionInv'
<1> DEFINE c == Head(inner)
           p == c.player
<1>1. /\ inner # <<>> /\ half = Nil /\ inner' = Tail(inner)
      /\ UNCHANGED <<net, owner, queue, th, players, session, venueId, offline,
                     inexact, sessionMap, offlineIds, inRoom, half, asked, tangled>>
  BY DEF Notify
<1>2. RoomOnConnect(p) \/ RoomOnDisconnect(p)
  BY DEF Notify
<1>3. inner \in Seq(Closure) /\ session \in [Players -> Ids] /\ avatar \in [Players -> Ids]
  BY DEF SessionInv, TypeOK
<1>4. p \in Players
  <2>1. Head(inner) \in Closure
    BY <1>1, <1>3
  <2> QED
    BY <2>1 DEF Closure
<1> HIDE DEF p
<1>5. Quiet /\ reference' \in [Players -> 0 .. ReferenceLimit]
  BY <1>1, <1>2, <1>4, TouchIfThereQuiet DEF RoomOnConnect, RoomOnDisconnect
<1>6. avatar' \in [Players -> Ids]
  <2>1. GetSession(p) \in Ids /\ Nil \in Ids
    BY <1>3, <1>4 DEF GetSession, Ids
  <2> QED
    BY <1>2, <1>3, <1>4, <2>1 DEF RoomOnConnect, RoomOnDisconnect
<1>7. inner' \in Seq(Closure) /\ \A i \in DOMAIN inner' : ClosureTouched(inner[i])'
  BY <1>1, <1>5, InnerTail
<1>8. ClosureInv'
  BY <1>1, <1>7 DEF ClosureInv
<1>9. TypeOK'
  BY <1>1, <1>5, <1>6, <1>7 DEF SessionInv, TypeOK
<1>10. CallInv' /\ ListInv' /\ RoomInv' /\ QueueInv'
  BY <1>1, <1>5, CallsSame, ListSame, RoomSame, QueueSame
<1> QED
  BY <1>8, <1>9, <1>10 DEF SessionInv

LEMMA JoinGameStep ==
  ASSUME SessionInv, JoinGame
  PROVE  SessionInv'
<1>1. PICK e : e = Head(inner)
  OBVIOUS
<1> DEFINE p == e.player
<1>2. /\ inner # <<>> /\ half = Nil /\ inner' = Tail(inner) /\ e.op = "enter"
      /\ UNCHANGED <<net, owner, queue, th, players, session, venueId, offline,
                     inexact, sessionMap, offlineIds, asked>>
  BY <1>1 DEF JoinGame
<1>3. \/ UNCHANGED <<avatar, inRoom, half, reference, tangled>>
      \/ /\ p \notin inRoom /\ inRoom' = inRoom \cup {p}
         /\ avatar' = [avatar EXCEPT ![p] = IF p \in players THEN GetSession(p) ELSE Nil]
         /\ TouchIfThere(p) /\ half' = e /\ Overlap(p)
  BY <1>1 DEF JoinGame
<1>4. inner \in Seq(Closure) /\ session \in [Players -> Ids] /\ avatar \in [Players -> Ids]
      /\ inRoom \subseteq Players /\ tangled \subseteq Players
  BY DEF SessionInv, TypeOK
<1>5. e \in Closure /\ p \in Players
  <2>1. Head(inner) \in Closure
    BY <1>2, <1>4
  <2> QED
    BY <1>1, <2>1 DEF Closure
<1>6. /\ Quiet /\ reference' \in [Players -> 0 .. ReferenceLimit]
      /\ \A late : Touched(p, late) => Touched(p, late)'
  BY <1>2, <1>3, <1>5, TouchIfThereQuiet
<1>7. /\ inner' \in Seq(Closure) /\ \A i \in DOMAIN inner' : ClosureTouched(inner[i])'
      /\ ClosureTouched(e)
  BY <1>1, <1>2, <1>6, InnerTail
<1>8. Touched(p, e.late) /\ Touched(p, e.late)' /\ p \in players
  BY <1>2, <1>6, <1>7 DEF ClosureTouched, Touched
<1>9. CallInv' /\ ListInv' /\ QueueInv'
  BY <1>2, <1>6, CallsSame, ListSame, QueueSame
<1>10. CASE UNCHANGED <<avatar, inRoom, half, reference, tangled>>
  <2>1. TypeOK'
    BY <1>2, <1>7, <1>10 DEF SessionInv, TypeOK
  <2>2. ClosureInv' /\ RoomInv'
    BY <1>2, <1>6, <1>7, <1>10, RoomSame DEF ClosureInv
  <2> QED
    BY <1>9, <2>1, <2>2 DEF SessionInv
<1>11. CASE /\ p \notin inRoom /\ inRoom' = inRoom \cup {p}
            /\ avatar' = [avatar EXCEPT ![p] = IF p \in players THEN GetSession(p) ELSE Nil]
            /\ TouchIfThere(p) /\ half' = e /\ Overlap(p)
  <2>1. avatar' \in [Players -> Ids]
    <3>1. GetSession(p) \in Ids /\ Nil \in Ids
      BY <1>4, <1>5 DEF GetSession, Ids
    <3> QED
      BY <1>4, <1>5, <1>11, <3>1
  <2>2. tangled' \subseteq Players /\ inRoom' \subseteq Players
    BY <1>4, <1>5, <1>11 DEF Overlap
  <2>3. TypeOK'
    BY <1>2, <1>5, <1>6, <1>7, <1>11, <2>1, <2>2 DEF SessionInv, TypeOK
  <2>4. ClosureInv'
    BY <1>7, <1>8, <1>11 DEF ClosureInv, ClosureTouched, Touched
  <2>5. RoomInv'
    <3>1. half' # Nil
      BY <1>5, <1>11, NilAssumption
    <3>2. half'.op = IF half'.player \in inRoom' THEN "enter" ELSE "leave"
      BY <1>2, <1>11
    <3>3. ASSUME NEW q \in inRoom'
          PROVE  q \in players /\ (venueId[q] \/ (half' # Nil /\ half'.player = q))
      <4>1. CASE q = p
        BY <1>8, <1>11, <3>1, <4>1
      <4>2. CASE q # p
        BY <1>2, <1>11, <4>2 DEF SessionInv, RoomInv, MemberIsKnown
      <4> QED
        BY <4>1, <4>2
    <3> QED
      BY <1>2, <3>2, <3>3 DEF RoomInv, MemberIsKnown
  <2> QED
    BY <1>9, <2>3, <2>4, <2>5 DEF SessionInv
<1> QED
  BY <1>3, <1>10, <1>11

LEMMA RemoveAvatarStep ==
  ASSUME SessionInv, NEW p \in Players, RemoveAvatar(p)
  PROVE  SessionInv'
<1>1. /\ half = Nil /\ p \in inRoom /\ inRoom' = inRoom \ {p}
      /\ avatar' = [avatar EXCEPT ![p] = Nil]
      /\ UNCHANGED <<net, owner, queue, th, players, session, venueId, offline, reference,
                     inexact, sessionMap, offlineIds, inner, asked>>
  BY DEF RemoveAvatar, manager
<1>2. PICK e \in Closure : e = [op |-> "leave", player |-> p, late |-> FALSE]
  BY DEF Closure
<1>3. half' = e /\ e.op = "leave" /\ e.player = p /\ half' # Nil
  BY <1>2, NilAssumption DEF RemoveAvatar
<1>4. tangled' \subseteq Players
  BY DEF RemoveAvatar, SessionInv, TypeOK
<1>5. TypeOK'
  BY <1>1, <1>3, <1>4 DEF SessionInv, TypeOK, Ids
<1>6. Quiet
  BY <1>1, StillQuiet
<1>7. ClosureInv'
  BY <1>1, <1>3 DEF SessionInv, ClosureInv, ClosureTouched, Touched
<1>8. RoomInv'
  BY <1>1, <1>3 DEF SessionInv, RoomInv, MemberIsKnown
<1>9. CallInv' /\ ListInv' /\ QueueInv'
  BY <1>1, <1>6, CallsSame, ListSame, QueueSame
<1> QED
  BY <1>5, <1>7, <1>8, <1>9 DEF SessionInv

LEMMA AfterRoomStep ==
  ASSUME SessionInv, AfterRoom
  PROVE  SessionInv'
<1> DEFINE p == half.player
<1>1. /\ half # Nil /\ half' = Nil /\ TouchIfThere(p)
      /\ venueId' = IF p \in players THEN [venueId EXCEPT ![p] = half.op = "enter"] ELSE venueId
      /\ UNCHANGED <<net, owner, queue, th, players, session, offline, inexact,
                     sessionMap, offlineIds, avatar, inRoom, inner, asked, tangled>>
  BY DEF AfterRoom
<1>2. half \in Closure /\ p \in Players
  BY <1>1 DEF SessionInv, TypeOK, Closure
<1>3. /\ Quiet /\ reference' \in [Players -> 0 .. ReferenceLimit]
  BY <1>1, <1>2, TouchIfThereQuiet
<1>4. venueId \in [Players -> BOOLEAN] /\ players \subseteq Players
  BY DEF SessionInv, TypeOK
<1>5. /\ venueId' \in [Players -> BOOLEAN]
      /\ \A q \in Players \ {p} : venueId'[q] = venueId[q]
      /\ p \in players => venueId'[p] = (half.op = "enter")
  BY <1>1, <1>2, <1>4
<1>6. TypeOK'
  BY <1>1, <1>3, <1>5 DEF SessionInv, TypeOK
<1>7. ClosureInv'
  <2>1. \A c : ClosureTouched(c) => ClosureTouched(c)'
    BY <1>3 DEF Quiet, ClosureTouched, Touched
  <2> QED
    BY <1>1, <2>1 DEF SessionInv, ClosureInv, ClosureTouched, Touched
<1>8. RoomInv'
  <2> SUFFICES ASSUME NEW q \in inRoom
               PROVE  q \in players /\ venueId'[q]
    BY <1>1 DEF RoomInv, MemberIsKnown
  <2>1. q \in players /\ q \in Players /\ (venueId[q] \/ q = p)
    BY <1>4 DEF SessionInv, RoomInv, MemberIsKnown
  <2>2. CASE q = p
    <3>1. half.op = "enter"
      BY <1>1, <2>2 DEF SessionInv, RoomInv
    <3> QED
      BY <1>5, <2>1, <2>2, <3>1
  <2>3. CASE q # p
    BY <1>5, <2>1, <2>3
  <2> QED
    BY <2>2, <2>3
<1>9. CallInv' /\ ListInv' /\ QueueInv'
  BY <1>1, <1>3, CallsSame, ListSame, QueueSame
<1> QED
  BY <1>6, <1>7, <1>8, <1>9 DEF SessionInv

-----------------------------------------------------------------------------
(* The theorems *)

LEMMA InitSession == Init => SessionInv
<1> SUFFICES ASSUME Init
             PROVE  SessionInv
  OBVIOUS
<1>1. Idle \in Call /\ CallOf(Idle) /\ CallTouched(Idle) /\ CallOffline(Idle)
  BY IdleCall DEF CallOf, CallTouched, CallOffline, Connecting, Idle
<1>2. <<>> \in Seq(Message) /\ <<>> \in Seq(Players) /\ <<>> \in Seq(Closure) /\ DOMAIN <<>> = {}
  BY EmptySeq
<1>3. TypeOK
  <2>1. th \in [Threads -> Call]
    BY <1>1 DEF Init
  <2>2. queue \in Seq(Message) /\ offlineIds \in Seq(Players) /\ inner \in Seq(Closure)
    BY <1>2 DEF Init
  <2>3. /\ offline \in [Players -> 0 .. OfflineLimit] /\ reference \in [Players -> 0 .. ReferenceLimit]
        /\ inexact \in 0 .. ReferenceLimit /\ asked \in 0 .. MaxRequests
    BY Limits DEF Init
  <2>4. /\ net \in [Sessions -> {"new", "open", "closed", "gone"}]
        /\ owner \in [Sessions -> Players \cup {Nil}] /\ players \subseteq Players
        /\ session \in [Players -> Ids] /\ venueId \in [Players -> BOOLEAN]
        /\ sessionMap \in [Ids -> Players \cup {Nil}] /\ avatar \in [Players -> Ids]
        /\ inRoom \subseteq Players /\ half \in Closure \cup {Nil} /\ tangled \subseteq Players
    BY DEF Init, Ids
  <2> QED
    BY <2>1, <2>2, <2>3, <2>4 DEF TypeOK
<1>4. CallInv
  BY <1>1 DEF Init, CallInv
<1>5. ClosureInv /\ ListInv /\ RoomInv
  BY <1>2 DEF Init, ClosureInv, ListInv, RoomInv, MemberIsKnown
<1>6. QueueInv
  BY <1>2 DEF Init, QueueInv
<1> QED
  BY <1>3, <1>4, <1>5, <1>6 DEF SessionInv

LEMMA StepSteps ==
  ASSUME SessionInv, NEW t \in Threads, Step(t)
  PROVE  SessionInv'
BY PopStep, PreprocessStep, AddPlayerStep, GetPlayerStep, ConnectingSteps, FindStep,
   RemoveSessionIdStep, SetOfflineStep, AddOfflinePlayerStep, GetVenueIdStep, TellStep DEF Step

LEMMA NextSession == SessionInv /\ [Next]_vars => SessionInv'
<1> SUFFICES ASSUME SessionInv, [Next]_vars
             PROVE  SessionInv'
  OBVIOUS
<1>1. CASE Next
  <2>1. CASE \E t \in Threads : Step(t)
    BY <2>1, StepSteps
  <2>2. CASE InnerStep \/ OnTimer
    BY <2>2, NotifyStep, JoinGameStep, AfterRoomStep, OnTimerStep DEF InnerStep
  <2>3. CASE \E s \in Sessions :
               \/ \E p \in Players : Connect(s, p)
               \/ OnDisconnect(s) \/ CheckConnection(s)
               \/ RequestEnter(s)
    BY <2>3, NetworkSteps, RequestEnterStep
  <2>4. CASE \E p \in Players : RemoveAvatar(p)
    BY <2>4, RemoveAvatarStep
  <2> QED
    BY <1>1, <2>1, <2>2, <2>3, <2>4 DEF Next
<1>2. CASE UNCHANGED vars
  <2>1. UNCHANGED <<net, owner, queue, th, players, session, venueId, offline, reference,
                    inexact, sessionMap, offlineIds, avatar, inRoom, inner, half, asked, tangled>>
    BY <1>2 DEF vars
  <2>2. Quiet
    BY <2>1, StillQuiet
  <2>3. TypeOK'
    BY <2>1 DEF SessionInv, TypeOK
  <2>4. CallInv' /\ ClosureInv' /\ ListInv' /\ RoomInv' /\ QueueInv'
    BY <2>1, <2>2, CallsSame, ClosuresSame, ListSame, RoomSame, QueueSame
  <2> QED
    BY <2>3, <2>4 DEF SessionInv
<1> QED
  BY <1>1, <1>2

\* The inductive invariant: what a call, a closure and the room rely on when they use a
\* player, and why freeDormantPlayers respects it.
THEOREM SessionInvariant == Spec => []SessionInv
<1>1. Init => SessionInv
  BY InitSession
<1>2. SessionInv /\ [Next]_vars => SessionInv'
  BY NextSession
<1> QED
  BY <1>1, <1>2, PTL DEF Spec

\* Every variable of PlayerManager, the calls and the room keeps its type.
THEOREM SessionTypeOK == Spec => []TypeOK
<1>1. SessionInv => TypeOK
  BY DEF SessionInv
<1> QED
  BY <1>1, SessionInvariant, PTL

\* onPlayerConnect gives the session to an object that is in the table: touch keeps
\* freeDormantPlayers from freeing it until the call is over.
THEOREM SessionHeldNotFreed == Spec => []HeldNotFreed
<1>1. SessionInv => HeldNotFreed
  BY DEF SessionInv, CallInv, CallTouched, Touched, Connecting, HeldNotFreed
<1> QED
  BY <1>1, SessionInvariant, PTL

\* A player with an avatar in the room is in the table and knows the venue.
THEOREM SessionMemberIsKnown == Spec => []MemberIsKnown
<1>1. SessionInv => MemberIsKnown
  BY DEF SessionInv, RoomInv
<1> QED
  BY <1>1, SessionInvariant, PTL

-----------------------------------------------------------------------------
(* Owners *)

\* What every step has to show about the owners: those of the sessions that are known
\* stay, and what is written about a session is its owner.
LEMMA OwnersKept ==
  ASSUME SessionInv, SessionInv', OwnerInv,
         \A s \in Sessions : owner[s] # Nil => owner'[s] = owner[s],
         \A s \in Sessions : sessionMap'[s] \in {sessionMap[s], Nil, owner[s]},
         \A p \in Players : \/ session'[p] \in {session[p], Nil}
                            \/ owner[session'[p]] = p,
         \A t \in Threads : \E c \in Call : CallOwner(c) /\ CallOf(c) /\ th'[t].pc = c.pc
                            /\ th'[t].session = c.session /\ th'[t].player = c.player
                            /\ th'[t].id = c.id
  PROVE  OwnerInv'
<1>0. /\ Nil \notin Players /\ session' \in [Players -> Ids] /\ session \in [Players -> Ids]
      /\ Ids = Sessions \cup {Nil} /\ Nil \notin Sessions
  BY Limits DEF SessionInv, TypeOK, Ids
<1>1. \A s \in Sessions : sessionMap'[s] \in {Nil, owner'[s]}
  BY DEF OwnerInv
<1>2. ASSUME NEW p \in Players, session'[p] # Nil
      PROVE  owner'[session'[p]] = p
  <2>1. owner[session'[p]] = p /\ session'[p] \in Sessions
    BY <1>0, <1>2 DEF OwnerInv
  <2> QED
    BY <1>0, <2>1
<1>3. ASSUME NEW t \in Threads
      PROVE  CallOwner(th[t])'
  <2>1. PICK c \in Call : /\ CallOwner(c) /\ CallOf(c) /\ th'[t].pc = c.pc
                          /\ th'[t].session = c.session /\ th'[t].player = c.player
                          /\ th'[t].id = c.id
    OBVIOUS
  <2>2. c.pc # "idle" => c.session \in Sessions
    BY <2>1 DEF CallOf
  <2>3. c.id # Nil => c.id \in Sessions
    BY <1>0 DEF Call
  <2>4. c.pc # "idle" => owner'[c.session] = owner[c.session] /\ owner[c.session] # Nil
    BY <2>1, <2>2 DEF CallOwner
  <2>5. c.id # Nil => /\ owner'[c.id] = owner[c.id] /\ c.player # Nil /\ owner[c.id] = c.player
                      /\ c.pc # "find"
    BY <2>1, <2>3 DEF CallOwner
  <2>6. c.pc \notin {"idle", "find"} => c.player = owner[c.session]
    BY <2>1 DEF CallOwner
  <2> QED
    BY <2>1, <2>4, <2>5, <2>6 DEF CallOwner
<1> QED
  BY <1>1, <1>2, <1>3 DEF OwnerInv

\* A step of thread t.
LEMMA OwnersCall ==
  ASSUME SessionInv, SessionInv', OwnerInv, NEW t \in Threads, NEW c \in Call, Sets(t, c),
         CallOwner(c), owner' = owner,
         \A s \in Sessions : sessionMap'[s] \in {sessionMap[s], Nil, owner[s]},
         \A p \in Players : \/ session'[p] \in {session[p], Nil}
                            \/ owner[session'[p]] = p
  PROVE  OwnerInv'
<1>1. ASSUME NEW u \in Threads
      PROVE  \E d \in Call : /\ CallOwner(d) /\ CallOf(d) /\ th'[u].pc = d.pc
                             /\ th'[u].session = d.session /\ th'[u].player = d.player
                             /\ th'[u].id = d.id
  <2>1. CASE u = t
    <3>1. th'[u] = c /\ CallOf(th[u])'
      BY <2>1 DEF Sets, SessionInv, CallInv
    <3> QED
      BY <3>1 DEF CallOf
  <2>2. CASE u # t
    <3>1. th'[u] = th[u] /\ th[u] \in Call /\ CallOf(th[u]) /\ CallOwner(th[u])
      BY <2>2 DEF Sets, SessionInv, CallInv, TypeOK, OwnerInv
    <3> QED
      BY <3>1
  <2> QED
    BY <2>1, <2>2
<1> QED
  BY <1>1, OwnersKept

\* A step of somebody else.
LEMMA OwnersSame ==
  ASSUME SessionInv, SessionInv', OwnerInv, th' = th,
         \A s \in Sessions : owner[s] # Nil => owner'[s] = owner[s],
         sessionMap' = sessionMap,
         \A p \in Players : session'[p] \in {session[p], Nil}
  PROVE  OwnerInv'
<1>1. ASSUME NEW u \in Threads
      PROVE  \E d \in Call : /\ CallOwner(d) /\ CallOf(d) /\ th'[u].pc = d.pc
                             /\ th'[u].session = d.session /\ th'[u].player = d.player
                             /\ th'[u].id = d.id
  <2>1. th'[u] = th[u] /\ th[u] \in Call /\ CallOf(th[u]) /\ CallOwner(th[u])
    BY DEF SessionInv, CallInv, TypeOK, OwnerInv
  <2> QED
    BY <2>1
<1> QED
  BY <1>1, OwnersKept

-----------------------------------------------------------------------------
(* The map and the players *)

\* A player that a step does not concern.
Untouched(p) ==
  /\ session'[p] = session[p] /\ (p \in players' <=> p \in players)
  /\ \A s \in Sessions : sessionMap'[s] = p <=> sessionMap[s] = p

\* The same calls are about p as before, and nothing has changed for them.
SameCalls(p) ==
  \A t \in Threads :
    /\ About(t, p)' <=> About(t, p)
    /\ About(t, p) => /\ th'[t].pc = th[t].pc /\ th'[t].session = th[t].session
                      /\ th'[t].id = th[t].id /\ th'[t].held = th[t].held

GoneStays == \A s \in Sessions : net[s] = "gone" => net'[s] = "gone"

LEMMA AgreeUntouched ==
  ASSUME SessionInv, NEW p \in Players, Untouched(p), AgreeFor(p), SameCalls(p), GoneStays
  PROVE  AgreeFor(p)'
<1>1. OneCall(p)'
  BY DEF AgreeFor, OneCall, SameCalls
<1>2. (Agree(p)' <=> Agree(p)) /\ (NoSession(p)' <=> NoSession(p))
  BY DEF Untouched, Agree, NoSession
<1>3. (\A t \in Threads : About(t, p) => th[t].pc \notin Between)' => Agree(p)'
  BY <1>2 DEF AgreeFor, SameCalls
<1>4. ASSUME NEW t \in Threads, About(t, p)'
      PROVE  CallAgree(th[t], p)'
  <2>1. /\ About(t, p) /\ CallAgree(th[t], p) /\ th'[t].pc = th[t].pc
        /\ th'[t].session = th[t].session /\ th'[t].id = th[t].id /\ th'[t].held = th[t].held
    BY <1>4 DEF SameCalls, AgreeFor
  <2>2. th[t].session \in Sessions
    BY <2>1 DEF About, SessionInv, CallInv, CallOf
  <2>3. net[th[t].session] = "gone" => net'[th[t].session] = "gone"
    BY <2>2 DEF GoneStays
  <2>4. session'[p] = session[p] /\ (sessionMap'[th[t].session] = p <=> sessionMap[th[t].session] = p)
    BY <2>2 DEF Untouched
  <2> QED
    BY <1>2, <2>1, <2>3, <2>4 DEF CallAgree
<1> QED
  BY <1>1, <1>3, <1>4 DEF AgreeFor

\* A step of the only call about p.
LEMMA AgreeOne ==
  ASSUME NEW p \in Players, NEW t \in Threads, NEW c \in Call, Sets(t, c), owner' = owner,
         \A u \in Threads \ {t} : ~About(u, p),
         c.pc = "idle" \/ owner[c.session] = p,
         c.pc \notin Between => Agree(p)', c.pc # "idle" => CallAgree(c, p)'
  PROVE  AgreeFor(p)'
<1>1. \A u \in Threads : u # t => ~About(u, p)'
  BY DEF About, Sets
<1>2. th'[t] = c
  BY DEF Sets
<1>3. (c.pc = "idle" => ~About(t, p)') /\ (c.pc # "idle" => About(t, p)')
  BY <1>2 DEF About
<1>4. OneCall(p)'
  BY <1>1 DEF OneCall
<1>5. (\A u \in Threads : About(u, p) => th[u].pc \notin Between)' => Agree(p)'
  BY <1>2, <1>3 DEF Between
<1>6. ASSUME NEW u \in Threads, About(u, p)'
      PROVE  CallAgree(th[u], p)'
  <2>1. u = t /\ c.pc # "idle"
    BY <1>1, <1>3, <1>6
  <2> QED
    BY <1>2, <2>1 DEF CallAgree, NoSession
<1> QED
  BY <1>4, <1>5, <1>6 DEF AgreeFor

\* A step of thread t, about p: the others are not concerned.
LEMMA AgreeStep ==
  ASSUME SessionInv, OwnerInv, AgreeInv, NEW t \in Threads, NEW p \in Players, NEW c \in Call,
         Sets(t, c), UNCHANGED <<net, owner>>, tangled \subseteq tangled',
         th[t].pc = "idle" \/ owner[th[t].session] = p,
         c.pc = "idle" \/ owner[c.session] = p,
         \A q \in Players \ {p} : Untouched(q),
         p \notin tangled' => /\ \A u \in Threads \ {t} : ~About(u, p)
                              /\ c.pc \notin Between => Agree(p)'
                              /\ c.pc # "idle" => CallAgree(c, p)'
  PROVE  AgreeInv'
<1> SUFFICES ASSUME NEW q \in Players \ tangled'
             PROVE  AgreeFor(q)'
  BY DEF AgreeInv
<1>1. CASE q = p
  BY <1>1, AgreeOne
<1>2. CASE q # p
  <2>1. AgreeFor(q)
    BY DEF AgreeInv
  <2>2. SameCalls(q)
    <3> SUFFICES ASSUME NEW u \in Threads
                 PROVE  /\ About(u, q)' <=> About(u, q)
                        /\ About(u, q) => /\ th'[u].pc = th[u].pc /\ th'[u].session = th[u].session
                                          /\ th'[u].id = th[u].id /\ th'[u].held = th[u].held
      BY DEF SameCalls
    <3>1. CASE u = t
      BY <1>2, <3>1 DEF About, Sets
    <3>2. CASE u # t
      BY <3>2 DEF About, Sets
    <3> QED
      BY <3>1, <3>2
  <2>3. GoneStays
    BY DEF GoneStays
  <2> QED
    BY <1>2, <2>1, <2>2, <2>3, AgreeUntouched
<1> QED
  BY <1>1, <1>2

\* The player a call is about.
LEMMA Caller ==
  ASSUME SessionInv, OwnerInv, AgreeInv, NEW t \in Threads, th[t].pc # "idle"
  PROVE  \E p \in Players :
           /\ owner[th[t].session] = p /\ th[t].session \in Sessions
           /\ th[t].pc # "find" => /\ th[t].player = p
                                   /\ th[t].id # Nil => th[t].id \in Sessions /\ owner[th[t].id] = p
           /\ p \notin tangled => /\ \A u \in Threads \ {t} : ~About(u, p)
                                  /\ CallAgree(th[t], p)
                                  /\ th[t].pc \notin Between => Agree(p)
<1>1. /\ th[t] \in Call /\ CallOf(th[t]) /\ CallOwner(th[t]) /\ th[t].session \in Sessions
      /\ th[t].id \in Ids /\ owner \in [Sessions -> Players \cup {Nil}]
  BY CallFacts DEF OwnerInv, CallOf, SessionInv, TypeOK
<1>2. PICK p : p = owner[th[t].session]
  OBVIOUS
<1>3. p \in Players /\ (th[t].pc # "find" => th[t].player = p)
  BY <1>1, <1>2 DEF CallOwner
<1>4. th[t].id # Nil => th[t].id \in Sessions /\ owner[th[t].id] = th[t].player
  BY <1>1 DEF CallOwner, Ids
<1>5. About(t, p)
  BY <1>2 DEF About
<1>6. ASSUME p \notin tangled
      PROVE  /\ \A u \in Threads \ {t} : ~About(u, p)
             /\ CallAgree(th[t], p)
             /\ th[t].pc \notin Between => Agree(p)
  <2>1. AgreeFor(p)
    BY <1>3, <1>6 DEF AgreeInv
  <2>2. \A u \in Threads \ {t} : ~About(u, p)
    BY <1>5, <2>1 DEF AgreeFor, OneCall
  <2> QED
    BY <1>5, <2>1, <2>2 DEF AgreeFor
<1> QED
  BY <1>1, <1>2, <1>3, <1>4, <1>6

\* A step that writes nothing of the player or the map, to a place where nothing more
\* is claimed.
Plain == {"idle", "add", "get", "old", "list", "venue", "tell"}

LEMMA AgreePasses ==
  ASSUME SessionInv, SessionInv', OwnerInv, AgreeInv, NEW t \in Threads, NEW c \in Call,
         th[t].pc # "idle", th[t].pc \notin Between, Sets(t, c), c.pc \in Plain,
         c.pc # "idle" => /\ c.session = th[t].session /\ c.player = th[t].player
                          /\ c.id = th[t].id /\ th[t].pc # "find",
         c.pc = "idle" => c.id = Nil,
         UNCHANGED <<net, owner, players, session, sessionMap>>, tangled \subseteq tangled'
  PROVE  OwnerInv' /\ AgreeInv'
<1>1. PICK p \in Players :
        /\ owner[th[t].session] = p /\ th[t].session \in Sessions
        /\ th[t].pc # "find" => /\ th[t].player = p
                                /\ th[t].id # Nil => th[t].id \in Sessions /\ owner[th[t].id] = p
        /\ p \notin tangled => /\ \A u \in Threads \ {t} : ~About(u, p)
                               /\ CallAgree(th[t], p)
                               /\ th[t].pc \notin Between => Agree(p)
  BY Caller
<1>2. Nil \notin Players
  BY Limits
<1>3. CallOwner(c)
  BY <1>1, <1>2 DEF CallOwner, Plain
<1>4. OwnerInv'
  BY <1>3, OwnersCall
<1>5. \A q \in Players : Untouched(q) /\ (Agree(q)' <=> Agree(q))
  BY DEF Untouched, Agree
<1>6. CallAgree(c, p)'
  BY DEF CallAgree, Plain
<1>7. AgreeInv'
  BY <1>1, <1>5, <1>6, AgreeStep
<1> QED
  BY <1>4, <1>7

LEMMA GoesOn ==
  ASSUME SessionInv, SessionInv', OwnerInv, AgreeInv, NEW t \in Threads,
         NEW pc \in Plain \ {"idle"}, Goto(t, th[t], pc),
         th[t].pc \notin {"idle", "find"} \cup Between,
         UNCHANGED <<net, owner, players, session, sessionMap>>, tangled \subseteq tangled'
  PROVE  OwnerInv' /\ AgreeInv'
<1>1. th[t] \in Call
  BY CallFacts
<1>2. PICK d \in Call : Sets(t, d) /\ Follows(th[t], d, pc)
  BY <1>1, GotoSets DEF Plain, ConnectPcs, DisconnectPcs
<1> QED
  BY <1>2, AgreePasses DEF Follows

LEMMA Finishes ==
  ASSUME SessionInv, SessionInv', OwnerInv, AgreeInv, NEW t \in Threads, Done(t),
         th[t].pc \notin {"idle"} \cup Between,
         UNCHANGED <<net, owner, players, session, sessionMap>>, tangled \subseteq tangled'
  PROVE  OwnerInv' /\ AgreeInv'
<1>1. Sets(t, Idle)
  BY IdleCall, SetCall DEF Done, SessionInv
<1> QED
  BY <1>1, IdleCall, AgreePasses DEF Plain

LEMMA PlainSteps ==
  ASSUME SessionInv, SessionInv', OwnerInv, AgreeInv, NEW t \in Threads,
         Preprocess(t) \/ GetPlayer(t) \/ AddOfflinePlayer(t) \/ GetVenueId(t) \/ Tell(t)
  PROVE  OwnerInv' /\ AgreeInv'
<1>1. CASE Preprocess(t)
  BY <1>1, GoesOn, Finishes DEF Preprocess, Plain, Between
<1>2. CASE GetPlayer(t)
  <2>1. /\ UNCHANGED <<net, owner, players, session, sessionMap, tangled>> /\ th[t].pc = "get"
        /\ Done(t) \/ Goto(t, [th[t] EXCEPT !.held = TRUE], "old")
    BY <1>2 DEF GetPlayer
  <2>2. CASE Done(t)
    BY <2>1, <2>2, Finishes DEF Between
  <2>3. CASE Goto(t, [th[t] EXCEPT !.held = TRUE], "old")
    <3>1. th[t] \in Call
      BY CallFacts
    <3> DEFINE b == [th[t] EXCEPT !.held = TRUE]
    <3>2. b \in Call /\ b.session = th[t].session /\ b.player = th[t].player /\ b.id = th[t].id
      BY <3>1 DEF Call
    <3> HIDE DEF b
    <3>3. PICK d \in Call : Sets(t, d) /\ Follows(b, d, "old")
      BY <2>3, <3>2, GotoSets DEF b, ConnectPcs
    <3> QED
      BY <2>1, <3>2, <3>3, AgreePasses DEF Follows, Plain, Between
  <2> QED
    BY <2>1, <2>2, <2>3
<1>3. CASE AddOfflinePlayer(t)
  BY <1>3, GoesOn DEF AddOfflinePlayer, manager, Plain, Between
<1>4. CASE GetVenueId(t)
  BY <1>4, GoesOn, Finishes DEF GetVenueId, manager, Plain, Between
<1>5. CASE Tell(t)
  BY <1>5, Finishes DEF Tell, manager, Between
<1> QED
  BY <1>1, <1>2, <1>3, <1>4, <1>5

LEMMA AgreePop ==
  ASSUME SessionInv, SessionInv', OwnerInv, AgreeInv, NEW t \in Threads, Pop(t)
  PROVE  OwnerInv' /\ AgreeInv'
<1>1. PICK m : m = Head(queue)
  OBVIOUS
<1>2. PICK p : p = owner[m.session]
  OBVIOUS
<1>3. m \in Message /\ p \in Players
  <2>1. /\ queue \in Seq(Message) /\ queue # <<>>
        /\ owner \in [Sessions -> Players \cup {Nil}]
    BY DEF Pop, SessionInv, TypeOK
  <2>2. Head(queue) \in Message /\ Head(queue) = queue[1] /\ 1 \in DOMAIN queue
    BY <2>1
  <2>3. m.session \in Sessions
    BY <1>1, <2>2 DEF Message
  <2> QED
    BY <1>1, <1>2, <2>1, <2>2, <2>3 DEF SessionInv, QueueInv
<1>4. PICK b : b = [Idle EXCEPT !.kind = m.kind, !.session = m.session,
                                !.player = IF m.kind = "connect" THEN p ELSE Nil]
  OBVIOUS
<1>5. PICK pc : pc = IF m.kind = "connect" THEN "load" ELSE "find"
  OBVIOUS
<1>6. /\ th[t].pc = "idle" /\ Goto(t, b, pc)
      /\ tangled' = IF Working(p) THEN tangled \cup {p} ELSE tangled
      /\ UNCHANGED <<net, owner, players, session, sessionMap>>
  BY <1>1, <1>2, <1>4, <1>5 DEF Pop, manager
<1>7. /\ b \in Call /\ b.session = m.session /\ b.id = Nil
      /\ b.player = IF m.kind = "connect" THEN p ELSE Nil
  BY <1>3, <1>4, IdleCall DEF Call, Message, Idle, Ids
<1>8. PICK d \in Call : Sets(t, d) /\ Follows(b, d, pc)
  BY <1>5, <1>6, <1>7, GotoSets DEF ConnectPcs, DisconnectPcs
<1>9. /\ d.pc = pc /\ d.session = m.session /\ d.id = Nil
      /\ d.pc # "find" => d.player = p
  BY <1>5, <1>7, <1>8 DEF Follows
<1>10. CallOwner(d)
  BY <1>2, <1>3, <1>9, Limits DEF CallOwner
<1>11. OwnerInv'
  BY <1>6, <1>8, <1>10, OwnersCall
<1>12. \A q \in Players : Untouched(q) /\ (Agree(q)' <=> Agree(q))
  BY <1>6 DEF Untouched, Agree
<1>13. ASSUME p \notin tangled'
       PROVE  /\ \A u \in Threads \ {t} : ~About(u, p)
              /\ Agree(p)' /\ CallAgree(d, p)'
  <2>1. p \notin tangled /\ \A u \in Threads : ~About(u, p)
    BY <1>6, <1>13 DEF Working, About
  <2>2. Agree(p)
    BY <1>3, <2>1 DEF AgreeInv, AgreeFor
  <2>3. CallAgree(d, p)'
    BY <1>5, <1>9 DEF CallAgree
  <2> QED
    BY <1>3, <1>12, <2>1, <2>2, <2>3
<1>14. tangled \subseteq tangled' /\ owner[d.session] = p
  BY <1>2, <1>6, <1>9
<1>15. AgreeInv'
  BY <1>3, <1>6, <1>8, <1>12, <1>13, <1>14, AgreeStep
<1> QED
  BY <1>11, <1>15

\* A player is loaded: a new one has no session, in the map or in the object.
LEMMA LoadsAgree ==
  ASSUME SessionInv, NEW p \in Players, Loads(p), UNCHANGED sessionMap
  PROVE  /\ \A q \in Players \ {p} : Untouched(q)
         /\ session'[p] \in {session[p], Nil} /\ (NoSession(p)' <=> NoSession(p))
         /\ Agree(p) => Agree(p)'
<1>1. session \in [Players -> Ids] /\ players \subseteq Players /\ Nil \notin Sessions
  BY Limits DEF SessionInv, TypeOK
<1>2. CASE p \in players
  <2>1. UNCHANGED <<players, session>>
    BY <1>2 DEF Loads
  <2> QED
    BY <2>1 DEF Untouched, Agree, NoSession
<1>3. CASE p \notin players
  <2>1. players' = players \cup {p} /\ session' = [session EXCEPT ![p] = Nil]
    BY <1>3 DEF Loads, NewPlayer
  <2>2. session'[p] = Nil /\ \A q \in Players \ {p} : session'[q] = session[q]
    BY <1>1, <2>1
  <2> QED
    BY <1>1, <1>3, <2>1, <2>2 DEF Untouched, Agree, NoSession
<1> QED
  BY <1>2, <1>3

LEMMA AgreeAdd ==
  ASSUME SessionInv, SessionInv', OwnerInv, AgreeInv, NEW t \in Threads, AddPlayer(t)
  PROVE  OwnerInv' /\ AgreeInv'
<1>1. th[t].pc = "add"
  BY DEF AddPlayer
<1>2. PICK p \in Players :
        /\ owner[th[t].session] = p /\ th[t].session \in Sessions
        /\ th[t].pc # "find" => /\ th[t].player = p
                                /\ th[t].id # Nil => th[t].id \in Sessions /\ owner[th[t].id] = p
        /\ p \notin tangled => /\ \A u \in Threads \ {t} : ~About(u, p)
                               /\ CallAgree(th[t], p)
                               /\ th[t].pc \notin Between => Agree(p)
  BY <1>1, Caller
<1>3. /\ Loads(p) /\ (Goto(t, th[t], "get") \/ Done(t))
      /\ UNCHANGED <<net, owner, sessionMap, tangled>>
  BY <1>1, <1>2 DEF AddPlayer, Loads
<1>4. /\ \A q \in Players \ {p} : Untouched(q)
      /\ session'[p] \in {session[p], Nil}
      /\ Agree(p) => Agree(p)'
  BY <1>3, LoadsAgree
<1>5. \A q \in Players : session'[q] \in {session[q], Nil}
  BY <1>4 DEF Untouched
<1>6. \E d \in Call : /\ Sets(t, d) /\ CallOwner(d) /\ d.pc \in {"idle", "get"}
                      /\ d.pc = "idle" \/ owner[d.session] = p
  <2>1. CASE Goto(t, th[t], "get")
    <3>1. PICK d \in Call : Sets(t, d) /\ Follows(th[t], d, "get")
      BY <2>1, CallFacts, GotoSets DEF ConnectPcs
    <3>2. CallOwner(d)
      BY <1>1, <1>2, <3>1, Limits DEF CallOwner, Follows
    <3> QED
      BY <1>2, <3>1, <3>2 DEF Follows
  <2>2. CASE Done(t)
    <3>1. Sets(t, Idle) /\ Idle \in Call
      BY <2>2, IdleCall, SetCall DEF Done, SessionInv
    <3> QED
      BY <3>1, IdleCall DEF CallOwner
  <2> QED
    BY <1>3, <2>1, <2>2
<1>7. PICK d \in Call : /\ Sets(t, d) /\ CallOwner(d) /\ d.pc \in {"idle", "get"}
                        /\ d.pc = "idle" \/ owner[d.session] = p
  BY <1>6
<1>8. OwnerInv'
  BY <1>3, <1>5, <1>7, OwnersCall
<1>9. CallAgree(d, p)'
  BY <1>7 DEF CallAgree
<1>10. p \notin tangled => Agree(p)' /\ \A u \in Threads \ {t} : ~About(u, p)
  BY <1>1, <1>2, <1>4 DEF Between
<1>11. AgreeInv'
  BY <1>2, <1>3, <1>4, <1>7, <1>9, <1>10, AgreeStep
<1> QED
  BY <1>8, <1>11

\* The writes to the map do not concern other players: a session is its owner's.
LEMMA MapUntouched ==
  ASSUME SessionInv, OwnerInv, NEW p \in Players, NEW i \in Ids, i # Nil => owner[i] = p,
         NEW v \in {Nil, p}, sessionMap' = [sessionMap EXCEPT ![i] = v],
         UNCHANGED <<players, session>>
  PROVE  /\ \A q \in Players \ {p} : Untouched(q)
         /\ \A s \in Sessions : sessionMap'[s] = IF s = i THEN v ELSE sessionMap[s]
         /\ \A s \in Sessions : sessionMap'[s] \in {sessionMap[s], Nil, owner[s]}
<1>1. /\ sessionMap \in [Ids -> Players \cup {Nil}] /\ Nil \notin Players
      /\ Ids = Sessions \cup {Nil} /\ Nil \notin Sessions
  BY Limits DEF SessionInv, TypeOK, Ids
<1>2. \A s \in Sessions : sessionMap'[s] = IF s = i THEN v ELSE sessionMap[s]
  BY <1>1
<1>3. \A s \in Sessions : sessionMap'[s] \in {sessionMap[s], Nil, owner[s]}
  BY <1>1, <1>2
<1>4. ASSUME NEW q \in Players \ {p}, NEW s \in Sessions
      PROVE  sessionMap'[s] = q <=> sessionMap[s] = q
  <2>1. CASE s = i
    <3>1. owner[s] = p /\ sessionMap[s] \in {Nil, p}
      BY <1>1, <2>1 DEF OwnerInv
    <3> QED
      BY <1>1, <1>2, <2>1, <3>1
  <2>2. CASE s # i
    BY <1>2, <2>2
  <2> QED
    BY <2>1, <2>2
<1> QED
  BY <1>2, <1>3, <1>4 DEF Untouched

LEMMA AgreeGetOld ==
  ASSUME SessionInv, SessionInv', OwnerInv, AgreeInv, NEW t \in Threads, GetOld(t)
  PROVE  OwnerInv' /\ AgreeInv'
<1>1. th[t].pc = "old" /\ UNCHANGED <<net, owner, players, session, sessionMap>>
  BY DEF GetOld, manager
<1>2. PICK p \in Players :
        /\ owner[th[t].session] = p /\ th[t].session \in Sessions
        /\ th[t].pc # "find" => /\ th[t].player = p
                                /\ th[t].id # Nil => th[t].id \in Sessions /\ owner[th[t].id] = p
        /\ p \notin tangled => /\ \A u \in Threads \ {t} : ~About(u, p)
                               /\ CallAgree(th[t], p)
                               /\ th[t].pc \notin Between => Agree(p)
  BY <1>1, Caller
<1>3. th[t] \in Call /\ th[t].held /\ p \in players /\ th[t].player = p
  <2>1. th[t] \in Call /\ CallTouched(th[t]) /\ CallOf(th[t])
    BY CallFacts
  <2>2. th[t].kind = "connect"
    BY <1>1, <2>1 DEF CallOf, DisconnectPcs
  <2> QED
    BY <1>1, <1>2, <2>1, <2>2 DEF CallTouched, Touched, Connecting
<1>4. session[p] \in Ids /\ Nil \notin Sessions /\ Ids = Sessions \cup {Nil} /\ Nil \notin Players
  BY Limits DEF SessionInv, TypeOK, Ids
<1>5. tangled' = IF LostOld(p) THEN tangled \cup {p} ELSE tangled
  BY <1>3 DEF GetOld
<1>6. \A q \in Players : Untouched(q) /\ (NoSession(q)' <=> NoSession(q))
  BY <1>1 DEF Untouched, NoSession
<1>7. CASE GetSession(p) # Nil
  <2>1. PICK i : i = IF net[session[p]] = "gone" THEN Nil ELSE session[p]
    OBVIOUS
  <2>2. GetSession(p) = session[p] /\ Alive(session[p]) /\ session[p] # Nil
    BY <1>7 DEF GetSession
  <2> DEFINE b == [th[t] EXCEPT !.id = i]
  <2>3. Goto(t, b, "unlink")
    BY <1>3, <1>7, <2>1, <2>2 DEF GetOld
  <2>4. i \in Ids /\ owner[session[p]] = p
    BY <1>4, <2>1, <2>2 DEF OwnerInv
  <2>5. b \in Call /\ b.session = th[t].session /\ b.player = p /\ b.id = i
    BY <1>3, <2>4 DEF Call
  <2> HIDE DEF b
  <2>6. PICK d \in Call : Sets(t, d) /\ Follows(b, d, "unlink")
    BY <2>3, <2>5, GotoSets DEF ConnectPcs
  <2>7. d.pc = "unlink" /\ d.session = th[t].session /\ d.player = p /\ d.id = i
    BY <2>5, <2>6 DEF Follows
  <2>8. CallOwner(d)
    BY <1>2, <1>4, <2>1, <2>4, <2>7 DEF CallOwner
  <2>9. OwnerInv'
    BY <1>1, <2>6, <2>8, OwnersCall
  <2>10. ASSUME p \notin tangled
         PROVE  session[p] = i \/ net[th[t].session] = "gone"
    <3> SUFFICES ASSUME net[session[p]] = "gone"
                 PROVE  net[th[t].session] = "gone"
      BY <2>1
    <3>1. PICK u \in Threads : th[u].session = session[p] /\ th[u].pc # "idle"
      BY <2>2 DEF Alive
    <3>2. About(u, p)
      BY <2>4, <3>1 DEF About
    <3>3. u = t
      BY <1>2, <2>10, <3>2
    <3> QED
      BY <3>1, <3>3
  <2>11. p \notin tangled => CallAgree(d, p)'
    BY <1>1, <2>7, <2>10 DEF CallAgree
  <2>12. p \notin tangled => Agree(p)'
    BY <1>1, <1>2 DEF Between, Agree
  <2>13. AgreeInv'
    BY <1>1, <1>2, <1>5, <1>6, <2>6, <2>7, <2>11, <2>12, AgreeStep
  <2> QED
    BY <2>9, <2>13
<1>8. CASE GetSession(p) = Nil
  <2>1. Goto(t, th[t], "set")
    BY <1>3, <1>8 DEF GetOld
  <2>2. PICK d \in Call : Sets(t, d) /\ Follows(th[t], d, "set")
    BY <1>3, <2>1, GotoSets DEF ConnectPcs
  <2>3. CallOwner(d)
    BY <1>1, <1>2, <1>4, <2>2 DEF CallOwner, Follows
  <2>4. OwnerInv'
    BY <1>1, <2>2, <2>3, OwnersCall
  <2>5. ASSUME p \notin tangled'
        PROVE  NoSession(p)
    <3>1. Agree(p) /\ ~LostOld(p)
      BY <1>1, <1>2, <1>5, <2>5 DEF Between
    <3>2. session[p] = Nil \/ ~Alive(session[p])
      BY <1>8 DEF GetSession
    <3> QED
      BY <1>3, <1>4, <3>1, <3>2 DEF LostOld, Agree, NoSession
  <2>6. p \notin tangled' => CallAgree(d, p)'
    BY <1>6, <2>2, <2>5 DEF CallAgree, Follows
  <2>7. d.pc = "set" /\ d.session = th[t].session /\ "set" \in Between
    BY <2>2 DEF Follows, Between
  <2>8. AgreeInv'
    BY <1>1, <1>2, <1>5, <1>6, <2>2, <2>6, <2>7, AgreeStep
  <2> QED
    BY <2>4, <2>8
<1> QED
  BY <1>7, <1>8

\* A step of a call that writes the map or the session of its player.
LEMMA AgreeWrites ==
  ASSUME SessionInv, SessionInv', OwnerInv, AgreeInv, NEW t \in Threads, NEW p \in Players,
         th[t].pc \notin {"idle", "find"}, owner[th[t].session] = p, th[t].player = p,
         th[t].id # Nil => owner[th[t].id] = p,
         NEW c \in Call, Sets(t, c), c.pc # "find", c.session = th[t].session, c.player = p,
         c.id \in {th[t].id, c.session}, UNCHANGED <<net, owner>>, tangled \subseteq tangled',
         p \notin tangled => \A u \in Threads \ {t} : ~About(u, p),
         \A q \in Players \ {p} : Untouched(q),
         \A s \in Sessions : sessionMap'[s] \in {sessionMap[s], Nil, owner[s]},
         session'[p] \in {session[p], Nil, th[t].session},
         p \notin tangled' => (c.pc \notin Between => Agree(p)') /\ CallAgree(c, p)'
  PROVE  OwnerInv' /\ AgreeInv'
<1>1. CallOwner(c)
  BY Limits DEF CallOwner
<1>2. \A q \in Players : session'[q] \in {session[q], Nil} \/ owner[session'[q]] = q
  BY DEF Untouched
<1>3. OwnerInv'
  BY <1>1, <1>2, OwnersCall
<1>4. AgreeInv'
  BY AgreeStep
<1> QED
  BY <1>3, <1>4

LEMMA AgreeUnlink ==
  ASSUME SessionInv, SessionInv', OwnerInv, AgreeInv, NEW t \in Threads, Unlink(t)
  PROVE  OwnerInv' /\ AgreeInv'
<1>1. /\ th[t].pc = "unlink" /\ UNCHANGED <<net, owner, players, session, tangled>>
      /\ sessionMap' = [sessionMap EXCEPT ![th[t].id] = Nil] /\ Goto(t, th[t], "set")
  BY DEF Unlink, manager
<1>2. PICK p \in Players :
        /\ owner[th[t].session] = p /\ th[t].session \in Sessions
        /\ th[t].pc # "find" => /\ th[t].player = p
                                /\ th[t].id # Nil => th[t].id \in Sessions /\ owner[th[t].id] = p
        /\ p \notin tangled => /\ \A u \in Threads \ {t} : ~About(u, p)
                               /\ CallAgree(th[t], p)
                               /\ th[t].pc \notin Between => Agree(p)
  BY <1>1, Caller
<1>3. th[t] \in Call /\ th[t].id \in Ids
  BY CallFacts
<1>4. PICK d \in Call : Sets(t, d) /\ Follows(th[t], d, "set")
  BY <1>1, <1>3, GotoSets DEF ConnectPcs
<1>5. PICK i \in Ids : i = th[t].id
  BY <1>3
<1>6. (i # Nil => owner[i] = p) /\ sessionMap' = [sessionMap EXCEPT ![i] = Nil]
  BY <1>1, <1>2, <1>5
<1>7. /\ \A q \in Players \ {p} : Untouched(q)
      /\ \A s \in Sessions : sessionMap'[s] = IF s = i THEN Nil ELSE sessionMap[s]
      /\ \A s \in Sessions : sessionMap'[s] \in {sessionMap[s], Nil, owner[s]}
  BY <1>1, <1>6, MapUntouched
<1>8. ASSUME p \notin tangled, net[th[t].session] # "gone"
      PROVE  NoSession(p)'
  <2>1. Agree(p) /\ session[p] = i
    BY <1>1, <1>2, <1>5, <1>8 DEF Between, CallAgree
  <2> QED
    BY <1>2, <1>7, <2>1, Limits DEF Agree, NoSession
<1>9. p \notin tangled' => CallAgree(d, p)'
  BY <1>1, <1>4, <1>8 DEF CallAgree, Follows
<1> QED
  BY <1>1, <1>2, <1>4, <1>7, <1>9, AgreeWrites DEF Follows, Between

LEMMA AgreeSet ==
  ASSUME SessionInv, SessionInv', OwnerInv, AgreeInv, NEW t \in Threads, SetSession(t)
  PROVE  OwnerInv' /\ AgreeInv'
<1> DEFINE gone == net[th[t].session] = "gone"
           b == IF gone THEN th[t] ELSE [th[t] EXCEPT !.id = th[t].session]
<1>1. /\ th[t].pc = "set" /\ UNCHANGED <<net, owner, players, sessionMap>>
      /\ session' = IF th[t].held THEN [session EXCEPT ![th[t].player] = th[t].session] ELSE session
      /\ Goto(t, b, "link")
      /\ tangled' = IF gone THEN tangled \cup {th[t].player} ELSE tangled
  BY DEF SetSession
<1>2. PICK p \in Players :
        /\ owner[th[t].session] = p /\ th[t].session \in Sessions
        /\ th[t].pc # "find" => /\ th[t].player = p
                                /\ th[t].id # Nil => th[t].id \in Sessions /\ owner[th[t].id] = p
        /\ p \notin tangled => /\ \A u \in Threads \ {t} : ~About(u, p)
                               /\ CallAgree(th[t], p)
                               /\ th[t].pc \notin Between => Agree(p)
  BY <1>1, Caller
<1>3. th[t] \in Call /\ th[t].held /\ th[t].player = p
  <2>1. th[t] \in Call /\ CallTouched(th[t]) /\ CallOf(th[t])
    BY CallFacts
  <2>2. th[t].kind = "connect"
    BY <1>1, <2>1 DEF CallOf, DisconnectPcs
  <2> QED
    BY <1>1, <1>2, <2>1, <2>2 DEF CallTouched, Connecting
<1>4. /\ b \in Call /\ b.session = th[t].session /\ b.player = p
      /\ b.id = IF gone THEN th[t].id ELSE th[t].session
  BY <1>2, <1>3 DEF Call, Ids
<1> HIDE DEF b
<1>5. PICK d \in Call : Sets(t, d) /\ Follows(b, d, "link")
  BY <1>1, <1>4, GotoSets DEF ConnectPcs
<1>6. session \in [Players -> Ids]
  BY DEF SessionInv, TypeOK
<1>7. session'[p] = th[t].session /\ \A q \in Players \ {p} : session'[q] = session[q]
  BY <1>1, <1>3, <1>6
<1>8. \A q \in Players \ {p} : Untouched(q)
  BY <1>1, <1>7 DEF Untouched
<1>9. ASSUME p \notin tangled'
      PROVE  CallAgree(d, p)'
  <2>1. ~gone /\ NoSession(p)
    BY <1>1, <1>2, <1>9 DEF CallAgree
  <2>2. NoSession(p)'
    BY <1>1, <2>1 DEF NoSession
  <2> QED
    BY <1>4, <1>5, <1>7, <2>1, <2>2 DEF CallAgree, Follows
<1>10. d.pc = "link" /\ d.pc \in Between /\ d.session = th[t].session /\ d.player = p /\ d.id \in {th[t].id, d.session}
  BY <1>4, <1>5 DEF Follows, Between
<1>11. tangled \subseteq tangled'
  BY <1>1
<1>12. th[t].pc \notin {"idle", "find"} /\ (th[t].id # Nil => owner[th[t].id] = p)
  BY <1>1, <1>2
<1> QED
  BY <1>1, <1>2, <1>3, <1>5, <1>7, <1>8, <1>9, <1>10, <1>11, <1>12, AgreeWrites

LEMMA AgreeLink ==
  ASSUME SessionInv, SessionInv', OwnerInv, AgreeInv, NEW t \in Threads, Link(t)
  PROVE  OwnerInv' /\ AgreeInv'
<1>1. /\ th[t].pc = "link" /\ UNCHANGED <<net, owner, players, session, tangled>>
      /\ sessionMap' = [sessionMap EXCEPT ![th[t].id] = th[t].player] /\ Goto(t, th[t], "venue")
  BY DEF Link, manager
<1>2. PICK p \in Players :
        /\ owner[th[t].session] = p /\ th[t].session \in Sessions
        /\ th[t].pc # "find" => /\ th[t].player = p
                                /\ th[t].id # Nil => th[t].id \in Sessions /\ owner[th[t].id] = p
        /\ p \notin tangled => /\ \A u \in Threads \ {t} : ~About(u, p)
                               /\ CallAgree(th[t], p)
                               /\ th[t].pc \notin Between => Agree(p)
  BY <1>1, Caller
<1>3. th[t] \in Call /\ th[t].id \in Ids /\ p \in players
  <2>1. th[t] \in Call /\ CallTouched(th[t]) /\ CallOf(th[t]) /\ th[t].id \in Ids
    BY CallFacts
  <2>2. th[t].kind = "connect"
    BY <1>1, <2>1 DEF CallOf, DisconnectPcs
  <2> QED
    BY <1>1, <1>2, <2>1, <2>2 DEF CallTouched, Touched, Connecting
<1>4. PICK d \in Call : Sets(t, d) /\ Follows(th[t], d, "venue")
  BY <1>1, <1>3, GotoSets DEF ConnectPcs
<1>5. PICK i \in Ids : i = th[t].id
  BY <1>3
<1>6. (i # Nil => owner[i] = p) /\ sessionMap' = [sessionMap EXCEPT ![i] = p]
  BY <1>1, <1>2, <1>5
<1>7. /\ \A q \in Players \ {p} : Untouched(q)
      /\ \A s \in Sessions : sessionMap'[s] = IF s = i THEN p ELSE sessionMap[s]
      /\ \A s \in Sessions : sessionMap'[s] \in {sessionMap[s], Nil, owner[s]}
  BY <1>1, <1>6, MapUntouched
<1>8. ASSUME p \notin tangled
      PROVE  Agree(p)'
  <2>1. NoSession(p) /\ session[p] = i
    BY <1>1, <1>2, <1>5, <1>8 DEF CallAgree
  <2> QED
    BY <1>1, <1>3, <1>7, <2>1 DEF Agree, NoSession
<1>9. CallAgree(d, p)'
  BY <1>4 DEF CallAgree, Follows
<1> QED
  BY <1>1, <1>2, <1>4, <1>7, <1>8, <1>9, AgreeWrites DEF Follows

LEMMA AgreeFind ==
  ASSUME SessionInv, SessionInv', OwnerInv, AgreeInv, NEW t \in Threads, Find(t)
  PROVE  OwnerInv' /\ AgreeInv'
<1>1. /\ th[t].pc = "find" /\ UNCHANGED <<net, owner, players, session, sessionMap, tangled>>
  BY DEF Find, manager
<1>2. PICK p \in Players :
        /\ owner[th[t].session] = p /\ th[t].session \in Sessions
        /\ th[t].pc # "find" => /\ th[t].player = p
                                /\ th[t].id # Nil => th[t].id \in Sessions /\ owner[th[t].id] = p
        /\ p \notin tangled => /\ \A u \in Threads \ {t} : ~About(u, p)
                               /\ CallAgree(th[t], p)
                               /\ th[t].pc \notin Between => Agree(p)
  BY <1>1, Caller
<1>3. th[t] \in Call /\ players \subseteq Players /\ Nil \notin Players
  BY CallFacts, Limits DEF SessionInv, TypeOK
<1>4. CASE sessionMap[th[t].session] \in players
  <2>1. sessionMap[th[t].session] = p
    BY <1>2, <1>3, <1>4 DEF OwnerInv
  <2> DEFINE b == [th[t] EXCEPT !.player = p, !.held = TRUE]
  <2>2. b \in Call /\ b.session = th[t].session /\ b.player = p /\ b.id = th[t].id /\ b.held
    BY <1>3 DEF Call
  <2>3. Goto(t, b, "remove")
    BY <1>4, <2>1 DEF Find
  <2> HIDE DEF b
  <2>4. PICK d \in Call : Sets(t, d) /\ Follows(b, d, "remove")
    BY <2>2, <2>3, GotoSets DEF DisconnectPcs
  <2>5. /\ d.session = th[t].session /\ d.player = p /\ d.id = th[t].id /\ d.held
        /\ d.pc = "remove"
    BY <2>2, <2>4 DEF Follows
  <2>6. CallOwner(d)
    <3>1. th[t].id = Nil
      BY <1>1 DEF OwnerInv, CallOwner
    <3> QED
      BY <1>2, <1>3, <2>5, <3>1 DEF CallOwner
  <2>7. OwnerInv'
    BY <1>1, <2>4, <2>6, OwnersCall
  <2>8. CallAgree(d, p)' /\ d.pc \notin Between
    BY <1>1, <2>1, <2>5 DEF CallAgree, Between
  <2>9. \A q \in Players : Untouched(q) /\ (Agree(q)' <=> Agree(q))
    BY <1>1 DEF Untouched, Agree
  <2>10. p \notin tangled' => Agree(p)' /\ \A u \in Threads \ {t} : ~About(u, p)
    BY <1>1, <1>2, <2>9 DEF Between
  <2>11. AgreeInv'
    BY <1>1, <1>2, <2>4, <2>5, <2>8, <2>9, <2>10, AgreeStep
  <2> QED
    BY <2>7, <2>11
<1>5. CASE sessionMap[th[t].session] \notin players
  BY <1>1, <1>5, Finishes DEF Find, Between
<1> QED
  BY <1>4, <1>5

LEMMA AgreeRemove ==
  ASSUME SessionInv, SessionInv', OwnerInv, AgreeInv, NEW t \in Threads, RemoveSessionId(t)
  PROVE  OwnerInv' /\ AgreeInv'
<1>1. /\ th[t].pc = "remove" /\ UNCHANGED <<net, owner, players, session, tangled>>
      /\ sessionMap' = [sessionMap EXCEPT ![th[t].session] = Nil] /\ Goto(t, th[t], "off")
  BY DEF RemoveSessionId, manager
<1>2. PICK p \in Players :
        /\ owner[th[t].session] = p /\ th[t].session \in Sessions
        /\ th[t].pc # "find" => /\ th[t].player = p
                                /\ th[t].id # Nil => th[t].id \in Sessions /\ owner[th[t].id] = p
        /\ p \notin tangled => /\ \A u \in Threads \ {t} : ~About(u, p)
                               /\ CallAgree(th[t], p)
                               /\ th[t].pc \notin Between => Agree(p)
  BY <1>1, Caller
<1>3. th[t] \in Call
  BY CallFacts
<1>4. PICK d \in Call : Sets(t, d) /\ Follows(th[t], d, "off")
  BY <1>1, <1>3, GotoSets DEF DisconnectPcs
<1>5. PICK i \in Ids : i = th[t].session
  BY <1>2 DEF Ids
<1>6. owner[i] = p /\ sessionMap' = [sessionMap EXCEPT ![i] = Nil] /\ i \in Sessions
  BY <1>1, <1>2, <1>5
<1>7. /\ \A q \in Players \ {p} : Untouched(q)
      /\ \A s \in Sessions : sessionMap'[s] = IF s = i THEN Nil ELSE sessionMap[s]
      /\ \A s \in Sessions : sessionMap'[s] \in {sessionMap[s], Nil, owner[s]}
  BY <1>1, <1>6, MapUntouched, ZenonT(60)
<1>8. ASSUME p \notin tangled
      PROVE  NoSession(p)' /\ th[t].held
  <2>1. Agree(p) /\ sessionMap[i] = p /\ th[t].held
    BY <1>1, <1>2, <1>5, <1>8 DEF Between, CallAgree
  <2>2. session[p] = i
    BY <1>6, <2>1 DEF Agree
  <2> QED
    BY <1>2, <1>7, <2>1, <2>2, Limits DEF Agree, NoSession
<1>9. p \notin tangled' => CallAgree(d, p)'
  BY <1>1, <1>4, <1>8 DEF CallAgree, Follows
<1> QED
  BY <1>1, <1>2, <1>4, <1>7, <1>9, AgreeWrites DEF Follows, Between

LEMMA AgreeOff ==
  ASSUME SessionInv, SessionInv', OwnerInv, AgreeInv, NEW t \in Threads, SetOffline(t)
  PROVE  OwnerInv' /\ AgreeInv'
<1>1. /\ th[t].pc = "off" /\ UNCHANGED <<net, owner, players, sessionMap, tangled>>
      /\ session' = IF th[t].held THEN [session EXCEPT ![th[t].player] = Nil] ELSE session
      /\ Goto(t, th[t], "list")
  BY DEF SetOffline
<1>2. PICK p \in Players :
        /\ owner[th[t].session] = p /\ th[t].session \in Sessions
        /\ th[t].pc # "find" => /\ th[t].player = p
                                /\ th[t].id # Nil => th[t].id \in Sessions /\ owner[th[t].id] = p
        /\ p \notin tangled => /\ \A u \in Threads \ {t} : ~About(u, p)
                               /\ CallAgree(th[t], p)
                               /\ th[t].pc \notin Between => Agree(p)
  BY <1>1, Caller
<1>3. th[t] \in Call /\ session \in [Players -> Ids]
  BY CallFacts DEF SessionInv, TypeOK
<1>4. PICK d \in Call : Sets(t, d) /\ Follows(th[t], d, "list")
  BY <1>1, <1>3, GotoSets DEF DisconnectPcs
<1>5. /\ session'[p] = IF th[t].held THEN Nil ELSE session[p]
      /\ \A q \in Players \ {p} : session'[q] = session[q]
  BY <1>1, <1>2, <1>3
<1>6. \A q \in Players \ {p} : Untouched(q)
  BY <1>1, <1>5 DEF Untouched
<1>7. ASSUME p \notin tangled
      PROVE  Agree(p)'
  <2>1. NoSession(p) /\ session'[p] = Nil
    BY <1>1, <1>2, <1>5, <1>7 DEF CallAgree
  <2> QED
    BY <1>1, <2>1, Limits DEF NoSession, Agree
<1>8. CallAgree(d, p)'
  BY <1>4 DEF CallAgree, Follows
<1> QED
  BY <1>1, <1>2, <1>4, <1>5, <1>6, <1>7, <1>8, AgreeWrites DEF Follows

\* The inner thread, the network and a request do not change a call.
LEMMA AgreeElse ==
  ASSUME SessionInv, SessionInv', OwnerInv, AgreeInv, UNCHANGED <<th, sessionMap>>,
         tangled \subseteq tangled', GoneStays,
         \A s \in Sessions : owner[s] # Nil => owner'[s] = owner[s],
         \A p \in Players : Untouched(p) \/ Loads(p)
  PROVE  OwnerInv' /\ AgreeInv'
<1>1. ASSUME NEW p \in Players
      PROVE  session'[p] \in {session[p], Nil}
  BY <1>1, LoadsAgree DEF Untouched
<1>2. OwnerInv'
  BY <1>1, OwnersSame
<1>3. ASSUME NEW t \in Threads, NEW p \in Players
      PROVE  About(t, p)' <=> About(t, p)
  <2>1. th[t].pc # "idle" => th[t].session \in Sessions /\ owner[th[t].session] # Nil
    BY DEF SessionInv, CallInv, CallOf, OwnerInv, CallOwner
  <2> QED
    BY <2>1 DEF About
<1>4. \A p \in Players : SameCalls(p)
  BY <1>3 DEF SameCalls
<1>5. ASSUME NEW p \in Players \ tangled'
      PROVE  AgreeFor(p)'
  <2>1. AgreeFor(p)
    BY DEF AgreeInv
  <2>2. CASE Untouched(p)
    BY <1>4, <2>1, <2>2, AgreeUntouched
  <2>3. CASE Loads(p)
    <3>1. /\ session'[p] \in {session[p], Nil} /\ (NoSession(p)' <=> NoSession(p))
          /\ Agree(p) => Agree(p)'
      BY <2>3, LoadsAgree
    <3>2. OneCall(p)'
      BY <1>3, <2>1 DEF AgreeFor, OneCall
    <3>3. (\A t \in Threads : About(t, p) => th[t].pc \notin Between)' => Agree(p)'
      BY <1>3, <2>1, <3>1 DEF AgreeFor
    <3>4. ASSUME NEW t \in Threads, About(t, p)'
          PROVE  CallAgree(th[t], p)'
      <4>1. /\ About(t, p) /\ CallAgree(th[t], p) /\ th[t].session \in Sessions
            /\ th[t].player = p \/ th[t].pc = "find"
        BY <1>3, <2>1, <3>4
           DEF AgreeFor, About, SessionInv, CallInv, CallOf, OwnerInv, CallOwner
      <4>2. net[th[t].session] = "gone" => net'[th[t].session] = "gone"
        BY <1>3, <3>4 DEF GoneStays, About, SessionInv, CallInv, CallOf
      <4>3. p \in players => session'[p] = session[p]
        BY <2>3 DEF Loads
      <4>4. th[t].pc \in {"unlink", "link"} => p \in players
        BY <4>1 DEF SessionInv, CallInv, CallOf, CallTouched, Touched, Connecting, DisconnectPcs
      <4> QED
        BY <3>1, <4>1, <4>2, <4>3, <4>4 DEF CallAgree
    <3> QED
      BY <3>2, <3>3, <3>4 DEF AgreeFor
  <2> QED
    BY <2>2, <2>3
<1> QED
  BY <1>2, <1>5 DEF AgreeInv

LEMMA AgreeTimer ==
  ASSUME SessionInv, SessionInv', OwnerInv, AgreeInv, OnTimer
  PROVE  OwnerInv' /\ AgreeInv'
<1>1. /\ th' = [t \in Threads |->
                  [th[t] EXCEPT !.late = th[t].pc # "idle",
                                !.held = @ /\ th[t].player \notin Freed]]
      /\ session' = [p \in Players |-> IF p \in Freed THEN Nil ELSE session[p]]
      /\ players' = players \ Freed
      /\ tangled' = tangled \cup {p \in Freed : \E s \in Sessions : sessionMap[s] = p}
      /\ UNCHANGED <<net, owner, sessionMap>>
  BY DEF OnTimer
<1>2. PICK F : F = Freed
  OBVIOUS
<1>3. /\ \A p \in Players : session'[p] = IF p \in F THEN Nil ELSE session[p]
      /\ players' = players \ F
      /\ tangled' = tangled \cup {p \in F : \E s \in Sessions : sessionMap[s] = p}
  BY <1>1, <1>2
<1>4. ASSUME NEW t \in Threads
      PROVE  /\ th[t] \in Call /\ CallOf(th[t]) /\ CallOwner(th[t])
             /\ th'[t].pc = th[t].pc /\ th'[t].session = th[t].session
             /\ th'[t].player = th[t].player /\ th'[t].id = th[t].id
             /\ th'[t].kind = th[t].kind
             /\ th'[t].held = (th[t].held /\ th[t].player \notin F)
  <2>1. th[t] \in Call /\ CallOf(th[t]) /\ CallOwner(th[t])
    BY CallFacts DEF OwnerInv
  <2>2. th'[t] = [th[t] EXCEPT !.late = th[t].pc # "idle",
                               !.held = th[t].held /\ th[t].player \notin F]
    BY <1>1, <1>2
  <2> QED
    BY <2>1, <2>2 DEF Call
<1>5. OwnerInv'
  <2>1. \A t \in Threads : \E c \in Call : CallOwner(c) /\ CallOf(c) /\ th'[t].pc = c.pc
                            /\ th'[t].session = c.session /\ th'[t].player = c.player
                            /\ th'[t].id = c.id
    BY <1>4
  <2>2. \A p \in Players : session'[p] \in {session[p], Nil}
    BY <1>3
  <2> QED
    BY <1>1, <2>1, <2>2, OwnersKept
<1>6. \A t \in Threads, p \in Players : About(t, p)' <=> About(t, p)
  BY <1>1, <1>4 DEF About
<1>7. ASSUME NEW p \in Players \ tangled'
      PROVE  AgreeFor(p)'
  <2>1. AgreeFor(p)
    BY <1>3 DEF AgreeInv
  <2>2. ASSUME NEW t \in Threads, About(t, p)
        PROVE  th[t].pc = "find" \/ th[t].player = p
    BY <1>4, <2>2 DEF About, CallOwner
  <2>3. CASE p \notin F
    <3>1. Untouched(p)
      BY <1>1, <1>3, <2>3 DEF Untouched
    <3>2. OneCall(p)'
      BY <1>6, <2>1 DEF AgreeFor, OneCall
    <3>3. (Agree(p)' <=> Agree(p)) /\ (NoSession(p)' <=> NoSession(p))
      BY <3>1 DEF Untouched, Agree, NoSession
    <3>4. (\A t \in Threads : About(t, p) => th[t].pc \notin Between)' => Agree(p)'
      BY <1>4, <1>6, <2>1, <3>3 DEF AgreeFor
    <3>5. ASSUME NEW t \in Threads, About(t, p)'
          PROVE  CallAgree(th[t], p)'
      <4>1. /\ About(t, p) /\ CallAgree(th[t], p) /\ session'[p] = session[p]
            /\ th[t].player = p \/ th[t].pc = "find"
        BY <1>6, <2>1, <2>2, <3>1, <3>5 DEF AgreeFor, Untouched
      <4>2. th[t].pc # "find" => th'[t].held = th[t].held
        <5>1. th[t].held \in BOOLEAN
          BY CallFacts
        <5> QED
          BY <1>4, <2>3, <4>1, <5>1
      <4> QED
        BY <1>1, <1>4, <3>3, <4>1, <4>2 DEF CallAgree
    <3> QED
      BY <3>2, <3>4, <3>5 DEF AgreeFor
  <2>4. CASE p \in F
    <3>1. p \notin players' /\ session'[p] = Nil /\ NoSession(p)
      BY <1>3, <2>4 DEF NoSession
    <3>2. NoSession(p)' /\ Agree(p)'
      BY <1>1, <3>1 DEF NoSession, Agree
    <3>3. OneCall(p)'
      BY <1>6, <2>1 DEF AgreeFor, OneCall
    <3>4. ASSUME NEW t \in Threads, About(t, p)'
          PROVE  CallAgree(th[t], p)'
      <4>1. About(t, p) /\ CallAgree(th[t], p) /\ th[t].session \in Sessions
        BY <1>4, <1>6, <2>1, <3>4 DEF AgreeFor, About, CallOf
      <4>2. th'[t].pc \notin {"unlink", "set", "link"}
        <5> SUFFICES ASSUME th'[t].pc \in {"unlink", "set", "link"}
                     PROVE  FALSE
          OBVIOUS
        <5>1. CallOf(th[t])' /\ CallTouched(th[t])' /\ th'[t].player = p
          BY <1>4, <2>2, <4>1 DEF SessionInv, CallInv
        <5>2. th'[t].kind = "connect"
          BY <5>1 DEF CallOf, DisconnectPcs
        <5> QED
          BY <3>1, <5>1, <5>2 DEF CallTouched, Touched, Connecting
      <4>3. th'[t].pc # "remove"
        BY <1>4, <3>1, <4>1 DEF CallAgree, NoSession
      <4> QED
        BY <3>1, <3>2, <4>2, <4>3 DEF CallAgree
    <3> QED
      BY <3>2, <3>3, <3>4 DEF AgreeFor
  <2> QED
    BY <2>3, <2>4
<1> QED
  BY <1>5, <1>7 DEF AgreeInv

LEMMA AgreeOthers ==
  ASSUME SessionInv, SessionInv', OwnerInv, AgreeInv,
         \/ InnerStep
         \/ \E s \in Sessions : \/ \E p \in Players : Connect(s, p)
                                \/ OnDisconnect(s) \/ CheckConnection(s)
                                \/ RequestEnter(s)
         \/ \E p \in Players : RemoveAvatar(p)
         \/ UNCHANGED vars
  PROVE  OwnerInv' /\ AgreeInv'
<1>0. net \in [Sessions -> {"new", "open", "closed", "gone"}]
      /\ owner \in [Sessions -> Players \cup {Nil}]
  BY DEF SessionInv, TypeOK
<1>1. ASSUME UNCHANGED <<net, owner, th, players, session, sessionMap>>, tangled \subseteq tangled'
      PROVE  OwnerInv' /\ AgreeInv'
  BY <1>1, AgreeElse DEF Untouched, GoneStays
<1>2. CASE InnerStep
  BY <1>1, <1>2 DEF InnerStep, Notify, JoinGame, AfterRoom, Overlap
<1>3. CASE \E p \in Players : RemoveAvatar(p)
  BY <1>1, <1>3 DEF RemoveAvatar, manager
<1>4. CASE UNCHANGED vars
  BY <1>1, <1>4 DEF vars
<1>5. ASSUME NEW s \in Sessions, NEW p \in Players, Connect(s, p)
      PROVE  OwnerInv' /\ AgreeInv'
  <2>1. /\ net[s] = "new" /\ net' = [net EXCEPT ![s] = "open"] /\ owner' = [owner EXCEPT ![s] = p]
        /\ UNCHANGED <<th, players, session, sessionMap, tangled>>
    BY <1>5 DEF Connect, manager
  <2>2. owner[s] = Nil
    BY <2>1 DEF SessionInv, QueueInv
  <2>3. GoneStays /\ \A r \in Sessions : owner[r] # Nil => owner'[r] = owner[r]
    BY <1>0, <2>1, <2>2 DEF GoneStays
  <2> QED
    BY <2>1, <2>3, AgreeElse DEF Untouched
<1>6. ASSUME NEW s \in Sessions, OnDisconnect(s) \/ CheckConnection(s)
      PROVE  OwnerInv' /\ AgreeInv'
  <2>1. /\ UNCHANGED <<owner, th, players, session, sessionMap, tangled>>
        /\ \/ net' = [net EXCEPT ![s] = "closed"] /\ net[s] = "open"
           \/ net' = [net EXCEPT ![s] = "gone"]
    BY <1>6 DEF OnDisconnect, CheckConnection, manager
  <2>2. GoneStays
    BY <1>0, <2>1 DEF GoneStays
  <2> QED
    BY <2>1, <2>2, AgreeElse DEF Untouched
<1>7. ASSUME NEW s \in Sessions, RequestEnter(s)
      PROVE  OwnerInv' /\ AgreeInv'
  <2>1. PICK p : p = owner[s]
    OBVIOUS
  <2>2. net[s] = "open" /\ Loads(p) /\ UNCHANGED <<net, owner, th, sessionMap, tangled>>
    BY <1>7, <2>1 DEF RequestEnter, Loads
  <2>3. p \in Players
    BY <1>0, <2>1, <2>2 DEF SessionInv, QueueInv
  <2>4. \A q \in Players : Untouched(q) \/ Loads(q)
    BY <2>2, <2>3, LoadsAgree
  <2> QED
    BY <2>2, <2>4, AgreeElse DEF GoneStays
<1> QED
  BY <1>2, <1>3, <1>4, <1>5, <1>6, <1>7

LEMMA NextAgree ==
  SessionInv /\ SessionInv' /\ OwnerInv /\ AgreeInv /\ [Next]_vars => OwnerInv' /\ AgreeInv'
<1> SUFFICES ASSUME SessionInv, SessionInv', OwnerInv, AgreeInv, [Next]_vars
             PROVE  OwnerInv' /\ AgreeInv'
  OBVIOUS
<1>1. ASSUME NEW t \in Threads, Step(t)
      PROVE  OwnerInv' /\ AgreeInv'
  BY <1>1, AgreePop, PlainSteps, AgreeAdd, AgreeGetOld, AgreeUnlink, AgreeSet, AgreeLink,
     AgreeFind, AgreeRemove, AgreeOff DEF Step
<1> QED
  BY <1>1, AgreeTimer, AgreeOthers DEF Next

LEMMA InitAgree == Init => OwnerInv /\ AgreeInv
<1> SUFFICES ASSUME Init
             PROVE  OwnerInv /\ AgreeInv
  OBVIOUS
<1>1. \A t \in Threads : th[t] = Idle
  BY DEF Init
<1>2. OwnerInv
  BY <1>1, IdleCall DEF Init, OwnerInv, CallOwner, Ids
<1>3. \A t \in Threads, p \in Players : ~About(t, p)
  BY <1>1, IdleCall DEF About
<1>4. \A p \in Players : Agree(p)
  BY Limits DEF Init, Agree, Ids
<1>5. AgreeInv
  BY <1>3, <1>4 DEF AgreeInv, AgreeFor, OneCall
<1> QED
  BY <1>2, <1>5

\* The tables of PlayerManager and the session of the player agree, but for the players
\* whose messages overlapped: the inductive invariant says at which places of a call
\* they do not, and what the call has made sure of there.
THEOREM SessionSessionsAgree == Spec => []SessionsAgree
<1>1. SessionInv /\ OwnerInv /\ AgreeInv => SessionsAgree
  BY DEF SessionsAgree, AgreeInv, AgreeFor, About, Calling, Agree
<1>2. Init => OwnerInv /\ AgreeInv
  BY InitAgree
<1>3. SessionInv /\ SessionInv' /\ OwnerInv /\ AgreeInv /\ [Next]_vars => OwnerInv' /\ AgreeInv'
  BY NextAgree
<1> QED
  BY <1>1, <1>2, <1>3, SessionInvariant, PTL DEF Spec

-----------------------------------------------------------------------------
(* The avatars *)

\* No connection that is known is opened again.
NoOpening == \A s \in Sessions : owner[s] # Nil /\ net'[s] = "open" => net[s] = "open"

\* What the invariants give a step.
Ground == SessionInv /\ SessionInv' /\ OwnerInv /\ AgreeInv /\ AvatarInv

LEMMA GroundFacts ==
  ASSUME Ground
  PROVE  /\ Nil \notin Players /\ Nil \notin Sessions /\ Ids = Sessions \cup {Nil}
         /\ session \in [Players -> Ids] /\ avatar \in [Players -> Ids]
         /\ session' \in [Players -> Ids] /\ avatar' \in [Players -> Ids]
         /\ inner \in Seq(Closure) /\ inRoom \subseteq Players /\ players \subseteq Players
         /\ \A q \in inRoom : q \in players /\ (venueId[q] \/ HalfOf(q))
         /\ \A q \in inRoom' : q \in players'
         /\ \A q \in Players : /\ session[q] # Nil => session[q] \in Sessions /\ owner[session[q]] = q
                               /\ avatar[q] # Nil => avatar[q] \in Sessions /\ owner[avatar[q]] = q
         /\ \A q \in Players \ tangled : AvatarFor(q)
<1>1. SessionInv /\ SessionInv' /\ OwnerInv /\ AvatarInv
  BY DEF Ground
<1>2. /\ Nil \notin Players /\ Nil \notin Sessions /\ Ids = Sessions \cup {Nil}
      /\ session \in [Players -> Ids] /\ avatar \in [Players -> Ids]
      /\ session' \in [Players -> Ids] /\ avatar' \in [Players -> Ids]
      /\ inner \in Seq(Closure) /\ inRoom \subseteq Players /\ players \subseteq Players
  BY <1>1, Limits DEF SessionInv, TypeOK, Ids
<1>3. /\ \A q \in inRoom : q \in players /\ (venueId[q] \/ HalfOf(q))
      /\ \A q \in inRoom' : q \in players'
  BY <1>1 DEF SessionInv, RoomInv, MemberIsKnown, HalfOf
<1>4. \A q \in Players : /\ session[q] # Nil => session[q] \in Sessions /\ owner[session[q]] = q
                         /\ avatar[q] # Nil => avatar[q] \in Sessions /\ owner[avatar[q]] = q
  BY <1>1, <1>2 DEF OwnerInv, AvatarInv, AvatarOwner
<1> QED
  BY <1>1, <1>2, <1>3, <1>4 DEF AvatarInv

\* The player's session and avatar are as before: so is what the room knows.
LEMMA ToldKept ==
  ASSUME Ground, NEW p \in Players, NoOpening, session'[p] = session[p], avatar'[p] = avatar[p],
         ToTell(p) => ToTell(p)', DisconnectLast(p)' => DisconnectLast(p), Told(p)
  PROVE  Told(p)'
<1>1. /\ Nil \notin Players
      /\ session[p] # Nil => session[p] \in Sessions /\ owner[session[p]] = p
      /\ avatar[p] # Nil => avatar[p] \in Sessions /\ owner[avatar[p]] = p
  BY GroundFacts
<1>2. Open(session[p])' => Open(session[p])
  BY <1>1 DEF Open, NoOpening
<1>3. Open(avatar[p])' => Open(avatar[p])
  BY <1>1 DEF Open, NoOpening
<1>4. Same(p) => Same(p)'
  BY <1>2, <1>3 DEF Same
<1> QED
  BY <1>2, <1>4 DEF Told

\* A player whose avatar and closures a step does not concern.
Still(q) ==
  /\ session'[q] = session[q] \/ (session'[q] = Nil /\ q \notin inRoom)
  /\ avatar'[q] = avatar[q] /\ (q \in inRoom' <=> q \in inRoom)
  /\ HalfOf(q)' => HalfOf(q)
  /\ (ToTell(q)' <=> ToTell(q)) /\ (DisconnectLast(q)' => DisconnectLast(q))

CallsStill(q) ==
  \A t \in Threads :
    /\ About(t, q)' <=> About(t, q)
    /\ About(t, q) => /\ th'[t].pc = th[t].pc /\ th'[t].kind = th[t].kind
                      /\ th[t].pc = "find" \/ th'[t].held = th[t].held \/ q \notin inRoom

LEMMA AvatarStill ==
  ASSUME Ground, NEW q \in Players \ tangled, NoOpening, Still(q), CallsStill(q)
  PROVE  AvatarFor(q)'
<1>1. AvatarFor(q)
  BY GroundFacts
<1>2. HalfOf(q)' => \A t \in Threads : ~About(t, q)'
  BY <1>1 DEF AvatarFor, Still, CallsStill
<1>3. q \notin inRoom' => ~ToTell(q)'
  BY <1>1 DEF AvatarFor, Still
<1>4. ASSUME NEW t \in Threads, About(t, q)'
      PROVE  CallRoom(th[t], q)'
  <2>1. /\ CallRoom(th[t], q) /\ th'[t].pc = th[t].pc /\ th'[t].kind = th[t].kind
        /\ th[t].pc = "find" \/ th'[t].held = th[t].held \/ q \notin inRoom
    BY <1>1, <1>4 DEF AvatarFor, CallsStill
  <2> QED
    BY <2>1 DEF CallRoom, Still
<1>5. ASSUME q \in inRoom', \A t \in Threads : About(t, q)' => ~Setting(th[t])'
      PROVE  Told(q)'
  <2>1. ASSUME NEW t \in Threads, About(t, q)
        PROVE  ~Setting(th[t])
    BY <1>5, <2>1 DEF CallsStill, Setting
  <2>2. Told(q) /\ session'[q] = session[q]
    BY <1>1, <1>5, <2>1 DEF AvatarFor, Still
  <2> QED
    BY <2>2, ToldKept DEF Still
<1> QED
  BY <1>2, <1>3, <1>4, <1>5 DEF AvatarFor

\* The closures after one is dispatched.
LEMMA AppendTelling ==
  ASSUME NEW e \in Closure, inner \in Seq(Closure), inner' = Append(inner, e)
  PROVE  /\ \A q : q # e.player \/ e.op = "enter" =>
              (ToTell(q)' <=> ToTell(q)) /\ (DisconnectLast(q)' => DisconnectLast(q))
         /\ e.op # "enter" => ToTell(e.player)'
         /\ e.op = "connect" => ~DisconnectLast(e.player)'
<1>1. /\ Len(inner) \in Nat /\ DOMAIN inner = 1 .. Len(inner)
      /\ DOMAIN inner' = 1 .. Len(inner) + 1 /\ inner'[Len(inner) + 1] = e
      /\ \A i \in 1 .. Len(inner) : inner'[i] = inner[i]
  BY AppendProperties, LenProperties
<1> DEFINE n == Len(inner)
<1>2. n \in Nat
  BY <1>1
<1>3. /\ DOMAIN inner = 1 .. n /\ DOMAIN inner' = 1 .. n + 1 /\ inner'[n + 1] = e
      /\ \A i \in 1 .. n : inner'[i] = inner[i]
  BY <1>1
<1> HIDE DEF n
<1>4. ASSUME NEW q, q # e.player \/ e.op = "enter"
      PROVE  ToTell(q)' <=> ToTell(q)
  BY <1>2, <1>3, <1>4 DEF ToTell
<1>5. ASSUME NEW q, q # e.player \/ e.op = "enter", DisconnectLast(q)'
      PROVE  DisconnectLast(q)
  <2>1. PICK i \in 1 .. n + 1 :
          /\ inner'[i].player = q /\ inner'[i].op = "disconnect"
          /\ \A j \in 1 .. n + 1 : j > i /\ inner'[j].player = q => inner'[j].op = "enter"
    BY <1>3, <1>5 DEF DisconnectLast
  <2>2. i \in 1 .. n
    BY <1>2, <1>3, <1>5, <2>1
  <2> QED
    BY <1>2, <1>3, <2>1, <2>2 DEF DisconnectLast
<1>6. e.op # "enter" => ToTell(e.player)'
  BY <1>2, <1>3 DEF ToTell
<1>7. ASSUME e.op = "connect", DisconnectLast(e.player)'
      PROVE  FALSE
  <2>1. PICK i \in 1 .. n + 1 :
          /\ inner'[i].player = e.player /\ inner'[i].op = "disconnect"
          /\ \A j \in 1 .. n + 1 : j > i /\ inner'[j].player = e.player => inner'[j].op = "enter"
    BY <1>3, <1>7 DEF DisconnectLast
  <2>2. i # n + 1
    BY <1>3, <1>7, <2>1
  <2> QED
    BY <1>2, <1>3, <1>7, <2>1, <2>2
<1> QED
  BY <1>4, <1>5, <1>6, <1>7

\* The closures after the first one has been taken.
LEMMA TailTelling ==
  ASSUME inner \in Seq(Closure), inner # <<>>, inner' = Tail(inner)
  PROVE  /\ \A q : q # Head(inner).player \/ Head(inner).op = "enter" =>
              (ToTell(q)' <=> ToTell(q))
         /\ \A q : DisconnectLast(q)' => DisconnectLast(q)
         /\ Head(inner) \in Closure
         /\ Head(inner).op # "enter" => ToTell(Head(inner).player)
         /\ \A q : /\ q = Head(inner).player /\ Head(inner).op = "disconnect"
                   /\ ~ToTell(q)'
                   => DisconnectLast(q)
<1>1. /\ Head(inner) = inner[1] /\ Len(inner) \in Nat \ {0} /\ Head(inner) \in Closure
      /\ DOMAIN inner = 1 .. Len(inner) /\ DOMAIN Tail(inner) = 1 .. Len(inner) - 1
      /\ \A i \in 1 .. Len(inner) - 1 : Tail(inner)[i] = inner[i + 1]
  OBVIOUS
<1> DEFINE n == Len(inner) - 1
<1>2. n \in Nat /\ Len(inner) = n + 1
  BY <1>1
<1>3. PICK e : e = Head(inner)
  OBVIOUS
<1>4. /\ DOMAIN inner = 1 .. n + 1 /\ DOMAIN inner' = 1 .. n /\ inner[1] = e
      /\ \A i \in 1 .. n : inner'[i] = inner[i + 1]
  <2>1. DOMAIN inner = 1 .. n + 1
    BY <1>1, <1>2
  <2>2. DOMAIN inner' = 1 .. n /\ \A i \in 1 .. n : inner'[i] = inner[i + 1]
    BY <1>1
  <2> QED
    BY <1>1, <1>3, <2>1, <2>2
<1> HIDE DEF n
<1>5. \A j \in 2 .. n + 1 : j - 1 \in 1 .. n /\ inner[j] = inner'[j - 1]
  BY <1>2, <1>4
<1>6. ASSUME NEW q, q # e.player \/ e.op = "enter"
      PROVE  ToTell(q)' <=> ToTell(q)
  <2>1. ASSUME ToTell(q)
        PROVE  ToTell(q)'
    <3>1. PICK i \in 1 .. n + 1 : inner[i].player = q /\ inner[i].op # "enter"
      BY <1>4, <2>1 DEF ToTell
    <3>2. i \in 2 .. n + 1
      BY <1>2, <1>4, <1>6, <3>1
    <3> QED
      BY <1>4, <1>5, <3>1, <3>2 DEF ToTell
  <2>2. ASSUME ToTell(q)'
        PROVE  ToTell(q)
    <3>1. PICK i \in 1 .. n : inner'[i].player = q /\ inner'[i].op # "enter"
      BY <1>4, <2>2 DEF ToTell
    <3>2. i + 1 \in 1 .. n + 1
      BY <1>2
    <3> QED
      BY <1>4, <3>1, <3>2 DEF ToTell
  <2> QED
    BY <2>1, <2>2
<1>7. ASSUME NEW q, DisconnectLast(q)'
      PROVE  DisconnectLast(q)
  <2>1. PICK i \in 1 .. n :
          /\ inner'[i].player = q /\ inner'[i].op = "disconnect"
          /\ \A j \in 1 .. n : j > i /\ inner'[j].player = q => inner'[j].op = "enter"
    BY <1>4, <1>7 DEF DisconnectLast
  <2>2. i + 1 \in 1 .. n + 1 /\ inner[i + 1] = inner'[i]
    BY <1>2, <1>4
  <2>3. ASSUME NEW j \in 1 .. n + 1, j > i + 1, inner[j].player = q
        PROVE  inner[j].op = "enter"
    <3>1. j \in 2 .. n + 1 /\ j - 1 > i
      BY <1>2, <2>3
    <3> QED
      BY <1>5, <2>1, <2>3, <3>1
  <2> QED
    BY <1>4, <2>1, <2>2, <2>3 DEF DisconnectLast
<1>8. e.op # "enter" => ToTell(e.player)
  BY <1>2, <1>4 DEF ToTell
<1>9. ASSUME NEW q, q = e.player, e.op = "disconnect", ~ToTell(q)'
      PROVE  DisconnectLast(q)
  <2>1. 1 \in 1 .. n + 1
    BY <1>2
  <2>2. ASSUME NEW j \in 1 .. n + 1, j > 1, inner[j].player = q
        PROVE  inner[j].op = "enter"
    <3>1. j \in 2 .. n + 1
      BY <1>2, <2>2
    <3> QED
      <4>1. j - 1 \in 1 .. n /\ inner'[j - 1].player = q
        BY <1>5, <2>2, <3>1
      <4>2. inner'[j - 1].op = "enter"
        BY <1>4, <1>9, <4>1 DEF ToTell
      <4> QED
        BY <1>5, <3>1, <4>2
  <2> QED
    BY <1>4, <1>9, <2>1, <2>2 DEF DisconnectLast
<1> QED
  BY <1>1, <1>3, <1>6, <1>7, <1>8, <1>9


\* What the avatars of the players are, but for those whose steps overlapped.
AvatarsInv == \A q \in Players \ tangled : AvatarFor(q)

\* A step of the only call about p.
LEMMA AvatarOne ==
  ASSUME NEW p \in Players, NEW t \in Threads, NEW c \in Call, Sets(t, c), owner' = owner,
         \A u \in Threads \ {t} : ~About(u, p),
         c.pc = "idle" \/ owner[c.session] = p,
         ~HalfOf(p)', p \notin inRoom' => ~ToTell(p)',
         c.pc # "idle" => CallRoom(c, p)',
         p \in inRoom' /\ ~Setting(c) => Told(p)'
  PROVE  AvatarFor(p)'
<1>1. \A u \in Threads : u # t => ~About(u, p)'
  BY DEF About, Sets
<1>2. th'[t] = c
  BY DEF Sets
<1>3. (c.pc = "idle" => ~About(t, p)') /\ (c.pc # "idle" => About(t, p)')
  BY <1>2 DEF About
<1>4. ASSUME NEW u \in Threads, About(u, p)'
      PROVE  CallRoom(th[u], p)'
  <2>1. u = t /\ c.pc # "idle"
    BY <1>1, <1>3, <1>4
  <2> QED
    BY <1>2, <2>1 DEF CallRoom
<1>5. ASSUME p \in inRoom', \A u \in Threads : About(u, p)' => ~Setting(th[u])'
      PROVE  Told(p)'
  <2>1. c.pc = "idle" => ~Setting(c)
    BY DEF Setting
  <2>2. c.pc # "idle" => ~Setting(c)
    BY <1>2, <1>3, <1>5 DEF Setting
  <2> QED
    BY <1>5, <2>1, <2>2
<1> QED
  BY <1>4, <1>5 DEF AvatarFor

\* A step of thread t, about p: the others are not concerned.
LEMMA AvatarStep ==
  ASSUME Ground, NEW t \in Threads, NEW p \in Players, NEW c \in Call,
         Sets(t, c), UNCHANGED <<net, owner, avatar, inRoom, half>>, tangled \subseteq tangled',
         th[t].pc = "idle" \/ owner[th[t].session] = p,
         c.pc = "idle" \/ owner[c.session] = p,
         \A q \in Players \ {p} : /\ session'[q] = session[q] /\ (ToTell(q)' <=> ToTell(q))
                                  /\ DisconnectLast(q)' => DisconnectLast(q),
         p \notin tangled' => /\ \A u \in Threads \ {t} : ~About(u, p)
                              /\ ~HalfOf(p) /\ (p \notin inRoom => ~ToTell(p)')
                              /\ c.pc # "idle" => CallRoom(c, p)'
                              /\ p \in inRoom /\ ~Setting(c) => Told(p)'
  PROVE  AvatarsInv'
<1> SUFFICES ASSUME NEW q \in Players \ tangled'
             PROVE  AvatarFor(q)'
  BY DEF AvatarsInv
<1>1. CASE q = p
  <2>1. ~HalfOf(p)'
    BY <1>1 DEF HalfOf
  <2> QED
    BY <1>1, <2>1, AvatarOne
<1>2. CASE q # p
  <2>1. NoOpening /\ q \in Players \ tangled
    BY DEF NoOpening
  <2>2. Still(q)
    BY <1>2 DEF Still, HalfOf
  <2>3. CallsStill(q)
    <3> SUFFICES ASSUME NEW u \in Threads
                 PROVE  /\ About(u, q)' <=> About(u, q)
                        /\ About(u, q) => th'[u] = th[u]
      BY DEF CallsStill
    <3>1. CASE u = t
      BY <1>2, <3>1 DEF About, Sets
    <3>2. CASE u # t
      BY <3>2 DEF About, Sets
    <3> QED
      BY <3>1, <3>2
  <2> QED
    BY <2>1, <2>2, <2>3, AvatarStill
<1> QED
  BY <1>1, <1>2

\* The player a call is about, and the avatar of that player.
Calls(t, p) ==
  /\ p \in Players /\ owner[th[t].session] = p
  /\ th[t].pc # "find" => th[t].player = p
  /\ p \notin tangled =>
       /\ \A u \in Threads \ {t} : ~About(u, p)
       /\ CallAgree(th[t], p) /\ CallRoom(th[t], p)
       /\ ~HalfOf(p) /\ (p \notin inRoom => ~ToTell(p))
       /\ p \in inRoom /\ ~Setting(th[t]) => Told(p)

LEMMA AvatarCaller ==
  ASSUME Ground, NEW t \in Threads, th[t].pc # "idle"
  PROVE  \E p : Calls(t, p)
<1>1. PICK p \in Players :
        /\ owner[th[t].session] = p /\ th[t].session \in Sessions
        /\ th[t].pc # "find" => /\ th[t].player = p
                                /\ th[t].id # Nil => th[t].id \in Sessions /\ owner[th[t].id] = p
        /\ p \notin tangled => /\ \A u \in Threads \ {t} : ~About(u, p)
                               /\ CallAgree(th[t], p)
                               /\ th[t].pc \notin Between => Agree(p)
  BY Caller DEF Ground
<1>2. About(t, p)
  BY <1>1 DEF About
<1>3. ASSUME p \notin tangled
      PROVE  /\ CallRoom(th[t], p) /\ ~HalfOf(p) /\ (p \notin inRoom => ~ToTell(p))
             /\ p \in inRoom /\ ~Setting(th[t]) => Told(p)
  <2>1. AvatarFor(p) /\ \A u \in Threads : About(u, p) => u = t
    BY <1>1, <1>3, GroundFacts
  <2> QED
    BY <1>2, <2>1 DEF AvatarFor
<1> QED
  BY <1>1, <1>3 DEF Calls

\* A step that writes nothing the room or the session depends on.
LEMMA AvatarPasses ==
  ASSUME Ground, NEW t \in Threads, NEW p, NEW c \in Call, th[t].pc # "idle", Calls(t, p),
         Sets(t, c), c.pc = "idle" \/ c.session = th[t].session,
         UNCHANGED <<net, owner, session, avatar, inRoom, inner, half>>,
         tangled \subseteq tangled',
         p \notin tangled => /\ c.pc # "idle" => CallRoom(c, p)
                             /\ p \in inRoom /\ ~Setting(c) => ~Setting(th[t])
  PROVE  AvatarsInv'
<1>1. /\ p \in Players /\ owner[th[t].session] = p
      /\ c.pc = "idle" \/ owner[c.session] = p
  BY DEF Calls
<1>2. \A q : (ToTell(q)' <=> ToTell(q)) /\ (DisconnectLast(q)' <=> DisconnectLast(q))
  BY DEF ToTell, DisconnectLast
<1>3. ASSUME p \notin tangled'
      PROVE  /\ \A u \in Threads \ {t} : ~About(u, p)
             /\ ~HalfOf(p) /\ (p \notin inRoom => ~ToTell(p)')
             /\ c.pc # "idle" => CallRoom(c, p)'
             /\ p \in inRoom /\ ~Setting(c) => Told(p)'
  <2>1. p \notin tangled
    BY <1>3
  <2>2. /\ \A u \in Threads \ {t} : ~About(u, p)
        /\ ~HalfOf(p) /\ (p \notin inRoom => ~ToTell(p)')
        /\ p \in inRoom /\ ~Setting(c) => Told(p)
    BY <1>2, <2>1 DEF Calls
  <2>3. c.pc # "idle" => CallRoom(c, p)'
    BY <2>1 DEF CallRoom
  <2>4. Told(p) => Told(p)'
    BY <1>2 DEF Told, Same, Open
  <2> QED
    BY <2>2, <2>3, <2>4
<1> QED
  BY <1>1, <1>2, <1>3, AvatarStep

LEMMA AvatarGoesOn ==
  ASSUME Ground, NEW t \in Threads, NEW p, NEW pc \in ConnectPcs \cup DisconnectPcs,
         th[t].pc # "idle", Calls(t, p), Goto(t, th[t], pc),
         UNCHANGED <<net, owner, session, avatar, inRoom, inner, half>>,
         tangled \subseteq tangled',
         p \notin tangled =>
           \A c \in Call : Follows(th[t], c, pc) =>
             /\ CallRoom(c, p)
             /\ p \in inRoom /\ ~Setting(c) => ~Setting(th[t])
  PROVE  AvatarsInv'
<1>1. SessionInv /\ th[t] \in Call
  BY CallFacts DEF Ground
<1>2. PICK d \in Call : Sets(t, d) /\ Follows(th[t], d, pc)
  BY <1>1, GotoSets
<1>3. d.session = th[t].session
  BY <1>2 DEF Follows
<1> QED
  BY <1>2, <1>3, AvatarPasses

LEMMA AvatarFinishes ==
  ASSUME Ground, NEW t \in Threads, NEW p, th[t].pc # "idle", Calls(t, p), Done(t),
         UNCHANGED <<net, owner, session, avatar, inRoom, inner, half>>,
         tangled \subseteq tangled',
         p \notin tangled /\ p \in inRoom => ~Setting(th[t])
  PROVE  AvatarsInv'
<1>1. Sets(t, Idle) /\ Idle \in Call /\ Idle.pc = "idle"
  BY IdleCall, SetCall DEF Done, Ground, SessionInv
<1> QED
  BY <1>1, AvatarPasses


\* The steps of a call before it sets the session, and after.
LEMMA AvatarPlain ==
  ASSUME Ground, NEW t \in Threads,
         Preprocess(t) \/ GetPlayer(t) \/ GetOld(t) \/ Unlink(t) \/ Link(t) \/ RemoveSessionId(t)
           \/ AddOfflinePlayer(t)
  PROVE  AvatarsInv'
<1>1. /\ th[t].pc # "idle" /\ tangled \subseteq tangled'
      /\ UNCHANGED <<net, owner, session, avatar, inRoom, inner, half>>
  BY DEF Preprocess, GetPlayer, GetOld, Unlink, Link, RemoveSessionId, AddOfflinePlayer,
         manager, room
<1>2. PICK p : Calls(t, p)
  BY <1>1, AvatarCaller
<1>3. th[t] \in Call /\ CallOf(th[t]) /\ SessionInv
  BY CallFacts DEF Ground
<1>4. CASE Preprocess(t)
  <2>1. th[t].pc = "load" /\ ~Setting(th[t])
    BY <1>4 DEF Preprocess, Setting
  <2>2. Done(t) \/ Goto(t, th[t], "get") \/ Goto(t, th[t], "add")
    BY <1>4 DEF Preprocess
  <2>3. \A c \in Call : Follows(th[t], c, "get") \/ Follows(th[t], c, "add") => CallRoom(c, p)
    BY DEF Follows, CallRoom
  <2> QED
    BY <1>1, <1>2, <2>1, <2>2, <2>3, AvatarGoesOn, AvatarFinishes DEF ConnectPcs
<1>5. CASE GetPlayer(t)
  <2>1. th[t].pc = "get" /\ ~Setting(th[t])
    BY <1>5 DEF GetPlayer, Setting
  <2>2. Done(t) \/ Goto(t, [th[t] EXCEPT !.held = TRUE], "old")
    BY <1>5 DEF GetPlayer
  <2>3. CASE Done(t)
    BY <1>1, <1>2, <2>1, <2>3, AvatarFinishes
  <2>4. CASE Goto(t, [th[t] EXCEPT !.held = TRUE], "old")
    <3> DEFINE b == [th[t] EXCEPT !.held = TRUE]
    <3>1. b \in Call /\ b.session = th[t].session
      BY <1>3 DEF Call
    <3> HIDE DEF b
    <3>2. PICK d \in Call : Sets(t, d) /\ Follows(b, d, "old")
      BY <1>3, <2>4, <3>1, GotoSets DEF b, ConnectPcs
    <3>3. d.session = th[t].session /\ CallRoom(d, p)
      BY <3>1, <3>2 DEF Follows, CallRoom
    <3> QED
      BY <1>1, <1>2, <2>1, <3>2, <3>3, AvatarPasses
  <2> QED
    BY <2>2, <2>3, <2>4
<1>6. CASE GetOld(t)
  <2>1. th[t].pc = "old" /\ ~Setting(th[t])
    BY <1>6 DEF GetOld, Setting
  <2>3. \E i \in Ids : Goto(t, [th[t] EXCEPT !.id = i], "unlink") \/ Goto(t, th[t], "set")
    <3>1. th[t].player \in Players /\ session \in [Players -> Ids]
      BY <1>3, <2>1 DEF CallOf, SessionInv, TypeOK
    <3>2. GetSession(th[t].player) \in Ids /\ Nil \in Ids
      BY <3>1 DEF GetSession, Ids
    <3>3. PICK o \in Ids : o = GetSession(th[t].player)
      BY <3>2
    <3>4. PICK i \in Ids : i = IF net[o] = "gone" THEN Nil ELSE o
      BY <3>2
    <3> QED
      BY <1>6, <3>3, <3>4 DEF GetOld
  <2>4. PICK i \in Ids : Goto(t, [th[t] EXCEPT !.id = i], "unlink") \/ Goto(t, th[t], "set")
    BY <2>3
  <2>5. CASE Goto(t, th[t], "set")
    <3>1. \A c \in Call : Follows(th[t], c, "set") => CallRoom(c, p)
      BY DEF Follows, CallRoom
    <3> QED
      BY <1>1, <1>2, <2>1, <2>5, <3>1, AvatarGoesOn DEF ConnectPcs
  <2>6. CASE Goto(t, [th[t] EXCEPT !.id = i], "unlink")
    <3> DEFINE b == [th[t] EXCEPT !.id = i]
    <3>1. b \in Call /\ b.session = th[t].session
      BY <1>3 DEF Call
    <3> HIDE DEF b
    <3>2. PICK d \in Call : Sets(t, d) /\ Follows(b, d, "unlink")
      BY <1>3, <2>6, <3>1, GotoSets DEF b, ConnectPcs
    <3>3. d.session = th[t].session /\ CallRoom(d, p)
      BY <3>1, <3>2 DEF Follows, CallRoom
    <3> QED
      BY <1>1, <1>2, <2>1, <3>2, <3>3, AvatarPasses
  <2> QED
    BY <2>4, <2>5, <2>6
<1>7. CASE Unlink(t)
  <2>1. th[t].pc = "unlink" /\ ~Setting(th[t]) /\ Goto(t, th[t], "set")
    BY <1>7 DEF Unlink, Setting
  <2>2. \A c \in Call : Follows(th[t], c, "set") => CallRoom(c, p)
    BY DEF Follows, CallRoom
  <2> QED
    BY <1>1, <1>2, <2>1, <2>2, AvatarGoesOn DEF ConnectPcs
<1>8. CASE Link(t)
  <2>1. th[t].pc = "link" /\ th[t].kind = "connect" /\ Goto(t, th[t], "venue")
    BY <1>3, <1>8 DEF Link, CallOf, Call, DisconnectPcs
  <2>2. \A c \in Call : Follows(th[t], c, "venue") => CallRoom(c, p) /\ Setting(c)
    BY <2>1 DEF Follows, CallRoom, Setting
  <2> QED
    BY <1>1, <1>2, <2>1, <2>2, AvatarGoesOn DEF ConnectPcs
<1>9. CASE RemoveSessionId(t)
  <2>1. th[t].pc = "remove" /\ ~Setting(th[t]) /\ Goto(t, th[t], "off")
    BY <1>9 DEF RemoveSessionId, Setting
  <2>2. p \notin tangled => \A c \in Call : Follows(th[t], c, "off") => CallRoom(c, p)
    BY <1>2, <2>1 DEF Follows, CallRoom, Calls
  <2> QED
    BY <1>1, <1>2, <2>1, <2>2, AvatarGoesOn DEF DisconnectPcs
<1>10. CASE AddOfflinePlayer(t)
  <2>1. th[t].pc = "list" /\ th[t].kind = "disconnect" /\ Goto(t, th[t], "venue")
    BY <1>3, <1>10 DEF AddOfflinePlayer, CallOf, Call, ConnectPcs
  <2>2. p \notin tangled =>
          \A c \in Call : Follows(th[t], c, "venue") => CallRoom(c, p) /\ Setting(c)
    BY <1>2, <2>1 DEF Follows, CallRoom, Setting, Calls
  <2> QED
    BY <1>1, <1>2, <2>1, <2>2, AvatarGoesOn DEF ConnectPcs
<1> QED
  BY <1>4, <1>5, <1>6, <1>7, <1>8, <1>9, <1>10

LEMMA AvatarFind ==
  ASSUME Ground, NEW t \in Threads, Find(t)
  PROVE  AvatarsInv'
<1>1. /\ th[t].pc = "find" /\ tangled \subseteq tangled' /\ ~Setting(th[t])
      /\ UNCHANGED <<net, owner, session, avatar, inRoom, inner, half>>
  BY DEF Find, manager, room, Setting
<1>2. PICK p : Calls(t, p)
  BY <1>1, AvatarCaller
<1>3. th[t] \in Call /\ SessionInv /\ players \subseteq Players
  BY CallFacts DEF Ground, SessionInv, TypeOK
<1>4. CASE sessionMap[th[t].session] \notin players
  BY <1>1, <1>2, <1>4, AvatarFinishes DEF Find
<1>5. CASE sessionMap[th[t].session] \in players
  <2> DEFINE b == [th[t] EXCEPT !.player = sessionMap[th[t].session], !.held = TRUE]
  <2>1. b \in Call /\ b.session = th[t].session /\ b.held
    BY <1>3, <1>5 DEF Call
  <2>2. Goto(t, b, "remove")
    BY <1>5 DEF Find
  <2> HIDE DEF b
  <2>3. PICK d \in Call : Sets(t, d) /\ Follows(b, d, "remove")
    BY <1>3, <2>1, <2>2, GotoSets DEF DisconnectPcs
  <2>4. d.session = th[t].session /\ CallRoom(d, p)
    BY <2>1, <2>3 DEF Follows, CallRoom
  <2> QED
    BY <1>1, <1>2, <2>3, <2>4, AvatarPasses
<1> QED
  BY <1>4, <1>5

\* A call that is over leaves the room to be told, or had nothing to tell: an avatar
\* belongs to a player who is in the venue and whose object the call holds.
LEMMA AvatarGetVenueId ==
  ASSUME Ground, NEW t \in Threads, GetVenueId(t)
  PROVE  AvatarsInv'
<1>1. /\ th[t].pc = "venue" /\ tangled \subseteq tangled'
      /\ UNCHANGED <<net, owner, session, avatar, inRoom, inner, half>>
  BY DEF GetVenueId, manager, room
<1>2. PICK p : Calls(t, p)
  BY <1>1, AvatarCaller
<1>3. /\ th[t] \in Call /\ CallOf(th[t]) /\ CallTouched(th[t])
      /\ p \in Players /\ th[t].player = p
  BY <1>1, <1>2, CallFacts DEF Ground, Calls
<1>4. /\ venueId[p] => p \in inRoom \/ HalfOf(p)
      /\ p \in inRoom => venueId[p] \/ HalfOf(p)
  BY <1>3, GroundFacts DEF Ground, AvatarInv, VenueKnown
<1>5. CASE th[t].held /\ venueId[p]
  <2>1. Goto(t, th[t], "tell")
    BY <1>3, <1>5 DEF GetVenueId
  <2>2. ASSUME p \notin tangled, NEW c \in Call, Follows(th[t], c, "tell")
        PROVE  CallRoom(c, p) /\ Setting(c)
    <3>1. p \in inRoom /\ CallRoom(th[t], p)
      BY <1>2, <1>4, <1>5, <2>2 DEF Calls
    <3>2. c.kind = th[t].kind /\ c.pc = "tell" /\ c.held = th[t].held
          /\ th[t].kind \in {"connect", "disconnect"}
      BY <1>3, <2>2 DEF Follows, Call
    <3>3. CallRoom(c, p)
      BY <1>1, <3>1, <3>2 DEF CallRoom
    <3>4. Setting(c)
      BY <3>2 DEF Setting
    <3> QED
      BY <3>3, <3>4
  <2> QED
    BY <1>1, <1>2, <2>1, <2>2, AvatarGoesOn DEF ConnectPcs
<1>6. CASE ~(th[t].held /\ venueId[p])
  <2>1. Done(t)
    BY <1>3, <1>6 DEF GetVenueId
  <2>2. ASSUME p \notin tangled
        PROVE  p \notin inRoom
    <3>1. CallRoom(th[t], p) /\ ~HalfOf(p)
      BY <1>2, <2>2 DEF Calls
    <3>2. CASE th[t].kind = "connect"
      <4>1. th[t].held
        BY <1>1, <1>3, <3>2 DEF CallTouched, Connecting
      <4> QED
        BY <1>4, <1>6, <3>1, <4>1
    <3>3. CASE th[t].kind = "disconnect"
      <4>1. th[t].held \/ p \notin inRoom
        BY <1>1, <3>1, <3>3 DEF CallRoom
      <4> QED
        BY <1>4, <1>6, <3>1, <4>1
    <3> QED
      BY <1>3, <3>2, <3>3 DEF Call
  <2> QED
    BY <1>1, <1>2, <2>1, <2>2, AvatarFinishes
<1> QED
  BY <1>5, <1>6


\* The room will be told: of a connection last, or of a disconnection with no session left.
LEMMA AvatarTell ==
  ASSUME Ground, NEW t \in Threads, Tell(t)
  PROVE  AvatarsInv'
<1>1. /\ th[t].pc = "tell" /\ Done(t) /\ tangled \subseteq tangled'
      /\ UNCHANGED <<net, owner, session, avatar, inRoom, half>>
  BY DEF Tell, manager
<1>2. PICK p : Calls(t, p)
  BY <1>1, AvatarCaller
<1>3. th[t] \in Call /\ p \in Players /\ th[t].player = p /\ inner \in Seq(Closure)
  BY <1>1, <1>2, CallFacts, GroundFacts DEF Ground, Calls
<1> DEFINE e == [op |-> th[t].kind, player |-> p, late |-> FALSE]
<1>4. /\ e \in Closure /\ e.op = th[t].kind /\ e.player = p
      /\ e.op \in {"connect", "disconnect"} /\ inner' = Append(inner, e)
  BY <1>3 DEF Tell, Closure, Call
<1> HIDE DEF e
<1>5. /\ \A q : q # p => (ToTell(q)' <=> ToTell(q)) /\ (DisconnectLast(q)' => DisconnectLast(q))
      /\ ToTell(p)' /\ (e.op = "connect" => ~DisconnectLast(p)')
  BY <1>3, <1>4, AppendTelling
<1>6. Sets(t, Idle) /\ Idle \in Call /\ Idle.pc = "idle"
  BY <1>1, IdleCall, SetCall DEF Done, Ground, SessionInv
<1>7. ASSUME p \notin tangled
      PROVE  /\ \A u \in Threads \ {t} : ~About(u, p)
             /\ ~HalfOf(p) /\ p \in inRoom /\ Told(p)'
  <2>1. /\ CallRoom(th[t], p) /\ ~HalfOf(p) /\ \A u \in Threads \ {t} : ~About(u, p)
    BY <1>2, <1>7 DEF Calls
  <2>2. p \in inRoom /\ (th[t].kind = "disconnect" => session[p] = Nil)
    BY <1>1, <2>1 DEF CallRoom
  <2>3. th[t].kind = "disconnect" => ~Open(session[p])'
    BY <1>1, <2>2 DEF Open
  <2>4. Told(p)'
    BY <1>4, <1>5, <2>3 DEF Told
  <2> QED
    BY <2>1, <2>2, <2>4
<1> QED
  BY <1>1, <1>2, <1>3, <1>5, <1>6, <1>7, AvatarStep DEF Calls

\* The session is set, and the room not told yet.
LEMMA AvatarSets ==
  ASSUME Ground, NEW t \in Threads, SetSession(t) \/ SetOffline(t)
  PROVE  AvatarsInv'
<1>1. /\ th[t].pc \in {"set", "off"} /\ tangled \subseteq tangled'
      /\ UNCHANGED <<net, owner, avatar, inRoom, inner, half>>
      /\ \E s : session' = [session EXCEPT ![th[t].player] = s] \/ session' = session
  BY DEF SetSession, SetOffline, room
<1>2. PICK p : Calls(t, p)
  BY <1>1, AvatarCaller
<1>3. /\ th[t] \in Call /\ CallOf(th[t]) /\ p \in Players /\ th[t].player = p
      /\ session \in [Players -> Ids] /\ SessionInv
  BY <1>1, <1>2, CallFacts, GroundFacts DEF Ground, Calls
<1>4. \A q : (ToTell(q)' <=> ToTell(q)) /\ (DisconnectLast(q)' <=> DisconnectLast(q))
  BY <1>1 DEF ToTell, DisconnectLast
<1>5. \A q \in Players \ {p} : session'[q] = session[q]
  BY <1>1, <1>3
<1>6. \E d \in Call : /\ Sets(t, d) /\ d.session = th[t].session /\ Setting(d)
                      /\ p \notin tangled => CallRoom(d, p)'
  <2>1. CASE SetSession(t)
    <3>1. th[t].pc = "set" /\ th[t].kind = "connect"
      BY <1>3, <2>1 DEF SetSession, CallOf, Call, DisconnectPcs
    <3>2. PICK b \in Call : /\ b.session = th[t].session /\ b.kind = "connect"
                            /\ Goto(t, b, "link")
      <4> DEFINE b1 == [th[t] EXCEPT !.id = th[t].session]
      <4>1. b1 \in Call /\ b1.session = th[t].session /\ b1.kind = "connect"
        BY <1>3, <3>1 DEF Call
      <4>2. Goto(t, b1, "link") \/ Goto(t, th[t], "link")
        BY <2>1 DEF SetSession
      <4> HIDE DEF b1
      <4> QED
        BY <1>3, <3>1, <4>1, <4>2
    <3>3. PICK d \in Call : Sets(t, d) /\ Follows(b, d, "link")
      BY <1>3, <3>2, GotoSets DEF ConnectPcs
    <3>4. d.session = th[t].session /\ d.kind = "connect" /\ d.pc = "link"
      BY <3>2, <3>3 DEF Follows
    <3> QED
      BY <3>3, <3>4 DEF Setting, CallRoom
  <2>2. CASE SetOffline(t)
    <3>1. th[t].pc = "off" /\ th[t].kind = "disconnect" /\ Goto(t, th[t], "list")
      BY <1>3, <2>2 DEF SetOffline, CallOf, Call, ConnectPcs
    <3>2. PICK d \in Call : Sets(t, d) /\ Follows(th[t], d, "list")
      BY <1>3, <3>1, GotoSets DEF DisconnectPcs
    <3>3. /\ d.session = th[t].session /\ d.kind = "disconnect" /\ d.pc = "list"
          /\ d.held = th[t].held
      BY <3>1, <3>2 DEF Follows
    <3>4. session' = IF th[t].held THEN [session EXCEPT ![p] = Nil] ELSE session
      BY <1>3, <2>2 DEF SetOffline
    <3>5. ASSUME p \notin tangled
          PROVE  CallRoom(d, p)'
      <4>1. CallAgree(th[t], p) /\ CallRoom(th[t], p)
        BY <1>2, <3>5 DEF Calls
      <4>2. (th[t].held \/ session[p] = Nil) /\ (th[t].held \/ p \notin inRoom)
        BY <3>1, <4>1 DEF CallAgree, CallRoom
      <4>3. session'[p] = Nil
        BY <1>3, <3>4, <4>2
      <4> QED
        BY <1>1, <3>3, <4>2, <4>3 DEF CallRoom
    <3> QED
      BY <3>2, <3>3, <3>5 DEF Setting
  <2> QED
    BY <2>1, <2>2
<1>7. PICK d \in Call : /\ Sets(t, d) /\ d.session = th[t].session /\ Setting(d)
                        /\ p \notin tangled => CallRoom(d, p)'
  BY <1>6
<1>8. p \notin tangled => /\ \A u \in Threads \ {t} : ~About(u, p)
                          /\ ~HalfOf(p) /\ (p \notin inRoom => ~ToTell(p)')
  BY <1>2, <1>4 DEF Calls
<1>9. owner[th[t].session] = p
  BY <1>2 DEF Calls
<1> QED
  BY <1>1, <1>3, <1>4, <1>5, <1>7, <1>8, <1>9, AvatarStep

\* A player is loaded: a new one has no avatar.
LEMMA LoadsAvatar ==
  ASSUME Ground, NEW p \in Players, Loads(p)
  PROVE  /\ \A q \in Players \ {p} : session'[q] = session[q]
         /\ session'[p] = session[p] \/ (session'[p] = Nil /\ p \notin inRoom)
<1>1. session \in [Players -> Ids] /\ \A q \in inRoom : q \in players
  BY GroundFacts
<1>2. CASE p \in players
  BY <1>2 DEF Loads
<1>3. CASE p \notin players
  <2>1. session' = [session EXCEPT ![p] = Nil]
    BY <1>3 DEF Loads, NewPlayer
  <2> QED
    BY <1>1, <1>3, <2>1
<1> QED
  BY <1>2, <1>3

LEMMA AvatarAdd ==
  ASSUME Ground, NEW t \in Threads, AddPlayer(t)
  PROVE  AvatarsInv'
<1>1. /\ th[t].pc = "add" /\ tangled \subseteq tangled' /\ ~Setting(th[t])
      /\ UNCHANGED <<net, owner, avatar, inRoom, inner, half>>
  BY DEF AddPlayer, room, Setting
<1>2. PICK p : Calls(t, p)
  BY <1>1, AvatarCaller
<1>3. /\ th[t] \in Call /\ p \in Players /\ th[t].player = p /\ SessionInv
      /\ owner[th[t].session] = p
  BY <1>1, <1>2, CallFacts DEF Ground, Calls
<1>4. Loads(p) /\ (Goto(t, th[t], "get") \/ Done(t))
  BY <1>3 DEF AddPlayer, Loads
<1>5. /\ \A q \in Players \ {p} : session'[q] = session[q]
      /\ session'[p] = session[p] \/ (session'[p] = Nil /\ p \notin inRoom)
  BY <1>3, <1>4, LoadsAvatar
<1>6. \E d \in Call : /\ Sets(t, d) /\ d.pc \in {"idle", "get"}
                      /\ d.pc = "idle" \/ owner[d.session] = p
  <2>1. CASE Goto(t, th[t], "get")
    <3>1. PICK d \in Call : Sets(t, d) /\ Follows(th[t], d, "get")
      BY <1>3, <2>1, GotoSets DEF ConnectPcs
    <3> QED
      BY <1>3, <3>1 DEF Follows
  <2>2. CASE Done(t)
    BY <1>3, <2>2, IdleCall, SetCall DEF Done, SessionInv
  <2> QED
    BY <1>4, <2>1, <2>2
<1>7. PICK d \in Call : /\ Sets(t, d) /\ d.pc \in {"idle", "get"}
                        /\ d.pc = "idle" \/ owner[d.session] = p
  BY <1>6
<1>8. \A q : (ToTell(q)' <=> ToTell(q)) /\ (DisconnectLast(q)' <=> DisconnectLast(q))
  BY <1>1 DEF ToTell, DisconnectLast
<1>9. ASSUME p \notin tangled
      PROVE  /\ \A u \in Threads \ {t} : ~About(u, p)
             /\ ~HalfOf(p) /\ (p \notin inRoom => ~ToTell(p)')
             /\ CallRoom(d, p)' /\ (p \in inRoom => Told(p)')
  <2>1. /\ \A u \in Threads \ {t} : ~About(u, p)
        /\ ~HalfOf(p) /\ (p \notin inRoom => ~ToTell(p)') /\ (p \in inRoom => Told(p))
    BY <1>1, <1>2, <1>8, <1>9 DEF Calls
  <2>2. CallRoom(d, p)'
    BY <1>7 DEF CallRoom
  <2>3. p \in inRoom => Told(p)'
    BY <1>1, <1>5, <1>8, <2>1 DEF Told, Same, Open
  <2> QED
    BY <2>1, <2>2, <2>3
<1> QED
  BY <1>1, <1>3, <1>5, <1>7, <1>8, <1>9, AvatarStep

LEMMA AvatarPop ==
  ASSUME Ground, NEW t \in Threads, Pop(t)
  PROVE  AvatarsInv'
<1>0. SessionInv /\ OwnerInv
  BY DEF Ground
<1>1. PICK m : m = Head(queue)
  OBVIOUS
<1>2. PICK p : p = owner[m.session]
  OBVIOUS
<1>3. m \in Message /\ p \in Players
  <2>1. /\ queue \in Seq(Message) /\ queue # <<>>
        /\ owner \in [Sessions -> Players \cup {Nil}]
    BY <1>0 DEF Pop, SessionInv, TypeOK
  <2>2. Head(queue) \in Message /\ Head(queue) = queue[1] /\ 1 \in DOMAIN queue
    BY <2>1
  <2>3. m.session \in Sessions
    BY <1>1, <2>2 DEF Message
  <2> QED
    BY <1>0, <1>1, <1>2, <2>1, <2>2, <2>3 DEF SessionInv, QueueInv
<1>4. PICK b : b = [Idle EXCEPT !.kind = m.kind, !.session = m.session,
                                !.player = IF m.kind = "connect" THEN p ELSE Nil]
  OBVIOUS
<1>5. PICK pc : pc = IF m.kind = "connect" THEN "load" ELSE "find"
  OBVIOUS
<1>6. /\ th[t].pc = "idle" /\ Goto(t, b, pc)
      /\ tangled' = IF Working(p) THEN tangled \cup {p} ELSE tangled
      /\ UNCHANGED <<net, owner, session, avatar, inRoom, inner, half>>
  BY <1>1, <1>2, <1>4, <1>5 DEF Pop, manager, room
<1>7. b \in Call /\ b.session = m.session
  BY <1>3, <1>4, IdleCall DEF Call, Message, Idle, Ids
<1>8. PICK d \in Call : Sets(t, d) /\ Follows(b, d, pc)
  BY <1>0, <1>5, <1>6, <1>7, GotoSets DEF ConnectPcs, DisconnectPcs
<1>9. d.pc \in {"load", "find"} /\ d.session = m.session /\ tangled \subseteq tangled'
  BY <1>5, <1>6, <1>7, <1>8 DEF Follows
<1>10. \A q : (ToTell(q)' <=> ToTell(q)) /\ (DisconnectLast(q)' <=> DisconnectLast(q))
  BY <1>6 DEF ToTell, DisconnectLast
<1>11. ASSUME p \notin tangled'
       PROVE  /\ \A u \in Threads \ {t} : ~About(u, p)
              /\ ~HalfOf(p) /\ (p \notin inRoom => ~ToTell(p)')
              /\ CallRoom(d, p)' /\ (p \in inRoom => Told(p)')
  <2>1. p \notin tangled /\ ~HalfOf(p) /\ \A u \in Threads : ~About(u, p)
    BY <1>6, <1>11 DEF Working, About, HalfOf
  <2>2. AvatarFor(p)
    BY <1>3, <2>1, GroundFacts
  <2>3. (p \notin inRoom => ~ToTell(p)') /\ (p \in inRoom => Told(p))
    BY <1>10, <2>1, <2>2 DEF AvatarFor
  <2>4. Told(p) => Told(p)'
    BY <1>6, <1>10 DEF Told, Same, Open
  <2>5. CallRoom(d, p)'
    BY <1>9 DEF CallRoom
  <2> QED
    BY <2>1, <2>3, <2>4, <2>5
<1> QED
  BY <1>2, <1>3, <1>6, <1>8, <1>9, <1>10, <1>11, AvatarStep


-----------------------------------------------------------------------------
(* The avatars: the network, the inner thread and the timer *)

OwnersStay == \A s \in Sessions : owner[s] # Nil => owner'[s] = owner[s]

\* The calls are as they were.
LEMMA CallsSameStill ==
  ASSUME Ground, th' = th, OwnersStay
  PROVE  /\ \A t \in Threads, q \in Players : About(t, q)' <=> About(t, q)
         /\ \A q \in Players : CallsStill(q)
<1>1. ASSUME NEW t \in Threads, NEW q \in Players
      PROVE  About(t, q)' <=> About(t, q)
  <2>1. th[t].pc # "idle" => th[t].session \in Sessions /\ owner[th[t].session] # Nil
    BY DEF Ground, SessionInv, CallInv, CallOf, OwnerInv, CallOwner
  <2> QED
    BY <2>1 DEF About, OwnersStay
<1> QED
  BY <1>1 DEF CallsStill

LEMMA AvatarElse ==
  ASSUME Ground, th' = th, OwnersStay, NoOpening, tangled \subseteq tangled',
         \A q \in Players \ tangled' : Still(q) \/ AvatarFor(q)'
  PROVE  AvatarsInv'
<1> SUFFICES ASSUME NEW q \in Players \ tangled', Still(q)
             PROVE  AvatarFor(q)'
  BY DEF AvatarsInv
<1> QED
  BY CallsSameStill, AvatarStill

LEMMA AvatarNetwork ==
  ASSUME Ground, NEW s \in Sessions,
         (\E p \in Players : Connect(s, p)) \/ OnDisconnect(s) \/ CheckConnection(s)
  PROVE  AvatarsInv'
<1>1. /\ net \in [Sessions -> {"new", "open", "closed", "gone"}]
      /\ owner \in [Sessions -> Players \cup {Nil}]
      /\ \A r \in Sessions : owner[r] = Nil <=> net[r] = "new"
  BY DEF Ground, SessionInv, TypeOK, QueueInv
<1>2. UNCHANGED <<th, session, avatar, inRoom, inner, half, tangled>>
  BY DEF Connect, OnDisconnect, CheckConnection, manager, room
<1>3. OwnersStay /\ NoOpening
  <2>1. ASSUME NEW p \in Players, Connect(s, p)
        PROVE  OwnersStay /\ NoOpening
    <3>1. net[s] = "new" /\ net' = [net EXCEPT ![s] = "open"] /\ owner' = [owner EXCEPT ![s] = p]
      BY <2>1 DEF Connect
    <3> QED
      BY <1>1, <3>1 DEF OwnersStay, NoOpening
  <2>2. CASE OnDisconnect(s) \/ CheckConnection(s)
    <3>1. /\ owner' = owner
          /\ net' = [net EXCEPT ![s] = "closed"] \/ net' = [net EXCEPT ![s] = "gone"]
      BY <2>2 DEF OnDisconnect, CheckConnection
    <3> QED
      BY <1>1, <3>1 DEF OwnersStay, NoOpening
  <2> QED
    BY <2>1, <2>2
<1>4. \A q \in Players : Still(q)
  BY <1>2 DEF Still, HalfOf, ToTell, DisconnectLast
<1> QED
  BY <1>2, <1>3, <1>4, AvatarElse

LEMMA AvatarRequest ==
  ASSUME Ground, NEW s \in Sessions, RequestEnter(s)
  PROVE  AvatarsInv'
<1>1. PICK p : p = owner[s]
  OBVIOUS
<1>2. /\ net[s] = "open" /\ Loads(p)
      /\ UNCHANGED <<net, owner, th, avatar, inRoom, half, tangled>>
  BY <1>1 DEF RequestEnter, Loads
<1>3. p \in Players /\ inner \in Seq(Closure)
  BY <1>1, <1>2 DEF Ground, SessionInv, TypeOK, QueueInv
<1> DEFINE e == [op |-> "enter", player |-> p, late |-> FALSE]
<1>4. e \in Closure /\ e.op = "enter" /\ inner' = Append(inner, e)
  BY <1>1, <1>3 DEF RequestEnter, Closure
<1> HIDE DEF e
<1>5. \A q : (ToTell(q)' <=> ToTell(q)) /\ (DisconnectLast(q)' => DisconnectLast(q))
  BY <1>3, <1>4, AppendTelling
<1>6. \A q \in Players : session'[q] = session[q] \/ (session'[q] = Nil /\ q \notin inRoom)
  BY <1>2, <1>3, LoadsAvatar
<1>7. \A q \in Players : Still(q)
  BY <1>2, <1>5, <1>6 DEF Still, HalfOf
<1>8. OwnersStay /\ NoOpening
  BY <1>2 DEF OwnersStay, NoOpening
<1> QED
  BY <1>2, <1>7, <1>8, AvatarElse

\* getSession gives the session if it is open.
LEMMA GetSessionSame ==
  ASSUME Ground, NEW p \in Players
  PROVE  /\ GetSession(p) \in {session[p], Nil}
         /\ avatar'[p] = GetSession(p) /\ UNCHANGED <<net, session>> => Same(p)'
<1>1. GetSession(p) \in {session[p], Nil} /\ (Open(session[p]) => GetSession(p) = session[p])
  BY DEF GetSession, Alive, Open
<1>2. ASSUME avatar'[p] = GetSession(p), UNCHANGED <<net, session>>
      PROVE  Same(p)'
  <2>1. Open(session[p])' => Open(session[p])
    BY <1>2 DEF Open
  <2>2. Open(avatar[p])' => avatar'[p] # Nil
    BY DEF Open
  <2> QED
    BY <1>1, <1>2, <2>1, <2>2 DEF Same
<1> QED
  BY <1>1, <1>2

\* The room is told: of a disconnection last only if the player has no open session.
LEMMA AvatarNotify ==
  ASSUME Ground, Notify
  PROVE  AvatarsInv'
<1>1. /\ inner # <<>> /\ half = Nil /\ inner' = Tail(inner)
      /\ UNCHANGED <<net, owner, th, session, inRoom, half, tangled>>
      /\ inner \in Seq(Closure) /\ avatar \in [Players -> Ids]
  BY GroundFacts DEF Notify
<1>2. PICK c : c = Head(inner)
  OBVIOUS
<1>3. PICK p : p = c.player
  OBVIOUS
<1>4. \/ c.op = "connect" /\ RoomOnConnect(p)
      \/ c.op = "disconnect" /\ RoomOnDisconnect(p)
  BY <1>2, <1>3 DEF Notify
<1>5. /\ \A q : q # p => (ToTell(q)' <=> ToTell(q))
      /\ \A q : DisconnectLast(q)' => DisconnectLast(q)
      /\ c \in Closure /\ ToTell(p)
      /\ c.op = "disconnect" /\ ~ToTell(p)' => DisconnectLast(p)
  BY <1>1, <1>2, <1>3, <1>4, TailTelling
<1>6. p \in Players
  BY <1>3, <1>5 DEF Closure
<1>7. /\ \A q \in Players \ {p} : avatar'[q] = avatar[q]
      /\ c.op = "disconnect" => avatar'[p] = Nil
  BY <1>1, <1>4, <1>6 DEF RoomOnConnect, RoomOnDisconnect
<1>8. \A q \in Players \ {p} : Still(q)
  BY <1>1, <1>5, <1>7 DEF Still, HalfOf
<1>9. OwnersStay /\ NoOpening
  BY <1>1 DEF OwnersStay, NoOpening
<1>10. ASSUME p \notin tangled
       PROVE  AvatarFor(p)'
  <2>1. AvatarFor(p) /\ p \in inRoom /\ p \in players
    BY <1>5, <1>6, <1>10, GroundFacts DEF AvatarFor
  <2>2. c.op = "connect" => avatar'[p] = GetSession(p)
    BY <1>1, <1>4, <1>6, <2>1 DEF RoomOnConnect
  <2>3. \A t \in Threads : About(t, p)' <=> About(t, p)
    BY <1>1, <1>6, <1>9, CallsSameStill
  <2>4. ASSUME NEW t \in Threads, About(t, p)'
        PROVE  CallRoom(th[t], p)'
    <3>1. CallRoom(th[t], p)
      BY <2>1, <2>3, <2>4 DEF AvatarFor
    <3> QED
      BY <1>1, <3>1 DEF CallRoom
  <2>5. ASSUME \A t \in Threads : About(t, p)' => ~Setting(th[t])'
        PROVE  Told(p)'
    <3>1. \A t \in Threads : About(t, p) => ~Setting(th[t])
      BY <1>1, <2>3, <2>5 DEF Setting
    <3>2. Told(p)
      BY <2>1, <3>1 DEF AvatarFor
    <3>3. DisconnectLast(p) => ~Open(session[p])'
      BY <1>1, <3>2 DEF Told, Open
    <3>4. c.op = "connect" => Same(p)'
      BY <1>1, <1>6, <2>2, GetSessionSame
    <3>5. c.op = "disconnect" /\ ~ToTell(p)' => Same(p)'
      BY <1>5, <1>7, <3>3 DEF Same, Open
    <3> QED
      BY <1>4, <1>5, <3>3, <3>4, <3>5 DEF Told
  <2>6. ~HalfOf(p)'
    BY <1>1 DEF HalfOf
  <2> QED
    BY <1>1, <2>1, <2>4, <2>5, <2>6 DEF AvatarFor
<1> QED
  BY <1>1, <1>6, <1>8, <1>9, <1>10, AvatarElse

\* A player who enters has nothing left to be told about, and gets the session.
LEMMA AvatarJoin ==
  ASSUME Ground, JoinGame
  PROVE  AvatarsInv'
<1>1. /\ inner # <<>> /\ half = Nil /\ inner' = Tail(inner)
      /\ UNCHANGED <<net, owner, th, players, session>>
      /\ inner \in Seq(Closure) /\ avatar \in [Players -> Ids] /\ inRoom \subseteq Players
  BY GroundFacts DEF JoinGame
<1>2. PICK c : c = Head(inner)
  OBVIOUS
<1>3. PICK p : p = c.player
  OBVIOUS
<1>4. /\ c.op = "enter"
      /\ \/ UNCHANGED <<avatar, inRoom, half, tangled>>
         \/ /\ p \notin inRoom /\ inRoom' = inRoom \cup {p} /\ half' = c
            /\ avatar' = [avatar EXCEPT ![p] = IF p \in players THEN GetSession(p) ELSE Nil]
            /\ tangled' = IF Working(p) THEN tangled \cup {p} ELSE tangled
  BY <1>2, <1>3 DEF JoinGame, Overlap
<1>5. /\ \A q : ToTell(q)' <=> ToTell(q)
      /\ \A q : DisconnectLast(q)' => DisconnectLast(q)
      /\ c \in Closure
  BY <1>1, <1>2, <1>4, TailTelling
<1>6. p \in Players
  BY <1>3, <1>5 DEF Closure
<1>7. OwnersStay /\ NoOpening
  BY <1>1 DEF OwnersStay, NoOpening
<1>8. CASE UNCHANGED <<avatar, inRoom, half, tangled>>
  <2>1. \A q \in Players : Still(q)
    BY <1>1, <1>5, <1>8 DEF Still, HalfOf
  <2> QED
    BY <1>1, <1>7, <1>8, <2>1, AvatarElse
<1>9. CASE /\ p \notin inRoom /\ inRoom' = inRoom \cup {p} /\ half' = c
           /\ avatar' = [avatar EXCEPT ![p] = IF p \in players THEN GetSession(p) ELSE Nil]
           /\ tangled' = IF Working(p) THEN tangled \cup {p} ELSE tangled
  <2>1. tangled \subseteq tangled' /\ \A q \in Players \ {p} : avatar'[q] = avatar[q]
    BY <1>1, <1>9
  <2>2. \A q \in Players \ {p} : Still(q)
    BY <1>1, <1>3, <1>5, <1>9, <2>1 DEF Still, HalfOf
  <2>3. ASSUME p \notin tangled'
        PROVE  AvatarFor(p)'
    <3>1. p \notin tangled /\ \A t \in Threads : ~About(t, p)
      BY <1>9, <2>3 DEF Working, About
    <3>2. AvatarFor(p) /\ ~ToTell(p)
      BY <1>6, <1>9, <3>1, GroundFacts DEF AvatarFor
    <3>3. \A t \in Threads : ~About(t, p)'
      BY <1>1, <1>6, <1>7, <3>1, CallsSameStill
    <3>4. p \in players
      BY <1>1, <1>9, GroundFacts
    <3>5. Same(p)'
      BY <1>1, <1>6, <1>9, <3>4, GetSessionSame
    <3>6. ~DisconnectLast(p)'
      BY <1>5, <3>2 DEF DisconnectLast, ToTell
    <3> QED
      BY <1>9, <3>3, <3>5, <3>6 DEF AvatarFor, Told
  <2> QED
    BY <1>1, <1>6, <1>7, <2>1, <2>2, <2>3, AvatarElse
<1> QED
  BY <1>4, <1>8, <1>9


LEMMA AvatarRemove ==
  ASSUME Ground, NEW p \in Players, RemoveAvatar(p)
  PROVE  AvatarsInv'
<1>1. /\ half = Nil /\ inRoom' = inRoom \ {p}
      /\ avatar' = [avatar EXCEPT ![p] = Nil]
      /\ half' = [op |-> "leave", player |-> p, late |-> FALSE]
      /\ tangled' = IF Working(p) \/ ToTell(p) THEN tangled \cup {p} ELSE tangled
      /\ UNCHANGED <<net, owner, th, session, inner>>
      /\ avatar \in [Players -> Ids]
  BY GroundFacts DEF RemoveAvatar, manager
<1>2. OwnersStay /\ NoOpening /\ tangled \subseteq tangled'
  BY <1>1 DEF OwnersStay, NoOpening
<1>3. \A q : (ToTell(q)' <=> ToTell(q)) /\ (DisconnectLast(q)' <=> DisconnectLast(q))
  BY <1>1 DEF ToTell, DisconnectLast
<1>4. ASSUME NEW q \in Players \ {p}
      PROVE  Still(q)
  <2>1. avatar'[q] = avatar[q] /\ half'.player # q
    BY <1>1
  <2> QED
    BY <1>1, <1>3, <2>1 DEF Still, HalfOf
<1>5. ASSUME p \notin tangled'
      PROVE  AvatarFor(p)'
  <2>1. ~ToTell(p)' /\ \A t \in Threads : ~About(t, p)
    BY <1>1, <1>3, <1>5 DEF Working, About
  <2>2. \A t \in Threads : ~About(t, p)'
    BY <1>1, <1>2, <2>1, CallsSameStill
  <2> QED
    BY <1>1, <2>1, <2>2 DEF AvatarFor
<1> QED
  BY <1>1, <1>2, <1>4, <1>5, AvatarElse

LEMMA AvatarAfterRoom ==
  ASSUME Ground, AfterRoom \/ UNCHANGED vars
  PROVE  AvatarsInv'
<1>1. /\ UNCHANGED <<net, owner, th, session, avatar, inRoom, inner, tangled>>
      /\ half' \in {half, Nil}
  BY DEF AfterRoom, vars
<1>2. \A q \in Players : Still(q)
  BY <1>1 DEF Still, HalfOf, ToTell, DisconnectLast
<1>3. OwnersStay /\ NoOpening
  BY <1>1 DEF OwnersStay, NoOpening
<1> QED
  BY <1>1, <1>2, <1>3, AvatarElse

\* Nobody with an avatar is freed.
LEMMA AvatarTimer ==
  ASSUME Ground, OnTimer
  PROVE  AvatarsInv'
<1>1. /\ th' = [t \in Threads |->
                  [th[t] EXCEPT !.late = th[t].pc # "idle",
                                !.held = @ /\ th[t].player \notin Freed]]
      /\ session' = [p \in Players |-> IF p \in Freed THEN Nil ELSE session[p]]
      /\ players' = players \ Freed /\ tangled \subseteq tangled'
      /\ inner' = [i \in DOMAIN inner |-> AgedClosure(inner[i])]
      /\ UNCHANGED <<net, owner, avatar, inRoom>>
  BY DEF OnTimer, AgedClosure
<1>2. PICK F : F = Freed
  OBVIOUS
<1>3. /\ SessionInv /\ OwnerInv /\ inner \in Seq(Closure) /\ half \in Closure \cup {Nil}
      /\ \A q \in inRoom : q \notin F
  BY <1>1, <1>2, GroundFacts DEF Ground, SessionInv, TypeOK
<1>4. ASSUME NEW t \in Threads
      PROVE  /\ th'[t].pc = th[t].pc /\ th'[t].session = th[t].session
             /\ th'[t].kind = th[t].kind /\ CallOwner(th[t])
             /\ th'[t].held = (th[t].held /\ th[t].player \notin F) /\ th[t].held \in BOOLEAN
  <2>1. th[t] \in Call /\ CallOwner(th[t]) /\ th[t].held \in BOOLEAN
    BY <1>3, CallFacts DEF OwnerInv
  <2>2. th'[t] = [th[t] EXCEPT !.late = th[t].pc # "idle",
                               !.held = th[t].held /\ th[t].player \notin F]
    BY <1>1, <1>2
  <2> QED
    BY <2>1, <2>2 DEF Call
<1>5. ASSUME NEW i \in DOMAIN inner
      PROVE  inner'[i].op = inner[i].op /\ inner'[i].player = inner[i].player
  <2>1. inner[i] \in Closure
    BY <1>3
  <2>2. inner'[i] = AgedClosure(inner[i])
    BY <1>1, Zenon
  <2> QED
    BY <2>1, <2>2 DEF Closure, AgedClosure
<1>6. DOMAIN inner' = DOMAIN inner
  BY <1>1
<1>7. \A q : (ToTell(q)' <=> ToTell(q)) /\ (DisconnectLast(q)' <=> DisconnectLast(q))
  BY <1>5, <1>6 DEF ToTell, DisconnectLast
<1>8. \A q : HalfOf(q)' => HalfOf(q)
  <2>1. CASE half = Nil
    BY <2>1 DEF OnTimer, HalfOf
  <2>2. CASE half # Nil
    <3>1. half \in Closure /\ half' = AgedClosure(half)
      BY <1>3, <2>2 DEF OnTimer, AgedClosure
    <3>2. half'.player = half.player
      BY <3>1 DEF AgedClosure, Closure
    <3> QED
      BY <2>2, <3>2 DEF HalfOf
  <2> QED
    BY <2>1, <2>2
<1>9. ASSUME NEW q \in Players
      PROVE  Still(q) /\ CallsStill(q)
  <2>1. Still(q)
    <3>1. session'[q] = IF q \in F THEN Nil ELSE session[q]
      BY <1>1, <1>2
    <3> QED
      BY <1>1, <1>3, <1>7, <1>8, <3>1 DEF Still
  <2>2. ASSUME NEW t \in Threads
        PROVE  /\ About(t, q)' <=> About(t, q)
               /\ About(t, q) =>
                    /\ th'[t].pc = th[t].pc /\ th'[t].kind = th[t].kind
                    /\ th[t].pc = "find" \/ th'[t].held = th[t].held \/ q \notin inRoom
    <3>1. About(t, q)' <=> About(t, q)
      BY <1>1, <1>4 DEF About
    <3>2. About(t, q) => th[t].pc = "find" \/ th[t].player = q
      BY <1>4 DEF About, CallOwner
    <3>3. q \in inRoom /\ th[t].player = q => th'[t].held = th[t].held
      BY <1>3, <1>4
    <3> QED
      BY <1>4, <3>1, <3>2, <3>3
  <2> QED
    BY <2>1, <2>2 DEF CallsStill
<1>10. NoOpening
  BY <1>1 DEF NoOpening
<1> QED
  BY <1>1, <1>9, <1>10, AvatarStill DEF AvatarsInv

\* An avatar gets the session of its player.
LEMMA AvatarOwnerNext ==
  ASSUME Ground, [Next]_vars
  PROVE  AvatarOwner'
<1>1. ASSUME OwnersStay, \A p \in Players : avatar'[p] \in {avatar[p], Nil, session[p]}
      PROVE  AvatarOwner'
  <2> SUFFICES ASSUME NEW p \in Players, avatar'[p] # Nil
               PROVE  owner'[avatar'[p]] = p
    BY DEF AvatarOwner
  <2>1. avatar'[p] \in Sessions /\ owner[avatar'[p]] = p /\ p # Nil
    BY <1>1, GroundFacts
  <2> QED
    BY <1>1, <2>1 DEF OwnersStay
<1>2. ASSUME owner' = owner, avatar' = avatar
      PROVE  AvatarOwner'
  BY <1>1, <1>2 DEF OwnersStay
<1>3. ASSUME NEW t \in Threads, Step(t)
      PROVE  owner' = owner /\ avatar' = avatar
  BY <1>3 DEF Step, Pop, Preprocess, AddPlayer, GetPlayer, GetOld, Unlink, SetSession, Link, Find,
              RemoveSessionId, SetOffline, AddOfflinePlayer, GetVenueId, Tell, room
<1>4. ASSUME AfterRoom \/ (\E s \in Sessions : \/ OnDisconnect(s) \/ CheckConnection(s)
                                                       \/ RequestEnter(s)) \/ UNCHANGED vars
      PROVE  owner' = owner /\ avatar' = avatar
  BY <1>4 DEF AfterRoom, OnDisconnect, CheckConnection, RequestEnter, room, vars
<1>5. ASSUME NEW s \in Sessions, NEW p \in Players, Connect(s, p)
      PROVE  AvatarOwner'
  <2>1. /\ net[s] = "new" /\ owner' = [owner EXCEPT ![s] = p] /\ avatar' = avatar
        /\ owner \in [Sessions -> Players \cup {Nil}]
        /\ \A r \in Sessions : owner[r] = Nil <=> net[r] = "new"
    BY <1>5 DEF Connect, room, Ground, SessionInv, TypeOK, QueueInv
  <2>2. OwnersStay
    BY <2>1 DEF OwnersStay
  <2> QED
    BY <1>1, <2>1, <2>2
<1>6. ASSUME Notify \/ JoinGame
      PROVE  AvatarOwner'
  <2>1. /\ owner' = owner /\ inner \in Seq(Closure) /\ inner # <<>>
        /\ avatar \in [Players -> Ids]
    BY <1>6, GroundFacts DEF Notify, JoinGame
  <2>2. PICK p \in Players : p = Head(inner).player
    <3>1. Head(inner) \in Closure
      BY <2>1
    <3> QED
      BY <3>1 DEF Closure
  <2>3. \/ avatar' = avatar \/ avatar' = [avatar EXCEPT ![p] = Nil]
        \/ avatar' = [avatar EXCEPT ![p] = GetSession(p)]
    BY <1>6, <2>2 DEF Notify, JoinGame, RoomOnConnect, RoomOnDisconnect
  <2>4. GetSession(p) \in {session[p], Nil}
    BY GetSessionSame
  <2>5. \A q \in Players : avatar'[q] \in {avatar[q], Nil, session[q]}
    BY <2>1, <2>3, <2>4
  <2> QED
    BY <1>1, <2>1, <2>5 DEF OwnersStay
<1>7. ASSUME NEW p \in Players, RemoveAvatar(p)
      PROVE  AvatarOwner'
  <2>1. owner' = owner /\ avatar' = [avatar EXCEPT ![p] = Nil] /\ avatar \in [Players -> Ids]
    BY <1>7, GroundFacts DEF RemoveAvatar
  <2>2. \A q \in Players : avatar'[q] \in {avatar[q], Nil, session[q]}
    BY <2>1
  <2> QED
    BY <1>1, <2>1, <2>2 DEF OwnersStay
<1>8. ASSUME OnTimer
      PROVE  owner' = owner /\ avatar' = avatar
  BY <1>8 DEF OnTimer
<1> QED
  BY <1>2, <1>3, <1>4, <1>5, <1>6, <1>7, <1>8 DEF Next, InnerStep


\* Who is in a venue is in the table, and in the room or about to leave it or just there.
LEMMA VenueKnownNext ==
  ASSUME Ground, [Next]_vars
  PROVE  VenueKnown'
<1>0. /\ VenueKnown /\ SessionInv /\ RoomInv
      /\ venueId \in [Players -> BOOLEAN] /\ players \subseteq Players
      /\ inner \in Seq(Closure) /\ half \in Closure \cup {Nil}
  BY DEF Ground, AvatarInv, SessionInv, TypeOK
<1>1. ASSUME players \subseteq players', \A q \in Players : venueId'[q] => venueId[q],
             \A q \in Players : q \in inRoom \/ HalfOf(q) => q \in inRoom' \/ HalfOf(q)'
      PROVE  VenueKnown'
  BY <1>0, <1>1 DEF VenueKnown
<1>2. ASSUME UNCHANGED <<players, venueId, inRoom, half>>
      PROVE  VenueKnown'
  BY <1>1, <1>2 DEF HalfOf
<1>3. ASSUME NEW p \in Players, Loads(p), UNCHANGED <<inRoom, half>>
      PROVE  VenueKnown'
  <2>1. CASE p \in players
    BY <1>2, <1>3, <2>1 DEF Loads
  <2>2. CASE p \notin players
    <3>1. players' = players \cup {p} /\ venueId' = [venueId EXCEPT ![p] = FALSE]
      BY <1>3, <2>2 DEF Loads, NewPlayer
    <3>2. \A q \in Players : venueId'[q] => venueId[q]
      BY <1>0, <3>1
    <3> QED
      BY <1>1, <1>3, <3>1, <3>2 DEF HalfOf
  <2> QED
    BY <2>1, <2>2
<1>4. ASSUME NEW t \in Threads, Step(t)
      PROVE  VenueKnown'
  <2>1. CASE AddPlayer(t)
    <3>1. th[t].pc = "add" /\ CallOf(th[t])
      BY <1>0, <2>1, CallFacts DEF AddPlayer
    <3>2. PICK p \in Players : p = th[t].player
      BY <3>1 DEF CallOf
    <3>3. Loads(p) /\ UNCHANGED <<inRoom, half>>
      BY <2>1, <3>2 DEF AddPlayer, Loads, room
    <3> QED
      BY <1>3, <3>3
  <2>2. CASE ~AddPlayer(t)
    <3>1. UNCHANGED <<players, venueId, inRoom, half>>
      BY <1>4, <2>2 DEF Step, Pop, Preprocess, GetPlayer, GetOld, Unlink, SetSession, Link,
         Find, RemoveSessionId, SetOffline, AddOfflinePlayer, GetVenueId, Tell, room, manager
    <3> QED
      BY <1>2, <3>1
  <2> QED
    BY <2>1, <2>2
<1>5. ASSUME NEW s \in Sessions, \/ \E p \in Players : Connect(s, p)
                                 \/ OnDisconnect(s) \/ CheckConnection(s)
      PROVE  VenueKnown'
  BY <1>2, <1>5 DEF Connect, OnDisconnect, CheckConnection, room, manager
<1>6. ASSUME NEW s \in Sessions, RequestEnter(s)
      PROVE  VenueKnown'
  <2>1. PICK p : p = owner[s]
    OBVIOUS
  <2>2. net[s] = "open" /\ Loads(p) /\ UNCHANGED <<inRoom, half>>
    BY <1>6, <2>1 DEF RequestEnter, Loads
  <2>3. p \in Players
    BY <1>0, <2>1, <2>2 DEF SessionInv, TypeOK, QueueInv
  <2> QED
    BY <1>3, <2>2, <2>3
<1>7. ASSUME Notify \/ UNCHANGED vars
      PROVE  VenueKnown'
  BY <1>2, <1>7 DEF Notify, vars
<1>8. ASSUME JoinGame
      PROVE  VenueKnown'
  <2>1. UNCHANGED <<players, venueId>> /\ half = Nil /\ inRoom \subseteq inRoom'
    BY <1>8 DEF JoinGame
  <2> QED
    BY <1>1, <2>1 DEF HalfOf
<1>9. ASSUME NEW p \in Players, RemoveAvatar(p)
      PROVE  VenueKnown'
  <2>1. /\ UNCHANGED <<players, venueId>> /\ half = Nil /\ inRoom' = inRoom \ {p}
        /\ half' = [op |-> "leave", player |-> p, late |-> FALSE]
    BY <1>9 DEF RemoveAvatar, manager
  <2>2. half' # Nil /\ half'.player = p
    <3>1. half' \in Closure
      BY <2>1 DEF Closure
    <3> QED
      BY <2>1, <3>1, NilAssumption
  <2> QED
    BY <1>1, <2>1, <2>2 DEF HalfOf
<1>10. ASSUME AfterRoom
       PROVE  VenueKnown'
  <2>1. PICK p : p = half.player
    OBVIOUS
  <2>2. /\ half # Nil /\ half' = Nil /\ UNCHANGED <<players, inRoom>>
        /\ venueId' = IF p \in players THEN [venueId EXCEPT ![p] = (half.op = "enter")]
                      ELSE venueId
    BY <1>10, <2>1 DEF AfterRoom
  <2>3. p \in Players
    BY <1>0, <2>1, <2>2 DEF Closure
  <2> SUFFICES ASSUME NEW q \in Players, venueId'[q]
               PROVE  q \in players /\ q \in inRoom
    BY <2>2 DEF VenueKnown
  <2>4. CASE q # p
    <3>1. venueId[q]
      BY <1>0, <2>2, <2>4
    <3> QED
      BY <1>0, <2>1, <2>4, <3>1 DEF VenueKnown, HalfOf
  <2>5. CASE q = p
    <3>1. p \in players
      BY <1>0, <2>2, <2>3, <2>5 DEF VenueKnown
    <3>2. half.op = "enter"
      BY <1>0, <2>2, <2>3, <2>5, <3>1
    <3> QED
      BY <1>0, <2>1, <2>2, <2>5, <3>1, <3>2 DEF RoomInv
  <2> QED
    BY <2>4, <2>5
<1>11. ASSUME OnTimer
       PROVE  VenueKnown'
  <2>1. players' = players \ Freed /\ UNCHANGED <<venueId, inRoom>>
    BY <1>11 DEF OnTimer
  <2>2. \A q \in Players : HalfOf(q) => HalfOf(q)'
    <3>1. CASE half = Nil
      BY <3>1 DEF HalfOf
    <3>2. CASE half # Nil
      <4>1. half \in Closure /\ half' = AgedClosure(half)
        BY <1>0, <1>11, <3>2 DEF OnTimer, AgedClosure
      <4>2. half'.player = half.player /\ half' # Nil
        BY <4>1, NilAssumption DEF AgedClosure, Closure
      <4> QED
        BY <3>2, <4>2 DEF HalfOf
    <3> QED
      BY <3>1, <3>2
  <2>3. \A q \in Freed : ~venueId[q]
    BY <1>0, FreedFacts DEF Freeable
  <2> QED
    BY <1>0, <2>1, <2>2, <2>3 DEF VenueKnown
<1> QED
  BY <1>4, <1>5, <1>6, <1>7, <1>8, <1>9, <1>10, <1>11 DEF Next, InnerStep

LEMMA NextAvatar ==
  SessionInv /\ SessionInv' /\ OwnerInv /\ AgreeInv /\ AvatarInv /\ [Next]_vars => AvatarInv'
<1> SUFFICES ASSUME Ground, [Next]_vars
             PROVE  AvatarInv'
  BY DEF Ground
<1>1. ASSUME NEW t \in Threads, Step(t)
      PROVE  AvatarsInv'
  BY <1>1, AvatarPlain, AvatarFind, AvatarGetVenueId, AvatarTell, AvatarSets, AvatarAdd, AvatarPop
     DEF Step
<1>2. AvatarsInv'
  BY <1>1, AvatarNetwork, AvatarRequest, AvatarNotify, AvatarJoin, AvatarRemove,
     AvatarAfterRoom, AvatarTimer DEF Next, InnerStep
<1> QED
  BY <1>2, AvatarOwnerNext, VenueKnownNext DEF AvatarsInv, AvatarInv

LEMMA InitAvatar == Init => AvatarInv
<1> SUFFICES ASSUME Init
             PROVE  AvatarInv
  OBVIOUS
<1>1. AvatarOwner /\ VenueKnown
  BY DEF Init, AvatarOwner, VenueKnown
<1>2. ASSUME NEW p \in Players
      PROVE  AvatarFor(p)
  <2>1. ~HalfOf(p) /\ \A t \in Threads : ~About(t, p)
    BY IdleCall DEF Init, HalfOf, About
  <2>2. ~ToTell(p) /\ p \notin inRoom
    BY DEF Init, ToTell
  <2> QED
    BY <2>1, <2>2 DEF AvatarFor
<1> QED
  BY <1>1, <1>2 DEF AvatarInv

\* While nothing about a player is being handled or waits for the inner thread, the
\* avatar in the room and the player have the same session, if it is open: what
\* onConnect and onDisconnect tell the room, in the order the calls were dispatched
\* in, makes up for what the calls set.  The exceptions are those of AvatarAgrees.
THEOREM SessionAvatarAgrees == Spec => []AvatarAgrees
<1>1. Init => OwnerInv /\ AgreeInv /\ AvatarInv
  BY InitAgree, InitAvatar
<1>2. SessionInv /\ SessionInv' /\ OwnerInv /\ AgreeInv /\ AvatarInv /\ [Next]_vars
        => OwnerInv' /\ AgreeInv' /\ AvatarInv'
  BY NextAgree, NextAvatar
<1>3. SessionInv /\ AvatarInv => AvatarAgrees
  <2> SUFFICES ASSUME SessionInv, AvatarInv, NEW p \in inRoom,
                      p \notin tangled, ~Working(p),
                      \A i \in DOMAIN inner : inner[i].player # p
               PROVE  /\ Open(avatar[p]) <=> Open(session[p])
                      /\ Open(session[p]) => avatar[p] = session[p]
    BY DEF AvatarAgrees
  <2>1. p \in Players /\ AvatarFor(p)
    BY DEF SessionInv, TypeOK, AvatarInv
  <2>2. (\A t \in Threads : ~About(t, p)) /\ ~ToTell(p)
    BY DEF Working, About, ToTell
  <2>3. Same(p)
    BY <2>1, <2>2 DEF AvatarFor, Told
  <2> QED
    BY <2>3 DEF Same
<1> QED
  BY <1>1, <1>2, <1>3, SessionInvariant, PTL DEF Spec
=============================================================================
