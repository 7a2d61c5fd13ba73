----------------------------- MODULE CashPledge -----------------------------
(***************************************************************************)
(* The cash pledge protocol of Framework/Game/GameRoom.cpp.                *)
(*                                                                         *)
(* A room takes a pledge from each player who joins, keeps it as a row of  *)
(* table `cash_pledge`, tops it up while the game runs and returns it when *)
(* the player leaves.  The player's gold is a row of table `capital`,      *)
(* which other rooms and other services change at the same time; every     *)
(* writer reads the row, computes, and updates it `where version = the     *)
(* version it read`, adding one to the version.                            *)
(*                                                                         *)
(* Each room runs on one worker thread, so a room executes one call at a   *)
(* time, but every SQL statement is a step of its own: the statements of   *)
(* different rooms and of other services interleave.  A statement ends in  *)
(*   "ok"    executed and reported so,                                     *)
(*   "lost"  reported as failed and not executed, or                       *)
(*   "late"  reported as failed though the database executed it (the       *)
(*           connection broke before the answer came).                     *)
(***************************************************************************)
EXTENDS Integers, FiniteSets

CONSTANTS
  Rooms,          \* game rooms, each on a thread of its own
  Players,        \* players with a row in `capital`
  NoPlayer,       \* the player of an idle thread
  PledgeNeed,     \* GameRoom::_cashPledge; a room without pledges runs none of this
  DiamondNeed,    \* GameRoom::_diamondNeed
  GoldNeeds,      \* values of goldNeed a game passes to deductCashPledge
  MaxTries,       \* attempts of an optimistic update, 10 in the code
  IntLimit,       \* one more than the largest int, 2^31 in the code
  InitGold,       \* initial gold of the players, a set of values
  InitDiamond,    \* initial diamonds of the players, a set of values
  OtherGold,      \* gold another service may leave in an account
  Settlements,    \* pledges a settlement of the game may leave
  MaxCalls,       \* bound: calls of the rooms
  MaxOther,       \* bound: writes of other services
  MaxFaults       \* bound: failed statements and crashes

ASSUME ConstantsAssumption ==
  /\ NoPlayer \notin Players
  /\ PledgeNeed \in Nat \ {0} /\ DiamondNeed \in Nat
  /\ GoldNeeds \subseteq Nat
  /\ MaxTries \in Nat \ {0} /\ IntLimit \in Nat \ {0}
  /\ InitGold \subseteq Nat /\ InitDiamond \subseteq Nat
  /\ OtherGold \subseteq Nat /\ Settlements \subseteq Nat
  /\ MaxCalls \in Nat /\ MaxOther \in Nat /\ MaxFaults \in Nat

VARIABLES
  gold, diamond, version,  \* the rows of table `capital`
  pledge,                  \* pledge[r][p]: `cash_pledge`.amount, 0: no row
  avatar,                  \* avatar[r][p]: GameAvatar::_cashPledge, or None
  th,                      \* th[r]: the call room r's thread is executing
  calls, other, faults,    \* how much of each bound is used
  taken,                   \* history: gold r took from p and did not give back
  charged,                 \* history: how often p was charged diamonds
  torn,                    \* history: deductCashPledge ended with the row changed
                           \* and its update of `capital` not known to be done
  broken,                  \* history: a fault, or the end of the retries, hit a
                           \* call between its two writes
  cut                      \* history: joinGame gave the avatar a pledge that does
                           \* not fit into an int

capital == <<gold, diamond, version>>
bounds  == <<calls, other, faults>>
history == <<taken, charged, torn, broken>>
seats   == <<avatar, cut>>
vars    == <<gold, diamond, version, pledge, avatar, th, calls, other, faults,
             taken, charged, torn, broken, cut>>

\* What is left of an int64_t when it is cast to int.
ToInt(n) == ((n + IntLimit) % (2 * IntLimit)) - IntLimit

None == -IntLimit - 1             \* the player has no avatar in the room
Copies == {n \in Int : n >= -IntLimit}   \* pledges of avatars
Outcomes == {"ok", "lost", "late"}

JoinPcs   == {"j_pledge", "j_capital", "j_debit", "j_count", "j_row"}
ReturnPcs == {"r_pledge", "r_delete", "r_capital", "r_credit"}
DeductPcs == {"d_capital", "d_count", "d_row", "d_update"}
DiamondPcs == {"m_capital", "m_update"}
Pcs == {"idle"} \cup JoinPcs \cup ReturnPcs \cup DeductPcs \cup DiamondPcs

\* The local variables of a call.
Thread ==
  [pc      : Pcs,
   player  : Players \cup {NoPlayer},
   amount  : Copies,            \* the local variable cashPledge
   row     : Nat,               \* history: the pledge row at the start of the call
   need    : Nat,               \* the parameter goldNeed
   kick    : BOOLEAN,           \* the parameter kick
   gold    : Int, diamond : Nat, version : Nat,   \* the `capital` row as read
   tries   : Nat,               \* the loop counter
   batch   : SUBSET Players,    \* avatars the call removes from the room
   todo    : SUBSET Players]    \* those whose pledge is still to be returned

Idle == [pc |-> "idle", player |-> NoPlayer, amount |-> 0, row |-> 0, need |-> 0,
         kick |-> FALSE, gold |-> 0, diamond |-> 0, version |-> 0,
         tries |-> 0, batch |-> {}, todo |-> {}]

Init ==
  /\ gold \in [Players -> InitGold]
  /\ diamond \in [Players -> InitDiamond]
  /\ version = [p \in Players |-> 0]
  /\ pledge = [r \in Rooms |-> [p \in Players |-> 0]]
  /\ avatar = [r \in Rooms |-> [p \in Players |-> None]]
  /\ th = [r \in Rooms |-> Idle]
  /\ calls = 0 /\ other = 0 /\ faults = 0
  /\ taken = [r \in Rooms |-> [p \in Players |-> 0]]
  /\ charged = [p \in Players |-> 0]
  /\ torn = {} /\ broken = {} /\ cut = {}

-----------------------------------------------------------------------------
(* Statements *)

\* The fate of a statement; a failed one uses up the bound on faults.
Fate(out) ==
  \/ out = "ok" /\ UNCHANGED faults
  \/ out # "ok" /\ faults < MaxFaults /\ faults' = faults + 1

\* Mutant of Matches: an update without `and version = ...`.
MatchesAlways(t) == TRUE

\* The version test of `update capital ... where version = ...`.
Matches(t) == version[t.player] = t.version

\* `update capital set gold = g, version = version + 1 where version = ...`,
\* executed: the room's holding changes by what the call moved.
WriteGold(r, t, g, moved) ==
  /\ gold' = [gold EXCEPT ![t.player] = g]
  /\ version' = [version EXCEPT ![t.player] = @ + 1]
  /\ taken' = [taken EXCEPT ![r][t.player] = @ + moved]
  /\ UNCHANGED <<diamond, charged>>

\* GetCapitalTask: the row as the call sees it from now on.
Read(t) == [t EXCEPT !.gold = gold[t.player],
                     !.diamond = diamond[t.player],
                     !.version = version[t.player]]

Goto(r, t, pc) == th' = [th EXCEPT ![r] = [t EXCEPT !.pc = pc]]
Return(r) == th' = [th EXCEPT ![r] = Idle]

Start(r, t) ==
  /\ th[r].pc = "idle"
  /\ calls < MaxCalls
  /\ calls' = calls + 1
  /\ th' = [th EXCEPT ![r] = t]

Mark(set, on, r, p) == IF on THEN set \cup {<<r, p>>} ELSE set

-----------------------------------------------------------------------------
(* GameRoom::joinGame *)

\* Mutant of Seat: the avatar gets the pledge of the room, whatever was paid.
SeatWithNeed(r, t, amount) ==
  /\ avatar' = [avatar EXCEPT ![r][t.player] = ToInt(PledgeNeed)]
  /\ cut' = Mark(cut, ToInt(amount) # amount, r, t.player)
  /\ Return(r)

\* The end of joinGame: the avatar takes its seat, with the pledge as an int.
Seat(r, t, amount) ==
  /\ avatar' = [avatar EXCEPT ![r][t.player] = ToInt(amount)]
  /\ cut' = Mark(cut, ToInt(amount) # amount, r, t.player)
  /\ Return(r)

\* Called for a player who is not in the room (Venue::onEnter).
JoinGame(r, p) ==
  /\ avatar[r][p] = None
  /\ Start(r, [Idle EXCEPT !.pc = "j_pledge", !.player = p])
  /\ UNCHANGED <<capital, pledge, seats, other, faults, history>>

\* The pledge an earlier call or an earlier run of the server left is reused.
JoinPledge(r) ==
  LET t == th[r]
      read == [t EXCEPT !.amount = pledge[r][t.player]]
  IN /\ t.pc = "j_pledge"
     /\ \/ /\ Fate("ok")
           /\ \/ /\ read.amount < PledgeNeed \/ DiamondNeed > 0
                 /\ Goto(r, read, "j_capital")
                 /\ UNCHANGED seats
              \/ /\ read.amount >= PledgeNeed /\ DiamondNeed = 0
                 /\ Seat(r, t, read.amount)
        \/ Fate("lost") /\ Return(r) /\ UNCHANGED seats
     /\ UNCHANGED <<capital, pledge, calls, other, history>>

JoinCapital(r) ==
  LET t == th[r]
      read == Read(t)
      short == \/ read.diamond < DiamondNeed
               \/ t.amount < PledgeNeed /\ read.gold < PledgeNeed - t.amount
  IN /\ t.pc = "j_capital"
     /\ \/ Fate("lost") /\ Return(r) /\ UNCHANGED seats
        \/ Fate("ok") /\ short /\ Return(r) /\ UNCHANGED seats
        \/ /\ Fate("ok") /\ ~short
           /\ \/ /\ t.amount < PledgeNeed
                 /\ Goto(r, read, "j_debit")
                 /\ UNCHANGED seats
              \/ /\ t.amount >= PledgeNeed
                 /\ Seat(r, t, t.amount)
     /\ UNCHANGED <<capital, pledge, calls, other, history>>

\* The gold goes first; a conflict ends the call, without another attempt.
JoinDebit(r, out) ==
  LET t == th[r]
      delta == PledgeNeed - t.amount
  IN /\ t.pc = "j_debit"
     /\ Fate(out)
     /\ IF Matches(t) /\ out # "lost"
        THEN WriteGold(r, t, t.gold - delta, delta)
        ELSE UNCHANGED <<capital, taken, charged>>
     /\ IF Matches(t) /\ out = "ok" THEN Goto(r, t, "j_count") ELSE Return(r)
     /\ broken' = Mark(broken, Matches(t) /\ out = "late", r, t.player)
     /\ UNCHANGED <<pledge, seats, calls, other, torn>>

\* updateCashPledge, its select count(*): insert or update, to the same effect.
JoinCount(r) ==
  LET t == th[r]
  IN /\ t.pc = "j_count"
     /\ \/ Fate("ok") /\ Goto(r, t, "j_row") /\ UNCHANGED broken
        \/ Fate("lost") /\ Return(r) /\ broken' = broken \cup {<<r, t.player>>}
     /\ UNCHANGED <<capital, pledge, seats, calls, other, taken, charged, torn>>

JoinRow(r, out) ==
  LET t == th[r]
  IN /\ t.pc = "j_row"
     /\ Fate(out)
     /\ pledge' = IF out = "lost" THEN pledge
                  ELSE [pledge EXCEPT ![r][t.player] = PledgeNeed]
     /\ IF out = "ok" THEN Seat(r, t, PledgeNeed) ELSE Return(r) /\ UNCHANGED seats
     /\ broken' = Mark(broken, out = "lost", r, t.player)
     /\ UNCHANGED <<capital, calls, other, taken, charged, torn>>

-----------------------------------------------------------------------------
(* GameRoom::returnCashPledge and its callers *)

\* Mutant of Release: kickAllAvatars returns one pledge and clears the room.
ReleaseOne(p, batch, todo) ==
  [Idle EXCEPT !.pc = "r_pledge", !.player = p, !.batch = batch]

\* The call returns the pledge of p, then those of todo, and takes the avatars of
\* batch out of the room.
Release(p, batch, todo) ==
  [Idle EXCEPT !.pc = "r_pledge", !.player = p, !.batch = batch, !.todo = todo]

\* leaveImpl and kickAvatar, for the pledge: one avatar leaves.
Leave(r, p) ==
  /\ avatar[r][p] # None
  /\ Start(r, Release(p, {p}, {}))
  /\ UNCHANGED <<capital, pledge, seats, other, faults, history>>

Present(r) == {p \in Players : avatar[r][p] # None}

\* kickAllAvatars: the avatars in the arbitrary order of the hash map.
KickAllAvatars(r) ==
  /\ \E p \in Present(r) :
       Start(r, Release(p, Present(r), Present(r) \ {p}))
  /\ UNCHANGED <<capital, pledge, seats, other, faults, history>>

\* returnCashPledge ends, with success if out = "ok": the caller goes on to the
\* next avatar, or takes the avatars out of the room.
Returned(r, t, out) ==
  \/ /\ t.todo = {}
     /\ avatar' = [avatar EXCEPT ![r] =
                     [p \in Players |-> IF p \in t.batch THEN None ELSE @[p]]]
     /\ Return(r) /\ UNCHANGED cut
  \/ \E p \in t.todo :
     /\ avatar' = IF out = "ok" THEN [avatar EXCEPT ![r][t.player] = 0] ELSE avatar
     /\ th' = [th EXCEPT ![r] = Release(p, t.batch, t.todo \ {p})]
     /\ UNCHANGED cut

ReturnPledge(r) ==
  LET t == th[r]
  IN /\ t.pc = "r_pledge"
     /\ \/ /\ Fate("ok")
           /\ Goto(r, [t EXCEPT !.amount = pledge[r][t.player]], "r_delete")
           /\ UNCHANGED seats
        \/ Fate("lost") /\ Returned(r, t, "lost")
     /\ UNCHANGED <<capital, pledge, calls, other, history>>

\* The row goes first.
ReturnDelete(r, out) ==
  LET t == th[r]
  IN /\ t.pc = "r_delete"
     /\ Fate(out)
     /\ pledge' = IF out = "lost" THEN pledge
                  ELSE [pledge EXCEPT ![r][t.player] = 0]
     /\ IF out = "ok" /\ t.amount > 0
        THEN Goto(r, t, "r_capital") /\ UNCHANGED seats
        ELSE Returned(r, t, out)
     /\ broken' = Mark(broken, out = "late", r, t.player)
     /\ UNCHANGED <<capital, calls, other, taken, charged, torn>>

ReturnCapital(r) ==
  LET t == th[r]
  IN /\ t.pc = "r_capital"
     /\ \/ Fate("ok") /\ Goto(r, Read(t), "r_credit") /\ UNCHANGED <<seats, broken>>
        \/ /\ Fate("lost") /\ Returned(r, t, "lost")
           /\ broken' = broken \cup {<<r, t.player>>}
     /\ UNCHANGED <<capital, pledge, calls, other, taken, charged, torn>>

\* A conflict leads to another attempt with a fresh read, MaxTries in all.
ReturnCredit(r, out) ==
  LET t == th[r]
      again == [t EXCEPT !.tries = @ + 1]
      success == out = "ok" /\ Matches(t)
  IN /\ t.pc = "r_credit"
     /\ Fate(out)
     /\ IF Matches(t) /\ out # "lost"
        THEN WriteGold(r, t, t.gold + t.amount, -t.amount)
        ELSE UNCHANGED <<capital, taken, charged>>
     /\ IF out = "ok" /\ ~Matches(t) /\ again.tries < MaxTries
        THEN Goto(r, again, "r_capital") /\ UNCHANGED <<seats, broken>>
        ELSE /\ Returned(r, t, IF success THEN "ok" ELSE "lost")
             /\ broken' = Mark(broken, ~success, r, t.player)
     /\ UNCHANGED <<pledge, calls, other, torn>>

-----------------------------------------------------------------------------
(* GameRoom::deductCashPledge *)

\* Mutant of DeductCashPledge: the increment is computed from the pledge at the
\* time of joining and not from the pledge the avatar has now.
DeductFromInitial(r, p, goldNeed, kick) ==
  /\ avatar[r][p] # None
  /\ avatar[r][p] < goldNeed
  /\ Start(r, [Idle EXCEPT !.pc = "d_capital", !.player = p, !.need = goldNeed,
                           !.kick = kick, !.amount = PledgeNeed,
                           !.row = pledge[r][p]])
  /\ UNCHANGED <<capital, pledge, seats, other, faults, history>>

\* Called by the game for an avatar of the room.
DeductCashPledge(r, p, goldNeed, kick) ==
  /\ avatar[r][p] # None
  /\ avatar[r][p] < goldNeed
  /\ Start(r, [Idle EXCEPT !.pc = "d_capital", !.player = p, !.need = goldNeed,
                           !.kick = kick, !.amount = avatar[r][p],
                           !.row = pledge[r][p]])
  /\ UNCHANGED <<capital, pledge, seats, other, faults, history>>

\* Mutant of Enough: one piece of gold short is accepted.
EnoughByOne(t) == t.gold + 1 >= t.need - t.amount

\* Is the gold read enough to top the pledge up? (the local variable test)
Enough(t) == t.gold >= t.need - t.amount

\* Mutant of Target: the row is not deleted when the pledge is paid out.
TargetNeed(t) == t.need

\* What updateCashPledge is to store.
Target(t) == IF Enough(t) THEN t.need ELSE 0

\* The call ends without its update of `capital`, but may have changed the row.
GiveUp(r, t) ==
  /\ Return(r)
  /\ torn' = Mark(torn, pledge'[r][t.player] # t.row, r, t.player)

DeductCapital(r) ==
  LET t == th[r]
      read == Read(t)
  IN /\ t.pc = "d_capital"
     /\ \/ Fate("lost") /\ UNCHANGED pledge /\ GiveUp(r, t)
        \/ /\ Fate("ok") /\ UNCHANGED pledge
           /\ IF Enough(read) \/ t.kick
              THEN Goto(r, read, "d_count") /\ UNCHANGED torn
              ELSE GiveUp(r, t)
     /\ UNCHANGED <<capital, seats, calls, other, taken, charged, broken>>

\* updateCashPledge, its select count(*): with no row and nothing to store
\* there is no second statement.
DeductCount(r) ==
  LET t == th[r]
  IN /\ t.pc = "d_count"
     /\ UNCHANGED pledge
     /\ \/ /\ Fate("ok")
           /\ Goto(r, t, IF Target(t) = 0 /\ pledge[r][t.player] = 0
                         THEN "d_update" ELSE "d_row")
           /\ UNCHANGED torn
        \/ Fate("lost") /\ GiveUp(r, t)
     /\ UNCHANGED <<capital, seats, calls, other, taken, charged, broken>>

DeductRow(r, out) ==
  LET t == th[r]
  IN /\ t.pc = "d_row"
     /\ Fate(out)
     /\ pledge' = IF out = "lost" THEN pledge
                  ELSE [pledge EXCEPT ![r][t.player] = Target(t)]
     /\ IF out = "ok" THEN Goto(r, t, "d_update") /\ UNCHANGED torn
                      ELSE GiveUp(r, t)
     /\ UNCHANGED <<capital, seats, calls, other, taken, charged, broken>>

\* The gold goes last.  A conflict repeats the whole round, the row included.
DeductUpdate(r, out) ==
  LET t == th[r]
      again == [t EXCEPT !.tries = @ + 1]
  IN /\ t.pc = "d_update"
     /\ Fate(out)
     /\ UNCHANGED pledge
     /\ IF Matches(t) /\ out # "lost"
        THEN IF Enough(t)
             THEN WriteGold(r, t, t.gold - (t.need - t.amount), t.need - t.amount)
             ELSE WriteGold(r, t, t.gold + t.amount, -t.amount)
        ELSE UNCHANGED <<capital, taken, charged>>
     /\ \/ /\ out = "ok" /\ Matches(t)
           /\ avatar' = [avatar EXCEPT ![r][t.player] = Target(t)]
           /\ Return(r)
           /\ UNCHANGED <<cut, torn>>
        \/ /\ out = "ok" /\ ~Matches(t) /\ again.tries < MaxTries
           /\ Goto(r, again, "d_capital")
           /\ UNCHANGED <<seats, torn>>
        \/ /\ out # "ok" \/ (~Matches(t) /\ again.tries >= MaxTries)
           /\ GiveUp(r, t)
           /\ UNCHANGED seats
     /\ UNCHANGED <<calls, other, broken>>

-----------------------------------------------------------------------------
(* GameRoom::deductDiamond *)

DeductDiamond(r, p) ==
  /\ avatar[r][p] # None
  /\ Start(r, [Idle EXCEPT !.pc = "m_capital", !.player = p])
  /\ UNCHANGED <<capital, pledge, seats, other, faults, history>>

DiamondCapital(r) ==
  LET t == th[r]
      read == Read(t)
  IN /\ t.pc = "m_capital"
     /\ \/ Fate("lost") /\ Return(r)
        \/ /\ Fate("ok")
           /\ IF DiamondNeed = 0 \/ DiamondNeed > read.diamond
              THEN Return(r)
              ELSE Goto(r, read, "m_update")
     /\ UNCHANGED <<capital, pledge, seats, calls, other, history>>

DiamondUpdate(r, out) ==
  LET t == th[r]
      again == [t EXCEPT !.tries = @ + 1]
  IN /\ t.pc = "m_update"
     /\ Fate(out)
     /\ IF Matches(t) /\ out # "lost"
        THEN /\ diamond' = [diamond EXCEPT ![t.player] = t.diamond - DiamondNeed]
             /\ version' = [version EXCEPT ![t.player] = @ + 1]
             /\ charged' = [charged EXCEPT ![t.player] = @ + 1]
             /\ UNCHANGED gold
        ELSE UNCHANGED <<capital, charged>>
     /\ IF out = "ok" /\ ~Matches(t) /\ again.tries < MaxTries
        THEN Goto(r, again, "m_capital")
        ELSE Return(r)
     /\ UNCHANGED <<pledge, seats, calls, other, taken, torn, broken>>

-----------------------------------------------------------------------------
(* The environment *)

\* The game settles a round; concrete games are not part of the repository.
Settle(r, p, n) ==
  /\ th[r].pc = "idle"
  /\ avatar[r][p] # None
  /\ calls < MaxCalls /\ calls' = calls + 1
  /\ pledge' = [pledge EXCEPT ![r][p] = n]
  /\ avatar' = [avatar EXCEPT ![r][p] = n]
  /\ taken' = [taken EXCEPT ![r][p] = @ + n - avatar[r][p]]
  /\ UNCHANGED <<capital, th, other, faults, charged, torn, broken, cut>>

\* Another service writes the account, with the same version discipline.
OtherService(p, g) ==
  /\ other < MaxOther /\ other' = other + 1
  /\ gold' = [gold EXCEPT ![p] = g]
  /\ version' = [version EXCEPT ![p] = @ + 1]
  /\ UNCHANGED <<diamond, pledge, seats, th, calls, faults, history>>

\* The server of room r dies: the call and the avatars are gone, the tables stay.
Crash(r) ==
  LET t == th[r]
  IN /\ Fate("lost")
     /\ Return(r)
     /\ avatar' = [avatar EXCEPT ![r] = [p \in Players |-> None]]
     /\ broken' = Mark(broken, t.pc \in {"j_count", "j_row", "r_capital", "r_credit"},
                       r, t.player)
     /\ torn' = Mark(torn, t.pc \in DeductPcs /\ pledge[r][t.player] # t.row,
                     r, t.player)
     /\ UNCHANGED <<capital, pledge, calls, other, taken, charged, cut>>

-----------------------------------------------------------------------------
Call(r) ==
  \/ \E p \in Players : JoinGame(r, p) \/ Leave(r, p) \/ DeductDiamond(r, p)
  \/ KickAllAvatars(r)
  \/ \E p \in Players, n \in GoldNeeds \cup {PledgeNeed}, k \in BOOLEAN :
       DeductCashPledge(r, p, n, k)

Step(r) ==
  \/ JoinPledge(r) \/ JoinCapital(r) \/ JoinCount(r)
  \/ ReturnPledge(r) \/ ReturnCapital(r)
  \/ DeductCapital(r) \/ DeductCount(r)
  \/ DiamondCapital(r)
  \/ \E out \in Outcomes :
       \/ JoinDebit(r, out) \/ JoinRow(r, out)
       \/ ReturnDelete(r, out) \/ ReturnCredit(r, out)
       \/ DeductRow(r, out) \/ DeductUpdate(r, out)
       \/ DiamondUpdate(r, out)

Environment ==
  \/ \E r \in Rooms : Crash(r)
  \/ \E r \in Rooms, p \in Players, n \in Settlements : Settle(r, p, n)
  \/ \E p \in Players, g \in OtherGold : OtherService(p, g)

Next == (\E r \in Rooms : Call(r) \/ Step(r)) \/ Environment

Spec == Init /\ [][Next]_vars

-----------------------------------------------------------------------------
(* Properties *)

TypeOK ==
  /\ gold \in [Players -> Int]
  /\ \A p \in Players : gold[p] >= 0 \/ \E r \in Rooms : <<r, p>> \in cut
  /\ diamond \in [Players -> Nat]
  /\ version \in [Players -> Nat]
  /\ pledge \in [Rooms -> [Players -> Nat]]
  /\ avatar \in [Rooms -> [Players -> Copies \cup {None}]]
  /\ th \in [Rooms -> Thread]
  /\ \A r \in Rooms : th[r].pc # "idle" => th[r].player \in Players
  /\ calls \in Nat /\ other \in Nat /\ faults \in Nat
  /\ taken \in [Rooms -> [Players -> Int]]
  /\ charged \in [Players -> Nat]
  /\ torn \subseteq Rooms \X Players
  /\ broken \subseteq Rooms \X Players
  /\ cut \subseteq Rooms \X Players

\* Room r is executing a call for player p.
Working(r, p) == th[r].pc # "idle" /\ (p = th[r].player \/ p \in th[r].batch)

\* Program points at which a call holds a row of `capital` that it read.
Holding == {"j_debit", "r_credit", "d_count", "d_row", "d_update", "m_update"}

\* A row that was read is the present row as long as its version is.
SnapshotValid(r) ==
  LET t == th[r] IN
  t.pc \in Holding =>
    /\ t.version <= version[t.player]
    /\ Matches(t) => gold[t.player] = t.gold /\ diamond[t.player] = t.diamond

\* What the call of room r has established so far.
CallInv(r) ==
  LET t == th[r] IN
  /\ t.pc \in ReturnPcs => t.player \in t.batch /\ t.todo \subseteq t.batch
  /\ t.pc \notin ReturnPcs => t.batch = {}
  /\ t.pc \in JoinPcs => avatar[r][t.player] = None
  /\ t.pc \in {"j_capital", "j_debit"} => t.amount = pledge[r][t.player]
  /\ t.pc \in {"j_debit", "j_count", "j_row"} => pledge[r][t.player] < PledgeNeed
  /\ t.pc = "j_debit" => t.gold >= PledgeNeed - t.amount
  /\ t.pc = "r_delete" => t.amount = pledge[r][t.player]
  /\ t.pc \in {"r_capital", "r_credit"} => pledge[r][t.player] = 0
  /\ t.pc \in DeductPcs => avatar[r][t.player] = t.amount /\ t.amount < t.need
  /\ t.pc \notin DeductPcs \cup {"idle"} => t.amount >= 0
  /\ t.pc = "d_update" => pledge[r][t.player] = Target(t)
  /\ t.pc = "m_update" => t.diamond >= DiamondNeed

\* What room r should hold for p: the pledge row between calls, and what the
\* call is in the course of moving otherwise.
Expected(r, p) ==
  LET t == th[r] IN
  IF t.player = p /\ t.pc \in {"j_count", "j_row"} THEN PledgeNeed
  ELSE IF t.player = p /\ t.pc \in {"r_capital", "r_credit"} THEN t.amount
  ELSE IF t.player = p /\ t.pc \in DeductPcs THEN t.row
  ELSE pledge[r][p]

\* The avatar of p has the pledge n, or what joinGame left of it.
HasCopyOf(r, p, n) ==
  avatar[r][p] = n \/ (<<r, p>> \in cut /\ avatar[r][p] = ToInt(n))

HoldingInv(r, p) ==
  /\ <<r, p>> \notin torn => taken[r][p] >= Expected(r, p)
  /\ <<r, p>> \notin torn \cup broken \cup cut => taken[r][p] = Expected(r, p)
  /\ avatar[r][p] \in Nat \cup {None} \/ <<r, p>> \in cut
  /\ <<r, p>> \notin torn /\ avatar[r][p] # None /\ p \notin th[r].batch =>
       HasCopyOf(r, p, IF th[r].player = p /\ th[r].pc \in DeductPcs
                       THEN th[r].row ELSE pledge[r][p])

RoomInv(r) ==
  SnapshotValid(r) /\ CallInv(r) /\ \A p \in Players : HoldingInv(r, p)

\* The inductive invariant behind the properties below.
PledgeInv == TypeOK /\ \A r \in Rooms : RoomInv(r)

\* Who is out of the room, and who has been dealt with by a call that empties it, has
\* no row left; without faults every state of every room is like that.
Released(r) ==
  /\ \A p \in Players : avatar[r][p] = None /\ p \notin th[r].batch => pledge[r][p] = 0
  /\ \A p \in th[r].batch \ (th[r].todo \cup {th[r].player}) : pledge[r][p] = 0
ReleasedInv == faults = 0 => \A r \in Rooms : Released(r)

\* Optimistic locking loses no update: every select-then-update of joinGame,
\* returnCashPledge, deductCashPledge and deductDiamond acts as one indivisible
\* transfer on the account as it is at that moment, whichever rooms, services,
\* faults and crashes come between, and none overdraws the account.  The exception
\* is deductCashPledge with a pledge that joinGame cut to an int: it may be negative,
\* and paying it back takes gold.
Ledger == INSTANCE CapitalLedger
            WITH Rooms <- Rooms, Players <- Players, DiamondNeed <- DiamondNeed,
                 gold <- gold, diamond <- diamond, taken <- taken, charged <- charged,
                 cut <- cut
NoLostUpdate == Ledger!LedgerSpec

\* A pledge row never promises more gold than the room took from the player, so
\* returnCashPledge creates no gold: under failed statements, statements that
\* fail after taking effect, crashes, and conflicts.  The exception is a player
\* for whom deductCashPledge is running or gave up halfway.
PledgeBacked ==
  \A r \in Rooms, p \in Players :
    pledge[r][p] > taken[r][p] =>
      <<r, p>> \in torn \/ (th[r].pc \in DeductPcs /\ th[r].player = p)

\* Between calls a pledge row is worth exactly what the room took, unless a
\* fault, or the last of the retries, hit a call between its two writes, or
\* deductCashPledge computes with a pledge that joinGame cut to an int.
PledgeExact ==
  \A r \in Rooms, p \in Players :
    ~Working(r, p) /\ <<r, p>> \notin torn \cup broken \cup cut =>
      pledge[r][p] = taken[r][p]

\* Between calls the avatar's copy of the pledge, which deductCashPledge and the
\* game compute with, is the row that returnCashPledge will pay out; for a player
\* who joined with a pledge that does not fit into an int, it may be what
\* joinGame's cast left of that row.  It never differs in another way.
AvatarMatchesRow ==
  \A r \in Rooms, p \in Players :
    /\ ~Working(r, p) /\ <<r, p>> \notin torn
    /\ avatar[r][p] # None
    => HasCopyOf(r, p, pledge[r][p])

\* As long as nothing fails, a player who is out of the room has no pledge left
\* there: leaveImpl, kickAvatar and kickAllAvatars return every pledge, and a
\* refused joinGame leaves none.
ReleasedOwesNothing ==
  \A r \in Rooms, p \in Players :
    faults = 0 /\ avatar[r][p] = None /\ ~Working(r, p) => pledge[r][p] = 0

\* What the comment on deductCashPledge says of a call that cannot deduct: it
\* fails.  So, as long as no statement fails, between calls a pledge row is
\* backed by gold the room really took, for every player.
FailedDeductLeavesPledge ==
  \A r \in Rooms, p \in Players :
    faults = 0 /\ ~Working(r, p) => pledge[r][p] <= taken[r][p]
=============================================================================
