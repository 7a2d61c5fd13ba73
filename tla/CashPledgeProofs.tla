-------------------------- MODULE CashPledgeProofs --------------------------
(***************************************************************************)
(* Proofs about CashPledge: PledgeInv is an inductive invariant, and       *)
(* PledgeBacked, PledgeExact, AvatarMatchesRow and the refinement of       *)
(* CapitalLedger follow from it.                                           *)
(*                                                                         *)
(* The inductive step is proved action by action.  Each action of a room r *)
(* leaves the other rooms alone (OthersKept) and writes `capital` only     *)
(* together with its version (Versioned); lemma OtherRooms concludes that  *)
(* the invariant of the other rooms is kept, so that each action is left   *)
(* with the types and the invariant of its own room.                       *)
(***************************************************************************)
EXTENDS CashPledge, TLAPS

-----------------------------------------------------------------------------
(* Facts about the local variables of a call *)

\* u and t have the same local variables; their program points and loop
\* counters may differ.
SameLocals(u, t) ==
  /\ u.player = t.player /\ u.amount = t.amount /\ u.row = t.row
  /\ u.need = t.need /\ u.kick = t.kick
  /\ u.gold = t.gold /\ u.diamond = t.diamond
  /\ u.version = t.version /\ u.batch = t.batch /\ u.todo = t.todo

OtherThreads(r) == \A s \in Rooms : s # r => th'[s] = th[s]

\* What is left of a number that is cast to int is an int, and not more than it was.
LEMMA ToIntFacts ==
  ASSUME NEW n \in Nat
  PROVE  /\ ToInt(n) \in Int /\ ToInt(n) >= -IntLimit /\ ToInt(n) <= n
         /\ ToInt(n) \in Copies /\ ToInt(n) # None
<1> DEFINE a == n + IntLimit
           b == 2 * IntLimit
<1>1. a \in Nat /\ b \in Nat \ {0} /\ IntLimit \in Nat \ {0}
  BY ConstantsAssumption
<1>2. ToInt(n) = (a % b) - IntLimit
  BY DEF ToInt
<1> HIDE DEF a, b
<1>3. a % b \in Nat /\ a % b <= a
  BY <1>1
<1>4. a = n + IntLimit
  BY DEF a
<1> QED
  BY <1>1, <1>2, <1>3, <1>4 DEF Copies, None

\* A pledge is one an avatar may have, and never the mark of an absent avatar.
LEMMA NatCopies ==
  /\ Nat \subseteq Copies /\ Copies \subseteq Int /\ None \notin Copies
  /\ None \in Int /\ None < 0
  BY ConstantsAssumption DEF Copies, None

\* The fields of an idle thread, the state a room is in between two calls.
LEMMA IdleFacts ==
  /\ Idle \in Thread /\ Idle.pc = "idle" /\ Idle.batch = {} /\ Idle.todo = {}
  /\ Idle.player = NoPlayer
  BY NatCopies DEF Idle, Thread, Pcs

\* A call that returns leaves an idle thread and the other threads alone.
LEMMA ReturnFacts ==
  ASSUME TypeOK, NEW r \in Rooms, Return(r)
  PROVE  /\ th' \in [Rooms -> Thread] /\ OtherThreads(r)
         /\ th'[r].pc = "idle" /\ th'[r].batch = {} /\ th'[r].player = NoPlayer
         /\ \A s \in Rooms : th'[s].pc # "idle" => th'[s].player \in Players
  BY IdleFacts DEF TypeOK, Return, OtherThreads

\* Changing the program point changes no local variable.
LEMMA PcFacts ==
  ASSUME NEW t \in Thread, NEW pc \in Pcs
  PROVE  /\ [t EXCEPT !.pc = pc] \in Thread
         /\ [t EXCEPT !.pc = pc].pc = pc
         /\ SameLocals([t EXCEPT !.pc = pc], t)
  BY DEF Thread, SameLocals

\* A call that goes on carries its local variables to the next statement.
LEMMA GotoFacts ==
  ASSUME TypeOK, NEW r \in Rooms, NEW t \in Thread, t.player \in Players,
         NEW pc \in Pcs, Goto(r, t, pc)
  PROVE  /\ th' \in [Rooms -> Thread] /\ OtherThreads(r)
         /\ th'[r].pc = pc /\ SameLocals(th'[r], t)
         /\ \A s \in Rooms : th'[s].pc # "idle" => th'[s].player \in Players
  BY PcFacts DEF TypeOK, Goto, OtherThreads, SameLocals

\* Storing the pledge that was read changes the local cashPledge only.
LEMMA AmountFacts ==
  ASSUME NEW t \in Thread, NEW n \in Nat
  PROVE  LET u == [t EXCEPT !.amount = n] IN
         /\ u \in Thread /\ u.amount = n
         /\ u.player = t.player /\ u.row = t.row /\ u.need = t.need
         /\ u.kick = t.kick /\ u.batch = t.batch /\ u.todo = t.todo
  BY NatCopies DEF Thread

\* Counting an attempt changes no other local variable.
LEMMA TriesFacts ==
  ASSUME NEW t \in Thread
  PROVE  LET u == [t EXCEPT !.tries = @ + 1] IN u \in Thread /\ SameLocals(u, t)
  BY DEF Thread, SameLocals

\* GetCapitalTask brings the present row into the local variables.
LEMMA ReadFacts ==
  ASSUME TypeOK, NEW t \in Thread, t.player \in Players
  PROVE  /\ Read(t) \in Thread
         /\ Read(t).gold = gold[t.player] /\ Read(t).diamond = diamond[t.player]
         /\ Read(t).version = version[t.player]
         /\ Read(t).player = t.player /\ Read(t).amount = t.amount
         /\ Read(t).row = t.row /\ Read(t).need = t.need /\ Read(t).kick = t.kick
         /\ Read(t).batch = t.batch /\ Read(t).todo = t.todo
  BY DEF TypeOK, Read, Thread

\* The local variables of a call in progress have their types.
LEMMA ThreadFacts ==
  ASSUME TypeOK, NEW r \in Rooms, th[r].pc # "idle"
  PROVE  /\ th[r] \in Thread /\ th[r].player \in Players
         /\ th[r].amount \in Copies /\ th[r].row \in Nat /\ th[r].need \in Nat
         /\ th[r].kick \in BOOLEAN
         /\ th[r].amount \in Int /\ th[r].gold \in Int /\ th[r].diamond \in Nat /\ th[r].version \in Nat
         /\ th[r].batch \subseteq Players /\ th[r].todo \subseteq Players
  BY NatCopies DEF TypeOK, Thread

\* Outside deductCashPledge a call computes with a pledge from the table.
LEMMA AmountIsNat ==
  ASSUME PledgeInv, NEW r \in Rooms, th[r].pc \notin DeductPcs, th[r].pc # "idle"
  PROVE  th[r].amount \in Nat
  BY ThreadFacts DEF PledgeInv, RoomInv, CallInv

\* The type of the accounts: overdrawn only where a room computes with a cut pledge.
GoldTyped ==
  /\ gold \in [Players -> Int]
  /\ \A p \in Players : gold[p] >= 0 \/ \E r \in Rooms : <<r, p>> \in cut

\* One avatar's pledge changes, the others stay.
LEMMA AvatarCell ==
  ASSUME TypeOK, NEW r \in Rooms, NEW p \in Players, NEW n \in Copies \cup {None},
         avatar' = [avatar EXCEPT ![r][p] = n]
  PROVE  /\ avatar' \in [Rooms -> [Players -> Copies \cup {None}]]
         /\ \A s \in Rooms : s # r => avatar'[s] = avatar[s]
         /\ avatar'[r][p] = n
         /\ \A q \in Players : q # p => avatar'[r][q] = avatar[r][q]
  BY DEF TypeOK

\* One row of `cash_pledge` changes, the others stay.
LEMMA PledgeCell ==
  ASSUME TypeOK, NEW r \in Rooms, NEW p \in Players, NEW n \in Nat,
         pledge' = [pledge EXCEPT ![r][p] = n]
  PROVE  /\ pledge' \in [Rooms -> [Players -> Nat]]
         /\ \A s \in Rooms : s # r => pledge'[s] = pledge[s]
         /\ pledge'[r][p] = n
         /\ \A q \in Players : q # p => pledge'[r][q] = pledge[r][q]
  BY DEF TypeOK

\* What one room holds for one player changes, the rest stays.
LEMMA TakenCell ==
  ASSUME TypeOK, NEW r \in Rooms, NEW p \in Players, NEW n \in Int,
         taken' = [taken EXCEPT ![r][p] = n]
  PROVE  /\ taken' \in [Rooms -> [Players -> Int]]
         /\ \A s \in Rooms : s # r => taken'[s] = taken[s]
         /\ taken'[r][p] = n
         /\ \A q \in Players : q # p => taken'[r][q] = taken[r][q]
  BY DEF TypeOK

\* The avatar of p takes its seat with what is left of the pledge n.
TakesSeat(r, p, n) ==
  /\ avatar' = [avatar EXCEPT ![r][p] = ToInt(n)]
  /\ cut' = Mark(cut, ToInt(n) # n, r, p)

\* Its copy is the pledge, or it is marked as cut.
LEMMA TakesSeatFacts ==
  ASSUME TypeOK, NEW r \in Rooms, NEW p \in Players, NEW n \in Nat,
         TakesSeat(r, p, n)
  PROVE  /\ avatar' \in [Rooms -> [Players -> Copies \cup {None}]]
         /\ cut' \subseteq Rooms \X Players /\ cut \subseteq cut'
         /\ \A s \in Rooms : s # r => avatar'[s] = avatar[s]
         /\ \A s \in Rooms, q \in Players :
              s # r \/ q # p => (<<s, q>> \in cut') = (<<s, q>> \in cut)
         /\ \A q \in Players : q # p => avatar'[r][q] = avatar[r][q]
         /\ avatar'[r][p] # None
         /\ avatar'[r][p] = n \/ (<<r, p>> \in cut' /\ avatar'[r][p] = ToInt(n))
<1>1. ToInt(n) \in Copies /\ ToInt(n) # None
  BY ToIntFacts
<1>2. /\ avatar' \in [Rooms -> [Players -> Copies \cup {None}]]
      /\ \A s \in Rooms : s # r => avatar'[s] = avatar[s]
      /\ avatar'[r][p] = ToInt(n)
      /\ \A q \in Players : q # p => avatar'[r][q] = avatar[r][q]
  BY <1>1, AvatarCell DEF TakesSeat
<1>3. cut' = IF ToInt(n) # n THEN cut \cup {<<r, p>>} ELSE cut
  BY DEF TakesSeat, Mark
<1>4. /\ cut' \subseteq Rooms \X Players /\ cut \subseteq cut'
      /\ ToInt(n) # n => <<r, p>> \in cut'
      /\ \A s \in Rooms, q \in Players :
           s # r \/ q # p => (<<s, q>> \in cut') = (<<s, q>> \in cut)
  BY <1>3 DEF TypeOK
<1> QED
  BY <1>1, <1>2, <1>4

\* An account that nobody writes keeps its type.
LEMMA GoldKept ==
  ASSUME TypeOK, gold' = gold, cut \subseteq cut'
  PROVE  GoldTyped'
  BY DEF TypeOK, GoldTyped

\* What HoldingInv says of a player when the room is idle.
RestHolding(r, q) ==
  /\ <<r, q>> \notin torn => taken[r][q] >= pledge[r][q]
  /\ <<r, q>> \notin torn /\ <<r, q>> \notin broken /\ <<r, q>> \notin cut =>
       taken[r][q] = pledge[r][q]
  /\ avatar[r][q] \in Nat \cup {None} \/ <<r, q>> \in cut
  /\ <<r, q>> \notin torn /\ avatar[r][q] # None => HasCopyOf(r, q, pledge[r][q])

\* A room that is idle again: its invariant is about its tables only.
LEMMA IdleRoom ==
  ASSUME NEW r \in Rooms, th'[r].pc = "idle", th'[r].batch = {}
  PROVE  SnapshotValid(r)' /\ CallInv(r)'
  BY DEF SnapshotValid, CallInv, Holding, ReturnPcs, DeductPcs, JoinPcs

\* The same for the part of the invariant that is about one player.
LEMMA IdleHolding ==
  ASSUME NEW r \in Rooms, th'[r].pc = "idle", NEW q \in Players, RestHolding(r, q)'
  PROVE  HoldingInv(r, q)'
<1>1. Expected(r, q)' = pledge'[r][q] /\ th'[r].pc \notin DeductPcs
  BY DEF Expected, DeductPcs
<1> QED
  BY <1>1 DEF HoldingInv, RestHolding

-----------------------------------------------------------------------------
(* What an action of room r leaves alone *)

OthersKept(r) ==
  \A s \in Rooms : s # r =>
    /\ th'[s] = th[s] /\ pledge'[s] = pledge[s]
    /\ avatar'[s] = avatar[s] /\ taken'[s] = taken[s]
    /\ \A p \in Players : /\ (<<s, p>> \in torn') = (<<s, p>> \in torn)
                          /\ (<<s, p>> \in broken') = (<<s, p>> \in broken)
                          /\ (<<s, p>> \in cut') = (<<s, p>> \in cut)

\* A row of `capital` changes only together with its version.
Versioned ==
  \A p \in Players :
    \/ gold'[p] = gold[p] /\ diamond'[p] = diamond[p] /\ version'[p] = version[p]
    \/ version'[p] > version[p]

\* The invariant of a room survives every step of another room: its own rows are
\* untouched, and a write to the account it has read shows in the version.
LEMMA OtherRooms ==
  ASSUME PledgeInv, NEW r \in Rooms, OthersKept(r), Versioned,
         NEW s \in Rooms, s # r, TypeOK'
  PROVE  RoomInv(s)'
<1>1. /\ th'[s] = th[s] /\ pledge'[s] = pledge[s]
      /\ avatar'[s] = avatar[s] /\ taken'[s] = taken[s]
  BY DEF OthersKept
<1>2. ASSUME NEW p \in Players
      PROVE  /\ (<<s, p>> \in torn') = (<<s, p>> \in torn)
             /\ (<<s, p>> \in broken') = (<<s, p>> \in broken)
             /\ (<<s, p>> \in cut') = (<<s, p>> \in cut)
  BY DEF OthersKept
<1>3. SnapshotValid(s)'
  <2>1. SUFFICES ASSUME th[s].pc \in Holding PROVE SnapshotValid(s)'
    BY <1>1 DEF SnapshotValid
  <2>2. th[s].player \in Players /\ th[s].version \in Nat
    BY <2>1, ThreadFacts DEF PledgeInv, Holding
  <2>3. SnapshotValid(s) /\ version[th[s].player] \in Nat /\ version'[th[s].player] \in Nat
    BY <2>2 DEF PledgeInv, RoomInv, TypeOK
  <2> QED
    BY <1>1, <2>1, <2>2, <2>3 DEF SnapshotValid, Versioned, Matches
<1>4. CallInv(s)'
  BY <1>1 DEF PledgeInv, RoomInv, CallInv, Target, Enough
<1>5. ASSUME NEW p \in Players PROVE HoldingInv(s, p)'
  BY <1>1, <1>2, <1>5 DEF PledgeInv, RoomInv, HoldingInv, Expected, HasCopyOf
<1> QED
  BY <1>3, <1>4, <1>5 DEF RoomInv
-----------------------------------------------------------------------------
(* The calls *)

\* What every action of a room has to establish.
Kept(r) == TypeOK' /\ OthersKept(r) /\ Versioned /\ RoomInv(r)'

\* A player asks for a seat: nothing is read or written yet.
LEMMA JoinGameStep ==
  ASSUME PledgeInv, NEW r \in Rooms, NEW p \in Players, JoinGame(r, p)
  PROVE  Kept(r)
<1> DEFINE u == [Idle EXCEPT !.pc = "j_pledge", !.player = p]
<1>1. u \in Thread /\ u.pc = "j_pledge" /\ u.player = p /\ u.batch = {}
      /\ u.amount = 0
  BY NatCopies DEF Idle, Thread, Pcs, JoinPcs
<1>2. th' = [th EXCEPT ![r] = u] /\ th[r].pc = "idle" /\ calls' = calls + 1
  BY DEF JoinGame, Start, seats
<1> HIDE DEF u
<1>3. /\ UNCHANGED <<gold, diamond, version, pledge, avatar, cut, other, faults,
                     taken, charged, torn, broken>>
      /\ avatar[r][p] = None
  BY DEF JoinGame, capital, history, seats
<1>4. TypeOK'
  <2>1. GoldTyped'
    BY <1>3, GoldKept DEF PledgeInv
  <2>2. /\ th' \in [Rooms -> Thread] /\ calls' \in Nat
        /\ \A s \in Rooms : th'[s].pc # "idle" => th'[s].player \in Players
    BY <1>1, <1>2 DEF PledgeInv, TypeOK
  <2> QED
    BY <1>3, <2>1, <2>2 DEF PledgeInv, TypeOK, GoldTyped
<1>5. th'[r] = u /\ \A s \in Rooms : s # r => th'[s] = th[s]
  BY <1>2 DEF PledgeInv, TypeOK
<1>6. OthersKept(r) /\ Versioned
  BY <1>3, <1>5 DEF OthersKept, Versioned
<1>7. SnapshotValid(r)' /\ CallInv(r)'
  BY <1>1, <1>3, <1>5 DEF SnapshotValid, CallInv, Holding, ReturnPcs, DeductPcs, JoinPcs
<1>8. ASSUME NEW q \in Players PROVE HoldingInv(r, q)'
  <2>1. Expected(r, q) = pledge[r][q] /\ Expected(r, q)' = pledge[r][q]
    BY <1>1, <1>2, <1>3, <1>5 DEF Expected, DeductPcs
  <2>2. th[r].batch = {} /\ th[r].pc \notin DeductPcs /\ u.pc \notin DeductPcs
    BY <1>1, <1>2 DEF PledgeInv, RoomInv, CallInv, ReturnPcs, DeductPcs
  <2> QED
    BY <1>1, <1>3, <1>5, <2>1, <2>2 DEF PledgeInv, RoomInv, HoldingInv, HasCopyOf
<1> QED
  BY <1>4, <1>6, <1>7, <1>8 DEF Kept, RoomInv

\* Program points of calls that have moved nothing yet.
Early == {"j_pledge", "j_capital", "j_debit", "m_capital", "m_update"}

\* A call that has moved nothing may return as it is, or seat an avatar with the
\* pledge the table records.
LEMMA EarlyReturn ==
  ASSUME PledgeInv, NEW r \in Rooms, th[r].pc \in Early, Return(r),
         UNCHANGED <<gold, diamond, version, pledge, calls, other, taken, charged,
                     torn, broken>>,
         faults' \in Nat,
         \/ UNCHANGED <<avatar, cut>>
         \/ TakesSeat(r, th[r].player, pledge[r][th[r].player])
  PROVE  Kept(r)
<1> DEFINE p == th[r].player
<1>1. p \in Players /\ th[r].batch = {} /\ pledge[r][p] \in Nat
  <2>1. p \in Players
    BY ThreadFacts DEF PledgeInv, Early
  <2>2. th[r].batch = {}
    BY DEF PledgeInv, RoomInv, CallInv, Early, ReturnPcs
  <2> QED
    BY <2>1, <2>2 DEF PledgeInv, TypeOK
<1>2. /\ th' \in [Rooms -> Thread] /\ OtherThreads(r)
      /\ th'[r].pc = "idle" /\ th'[r].batch = {}
      /\ \A s \in Rooms : th'[s].pc # "idle" => th'[s].player \in Players
  BY ReturnFacts DEF PledgeInv
<1>3. /\ avatar' \in [Rooms -> [Players -> Copies \cup {None}]]
      /\ cut' \subseteq Rooms \X Players /\ cut \subseteq cut'
      /\ \A s \in Rooms : s # r => avatar'[s] = avatar[s]
      /\ \A s \in Rooms, q \in Players : s # r => (<<s, q>> \in cut') = (<<s, q>> \in cut)
      /\ \A q \in Players :
           \/ avatar'[r][q] = avatar[r][q]
           \/ avatar'[r][q] = pledge[r][q]
           \/ <<r, q>> \in cut' /\ avatar'[r][q] = ToInt(pledge[r][q])
  <2>1. CASE UNCHANGED <<avatar, cut>>
    BY <2>1 DEF PledgeInv, TypeOK
  <2>2. CASE TakesSeat(r, p, pledge[r][p])
    <3>1. /\ avatar' \in [Rooms -> [Players -> Copies \cup {None}]]
          /\ cut' \subseteq Rooms \X Players /\ cut \subseteq cut'
          /\ \A s \in Rooms : s # r => avatar'[s] = avatar[s]
          /\ \A s \in Rooms, q \in Players :
               s # r \/ q # p => (<<s, q>> \in cut') = (<<s, q>> \in cut)
      <4>1. TypeOK
        BY DEF PledgeInv
      <4>2. p \in Players /\ pledge[r][p] \in Nat
        BY <1>1
      <4> HIDE DEF p
      <4> QED
        BY <2>2, <4>1, <4>2, TakesSeatFacts
    <3>2. /\ \A q \in Players : q # p => avatar'[r][q] = avatar[r][q]
          /\ \/ avatar'[r][p] = pledge[r][p]
             \/ <<r, p>> \in cut' /\ avatar'[r][p] = ToInt(pledge[r][p])
      BY <1>1, <2>2, TakesSeatFacts DEF PledgeInv
    <3> QED
      BY <3>1, <3>2
  <2> QED
    BY <2>1, <2>2
<1>4. TypeOK'
  <2>1. GoldTyped'
    BY <1>3, GoldKept DEF PledgeInv
  <2> QED
    BY <1>2, <1>3, <2>1 DEF PledgeInv, TypeOK, GoldTyped
<1>5. OthersKept(r) /\ Versioned
  BY <1>2, <1>3 DEF OthersKept, Versioned, OtherThreads
<1>6. ASSUME NEW q \in Players PROVE HoldingInv(r, q)'
  <2>1. Expected(r, q) = pledge[r][q] /\ th[r].pc \notin DeductPcs
    BY DEF Expected, DeductPcs, Early
  <2>2. HoldingInv(r, q) /\ pledge[r][q] \in Nat
    BY DEF PledgeInv, RoomInv, TypeOK
  <2>3. RestHolding(r, q)'
    BY <1>1, <1>3, <2>1, <2>2 DEF HoldingInv, RestHolding, HasCopyOf
  <2> QED
    BY <1>2, <2>3, IdleHolding
<1> QED
  BY <1>2, <1>4, <1>5, <1>6, IdleRoom DEF Kept, RoomInv

\* A call that has moved nothing goes on to the next early program point.
LEMMA EarlyGoto ==
  ASSUME PledgeInv, NEW r \in Rooms, th[r].pc \in Early,
         NEW u \in Thread, u.player = th[r].player, u.batch = th[r].batch,
         NEW pc \in Early, Goto(r, u, pc),
         UNCHANGED <<gold, diamond, version, pledge, avatar, cut, calls, other, taken,
                     charged, torn, broken>>,
         faults' \in Nat
  PROVE  /\ TypeOK' /\ OthersKept(r) /\ Versioned
         /\ \A q \in Players : HoldingInv(r, q)'
         /\ th'[r].pc = pc /\ SameLocals(th'[r], u)
<1>1. th[r].player \in Players /\ pc \in Pcs
  BY ThreadFacts DEF PledgeInv, Early, Pcs, JoinPcs, DiamondPcs
<1>2. /\ th' \in [Rooms -> Thread] /\ OtherThreads(r)
      /\ th'[r].pc = pc /\ SameLocals(th'[r], u)
      /\ \A s \in Rooms : th'[s].pc # "idle" => th'[s].player \in Players
  BY <1>1, GotoFacts DEF PledgeInv
<1>3. TypeOK' /\ OthersKept(r) /\ Versioned
  BY <1>2 DEF PledgeInv, TypeOK, OthersKept, Versioned, OtherThreads
<1>4. ASSUME NEW q \in Players PROVE HoldingInv(r, q)'
  <2>1. /\ Expected(r, q) = pledge[r][q] /\ Expected(r, q)' = pledge[r][q]
        /\ th[r].pc \notin DeductPcs /\ th'[r].pc \notin DeductPcs
        /\ th'[r].batch = th[r].batch
    BY <1>2 DEF Expected, DeductPcs, Early, SameLocals
  <2> QED
    BY <2>1 DEF PledgeInv, RoomInv, HoldingInv, HasCopyOf
<1> QED
  BY <1>2, <1>3, <1>4

\* joinGame reads the pledge row of an earlier stay.
LEMMA JoinPledgeStep ==
  ASSUME PledgeInv, NEW r \in Rooms, JoinPledge(r)
  PROVE  Kept(r)
<1> DEFINE t == th[r]
           p == th[r].player
           u == [t EXCEPT !.amount = pledge[r][p]]
<1>1. t.pc = "j_pledge"
  BY DEF JoinPledge, seats
<1>2. t \in Thread /\ p \in Players /\ pledge[r][p] \in Nat
  BY <1>1, ThreadFacts DEF PledgeInv, TypeOK
<1>3. t.batch = {} /\ avatar[r][p] = None
  BY <1>1 DEF PledgeInv, RoomInv, CallInv, ReturnPcs, JoinPcs
<1>4. u \in Thread /\ u.amount = pledge[r][p] /\ u.player = p /\ u.batch = t.batch
  BY <1>2, AmountFacts
<1>5. \/ Goto(r, u, "j_capital") /\ UNCHANGED <<avatar, cut>>
      \/ Return(r) /\ TakesSeat(r, p, pledge[r][p])
      \/ Return(r) /\ UNCHANGED <<avatar, cut>>
  BY <1>4 DEF JoinPledge, Seat, TakesSeat, seats
<1>6. /\ UNCHANGED <<gold, diamond, version, pledge, calls, other, taken, charged, torn, broken>>
      /\ faults' \in Nat
  BY DEF JoinPledge, capital, history, Fate, PledgeInv, TypeOK, seats
<1> HIDE DEF u
<1>7. CASE Goto(r, u, "j_capital") /\ UNCHANGED <<avatar, cut>>
  <2>1. /\ TypeOK' /\ OthersKept(r) /\ Versioned
        /\ \A q \in Players : HoldingInv(r, q)'
        /\ th'[r].pc = "j_capital" /\ SameLocals(th'[r], u)
    BY <1>1, <1>4, <1>6, <1>7, EarlyGoto DEF Early
  <2>2. SnapshotValid(r)' /\ CallInv(r)'
    BY <1>2, <1>3, <1>4, <1>6, <1>7, <2>1 DEF SnapshotValid, CallInv, Holding, SameLocals, ReturnPcs, DeductPcs, JoinPcs
  <2> QED
    BY <2>1, <2>2 DEF Kept, RoomInv
<1>8. CASE Return(r) /\ (TakesSeat(r, p, pledge[r][p]) \/ UNCHANGED <<avatar, cut>>)
  BY <1>1, <1>6, <1>8, EarlyReturn DEF Early
<1> QED
  BY <1>5, <1>7, <1>8

\* joinGame reads the account: the row it holds is the present one.
LEMMA JoinCapitalStep ==
  ASSUME PledgeInv, NEW r \in Rooms, JoinCapital(r)
  PROVE  Kept(r)
<1> DEFINE t == th[r]
           p == th[r].player
<1>1. t.pc = "j_capital"
  BY DEF JoinCapital, seats
<1>2. t \in Thread /\ p \in Players /\ t.amount \in Nat
  BY <1>1, ThreadFacts, AmountIsNat DEF PledgeInv, DeductPcs
<1>3. t.batch = {} /\ avatar[r][p] = None /\ t.amount = pledge[r][p]
  BY <1>1 DEF PledgeInv, RoomInv, CallInv, ReturnPcs, JoinPcs
<1>4. /\ Read(t) \in Thread /\ Read(t).player = p /\ Read(t).batch = t.batch
      /\ Read(t).amount = t.amount /\ Read(t).gold = gold[p]
      /\ Read(t).diamond = diamond[p] /\ Read(t).version = version[p]
  BY <1>2, ReadFacts DEF PledgeInv
<1>5. gold[p] \in Int /\ diamond[p] \in Nat /\ version[p] \in Nat
  BY <1>2 DEF PledgeInv, TypeOK
<1>6. \/ /\ Goto(r, Read(t), "j_debit") /\ UNCHANGED <<avatar, cut>>
         /\ t.amount < PledgeNeed /\ ~(gold[p] < PledgeNeed - t.amount)
      \/ Return(r) /\ TakesSeat(r, p, pledge[r][p])
      \/ Return(r) /\ UNCHANGED <<avatar, cut>>
  BY <1>3, <1>4 DEF JoinCapital, Seat, TakesSeat, seats
<1>7. /\ UNCHANGED <<gold, diamond, version, pledge, calls, other, taken, charged, torn, broken>>
      /\ faults' \in Nat
  BY DEF JoinCapital, capital, history, Fate, PledgeInv, TypeOK, seats
<1>8. CASE /\ Goto(r, Read(t), "j_debit") /\ UNCHANGED <<avatar, cut>>
           /\ t.amount < PledgeNeed /\ ~(gold[p] < PledgeNeed - t.amount)
  <2>1. /\ TypeOK' /\ OthersKept(r) /\ Versioned
        /\ \A q \in Players : HoldingInv(r, q)'
        /\ th'[r].pc = "j_debit" /\ SameLocals(th'[r], Read(t))
    BY <1>1, <1>4, <1>7, <1>8, EarlyGoto DEF Early
  <2>2. SnapshotValid(r)'
    BY <1>4, <1>5, <1>7, <2>1 DEF SnapshotValid, SameLocals, Matches
  <2>3. CallInv(r)'
    BY <1>2, <1>3, <1>4, <1>5, <1>7, <1>8, <2>1, ConstantsAssumption
    DEF CallInv, SameLocals, ReturnPcs, DeductPcs, JoinPcs
  <2> QED
    BY <2>1, <2>2, <2>3 DEF Kept, RoomInv
<1>9. CASE Return(r) /\ (TakesSeat(r, p, pledge[r][p]) \/ UNCHANGED <<avatar, cut>>)
  BY <1>1, <1>7, <1>9, EarlyReturn DEF Early
<1> QED
  BY <1>6, <1>8, <1>9

\* A conditional update of `capital` that matches: account, version and holding
\* change together.
LEMMA WriteGoldFacts ==
  ASSUME TypeOK, NEW r \in Rooms, NEW p \in Players, NEW t, t.player = p,
         NEW g \in Int, NEW m \in Int, WriteGold(r, t, g, m),
         cut' = cut, g >= 0 \/ \E s \in Rooms : <<s, p>> \in cut
  PROVE  /\ GoldTyped' /\ version' \in [Players -> Nat]
         /\ diamond' = diamond /\ charged' = charged
         /\ Versioned
         /\ taken' \in [Rooms -> [Players -> Int]]
         /\ \A s \in Rooms : s # r => taken'[s] = taken[s]
         /\ taken'[r][p] = taken[r][p] + m
         /\ \A q \in Players : q # p => taken'[r][q] = taken[r][q]
<1>1. /\ GoldTyped' /\ version' \in [Players -> Nat]
      /\ diamond' = diamond /\ charged' = charged
      /\ Versioned
  <2>1. /\ gold' = [gold EXCEPT ![p] = g] /\ gold \in [Players -> Int]
        /\ \A q \in Players : gold[q] >= 0 \/ \E s \in Rooms : <<s, q>> \in cut
    BY DEF WriteGold, TypeOK
  <2>2. GoldTyped'
    BY <2>1 DEF GoldTyped
  <2> QED
    BY <2>2 DEF WriteGold, TypeOK, Versioned
<1>2. /\ taken' = [taken EXCEPT ![r][p] = taken[r][p] + m]
      /\ taken[r][p] + m \in Int
  BY DEF WriteGold, TypeOK
<1> QED
  BY <1>1, <1>2, TakenCell, ZenonT(60)

\* The invariant for a player of room r whom the call is not about.
LEMMA OtherPlayer ==
  ASSUME PledgeInv, NEW r \in Rooms, NEW q \in Players,
         q # th[r].player, q # th'[r].player \/ th'[r].pc \in {"idle", "r_pledge"},
         pledge'[r][q] = pledge[r][q], taken'[r][q] = taken[r][q],
         (<<r, q>> \in torn') = (<<r, q>> \in torn),
         (<<r, q>> \in broken') = (<<r, q>> \in broken),
         (<<r, q>> \in cut') = (<<r, q>> \in cut),
         \/ avatar'[r][q] = None
         \/ /\ avatar'[r][q] = avatar[r][q]
            /\ q \in th'[r].batch \/ q \notin th[r].batch
  PROVE  HoldingInv(r, q)'
<1>1. Expected(r, q) = pledge[r][q] /\ Expected(r, q)' = pledge[r][q]
  BY DEF Expected, DeductPcs
<1>2. ~(th'[r].player = q /\ th'[r].pc \in DeductPcs)
  BY DEF DeductPcs
<1>3. HoldingInv(r, q)
  BY DEF PledgeInv, RoomInv
<1> QED
  BY <1>1, <1>2, <1>3 DEF HoldingInv, HasCopyOf

\* joinGame takes the gold: the room now holds the full pledge, the row does not
\* yet say so, and a late failure leaves it at that.
LEMMA JoinDebitStep ==
  ASSUME PledgeInv, NEW r \in Rooms, NEW out \in Outcomes, JoinDebit(r, out)
  PROVE  Kept(r)
<1> DEFINE t == th[r]
           delta == PledgeNeed - t.amount
<1>1. t.pc = "j_debit"
  BY DEF JoinDebit, seats
<1> PICK p \in Players : p = th[r].player
  BY <1>1, ThreadFacts DEF PledgeInv
<1>2. t \in Thread /\ t.player = p /\ t.amount \in Nat /\ t.gold \in Int
  BY <1>1, ThreadFacts, AmountIsNat DEF PledgeInv, DeductPcs
<1>3. /\ t.batch = {} /\ avatar[r][p] = None /\ t.amount = pledge[r][p]
      /\ t.amount < PledgeNeed /\ t.gold >= delta
  BY <1>1, <1>2 DEF PledgeInv, RoomInv, CallInv, ReturnPcs, JoinPcs
<1>4. delta \in Int /\ t.gold - delta \in Nat /\ PledgeNeed \in Nat
  BY <1>2, <1>3, ConstantsAssumption
<1>5. UNCHANGED <<pledge, avatar, cut, calls, other, torn>> /\ faults' \in Nat
  BY DEF JoinDebit, Fate, PledgeInv, TypeOK, seats
<1>6. CASE ~(Matches(t) /\ out # "lost")
  <2>1. /\ Return(r) /\ UNCHANGED <<gold, diamond, version, taken, charged, broken>>
    BY <1>6 DEF JoinDebit, capital, Mark, seats
  <2> QED
    BY <1>1, <1>5, <2>1, EarlyReturn DEF Early
<1>7. CASE Matches(t) /\ out # "lost"
  <2>1. WriteGold(r, t, t.gold - delta, delta)
    BY <1>7 DEF JoinDebit, seats
  <2>2. /\ GoldTyped' /\ version' \in [Players -> Nat]
        /\ diamond' = diamond /\ charged' = charged
        /\ Versioned
        /\ taken' \in [Rooms -> [Players -> Int]]
        /\ \A s \in Rooms : s # r => taken'[s] = taken[s]
        /\ taken'[r][p] = taken[r][p] + delta
        /\ \A q \in Players : q # p => taken'[r][q] = taken[r][q]
    <3>1. t.gold - delta \in Int /\ t.gold - delta >= 0 /\ TypeOK
      BY <1>2, <1>4 DEF PledgeInv
    <3> HIDE DEF delta
    <3> QED
      BY <1>2, <1>4, <1>5, <2>1, <3>1, WriteGoldFacts
  <2>3. broken' = broken \cup {<<r, p>>} \/ broken' = broken
    BY DEF JoinDebit, Mark, seats
  <2>4. HoldingInv(r, p) /\ Expected(r, p) = pledge[r][p] /\ taken[r][p] \in Int
    BY <1>1, <1>2 DEF PledgeInv, RoomInv, Expected, DeductPcs, TypeOK
  <2>5. CASE out = "ok"
    <3>1. Goto(r, t, "j_count") /\ broken' = broken
      BY <1>7, <2>5 DEF JoinDebit, Mark, seats
    <3>2. /\ th' \in [Rooms -> Thread] /\ OtherThreads(r)
          /\ th'[r].pc = "j_count" /\ SameLocals(th'[r], t)
          /\ \A s \in Rooms : th'[s].pc # "idle" => th'[s].player \in Players
      BY <1>2, <3>1, GotoFacts DEF PledgeInv, Pcs, JoinPcs
    <3>3. TypeOK' /\ OthersKept(r)
      BY <1>5, <2>2, <3>1, <3>2 DEF PledgeInv, TypeOK, OthersKept, OtherThreads, GoldTyped
    <3>4. SnapshotValid(r)' /\ CallInv(r)'
      BY <1>2, <1>3, <1>5, <3>2 DEF SnapshotValid, CallInv, Holding, SameLocals, ReturnPcs, DeductPcs, JoinPcs
    <3>5. HoldingInv(r, p)'
      <4>1. Expected(r, p)' = PledgeNeed
        BY <3>2 DEF Expected, SameLocals
      <4> QED
        BY <1>2, <1>3, <1>4, <1>5, <2>2, <2>4, <3>1, <4>1 DEF HoldingInv
    <3>6. ASSUME NEW q \in Players, q # p PROVE HoldingInv(r, q)'
      BY <1>3, <1>5, <2>2, <3>1, <3>2, <3>6, OtherPlayer DEF SameLocals
    <3> QED
      BY <2>2, <3>3, <3>4, <3>5, <3>6 DEF Kept, RoomInv
  <2>6. CASE out # "ok"
    <3>1. Return(r) /\ broken' = broken \cup {<<r, p>>}
      BY <1>7, <2>6 DEF JoinDebit, Mark, Outcomes, seats
    <3>2. /\ th' \in [Rooms -> Thread] /\ OtherThreads(r)
          /\ th'[r].pc = "idle" /\ th'[r].batch = {}
          /\ \A s \in Rooms : th'[s].pc # "idle" => th'[s].player \in Players
      BY <3>1, ReturnFacts DEF PledgeInv
    <3>3. TypeOK'
      <4>1. broken' \subseteq Rooms \X Players
        BY <3>1 DEF PledgeInv, TypeOK
      <4> QED
        BY <1>5, <2>2, <3>2, <4>1 DEF PledgeInv, TypeOK, GoldTyped
    <3>7. OthersKept(r)
      BY <1>2, <1>5, <2>2, <3>1, <3>2 DEF OthersKept, OtherThreads
    <3>4. HoldingInv(r, p)'
      <4>1. RestHolding(r, p)'
        BY <1>2, <1>3, <1>4, <1>5, <2>2, <2>4, <3>1 DEF HoldingInv, RestHolding
      <4> QED
        BY <3>2, <4>1, IdleHolding
    <3>5. ASSUME NEW q \in Players, q # p PROVE HoldingInv(r, q)'
      <4>1. (<<r, q>> \in broken') = (<<r, q>> \in broken)
        BY <3>1, <3>5
      <4> QED
        BY <1>2, <1>3, <1>5, <2>2, <3>2, <3>5, <4>1, OtherPlayer
    <3> QED
      BY <2>2, <3>2, <3>3, <3>4, <3>5, <3>7, IdleRoom DEF Kept, RoomInv
  <2> QED
    BY <2>5, <2>6
<1> QED
  BY <1>6, <1>7

\* updateCashPledge, called by joinGame, counts the rows.
LEMMA JoinCountStep ==
  ASSUME PledgeInv, NEW r \in Rooms, JoinCount(r)
  PROVE  Kept(r)
<1> DEFINE t == th[r]
<1>1. t.pc = "j_count"
  BY DEF JoinCount, seats
<1> PICK p \in Players : p = th[r].player
  BY <1>1, ThreadFacts DEF PledgeInv
<1>2. t \in Thread /\ t.player = p /\ PledgeNeed \in Nat /\ t.amount \in Nat
  BY <1>1, ThreadFacts, AmountIsNat, ConstantsAssumption DEF PledgeInv, DeductPcs
<1>3. t.batch = {} /\ avatar[r][p] = None /\ pledge[r][p] < PledgeNeed
  BY <1>1, <1>2 DEF PledgeInv, RoomInv, CallInv, ReturnPcs, JoinPcs
<1>4. /\ UNCHANGED <<gold, diamond, version, pledge, avatar, cut, calls, other, taken, charged, torn>>
      /\ faults' \in Nat
  BY DEF JoinCount, capital, Fate, PledgeInv, TypeOK, seats
<1>5. HoldingInv(r, p) /\ Expected(r, p) = PledgeNeed /\ taken[r][p] \in Int /\ pledge[r][p] \in Nat
  BY <1>1 DEF PledgeInv, RoomInv, Expected, TypeOK
<1>6. CASE Goto(r, t, "j_row") /\ UNCHANGED broken
  <2>1. /\ th' \in [Rooms -> Thread] /\ OtherThreads(r)
        /\ th'[r].pc = "j_row" /\ SameLocals(th'[r], t)
        /\ \A s \in Rooms : th'[s].pc # "idle" => th'[s].player \in Players
    BY <1>2, <1>6, GotoFacts DEF PledgeInv, Pcs, JoinPcs
  <2>2. TypeOK' /\ OthersKept(r) /\ Versioned
    BY <1>4, <1>6, <2>1 DEF PledgeInv, TypeOK, OthersKept, OtherThreads, Versioned
  <2>3. SnapshotValid(r)' /\ CallInv(r)'
    BY <1>2, <1>3, <1>4, <2>1 DEF SnapshotValid, CallInv, Holding, SameLocals, ReturnPcs, DeductPcs, JoinPcs
  <2>4. HoldingInv(r, p)'
    <3>1. Expected(r, p)' = PledgeNeed
      BY <1>2, <2>1 DEF Expected, SameLocals
    <3> QED
      BY <1>3, <1>4, <1>5, <1>6, <3>1 DEF HoldingInv
  <2>5. ASSUME NEW q \in Players, q # p PROVE HoldingInv(r, q)'
    BY <1>2, <1>3, <1>4, <1>6, <2>1, <2>5, OtherPlayer DEF SameLocals
  <2> QED
    BY <2>2, <2>3, <2>4, <2>5 DEF Kept, RoomInv
<1>7. CASE Return(r) /\ broken' = broken \cup {<<r, p>>}
  <2>1. /\ th' \in [Rooms -> Thread] /\ OtherThreads(r)
        /\ th'[r].pc = "idle" /\ th'[r].batch = {}
        /\ \A s \in Rooms : th'[s].pc # "idle" => th'[s].player \in Players
    BY <1>7, ReturnFacts DEF PledgeInv
  <2>2. TypeOK'
    <3>1. GoldTyped'
      BY <1>4, GoldKept DEF PledgeInv
    <3> QED
      <4>1. TypeOK
        BY DEF PledgeInv
      <4>2. broken \subseteq Rooms \X Players
        BY <4>1 DEF TypeOK
      <4>3. broken' \subseteq Rooms \X Players
        BY <1>7, <4>2
      <4>4. /\ diamond' \in [Players -> Nat] /\ version' \in [Players -> Nat]
            /\ pledge' \in [Rooms -> [Players -> Nat]]
            /\ avatar' \in [Rooms -> [Players -> Copies \cup {None}]]
            /\ calls' \in Nat /\ other' \in Nat /\ faults' \in Nat
            /\ taken' \in [Rooms -> [Players -> Int]] /\ charged' \in [Players -> Nat]
            /\ torn' \subseteq Rooms \X Players /\ cut' \subseteq Rooms \X Players
        BY <1>4, <4>1 DEF TypeOK
      <4> QED
        BY <2>1, <3>1, <4>4, <4>3 DEF TypeOK, GoldTyped
  <2>5. OthersKept(r) /\ Versioned
    BY <1>4, <1>7, <2>1 DEF OthersKept, OtherThreads, Versioned
  <2>3. HoldingInv(r, p)'
    <3>1. RestHolding(r, p)'
      BY <1>2, <1>3, <1>4, <1>5, <1>7 DEF HoldingInv, RestHolding
    <3> QED
      BY <2>1, <3>1, IdleHolding
  <2>4. ASSUME NEW q \in Players, q # p PROVE HoldingInv(r, q)'
    <3>1. (<<r, q>> \in broken') = (<<r, q>> \in broken)
      BY <1>7, <2>4
    <3> QED
      BY <1>2, <1>3, <1>4, <2>1, <2>4, <3>1, OtherPlayer
  <2> QED
    BY <2>1, <2>2, <2>3, <2>4, <2>5, IdleRoom DEF Kept, RoomInv
<1> QED
  BY <1>2, <1>6, <1>7 DEF JoinCount, seats

\* joinGame writes the pledge row and seats the avatar.
LEMMA JoinRowStep ==
  ASSUME PledgeInv, NEW r \in Rooms, NEW out \in Outcomes, JoinRow(r, out)
  PROVE  Kept(r)
<1> DEFINE t == th[r]
<1>1. t.pc = "j_row"
  BY DEF JoinRow, seats
<1> PICK p \in Players : p = th[r].player
  BY <1>1, ThreadFacts DEF PledgeInv
<1>2. t \in Thread /\ t.player = p /\ PledgeNeed \in Nat
  BY <1>1, ThreadFacts, ConstantsAssumption DEF PledgeInv
<1>3. t.batch = {} /\ avatar[r][p] = None /\ pledge[r][p] < PledgeNeed
  BY <1>1, <1>2 DEF PledgeInv, RoomInv, CallInv, ReturnPcs, JoinPcs
<1>4. /\ UNCHANGED <<gold, diamond, version, calls, other, taken, charged, torn>>
      /\ faults' \in Nat
  BY DEF JoinRow, capital, Fate, PledgeInv, TypeOK, seats
<1>5. HoldingInv(r, p) /\ Expected(r, p) = PledgeNeed /\ taken[r][p] \in Int /\ pledge[r][p] \in Nat
  BY <1>1 DEF PledgeInv, RoomInv, Expected, TypeOK
<1>6. Return(r)
  BY DEF JoinRow, Seat, seats
<1>7. /\ th' \in [Rooms -> Thread] /\ OtherThreads(r)
      /\ th'[r].pc = "idle" /\ th'[r].batch = {}
      /\ \A s \in Rooms : th'[s].pc # "idle" => th'[s].player \in Players
  BY <1>6, ReturnFacts DEF PledgeInv
<1>8. /\ pledge' \in [Rooms -> [Players -> Nat]]
      /\ \A s \in Rooms : s # r => pledge'[s] = pledge[s]
      /\ \A q \in Players : q # p => pledge'[r][q] = pledge[r][q]
      /\ pledge'[r][p] = IF out = "lost" THEN pledge[r][p] ELSE PledgeNeed
  <2>1. CASE out = "lost"
    BY <2>1 DEF JoinRow, PledgeInv, TypeOK, seats
  <2>2. CASE out # "lost"
    <3>1. pledge' = [pledge EXCEPT ![r][p] = PledgeNeed]
      BY <1>2, <2>2 DEF JoinRow, seats
    <3> QED
      BY <1>2, <2>2, <3>1, PledgeCell DEF PledgeInv
  <2> QED
    BY <2>1, <2>2
<1>9. /\ avatar' \in [Rooms -> [Players -> Copies \cup {None}]]
      /\ cut' \subseteq Rooms \X Players /\ cut \subseteq cut'
      /\ \A s \in Rooms : s # r => avatar'[s] = avatar[s]
      /\ \A s \in Rooms, q \in Players :
           s # r \/ q # p => (<<s, q>> \in cut') = (<<s, q>> \in cut)
      /\ \A q \in Players : q # p => avatar'[r][q] = avatar[r][q]
      /\ \/ out # "ok" /\ avatar'[r][p] = None
         \/ /\ out = "ok"
            /\ \/ avatar'[r][p] = PledgeNeed
               \/ <<r, p>> \in cut' /\ avatar'[r][p] = ToInt(PledgeNeed)
  <2>1. CASE out # "ok"
    BY <1>3, <2>1 DEF JoinRow, PledgeInv, TypeOK, seats
  <2>2. CASE out = "ok"
    <3>1. TakesSeat(r, p, PledgeNeed)
      BY <1>2, <2>2 DEF JoinRow, Seat, TakesSeat
    <3> QED
      BY <1>2, <2>2, <3>1, TakesSeatFacts DEF PledgeInv
  <2> QED
    BY <2>1, <2>2
<1>10. broken' = IF out = "lost" THEN broken \cup {<<r, p>>} ELSE broken
  BY <1>2 DEF JoinRow, Mark, seats
<1>11. TypeOK'
  <2>1. GoldTyped'
    BY <1>4, <1>9, GoldKept DEF PledgeInv
  <2>2. broken' \subseteq Rooms \X Players
    BY <1>10 DEF PledgeInv, TypeOK
  <2> QED
    BY <1>4, <1>7, <1>8, <1>9, <2>1, <2>2 DEF PledgeInv, TypeOK, GoldTyped
<1>14. OthersKept(r) /\ Versioned
  BY <1>4, <1>7, <1>8, <1>9, <1>10 DEF OthersKept, OtherThreads, Versioned
<1>12. HoldingInv(r, p)'
  <2>1. RestHolding(r, p)'
    BY <1>2, <1>3, <1>4, <1>5, <1>8, <1>9, <1>10 DEF HoldingInv, RestHolding, HasCopyOf, Outcomes
  <2> QED
    BY <1>7, <2>1, IdleHolding
<1>13. ASSUME NEW q \in Players, q # p PROVE HoldingInv(r, q)'
  <2>1. (<<r, q>> \in broken') = (<<r, q>> \in broken)
    BY <1>10, <1>13
  <2> QED
    BY <1>2, <1>3, <1>4, <1>7, <1>8, <1>9, <1>13, <2>1, OtherPlayer
<1> QED
  BY <1>7, <1>11, <1>12, <1>13, <1>14, IdleRoom DEF Kept, RoomInv

-----------------------------------------------------------------------------
(* returnCashPledge *)

\* The call record with which returnCashPledge starts on a player.
LEMMA ReleaseFacts ==
  ASSUME NEW p \in Players, NEW b \in SUBSET Players, NEW d \in SUBSET Players
  PROVE  /\ Release(p, b, d) \in Thread
         /\ Release(p, b, d).pc = "r_pledge" /\ Release(p, b, d).player = p
         /\ Release(p, b, d).batch = b /\ Release(p, b, d).todo = d
         /\ Release(p, b, d).amount = 0
  BY NatCopies DEF Release, Idle, Thread, Pcs, ReturnPcs

\* A room that starts to return the pledges of b, beginning with p.
LEMMA ReleaseStep ==
  ASSUME PledgeInv, NEW r \in Rooms, NEW p \in Players,
         NEW b \in SUBSET Players, NEW d \in SUBSET Players, p \in b, d \subseteq b,
         Start(r, Release(p, b, d)),
         UNCHANGED <<gold, diamond, version, pledge, avatar, cut, other, faults,
                     taken, charged, torn, broken>>
  PROVE  Kept(r)
<1> DEFINE u == Release(p, b, d)
<1>1. /\ u \in Thread /\ u.pc = "r_pledge" /\ u.player = p
      /\ u.batch = b /\ u.todo = d /\ u.amount = 0
  BY ReleaseFacts
<1>2. th' = [th EXCEPT ![r] = u] /\ th[r].pc = "idle" /\ calls' = calls + 1
  BY DEF Start
<1> HIDE DEF u
<1>3. TypeOK'
  <2>1. GoldTyped'
    BY GoldKept DEF PledgeInv
  <2>2. /\ th' \in [Rooms -> Thread] /\ calls' \in Nat
        /\ \A s \in Rooms : th'[s].pc # "idle" => th'[s].player \in Players
    BY <1>1, <1>2 DEF PledgeInv, TypeOK
  <2> QED
    BY <2>1, <2>2 DEF PledgeInv, TypeOK, GoldTyped
<1>4. th'[r] = u /\ \A s \in Rooms : s # r => th'[s] = th[s]
  BY <1>2 DEF PledgeInv, TypeOK
<1>5. OthersKept(r) /\ Versioned
  BY <1>4 DEF OthersKept, Versioned
<1>6. SnapshotValid(r)' /\ CallInv(r)'
  BY <1>1, <1>4 DEF SnapshotValid, CallInv, Holding, ReturnPcs, DeductPcs, JoinPcs
<1>7. ASSUME NEW q \in Players PROVE HoldingInv(r, q)'
  <2>1. Expected(r, q) = pledge[r][q] /\ Expected(r, q)' = pledge[r][q]
    BY <1>1, <1>2, <1>4 DEF Expected, DeductPcs
  <2>2. th[r].batch = {} /\ th[r].pc \notin DeductPcs /\ u.pc \notin DeductPcs
    BY <1>1, <1>2 DEF PledgeInv, RoomInv, CallInv, ReturnPcs, DeductPcs
  <2> QED
    BY <1>1, <1>4, <2>1, <2>2 DEF PledgeInv, RoomInv, HoldingInv, HasCopyOf
<1> QED
  BY <1>3, <1>5, <1>6, <1>7 DEF Kept, RoomInv

\* A player leaves or is kicked: returnCashPledge starts.
LEMMA LeaveStep ==
  ASSUME PledgeInv, NEW r \in Rooms, NEW p \in Players, Leave(r, p)
  PROVE  Kept(r)
<1>1. /\ Start(r, Release(p, {p}, {}))
      /\ UNCHANGED <<gold, diamond, version, pledge, avatar, cut, other, faults,
                     taken, charged, torn, broken>>
  BY DEF Leave, capital, history, seats
<1> QED
  BY <1>1, ReleaseStep

\* The room kicks everybody: returnCashPledge starts on the first avatar.
LEMMA KickAllAvatarsStep ==
  ASSUME PledgeInv, NEW r \in Rooms, KickAllAvatars(r)
  PROVE  Kept(r)
<1>1. PICK p \in Present(r) :
        Start(r, Release(p, Present(r), Present(r) \ {p}))
  BY DEF KickAllAvatars, seats
<1>2. /\ UNCHANGED <<gold, diamond, version, pledge, avatar, cut, other, faults,
                     taken, charged, torn, broken>>
      /\ Present(r) \subseteq Players
  BY DEF KickAllAvatars, capital, history, Present, seats
<1> QED
  BY <1>1, <1>2, ReleaseStep

NextAvatar(r, t) ==
  \/ /\ th'[r].pc = "idle" /\ th'[r].batch = {}
     /\ \A q \in t.batch : avatar'[r][q] = None
     /\ \A q \in Players \ t.batch : avatar'[r][q] = avatar[r][q]
  \/ /\ th'[r].pc = "r_pledge" /\ th'[r].batch = t.batch
     /\ th'[r].player \in t.batch /\ th'[r].todo \subseteq t.batch
     /\ th'[r].amount = 0
     /\ \A q \in Players \ {t.player} : avatar'[r][q] = avatar[r][q]
     /\ avatar'[r][t.player] \in {avatar[r][t.player], 0}

\* After returnCashPledge the caller starts on another avatar of the batch, or
\* removes the batch and is done.
LEMMA ReturnedFacts ==
  ASSUME TypeOK, NEW r \in Rooms, NEW t \in Thread, t.player \in Players,
         t.batch \subseteq Players, t.todo \subseteq t.batch,
         NEW out \in Outcomes, Returned(r, t, out)
  PROVE  /\ th' \in [Rooms -> Thread] /\ OtherThreads(r)
         /\ \A s \in Rooms : th'[s].pc # "idle" => th'[s].player \in Players
         /\ avatar' \in [Rooms -> [Players -> Copies \cup {None}]]
         /\ \A s \in Rooms : s # r => avatar'[s] = avatar[s]
         /\ UNCHANGED cut
         /\ NextAvatar(r, t)
<1>1. CASE /\ avatar' = [avatar EXCEPT ![r] =
                [p \in Players |-> IF p \in t.batch THEN None ELSE @[p]]]
           /\ Return(r) /\ UNCHANGED cut
  <2>1. /\ th' \in [Rooms -> Thread] /\ OtherThreads(r)
        /\ th'[r].pc = "idle" /\ th'[r].batch = {}
        /\ \A s \in Rooms : th'[s].pc # "idle" => th'[s].player \in Players
    BY <1>1, ReturnFacts
  <2>2. /\ avatar' \in [Rooms -> [Players -> Copies \cup {None}]]
        /\ \A s \in Rooms : s # r => avatar'[s] = avatar[s]
        /\ \A q \in t.batch : avatar'[r][q] = None
        /\ \A q \in Players \ t.batch : avatar'[r][q] = avatar[r][q]
    BY <1>1 DEF TypeOK
  <2> QED
    BY <1>1, <2>1, <2>2 DEF NextAvatar
<1>2. ASSUME NEW p \in t.todo,
             avatar' = IF out = "ok" THEN [avatar EXCEPT ![r][t.player] = 0] ELSE avatar,
             th' = [th EXCEPT ![r] = Release(p, t.batch, t.todo \ {p})],
             UNCHANGED cut
      PROVE  /\ th' \in [Rooms -> Thread] /\ OtherThreads(r)
             /\ \A s \in Rooms : th'[s].pc # "idle" => th'[s].player \in Players
             /\ avatar' \in [Rooms -> [Players -> Copies \cup {None}]]
             /\ \A s \in Rooms : s # r => avatar'[s] = avatar[s]
             /\ th'[r].pc = "r_pledge" /\ th'[r].batch = t.batch
             /\ th'[r].player \in t.batch /\ th'[r].todo \subseteq t.batch
             /\ th'[r].amount = 0
             /\ \A q \in Players \ {t.player} : avatar'[r][q] = avatar[r][q]
             /\ avatar'[r][t.player] \in {avatar[r][t.player], 0}
  <2> DEFINE u == Release(p, t.batch, t.todo \ {p})
  <2>1. /\ u \in Thread /\ u.pc = "r_pledge" /\ u.player = p
        /\ u.batch = t.batch /\ u.todo = t.todo \ {p} /\ u.amount = 0
    BY <1>2, ReleaseFacts
  <2>2. th' = [th EXCEPT ![r] = u]
    BY <1>2
  <2> HIDE DEF u
  <2>3. /\ th' \in [Rooms -> Thread] /\ OtherThreads(r) /\ th'[r] = u
        /\ \A s \in Rooms : th'[s].pc # "idle" => th'[s].player \in Players
    BY <2>1, <2>2 DEF TypeOK, OtherThreads
  <2>4. /\ avatar' \in [Rooms -> [Players -> Copies \cup {None}]]
        /\ \A s \in Rooms : s # r => avatar'[s] = avatar[s]
        /\ \A q \in Players \ {t.player} : avatar'[r][q] = avatar[r][q]
        /\ avatar'[r][t.player] \in {avatar[r][t.player], 0}
    <3>1. CASE out = "ok"
      <4>1. 0 \in Copies \cup {None}
        BY NatCopies
      <4>2. avatar' = [avatar EXCEPT ![r][t.player] = 0]
        BY <1>2, <3>1
      <4> QED
        BY <4>1, <4>2, AvatarCell, ZenonT(60)
    <3>2. CASE out # "ok"
      BY <1>2, <3>2 DEF TypeOK
    <3> QED
      BY <3>1, <3>2
  <2> QED
    BY <2>1, <2>3, <2>4
<1> QED
  BY <1>1, <1>2 DEF Returned, NextAvatar

\* The end of returnCashPledge for player p keeps the invariant if what the room
\* still holds for p fits the row.
LEMMA ReturnedStep ==
  ASSUME PledgeInv, NEW r \in Rooms, NEW p \in Players,
         th[r].pc \in ReturnPcs, th[r].player = p,
         NEW out \in Outcomes, Returned(r, th[r], out),
         UNCHANGED <<torn, calls, other>>, faults' \in Nat,
         GoldTyped', diamond' \in [Players -> Nat],
         version' \in [Players -> Nat], charged' \in [Players -> Nat], Versioned,
         pledge' \in [Rooms -> [Players -> Nat]],
         \A s \in Rooms : s # r => pledge'[s] = pledge[s] /\ taken'[s] = taken[s],
         \A q \in Players : q # p => /\ pledge'[r][q] = pledge[r][q]
                                     /\ taken'[r][q] = taken[r][q],
         taken' \in [Rooms -> [Players -> Int]],
         broken' = broken \/ broken' = broken \cup {<<r, p>>},
         <<r, p>> \notin torn => taken'[r][p] >= pledge'[r][p],
         <<r, p>> \notin torn /\ <<r, p>> \notin broken' /\ <<r, p>> \notin cut =>
           taken'[r][p] = pledge'[r][p]
  PROVE  Kept(r)
<1>0. TypeOK
  BY DEF PledgeInv
<1>1. PICK t \in Thread : /\ t = th[r] /\ t.batch \subseteq Players
                          /\ t.player \in Players
  BY <1>0, ThreadFacts DEF ReturnPcs
<1>2. p \in t.batch /\ t.todo \subseteq t.batch /\ t.player = p
  BY <1>1 DEF PledgeInv, RoomInv, CallInv
<1>2a. Returned(r, t, out)
  BY <1>1
<1>3. /\ th' \in [Rooms -> Thread] /\ OtherThreads(r)
      /\ \A s \in Rooms : th'[s].pc # "idle" => th'[s].player \in Players
      /\ avatar' \in [Rooms -> [Players -> Copies \cup {None}]]
      /\ \A s \in Rooms : s # r => avatar'[s] = avatar[s]
      /\ UNCHANGED cut
  BY <1>0, <1>1, <1>2, <1>2a, ReturnedFacts
<1>4. \/ /\ th'[r].pc = "idle" /\ th'[r].batch = {}
         /\ \A q \in t.batch : avatar'[r][q] = None
         /\ \A q \in Players \ t.batch : avatar'[r][q] = avatar[r][q]
      \/ /\ th'[r].pc = "r_pledge" /\ th'[r].batch = t.batch
         /\ th'[r].player \in t.batch /\ th'[r].todo \subseteq t.batch
         /\ th'[r].amount = 0
         /\ \A q \in Players \ {t.player} : avatar'[r][q] = avatar[r][q]
         /\ avatar'[r][t.player] \in {avatar[r][t.player], 0}
  <2>1. NextAvatar(r, t)
    BY <1>0, <1>1, <1>2, <1>2a, ReturnedFacts
  <2> QED
    BY <2>1 DEF NextAvatar
<1>5. TypeOK'
  <2>1. broken' \subseteq Rooms \X Players
    BY <1>0 DEF TypeOK
  <2> QED
    BY <1>0, <1>3, <2>1 DEF TypeOK, GoldTyped
<1>6. OthersKept(r)
  BY <1>3 DEF OthersKept, OtherThreads
<1>7. SnapshotValid(r)' /\ CallInv(r)'
  BY <1>4 DEF SnapshotValid, CallInv, Holding, ReturnPcs, DeductPcs, JoinPcs
<1>8. HoldingInv(r, p)'
  <2>1. Expected(r, p)' = pledge'[r][p] /\ (avatar'[r][p] = None \/ p \in th'[r].batch)
    BY <1>2, <1>4 DEF Expected, DeductPcs
  <2>2. avatar[r][p] \in Nat \cup {None} \/ <<r, p>> \in cut
    BY DEF PledgeInv, RoomInv, HoldingInv
  <2>3. avatar'[r][p] \in {avatar[r][p], 0, None}
    BY <1>2, <1>4
  <2>4. ~(th'[r].player = p /\ th'[r].pc \in DeductPcs)
    BY <1>4 DEF DeductPcs
  <2> QED
    BY <1>3, <2>1, <2>2, <2>3, <2>4 DEF HoldingInv
<1>9. ASSUME NEW q \in Players, q # p PROVE HoldingInv(r, q)'
  <2>1. (<<r, q>> \in broken') = (<<r, q>> \in broken)
    BY <1>9
  <2>2. \/ avatar'[r][q] = None
        \/ /\ avatar'[r][q] = avatar[r][q]
           /\ q \in th'[r].batch \/ q \notin th[r].batch
    BY <1>1, <1>2, <1>4, <1>9
  <2>3. th'[r].pc \in {"idle", "r_pledge"}
    BY <1>4
  <2> QED
    BY <1>3, <1>9, <2>1, <2>2, <2>3, OtherPlayer
<1> QED
  BY <1>5, <1>6, <1>7, <1>8, <1>9 DEF Kept, RoomInv

\* returnCashPledge reads the row it is going to pay out.
LEMMA ReturnPledgeStep ==
  ASSUME PledgeInv, NEW r \in Rooms, ReturnPledge(r)
  PROVE  Kept(r)
<1> DEFINE t == th[r]
           u == [t EXCEPT !.amount = pledge[r][t.player]]
<1>1. t.pc = "r_pledge"
  BY DEF ReturnPledge, seats
<1> PICK p \in Players : p = th[r].player
  BY <1>1, ThreadFacts DEF PledgeInv
<1>2. t \in Thread /\ t.player = p /\ pledge[r][p] \in Nat /\ taken[r][p] \in Int
  BY <1>1, ThreadFacts DEF PledgeInv, TypeOK
<1>3. p \in t.batch /\ t.todo \subseteq t.batch
  BY <1>1, <1>2 DEF PledgeInv, RoomInv, CallInv, ReturnPcs
<1>4. /\ u \in Thread /\ u.amount = pledge[r][p] /\ u.player = p
      /\ u.batch = t.batch /\ u.todo = t.todo
  BY <1>2, AmountFacts
<1>5. /\ UNCHANGED <<gold, diamond, version, pledge, calls, other, taken, charged, torn, broken>>
      /\ faults' \in Nat
  <2>1. UNCHANGED <<gold, diamond, version, pledge, calls, other, taken, charged, torn, broken>>
    BY DEF ReturnPledge, capital, history, seats
  <2>2. Fate("ok") \/ Fate("lost")
    BY DEF ReturnPledge, seats
  <2>3. faults' \in Nat
    BY <2>2 DEF Fate, PledgeInv, TypeOK
  <2> QED
    BY <2>1, <2>3
<1>6. Expected(r, p) = pledge[r][p] /\ HoldingInv(r, p)
  BY <1>1 DEF Expected, DeductPcs, PledgeInv, RoomInv
<1>7. \/ Goto(r, u, "r_delete") /\ UNCHANGED <<avatar, cut>>
      \/ Returned(r, t, "lost")
  BY DEF ReturnPledge, seats
<1> HIDE DEF u
<1>8. CASE Returned(r, t, "lost")
  <2>1. /\ GoldTyped' /\ diamond' \in [Players -> Nat]
        /\ version' \in [Players -> Nat] /\ charged' \in [Players -> Nat]
        /\ pledge' \in [Rooms -> [Players -> Nat]]
        /\ taken' \in [Rooms -> [Players -> Int]] /\ Versioned
    <3>1. UNCHANGED cut
      BY <1>8 DEF Returned
    <3>2. GoldTyped'
      BY <1>5, <3>1, GoldKept DEF PledgeInv
    <3> QED
      BY <1>5, <3>2 DEF PledgeInv, TypeOK, Versioned
  <2>2. /\ <<r, p>> \notin torn => taken'[r][p] >= pledge'[r][p]
        /\ <<r, p>> \notin torn /\ <<r, p>> \notin broken' /\ <<r, p>> \notin cut =>
             taken'[r][p] = pledge'[r][p]
    BY <1>5, <1>6 DEF HoldingInv
  <2> QED
    BY <1>1, <1>2, <1>5, <1>8, <2>1, <2>2, ReturnedStep DEF ReturnPcs, Outcomes
<1>9. CASE Goto(r, u, "r_delete") /\ UNCHANGED <<avatar, cut>>
  <2>1. /\ th' \in [Rooms -> Thread] /\ OtherThreads(r)
        /\ th'[r].pc = "r_delete" /\ SameLocals(th'[r], u)
        /\ \A s \in Rooms : th'[s].pc # "idle" => th'[s].player \in Players
    BY <1>2, <1>4, <1>9, GotoFacts DEF PledgeInv, Pcs, ReturnPcs
  <2>2. TypeOK' /\ OthersKept(r) /\ Versioned
    BY <1>5, <1>9, <2>1 DEF PledgeInv, TypeOK, OthersKept, OtherThreads, Versioned
  <2>3. SnapshotValid(r)' /\ CallInv(r)'
    BY <1>2, <1>3, <1>4, <1>5, <2>1 DEF SnapshotValid, CallInv, Holding, SameLocals, ReturnPcs, DeductPcs, JoinPcs
  <2>4. ASSUME NEW q \in Players PROVE HoldingInv(r, q)'
    <3>1. /\ Expected(r, q) = pledge[r][q] /\ Expected(r, q)' = pledge[r][q]
          /\ th'[r].batch = t.batch /\ th[r].pc \notin DeductPcs /\ th'[r].pc \notin DeductPcs
      BY <1>1, <1>4, <1>5, <2>1 DEF Expected, DeductPcs, SameLocals
    <3> QED
      BY <1>5, <1>9, <3>1 DEF PledgeInv, RoomInv, HoldingInv, HasCopyOf
  <2> QED
    BY <2>2, <2>3, <2>4 DEF Kept, RoomInv
<1> QED
  BY <1>7, <1>8, <1>9

\* returnCashPledge deletes the row: the room still holds the gold.
LEMMA ReturnDeleteStep ==
  ASSUME PledgeInv, NEW r \in Rooms, NEW out \in Outcomes, ReturnDelete(r, out)
  PROVE  Kept(r)
<1> DEFINE t == th[r]
<1>1. t.pc = "r_delete"
  BY DEF ReturnDelete, seats
<1> PICK p \in Players : p = th[r].player
  BY <1>1, ThreadFacts DEF PledgeInv
<1>2. /\ t \in Thread /\ t.player = p /\ t.amount \in Nat
      /\ pledge[r][p] \in Nat /\ taken[r][p] \in Int
  <2>1. t.pc \notin DeductPcs /\ t.pc # "idle"
    BY <1>1 DEF DeductPcs
  <2>2. t.amount \in Nat
    BY <2>1, AmountIsNat
  <2> QED
    <3>1. TypeOK
      BY DEF PledgeInv
    <3>2. t \in Thread /\ t.player = p /\ t.gold \in Int
      BY <2>1, <3>1, ThreadFacts
    <3> QED
      BY <2>2, <3>1, <3>2 DEF TypeOK
<1>3. p \in t.batch /\ t.todo \subseteq t.batch /\ t.amount = pledge[r][p]
  BY <1>1, <1>2 DEF PledgeInv, RoomInv, CallInv, ReturnPcs
<1>4. /\ UNCHANGED <<gold, diamond, version, calls, other, taken, charged, torn, cut>>
      /\ faults' \in Nat
  <2>1. UNCHANGED cut
    BY DEF ReturnDelete, Returned, seats
  <2> QED
    BY <2>1 DEF ReturnDelete, capital, Fate, PledgeInv, TypeOK
<1>5. Expected(r, p) = pledge[r][p] /\ HoldingInv(r, p)
  BY <1>1 DEF Expected, DeductPcs, PledgeInv, RoomInv
<1>6. /\ pledge' \in [Rooms -> [Players -> Nat]]
      /\ \A s \in Rooms : s # r => pledge'[s] = pledge[s]
      /\ \A q \in Players : q # p => pledge'[r][q] = pledge[r][q]
      /\ pledge'[r][p] = IF out = "lost" THEN pledge[r][p] ELSE 0
  <2>1. CASE out = "lost"
    BY <2>1 DEF ReturnDelete, PledgeInv, TypeOK, seats
  <2>2. CASE out # "lost"
    <3>1. pledge' = [pledge EXCEPT ![r][p] = 0]
      BY <1>2, <2>2 DEF ReturnDelete, seats
    <3>2. TypeOK /\ 0 \in Nat
      BY DEF PledgeInv
    <3>3. /\ pledge' \in [Rooms -> [Players -> Nat]]
          /\ \A s \in Rooms : s # r => pledge'[s] = pledge[s]
          /\ pledge'[r][p] = 0
          /\ \A q \in Players : q # p => pledge'[r][q] = pledge[r][q]
      BY <3>1, <3>2, PledgeCell, ZenonT(60)
    <3> QED
      BY <2>2, <3>3
  <2> QED
    BY <2>1, <2>2
<1>7. broken' = IF out = "late" THEN broken \cup {<<r, p>>} ELSE broken
  BY <1>2 DEF ReturnDelete, Mark, seats
<1>8. /\ GoldTyped' /\ diamond' \in [Players -> Nat]
      /\ version' \in [Players -> Nat] /\ charged' \in [Players -> Nat]
      /\ taken' \in [Rooms -> [Players -> Int]] /\ Versioned
  <2>1. GoldTyped'
    BY <1>4, GoldKept DEF PledgeInv
  <2> QED
    BY <1>4, <2>1 DEF PledgeInv, TypeOK, Versioned
<1>9. CASE out = "ok" /\ t.amount > 0
  <2>1. Goto(r, t, "r_capital") /\ UNCHANGED <<avatar, cut>> /\ broken' = broken
    BY <1>7, <1>9 DEF ReturnDelete, seats
  <2>2. /\ th' \in [Rooms -> Thread] /\ OtherThreads(r)
        /\ th'[r].pc = "r_capital" /\ SameLocals(th'[r], t)
        /\ \A s \in Rooms : th'[s].pc # "idle" => th'[s].player \in Players
    BY <1>2, <2>1, GotoFacts DEF PledgeInv, Pcs, ReturnPcs
  <2>3. TypeOK' /\ OthersKept(r)
    <3>1. TypeOK'
      BY <1>4, <1>6, <1>8, <2>1, <2>2 DEF PledgeInv, TypeOK, GoldTyped
    <3>2. OthersKept(r)
      BY <1>4, <1>6, <2>1, <2>2 DEF OthersKept, OtherThreads
    <3> QED
      BY <3>1, <3>2
  <2>4. SnapshotValid(r)' /\ CallInv(r)'
    BY <1>2, <1>3, <1>6, <1>9, <2>2 DEF SnapshotValid, CallInv, Holding, SameLocals, ReturnPcs, DeductPcs, JoinPcs
  <2>5. HoldingInv(r, p)'
    <3>1. Expected(r, p)' = t.amount /\ p \in th'[r].batch
      BY <1>2, <1>3, <2>2 DEF Expected, SameLocals
    <3> QED
      BY <1>3, <1>4, <1>5, <2>1, <3>1 DEF HoldingInv, HasCopyOf
  <2>6. ASSUME NEW q \in Players, q # p PROVE HoldingInv(r, q)'
    <3>1. q # th'[r].player /\ th'[r].batch = t.batch
      BY <1>2, <2>2, <2>6 DEF SameLocals
    <3> QED
      BY <1>2, <1>4, <1>6, <2>1, <2>6, <3>1, OtherPlayer
  <2> QED
    BY <1>8, <2>3, <2>4, <2>5, <2>6 DEF Kept, RoomInv
<1>10. CASE ~(out = "ok" /\ t.amount > 0)
  <2>1. Returned(r, t, out)
    BY <1>10 DEF ReturnDelete, seats
  <2>2. /\ <<r, p>> \notin torn => taken'[r][p] >= pledge'[r][p]
        /\ <<r, p>> \notin torn /\ <<r, p>> \notin broken' /\ <<r, p>> \notin cut =>
             taken'[r][p] = pledge'[r][p]
    BY <1>2, <1>3, <1>4, <1>5, <1>6, <1>7, <1>10 DEF HoldingInv, Outcomes
  <2>3. broken' = broken \/ broken' = broken \cup {<<r, p>>}
    BY <1>7
  <2>4. \A s \in Rooms : s # r => pledge'[s] = pledge[s] /\ taken'[s] = taken[s]
    BY <1>4, <1>6
  <2>5. \A q \in Players : q # p => pledge'[r][q] = pledge[r][q] /\ taken'[r][q] = taken[r][q]
    BY <1>4, <1>6
  <2> QED
    BY <1>1, <1>2, <1>4, <1>6, <1>8, <2>1, <2>2, <2>3, <2>4, <2>5, ReturnedStep DEF ReturnPcs
<1> QED
  BY <1>9, <1>10

\* returnCashPledge reads the account.
LEMMA ReturnCapitalStep ==
  ASSUME PledgeInv, NEW r \in Rooms, ReturnCapital(r)
  PROVE  Kept(r)
<1> DEFINE t == th[r]
<1>1. t.pc = "r_capital"
  BY DEF ReturnCapital, seats
<1> PICK p \in Players : p = th[r].player
  BY <1>1, ThreadFacts DEF PledgeInv
<1>2. /\ t \in Thread /\ t.player = p /\ t.amount \in Nat
      /\ pledge[r][p] \in Nat /\ taken[r][p] \in Int
  <2>1. t.pc \notin DeductPcs /\ t.pc # "idle"
    BY <1>1 DEF DeductPcs
  <2>2. t.amount \in Nat
    BY <2>1, AmountIsNat
  <2> QED
    <3>1. TypeOK
      BY DEF PledgeInv
    <3>2. t \in Thread /\ t.player = p /\ t.gold \in Int
      BY <2>1, <3>1, ThreadFacts
    <3> QED
      BY <2>2, <3>1, <3>2 DEF TypeOK
<1>3. p \in t.batch /\ t.todo \subseteq t.batch /\ pledge[r][p] = 0
  BY <1>1, <1>2 DEF PledgeInv, RoomInv, CallInv, ReturnPcs
<1>4. /\ UNCHANGED <<gold, diamond, version, pledge, calls, other, taken, charged, torn, cut>>
      /\ faults' \in Nat
  <2>1. UNCHANGED <<gold, diamond, version, pledge, calls, other, taken, charged, torn, cut>>
    BY DEF ReturnCapital, Returned, capital, seats
  <2>2. Fate("ok") \/ Fate("lost")
    BY DEF ReturnCapital, seats
  <2>3. faults' \in Nat
    BY <2>2 DEF Fate, PledgeInv, TypeOK
  <2> QED
    BY <2>1, <2>3
<1>5. Expected(r, p) = t.amount /\ HoldingInv(r, p)
  BY <1>1, <1>2 DEF Expected, PledgeInv, RoomInv
<1>6. /\ Read(t) \in Thread /\ Read(t).player = p /\ Read(t).batch = t.batch
      /\ Read(t).todo = t.todo /\ Read(t).amount = t.amount
      /\ Read(t).gold = gold[p]
      /\ Read(t).diamond = diamond[p] /\ Read(t).version = version[p]
  BY <1>2, ReadFacts DEF PledgeInv
<1>7. /\ gold[p] \in Int /\ diamond[p] \in Nat /\ version[p] \in Nat
      /\ GoldTyped' /\ diamond' \in [Players -> Nat]
      /\ version' \in [Players -> Nat] /\ charged' \in [Players -> Nat]
      /\ pledge' \in [Rooms -> [Players -> Nat]]
      /\ taken' \in [Rooms -> [Players -> Int]] /\ Versioned
  <2>1. GoldTyped'
    BY <1>4, GoldKept DEF PledgeInv
  <2> QED
    BY <1>4, <2>1 DEF PledgeInv, TypeOK, Versioned
<1>8. CASE Goto(r, Read(t), "r_credit") /\ UNCHANGED <<avatar, cut, broken>>
  <2>1. /\ th' \in [Rooms -> Thread] /\ OtherThreads(r)
        /\ th'[r].pc = "r_credit" /\ SameLocals(th'[r], Read(t))
        /\ \A s \in Rooms : th'[s].pc # "idle" => th'[s].player \in Players
    BY <1>6, <1>8, GotoFacts DEF PledgeInv, Pcs, ReturnPcs
  <2>2. TypeOK' /\ OthersKept(r)
    <3>1. TypeOK'
      BY <1>4, <1>7, <1>8, <2>1 DEF PledgeInv, TypeOK, GoldTyped
    <3>2. OthersKept(r)
      BY <1>4, <1>8, <2>1 DEF OthersKept, OtherThreads
    <3> QED
      BY <3>1, <3>2
  <2>3. SnapshotValid(r)'
    BY <1>4, <1>6, <1>7, <2>1 DEF SnapshotValid, SameLocals, Matches
  <2>4. CallInv(r)'
    BY <1>2, <1>3, <1>4, <1>6, <2>1 DEF CallInv, SameLocals, ReturnPcs, DeductPcs, JoinPcs
  <2>5. HoldingInv(r, p)'
    <3>1. Expected(r, p)' = t.amount /\ p \in th'[r].batch
      BY <1>3, <1>6, <2>1 DEF Expected, SameLocals
    <3> QED
      BY <1>4, <1>5, <1>8, <3>1 DEF HoldingInv, HasCopyOf
  <2>6. ASSUME NEW q \in Players, q # p PROVE HoldingInv(r, q)'
    <3>1. q # th'[r].player /\ th'[r].batch = t.batch
      BY <1>6, <2>1, <2>6 DEF SameLocals
    <3> QED
      BY <1>2, <1>4, <1>8, <2>6, <3>1, OtherPlayer
  <2> QED
    BY <1>7, <2>2, <2>3, <2>4, <2>5, <2>6 DEF Kept, RoomInv
<1>9. CASE Returned(r, t, "lost") /\ broken' = broken \cup {<<r, p>>}
  <2>1. /\ <<r, p>> \notin torn => taken'[r][p] >= pledge'[r][p]
        /\ <<r, p>> \in broken'
    BY <1>2, <1>3, <1>4, <1>5, <1>9 DEF HoldingInv, HasCopyOf
  <2> QED
    BY <1>1, <1>2, <1>4, <1>7, <1>9, <2>1, ReturnedStep DEF ReturnPcs, Outcomes
<1> QED
  BY <1>2, <1>8, <1>9 DEF ReturnCapital, seats

\* returnCashPledge pays the gold back, tries again or gives up.
LEMMA ReturnCreditStep ==
  ASSUME PledgeInv, NEW r \in Rooms, NEW out \in Outcomes, ReturnCredit(r, out)
  PROVE  Kept(r)
<1> DEFINE t == th[r]
           again == [t EXCEPT !.tries = @ + 1]
           end == IF out = "ok" /\ Matches(t) THEN "ok" ELSE "lost"
<1>1. t.pc = "r_credit"
  BY DEF ReturnCredit, seats
<1> PICK p \in Players : p = th[r].player
  BY <1>1, ThreadFacts DEF PledgeInv
<1>2. /\ t \in Thread /\ t.player = p /\ t.amount \in Nat /\ t.gold \in Int
      /\ pledge[r][p] \in Nat /\ taken[r][p] \in Int
  <2>1. t.pc \notin DeductPcs /\ t.pc # "idle"
    BY <1>1 DEF DeductPcs
  <2>2. t.amount \in Nat
    BY <2>1, AmountIsNat
  <2> QED
    <3>1. TypeOK
      BY DEF PledgeInv
    <3>2. t \in Thread /\ t.player = p /\ t.gold \in Int
      BY <2>1, <3>1, ThreadFacts
    <3> QED
      BY <2>2, <3>1, <3>2 DEF TypeOK
<1>3. p \in t.batch /\ t.todo \subseteq t.batch /\ pledge[r][p] = 0
  BY <1>1, <1>2 DEF PledgeInv, RoomInv, CallInv, ReturnPcs
<1>4. UNCHANGED <<pledge, calls, other, torn, cut>> /\ faults' \in Nat
  <2>1. UNCHANGED <<pledge, calls, other, torn, cut>> /\ Fate(out)
    BY DEF ReturnCredit, Returned, seats
  <2> QED
    BY <2>1 DEF Fate, PledgeInv, TypeOK
<1>5. Expected(r, p) = t.amount /\ HoldingInv(r, p)
  BY <1>1, <1>2 DEF Expected, PledgeInv, RoomInv
<1>6. again \in Thread /\ SameLocals(again, t)
  BY <1>2, TriesFacts
<1>7. \/ /\ out = "ok" /\ ~Matches(t)
         /\ Goto(r, again, "r_capital") /\ UNCHANGED <<avatar, cut, broken>>
      \/ /\ Returned(r, t, end)
         /\ broken' = Mark(broken, ~(out = "ok" /\ Matches(t)), r, t.player)
  BY DEF ReturnCredit, seats
<1>8. IF Matches(t) /\ out # "lost"
      THEN WriteGold(r, t, t.gold + t.amount, -t.amount)
      ELSE UNCHANGED <<gold, diamond, version, taken, charged>>
  BY DEF ReturnCredit, capital, seats
<1> HIDE DEF again
<1>9. /\ GoldTyped' /\ diamond' \in [Players -> Nat]
      /\ version' \in [Players -> Nat] /\ charged' \in [Players -> Nat]
      /\ Versioned
      /\ taken' \in [Rooms -> [Players -> Int]]
      /\ \A s \in Rooms : s # r => taken'[s] = taken[s]
      /\ \A q \in Players : q # p => taken'[r][q] = taken[r][q]
      /\ \/ taken'[r][p] = taken[r][p] - t.amount
         \/ taken'[r][p] = taken[r][p] /\ ~(out = "ok" /\ Matches(t))
  <2>1. CASE Matches(t) /\ out # "lost"
    <3>1. WriteGold(r, t, t.gold + t.amount, -t.amount)
      BY <1>8, <2>1
    <3>2. /\ t.gold + t.amount \in Int /\ -t.amount \in Int
          /\ t.gold + t.amount >= 0 \/ \E s \in Rooms : <<s, p>> \in cut
      <4>1. t.gold = gold[p]
        BY <1>1, <1>2, <2>1 DEF PledgeInv, RoomInv, SnapshotValid, Holding
      <4>2. gold[p] >= 0 \/ \E s \in Rooms : <<s, p>> \in cut
        BY DEF PledgeInv, TypeOK
      <4> QED
        BY <1>2, <4>1, <4>2
    <3>3. /\ GoldTyped' /\ version' \in [Players -> Nat]
          /\ diamond' = diamond /\ charged' = charged
          /\ Versioned
          /\ taken' \in [Rooms -> [Players -> Int]]
          /\ \A s \in Rooms : s # r => taken'[s] = taken[s]
          /\ taken'[r][p] = taken[r][p] + (-t.amount)
          /\ \A q \in Players : q # p => taken'[r][q] = taken[r][q]
      BY <1>2, <1>4, <3>1, <3>2, WriteGoldFacts DEF PledgeInv
    <3>4. taken'[r][p] = taken[r][p] - t.amount
      BY <1>2, <3>3
    <3> QED
      BY <3>3, <3>4 DEF PledgeInv, TypeOK
  <2>2. CASE ~(Matches(t) /\ out # "lost")
    <3>1. GoldTyped'
      BY <1>4, <1>8, <2>2, GoldKept DEF PledgeInv
    <3> QED
      BY <1>8, <2>2, <3>1 DEF PledgeInv, TypeOK, Versioned
  <2> QED
    BY <2>1, <2>2
<1>10. CASE /\ out = "ok" /\ ~Matches(t)
            /\ Goto(r, again, "r_capital") /\ UNCHANGED <<avatar, cut, broken>>
  <2>1. /\ th' \in [Rooms -> Thread] /\ OtherThreads(r)
        /\ th'[r].pc = "r_capital" /\ SameLocals(th'[r], again)
        /\ \A s \in Rooms : th'[s].pc # "idle" => th'[s].player \in Players
    BY <1>2, <1>6, <1>10, GotoFacts DEF PledgeInv, Pcs, ReturnPcs, SameLocals
  <2>2. UNCHANGED <<gold, diamond, version, taken, charged>>
    BY <1>8, <1>10
  <2>3. TypeOK' /\ OthersKept(r)
    <3>1. TypeOK'
      BY <1>4, <1>9, <1>10, <2>1, <2>2 DEF PledgeInv, TypeOK, GoldTyped
    <3>2. OthersKept(r)
      BY <1>4, <1>10, <2>1, <2>2 DEF OthersKept, OtherThreads
    <3> QED
      BY <3>1, <3>2
  <2>4. SnapshotValid(r)' /\ CallInv(r)'
    BY <1>2, <1>3, <1>4, <1>6, <2>1 DEF SnapshotValid, CallInv, Holding, SameLocals, ReturnPcs, DeductPcs, JoinPcs
  <2>5. HoldingInv(r, p)'
    <3>1. Expected(r, p)' = t.amount /\ p \in th'[r].batch
      BY <1>2, <1>3, <1>6, <2>1 DEF Expected, SameLocals
    <3> QED
      BY <1>4, <1>5, <1>10, <2>2, <3>1 DEF HoldingInv, HasCopyOf
  <2>6. ASSUME NEW q \in Players, q # p PROVE HoldingInv(r, q)'
    <3>1. q # th'[r].player /\ th'[r].batch = t.batch
      BY <1>2, <1>6, <2>1, <2>6 DEF SameLocals
    <3> QED
      BY <1>2, <1>4, <1>10, <2>2, <2>6, <3>1, OtherPlayer
  <2> QED
    BY <1>9, <2>3, <2>4, <2>5, <2>6 DEF Kept, RoomInv
<1>11. CASE /\ Returned(r, t, end)
            /\ broken' = Mark(broken, ~(out = "ok" /\ Matches(t)), r, t.player)
  <2>1. broken' = IF out = "ok" /\ Matches(t) THEN broken ELSE broken \cup {<<r, p>>}
    BY <1>2, <1>11 DEF Mark
  <2>2. /\ <<r, p>> \notin torn => taken'[r][p] >= pledge'[r][p]
        /\ <<r, p>> \notin torn /\ <<r, p>> \notin broken' /\ <<r, p>> \notin cut =>
             taken'[r][p] = pledge'[r][p]
    BY <1>2, <1>3, <1>4, <1>5, <1>9, <2>1 DEF HoldingInv, HasCopyOf
  <2>3. broken' = broken \/ broken' = broken \cup {<<r, p>>}
    BY <2>1
  <2>4. /\ pledge' \in [Rooms -> [Players -> Nat]]
        /\ \A s \in Rooms : s # r => pledge'[s] = pledge[s] /\ taken'[s] = taken[s]
        /\ \A q \in Players : q # p => /\ pledge'[r][q] = pledge[r][q]
                                       /\ taken'[r][q] = taken[r][q]
    BY <1>4, <1>9 DEF PledgeInv, TypeOK
  <2>5. end \in Outcomes
    BY DEF Outcomes
  <2> HIDE DEF end
  <2> QED
    BY <1>1, <1>2, <1>4, <1>9, <1>11, <2>2, <2>3, <2>4, <2>5, ReturnedStep DEF ReturnPcs
<1> QED
  BY <1>7, <1>10, <1>11

-----------------------------------------------------------------------------
(* deductCashPledge *)

\* deductCashPledge starts from the pledge of the avatar.
LEMMA DeductCashPledgeStep ==
  ASSUME PledgeInv, NEW r \in Rooms, NEW p \in Players, NEW n \in Nat,
         NEW k \in BOOLEAN, DeductCashPledge(r, p, n, k)
  PROVE  Kept(r)
<1> DEFINE u == [Idle EXCEPT !.pc = "d_capital", !.player = p, !.need = n,
                             !.kick = k, !.amount = avatar[r][p],
                             !.row = pledge[r][p]]
<1>1. /\ avatar[r][p] # None /\ avatar[r][p] < n /\ avatar[r][p] \in Copies
      /\ pledge[r][p] \in Nat
  BY DEF DeductCashPledge, PledgeInv, TypeOK, seats
<1>2. /\ u \in Thread /\ u.pc = "d_capital" /\ u.player = p /\ u.batch = {}
      /\ u.amount = avatar[r][p] /\ u.row = pledge[r][p] /\ u.need = n
  <2> DEFINE v == [Idle EXCEPT !.pc = "d_capital", !.player = p, !.need = n]
  <2>1. "d_capital" \in Pcs
    BY DEF Pcs, DeductPcs
  <2>2. v \in Thread /\ v.pc = "d_capital" /\ v.player = p /\ v.need = n /\ v.batch = {}
    BY <2>1, IdleFacts DEF Thread
  <2>3. u = [v EXCEPT !.kick = k, !.amount = avatar[r][p], !.row = pledge[r][p]]
    OBVIOUS
  <2> HIDE DEF u, v
  <2> QED
    BY <1>1, <2>2, <2>3 DEF Thread
<1>3. th' = [th EXCEPT ![r] = u] /\ th[r].pc = "idle" /\ calls' = calls + 1
  BY DEF DeductCashPledge, Start, seats
<1> HIDE DEF u
<1>4. UNCHANGED <<gold, diamond, version, pledge, avatar, cut, other, faults,
                  taken, charged, torn, broken>>
  BY DEF DeductCashPledge, capital, history, seats
<1>5. TypeOK'
  <2>1. GoldTyped'
    BY <1>4, GoldKept DEF PledgeInv
  <2>2. /\ th' \in [Rooms -> Thread] /\ calls' \in Nat
        /\ \A s \in Rooms : th'[s].pc # "idle" => th'[s].player \in Players
    BY <1>2, <1>3 DEF PledgeInv, TypeOK
  <2> QED
    BY <1>4, <2>1, <2>2 DEF PledgeInv, TypeOK, GoldTyped
<1>6. th'[r] = u /\ \A s \in Rooms : s # r => th'[s] = th[s]
  BY <1>3 DEF PledgeInv, TypeOK
<1>7. OthersKept(r) /\ Versioned
  BY <1>4, <1>6 DEF OthersKept, Versioned
<1>8. SnapshotValid(r)' /\ CallInv(r)'
  BY <1>1, <1>2, <1>4, <1>6 DEF SnapshotValid, CallInv, Holding, ReturnPcs, DeductPcs, JoinPcs
<1>9. ASSUME NEW q \in Players PROVE HoldingInv(r, q)'
  <2>1. Expected(r, q) = pledge[r][q] /\ th[r].pc \notin DeductPcs
    BY <1>3 DEF Expected, DeductPcs
  <2>2. th[r].batch = {}
    BY <1>3 DEF PledgeInv, RoomInv, CallInv, ReturnPcs
  <2>3. HoldingInv(r, q)
    BY DEF PledgeInv, RoomInv
  <2>4. Expected(r, q)' = pledge[r][q]
    BY <1>2, <1>4, <1>6 DEF Expected, DeductPcs
  <2>5. u.batch = {} /\ (u.player = q <=> q = p) /\ u.pc \in DeductPcs
    BY <1>2 DEF DeductPcs
  <2> QED
    BY <1>1, <1>2, <1>4, <1>6, <2>1, <2>2, <2>3, <2>4, <2>5 DEF HoldingInv, HasCopyOf
<1> QED
  BY <1>5, <1>7, <1>8, <1>9 DEF Kept, RoomInv

\* What is known at every statement of deductCashPledge.
LEMMA DeductFacts ==
  ASSUME PledgeInv, NEW r \in Rooms, th[r].pc \in DeductPcs,
         NEW p \in Players, th[r].player = p
  PROVE  /\ TypeOK /\ th[r] \in Thread /\ th[r].batch = {}
         /\ th[r].amount \in Int /\ th[r].need \in Nat /\ th[r].gold \in Int
         /\ th[r].row \in Nat
         /\ th[r].amount < th[r].need /\ avatar[r][p] = th[r].amount
         /\ th[r].amount \in Nat \/ <<r, p>> \in cut
         /\ <<r, p>> \notin torn => th[r].amount <= th[r].row
         /\ <<r, p>> \notin torn /\ <<r, p>> \notin cut => th[r].amount = th[r].row
         /\ pledge[r][p] \in Nat /\ taken[r][p] \in Int
         /\ HoldingInv(r, p) /\ Expected(r, p) = th[r].row
<1>1. TypeOK /\ th[r].pc # "idle"
  BY DEF PledgeInv, DeductPcs
<1>2. /\ th[r] \in Thread /\ th[r].amount \in Int /\ th[r].need \in Nat
      /\ th[r].gold \in Int /\ th[r].row \in Nat /\ th[r].amount # None
  BY <1>1, ThreadFacts, NatCopies
<1>3. /\ th[r].batch = {} /\ th[r].amount < th[r].need
      /\ avatar[r][p] = th[r].amount
  BY DEF PledgeInv, RoomInv, CallInv, ReturnPcs, DeductPcs
<1>4. pledge[r][p] \in Nat /\ taken[r][p] \in Int
  BY <1>1 DEF TypeOK
<1>5. HoldingInv(r, p) /\ Expected(r, p) = th[r].row
  BY DEF PledgeInv, RoomInv, Expected, DeductPcs
<1>6. /\ th[r].amount \in Nat \/ <<r, p>> \in cut
      /\ <<r, p>> \notin torn => HasCopyOf(r, p, th[r].row)
  BY <1>2, <1>3, <1>5 DEF HoldingInv
<1>7. /\ <<r, p>> \notin torn =>
           \/ th[r].amount = th[r].row
           \/ th[r].amount = ToInt(th[r].row) /\ <<r, p>> \in cut
      /\ ToInt(th[r].row) <= th[r].row
  BY <1>2, <1>3, <1>6, ToIntFacts DEF HasCopyOf
<1> QED
  BY <1>1, <1>2, <1>3, <1>4, <1>5, <1>6, <1>7

\* deductCashPledge goes on to its next statement, the row changed or not: the
\* room holds what the avatar had when the call began.
LEMMA DeductGoto ==
  ASSUME PledgeInv, NEW r \in Rooms, th[r].pc \in DeductPcs,
         NEW p \in Players, th[r].player = p,
         NEW u \in Thread, u.player = p, u.batch = th[r].batch,
         u.amount = th[r].amount, u.row = th[r].row,
         NEW pc \in DeductPcs, Goto(r, u, pc),
         UNCHANGED <<gold, diamond, version, avatar, cut, calls, other, taken,
                     charged, torn, broken>>,
         faults' \in Nat,
         pledge' \in [Rooms -> [Players -> Nat]],
         \A s \in Rooms : s # r => pledge'[s] = pledge[s],
         \A q \in Players : q # p => pledge'[r][q] = pledge[r][q]
  PROVE  /\ TypeOK' /\ OthersKept(r) /\ Versioned
         /\ \A q \in Players : HoldingInv(r, q)'
         /\ th'[r].pc = pc /\ SameLocals(th'[r], u)
<1>1. /\ TypeOK /\ th[r].batch = {} /\ avatar[r][p] = th[r].amount
      /\ HoldingInv(r, p) /\ Expected(r, p) = th[r].row
  BY DeductFacts
<1>2. pc \in Pcs
  BY DEF Pcs
<1>3. /\ th' \in [Rooms -> Thread] /\ OtherThreads(r)
      /\ th'[r].pc = pc /\ SameLocals(th'[r], u)
      /\ \A s \in Rooms : th'[s].pc # "idle" => th'[s].player \in Players
  BY <1>1, <1>2, GotoFacts
<1>4. TypeOK' /\ OthersKept(r) /\ Versioned
  <2>1. GoldTyped'
    BY <1>1, GoldKept
  <2>2. TypeOK'
    BY <1>1, <1>3, <2>1 DEF TypeOK, GoldTyped
  <2> QED
    BY <1>1, <1>3, <2>2 DEF OthersKept, Versioned, OtherThreads
<1>5. HoldingInv(r, p)'
  <2>1. /\ Expected(r, p)' = th[r].row /\ th'[r].player = p
        /\ th'[r].row = th[r].row
    BY <1>3 DEF Expected, SameLocals, DeductPcs
  <2> QED
    BY <1>1, <1>3, <2>1 DEF HoldingInv, HasCopyOf
<1>6. ASSUME NEW q \in Players, q # p PROVE HoldingInv(r, q)'
  <2>1. th'[r].player = p
    BY <1>3 DEF SameLocals
  <2> QED
    BY <1>1, <1>6, <2>1, OtherPlayer
<1> QED
  BY <1>3, <1>4, <1>5, <1>6

\* deductCashPledge gives up: either the row is what the avatar still has, or the
\* pair is recorded as torn.
LEMMA GiveUpStep ==
  ASSUME PledgeInv, NEW r \in Rooms, th[r].pc \in DeductPcs,
         NEW p \in Players, th[r].player = p, GiveUp(r, th[r]),
         UNCHANGED <<avatar, cut, calls, other, broken>>, faults' \in Nat,
         GoldTyped', diamond' \in [Players -> Nat],
         version' \in [Players -> Nat], charged' \in [Players -> Nat], Versioned,
         pledge' \in [Rooms -> [Players -> Nat]],
         \A s \in Rooms : s # r => pledge'[s] = pledge[s] /\ taken'[s] = taken[s],
         \A q \in Players : q # p => /\ pledge'[r][q] = pledge[r][q]
                                     /\ taken'[r][q] = taken[r][q],
         taken' \in [Rooms -> [Players -> Int]],
         <<r, p>> \notin torn /\ pledge'[r][p] = th[r].row =>
           /\ taken'[r][p] >= taken[r][p]
           /\ taken'[r][p] = taken[r][p] \/ <<r, p>> \in cut
  PROVE  Kept(r)
<1>1. /\ TypeOK /\ th[r].batch = {} /\ avatar[r][p] = th[r].amount
      /\ HoldingInv(r, p) /\ Expected(r, p) = th[r].row
  BY DeductFacts
<1>2. Return(r)
  BY DEF GiveUp
<1>3. torn' = IF pledge'[r][p] # th[r].row THEN torn \cup {<<r, p>>} ELSE torn
  BY DEF GiveUp, Mark
<1>4. /\ th' \in [Rooms -> Thread] /\ OtherThreads(r)
      /\ th'[r].pc = "idle" /\ th'[r].batch = {}
      /\ \A s \in Rooms : th'[s].pc # "idle" => th'[s].player \in Players
  BY <1>1, <1>2, ReturnFacts
<1>5. TypeOK'
  <2>1. torn' \subseteq Rooms \X Players
    BY <1>1, <1>3 DEF TypeOK
  <2> QED
    BY <1>1, <1>4, <2>1 DEF TypeOK, GoldTyped
<1>6. OthersKept(r)
  BY <1>3, <1>4 DEF OthersKept, OtherThreads
<1>7. HoldingInv(r, p)'
  <2>1. RestHolding(r, p)'
    <3>1. CASE pledge'[r][p] # th[r].row
      BY <1>1, <1>3, <3>1 DEF RestHolding, HoldingInv
    <3>2. CASE pledge'[r][p] = th[r].row
      <4>1. /\ taken[r][p] \in Int /\ taken'[r][p] \in Int /\ th[r].row \in Nat
            /\ (<<r, p>> \in torn') = (<<r, p>> \in torn)
        BY <1>3, <3>2, DeductFacts
      <4> QED
        BY <1>1, <1>3, <3>2, <4>1 DEF RestHolding, HoldingInv, HasCopyOf
    <3> QED
      BY <3>1, <3>2
  <2> QED
    BY <1>4, <2>1, IdleHolding
<1>8. ASSUME NEW q \in Players, q # p PROVE HoldingInv(r, q)'
  <2>1. (<<r, q>> \in torn') = (<<r, q>> \in torn)
    BY <1>3, <1>8
  <2> QED
    BY <1>1, <1>4, <1>8, <2>1, OtherPlayer
<1> QED
  BY <1>4, <1>5, <1>6, <1>7, <1>8, IdleRoom DEF Kept, RoomInv

\* deductCashPledge reads the account and decides whether it goes on.
LEMMA DeductCapitalStep ==
  ASSUME PledgeInv, NEW r \in Rooms, DeductCapital(r)
  PROVE  Kept(r)
<1> DEFINE t == th[r]
<1>1. t.pc = "d_capital"
  BY DEF DeductCapital, seats
<1>2. t.pc \in DeductPcs
  BY <1>1 DEF DeductPcs
<1> PICK p \in Players : p = th[r].player
  BY <1>1, ThreadFacts DEF PledgeInv
<1>3. /\ TypeOK /\ t \in Thread /\ t.player = p /\ t.batch = {} /\ t.amount < t.need
      /\ avatar[r][p] = t.amount /\ taken[r][p] \in Int
  BY <1>2, DeductFacts
<1>4. /\ UNCHANGED <<gold, diamond, version, pledge, avatar, cut, calls, other, taken, charged, broken>>
      /\ faults' \in Nat
  <2>1. UNCHANGED <<gold, diamond, version, pledge, avatar, cut, calls, other, taken, charged, broken>>
    BY DEF DeductCapital, capital, seats
  <2>2. Fate("ok") \/ Fate("lost")
    BY DEF DeductCapital, seats
  <2> QED
    BY <1>3, <2>1, <2>2 DEF Fate, TypeOK
<1>5. \/ GiveUp(r, t)
      \/ Goto(r, Read(t), "d_count") /\ UNCHANGED torn
  BY DEF DeductCapital, seats
<1>6. CASE GiveUp(r, t)
  <2>1. /\ GoldTyped' /\ diamond' \in [Players -> Nat]
        /\ version' \in [Players -> Nat] /\ charged' \in [Players -> Nat]
        /\ pledge' \in [Rooms -> [Players -> Nat]]
        /\ taken' \in [Rooms -> [Players -> Int]] /\ Versioned
    <3>1. GoldTyped'
      BY <1>3, <1>4, GoldKept
    <3> QED
      BY <1>3, <1>4, <3>1 DEF TypeOK, Versioned
  <2> QED
    <3>1. taken'[r][p] = taken[r][p] /\ taken'[r][p] >= taken[r][p]
      BY <1>3, <1>4
    <3> QED
      BY <1>2, <1>3, <1>4, <1>6, <2>1, <3>1, GiveUpStep
<1>7. CASE Goto(r, Read(t), "d_count") /\ UNCHANGED torn
  <2>1. /\ Read(t) \in Thread /\ Read(t).player = p /\ Read(t).batch = t.batch
        /\ Read(t).need = t.need /\ Read(t).amount = t.amount /\ Read(t).row = t.row
        /\ Read(t).gold = gold[p]
        /\ Read(t).diamond = diamond[p] /\ Read(t).version = version[p]
    BY <1>3, ReadFacts
  <2>2. "d_count" \in DeductPcs /\ pledge' \in [Rooms -> [Players -> Nat]] /\ version[p] \in Nat
    BY <1>3, <1>4 DEF TypeOK, DeductPcs
  <2>3. /\ TypeOK' /\ OthersKept(r) /\ Versioned
        /\ \A q \in Players : HoldingInv(r, q)'
        /\ th'[r].pc = "d_count" /\ SameLocals(th'[r], Read(t))
    <3>1. /\ \A s \in Rooms : s # r => pledge'[s] = pledge[s]
          /\ \A q \in Players : q # p => pledge'[r][q] = pledge[r][q]
          /\ UNCHANGED <<gold, diamond, version, avatar, cut, calls, other, taken,
                         charged, torn, broken>>
          /\ faults' \in Nat
      BY <1>4, <1>7
    <3>2. /\ th[r].pc \in DeductPcs /\ th[r].player = p
          /\ Read(t).batch = th[r].batch /\ Read(t).amount = th[r].amount
          /\ Read(t).row = th[r].row
      BY <1>2, <1>3, <2>1
    <3>3. Read(t) \in Thread /\ Read(t).player = p /\ Goto(r, Read(t), "d_count")
      BY <1>7, <2>1
    <3> HIDE DEF t
    <3> QED
      BY <2>2, <3>1, <3>2, <3>3, DeductGoto
  <2>4. SnapshotValid(r)'
    BY <1>4, <2>1, <2>2, <2>3 DEF SnapshotValid, SameLocals, Matches
  <2>5. CallInv(r)'
    BY <1>3, <1>4, <2>1, <2>3 DEF CallInv, SameLocals, ReturnPcs, DeductPcs, JoinPcs
  <2> QED
    BY <2>3, <2>4, <2>5 DEF Kept, RoomInv
<1> QED
  BY <1>5, <1>6, <1>7

\* updateCashPledge, called by deductCashPledge, counts the rows.
LEMMA DeductCountStep ==
  ASSUME PledgeInv, NEW r \in Rooms, DeductCount(r)
  PROVE  Kept(r)
<1> DEFINE t == th[r]
           pc == IF Target(t) = 0 /\ pledge[r][t.player] = 0 THEN "d_update" ELSE "d_row"
<1>1. t.pc = "d_count"
  BY DEF DeductCount, seats
<1>2. t.pc \in DeductPcs
  BY <1>1 DEF DeductPcs
<1> PICK p \in Players : p = th[r].player
  BY <1>1, ThreadFacts DEF PledgeInv
<1>3. /\ TypeOK /\ t \in Thread /\ t.player = p /\ t.batch = {} /\ t.amount < t.need
      /\ avatar[r][p] = t.amount /\ taken[r][p] \in Int
  BY <1>2, DeductFacts
<1>4. /\ UNCHANGED <<gold, diamond, version, pledge, avatar, cut, calls, other, taken, charged, broken>>
      /\ faults' \in Nat
  <2>1. UNCHANGED <<gold, diamond, version, pledge, avatar, cut, calls, other, taken, charged, broken>>
    BY DEF DeductCount, capital, seats
  <2>2. Fate("ok") \/ Fate("lost")
    BY DEF DeductCount, seats
  <2> QED
    BY <1>3, <2>1, <2>2 DEF Fate, TypeOK
<1>5. \/ GiveUp(r, t)
      \/ Goto(r, t, pc) /\ UNCHANGED torn
  BY DEF DeductCount, seats
<1>6. CASE GiveUp(r, t)
  <2>1. /\ GoldTyped' /\ diamond' \in [Players -> Nat]
        /\ version' \in [Players -> Nat] /\ charged' \in [Players -> Nat]
        /\ pledge' \in [Rooms -> [Players -> Nat]]
        /\ taken' \in [Rooms -> [Players -> Int]] /\ Versioned
    <3>1. GoldTyped'
      BY <1>3, <1>4, GoldKept
    <3> QED
      BY <1>3, <1>4, <3>1 DEF TypeOK, Versioned
  <2> QED
    <3>1. taken'[r][p] = taken[r][p] /\ taken'[r][p] >= taken[r][p]
      BY <1>3, <1>4
    <3> QED
      BY <1>2, <1>3, <1>4, <1>6, <2>1, <3>1, GiveUpStep
<1>7. CASE Goto(r, t, pc) /\ UNCHANGED torn
  <2>1. /\ pc \in DeductPcs /\ pc \in {"d_row", "d_update"}
        /\ pc = "d_update" => pledge[r][p] = Target(t)
    BY <1>3 DEF DeductPcs
  <2> HIDE DEF pc
  <2>2. pledge' \in [Rooms -> [Players -> Nat]]
    BY <1>3, <1>4 DEF TypeOK
  <2>3. /\ TypeOK' /\ OthersKept(r) /\ Versioned
        /\ \A q \in Players : HoldingInv(r, q)'
        /\ th'[r].pc = pc /\ SameLocals(th'[r], t)
    BY <1>2, <1>3, <1>4, <1>7, <2>1, <2>2, DeductGoto
  <2>4. SnapshotValid(r)'
    <3>1. SnapshotValid(r)
      BY DEF PledgeInv, RoomInv
    <3> QED
      BY <1>1, <1>4, <2>3, <3>1 DEF SnapshotValid, SameLocals, Matches, Holding
  <2>5. Target(th'[r]) = Target(t)
    BY <2>3 DEF SameLocals, Target, Enough
  <2>6. CallInv(r)'
    BY <1>3, <1>4, <2>1, <2>3, <2>5 DEF CallInv, SameLocals, ReturnPcs, DeductPcs, JoinPcs
  <2> QED
    BY <2>3, <2>4, <2>6 DEF Kept, RoomInv
<1> QED
  BY <1>5, <1>6, <1>7

\* deductCashPledge writes the row before the gold has moved.
LEMMA DeductRowStep ==
  ASSUME PledgeInv, NEW r \in Rooms, NEW out \in Outcomes, DeductRow(r, out)
  PROVE  Kept(r)
<1> DEFINE t == th[r]
<1>1. t.pc = "d_row"
  BY DEF DeductRow, seats
<1>2. t.pc \in DeductPcs
  BY <1>1 DEF DeductPcs
<1> PICK p \in Players : p = th[r].player
  BY <1>1, ThreadFacts DEF PledgeInv
<1>3. /\ TypeOK /\ t \in Thread /\ t.player = p /\ t.batch = {} /\ t.amount < t.need
      /\ avatar[r][p] = t.amount /\ t.need \in Nat /\ taken[r][p] \in Int
  BY <1>2, DeductFacts
<1>4. /\ UNCHANGED <<gold, diamond, version, avatar, cut, calls, other, taken, charged, broken>>
      /\ faults' \in Nat
  <2>1. UNCHANGED <<gold, diamond, version, avatar, cut, calls, other, taken, charged, broken>>
    BY DEF DeductRow, capital, seats
  <2>2. Fate(out)
    BY DEF DeductRow, seats
  <2> QED
    BY <1>3, <2>1, <2>2 DEF Fate, TypeOK
<1>5. /\ pledge' \in [Rooms -> [Players -> Nat]]
      /\ \A s \in Rooms : s # r => pledge'[s] = pledge[s]
      /\ \A q \in Players : q # p => pledge'[r][q] = pledge[r][q]
      /\ out # "lost" => pledge'[r][p] = Target(t)
  <2>1. CASE out = "lost"
    BY <1>3, <2>1 DEF DeductRow, TypeOK, seats
  <2>2. CASE out # "lost"
    <3>1. pledge' = [pledge EXCEPT ![r][p] = Target(t)] /\ Target(t) \in Nat
      BY <1>3, <2>2 DEF DeductRow, Target, seats
    <3>2. /\ pledge' \in [Rooms -> [Players -> Nat]]
          /\ \A s \in Rooms : s # r => pledge'[s] = pledge[s]
          /\ pledge'[r][p] = Target(t)
          /\ \A q \in Players : q # p => pledge'[r][q] = pledge[r][q]
      BY <1>3, <3>1, PledgeCell, ZenonT(60)
    <3> QED
      BY <3>2
  <2> QED
    BY <2>1, <2>2
<1>6. CASE out # "ok"
  <2>1. GiveUp(r, t)
    BY <1>6 DEF DeductRow, seats
  <2>2. /\ GoldTyped' /\ diamond' \in [Players -> Nat]
        /\ version' \in [Players -> Nat] /\ charged' \in [Players -> Nat]
        /\ taken' \in [Rooms -> [Players -> Int]] /\ Versioned
    <3>1. GoldTyped'
      BY <1>3, <1>4, GoldKept
    <3> QED
      BY <1>3, <1>4, <3>1 DEF TypeOK, Versioned
  <2>3. /\ \A s \in Rooms : s # r => pledge'[s] = pledge[s] /\ taken'[s] = taken[s]
        /\ \A q \in Players : q # p => /\ pledge'[r][q] = pledge[r][q]
                                       /\ taken'[r][q] = taken[r][q]
        /\ taken'[r][p] = taken[r][p] /\ taken'[r][p] >= taken[r][p]
    BY <1>3, <1>4, <1>5
  <2> QED
    BY <1>2, <1>3, <1>4, <1>5, <2>1, <2>2, <2>3, GiveUpStep
<1>7. CASE out = "ok"
  <2>1. Goto(r, t, "d_update") /\ UNCHANGED torn
    BY <1>7 DEF DeductRow, seats
  <2>2. "d_update" \in DeductPcs
    BY DEF DeductPcs
  <2>3. /\ TypeOK' /\ OthersKept(r) /\ Versioned
        /\ \A q \in Players : HoldingInv(r, q)'
        /\ th'[r].pc = "d_update" /\ SameLocals(th'[r], t)
    BY <1>2, <1>3, <1>4, <1>5, <2>1, <2>2, DeductGoto
  <2>4. SnapshotValid(r)'
    <3>1. SnapshotValid(r)
      BY DEF PledgeInv, RoomInv
    <3> QED
      BY <1>1, <1>4, <2>3, <3>1 DEF SnapshotValid, SameLocals, Matches, Holding
  <2>5. Target(th'[r]) = Target(t)
    BY <2>3 DEF SameLocals, Target, Enough
  <2>6. CallInv(r)'
    BY <1>3, <1>4, <1>5, <1>7, <2>3, <2>5 DEF CallInv, SameLocals, ReturnPcs, DeductPcs, JoinPcs
  <2> QED
    BY <2>3, <2>4, <2>6 DEF Kept, RoomInv
<1> QED
  BY <1>6, <1>7

\* The amount deductCashPledge moves from the account into the pledge.
Moved(t) == IF Enough(t) THEN t.need - t.amount ELSE -t.amount

\* deductCashPledge moves the gold, tries again or gives up.
LEMMA DeductUpdateStep ==
  ASSUME PledgeInv, NEW r \in Rooms, NEW out \in Outcomes, DeductUpdate(r, out)
  PROVE  Kept(r)
<1> DEFINE t == th[r]
           again == [t EXCEPT !.tries = @ + 1]
<1>1. t.pc = "d_update"
  BY DEF DeductUpdate, seats
<1>2. t.pc \in DeductPcs
  BY <1>1 DEF DeductPcs
<1> PICK p \in Players : p = th[r].player
  BY <1>1, ThreadFacts DEF PledgeInv
<1>3. /\ TypeOK /\ t \in Thread /\ t.player = p /\ t.batch = {} /\ t.amount < t.need
      /\ avatar[r][p] = t.amount /\ t.need \in Nat /\ t.amount \in Int /\ t.gold \in Int
      /\ t.row \in Nat
      /\ t.amount \in Nat \/ <<r, p>> \in cut
      /\ taken[r][p] \in Int /\ HoldingInv(r, p) /\ Expected(r, p) = t.row
      /\ <<r, p>> \notin torn => t.amount <= t.row
      /\ <<r, p>> \notin torn /\ <<r, p>> \notin cut => t.amount = t.row
  BY <1>2, DeductFacts
<1>4. pledge[r][p] = Target(t) /\ Target(t) \in Nat
  BY <1>1, <1>3 DEF PledgeInv, RoomInv, CallInv, Target
<1>5. UNCHANGED <<pledge, calls, other, broken, cut>> /\ faults' \in Nat
  <2>1. UNCHANGED <<pledge, calls, other, broken, cut>> /\ Fate(out)
    BY DEF DeductUpdate, seats
  <2> QED
    BY <1>3, <2>1 DEF Fate, TypeOK
<1>6. again \in Thread /\ SameLocals(again, t)
  BY <1>3, TriesFacts
<1>7. IF Matches(t) /\ out # "lost"
      THEN WriteGold(r, t, t.gold - Moved(t), Moved(t))
      ELSE UNCHANGED <<gold, diamond, version, taken, charged>>
  <2>1. CASE Matches(t) /\ out # "lost"
    <3>1. t.gold - (-t.amount) = t.gold + t.amount
      BY <1>3
    <3>2. CASE Enough(t)
      BY <2>1, <3>2 DEF DeductUpdate, Moved, seats
    <3>3. CASE ~Enough(t)
      BY <2>1, <3>1, <3>3 DEF DeductUpdate, Moved, seats
    <3> QED
      BY <2>1, <3>2, <3>3
  <2>2. CASE ~(Matches(t) /\ out # "lost")
    BY <2>2 DEF DeductUpdate, capital, seats
  <2> QED
    BY <2>1, <2>2
<1>8. \/ /\ out = "ok" /\ Matches(t) /\ Return(r) /\ UNCHANGED torn
         /\ avatar' = [avatar EXCEPT ![r][p] = Target(t)]
      \/ out = "ok" /\ ~Matches(t) /\ Goto(r, again, "d_capital") /\ UNCHANGED <<avatar, cut, torn>>
      \/ (out # "ok" \/ ~Matches(t)) /\ GiveUp(r, t) /\ UNCHANGED <<avatar, cut>>
  BY <1>3 DEF DeductUpdate, seats
<1> HIDE DEF again
<1>9. /\ GoldTyped' /\ diamond' \in [Players -> Nat]
      /\ version' \in [Players -> Nat] /\ charged' \in [Players -> Nat]
      /\ Versioned
      /\ taken' \in [Rooms -> [Players -> Int]]
      /\ \A s \in Rooms : s # r => taken'[s] = taken[s]
      /\ \A q \in Players : q # p => taken'[r][q] = taken[r][q]
      /\ taken'[r][p] = IF Matches(t) /\ out # "lost" THEN taken[r][p] + Moved(t)
                                                      ELSE taken[r][p]
  <2>1. CASE Matches(t) /\ out # "lost"
    <3>1. WriteGold(r, t, t.gold - Moved(t), Moved(t))
      BY <1>7, <2>1
    <3>2. /\ t.gold - Moved(t) \in Int /\ Moved(t) \in Int
          /\ t.gold - Moved(t) >= 0 \/ \E s \in Rooms : <<s, p>> \in cut
      <4>1. t.gold = gold[p]
        BY <1>1, <1>3, <2>1 DEF PledgeInv, RoomInv, SnapshotValid, Holding
      <4>2. gold[p] >= 0 \/ \E s \in Rooms : <<s, p>> \in cut
        BY <1>3 DEF TypeOK
      <4> QED
        BY <1>3, <4>1, <4>2 DEF Moved, Enough
    <3>3. /\ GoldTyped' /\ version' \in [Players -> Nat]
          /\ diamond' = diamond /\ charged' = charged
          /\ Versioned
          /\ taken' \in [Rooms -> [Players -> Int]]
          /\ \A s \in Rooms : s # r => taken'[s] = taken[s]
          /\ taken'[r][p] = taken[r][p] + Moved(t)
          /\ \A q \in Players : q # p => taken'[r][q] = taken[r][q]
      BY <1>3, <1>5, <3>1, <3>2, WriteGoldFacts
    <3> QED
      BY <1>3, <2>1, <3>3 DEF TypeOK
  <2>2. CASE ~(Matches(t) /\ out # "lost")
    <3>1. GoldTyped'
      BY <1>3, <1>5, <1>7, <2>2, GoldKept
    <3> QED
      BY <1>3, <1>7, <2>2, <3>1 DEF TypeOK, Versioned
  <2> QED
    BY <2>1, <2>2
<1>10. CASE /\ out = "ok" /\ Matches(t) /\ Return(r) /\ UNCHANGED torn
            /\ avatar' = [avatar EXCEPT ![r][p] = Target(t)]
  <2>1. Return(r) /\ avatar' = [avatar EXCEPT ![r][p] = Target(t)]
    BY <1>10
  <2>2. /\ th' \in [Rooms -> Thread] /\ OtherThreads(r)
        /\ th'[r].pc = "idle" /\ th'[r].batch = {}
        /\ \A s \in Rooms : th'[s].pc # "idle" => th'[s].player \in Players
    BY <1>3, <2>1, ReturnFacts
  <2>3. /\ avatar' \in [Rooms -> [Players -> Copies \cup {None}]]
        /\ \A s \in Rooms : s # r => avatar'[s] = avatar[s]
        /\ avatar'[r][p] = Target(t)
        /\ \A q \in Players : q # p => avatar'[r][q] = avatar[r][q]
    <3>1. Target(t) \in Copies \cup {None}
      BY <1>4, NatCopies
    <3> QED
      BY <1>3, <2>1, <3>1, AvatarCell, ZenonT(60)
  <2>4. TypeOK' /\ OthersKept(r)
    <3>1. TypeOK'
      BY <1>3, <1>5, <1>9, <1>10, <2>2, <2>3 DEF TypeOK, GoldTyped
    <3>2. OthersKept(r)
      BY <1>3, <1>5, <1>9, <1>10, <2>2, <2>3 DEF OthersKept, OtherThreads
    <3> QED
      BY <3>1, <3>2
  <2>5. HoldingInv(r, p)'
    <3>1. taken'[r][p] = taken[r][p] + Moved(t) /\ pledge'[r][p] = Target(t)
          /\ t.amount + Moved(t) = Target(t) /\ Moved(t) \in Int
      BY <1>3, <1>4, <1>5, <1>9, <1>10 DEF Moved, Target
    <3>2. RestHolding(r, p)'
      <4>1. /\ <<r, p>> \notin torn => taken[r][p] >= t.row
            /\ <<r, p>> \notin torn /\ <<r, p>> \notin broken /\ <<r, p>> \notin cut =>
                 taken[r][p] = t.row
        BY <1>3 DEF HoldingInv
      <4>2. torn' = torn /\ broken' = broken /\ cut' = cut
        BY <1>5, <1>10
      <4>3. /\ <<r, p>> \notin torn => taken'[r][p] >= pledge'[r][p]
            /\ <<r, p>> \notin torn /\ <<r, p>> \notin broken /\ <<r, p>> \notin cut =>
                 taken'[r][p] = pledge'[r][p]
        <5>1. /\ t.amount \in Int /\ t.row \in Nat /\ taken[r][p] \in Int
              /\ <<r, p>> \notin torn => t.amount <= t.row
              /\ <<r, p>> \notin torn /\ <<r, p>> \notin cut => t.amount = t.row
          BY <1>3
        <5> HIDE DEF t
        <5> QED
          BY <1>4, <3>1, <4>1, <5>1
      <4> QED
        BY <1>4, <2>3, <3>1, <4>2, <4>3 DEF RestHolding, HasCopyOf
    <3> QED
      BY <2>2, <3>2, IdleHolding
  <2>6. ASSUME NEW q \in Players, q # p PROVE HoldingInv(r, q)'
    BY <1>3, <1>5, <1>9, <1>10, <2>2, <2>3, <2>6, OtherPlayer
  <2> QED
    BY <1>9, <2>2, <2>4, <2>5, <2>6, IdleRoom DEF Kept, RoomInv
<1>11. CASE /\ out = "ok" /\ ~Matches(t) /\ Goto(r, again, "d_capital")
            /\ UNCHANGED <<avatar, cut, torn>>
  <2>1. UNCHANGED <<gold, diamond, version, taken, charged>>
    BY <1>7, <1>11
  <2>2. /\ "d_capital" \in DeductPcs /\ pledge' \in [Rooms -> [Players -> Nat]]
        /\ again.player = p /\ again.batch = t.batch /\ again.amount = t.amount
        /\ again.row = t.row
    BY <1>3, <1>5, <1>6 DEF DeductPcs, TypeOK, SameLocals
  <2>3. /\ TypeOK' /\ OthersKept(r) /\ Versioned
        /\ \A q \in Players : HoldingInv(r, q)'
        /\ th'[r].pc = "d_capital" /\ SameLocals(th'[r], again)
    BY <1>2, <1>3, <1>5, <1>6, <1>11, <2>1, <2>2, DeductGoto
  <2>4. SnapshotValid(r)' /\ CallInv(r)'
    BY <1>3, <1>5, <1>6, <1>11, <2>3
    DEF SnapshotValid, Holding, CallInv, SameLocals, ReturnPcs, DeductPcs, JoinPcs
  <2> QED
    BY <2>3, <2>4 DEF Kept, RoomInv
<1>12. CASE (out # "ok" \/ ~Matches(t)) /\ GiveUp(r, t) /\ UNCHANGED <<avatar, cut>>
  <2>1. /\ pledge' \in [Rooms -> [Players -> Nat]]
        /\ \A s \in Rooms : s # r => pledge'[s] = pledge[s] /\ taken'[s] = taken[s]
        /\ \A q \in Players : q # p => /\ pledge'[r][q] = pledge[r][q]
                                       /\ taken'[r][q] = taken[r][q]
    BY <1>3, <1>5, <1>9 DEF TypeOK
  <2>2. <<r, p>> \notin torn /\ pledge'[r][p] = t.row =>
          /\ taken'[r][p] >= taken[r][p]
          /\ taken'[r][p] = taken[r][p] \/ <<r, p>> \in cut
    <3>1. SUFFICES ASSUME <<r, p>> \notin torn, Target(t) = t.row
                   PROVE  /\ taken'[r][p] >= taken[r][p]
                          /\ taken'[r][p] = taken[r][p] \/ <<r, p>> \in cut
      BY <1>4, <1>5
    <3>2. Moved(t) \in Int /\ Moved(t) >= 0 /\ (Moved(t) = 0 \/ <<r, p>> \in cut)
      <4>1. CASE Enough(t)
        <5>1. Target(t) = t.need /\ Moved(t) = t.need - t.amount
          BY <4>1 DEF Target, Moved
        <5> QED
          BY <1>3, <3>1, <5>1
      <4>2. CASE ~Enough(t)
        <5>1. Target(t) = 0 /\ Moved(t) = -t.amount
          BY <4>2 DEF Target, Moved
        <5>2. t.amount \in Int /\ t.amount <= 0 /\ (t.amount = 0 \/ <<r, p>> \in cut)
          BY <1>3, <3>1, <5>1
        <5> HIDE DEF t
        <5> QED
          BY <5>1, <5>2
      <4> QED
        BY <4>1, <4>2
    <3> QED
      BY <1>3, <1>9, <3>2
  <2> QED
    BY <1>2, <1>3, <1>5, <1>9, <1>12, <2>1, <2>2, GiveUpStep
<1> QED
  BY <1>8, <1>10, <1>11, <1>12

-----------------------------------------------------------------------------
(* deductDiamond *)

\* deductDiamond starts.
LEMMA DeductDiamondStep ==
  ASSUME PledgeInv, NEW r \in Rooms, NEW p \in Players, DeductDiamond(r, p)
  PROVE  Kept(r)
<1> DEFINE u == [Idle EXCEPT !.pc = "m_capital", !.player = p]
<1>1. u \in Thread /\ u.pc = "m_capital" /\ u.player = p /\ u.batch = {}
      /\ u.amount = 0
  BY NatCopies DEF Idle, Thread, Pcs, DiamondPcs
<1>2. th' = [th EXCEPT ![r] = u] /\ th[r].pc = "idle" /\ calls' = calls + 1
  BY DEF DeductDiamond, Start, seats
<1> HIDE DEF u
<1>3. UNCHANGED <<gold, diamond, version, pledge, avatar, cut, other, faults,
                  taken, charged, torn, broken>>
  BY DEF DeductDiamond, capital, history, seats
<1>4. TypeOK'
  <2>1. GoldTyped'
    BY <1>3, GoldKept DEF PledgeInv
  <2>2. /\ th' \in [Rooms -> Thread] /\ calls' \in Nat
        /\ \A s \in Rooms : th'[s].pc # "idle" => th'[s].player \in Players
    BY <1>1, <1>2 DEF PledgeInv, TypeOK
  <2> QED
    BY <1>3, <2>1, <2>2 DEF PledgeInv, TypeOK, GoldTyped
<1>5. th'[r] = u /\ \A s \in Rooms : s # r => th'[s] = th[s]
  BY <1>2 DEF PledgeInv, TypeOK
<1>6. OthersKept(r) /\ Versioned
  BY <1>3, <1>5 DEF OthersKept, Versioned
<1>7. SnapshotValid(r)' /\ CallInv(r)'
  BY <1>1, <1>3, <1>5 DEF SnapshotValid, CallInv, Holding, ReturnPcs, DeductPcs, JoinPcs
<1>8. ASSUME NEW q \in Players PROVE HoldingInv(r, q)'
  <2>1. Expected(r, q) = pledge[r][q] /\ Expected(r, q)' = pledge[r][q]
    BY <1>1, <1>2, <1>3, <1>5 DEF Expected, DeductPcs
  <2>2. th[r].batch = {} /\ th[r].pc \notin DeductPcs /\ u.pc \notin DeductPcs
    BY <1>1, <1>2 DEF PledgeInv, RoomInv, CallInv, ReturnPcs, DeductPcs
  <2> QED
    BY <1>1, <1>3, <1>5, <2>1, <2>2 DEF PledgeInv, RoomInv, HoldingInv, HasCopyOf
<1> QED
  BY <1>4, <1>6, <1>7, <1>8 DEF Kept, RoomInv

\* deductDiamond reads the account.
LEMMA DiamondCapitalStep ==
  ASSUME PledgeInv, NEW r \in Rooms, DiamondCapital(r)
  PROVE  Kept(r)
<1> DEFINE t == th[r]
           p == th[r].player
<1>1. t.pc = "m_capital"
  BY DEF DiamondCapital, seats
<1>2. t \in Thread /\ p \in Players /\ t.amount \in Nat
  BY <1>1, ThreadFacts, AmountIsNat DEF PledgeInv, DeductPcs
<1>3. t.batch = {}
  BY <1>1 DEF PledgeInv, RoomInv, CallInv, ReturnPcs
<1>4. /\ Read(t) \in Thread /\ Read(t).player = p /\ Read(t).batch = t.batch
      /\ Read(t).gold = gold[p] /\ Read(t).amount = t.amount
      /\ Read(t).diamond = diamond[p] /\ Read(t).version = version[p]
  BY <1>2, ReadFacts DEF PledgeInv
<1>5. diamond[p] \in Nat /\ version[p] \in Nat
  BY <1>2 DEF PledgeInv, TypeOK
<1>6. \/ Goto(r, Read(t), "m_update") /\ ~(DiamondNeed > diamond[p])
      \/ Return(r)
  BY <1>4 DEF DiamondCapital, seats
<1>7. /\ UNCHANGED <<gold, diamond, version, pledge, avatar, cut, calls, other, taken, charged, torn, broken>>
      /\ faults' \in Nat
  <2>1. UNCHANGED <<gold, diamond, version, pledge, avatar, cut, calls, other, taken, charged, torn, broken>>
    BY DEF DiamondCapital, capital, history, seats
  <2>2. Fate("ok") \/ Fate("lost")
    BY DEF DiamondCapital, seats
  <2> QED
    BY <2>1, <2>2 DEF Fate, PledgeInv, TypeOK
<1>8. CASE Goto(r, Read(t), "m_update") /\ ~(DiamondNeed > diamond[p])
  <2>1. /\ TypeOK' /\ OthersKept(r) /\ Versioned
        /\ \A q \in Players : HoldingInv(r, q)'
        /\ th'[r].pc = "m_update" /\ SameLocals(th'[r], Read(t))
    BY <1>1, <1>4, <1>7, <1>8, EarlyGoto DEF Early
  <2>2. SnapshotValid(r)'
    BY <1>4, <1>5, <1>7, <2>1 DEF SnapshotValid, SameLocals, Matches
  <2>3. CallInv(r)'
    BY <1>2, <1>3, <1>4, <1>5, <1>7, <1>8, <2>1, ConstantsAssumption
    DEF CallInv, SameLocals, ReturnPcs, DeductPcs, JoinPcs
  <2> QED
    BY <2>1, <2>2, <2>3 DEF Kept, RoomInv
<1>9. CASE Return(r)
  BY <1>1, <1>7, <1>9, EarlyReturn DEF Early
<1> QED
  BY <1>6, <1>8, <1>9

\* deductDiamond charges the diamonds, tries again or gives up.
LEMMA DiamondUpdateStep ==
  ASSUME PledgeInv, NEW r \in Rooms, NEW out \in Outcomes, DiamondUpdate(r, out)
  PROVE  Kept(r)
<1> DEFINE t == th[r]
           again == [t EXCEPT !.tries = @ + 1]
<1>1. t.pc = "m_update"
  BY DEF DiamondUpdate, seats
<1> PICK p \in Players : p = th[r].player
  BY <1>1, ThreadFacts DEF PledgeInv
<1>2. t \in Thread /\ t.player = p /\ t.diamond \in Nat /\ t.amount \in Nat
  BY <1>1, ThreadFacts, AmountIsNat DEF PledgeInv, DeductPcs
<1>3. t.batch = {} /\ t.diamond >= DiamondNeed
  BY <1>1 DEF PledgeInv, RoomInv, CallInv, ReturnPcs
<1>4. UNCHANGED <<pledge, avatar, cut, calls, other, taken, torn, broken>> /\ faults' \in Nat
  <2>1. UNCHANGED <<pledge, avatar, cut, calls, other, taken, torn, broken>> /\ Fate(out)
    BY DEF DiamondUpdate, seats
  <2> QED
    BY <2>1 DEF Fate, PledgeInv, TypeOK
<1>5. again \in Thread /\ SameLocals(again, t)
  BY <1>2, TriesFacts
<1>6. Return(r) \/ (out = "ok" /\ ~Matches(t) /\ Goto(r, again, "m_capital"))
  BY DEF DiamondUpdate, seats
<1> HIDE DEF again
<1>7. CASE ~(Matches(t) /\ out # "lost")
  <2>1. UNCHANGED <<gold, diamond, version, charged>>
    BY <1>7 DEF DiamondUpdate, capital, seats
  <2>2. CASE Return(r)
    BY <1>1, <1>4, <2>1, <2>2, EarlyReturn DEF Early
  <2>3. CASE Goto(r, again, "m_capital")
    <3>1. again.player = t.player /\ again.batch = t.batch /\ again.amount \in Nat
      BY <1>2, <1>5 DEF SameLocals
    <3>2. /\ TypeOK' /\ OthersKept(r) /\ Versioned
          /\ \A q \in Players : HoldingInv(r, q)'
          /\ th'[r].pc = "m_capital" /\ SameLocals(th'[r], again)
      BY <1>1, <1>4, <1>5, <2>1, <2>3, <3>1, EarlyGoto DEF Early
    <3>3. SnapshotValid(r)' /\ CallInv(r)'
      BY <1>3, <3>1, <3>2
      DEF SnapshotValid, Holding, CallInv, SameLocals, ReturnPcs, DeductPcs, JoinPcs
    <3> QED
      BY <3>2, <3>3 DEF Kept, RoomInv
  <2> QED
    BY <1>6, <2>2, <2>3
<1>8. CASE Matches(t) /\ out # "lost"
  <2>1. /\ diamond' = [diamond EXCEPT ![p] = t.diamond - DiamondNeed]
        /\ version' = [version EXCEPT ![p] = @ + 1]
        /\ charged' = [charged EXCEPT ![p] = @ + 1]
        /\ gold' = gold
    BY <1>2, <1>8 DEF DiamondUpdate, seats
  <2>2. t.diamond - DiamondNeed \in Nat
    BY <1>2, <1>3, ConstantsAssumption
  <2>3. /\ GoldTyped' /\ diamond' \in [Players -> Nat]
        /\ version' \in [Players -> Nat] /\ charged' \in [Players -> Nat] /\ Versioned
    <3>1. GoldTyped'
      BY <1>4, <2>1, GoldKept DEF PledgeInv
    <3> QED
      BY <2>1, <2>2, <3>1 DEF PledgeInv, TypeOK, Versioned
  <2>4. Return(r)
    BY <1>6, <1>8
  <2>5. /\ th' \in [Rooms -> Thread] /\ OtherThreads(r)
        /\ th'[r].pc = "idle" /\ th'[r].batch = {}
        /\ \A s \in Rooms : th'[s].pc # "idle" => th'[s].player \in Players
    BY <2>4, ReturnFacts DEF PledgeInv
  <2>6. TypeOK' /\ OthersKept(r)
    <3>1. TypeOK'
      BY <1>4, <2>3, <2>5 DEF PledgeInv, TypeOK, GoldTyped
    <3>2. OthersKept(r)
      BY <1>4, <2>3, <2>5 DEF OthersKept, OtherThreads
    <3> QED
      BY <3>1, <3>2
  <2>7. ASSUME NEW q \in Players PROVE HoldingInv(r, q)'
    <3>1. Expected(r, q) = pledge[r][q] /\ th[r].pc \notin DeductPcs
      BY <1>1 DEF Expected, DeductPcs
    <3>2. HoldingInv(r, q)
      BY DEF PledgeInv, RoomInv
    <3>3. RestHolding(r, q)'
      BY <1>3, <1>4, <3>1, <3>2 DEF HoldingInv, RestHolding, HasCopyOf
    <3> QED
      BY <2>5, <3>3, IdleHolding
  <2> QED
    BY <2>3, <2>5, <2>6, <2>7, IdleRoom DEF Kept, RoomInv
<1> QED
  BY <1>7, <1>8

-----------------------------------------------------------------------------
(* The environment *)

\* A settlement changes row, avatar and holding together.
LEMMA SettleStep ==
  ASSUME PledgeInv, NEW r \in Rooms, NEW p \in Players, NEW n \in Nat, Settle(r, p, n)
  PROVE  Kept(r)
<1> DEFINE m == taken[r][p] + n - avatar[r][p]
<1>1. /\ th[r].pc = "idle" /\ avatar[r][p] # None /\ calls' = calls + 1
      /\ pledge' = [pledge EXCEPT ![r][p] = n]
      /\ avatar' = [avatar EXCEPT ![r][p] = n]
      /\ taken' = [taken EXCEPT ![r][p] = m]
      /\ UNCHANGED <<gold, diamond, version, th, other, faults, charged, torn, broken, cut>>
  BY DEF Settle, capital
<1>2. /\ TypeOK /\ avatar[r][p] \in Int /\ taken[r][p] \in Int /\ pledge[r][p] \in Nat
      /\ th[r].batch = {} /\ n \in Copies \cup {None} /\ m \in Int
  <2>1. TypeOK /\ th[r].batch = {}
    BY <1>1 DEF PledgeInv, RoomInv, CallInv, ReturnPcs
  <2>2. avatar[r][p] \in Int /\ taken[r][p] \in Int /\ pledge[r][p] \in Nat
    <3>1. /\ avatar[r][p] \in Copies \cup {None}
          /\ taken[r][p] \in Int /\ pledge[r][p] \in Nat
      BY <2>1 DEF TypeOK
    <3> QED
      BY <3>1, NatCopies
  <2> QED
    BY <2>1, <2>2, NatCopies
<1>3. /\ pledge' \in [Rooms -> [Players -> Nat]]
      /\ \A s \in Rooms : s # r => pledge'[s] = pledge[s]
      /\ pledge'[r][p] = n
      /\ \A q \in Players : q # p => pledge'[r][q] = pledge[r][q]
  BY <1>1, <1>2, PledgeCell, ZenonT(60)
<1>4. /\ avatar' \in [Rooms -> [Players -> Copies \cup {None}]]
      /\ \A s \in Rooms : s # r => avatar'[s] = avatar[s]
      /\ avatar'[r][p] = n
      /\ \A q \in Players : q # p => avatar'[r][q] = avatar[r][q]
  BY <1>1, <1>2, AvatarCell, ZenonT(60)
<1> HIDE DEF m
<1>5. /\ taken' \in [Rooms -> [Players -> Int]]
      /\ \A s \in Rooms : s # r => taken'[s] = taken[s]
      /\ taken'[r][p] = m
      /\ \A q \in Players : q # p => taken'[r][q] = taken[r][q]
  BY <1>1, <1>2, TakenCell, ZenonT(60)
<1>6. TypeOK' /\ OthersKept(r) /\ Versioned
  <2>1. GoldTyped'
    BY <1>1, <1>2, GoldKept
  <2>2. TypeOK'
    BY <1>1, <1>2, <1>3, <1>4, <1>5, <2>1, SMTT(30) DEF TypeOK, GoldTyped
  <2> QED
    BY <1>1, <1>2, <1>3, <1>4, <1>5, <2>2 DEF OthersKept, Versioned
<1>7. th'[r].pc = "idle" /\ th'[r].batch = {}
  BY <1>1, <1>2
<1>8. HoldingInv(r, p)'
  <2>1. HoldingInv(r, p) /\ Expected(r, p) = pledge[r][p] /\ th[r].pc \notin DeductPcs
    BY <1>1 DEF PledgeInv, RoomInv, Expected, DeductPcs
  <2>2. RestHolding(r, p)'
    <3>1. <<r, p>> \notin torn =>
            \/ avatar[r][p] = pledge[r][p]
            \/ avatar[r][p] <= pledge[r][p] /\ <<r, p>> \in cut
      <4>1. <<r, p>> \notin torn => HasCopyOf(r, p, pledge[r][p])
        BY <1>1, <1>2, <2>1 DEF HoldingInv
      <4>2. ToInt(pledge[r][p]) <= pledge[r][p]
        BY <1>2, ToIntFacts
      <4> QED
        BY <1>2, <4>1, <4>2 DEF HasCopyOf
    <3>2. /\ <<r, p>> \notin torn => taken[r][p] >= pledge[r][p]
          /\ <<r, p>> \notin torn /\ <<r, p>> \notin broken /\ <<r, p>> \notin cut =>
               taken[r][p] = pledge[r][p]
      BY <2>1 DEF HoldingInv
    <3>3. /\ <<r, p>> \notin torn => m >= n
          /\ <<r, p>> \notin torn /\ <<r, p>> \notin broken /\ <<r, p>> \notin cut => m = n
      BY <1>2, <3>1, <3>2 DEF m
    <3> QED
      BY <1>1, <1>3, <1>4, <1>5, <3>3 DEF RestHolding, HasCopyOf
  <2> QED
    BY <1>7, <2>2, IdleHolding
<1>9. ASSUME NEW q \in Players, q # p PROVE HoldingInv(r, q)'
  <2>1. HoldingInv(r, q) /\ Expected(r, q) = pledge[r][q] /\ th[r].pc \notin DeductPcs
    BY <1>1 DEF PledgeInv, RoomInv, Expected, DeductPcs
  <2>2. RestHolding(r, q)'
    BY <1>1, <1>2, <1>3, <1>4, <1>5, <1>9, <2>1 DEF HoldingInv, RestHolding, HasCopyOf
  <2> QED
    BY <1>7, <2>2, IdleHolding
<1> QED
  BY <1>6, <1>7, <1>8, <1>9, IdleRoom DEF Kept, RoomInv

\* A crash forgets the call; what it had half done is recorded in the history.
LEMMA CrashStep ==
  ASSUME PledgeInv, NEW r \in Rooms, Crash(r)
  PROVE  Kept(r)
<1> DEFINE t == th[r]
           half == t.pc \in {"j_count", "j_row", "r_capital", "r_credit"}
           open == t.pc \in DeductPcs /\ pledge[r][t.player] # t.row
<1>1. TypeOK /\ Return(r) /\ faults' \in Nat
  <2>1. TypeOK /\ Return(r) /\ Fate("lost") /\ faults \in Nat
    BY DEF Crash, PledgeInv, TypeOK
  <2> QED
    BY <2>1 DEF Fate
<1>2. UNCHANGED <<gold, diamond, version, pledge, calls, other, taken, charged, cut>>
  BY DEF Crash, capital
<1>3. /\ th' \in [Rooms -> Thread] /\ OtherThreads(r)
      /\ th'[r].pc = "idle" /\ th'[r].batch = {}
      /\ \A s \in Rooms : th'[s].pc # "idle" => th'[s].player \in Players
  BY <1>1, ReturnFacts
<1>4. /\ avatar' \in [Rooms -> [Players -> Copies \cup {None}]]
      /\ \A s \in Rooms : s # r => avatar'[s] = avatar[s]
      /\ \A q \in Players : avatar'[r][q] = None
  BY <1>1 DEF Crash, TypeOK
<1>5. /\ broken' = IF half THEN broken \cup {<<r, t.player>>} ELSE broken
      /\ torn' = IF open THEN torn \cup {<<r, t.player>>} ELSE torn
  BY DEF Crash, Mark
<1>6. half \/ open => t.player \in Players
  BY <1>1, ThreadFacts DEF DeductPcs
<1>7. TypeOK' /\ Versioned
  <2>1. broken' \subseteq Rooms \X Players /\ torn' \subseteq Rooms \X Players
    BY <1>1, <1>5, <1>6 DEF TypeOK
  <2>2. GoldTyped'
    BY <1>1, <1>2, GoldKept
  <2> QED
    BY <1>1, <1>2, <1>3, <1>4, <2>1, <2>2 DEF TypeOK, Versioned, GoldTyped
<1>8. OthersKept(r)
  BY <1>2, <1>3, <1>4, <1>5 DEF OthersKept, OtherThreads
<1>9. ASSUME NEW q \in Players PROVE HoldingInv(r, q)'
  <2>1. HoldingInv(r, q)
    BY DEF PledgeInv, RoomInv
  <2>2. pledge[r][q] \in Nat /\ taken[r][q] \in Int
    BY <1>1 DEF TypeOK
  <2>3. <<r, q>> \notin torn' => <<r, q>> \notin torn
    BY <1>5
  <2>4. <<r, q>> \notin broken' => <<r, q>> \notin broken
    BY <1>5
  <2>5. CASE t.player = q /\ t.pc \in DeductPcs
    <3>1. Expected(r, q) = t.row
      BY <2>5 DEF Expected, DeductPcs
    <3>2. <<r, q>> \notin torn' => pledge[r][q] = t.row
      BY <1>5, <2>5
    <3> QED
      <4>1. RestHolding(r, q)'
        BY <1>2, <1>4, <2>1, <2>2, <2>3, <2>4, <3>1, <3>2 DEF HoldingInv, RestHolding
      <4> QED
        BY <1>3, <4>1, IdleHolding
  <2>6. CASE t.player = q /\ half
    <3>1. <<r, q>> \in broken'
      BY <1>5, <2>6
    <3>2. taken[r][q] >= pledge[r][q] \/ <<r, q>> \in torn
      <4>1. CASE t.pc \in {"j_count", "j_row"}
        <5>1. Expected(r, q) = PledgeNeed /\ pledge[r][q] < PledgeNeed /\ PledgeNeed \in Nat
          BY <2>6, <4>1, ConstantsAssumption DEF Expected, PledgeInv, RoomInv, CallInv
        <5> QED
          BY <2>1, <2>2, <5>1 DEF HoldingInv
      <4>2. CASE t.pc \in {"r_capital", "r_credit"}
        <5>1. Expected(r, q) = t.amount /\ pledge[r][q] = 0 /\ t.amount \in Nat
          BY <1>1, <2>6, <4>2, AmountIsNat DEF Expected, PledgeInv, RoomInv, CallInv, DeductPcs
        <5> QED
          BY <2>1, <2>2, <5>1 DEF HoldingInv
      <4> QED
        BY <2>6, <4>1, <4>2
    <3>3. RestHolding(r, q)'
      BY <1>2, <1>4, <2>3, <3>1, <3>2 DEF RestHolding
    <3> QED
      BY <1>3, <3>3, IdleHolding
  <2>7. CASE ~(t.player = q /\ (half \/ t.pc \in DeductPcs))
    <3>1. Expected(r, q) = pledge[r][q]
      BY <2>7 DEF Expected
    <3>2. RestHolding(r, q)'
      BY <1>2, <1>4, <2>1, <2>3, <2>4, <3>1 DEF HoldingInv, RestHolding
    <3> QED
      BY <1>3, <3>2, IdleHolding
  <2> QED
    BY <2>5, <2>6, <2>7
<1> QED
  BY <1>3, <1>7, <1>8, <1>9, IdleRoom DEF Kept, RoomInv

\* Another service's write concerns the rooms only through `capital`.
LEMMA OtherServiceStep ==
  ASSUME PledgeInv, NEW p \in Players, NEW g \in Nat, OtherService(p, g)
  PROVE  PledgeInv'
<1>1. /\ UNCHANGED <<diamond, pledge, avatar, cut, th, calls, faults, taken, charged, torn, broken>>
      /\ gold' = [gold EXCEPT ![p] = g] /\ version' = [version EXCEPT ![p] = @ + 1]
      /\ other' = other + 1
  BY DEF OtherService, history, seats
<1>2. TypeOK' /\ Versioned
  <2>1. GoldTyped'
    <3>1. /\ gold \in [Players -> Int]
          /\ \A q \in Players : gold[q] >= 0 \/ \E r \in Rooms : <<r, q>> \in cut
      BY DEF PledgeInv, TypeOK
    <3> QED
      BY <1>1, <3>1 DEF GoldTyped
  <2>2. version' \in [Players -> Nat] /\ Versioned /\ other' \in Nat
    BY <1>1 DEF PledgeInv, TypeOK, Versioned
  <2> QED
    BY <1>1, <2>1, <2>2 DEF PledgeInv, TypeOK, GoldTyped
<1>3. ASSUME NEW r \in Rooms PROVE RoomInv(r)'
  <2>1. SnapshotValid(r)'
    <3>1. SUFFICES ASSUME th[r].pc \in Holding PROVE SnapshotValid(r)'
      BY <1>1 DEF SnapshotValid
    <3>2. th[r].player \in Players /\ th[r].version \in Nat
      BY <3>1, ThreadFacts DEF PledgeInv, Holding
    <3>3. SnapshotValid(r) /\ version[th[r].player] \in Nat /\ version'[th[r].player] \in Nat
      BY <1>2, <3>2 DEF PledgeInv, RoomInv, TypeOK
    <3> QED
      BY <1>1, <1>2, <3>1, <3>2, <3>3 DEF SnapshotValid, Versioned, Matches
  <2>2. CallInv(r)'
    BY <1>1 DEF PledgeInv, RoomInv, CallInv, Target, Enough
  <2>3. ASSUME NEW q \in Players PROVE HoldingInv(r, q)'
    BY <1>1, <2>3 DEF PledgeInv, RoomInv, HoldingInv, Expected, HasCopyOf
  <2> QED
    BY <2>1, <2>2, <2>3 DEF RoomInv
<1> QED
  BY <1>2, <1>3 DEF PledgeInv

-----------------------------------------------------------------------------
(* The inductive invariant *)

\* In the initial state no room holds anything and every thread is idle.
LEMMA InitInv == Init => PledgeInv
<1> SUFFICES ASSUME Init PROVE PledgeInv
  OBVIOUS
<1>1. TypeOK
  <2>1. /\ GoldTyped /\ diamond \in [Players -> Nat]
        /\ version \in [Players -> Nat] /\ charged \in [Players -> Nat]
    <3>1. gold \in [Players -> Nat] /\ diamond \in [Players -> Nat]
      BY ConstantsAssumption DEF Init
    <3> QED
      BY <3>1 DEF Init, GoldTyped
  <2>2. /\ pledge \in [Rooms -> [Players -> Nat]]
        /\ avatar \in [Rooms -> [Players -> Copies \cup {None}]]
        /\ taken \in [Rooms -> [Players -> Int]]
        /\ calls \in Nat /\ other \in Nat /\ faults \in Nat
        /\ torn = {} /\ broken = {} /\ cut = {}
    BY DEF Init
  <2>3. th \in [Rooms -> Thread] /\ \A r \in Rooms : th[r].pc = "idle"
    BY IdleFacts DEF Init
  <2> QED
    BY <2>1, <2>2, <2>3 DEF TypeOK, GoldTyped
<1>2. ASSUME NEW r \in Rooms PROVE RoomInv(r)
  <2>1. th[r].pc = "idle" /\ th[r].batch = {}
    BY IdleFacts DEF Init
  <2>2. SnapshotValid(r) /\ CallInv(r)
    BY <2>1 DEF SnapshotValid, CallInv, Holding, ReturnPcs, DeductPcs, JoinPcs
  <2>3. ASSUME NEW p \in Players PROVE HoldingInv(r, p)
    <3>1. taken[r][p] = 0 /\ pledge[r][p] = 0 /\ avatar[r][p] = None
      BY DEF Init
    <3>2. Expected(r, p) = 0
      BY <2>1, <3>1 DEF Expected, DeductPcs
    <3> QED
      BY <3>1, <3>2 DEF HoldingInv
  <2> QED
    BY <2>2, <2>3 DEF RoomInv
<1> QED
  BY <1>1, <1>2 DEF PledgeInv

\* An action that keeps the invariant of its own room keeps that of every room.
LEMMA KeptSuffices ==
  ASSUME PledgeInv, NEW r \in Rooms, Kept(r)
  PROVE  PledgeInv'
<1>1. TypeOK' /\ OthersKept(r) /\ Versioned /\ RoomInv(r)'
  BY DEF Kept
<1>2. ASSUME NEW s \in Rooms PROVE RoomInv(s)'
  BY <1>1, OtherRooms
<1> QED
  BY <1>1, <1>2 DEF PledgeInv

\* Every step of the specification preserves the invariant.
LEMMA StepInv == PledgeInv /\ [Next]_vars => PledgeInv'
<1> SUFFICES ASSUME PledgeInv, [Next]_vars PROVE PledgeInv'
  OBVIOUS
<1> USE DEF Outcomes
<1>1. ASSUME NEW r \in Rooms, Call(r) PROVE PledgeInv'
  <2>1. ASSUME NEW p \in Players, JoinGame(r, p) \/ Leave(r, p) \/ DeductDiamond(r, p)
        PROVE  Kept(r)
    BY <2>1, JoinGameStep, LeaveStep, DeductDiamondStep
  <2>2. ASSUME KickAllAvatars(r) PROVE Kept(r)
    BY <2>2, KickAllAvatarsStep
  <2>3. ASSUME NEW p \in Players, NEW n \in GoldNeeds \cup {PledgeNeed},
               NEW k \in BOOLEAN, DeductCashPledge(r, p, n, k)
        PROVE  Kept(r)
    <3>1. n \in Nat
      BY ConstantsAssumption
    <3> QED
      BY <2>3, <3>1, DeductCashPledgeStep
  <2>4. Kept(r)
    BY <1>1, <2>1, <2>2, <2>3 DEF Call
  <2> QED
    BY <2>4, KeptSuffices
<1>2. ASSUME NEW r \in Rooms, Step(r) PROVE PledgeInv'
  <2>1. CASE JoinPledge(r) \/ JoinCapital(r) \/ JoinCount(r)
    BY <2>1, JoinPledgeStep, JoinCapitalStep, JoinCountStep, KeptSuffices
  <2>2. CASE ReturnPledge(r) \/ ReturnCapital(r)
    BY <2>2, ReturnPledgeStep, ReturnCapitalStep, KeptSuffices
  <2>3. CASE DeductCapital(r) \/ DeductCount(r) \/ DiamondCapital(r)
    BY <2>3, DeductCapitalStep, DeductCountStep, DiamondCapitalStep, KeptSuffices
  <2>4. ASSUME NEW out \in Outcomes, JoinDebit(r, out) \/ JoinRow(r, out)
        PROVE  PledgeInv'
    BY <2>4, JoinDebitStep, JoinRowStep, KeptSuffices
  <2>5. ASSUME NEW out \in Outcomes, ReturnDelete(r, out) \/ ReturnCredit(r, out)
        PROVE  PledgeInv'
    BY <2>5, ReturnDeleteStep, ReturnCreditStep, KeptSuffices
  <2>6. ASSUME NEW out \in Outcomes,
               DeductRow(r, out) \/ DeductUpdate(r, out) \/ DiamondUpdate(r, out)
        PROVE  PledgeInv'
    BY <2>6, DeductRowStep, DeductUpdateStep, DiamondUpdateStep, KeptSuffices
  <2> QED
    BY <1>2, <2>1, <2>2, <2>3, <2>4, <2>5, <2>6 DEF Step
<1>3. CASE Environment
  <2>1. ASSUME NEW r \in Rooms, Crash(r) PROVE PledgeInv'
    BY <2>1, CrashStep, KeptSuffices
  <2>2. ASSUME NEW r \in Rooms, NEW p \in Players, NEW n \in Settlements, Settle(r, p, n)
        PROVE  PledgeInv'
    <3>1. n \in Nat
      BY ConstantsAssumption
    <3> QED
      BY <2>2, <3>1, SettleStep, KeptSuffices
  <2>3. ASSUME NEW p \in Players, NEW g \in OtherGold, OtherService(p, g)
        PROVE  PledgeInv'
    <3>1. g \in Nat
      BY ConstantsAssumption
    <3> QED
      BY <2>3, <3>1, OtherServiceStep
  <2> QED
    BY <1>3, <2>1, <2>2, <2>3 DEF Environment
<1>4. CASE UNCHANGED vars
  <2>1. TypeOK'
    BY <1>4 DEF vars, PledgeInv, TypeOK
  <2>2. ASSUME NEW r \in Rooms PROVE RoomInv(r)'
    <3>1. SnapshotValid(r)' /\ CallInv(r)'
      BY <1>4, <2>2 DEF vars, PledgeInv, RoomInv, SnapshotValid, CallInv, Target,
                        Enough, Matches
    <3>2. ASSUME NEW q \in Players PROVE HoldingInv(r, q)'
      BY <1>4, <3>2 DEF vars, PledgeInv, RoomInv, HoldingInv, Expected, HasCopyOf
    <3> QED
      BY <3>1, <3>2 DEF RoomInv
  <2> QED
    BY <2>1, <2>2 DEF PledgeInv
<1> QED
  BY <1>1, <1>2, <1>3, <1>4 DEF Next

\* The invariant behind every theorem below holds in every reachable state.
THEOREM PledgeInvariant == Spec => []PledgeInv
  BY InitInv, StepInv, PTL DEF Spec

\* Type correctness: in particular no pledge and no number of diamonds is ever
\* negative, although each is computed from a row read earlier, and no account is
\* overdrawn unless a room computes with a pledge that joinGame cut to an int.
THEOREM TypeCorrect == Spec => []TypeOK
<1>1. PledgeInv => TypeOK
  BY DEF PledgeInv
<1> QED
  BY <1>1, PledgeInvariant, PTL

-----------------------------------------------------------------------------
(* The safety properties *)

\* No pledge row promises more gold than the room took, except while
\* deductCashPledge is at work on it or after it gave up halfway.
THEOREM Backed == Spec => []PledgeBacked
<1>1. PledgeInv => PledgeBacked
  <2> SUFFICES ASSUME PledgeInv, NEW r \in Rooms, NEW p \in Players,
                      pledge[r][p] > taken[r][p], <<r, p>> \notin torn,
                      ~(th[r].pc \in DeductPcs /\ th[r].player = p)
               PROVE  FALSE
    BY DEF PledgeBacked
  <2>1. TypeOK /\ CallInv(r) /\ HoldingInv(r, p)
    BY DEF PledgeInv, RoomInv
  <2>2. pledge[r][p] \in Nat /\ taken[r][p] \in Int /\ taken[r][p] >= Expected(r, p)
    BY <2>1 DEF TypeOK, HoldingInv
  <2>3. CASE th[r].player = p /\ th[r].pc \in {"j_count", "j_row"}
    BY <2>1, <2>2, <2>3, ConstantsAssumption DEF Expected, CallInv
  <2>4. CASE th[r].player = p /\ th[r].pc \in {"r_capital", "r_credit"}
    <3>1. th[r].amount \in Nat
      BY <2>1, <2>4, AmountIsNat DEF DeductPcs
    <3> QED
      BY <2>1, <2>2, <2>4, <3>1 DEF Expected, CallInv
  <2>5. CASE ~(th[r].player = p /\ th[r].pc \in {"j_count", "j_row", "r_capital", "r_credit"})
    BY <2>2, <2>5 DEF Expected
  <2> QED
    BY <2>3, <2>4, <2>5
<1> QED
  BY <1>1, PledgeInvariant, PTL

\* Between calls a pledge row is worth exactly what the room took from the
\* player, unless a fault or the end of the retries split a call in two, or the
\* player once joined the room with a pledge that does not fit into an int.
THEOREM Exact == Spec => []PledgeExact
<1>1. PledgeInv => PledgeExact
  <2> SUFFICES ASSUME PledgeInv, NEW r \in Rooms, NEW p \in Players,
                      ~Working(r, p), <<r, p>> \notin torn \cup broken \cup cut
               PROVE  pledge[r][p] = taken[r][p]
    BY DEF PledgeExact
  <2>1. HoldingInv(r, p)
    BY DEF PledgeInv, RoomInv
  <2>2. Expected(r, p) = pledge[r][p]
    BY DEF Working, Expected, DeductPcs
  <2> QED
    BY <2>1, <2>2 DEF HoldingInv
<1> QED
  BY <1>1, PledgeInvariant, PTL

\* Between calls the avatar's pledge is the amount of the pledge row, or what the
\* cast of joinGame left of that amount.
THEOREM AvatarRow == Spec => []AvatarMatchesRow
<1>1. PledgeInv => AvatarMatchesRow
  <2> SUFFICES ASSUME PledgeInv, NEW r \in Rooms, NEW p \in Players,
                      ~Working(r, p), <<r, p>> \notin torn, avatar[r][p] # None
               PROVE  HasCopyOf(r, p, pledge[r][p])
    BY DEF AvatarMatchesRow
  <2>1. HoldingInv(r, p) /\ CallInv(r)
    BY DEF PledgeInv, RoomInv
  <2>2. p \notin th[r].batch /\ ~(th[r].player = p /\ th[r].pc \in DeductPcs)
    BY <2>1 DEF Working, CallInv, ReturnPcs, DeductPcs
  <2> QED
    BY <2>1, <2>2 DEF HoldingInv
<1> QED
  BY <1>1, PledgeInvariant, PTL

-----------------------------------------------------------------------------
(* CashPledge implements CapitalLedger *)

\* A conditional update computed from the present row is a Transfer.
LEMMA WriteIsTransfer ==
  ASSUME TypeOK, NEW r \in Rooms, NEW p \in Players, NEW t, t.player = p,
         NEW g \in Int, NEW m \in Int, g = gold[p] - m, WriteGold(r, t, g, m),
         m > 0 => g >= 0 \/ <<r, p>> \in cut
  PROVE  Ledger!Transfer(r, p)
<1>1. /\ gold' = [gold EXCEPT ![p] = g] /\ gold[p] \in Int
      /\ taken' = [taken EXCEPT ![r][p] = @ + m]
      /\ UNCHANGED <<diamond, charged>>
  BY DEF WriteGold, TypeOK
<1>2. gold'[p] = g /\ gold[p] - gold'[p] = m
  BY <1>1 DEF TypeOK
<1>3. gold' = [gold EXCEPT ![p] = @ - m]
  BY <1>1
<1> QED
  BY <1>1, <1>2, <1>3 DEF Ledger!Transfer

\* Each statement that writes `capital` is a transfer or a charge of the ledger,
\* because the version test guarantees that the row read is the present row.
LEMMA StepRefines ==
  ASSUME PledgeInv, NEW r \in Rooms, Step(r)
  PROVE  \/ UNCHANGED <<gold, diamond, taken, charged>>
         \/ \E p \in Players : Ledger!Transfer(r, p) \/ Ledger!ChargeDiamond(p)
<1> DEFINE Goal == \/ UNCHANGED <<gold, diamond, taken, charged>>
                   \/ \E p \in Players : Ledger!Transfer(r, p) \/ Ledger!ChargeDiamond(p)
           t == th[r]
<1>1. CASE JoinPledge(r) \/ JoinCapital(r) \/ JoinCount(r)
  BY <1>1 DEF JoinPledge, JoinCapital, JoinCount, capital, history, seats
<1>2. CASE ReturnPledge(r) \/ ReturnCapital(r)
  BY <1>2 DEF ReturnPledge, ReturnCapital, capital, history, seats
<1>3. CASE DeductCapital(r) \/ DeductCount(r) \/ DiamondCapital(r)
  BY <1>3 DEF DeductCapital, DeductCount, DiamondCapital, capital, history, seats
<1>4. ASSUME NEW out \in Outcomes, JoinRow(r, out) \/ ReturnDelete(r, out) \/ DeductRow(r, out)
      PROVE  Goal
  BY <1>4 DEF JoinRow, ReturnDelete, DeductRow, capital, seats
<1>5. TypeOK /\ SnapshotValid(r) /\ CallInv(r)
  BY DEF PledgeInv, RoomInv
<1>6. ASSUME NEW out \in Outcomes, JoinDebit(r, out)
      PROVE  Goal
  <2>1. t.pc = "j_debit"
    BY <1>6 DEF JoinDebit, seats
  <2>2. t.player \in Players /\ t.gold \in Int /\ t.amount \in Nat
    BY <1>5, <2>1, ThreadFacts, AmountIsNat DEF DeductPcs
  <2>3. CASE Matches(t) /\ out # "lost"
    <3> DEFINE m == PledgeNeed - t.amount
    <3>1. WriteGold(r, t, t.gold - m, m)
      BY <1>6, <2>3 DEF JoinDebit, seats
    <3>2. /\ gold[t.player] = t.gold /\ t.gold - m \in Int /\ m \in Int
          /\ t.gold - m >= 0
      BY <1>5, <2>1, <2>2, <2>3, ConstantsAssumption DEF SnapshotValid, Holding, CallInv
    <3> HIDE DEF m
    <3> QED
      BY <1>5, <2>2, <3>1, <3>2, WriteIsTransfer
  <2>4. CASE ~(Matches(t) /\ out # "lost")
    BY <1>6, <2>4 DEF JoinDebit, capital, seats
  <2> QED
    BY <2>3, <2>4
<1>7. ASSUME NEW out \in Outcomes, ReturnCredit(r, out)
      PROVE  Goal
  <2>1. t.pc = "r_credit"
    BY <1>7 DEF ReturnCredit, seats
  <2>2. t.player \in Players /\ t.gold \in Int /\ t.amount \in Nat
    BY <1>5, <2>1, ThreadFacts, AmountIsNat DEF DeductPcs
  <2>3. CASE Matches(t) /\ out # "lost"
    <3>1. WriteGold(r, t, t.gold + t.amount, -t.amount)
      BY <1>7, <2>3 DEF ReturnCredit, seats
    <3>2. /\ t.gold + t.amount = gold[t.player] - (-t.amount)
          /\ t.gold + t.amount \in Int /\ -t.amount \in Int /\ ~(-t.amount > 0)
      BY <1>5, <2>1, <2>2, <2>3 DEF SnapshotValid, Holding
    <3> QED
      BY <1>5, <2>2, <3>1, <3>2, WriteIsTransfer
  <2>4. CASE ~(Matches(t) /\ out # "lost")
    BY <1>7, <2>4 DEF ReturnCredit, capital, seats
  <2> QED
    BY <2>3, <2>4
<1>8. ASSUME NEW out \in Outcomes, DeductUpdate(r, out)
      PROVE  Goal
  <2>1. t.pc = "d_update"
    BY <1>8 DEF DeductUpdate, seats
  <2>2. /\ t.player \in Players /\ t.gold \in Int /\ t.amount \in Int /\ t.need \in Nat
        /\ t.amount >= 0 \/ <<r, t.player>> \in cut
    <3>1. t.pc \in DeductPcs /\ t.player \in Players
      BY <1>5, <2>1, ThreadFacts DEF DeductPcs
    <3> QED
      BY <3>1, DeductFacts
  <2>3. CASE Matches(t) /\ out # "lost" /\ Enough(t)
    <3> DEFINE m == t.need - t.amount
    <3>1. WriteGold(r, t, t.gold - m, m)
      BY <1>8, <2>3 DEF DeductUpdate, seats
    <3>2. /\ gold[t.player] = t.gold /\ t.gold - m \in Int /\ m \in Int
          /\ t.gold - m >= 0
      BY <1>5, <2>1, <2>2, <2>3 DEF SnapshotValid, Holding, Enough
    <3> HIDE DEF m
    <3> QED
      BY <1>5, <2>2, <3>1, <3>2, WriteIsTransfer
  <2>4. CASE Matches(t) /\ out # "lost" /\ ~Enough(t)
    <3>1. WriteGold(r, t, t.gold + t.amount, -t.amount)
      BY <1>8, <2>4 DEF DeductUpdate, seats
    <3>2. /\ t.gold + t.amount = gold[t.player] - (-t.amount)
          /\ t.gold + t.amount \in Int /\ -t.amount \in Int
          /\ -t.amount > 0 => <<r, t.player>> \in cut
      BY <1>5, <2>1, <2>2, <2>4 DEF SnapshotValid, Holding
    <3> QED
      BY <1>5, <2>2, <3>1, <3>2, WriteIsTransfer
  <2>5. CASE ~(Matches(t) /\ out # "lost")
    BY <1>8, <2>5 DEF DeductUpdate, capital, seats
  <2> QED
    BY <2>3, <2>4, <2>5
<1>9. ASSUME NEW out \in Outcomes, DiamondUpdate(r, out)
      PROVE  Goal
  <2>1. t.pc = "m_update"
    BY <1>9 DEF DiamondUpdate, seats
  <2>2. t.player \in Players /\ t.diamond \in Nat
    BY <1>5, <2>1, ThreadFacts
  <2>3. CASE Matches(t) /\ out # "lost"
    <3>1. /\ diamond' = [diamond EXCEPT ![t.player] = t.diamond - DiamondNeed]
          /\ charged' = [charged EXCEPT ![t.player] = @ + 1]
          /\ UNCHANGED <<gold, taken>>
      BY <1>9, <2>3 DEF DiamondUpdate, seats
    <3>2. diamond[t.player] = t.diamond /\ t.diamond - DiamondNeed \in Nat
      BY <1>5, <2>1, <2>2, <2>3, ConstantsAssumption DEF SnapshotValid, Holding, CallInv
    <3>3. diamond'[t.player] \in Nat
      BY <1>5, <2>2, <3>1, <3>2 DEF TypeOK
    <3>4. Ledger!ChargeDiamond(t.player)
      BY <3>1, <3>2, <3>3 DEF Ledger!ChargeDiamond
    <3> QED
      BY <2>2, <3>4
  <2>4. CASE ~(Matches(t) /\ out # "lost")
    BY <1>9, <2>4 DEF DiamondUpdate, capital, seats
  <2> QED
    BY <2>3, <2>4
<1> QED
  BY <1>1, <1>2, <1>3, <1>4, <1>6, <1>7, <1>8, <1>9 DEF Step

\* Every step of the protocol is a step of the ledger, or changes nothing in it.
LEMMA NextRefines ==
  PledgeInv /\ [Next]_vars => [Ledger!LedgerNext]_(Ledger!ledgerVars)
<1> SUFFICES ASSUME PledgeInv, [Next]_vars
             PROVE  Ledger!LedgerNext \/ UNCHANGED <<gold, diamond, taken, charged>>
  BY DEF Ledger!ledgerVars
<1>1. ASSUME NEW r \in Rooms, Call(r)
      PROVE  UNCHANGED <<gold, diamond, taken, charged>>
  BY <1>1 DEF Call, JoinGame, Leave, DeductDiamond, KickAllAvatars, DeductCashPledge,
              capital, history, seats
<1>2. ASSUME NEW r \in Rooms, Step(r)
      PROVE  Ledger!LedgerNext \/ UNCHANGED <<gold, diamond, taken, charged>>
  BY <1>2, StepRefines DEF Ledger!LedgerNext
<1>3. ASSUME NEW r \in Rooms, Crash(r)
      PROVE  UNCHANGED <<gold, diamond, taken, charged>>
  BY <1>3 DEF Crash, capital
<1>4. ASSUME NEW r \in Rooms, NEW p \in Players, NEW n \in Settlements, Settle(r, p, n)
      PROVE  Ledger!Settlement(r, p)
  <2>1. /\ taken' = [taken EXCEPT ![r][p] = @ + n - avatar[r][p]]
        /\ UNCHANGED <<gold, diamond, charged>>
    BY <1>4 DEF Settle, capital
  <2>2. taken' = [taken EXCEPT ![r][p] = taken'[r][p]]
    BY <2>1 DEF PledgeInv, TypeOK
  <2> QED
    BY <2>1, <2>2 DEF Ledger!Settlement
<1>5. ASSUME NEW p \in Players, NEW g \in OtherGold, OtherService(p, g)
      PROVE  Ledger!OtherWriter(p)
  <2>1. gold' = [gold EXCEPT ![p] = g] /\ UNCHANGED <<diamond, taken, charged>> /\ g \in Nat
    BY <1>5, ConstantsAssumption DEF OtherService, history, seats
  <2>2. gold'[p] = g
    BY <2>1 DEF PledgeInv, TypeOK
  <2> QED
    BY <2>1, <2>2 DEF Ledger!OtherWriter
<1>6. CASE Environment
  BY <1>3, <1>4, <1>5, <1>6 DEF Environment, Ledger!LedgerNext
<1>7. CASE UNCHANGED vars
  BY <1>7 DEF vars
<1> QED
  BY <1>1, <1>2, <1>6, <1>7 DEF Next

\* CashPledge implements CapitalLedger: optimistic locking loses no update and
\* overdraws no account, for any number of rooms, players, faults and attempts.
THEOREM LedgerRefinement == Spec => NoLostUpdate
<1>1. Init => Ledger!LedgerInit
  <2> SUFFICES ASSUME Init PROVE Ledger!LedgerInit
    OBVIOUS
  <2>1. gold \in [Players -> Nat] /\ diamond \in [Players -> Nat]
    BY ConstantsAssumption DEF Init
  <2> QED
    BY <2>1 DEF Init, Ledger!LedgerInit
<1> QED
  BY <1>1, NextRefines, PledgeInvariant, PTL DEF Spec, NoLostUpdate, Ledger!LedgerSpec


-----------------------------------------------------------------------------
(* Nothing is left behind as long as nothing fails *)

\* The rooms that do not move keep what they have.
LEMMA ReleasedRoom ==
  ASSUME PledgeInv, ReleasedInv, NEW r \in Rooms, Kept(r),
         faults' = 0 => faults = 0 /\ Released(r)'
  PROVE  ReleasedInv'
<1> SUFFICES ASSUME faults' = 0, NEW s \in Rooms
             PROVE  Released(s)'
  BY DEF ReleasedInv
<1>1. CASE s = r
  BY <1>1
<1>2. CASE s # r
  BY <1>2 DEF Kept, OthersKept, ReleasedInv, Released
<1> QED
  BY <1>1, <1>2

\* A statement that is executed while nothing may fail.
LEMMA FateOk ==
  ASSUME PledgeInv, NEW out, Fate(out), faults' = 0
  PROVE  out = "ok" /\ faults = 0
BY DEF Fate, PledgeInv, TypeOK

\* A room that is not emptied: rows change only for those who stay.
LEMMA ReleasedStays ==
  ASSUME PledgeInv, ReleasedInv, faults = 0, NEW r \in Rooms, Kept(r),
         th[r].pc \notin ReturnPcs, th'[r].pc \notin ReturnPcs,
         \A p \in Players : avatar'[r][p] = None =>
                              avatar[r][p] = None /\ pledge'[r][p] = pledge[r][p]
  PROVE  Released(r)'
<1>1. th[r].batch = {} /\ th'[r].batch = {}
  BY DEF PledgeInv, RoomInv, Kept, CallInv
<1> QED
  BY <1>1 DEF ReleasedInv, Released

\* Where a call goes next.
LEMMA GotoPc ==
  ASSUME PledgeInv, NEW r \in Rooms, NEW t \in Thread, NEW pc, Goto(r, t, pc)
  PROVE  th'[r].pc = pc
BY DEF Goto, PledgeInv, TypeOK, Thread

LEMMA ReturnPc ==
  ASSUME PledgeInv, NEW r \in Rooms, Return(r)
  PROVE  th'[r].pc = "idle"
BY IdleFacts DEF Return, PledgeInv, TypeOK

LEMMA StartPc ==
  ASSUME PledgeInv, NEW r \in Rooms, NEW t, Start(r, t)
  PROVE  th'[r] = t /\ th[r].pc = "idle"
BY DEF Start, PledgeInv, TypeOK

\* The avatar of p takes a seat, with the row it has by then.
LEMMA Seated ==
  ASSUME PledgeInv, NEW r \in Rooms, th[r].player \in Players, NEW n \in Nat,
         Seat(r, th[r], n),
         \A q \in Players \ {th[r].player} : pledge'[r][q] = pledge[r][q]
  PROVE  /\ th'[r].pc = "idle"
         /\ \A q \in Players : avatar'[r][q] = None =>
                                 avatar[r][q] = None /\ pledge'[r][q] = pledge[r][q]
<1>1. th'[r].pc = "idle"
  BY ReturnPc DEF Seat
<1>2. TypeOK /\ TakesSeat(r, th[r].player, n)
  BY DEF Seat, PledgeInv, TakesSeat
<1>3. avatar'[r][th[r].player] # None
      /\ \A q \in Players : q # th[r].player => avatar'[r][q] = avatar[r][q]
  BY <1>2, TakesSeatFacts
<1> QED
  BY <1>1, <1>3

LEMMA ReleasedCalls ==
  ASSUME PledgeInv, ReleasedInv, faults = 0, NEW r \in Rooms, NEW p \in Players, Kept(r),
         \/ JoinGame(r, p) \/ DeductDiamond(r, p)
         \/ \E n \in Nat, k \in BOOLEAN : DeductCashPledge(r, p, n, k)
  PROVE  Released(r)'
<1>1. \E t : Start(r, t) /\ t.pc \in {"j_pledge", "m_capital", "d_capital"}
  <2>1. CASE JoinGame(r, p)
    <3> DEFINE u == [Idle EXCEPT !.pc = "j_pledge", !.player = p]
    <3>1. u.pc = "j_pledge" /\ Start(r, u)
      BY <2>1 DEF JoinGame, Idle, seats
    <3> HIDE DEF u
    <3> QED
      BY <3>1
  <2>2. CASE DeductDiamond(r, p)
    <3> DEFINE u == [Idle EXCEPT !.pc = "m_capital", !.player = p]
    <3>1. u.pc = "m_capital" /\ Start(r, u)
      BY <2>2 DEF DeductDiamond, Idle, seats
    <3> HIDE DEF u
    <3> QED
      BY <3>1
  <2>3. ASSUME NEW n \in Nat, NEW k \in BOOLEAN, DeductCashPledge(r, p, n, k)
        PROVE  \E t : Start(r, t) /\ t.pc \in {"j_pledge", "m_capital", "d_capital"}
    <3> DEFINE u == [Idle EXCEPT !.pc = "d_capital", !.player = p, !.need = n,
                                 !.kick = k, !.amount = avatar[r][p],
                                 !.row = pledge[r][p]]
    <3>1. u.pc = "d_capital" /\ Start(r, u)
      BY <2>3 DEF DeductCashPledge, Idle, seats
    <3> HIDE DEF u
    <3> QED
      BY <3>1
  <2> QED
    BY <2>1, <2>2, <2>3
<1>2. UNCHANGED <<avatar, cut, pledge>>
  BY DEF JoinGame, DeductDiamond, DeductCashPledge, seats
<1>3. th[r].pc = "idle" /\ th'[r].pc \in {"j_pledge", "m_capital", "d_capital"}
  BY <1>1, StartPc
<1> QED
  BY <1>2, <1>3, ReleasedStays DEF ReturnPcs

LEMMA ReleasedJoin ==
  ASSUME PledgeInv, ReleasedInv, NEW r \in Rooms, Kept(r), faults' = 0,
         \/ JoinPledge(r) \/ JoinCapital(r) \/ JoinCount(r)
         \/ \E out \in Outcomes : JoinDebit(r, out) \/ JoinRow(r, out)
  PROVE  faults = 0 /\ Released(r)'
<1>1. th[r] \in Thread /\ th[r].player \in Players /\ th[r].pc \in JoinPcs
  BY ThreadFacts DEF JoinPledge, JoinCapital, JoinCount, JoinDebit, JoinRow, JoinPcs, PledgeInv, seats
<1>2. PledgeNeed \in Nat /\ pledge[r][th[r].player] \in Nat /\ th[r].amount \in Nat
  <2>1. th[r].pc \notin DeductPcs /\ th[r].pc # "idle"
    BY <1>1 DEF JoinPcs, DeductPcs
  <2>2. th[r].amount \in Nat
    BY <2>1, AmountIsNat
  <2> QED
    BY <1>1, <2>2, ConstantsAssumption DEF PledgeInv, TypeOK
<1>3. faults = 0
  BY FateOk DEF JoinPledge, JoinCapital, JoinCount, JoinDebit, JoinRow, seats
<1>4. CASE JoinPledge(r)
  <2>1. pledge' = pledge
    BY <1>4 DEF JoinPledge, seats
  <2> DEFINE read == [th[r] EXCEPT !.amount = pledge[r][th[r].player]]
  <2>2. read \in Thread /\ read.amount = pledge[r][th[r].player]
    BY <1>1, <1>2, AmountFacts
  <2>3. \/ Goto(r, read, "j_capital") /\ UNCHANGED <<avatar, cut>>
        \/ Seat(r, th[r], read.amount)
        \/ Return(r) /\ UNCHANGED <<avatar, cut>>
    BY <1>4 DEF JoinPledge, seats
  <2> HIDE DEF read
  <2>4. th'[r].pc \in {"idle", "j_capital"}
        /\ \A q \in Players : avatar'[r][q] = None =>
                                avatar[r][q] = None /\ pledge'[r][q] = pledge[r][q]
    BY <1>1, <1>2, <2>1, <2>2, <2>3, GotoPc, ReturnPc, Seated
  <2> QED
    BY <1>1, <1>3, <2>4, ReleasedStays DEF JoinPcs, ReturnPcs
<1>5. CASE JoinCapital(r)
  <2>1. pledge' = pledge
    BY <1>5 DEF JoinCapital, seats
  <2>2. Read(th[r]) \in Thread
    BY <1>1, ReadFacts DEF PledgeInv
  <2>3. \/ Goto(r, Read(th[r]), "j_debit") /\ UNCHANGED <<avatar, cut>>
        \/ Seat(r, th[r], th[r].amount)
        \/ Return(r) /\ UNCHANGED <<avatar, cut>>
    BY <1>5 DEF JoinCapital, seats
  <2>4. th'[r].pc \in {"idle", "j_debit"}
        /\ \A q \in Players : avatar'[r][q] = None =>
                                avatar[r][q] = None /\ pledge'[r][q] = pledge[r][q]
    BY <1>1, <1>2, <2>1, <2>2, <2>3, GotoPc, ReturnPc, Seated
  <2> QED
    BY <1>1, <1>3, <2>4, ReleasedStays DEF JoinPcs, ReturnPcs
<1>6. CASE JoinCount(r) \/ \E out \in Outcomes : JoinDebit(r, out)
  <2>1. UNCHANGED <<pledge, avatar, cut>>
        /\ (Goto(r, th[r], "j_row") \/ Goto(r, th[r], "j_count") \/ Return(r))
    BY <1>6 DEF JoinCount, JoinDebit, seats
  <2>2. th'[r].pc \in {"idle", "j_row", "j_count"}
    BY <1>1, <2>1, GotoPc, ReturnPc
  <2> QED
    BY <1>1, <1>3, <2>1, <2>2, ReleasedStays DEF JoinPcs, ReturnPcs
<1>7. ASSUME NEW out \in Outcomes, JoinRow(r, out)
      PROVE  Released(r)'
  <2>1. out = "ok"
    BY <1>7, FateOk DEF JoinRow, seats
  <2>2. pledge' = [pledge EXCEPT ![r][th[r].player] = PledgeNeed] /\ Seat(r, th[r], PledgeNeed)
    BY <1>7, <2>1 DEF JoinRow, seats
  <2>3. \A q \in Players \ {th[r].player} : pledge'[r][q] = pledge[r][q]
    BY <1>1, <1>2, <2>2, PledgeCell DEF PledgeInv
  <2> QED
    BY <1>1, <1>2, <1>3, <2>2, <2>3, Seated, ReleasedStays DEF JoinPcs, ReturnPcs
<1> QED
  BY <1>3, <1>4, <1>5, <1>6, <1>7

LEMMA ReleasedDeduct ==
  ASSUME PledgeInv, ReleasedInv, NEW r \in Rooms, Kept(r), faults' = 0,
         \/ DeductCapital(r) \/ DeductCount(r) \/ DiamondCapital(r)
         \/ \E out \in Outcomes :
              DeductRow(r, out) \/ DeductUpdate(r, out) \/ DiamondUpdate(r, out)
  PROVE  faults = 0 /\ Released(r)'
<1>1. th[r] \in Thread /\ th[r].player \in Players /\ th[r].pc \in DeductPcs \cup DiamondPcs
  BY ThreadFacts
     DEF DeductCapital, DeductCount, DiamondCapital, DeductRow, DeductUpdate, DiamondUpdate,
         DeductPcs, DiamondPcs, PledgeInv, seats
<1>2. th[r].need \in Nat /\ Target(th[r]) \in Nat /\ TypeOK
  BY <1>1 DEF PledgeInv, TypeOK, Thread, Target
<1>3. faults = 0
  BY FateOk DEF DeductCapital, DeductCount, DiamondCapital, DeductRow, DeductUpdate, DiamondUpdate, seats
<1>4. Read(th[r]) \in Thread /\ [th[r] EXCEPT !.tries = @ + 1] \in Thread
  BY <1>1, <1>2, ReadFacts, TriesFacts
<1>5. th[r].pc \notin ReturnPcs
  BY <1>1 DEF DeductPcs, DiamondPcs, ReturnPcs
<1>6. ASSUME th'[r].pc \notin ReturnPcs, UNCHANGED <<pledge, avatar, cut>>
      PROVE  Released(r)'
  BY <1>3, <1>5, <1>6, ReleasedStays
<1>7. CASE DeductCapital(r)
  <2>1. UNCHANGED <<pledge, avatar, cut>> /\ (Goto(r, Read(th[r]), "d_count") \/ Return(r))
    BY <1>7 DEF DeductCapital, GiveUp, seats
  <2>2. th'[r].pc \notin ReturnPcs
    BY <1>4, <2>1, GotoPc, ReturnPc DEF ReturnPcs
  <2> QED
    BY <1>3, <1>6, <2>1, <2>2
<1>8. CASE DeductCount(r)
  <2>1. UNCHANGED <<pledge, avatar, cut>>
        /\ (Goto(r, th[r], "d_update") \/ Goto(r, th[r], "d_row") \/ Return(r))
    BY <1>8 DEF DeductCount, GiveUp, seats
  <2>2. th'[r].pc \notin ReturnPcs
    BY <1>1, <2>1, GotoPc, ReturnPc DEF ReturnPcs
  <2> QED
    BY <1>3, <1>6, <2>1, <2>2
<1>9. CASE DiamondCapital(r)
  <2>1. UNCHANGED <<pledge, avatar, cut>> /\ (Goto(r, Read(th[r]), "m_update") \/ Return(r))
    BY <1>9 DEF DiamondCapital, seats
  <2>2. th'[r].pc \notin ReturnPcs
    BY <1>4, <2>1, GotoPc, ReturnPc DEF ReturnPcs
  <2> QED
    BY <1>3, <1>6, <2>1, <2>2
<1>10. ASSUME NEW out \in Outcomes, DiamondUpdate(r, out)
       PROVE  Released(r)'
  <2>1. /\ UNCHANGED <<pledge, avatar, cut>>
        /\ Goto(r, [th[r] EXCEPT !.tries = @ + 1], "m_capital") \/ Return(r)
    BY <1>10 DEF DiamondUpdate, seats
  <2>2. th'[r].pc \notin ReturnPcs
    BY <1>4, <2>1, GotoPc, ReturnPc DEF ReturnPcs
  <2> QED
    BY <1>6, <2>1, <2>2
<1>11. ASSUME NEW out \in Outcomes, DeductRow(r, out)
       PROVE  Released(r)'
  <2>1. th[r].pc = "d_row" /\ UNCHANGED <<avatar, cut>> /\ (Goto(r, th[r], "d_update") \/ Return(r))
    BY <1>11 DEF DeductRow, GiveUp, seats
  <2>2. \A q \in Players : q # th[r].player => pledge'[r][q] = pledge[r][q]
    <3>1. pledge' = pledge \/ pledge' = [pledge EXCEPT ![r][th[r].player] = Target(th[r])]
      BY <1>11 DEF DeductRow, seats
    <3> QED
      BY <1>1, <1>2, <3>1, PledgeCell
  <2>3. avatar[r][th[r].player] # None
    <3>1. avatar[r][th[r].player] = th[r].amount
      BY <2>1 DEF PledgeInv, RoomInv, CallInv, DeductPcs
    <3>2. th[r].amount \in Copies
      BY <1>1 DEF Thread
    <3> QED
      BY <3>1, <3>2, NatCopies
  <2>4. th'[r].pc \in {"idle", "d_update"}
    BY <1>1, <2>1, GotoPc, ReturnPc
  <2> QED
    BY <1>3, <1>5, <2>1, <2>2, <2>3, <2>4, ReleasedStays DEF ReturnPcs
<1>12. ASSUME NEW out \in Outcomes, DeductUpdate(r, out)
       PROVE  Released(r)'
  <2>1. pledge' = pledge
    BY <1>12 DEF DeductUpdate, seats
  <2>2. CASE /\ avatar' = [avatar EXCEPT ![r][th[r].player] = Target(th[r])]
             /\ Return(r)
    <3>1. Target(th[r]) \in Copies \cup {None} /\ Target(th[r]) # None
      BY <1>2, NatCopies
    <3>2. /\ avatar'[r][th[r].player] # None
          /\ \A q \in Players : q # th[r].player => avatar'[r][q] = avatar[r][q]
      BY <1>1, <1>2, <2>2, <3>1, AvatarCell, ZenonT(60)
    <3>3. th'[r].pc = "idle"
      BY <2>2, ReturnPc
    <3> QED
      BY <1>1, <1>3, <1>5, <2>1, <3>2, <3>3, ReleasedStays DEF ReturnPcs
  <2>3. CASE UNCHANGED <<avatar, cut>>
             /\ (Goto(r, [th[r] EXCEPT !.tries = @ + 1], "d_capital") \/ Return(r))
    <3>1. th'[r].pc \notin ReturnPcs
      BY <1>4, <2>3, GotoPc, ReturnPc DEF ReturnPcs
    <3> QED
      BY <1>6, <2>1, <2>3, <3>1
  <2> QED
    BY <1>12, <2>2, <2>3 DEF DeductUpdate, GiveUp, seats
<1> QED
  BY <1>3, <1>7, <1>8, <1>9, <1>10, <1>11, <1>12

\* returnCashPledge ends for one player, whose row is gone.
LEMMA ReleasedReturned ==
  ASSUME PledgeInv, ReleasedInv, faults = 0, NEW r \in Rooms, Kept(r), th[r].pc \in ReturnPcs,
         NEW out \in Outcomes, Returned(r, th[r], out), pledge'[r][th[r].player] = 0,
         \A q \in Players : q # th[r].player => pledge'[r][q] = pledge[r][q]
  PROVE  Released(r)'
<1>1. PICK t \in Thread : t = th[r]
  BY DEF PledgeInv, TypeOK
<1>2. t.player \in t.batch /\ t.todo \subseteq t.batch /\ t.batch \subseteq Players /\ TypeOK
      /\ t.player \in Players
  BY <1>1 DEF PledgeInv, RoomInv, CallInv, Thread
<1>3. Released(r)
  BY DEF ReleasedInv
<1>4. CASE /\ t.todo = {}
           /\ avatar' = [avatar EXCEPT ![r] =
                           [p \in Players |-> IF p \in t.batch THEN None ELSE @[p]]]
           /\ Return(r)
  <2>1. \A q \in Players : avatar'[r][q] = IF q \in t.batch THEN None ELSE avatar[r][q]
    BY <1>2, <1>4 DEF TypeOK
  <2>2. th'[r].batch = {}
    BY <1>2, <1>4, ReturnFacts
  <2>3. \A q \in Players : avatar'[r][q] = None => pledge'[r][q] = 0
    BY <1>1, <1>2, <1>3, <1>4, <2>1 DEF Released
  <2> QED
    BY <2>2, <2>3 DEF Released
<1>5. ASSUME NEW p \in t.todo,
             avatar' = IF out = "ok" THEN [avatar EXCEPT ![r][t.player] = 0] ELSE avatar,
             th' = [th EXCEPT ![r] = Release(p, t.batch, t.todo \ {p})]
      PROVE  Released(r)'
  <2>1. \A q \in Players : q # t.player => avatar'[r][q] = avatar[r][q]
    BY <1>2, <1>5, AvatarCell, NatCopies
  <2>2. th'[r] = Release(p, t.batch, t.todo \ {p})
    BY <1>2, <1>5 DEF TypeOK
  <2>3. th'[r].player = p /\ th'[r].batch = t.batch /\ th'[r].todo = t.todo \ {p}
    BY <1>2, <2>2, ReleaseFacts
  <2>4. ASSUME NEW q \in Players, avatar'[r][q] = None, q \notin t.batch
        PROVE  pledge'[r][q] = 0
    BY <1>1, <1>2, <1>3, <2>1, <2>4 DEF Released
  <2>5. ASSUME NEW q \in t.batch \ ((t.todo \ {p}) \cup {p})
        PROVE  pledge'[r][q] = 0
    <3>1. q = t.player \/ q \in t.batch \ (t.todo \cup {t.player})
      BY <2>5
    <3> QED
      BY <1>1, <1>2, <1>3, <3>1 DEF Released
  <2> QED
    BY <2>3, <2>4, <2>5 DEF Released
<1>6. Returned(r, t, out)
  BY <1>1
<1> QED
  BY <1>4, <1>5, <1>6 DEF Returned

LEMMA ReleasedReturn ==
  ASSUME PledgeInv, ReleasedInv, NEW r \in Rooms, Kept(r), faults' = 0,
         \/ ReturnPledge(r) \/ ReturnCapital(r)
         \/ \E out \in Outcomes : ReturnDelete(r, out) \/ ReturnCredit(r, out)
  PROVE  faults = 0 /\ Released(r)'
<1>1. th[r] \in Thread /\ th[r].player \in Players /\ th[r].pc \in ReturnPcs /\ TypeOK
  BY ThreadFacts
     DEF ReturnPledge, ReturnCapital, ReturnDelete, ReturnCredit, ReturnPcs, PledgeInv, seats
<1>2. pledge[r][th[r].player] \in Nat
  BY <1>1 DEF TypeOK
<1>3. faults = 0
  BY FateOk DEF ReturnPledge, ReturnCapital, ReturnDelete, ReturnCredit, seats
<1>4. Released(r)
  BY <1>3 DEF ReleasedInv
<1>5. ASSUME NEW t \in Thread, NEW pc, Goto(r, t, pc), pc \in ReturnPcs, t.player = th[r].player,
             t.batch = th[r].batch, t.todo = th[r].todo, UNCHANGED <<avatar, cut>>,
             \A q \in Players : q # th[r].player => pledge'[r][q] = pledge[r][q]
      PROVE  Released(r)'
  <2>1. th'[r].player = t.player /\ th'[r].batch = t.batch /\ th'[r].todo = t.todo
    BY <1>1, <1>5, GotoFacts DEF SameLocals, Pcs
  <2>2. th[r].player \in th[r].batch /\ th[r].batch \subseteq Players
    BY <1>1 DEF PledgeInv, RoomInv, CallInv, Thread
  <2> QED
    BY <1>4, <1>5, <2>1, <2>2 DEF Released
<1>6. CASE ReturnPledge(r)
  <2> DEFINE u == [th[r] EXCEPT !.amount = pledge[r][th[r].player]]
  <2>1. Goto(r, u, "r_delete") /\ UNCHANGED <<avatar, cut, pledge>>
    <3>1. ~Fate("lost")
      BY FateOk
    <3> QED
      BY <1>6, <3>1 DEF ReturnPledge, seats
  <2>2. u \in Thread /\ u.player = th[r].player /\ u.batch = th[r].batch /\ u.todo = th[r].todo
    BY <1>1, <1>2, AmountFacts
  <2> HIDE DEF u
  <2> QED
    BY <1>3, <1>5, <2>1, <2>2 DEF ReturnPcs
<1>7. CASE ReturnCapital(r)
  <2>1. Goto(r, Read(th[r]), "r_credit") /\ UNCHANGED <<avatar, cut, pledge>>
    <3>1. ~Fate("lost")
      BY FateOk
    <3> QED
      BY <1>7, <3>1 DEF ReturnCapital, seats
  <2>2. /\ Read(th[r]) \in Thread /\ Read(th[r]).player = th[r].player
        /\ Read(th[r]).batch = th[r].batch /\ Read(th[r]).todo = th[r].todo
    BY <1>1, ReadFacts
  <2> QED
    BY <1>3, <1>5, <2>1, <2>2 DEF ReturnPcs
<1>8. ASSUME NEW out \in Outcomes, ReturnDelete(r, out)
      PROVE  Released(r)'
  <2>1. out = "ok"
    BY <1>8, FateOk DEF ReturnDelete, seats
  <2>2. pledge' = [pledge EXCEPT ![r][th[r].player] = 0]
    BY <1>8, <2>1 DEF ReturnDelete, seats
  <2>3. /\ pledge'[r][th[r].player] = 0
        /\ \A q \in Players : q # th[r].player => pledge'[r][q] = pledge[r][q]
    BY <1>1, <2>2, PledgeCell, ZenonT(60)
  <2>4. CASE Goto(r, th[r], "r_capital") /\ UNCHANGED <<avatar, cut>>
    BY <1>1, <1>5, <2>3, <2>4 DEF ReturnPcs
  <2>5. CASE Returned(r, th[r], out)
    BY <1>1, <1>3, <2>3, <2>5, ReleasedReturned
  <2> QED
    BY <1>8, <2>4, <2>5 DEF ReturnDelete, seats
<1>9. ASSUME NEW out \in Outcomes, ReturnCredit(r, out)
      PROVE  Released(r)'
  <2>1. pledge' = pledge /\ pledge[r][th[r].player] = 0
    BY <1>9 DEF ReturnCredit, PledgeInv, RoomInv, CallInv, seats
  <2> DEFINE again == [th[r] EXCEPT !.tries = @ + 1]
  <2>2. again \in Thread /\ SameLocals(again, th[r])
    BY <1>1, TriesFacts
  <2>3. \/ Goto(r, again, "r_capital") /\ UNCHANGED <<avatar, cut>>
        \/ \E o \in {"ok", "lost"} : Returned(r, th[r], o)
    BY <1>9 DEF ReturnCredit, seats
  <2> HIDE DEF again
  <2>4. CASE Goto(r, again, "r_capital") /\ UNCHANGED <<avatar, cut>>
    BY <1>5, <2>1, <2>2, <2>4 DEF ReturnPcs, SameLocals
  <2>5. CASE \E o \in {"ok", "lost"} : Returned(r, th[r], o)
    BY <1>1, <1>3, <2>1, <2>5, ReleasedReturned DEF Outcomes
  <2> QED
    BY <2>3, <2>4, <2>5
<1> QED
  BY <1>3, <1>6, <1>7, <1>8, <1>9

\* returnCashPledge begins: nobody of the batch has been dealt with yet.
LEMMA ReleasedBegin ==
  ASSUME PledgeInv, ReleasedInv, faults = 0, NEW r \in Rooms, Kept(r),
         (\E p \in Players : Leave(r, p)) \/ KickAllAvatars(r)
  PROVE  Released(r)'
<1>1. \E p \in Players, b \in SUBSET Players : Start(r, Release(p, b, b \ {p}))
  <2>1. ASSUME NEW p \in Players, Leave(r, p)
        PROVE  Start(r, Release(p, {p}, {p} \ {p}))
    <3>1. {p} \ {p} = {}
      OBVIOUS
    <3> QED
      BY <2>1, <3>1 DEF Leave, seats
  <2>2. CASE KickAllAvatars(r)
    BY <2>2 DEF KickAllAvatars, Present, seats
  <2>3. \A p \in Players : {p} \in SUBSET Players
    OBVIOUS
  <2> QED
    BY <2>1, <2>2, <2>3
<1>2. PICK p \in Players, b \in SUBSET Players : Start(r, Release(p, b, b \ {p}))
  BY <1>1
<1>3. th'[r] = Release(p, b, b \ {p}) /\ th[r].pc = "idle"
  BY <1>2, StartPc
<1>4. th'[r].player = p /\ th'[r].batch = b /\ th'[r].todo = b \ {p}
  BY <1>3, ReleaseFacts
<1>5. UNCHANGED <<avatar, cut, pledge>> /\ th[r].batch = {}
  BY <1>3 DEF Leave, KickAllAvatars, PledgeInv, RoomInv, CallInv, ReturnPcs, seats
<1> QED
  BY <1>4, <1>5 DEF ReleasedInv, Released

LEMMA ReleasedSettle ==
  ASSUME PledgeInv, ReleasedInv, faults = 0, NEW r \in Rooms, NEW p \in Players, NEW n \in Nat,
         Kept(r), Settle(r, p, n)
  PROVE  Released(r)'
<1>1. TypeOK /\ pledge' = [pledge EXCEPT ![r][p] = n] /\ avatar' = [avatar EXCEPT ![r][p] = n]
      /\ th' = th /\ th[r].pc = "idle"
  BY DEF Settle, PledgeInv
<1>2. n \in Copies \cup {None} /\ n # None
  BY NatCopies
<1>3. avatar'[r][p] = n /\ \A q \in Players : q # p => avatar'[r][q] = avatar[r][q]
  BY <1>1, <1>2, AvatarCell, ZenonT(60)
<1>4. \A q \in Players : q # p => pledge'[r][q] = pledge[r][q]
  BY <1>1, PledgeCell
<1> QED
  BY <1>1, <1>2, <1>3, <1>4, ReleasedStays DEF ReturnPcs

LEMMA NextReleased == PledgeInv /\ ReleasedInv /\ [Next]_vars => ReleasedInv'
<1> SUFFICES ASSUME PledgeInv, ReleasedInv, [Next]_vars PROVE ReleasedInv'
  OBVIOUS
<1>0. TypeOK
  BY DEF PledgeInv
<1>1. ASSUME NEW r \in Rooms, Call(r) PROVE ReleasedInv'
  <2>0. faults' = faults
    BY <1>1 DEF Call, JoinGame, Leave, DeductDiamond, KickAllAvatars, DeductCashPledge, seats
  <2>1. ASSUME NEW p \in Players, JoinGame(r, p) \/ Leave(r, p) \/ DeductDiamond(r, p)
        PROVE  ReleasedInv'
    BY <2>0, <2>1, JoinGameStep, LeaveStep, DeductDiamondStep, ReleasedCalls, ReleasedBegin,
       ReleasedRoom
  <2>2. ASSUME KickAllAvatars(r) PROVE ReleasedInv'
    BY <2>0, <2>2, KickAllAvatarsStep, ReleasedBegin, ReleasedRoom
  <2>3. ASSUME NEW p \in Players, NEW n \in GoldNeeds \cup {PledgeNeed},
               NEW k \in BOOLEAN, DeductCashPledge(r, p, n, k)
        PROVE  ReleasedInv'
    <3>1. n \in Nat
      BY ConstantsAssumption
    <3> QED
      BY <2>0, <2>3, <3>1, DeductCashPledgeStep, ReleasedCalls, ReleasedRoom
  <2> QED
    BY <1>1, <2>1, <2>2, <2>3 DEF Call
<1>2. ASSUME NEW r \in Rooms, Step(r) PROVE ReleasedInv'
  <2>1. CASE JoinPledge(r) \/ JoinCapital(r) \/ JoinCount(r)
    BY <2>1, JoinPledgeStep, JoinCapitalStep, JoinCountStep, ReleasedJoin, ReleasedRoom
  <2>2. CASE ReturnPledge(r) \/ ReturnCapital(r)
    BY <2>2, ReturnPledgeStep, ReturnCapitalStep, ReleasedReturn, ReleasedRoom
  <2>3. CASE DeductCapital(r) \/ DeductCount(r) \/ DiamondCapital(r)
    BY <2>3, DeductCapitalStep, DeductCountStep, DiamondCapitalStep, ReleasedDeduct, ReleasedRoom
  <2>4. ASSUME NEW out \in Outcomes, JoinDebit(r, out) \/ JoinRow(r, out)
        PROVE  ReleasedInv'
    BY <2>4, JoinDebitStep, JoinRowStep, ReleasedJoin, ReleasedRoom
  <2>5. ASSUME NEW out \in Outcomes, ReturnDelete(r, out) \/ ReturnCredit(r, out)
        PROVE  ReleasedInv'
    BY <2>5, ReturnDeleteStep, ReturnCreditStep, ReleasedReturn, ReleasedRoom
  <2>6. ASSUME NEW out \in Outcomes,
               DeductRow(r, out) \/ DeductUpdate(r, out) \/ DiamondUpdate(r, out)
        PROVE  ReleasedInv'
    BY <2>6, DeductRowStep, DeductUpdateStep, DiamondUpdateStep, ReleasedDeduct, ReleasedRoom
  <2> QED
    BY <1>2, <2>1, <2>2, <2>3, <2>4, <2>5, <2>6 DEF Step
<1>3. CASE Environment
  <2>1. ASSUME NEW r \in Rooms, Crash(r) PROVE ReleasedInv'
    <3>1. faults' = faults + 1
      BY <2>1 DEF Crash, Fate
    <3> QED
      BY <1>0, <3>1 DEF TypeOK, ReleasedInv
  <2>2. ASSUME NEW r \in Rooms, NEW p \in Players, NEW n \in Settlements, Settle(r, p, n)
        PROVE  ReleasedInv'
    <3>1. n \in Nat /\ faults' = faults
      BY <2>2, ConstantsAssumption DEF Settle
    <3> QED
      BY <2>2, <3>1, SettleStep, ReleasedSettle, ReleasedRoom
  <2>3. ASSUME NEW p \in Players, NEW g \in OtherGold, OtherService(p, g)
        PROVE  ReleasedInv'
    BY <2>3 DEF OtherService, ReleasedInv, Released, seats
  <2> QED
    BY <1>3, <2>1, <2>2, <2>3 DEF Environment
<1>4. CASE UNCHANGED vars
  BY <1>4 DEF vars, ReleasedInv, Released
<1> QED
  BY <1>1, <1>2, <1>3, <1>4 DEF Next

\* As long as no statement fails and no server dies, a player who is out of a room has no
\* row there: leaveImpl, kickAvatar and kickAllAvatars have returned every pledge,
\* whatever the conflicts.
THEOREM ReleasedNothing == Spec => []ReleasedOwesNothing
<1>1. Init => ReleasedInv
  BY IdleFacts DEF Init, ReleasedInv, Released
<1>2. PledgeInv /\ ReleasedInv => ReleasedOwesNothing
  <2> SUFFICES ASSUME PledgeInv, ReleasedInv, NEW r \in Rooms, NEW p \in Players, faults = 0,
                      avatar[r][p] = None, ~Working(r, p)
               PROVE  pledge[r][p] = 0
    BY DEF ReleasedOwesNothing
  <2>1. th[r].pc = "idle" => th[r].batch = {}
    BY DEF PledgeInv, RoomInv, CallInv, ReturnPcs
  <2>2. p \notin th[r].batch
    BY <2>1 DEF Working
  <2> QED
    BY <2>2 DEF ReleasedInv, Released
<1> QED
  BY <1>1, <1>2, NextReleased, PledgeInvariant, PTL DEF Spec
=============================================================================
