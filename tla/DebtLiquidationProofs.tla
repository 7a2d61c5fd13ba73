------------------------ MODULE DebtLiquidationProofs ------------------------
(***************************************************************************)
(* Proofs about the settlement of debts, for every net and whatever the     *)
(* cash: debts are left in one direction only, everybody gets what the      *)
(* balances say if there is cash enough, nobody gains by the failure of     *)
(* others, and no money is made.                                            *)
(*                                                                         *)
(* Everything a call does to the sheets is to erase entries, the same ones  *)
(* on both sides, so what holds of a call when it descends still holds when *)
(* the calls below it have returned.  What a node is worth (its cash less   *)
(* its balance) changes only where somebody cannot pay.                     *)
(***************************************************************************)
EXTENDS DebtLiquidation, FiniteSums, SequenceTheorems, TLAPS

\* A step that erases entries on both sides.
Erases ==
  /\ sheet' \in [Nodes -> [Nodes -> Int]]
  /\ \A n, m \in Nodes : sheet'[n][m] \in {0, sheet[n][m]}
  /\ \A n, m \in Nodes : sheet'[n][m] = - sheet'[m][n]

\* repayAll erases what it pays on the sheets of both nodes.
LEMMA RepayAllErases ==
  ASSUME DebtInv, NEW A, NEW S, RepayAll(A, S)
  PROVE  Erases
BY DEF DebtInv, RepayAll, Erases

\* DebtNode::erase erases on both sides as well.
LEMMA EraseErases ==
  ASSUME DebtInv, NEW A, NEW B, sheet' = Erase(A, B)
  PROVE  Erases
BY DEF DebtInv, Erase, Erases

CallRecord == [pos : SUBSET Nodes, neg : SUBSET Nodes]

\* What is true of a call stays true when entries are erased.
LEMMA OneWayKept ==
  ASSUME DebtInv, Erases, NEW c \in CallRecord, OneWay(c, sheet)
  PROVE  OneWay(c, sheet')
<1>1. c.pos \subseteq Nodes /\ c.neg \subseteq Nodes
  BY DEF CallRecord
<1>2. \A n \in c.pos, m \in c.pos : sheet'[n][m] = 0
  <2> SUFFICES ASSUME NEW n \in c.pos, NEW m \in c.pos PROVE sheet'[n][m] = 0
    OBVIOUS
  <2> QED
    BY <1>1 DEF OneWay, Erases
<1>3. \A n \in c.pos, m \in c.neg : sheet'[n][m] <= 0
  <2> SUFFICES ASSUME NEW n \in c.pos, NEW m \in c.neg PROVE sheet'[n][m] <= 0
    OBVIOUS
  <2>1. sheet[n][m] <= 0 /\ sheet'[n][m] \in {0, sheet[n][m]}
    BY <1>1 DEF OneWay, Erases
  <2> QED
    BY <2>1
<1> QED
  BY <1>2, <1>3 DEF OneWay

\* After repayAll the positive nodes of a net owe nothing in it.
LEMMA OneWayMade ==
  ASSUME DebtInv, NEW S, S \subseteq Nodes, NEW pos, pos \subseteq S, RepayAll(pos, S)
  PROVE  OneWay([pos |-> pos, neg |-> S \ pos], sheet')
<1>1. \A n \in pos, m \in S : sheet'[n][m] <= 0
  <2> SUFFICES ASSUME NEW n \in pos, NEW m \in S PROVE sheet'[n][m] <= 0
    OBVIOUS
  <2>1. n \in Nodes /\ m \in Nodes /\ sheet[n][m] \in Int
    BY DEF DebtInv
  <2>2. sheet'[n][m] = IF \/ n \in pos /\ m \in S /\ sheet[n][m] > 0
                          \/ m \in pos /\ n \in S /\ sheet[m][n] > 0
                       THEN 0 ELSE sheet[n][m]
    BY <2>1 DEF RepayAll
  <2> QED
    BY <2>1, <2>2
<1>2. Erases
  BY RepayAllErases
<1>3. \A n, m \in pos : sheet'[n][m] = 0
  <2> SUFFICES ASSUME NEW n \in pos, NEW m \in pos PROVE sheet'[n][m] = 0
    OBVIOUS
  <2>1. sheet'[n][m] \in Int /\ sheet'[m][n] \in Int /\ sheet'[n][m] = - sheet'[m][n]
    BY <1>2 DEF Erases
  <2> QED
    BY <2>1, <1>1
<1> QED
  BY <1>1, <1>3 DEF OneWay

LEMMA InitDebt == Init => DebtInv
<1> SUFFICES ASSUME Init PROVE DebtInv
  OBVIOUS
<1>1. PICK debt \in [Pairs -> -MaxDebt .. MaxDebt] : sheet = SheetOf(debt)
  BY DEF Init
<1>2. \A n, m \in Nodes : n < m => <<n, m>> \in Pairs /\ debt[<<n, m>>] \in Int
  <2> SUFFICES ASSUME NEW n \in Nodes, NEW m \in Nodes, n < m
               PROVE  <<n, m>> \in Pairs /\ debt[<<n, m>>] \in Int
    OBVIOUS
  <2>1. <<n, m>> \in Pairs
    BY DEF Pairs
  <2>2. -MaxDebt .. MaxDebt \subseteq Int
    BY DebtAssumption
  <2> QED
    BY <2>1, <2>2
<1>3. \A n, m \in Nodes : n \in Int /\ m \in Int
  BY DebtAssumption
<1>4. \A n, m \in Nodes :
        sheet[n][m] = IF n < m THEN debt[<<n, m>>]
                      ELSE IF m < n THEN - debt[<<m, n>>] ELSE 0
  BY <1>1 DEF SheetOf
<1>5. \A n, m \in Nodes : sheet[n][m] \in Int /\ sheet[n][m] = - sheet[m][n]
  <2> SUFFICES ASSUME NEW n \in Nodes, NEW m \in Nodes
               PROVE  sheet[n][m] \in Int /\ sheet[n][m] = - sheet[m][n]
    OBVIOUS
  <2>0. n \in Int /\ m \in Int
    BY <1>3
  <2>1. CASE n < m
    <3>1. ~(m < n)
      BY <2>0, <2>1
    <3>2. sheet[n][m] = debt[<<n, m>>] /\ sheet[m][n] = - debt[<<n, m>>]
      BY <2>1, <3>1, <1>4
    <3>3. debt[<<n, m>>] \in Int
      BY <2>1, <1>2
    <3> QED
      BY <3>2, <3>3
  <2>2. CASE m < n
    <3>1. ~(n < m)
      BY <2>0, <2>2
    <3>2. sheet[m][n] = debt[<<m, n>>] /\ sheet[n][m] = - debt[<<m, n>>]
      BY <2>2, <3>1, <1>4
    <3>3. debt[<<m, n>>] \in Int
      BY <2>2, <1>2
    <3> QED
      BY <3>2, <3>3
  <2>3. CASE n = m
    <3>1. ~(n < m) /\ ~(m < n)
      BY <2>0, <2>3
    <3>2. sheet[n][m] = 0 /\ sheet[m][n] = 0
      BY <3>1, <1>4
    <3>3. sheet[n][m] \in Int /\ sheet[m][n] \in Int /\ sheet[n][m] + sheet[m][n] = 0
      BY <3>2
    <3>4. \A x, y \in Int : x + y = 0 => x = - y
      OBVIOUS
    <3> QED
      BY <3>3, <3>4
  <2> QED
    BY <2>0, <2>1, <2>2, <2>3
<1>6. sheet \in [Nodes -> [Nodes -> Int]]
  BY <1>1, <1>5 DEF SheetOf
<1> QED
  BY <1>5, <1>6 DEF Init, DebtInv

LEMMA ReturnKeeps == ASSUME DebtInv, Return PROVE DebtInv'
BY DEF DebtInv, Return

LEMMA DescendKeeps == ASSUME DebtInv, Descend PROVE DebtInv'
<1> DEFINE pos == PositiveNodes(net)
           c == [pos |-> pos, neg |-> net \ pos]
<1>1. pos \subseteq net /\ net \subseteq Nodes
  BY DEF PositiveNodes, DebtInv
<1>2. RepayAll(pos, net) /\ calls' = Append(calls, c) /\ net' = net \ pos
  BY DEF Descend
<1>3. Erases
  BY <1>2, RepayAllErases
<1>4. c \in CallRecord
  BY <1>1 DEF CallRecord
<1>5. OneWay(c, sheet')
  BY <1>1, <1>2, OneWayMade
<1> HIDE DEF c, pos
<1>6. calls \in Seq(CallRecord)
  BY DEF DebtInv, CallRecord
<1>7. calls' \in Seq(CallRecord) /\ calls' # <<>>
  BY <1>2, <1>4, <1>6
<1>8. \A i \in 1 .. Len(calls') : OneWay(calls'[i], sheet')
  <2> SUFFICES ASSUME NEW i \in 1 .. Len(calls') PROVE OneWay(calls'[i], sheet')
    OBVIOUS
  <2>1. Len(calls') = Len(calls) + 1
    BY <1>2, <1>4, <1>6
  <2>2. CASE i = Len(calls) + 1
    BY <2>2, <1>2, <1>5, <1>6
  <2>3. CASE i # Len(calls) + 1
    <3>1. i \in 1 .. Len(calls) /\ calls'[i] = calls[i]
      BY <2>1, <2>3, <1>2, <1>6
    <3>2. calls[i] \in CallRecord /\ OneWay(calls[i], sheet)
      BY <3>1, <1>6 DEF DebtInv
    <3> QED
      BY <3>1, <3>2, <1>3, OneWayKept
  <2> QED
    BY <2>2, <2>3
<1>9. net' \subseteq Nodes
  BY <1>1, <1>2
<1> QED
  BY <1>3, <1>7, <1>8, <1>9 DEF DebtInv, Erases, CallRecord

LEMMA AscendCalls ==
  ASSUME DebtInv, Ascend
  PROVE  calls' \in Seq(CallRecord) /\ Len(calls') = Len(calls) - 1
<1>1. calls \in Seq(CallRecord) /\ calls # <<>>
  BY DEF DebtInv, Ascend, CallRecord
<1>2. Len(calls) \in Nat \ {0}
  BY <1>1
<1>3. calls' = SubSeq(calls, 1, Len(calls) - 1)
  BY DEF Ascend, Front
<1>4. 1 \in Int /\ Len(calls) - 1 \in Int /\ Len(calls) - 1 >= 0
  BY <1>2
<1>5. \A i \in 1 .. Len(calls) - 1 : calls[i] \in CallRecord
  BY <1>1, <1>2
<1>6. /\ SubSeq(calls, 1, Len(calls) - 1) \in Seq(CallRecord)
      /\ Len(SubSeq(calls, 1, Len(calls) - 1)) =
           IF 1 <= Len(calls) - 1 THEN Len(calls) - 1 - 1 + 1 ELSE 0
  BY <1>4, <1>5, SubSeqProperties
<1>7. CASE 1 <= Len(calls) - 1
  BY <1>3, <1>4, <1>6, <1>7
<1>8. CASE ~(1 <= Len(calls) - 1)
  <2>1. Len(calls) - 1 = 0
    BY <1>2, <1>8
  <2>2. Len(calls') = 0
    BY <1>3, <1>6, <1>8
  <2> QED
    BY <1>3, <1>6, <2>1, <2>2
<1> QED
  BY <1>7, <1>8

LEMMA AscendKeeps == ASSUME DebtInv, Ascend PROVE DebtInv'
<1>1. calls \in Seq(CallRecord) /\ calls # <<>> /\ phase = "up"
  BY DEF DebtInv, Ascend, CallRecord
<1>2. Len(calls) \in Nat \ {0} /\ calls[Len(calls)] \in CallRecord
  BY <1>1
<1>3. calls' = SubSeq(calls, 1, Len(calls) - 1)
  BY DEF Ascend, Front
<1>4. Erases
  BY EraseErases DEF Ascend
<1>5. calls' \in Seq(CallRecord) /\ Len(calls') = Len(calls) - 1
  BY AscendCalls
<1>6. phase' = "up" => calls' # <<>>
  BY <1>2, <1>5 DEF Ascend
<1>7. net' \subseteq Nodes
  BY <1>2 DEF Ascend, Last, CallRecord
<1>8. \A i \in 1 .. Len(calls') : OneWay(calls'[i], sheet')
  <2> SUFFICES ASSUME NEW i \in 1 .. Len(calls') PROVE OneWay(calls'[i], sheet')
    OBVIOUS
  <2>1. i \in 1 .. Len(calls) /\ calls'[i] = calls[i]
    BY <1>1, <1>2, <1>3, <1>5
  <2>2. calls[i] \in CallRecord /\ OneWay(calls[i], sheet)
    BY <2>1, <1>1 DEF DebtInv
  <2> QED
    BY <2>1, <2>2, <1>4, OneWayKept
<1> QED
  BY <1>4, <1>5, <1>6, <1>7, <1>8 DEF DebtInv, Erases, CallRecord

\* operator() of DebtLiquidation keeps its books two-sided and its calls one-way,
\* at every depth of the recursion.
THEOREM DebtInvariant == Spec => []DebtInv
<1>1. DebtInv /\ [Next]_vars => DebtInv'
  <2> SUFFICES ASSUME DebtInv, [Next]_vars PROVE DebtInv'
    OBVIOUS
  <2>1. CASE UNCHANGED vars
    BY <2>1 DEF vars, DebtInv
  <2> QED
    BY <2>1, ReturnKeeps, DescendKeeps, AscendKeeps DEF Next
<1> QED
  BY <1>1, InitDebt, PTL DEF Spec

\* What the comment before the last loop of operator() claims: when the recursive
\* call has returned, the positive nodes have no debts, and the negative ones owe
\* them only, in every net whatever the cash.
THEOREM DebtsOneWay == Spec => []OneWayDebts
<1>1. DebtInv => OneWayDebts
  <2> SUFFICES ASSUME DebtInv, phase = "up" PROVE OneWay(Last(calls), sheet)
    BY DEF OneWayDebts
  <2>1. calls \in Seq(CallRecord) /\ calls # <<>>
    BY DEF DebtInv, CallRecord
  <2>2. Len(calls) \in 1 .. Len(calls)
    BY <2>1
  <2> QED
    BY <2>2 DEF DebtInv, Last
<1> QED
  BY <1>1, DebtInvariant, PTL

-----------------------------------------------------------------------------
(* What the payments do to the worth of a node *)

\* The balances are integers, and those with two parts of a net add up.
LEMMA BalanceInt ==
  ASSUME NEW d \in [Nodes -> [Nodes -> Int]], NEW n \in Nodes, NEW S \in SUBSET Nodes
  PROVE  IsFiniteSet(S) /\ SumFunctionOnSet(d[n], S) \in Int
<1>1. IsFiniteSet(S) /\ \A m \in S : d[n][m] \in Int
  BY DebtAssumption, FS_Subset
<1> QED
  BY <1>1, SumInt

LEMMA BalanceOutside ==
  ASSUME NEW d \in [Nodes -> [Nodes -> Int]], NEW n \in Nodes, NEW S \in SUBSET Nodes
  PROVE  SumFunctionOnSet(d[n], Nodes)
           = SumFunctionOnSet(d[n], S) + SumFunctionOnSet(d[n], Nodes \ S)
<1>1. IsFiniteSet(Nodes) /\ (\A x \in Nodes : d[n][x] \in Int) /\ S \subseteq Nodes
  BY DebtAssumption
<1> QED
  BY <1>1, SumSplit

LEMMA DebtSplit ==
  ASSUME DebtInv, NEW n \in Nodes, NEW S \in SUBSET Nodes
  PROVE  GetDebt(n, Nodes) = GetDebt(n, S) + GetDebt(n, Nodes \ S)
BY BalanceOutside DEF DebtInv, GetDebt

LEMMA NetFinite ==
  ASSUME NEW S \in SUBSET Nodes
  PROVE  Parts \in Int /\ IsFiniteSet(S)
<1>1. Parts \in Int
  BY DebtAssumption
<1>2. IsFiniteSet(S)
  BY DebtAssumption, FS_Subset
<1> QED
  BY <1>1, <1>2

\* A matrix of payments between the nodes of a net.
Payments(S) == [S -> [S -> Int]]

Received(pay, S, n) == SumFunctionOnSet([m \in S |-> pay[m][n]], S)

LEMMA PaidIs ==
  ASSUME capital \in [Nodes -> Int], NEW S \in SUBSET Nodes, NEW pay \in Payments(S)
  PROVE  /\ Paid(pay, S) \in [Nodes -> Int]
         /\ \A n \in S : /\ SumFunctionOnSet(pay[n], S) \in Int
                         /\ Received(pay, S, n) \in Int
                         /\ Paid(pay, S)[n] = capital[n] - SumFunctionOnSet(pay[n], S)
                                              + Received(pay, S, n)
         /\ \A n \in Nodes \ S : Paid(pay, S)[n] = capital[n]
<1>1. IsFiniteSet(S)
  BY DebtAssumption, FS_Subset
<1>2. \A n, m \in S : pay[n][m] \in Int
  BY DEF Payments
<1>3. ASSUME NEW n \in S
      PROVE  SumFunctionOnSet(pay[n], S) \in Int /\ Received(pay, S, n) \in Int
  <2>1. SumFunctionOnSet(pay[n], S) \in Int
    BY <1>1, <1>2, SumInt
  <2> DEFINE r == [m \in S |-> pay[m][n]]
  <2>2. \A m \in S : r[m] \in Int
    BY <1>2
  <2>3. SumFunctionOnSet(r, S) \in Int
    <3> HIDE DEF r
    <3> QED
      BY <1>1, <2>2, SumInt
  <2> QED
    BY <2>1, <2>3 DEF Received
<1>4. \A n \in Nodes :
        Paid(pay, S)[n] = IF n \in S
                          THEN capital[n] - SumFunctionOnSet(pay[n], S) + Received(pay, S, n)
                          ELSE capital[n]
  BY DEF Paid, Received
<1>5. \A n \in Nodes : capital[n] \in Int
  OBVIOUS
<1>6. \A n \in Nodes : Paid(pay, S)[n] \in Int
  BY <1>3, <1>4, <1>5
<1>7. Paid(pay, S) = [n \in Nodes |-> Paid(pay, S)[n]]
  BY DEF Paid
<1> QED
  BY <1>3, <1>4, <1>6, <1>7

\* What a node of the net gains or loses.
LEMMA WorthChange ==
  ASSUME DebtInv, Erases, capital \in [Nodes -> Int],
         NEW S \in SUBSET Nodes, NEW pay \in Payments(S), NEW n \in S,
         capital'[n] = Paid(pay, S)[n],
         \A m \in Nodes \ S : sheet'[n][m] = sheet[n][m]
  PROVE  /\ Worth(n) \in Int /\ Worth(n)' \in Int
         /\ Received(pay, S, n) + SumFunctionOnSet(sheet[n], S) * Parts \in Int
         /\ SumFunctionOnSet(pay[n], S) + SumFunctionOnSet(sheet'[n], S) * Parts \in Int
         /\ Worth(n)' - Worth(n)
              = (Received(pay, S, n) + SumFunctionOnSet(sheet[n], S) * Parts)
                - (SumFunctionOnSet(pay[n], S) + SumFunctionOnSet(sheet'[n], S) * Parts)
<1> DEFINE O == Nodes \ S
<1>0. Parts \in Int
  BY DebtAssumption
<1>1. Parts \in Int /\ n \in Nodes /\ capital[n] \in Int /\ O \in SUBSET Nodes
  BY <1>0, Zenon
<1>2. sheet \in [Nodes -> [Nodes -> Int]] /\ sheet' \in [Nodes -> [Nodes -> Int]]
  BY DEF DebtInv, Erases
<1>3. /\ IsFiniteSet(O)
      /\ SumFunctionOnSet(sheet[n], S) \in Int /\ SumFunctionOnSet(sheet[n], O) \in Int
      /\ SumFunctionOnSet(sheet'[n], S) \in Int
  <2> HIDE DEF O
  <2> QED
    BY <1>1, <1>2, BalanceInt
<1>4. /\ SumFunctionOnSet(sheet[n], Nodes)
           = SumFunctionOnSet(sheet[n], S) + SumFunctionOnSet(sheet[n], O)
      /\ SumFunctionOnSet(sheet'[n], Nodes)
           = SumFunctionOnSet(sheet'[n], S) + SumFunctionOnSet(sheet'[n], O)
  <2>1. SumFunctionOnSet(sheet[n], Nodes)
          = SumFunctionOnSet(sheet[n], S) + SumFunctionOnSet(sheet[n], O)
    BY <1>1, DebtSplit DEF GetDebt
  <2>2. SumFunctionOnSet(sheet'[n], Nodes)
          = SumFunctionOnSet(sheet'[n], S) + SumFunctionOnSet(sheet'[n], O)
    BY <1>1, <1>2, BalanceOutside
  <2> QED
    BY <2>1, <2>2
<1>5. SumFunctionOnSet(sheet'[n], O) = SumFunctionOnSet(sheet[n], O)
  BY <1>3, SumSame
<1>6. /\ SumFunctionOnSet(pay[n], S) \in Int /\ Received(pay, S, n) \in Int
      /\ capital'[n] = capital[n] - SumFunctionOnSet(pay[n], S) + Received(pay, S, n)
  BY PaidIs
<1> HIDE DEF O
<1>7. /\ Worth(n) = capital[n] - (SumFunctionOnSet(sheet[n], S)
                                  + SumFunctionOnSet(sheet[n], O)) * Parts
      /\ Worth(n)' = capital'[n] - (SumFunctionOnSet(sheet'[n], S)
                                    + SumFunctionOnSet(sheet[n], O)) * Parts
  BY <1>4, <1>5 DEF Worth, GetDebt
<1>8. \A a, b \in Int : (a + b) * Parts = a * Parts + b * Parts /\ a * Parts \in Int
  BY <1>1
<1> QED
  BY <1>1, <1>3, <1>6, <1>7, <1>8

\* A node that receives no more than the claims it loses does not gain.
LEMMA WorthFalls ==
  ASSUME DebtInv, Erases, capital \in [Nodes -> Int],
         NEW S \in SUBSET Nodes, NEW pay \in Payments(S), NEW n \in S,
         capital'[n] = Paid(pay, S)[n],
         \A m \in Nodes \ S : sheet'[n][m] = sheet[n][m],
         \A m \in S : pay[m][n] + sheet[n][m] * Parts <= pay[n][m] + sheet'[n][m] * Parts
  PROVE  Worth(n)' <= Worth(n)
<1> DEFINE r == [m \in S |-> pay[m][n]]
<1>1. Parts \in Int /\ IsFiniteSet(S)
  BY NetFinite
<1>2. \A m \in S : /\ r[m] \in Int /\ pay[n][m] \in Int
                   /\ sheet[n][m] \in Int /\ sheet'[n][m] \in Int
                   /\ r[m] + sheet[n][m] * Parts <= pay[n][m] + sheet'[n][m] * Parts
  BY DEF Payments, DebtInv, Erases
<1>3. SumFunctionOnSet(r, S) + SumFunctionOnSet(sheet[n], S) * Parts
        <= SumFunctionOnSet(pay[n], S) + SumFunctionOnSet(sheet'[n], S) * Parts
  <2> HIDE DEF r
  <2> QED
    BY <1>1, <1>2, SumTrade
<1>4. Received(pay, S, n) = SumFunctionOnSet(r, S)
  BY DEF Received
<1> HIDE DEF r
<1> QED
  BY <1>3, <1>4, WorthChange

\* One that receives just that keeps its worth.
LEMMA WorthKept ==
  ASSUME DebtInv, Erases, capital \in [Nodes -> Int],
         NEW S \in SUBSET Nodes, NEW pay \in Payments(S), NEW n \in S,
         capital'[n] = Paid(pay, S)[n],
         \A m \in Nodes \ S : sheet'[n][m] = sheet[n][m],
         \A m \in S : pay[m][n] + sheet[n][m] * Parts = pay[n][m] + sheet'[n][m] * Parts
  PROVE  Worth(n)' = Worth(n)
<1> DEFINE r == [m \in S |-> pay[m][n]]
<1>1. Parts \in Int /\ IsFiniteSet(S)
  BY NetFinite
<1>2. \A m \in S : /\ r[m] \in Int /\ pay[n][m] \in Int
                   /\ sheet[n][m] \in Int /\ sheet'[n][m] \in Int
                   /\ r[m] + sheet[n][m] * Parts <= pay[n][m] + sheet'[n][m] * Parts
                   /\ pay[n][m] + sheet'[n][m] * Parts <= r[m] + sheet[n][m] * Parts
  <2> SUFFICES ASSUME NEW m \in S
               PROVE  /\ r[m] \in Int /\ pay[n][m] \in Int
                      /\ sheet[n][m] \in Int /\ sheet'[n][m] \in Int
                      /\ r[m] + sheet[n][m] * Parts <= pay[n][m] + sheet'[n][m] * Parts
                      /\ pay[n][m] + sheet'[n][m] * Parts <= r[m] + sheet[n][m] * Parts
    OBVIOUS
  <2>1. r[m] \in Int /\ pay[n][m] \in Int /\ sheet[n][m] \in Int /\ sheet'[n][m] \in Int
    BY DEF Payments, DebtInv, Erases
  <2>2. r[m] + sheet[n][m] * Parts = pay[n][m] + sheet'[n][m] * Parts
    OBVIOUS
  <2>3. sheet[n][m] * Parts \in Int /\ sheet'[n][m] * Parts \in Int
    BY <1>1, <2>1
  <2> HIDE DEF r
  <2> QED
    BY <2>1, <2>2, <2>3
<1>3. /\ SumFunctionOnSet(r, S) + SumFunctionOnSet(sheet[n], S) * Parts
           <= SumFunctionOnSet(pay[n], S) + SumFunctionOnSet(sheet'[n], S) * Parts
      /\ SumFunctionOnSet(pay[n], S) + SumFunctionOnSet(sheet'[n], S) * Parts
           <= SumFunctionOnSet(r, S) + SumFunctionOnSet(sheet[n], S) * Parts
  <2> HIDE DEF r
  <2> QED
    BY <1>1, <1>2, SumTrade
<1>4. Received(pay, S, n) = SumFunctionOnSet(r, S)
  BY DEF Received
<1> HIDE DEF r
<1> QED
  BY <1>3, <1>4, WorthChange

\* The worth of a node outside the net does not change.
LEMMA WorthOutside ==
  ASSUME NEW n \in Nodes, capital'[n] = capital[n], sheet \in [Nodes -> [Nodes -> Int]],
         \A m \in Nodes : sheet'[n][m] = sheet[n][m]
  PROVE  Worth(n)' = Worth(n)
<1>0. IsFiniteSet(Nodes)
  BY DebtAssumption
<1>1. SumFunctionOnSet(sheet'[n], Nodes) = SumFunctionOnSet(sheet[n], Nodes)
  BY <1>0, SumSame
<1> QED
  BY <1>1 DEF Worth, GetDebt

RepayMatrix(A, S) ==
  [n \in S |-> [m \in S |-> IF n \in A THEN Positive(sheet[n][m]) * Parts ELSE 0]]

LEMMA RepayPayments ==
  ASSUME DebtInv, NEW S \in SUBSET Nodes, NEW A
  PROVE  /\ RepayMatrix(A, S) \in Payments(S)
         /\ \A n, m \in S : RepayMatrix(A, S)[n][m] =
                              IF n \in A THEN Positive(sheet[n][m]) * Parts ELSE 0
<1>1. \A n, m \in S : sheet[n][m] \in Int
  BY DEF DebtInv
<1>2. Parts \in Int
  BY DebtAssumption
<1>3. \A x \in Int : Positive(x) \in Int
  BY DEF Positive
<1>4. \A n, m \in S : Positive(sheet[n][m]) * Parts \in Int
  BY <1>1, <1>2, <1>3
<1> QED
  BY <1>4 DEF RepayMatrix, Payments

\* repayAll changes what everybody has by what they no longer owe.
LEMMA RepayExact ==
  ASSUME NEW x \in Int, NEW y \in Int, y = - x, NEW k \in Int, NEW A, NEW n, NEW m
  PROVE  (IF m \in A THEN Positive(y) * k ELSE 0) + x * k
           = (IF n \in A THEN Positive(x) * k ELSE 0)
             + (IF (n \in A /\ x > 0) \/ (m \in A /\ y > 0) THEN 0 ELSE x) * k
<1>1. y * k = - (x * k) /\ x * k \in Int /\ 0 * k = 0
  OBVIOUS
<1> QED
  BY <1>1 DEF Positive

LEMMA RepayWorth ==
  ASSUME DebtInv, capital \in [Nodes -> Int], NEW S \in SUBSET Nodes, NEW A \in SUBSET S,
         RepayAll(A, S)
  PROVE  capital' \in [Nodes -> Int] /\ \A n \in Nodes : Worth(n)' = Worth(n)
<1> DEFINE pay == RepayMatrix(A, S)
<1>1. /\ pay \in Payments(S)
      /\ \A n, m \in S : pay[n][m] = IF n \in A THEN Positive(sheet[n][m]) * Parts ELSE 0
  BY RepayPayments
<1>2. capital' = Paid(pay, S)
  BY DEF RepayAll, RepayMatrix
<1>3. Erases /\ sheet \in [Nodes -> [Nodes -> Int]]
  BY RepayAllErases DEF DebtInv
<1>4. \A n, m \in Nodes :
        sheet'[n][m] = IF (n \in A /\ m \in S /\ sheet[n][m] > 0)
                          \/ (m \in A /\ n \in S /\ sheet[m][n] > 0)
                       THEN 0 ELSE sheet[n][m]
  BY DEF RepayAll
<1> HIDE DEF pay
<1>5. capital' \in [Nodes -> Int] /\ \A n \in Nodes \ S : capital'[n] = capital[n]
  BY <1>1, <1>2, PaidIs
<1>6. ASSUME NEW n \in S
      PROVE  Worth(n)' = Worth(n)
  <2>1. \A m \in Nodes \ S : sheet'[n][m] = sheet[n][m]
    BY <1>4
  <2>2. ASSUME NEW m \in S
        PROVE  pay[m][n] + sheet[n][m] * Parts = pay[n][m] + sheet'[n][m] * Parts
    <3>1. /\ sheet[n][m] \in Int /\ sheet[m][n] \in Int /\ sheet[m][n] = - sheet[n][m]
          /\ Parts \in Int
      BY DebtAssumption DEF DebtInv
    <3>2. sheet'[n][m] = IF (n \in A /\ sheet[n][m] > 0) \/ (m \in A /\ sheet[m][n] > 0)
                         THEN 0 ELSE sheet[n][m]
      BY <1>4
    <3>3. /\ pay[n][m] = IF n \in A THEN Positive(sheet[n][m]) * Parts ELSE 0
          /\ pay[m][n] = IF m \in A THEN Positive(sheet[m][n]) * Parts ELSE 0
      BY <1>1
    <3>4. (IF m \in A THEN Positive(sheet[m][n]) * Parts ELSE 0) + sheet[n][m] * Parts
            = (IF n \in A THEN Positive(sheet[n][m]) * Parts ELSE 0)
              + (IF (n \in A /\ sheet[n][m] > 0) \/ (m \in A /\ sheet[m][n] > 0)
                 THEN 0 ELSE sheet[n][m]) * Parts
      BY <3>1, RepayExact
    <3> QED
      BY <3>2, <3>3, <3>4, Zenon
  <2> QED
    BY <1>1, <1>2, <1>3, <2>1, <2>2, WorthKept
<1>7. ASSUME NEW n \in Nodes \ S
      PROVE  Worth(n)' = Worth(n)
  <2>1. \A m \in Nodes : sheet'[n][m] = sheet[n][m]
    BY <1>4
  <2> QED
    BY <1>3, <1>5, <2>1, WorthOutside
<1> QED
  BY <1>5, <1>6, <1>7

-----------------------------------------------------------------------------
(* The call at the top of the stack, when it settles *)

Top == Last(calls)
Net == NetOf(Top)
Owed(n) == GetDebt(n, Top.pos)
Out(n) == GetDebt(n, Nodes \ Net)
Broke == {n \in Top.neg : Owed(n) * Parts > capital[n]}
Shares == [n \in Net |-> [m \in Net |->
             IF n \in Top.neg /\ m \in Top.pos THEN Share(n, m, Owed(n)) ELSE 0]]

\* What a step may rely on.
Books == DebtInv /\ capital \in [Nodes -> Int] /\ NestInv

LEMMA TopIs ==
  ASSUME Books, calls # <<>>
  PROVE  /\ Len(calls) \in Nat \ {0} /\ Top = calls[Len(calls)]
         /\ Top \in CallRecord
         /\ OneWay(Top, sheet) /\ Nested(Len(calls))
<1>1. calls \in Seq(CallRecord)
  BY DEF Books, DebtInv, CallRecord
<1>2. Len(calls) \in Nat \ {0} /\ Len(calls) \in 1 .. Len(calls)
  BY <1>1
<1>3. Top = calls[Len(calls)]
  BY DEF Top, Last
<1> QED
  BY <1>1, <1>2, <1>3 DEF Books, DebtInv, NestInv

\* The sheets of the top call.
LEMMA TopSheets ==
  ASSUME Books, calls # <<>>
  PROVE  /\ Top.pos \in SUBSET Nodes /\ Top.neg \in SUBSET Nodes /\ Net \in SUBSET Nodes
         /\ Top.pos \subseteq Net /\ Top.neg \subseteq Net /\ Net \ Top.pos = Top.neg
         /\ \A n \in Top.neg : n \notin Top.pos
         /\ \A n, m \in Nodes : sheet[n][m] \in Int /\ sheet[m][n] = - sheet[n][m]
         /\ \A n, m \in Top.pos : sheet[n][m] = 0
         /\ \A n \in Top.neg, m \in Top.pos : sheet[n][m] >= 0
         /\ \A n \in Top.neg, m \in Nodes \ Net : sheet[n][m] >= 0
<1>1. Top \in CallRecord /\ OneWay(Top, sheet) /\ Nested(Len(calls))
      /\ Top = calls[Len(calls)]
  BY TopIs
<1>2. Top.pos \in SUBSET Nodes /\ Top.neg \in SUBSET Nodes
  BY <1>1 DEF CallRecord
<1>3. Top.pos \cap Top.neg = {}
  BY <1>1 DEF Nested
<1>4. \A n, m \in Nodes : sheet[n][m] \in Int /\ sheet[m][n] = - sheet[n][m]
  BY DEF Books, DebtInv
<1>5. \A n \in Top.neg, m \in Top.pos : sheet[n][m] >= 0
  <2> SUFFICES ASSUME NEW n \in Top.neg, NEW m \in Top.pos
               PROVE  sheet[n][m] >= 0
    OBVIOUS
  <2>1. sheet[m][n] <= 0
    BY <1>1 DEF OneWay
  <2>2. sheet[n][m] \in Int /\ sheet[m][n] = - sheet[n][m]
    BY <1>2, <1>4
  <2> QED
    BY <2>1, <2>2
<1>6. \A n \in Top.neg, m \in Nodes \ Net : sheet[n][m] >= 0
  BY <1>1 DEF Nested, Net, NetOf
<1>7. \A n, m \in Top.pos : sheet[n][m] = 0
  BY <1>1 DEF OneWay
<1>8. Net = Top.pos \cup Top.neg
  BY DEF Net, NetOf
<1> QED
  BY <1>2, <1>3, <1>4, <1>5, <1>6, <1>7, <1>8

\* A proportional share is no more than the debt.
LEMMA ShareBound ==
  ASSUME NEW c \in Int, NEW s \in Nat, NEW d \in Int, d > 0, NEW P \in Nat, c < d * P
  PROVE  (c * s) \div d \in Int /\ (c * s) \div d <= s * P
<1> DEFINE q == (c * s) \div d
<1>1. c * s \in Int /\ s * P \in Int /\ d * P \in Int
  OBVIOUS
<1>2. q \in Int /\ q * d <= c * s
  BY <1>1
<1>3. c * s <= (d * P) * s
  BY <1>1
<1>4. (d * P) * s = (s * P) * d
  OBVIOUS
<1> HIDE DEF q
<1>5. q * d <= (s * P) * d
  BY <1>1, <1>2, <1>3, <1>4
<1>6. \A x, y \in Int : x * d <= y * d => x <= y
  OBVIOUS
<1>7. q <= s * P
  BY <1>1, <1>2, <1>5, <1>6
<1> QED
  BY <1>2, <1>7 DEF q

LEMMA OwedInt ==
  ASSUME Books, calls # <<>>, NEW n \in Top.neg
  PROVE  /\ Owed(n) \in Int /\ Out(n) \in Int /\ Out(n) >= 0
         /\ n \in Nodes /\ capital[n] \in Int /\ Parts \in Int /\ Parts > 0
<1> DEFINE O == Nodes \ Net
<1>1. /\ n \in Nodes /\ sheet \in [Nodes -> [Nodes -> Int]]
      /\ Top.pos \in SUBSET Nodes /\ O \in SUBSET Nodes
  BY TopSheets DEF Books, DebtInv
<1>2. \A m \in O : sheet[n][m] \in Nat
  BY <1>1, TopSheets
<1> HIDE DEF O
<1>3. IsFiniteSet(O) /\ Owed(n) \in Int
  BY <1>1, BalanceInt DEF Owed, GetDebt
<1>4. SumFunctionOnSet(sheet[n], O) \in Nat
  BY <1>2, <1>3, SumNat
<1>5. Out(n) \in Nat
  BY <1>4 DEF Out, GetDebt, O
<1>6. Parts \in Int /\ Parts > 0
  BY DebtAssumption
<1> QED
  BY <1>1, <1>3, <1>5, <1>6 DEF Books

LEMMA ShareIs ==
  ASSUME Books, calls # <<>>, NEW n \in Top.neg, NEW m \in Top.pos
  PROVE  /\ Share(n, m, Owed(n)) \in Int
         /\ Share(n, m, Owed(n)) <= sheet[n][m] * Parts
         /\ n \notin Broke => Share(n, m, Owed(n)) = sheet[n][m] * Parts
<1>1. /\ Owed(n) \in Int /\ capital[n] \in Int /\ Parts \in Nat
  BY OwedInt, DebtAssumption
<1>2. sheet[n][m] \in Nat /\ Positive(sheet[n][m]) = sheet[n][m]
  BY TopSheets DEF Positive
<1>3. Owed(n) * Parts \in Int /\ sheet[n][m] * Parts \in Nat
  BY <1>1, <1>2
<1>4. n \in Broke <=> ~(Owed(n) * Parts <= capital[n])
  BY <1>1, <1>3 DEF Broke
<1>5. CASE Owed(n) * Parts <= capital[n]
  <2>1. Share(n, m, Owed(n)) = sheet[n][m] * Parts
    BY <1>2, <1>5 DEF Share
  <2> QED
    BY <1>3, <2>1
<1>6. CASE ~(Owed(n) * Parts <= capital[n]) /\ Owed(n) > 0
  <2>1. Share(n, m, Owed(n)) = (capital[n] * sheet[n][m]) \div Owed(n)
    BY <1>6 DEF Share
  <2>2. capital[n] < Owed(n) * Parts
    BY <1>1, <1>3, <1>6
  <2> QED
    BY <1>1, <1>2, <1>4, <1>6, <2>1, <2>2, ShareBound
<1>7. CASE ~(Owed(n) * Parts <= capital[n]) /\ ~(Owed(n) > 0)
  <2>1. Share(n, m, Owed(n)) = 0
    BY <1>7 DEF Share
  <2> QED
    BY <1>3, <1>4, <1>7, <2>1
<1> QED
  BY <1>5, <1>6, <1>7

LEMMA SharesIs ==
  ASSUME Books, calls # <<>>
  PROVE  /\ Shares \in Payments(Net)
         /\ \A n, m \in Net :
              Shares[n][m] = IF n \in Top.neg /\ m \in Top.pos
                             THEN Share(n, m, Owed(n)) ELSE 0
<1>1. \A n \in Top.neg, m \in Top.pos : Share(n, m, Owed(n)) \in Int
  BY ShareIs
<1> QED
  BY <1>1 DEF Shares, Payments

\* What Ascend does, in these terms.
LEMMA AscendIs ==
  ASSUME Books, Ascend
  PROVE  /\ calls # <<>> /\ Erases
         /\ capital' = [n \in Nodes |-> IF n \in Broke THEN 0 ELSE Paid(Shares, Net)[n]]
         /\ \A n, m \in Nodes :
              sheet'[n][m] = IF (n \in Top.neg /\ m \in Net) \/ (n \in Net /\ m \in Top.neg)
                             THEN 0 ELSE sheet[n][m]
<1>1. calls # <<>>
  BY DEF Books, DebtInv, Ascend
<1> DEFINE debt == [n \in Top.neg |-> GetDebt(n, Top.pos)]
           pay == [n \in Net |-> [m \in Net |->
                     IF n \in Top.neg /\ m \in Top.pos THEN Share(n, m, debt[n]) ELSE 0]]
           broke == {n \in Top.neg : debt[n] * Parts > capital[n]}
<1>2. capital' = [n \in Nodes |-> IF n \in broke THEN 0 ELSE Paid(pay, Net)[n]]
  BY DEF Ascend, Top, Net, NetOf
<1>3. sheet' = Erase(Top.neg, Net)
  BY DEF Ascend, Top, Net, NetOf
<1>4. \A n \in Top.neg : debt[n] = Owed(n)
  BY DEF Owed
<1> HIDE DEF debt
<1>5. broke = Broke
  BY <1>4 DEF Broke
<1>6. pay = Shares
  BY <1>4 DEF Shares
<1>7. Erases
  BY <1>3, EraseErases DEF Books
<1>8. \A n, m \in Nodes :
        sheet'[n][m] = IF (n \in Top.neg /\ m \in Net) \/ (n \in Net /\ m \in Top.neg)
                       THEN 0 ELSE sheet[n][m]
  BY <1>3 DEF Erase
<1> QED
  BY <1>1, <1>2, <1>5, <1>6, <1>7, <1>8

LEMMA AscendTypes == ASSUME Books, Ascend PROVE capital' \in [Nodes -> Int]
<1>1. calls # <<>>
  BY AscendIs
<1>2. Shares \in Payments(Net) /\ Net \in SUBSET Nodes
  BY <1>1, SharesIs, TopSheets
<1>3. Paid(Shares, Net) \in [Nodes -> Int]
  BY <1>2, PaidIs DEF Books
<1> QED
  BY <1>3, AscendIs

\* Creditors of the net get no more than their claims.
LEMMA AscendPos ==
  ASSUME Books, Ascend, NEW n \in Top.pos
  PROVE  Worth(n)' <= Worth(n) /\ (Broke = {} => Worth(n)' = Worth(n))
<1>1. calls # <<>> /\ Erases
  BY AscendIs
<1>2. /\ Shares \in Payments(Net) /\ Net \in SUBSET Nodes /\ n \in Net /\ n \in Nodes
      /\ n \notin Top.neg /\ n \notin Broke
  BY <1>1, SharesIs, TopSheets DEF Broke
<1>3. capital'[n] = Paid(Shares, Net)[n]
  BY <1>2, AscendIs
<1>4. \A m \in Nodes \ Net : sheet'[n][m] = sheet[n][m]
  BY <1>1, <1>2, AscendIs, TopSheets
<1>5. ASSUME NEW m \in Net
      PROVE  /\ Shares[m][n] + sheet[n][m] * Parts <= Shares[n][m] + sheet'[n][m] * Parts
             /\ Broke = {} =>
                  Shares[m][n] + sheet[n][m] * Parts = Shares[n][m] + sheet'[n][m] * Parts
  <2>1. /\ Shares[n][m] = 0 /\ Parts \in Int /\ m \in Nodes
        /\ sheet[n][m] \in Int /\ sheet[m][n] \in Int /\ sheet[m][n] = - sheet[n][m]
    BY <1>1, <1>2, SharesIs, TopSheets, NetFinite
  <2>2. CASE m \in Top.neg
    <3>1. /\ Shares[m][n] = Share(m, n, Owed(m)) /\ sheet'[n][m] = 0
      BY <1>1, <1>2, <2>1, <2>2, SharesIs, AscendIs
    <3>2. /\ Share(m, n, Owed(m)) \in Int
          /\ Share(m, n, Owed(m)) <= sheet[m][n] * Parts
          /\ Broke = {} => Share(m, n, Owed(m)) = sheet[m][n] * Parts
      BY <1>1, <2>2, ShareIs
    <3>3. sheet[m][n] * Parts = - (sheet[n][m] * Parts) /\ sheet[n][m] * Parts \in Int
          /\ 0 * Parts = 0
      BY <2>1
    <3> QED
      BY <2>1, <3>1, <3>2, <3>3
  <2>3. CASE m \notin Top.neg
    <3>1. Shares[m][n] = 0 /\ sheet'[n][m] = sheet[n][m]
      BY <1>1, <1>2, <2>1, <2>3, SharesIs, AscendIs
    <3>2. sheet[n][m] * Parts \in Int
      BY <2>1
    <3> QED
      BY <2>1, <3>1, <3>2
  <2> QED
    BY <2>2, <2>3
<1>6. Worth(n)' <= Worth(n)
  BY <1>1, <1>2, <1>3, <1>4, <1>5, WorthFalls DEF Books
<1>7. ASSUME Broke = {}
      PROVE  Worth(n)' = Worth(n)
  BY <1>1, <1>2, <1>3, <1>4, <1>5, <1>7, WorthKept DEF Books
<1> QED
  BY <1>6, <1>7

\* Debtors of the net pay what they owe in it, or all they have.
LEMMA AscendNeg ==
  ASSUME Books, Ascend, NEW n \in Top.neg
  PROVE  /\ GetDebt(n, Nodes) = Owed(n) + Out(n)
         /\ GetDebt(n, Nodes)' = Out(n)
         /\ capital'[n] = IF n \in Broke THEN 0 ELSE capital[n] - Owed(n) * Parts
<1>1. calls # <<>> /\ Erases /\ phase = "up"
  BY AscendIs DEF Ascend
<1>2. /\ Shares \in Payments(Net) /\ Net \in SUBSET Nodes /\ n \in Net /\ n \in Nodes
      /\ n \notin Top.pos /\ Top.pos \in SUBSET Net /\ Top.pos \in SUBSET Nodes
      /\ Net \ Top.pos = Top.neg /\ Top.neg \in SUBSET Nodes
  BY <1>1, SharesIs, TopSheets
<1>3. /\ sheet \in [Nodes -> [Nodes -> Int]] /\ sheet' \in [Nodes -> [Nodes -> Int]]
  BY <1>1 DEF Books, DebtInv, Erases
<1>4. Owed(n) \in Int /\ Out(n) \in Int /\ capital[n] \in Int /\ Parts \in Int
  BY <1>1, OwedInt
<1>5. GetDebt(n, Net) = Owed(n)
  <2>1. SumFunctionOnSet(sheet[n], Net)
          = SumFunctionOnSet(sheet[n], Top.pos) + SumFunctionOnSet(sheet[n], Top.neg)
    <3>1. /\ IsFiniteSet(Net) /\ (\A m \in Net : sheet[n][m] \in Int)
          /\ Top.pos \subseteq Net /\ Top.neg = Net \ Top.pos
      BY <1>2, <1>3, NetFinite
    <3> QED
      BY <3>1, SumParts
  <2>2. GetDebt(n, Top.neg) = 0
    BY <1>1 DEF Books, NestInv, Top, Balanced, GetDebt
  <2> QED
    BY <1>4, <2>1, <2>2 DEF Owed, GetDebt
<1>6. GetDebt(n, Nodes) = Owed(n) + Out(n)
  BY <1>2, <1>5, DebtSplit DEF Books, Out
<1>7. GetDebt(n, Nodes)' = Out(n)
  <2> DEFINE O == Nodes \ Net
  <2>1. SumFunctionOnSet(sheet'[n], Nodes)
          = SumFunctionOnSet(sheet'[n], Net) + SumFunctionOnSet(sheet'[n], O)
    <3>1. Net \in SUBSET Nodes /\ n \in Nodes
      BY <1>2
    <3> QED
      BY <1>3, <3>1, BalanceOutside
  <2>2. \A m \in Net : sheet'[n][m] = 0
    BY <1>2, AscendIs
  <2>3. \A m \in O : sheet'[n][m] = sheet[n][m]
    BY <1>2, AscendIs
  <2>4. IsFiniteSet(Net) /\ IsFiniteSet(O)
    BY <1>2, NetFinite
  <2>5. SumFunctionOnSet(sheet'[n], Net) = 0
    BY <2>2, <2>4, SumZero
  <2>6. SumFunctionOnSet(sheet'[n], O) = SumFunctionOnSet(sheet[n], O)
    BY <2>3, <2>4, SumSame
  <2>7. SumFunctionOnSet(sheet[n], O) = Out(n)
    BY DEF Out, GetDebt
  <2> QED
    BY <1>4, <2>1, <2>5, <2>6, <2>7 DEF GetDebt
<1>8. CASE n \in Broke
  BY <1>2, <1>6, <1>7, <1>8, AscendIs
<1>9. CASE n \notin Broke
  <2>1. capital'[n] = Paid(Shares, Net)[n]
    BY <1>2, <1>9, AscendIs
  <2>2. /\ SumFunctionOnSet(Shares[n], Net) \in Int /\ Received(Shares, Net, n) \in Int
        /\ Paid(Shares, Net)[n] = capital[n] - SumFunctionOnSet(Shares[n], Net)
                                  + Received(Shares, Net, n)
    BY <1>2, PaidIs DEF Books
  <2>3. Received(Shares, Net, n) = 0
    <3> DEFINE r == [m \in Net |-> Shares[m][n]]
    <3>1. \A m \in Net : r[m] = 0
      BY <1>1, <1>2, SharesIs
    <3>2. IsFiniteSet(Net)
      BY <1>2, NetFinite
    <3>3. SumFunctionOnSet(r, Net) = 0
      <4> HIDE DEF r
      <4> QED
        BY <3>1, <3>2, SumZero
    <3> QED
      BY <3>3 DEF Received
  <2>4. SumFunctionOnSet(Shares[n], Net) = Owed(n) * Parts
    <3>1. \A m \in Net : Shares[n][m] = IF m \in Top.pos THEN sheet[n][m] * Parts ELSE 0
      BY <1>1, <1>2, <1>9, SharesIs, ShareIs
    <3>2. IsFiniteSet(Net) /\ IsFiniteSet(Top.pos) /\ IsFiniteSet(Top.neg)
      BY <1>2, NetFinite
    <3>3. \A m \in Top.pos : sheet[n][m] \in Int /\ Shares[n][m] = sheet[n][m] * Parts
      BY <1>2, <1>3, <3>1
    <3>4. SumFunctionOnSet(Shares[n], Top.pos) = SumFunctionOnSet(sheet[n], Top.pos) * Parts
      BY <1>4, <3>2, <3>3, SumTimes
    <3>5. \A m \in Top.neg : Shares[n][m] = 0
      BY <1>1, <1>2, <3>1, TopSheets
    <3>6. SumFunctionOnSet(Shares[n], Top.neg) = 0
      BY <3>2, <3>5, SumZero
    <3>7. \A m \in Net : Shares[n][m] \in Int
      BY <1>2 DEF Payments
    <3>8. Top.pos \subseteq Net /\ Top.neg = Net \ Top.pos
      BY <1>2
    <3>9. SumFunctionOnSet(Shares[n], Net)
            = SumFunctionOnSet(Shares[n], Top.pos) + SumFunctionOnSet(Shares[n], Top.neg)
      BY <3>2, <3>7, <3>8, SumParts, SMTT(30)
    <3> QED
      BY <1>4, <3>4, <3>6, <3>9 DEF Owed, GetDebt
  <2> QED
    BY <1>4, <1>6, <1>7, <1>9, <2>1, <2>2, <2>3, <2>4
<1> QED
  BY <1>8, <1>9

LEMMA AscendOut ==
  ASSUME Books, Ascend, NEW n \in Nodes \ Net
  PROVE  Worth(n)' = Worth(n)
<1>1. calls # <<>>
  BY AscendIs
<1>2. n \notin Broke /\ n \notin Top.neg /\ Shares \in Payments(Net) /\ Net \in SUBSET Nodes
  BY <1>1, SharesIs, TopSheets DEF Broke
<1>3. capital'[n] = capital[n]
  BY <1>2, AscendIs, PaidIs DEF Books
<1>4. \A m \in Nodes : sheet'[n][m] = sheet[n][m]
  BY <1>2, AscendIs
<1> QED
  BY <1>3, <1>4, WorthOutside DEF Books, DebtInv

-----------------------------------------------------------------------------
(* The nets of the calls *)

\* If no node of a net has a claim on balance, none has a debt on balance.
LEMMA NoCreditor ==
  ASSUME DebtInv, NEW S \in SUBSET Nodes, PositiveNodes(S) = {}
  PROVE  \A n \in S : GetDebt(n, S) = 0
<1> DEFINE row == [n \in S |-> GetDebt(n, S)]
<1>1. IsFiniteSet(S) /\ sheet \in [Nodes -> [Nodes -> Int]]
  BY NetFinite DEF DebtInv
<1>2. \A n \in S : GetDebt(n, S) \in Int
  BY <1>1, BalanceInt DEF GetDebt
<1>3. \A n \in S : GetDebt(n, S) \in Nat
  BY <1>2 DEF PositiveNodes
<1>4. \A n, m \in S : sheet[n][m] \in Int /\ sheet[n][m] = - sheet[m][n]
  BY <1>1 DEF DebtInv
<1>5. SumFunctionOnSet(row, S) = 0
  BY <1>1, <1>4, SumSkew DEF GetDebt
<1>6. \A n \in S : row[n] \in Nat /\ row[n] = GetDebt(n, S)
  BY <1>3
<1> HIDE DEF row
<1>7. \A n \in S : row[n] <= SumFunctionOnSet(row, S)
  BY <1>1, <1>6, SumNat
<1> QED
  BY <1>5, <1>6, <1>7

LEMMA ReturnNest == ASSUME Books, Return PROVE NestInv'
<1>1. /\ phase = "down" /\ PositiveNodes(net) = {} /\ net \in SUBSET Nodes
      /\ UNCHANGED <<capital, sheet, calls, net, start, created>>
      /\ phase' = IF calls = <<>> THEN "done" ELSE "up"
  BY DEF Return, Books, DebtInv
<1>2. Balanced(net, sheet)
  <2>1. \A n \in net : GetDebt(n, net) = 0
    BY <1>1, NoCreditor DEF Books
  <2> QED
    BY <2>1 DEF Balanced, GetDebt
<1>3. net = IF calls = <<>> THEN Nodes ELSE Last(calls).neg
  BY <1>1 DEF Books, NestInv
<1>4. \A i \in 1 .. Len(calls') : Nested(i)'
  BY <1>1 DEF Books, NestInv, Nested
<1> QED
  BY <1>1, <1>2, <1>3, <1>4 DEF NestInv

\* A call stays nested when entries are erased.
LEMMA NestedKept ==
  ASSUME Books, Erases, NEW i \in 1 .. Len(calls), i \in 1 .. Len(calls'),
         calls'[i] = calls[i], i # 1 => calls'[i - 1] = calls[i - 1]
  PROVE  Nested(i)'
<1>1. Nested(i) /\ calls[i] \in CallRecord
  <2>1. calls \in Seq(CallRecord)
    BY DEF Books, DebtInv, CallRecord
  <2> QED
    BY <2>1 DEF Books, NestInv
<1> DEFINE S == NetOf(calls[i])
<1>2. S \subseteq Nodes /\ \A n \in S, m \in Nodes \ S : sheet[n][m] >= 0
  BY <1>1 DEF Nested, CallRecord, NetOf
<1>3. \A n \in S, m \in Nodes \ S : sheet'[n][m] >= 0
  <2> SUFFICES ASSUME NEW n \in S, NEW m \in Nodes \ S
               PROVE  sheet'[n][m] >= 0
    OBVIOUS
  <2>1. n \in Nodes /\ m \in Nodes /\ sheet[n][m] >= 0
    BY <1>2
  <2>2. sheet'[n][m] = 0 \/ sheet'[n][m] = sheet[n][m]
    BY <2>1 DEF Erases
  <2> HIDE DEF S
  <2> QED
    BY <2>1, <2>2
<1> QED
  BY <1>1, <1>3 DEF Nested, NetOf


\* Nodes of the net that is about to be settled have no claims on the others.
LEMMA NetClaims ==
  ASSUME Books, phase = "down"
  PROVE  \A n \in net, m \in Nodes \ net : sheet[n][m] >= 0
<1>1. net = IF calls = <<>> THEN Nodes ELSE Top.neg
  BY DEF Books, NestInv, Top
<1>2. CASE calls = <<>>
  BY <1>1, <1>2
<1>3. CASE calls # <<>>
  <2>1. net = Top.neg
    BY <1>1, <1>3
  <2> SUFFICES ASSUME NEW n \in Top.neg, NEW m \in Nodes \ Top.neg
               PROVE  sheet[n][m] >= 0
    BY <2>1
  <2>2. m \in Top.pos \/ m \in Nodes \ Net
    BY <1>3, TopSheets
  <2> QED
    BY <1>3, <2>2, TopSheets
<1> QED
  BY <1>2, <1>3

LEMMA DescendNest == ASSUME Books, Descend PROVE NestInv'
<1> DEFINE pos == PositiveNodes(net)
           neg == net \ pos
           c == [pos |-> pos, neg |-> neg]
           L == Len(calls) + 1
<1>1. /\ phase = "down" /\ pos \subseteq net /\ net \subseteq Nodes /\ neg \subseteq Nodes
      /\ RepayAll(pos, net) /\ calls' = Append(calls, c) /\ net' = neg
      /\ phase' = IF \E n, m \in neg : sheet[n][m] # 0 THEN "down" ELSE "up"
  BY DEF Descend, PositiveNodes, Books, DebtInv
<1>2. Erases
  BY <1>1, RepayAllErases DEF Books
<1>3. c \in CallRecord /\ c.pos = pos /\ c.neg = neg
  BY <1>1 DEF CallRecord
<1>4. c.pos \cap c.neg = {} /\ NetOf(c) = net
  BY <1>1 DEF NetOf
<1>5. calls \in Seq(CallRecord)
  BY DEF Books, DebtInv, CallRecord
<1>6. net = IF calls = <<>> THEN Nodes ELSE Last(calls).neg
  BY <1>1 DEF Books, NestInv
<1> HIDE DEF c, pos, neg
<1>7. /\ calls' \in Seq(CallRecord) /\ calls' # <<>> /\ Len(calls') = L /\ calls'[L] = c
      /\ \A i \in 1 .. Len(calls) : calls'[i] = calls[i]
      /\ Len(calls) \in Nat
  BY <1>1, <1>3, <1>5
<1>8. Last(calls') = c
  BY <1>7 DEF Last
<1>9. ASSUME NEW i \in 1 .. Len(calls')
      PROVE  Nested(i)'
  <2>1. CASE i = L
    <3>1. \A n \in net, m \in Nodes \ net : sheet'[n][m] >= 0
      <4> SUFFICES ASSUME NEW n \in net, NEW m \in Nodes \ net PROVE sheet'[n][m] >= 0
        OBVIOUS
      <4>1. sheet[n][m] >= 0
        BY <1>1, NetClaims
      <4>2. sheet'[n][m] = 0 \/ sheet'[n][m] = sheet[n][m]
        BY <1>1, <1>2 DEF Erases
      <4> QED
        BY <4>1, <4>2
    <3>2. net = IF i = 1 THEN Nodes ELSE calls'[i - 1].neg
      <4>1. CASE calls = <<>>
        BY <1>6, <1>7, <2>1, <4>1
      <4>2. CASE calls # <<>>
        <5>1. Len(calls) \in 1 .. Len(calls) /\ i - 1 = Len(calls) /\ i # 1
          BY <1>5, <1>7, <2>1, <4>2
        <5>2. calls'[i - 1] = Last(calls)
          BY <1>7, <5>1 DEF Last
        <5> QED
          BY <1>6, <4>2, <5>1, <5>2
      <4> QED
        BY <4>1, <4>2
    <3>3. calls'[i] = c
      BY <1>7, <2>1
    <3> QED
      BY <1>4, <3>1, <3>2, <3>3 DEF Nested, NetOf
  <2>2. CASE i # L
    <3>1. i \in 1 .. Len(calls) /\ calls'[i] = calls[i]
      BY <1>7, <2>2
    <3>2. i # 1 => calls'[i - 1] = calls[i - 1]
      BY <1>7, <3>1
    <3> QED
      BY <1>2, <3>1, <3>2, NestedKept
  <2> QED
    BY <2>1, <2>2
<1>10. ASSUME phase' = "up"
       PROVE  Balanced(neg, sheet')
  <2>1. \A n, m \in neg : sheet[n][m] = 0
    BY <1>1, <1>10
  <2>2. \A n, m \in neg : sheet'[n][m] = 0
    BY <1>1, <1>2, <2>1 DEF Erases
  <2>3. IsFiniteSet(neg)
    BY <1>1, NetFinite
  <2>4. ASSUME NEW n \in neg PROVE SumFunctionOnSet(sheet'[n], neg) = 0
    BY <2>2, <2>3, SumZero
  <2> QED
    BY <2>4 DEF Balanced
<1>11. phase' # "done"
  BY <1>1
<1> QED
  BY <1>1, <1>3, <1>7, <1>8, <1>9, <1>10, <1>11 DEF NestInv

LEMMA AscendNest == ASSUME Books, Ascend PROVE NestInv'
<1>1. calls # <<>> /\ Erases
  BY AscendIs
<1>2. /\ Len(calls) \in Nat \ {0} /\ Top = calls[Len(calls)] /\ Nested(Len(calls))
      /\ calls \in Seq(CallRecord)
  BY <1>1, TopIs DEF Books, DebtInv, CallRecord
<1>3. Net = IF Len(calls) = 1 THEN Nodes ELSE calls[Len(calls) - 1].neg
  BY <1>2 DEF Nested, Net
<1>4. calls' \in Seq(CallRecord) /\ Len(calls') = Len(calls) - 1
  BY AscendCalls DEF Books
<1>5. \A i \in 1 .. Len(calls') : calls'[i] = calls[i]
  <2>2. calls' = SubSeq(calls, 1, Len(calls) - 1)
    BY DEF Ascend, Front
  <2> QED
    BY <1>2, <1>4, <2>2
<1>6. \A i \in 1 .. Len(calls') : Nested(i)'
  <2> SUFFICES ASSUME NEW i \in 1 .. Len(calls') PROVE Nested(i)'
    OBVIOUS
  <2>1. i \in 1 .. Len(calls) /\ calls'[i] = calls[i]
    BY <1>2, <1>4, <1>5
  <2>2. i # 1 => calls'[i - 1] = calls[i - 1]
    BY <1>2, <1>4, <1>5
  <2> QED
    BY <1>1, <2>1, <2>2, NestedKept
<1>7. Balanced(Net, sheet')
  <2>1. Net \in SUBSET Nodes /\ Net \ Top.pos = Top.neg /\ Top.pos \subseteq Net
        /\ \A n, m \in Top.pos : sheet[n][m] = 0
    BY <1>1, TopSheets
  <2>2. \A n, m \in Net : sheet'[n][m] = 0
    <3> SUFFICES ASSUME NEW n \in Net, NEW m \in Net PROVE sheet'[n][m] = 0
      OBVIOUS
    <3>1. CASE n \in Top.neg \/ m \in Top.neg
      BY <2>1, <3>1, AscendIs
    <3>2. CASE n \in Top.pos /\ m \in Top.pos
      BY <2>1, <3>2, AscendIs
    <3> QED
      BY <2>1, <3>1, <3>2
  <2>3. IsFiniteSet(Net)
    BY <2>1, NetFinite
  <2>4. ASSUME NEW n \in Net PROVE SumFunctionOnSet(sheet'[n], Net) = 0
    BY <2>2, <2>3, SumZero
  <2> QED
    BY <2>4 DEF Balanced
<1>8. CASE Len(calls) = 1
  <2>1. phase' = "done" /\ calls' = <<>> /\ Net = Nodes
    BY <1>3, <1>4, <1>8 DEF Ascend
  <2> QED
    BY <1>6, <1>7, <2>1 DEF NestInv
<1>9. CASE Len(calls) # 1
  <2>1. phase' = "up"
    BY <1>9 DEF Ascend
  <2>2. Len(calls') \in 1 .. Len(calls') /\ Len(calls') = Len(calls) - 1
    BY <1>2, <1>4, <1>9
  <2>3. Last(calls') = calls[Len(calls) - 1]
    BY <1>5, <2>2 DEF Last
  <2>4. Last(calls').neg = Net
    BY <1>3, <1>9, <2>3
  <2> QED
    BY <1>6, <1>7, <2>1, <2>4 DEF NestInv
<1> QED
  BY <1>8, <1>9


-----------------------------------------------------------------------------
(* What everybody is worth, from the start to the end *)

\* A debtor of the net that can pay keeps its worth; one that cannot was worth less
\* than nothing, and still owes what it owes outside the net.
LEMMA AscendNegWorth ==
  ASSUME Books, Ascend, NEW n \in Top.neg
  PROVE  /\ capital'[n] \in Int /\ capital'[n] >= 0
         /\ n \notin Broke => Worth(n)' = Worth(n)
         /\ n \in Broke => Worth(n)' <= 0 /\ Worth(n) < 0
<1>1. calls # <<>>
  BY AscendIs
<1>2. /\ Owed(n) \in Int /\ Out(n) \in Int /\ Out(n) >= 0
      /\ capital[n] \in Int /\ Parts \in Int /\ Parts > 0
  BY <1>1, OwedInt
<1>3. /\ GetDebt(n, Nodes) = Owed(n) + Out(n) /\ GetDebt(n, Nodes)' = Out(n)
      /\ capital'[n] = IF n \in Broke THEN 0 ELSE capital[n] - Owed(n) * Parts
  BY AscendNeg
<1> DEFINE p == Owed(n) * Parts
           q == Out(n) * Parts
<1>4. p \in Int /\ q \in Int /\ q >= 0 /\ (Owed(n) + Out(n)) * Parts = p + q
  BY <1>2
<1>5. Worth(n) = capital[n] - (p + q)
  BY <1>3, <1>4 DEF Worth
<1>6. Worth(n)' = capital'[n] - q
  BY <1>3 DEF Worth
<1>7. n \in Broke <=> p > capital[n]
  BY DEF Broke
<1>8. capital'[n] = IF n \in Broke THEN 0 ELSE capital[n] - p
  BY <1>3
<1> HIDE DEF p, q
<1>9. CASE n \in Broke
  BY <1>2, <1>4, <1>5, <1>6, <1>7, <1>8, <1>9
<1>10. CASE n \notin Broke
  BY <1>2, <1>4, <1>5, <1>6, <1>7, <1>8, <1>10
<1> QED
  BY <1>9, <1>10

LEMMA WorthInt ==
  ASSUME NEW c \in [Nodes -> Int], NEW d \in [Nodes -> [Nodes -> Int]], NEW n \in Nodes
  PROVE  c[n] - SumFunctionOnSet(d[n], Nodes) * Parts \in Int
<1>1. Nodes \in SUBSET Nodes
  OBVIOUS
<1>2. SumFunctionOnSet(d[n], Nodes) \in Int /\ Parts \in Int
  BY <1>1, BalanceInt, NetFinite
<1> QED
  BY <1>2

\* What the nodes had at the start.
LEMMA StartIs ==
  ASSUME WorthInv, NEW n \in Nodes
  PROVE  /\ StartDebt(n) \in Int /\ StartWorth(n) \in Int /\ start.capital[n] \in Nat
         /\ Positive(StartWorth(n)) \in Nat
<1>1. start.sheet \in [Nodes -> [Nodes -> Int]] /\ start.capital \in Cash
  BY DEF WorthInv
<1>2. Nodes \in SUBSET Nodes
  OBVIOUS
<1>3. StartDebt(n) \in Int
  BY <1>1, <1>2, BalanceInt DEF StartDebt
<1>4. start.capital[n] \in Nat /\ Parts \in Int /\ Parts > 0
  <2>1. PICK c \in Coins : start.capital[n] = c * Parts
    BY <1>1 DEF Cash
  <2> QED
    BY <2>1, DebtAssumption
<1> DEFINE w == StartDebt(n) * Parts
<1>5. w \in Int
  BY <1>3, <1>4
<1>6. StartWorth(n) = start.capital[n] - w
  BY DEF StartWorth
<1> HIDE DEF w
<1>7. StartWorth(n) \in Int
  BY <1>4, <1>5, <1>6
<1>8. Positive(StartWorth(n)) \in Nat
  BY <1>7 DEF Positive
<1> QED
  BY <1>3, <1>4, <1>7, <1>8

LEMMA InitWorth ==
  ASSUME Init
  PROVE  capital \in [Nodes -> Int] /\ NestInv /\ WorthInv
<1>1. /\ sheet \in [Nodes -> [Nodes -> Int]] /\ capital \in Cash
      /\ calls = <<>> /\ net = Nodes /\ phase = "down"
      /\ start = [capital |-> capital, sheet |-> sheet]
  BY InitDebt DEF Init, DebtInv
<1>2. \A n \in Nodes : Worth(n) = StartWorth(n)
  BY <1>1 DEF Worth, StartWorth, GetDebt, StartDebt
<1>3. WorthInv
  <2>1. \A n \in Nodes : capital[n] \in Int
    <3> SUFFICES ASSUME NEW n \in Nodes PROVE capital[n] \in Int
      OBVIOUS
    <3>1. PICK x \in Coins : capital[n] = x * Parts
      BY <1>1 DEF Cash
    <3> QED
      BY <3>1, DebtAssumption
  <2>2. capital \in [Nodes -> Int]
    BY <1>1, <2>1 DEF Cash
  <2>3. \A n \in Nodes : Worth(n) \in Int
    BY <1>1, <2>2, WorthInt DEF Worth, GetDebt
  <2>4. \A n \in Nodes : Worth(n) <= Positive(StartWorth(n))
    BY <1>2, <2>3 DEF Positive
  <2> QED
    BY <1>1, <1>2, <2>4 DEF WorthInv
<1>4. \A n \in Nodes : capital[n] \in Int
  BY <1>1, <1>3, StartIs
<1>5. capital \in [Nodes -> Int]
  BY <1>1, <1>4 DEF Cash
<1>6. NestInv
  BY <1>1 DEF NestInv
<1> QED
  BY <1>3, <1>5, <1>6

LEMMA StartKept ==
  ASSUME UNCHANGED start
  PROVE  \A n \in Nodes : StartDebt(n)' = StartDebt(n) /\ StartWorth(n)' = StartWorth(n)
BY DEF StartDebt, StartWorth

LEMMA ReturnWorth == ASSUME Books, WorthInv, Return PROVE WorthInv'
<1>1. /\ phase = "down" /\ phase' = IF calls = <<>> THEN "done" ELSE "up"
      /\ UNCHANGED <<capital, sheet, calls, start>>
  BY DEF Return
<1>2. \A n \in Nodes : StartDebt(n)' = StartDebt(n) /\ StartWorth(n)' = StartWorth(n)
  BY <1>1, StartKept
<1>3. \A n \in Nodes : Worth(n)' = Worth(n)
  BY <1>1 DEF Worth, GetDebt
<1>4. phase' = "done" => \A n \in Nodes : capital'[n] >= 0
  <2> SUFFICES ASSUME phase' = "done", NEW n \in Nodes PROVE capital'[n] >= 0
    OBVIOUS
  <2>1. capital' = start.capital
    BY <1>1 DEF WorthInv
  <2> QED
    BY <2>1, StartIs
<1> QED
  BY <1>1, <1>2, <1>3, <1>4 DEF WorthInv

LEMMA DescendWorth == ASSUME Books, WorthInv, Descend PROVE WorthInv'
<1> DEFINE pos == PositiveNodes(net)
           c == [pos |-> pos, neg |-> net \ pos]
<1>1. /\ phase = "down" /\ pos \in SUBSET net /\ net \in SUBSET Nodes
      /\ RepayAll(pos, net) /\ calls' = Append(calls, c) /\ phase' \in {"down", "up"}
      /\ UNCHANGED start
  BY DEF Descend, PositiveNodes, Books, DebtInv
<1>2. \A n \in Nodes : StartDebt(n)' = StartDebt(n) /\ StartWorth(n)' = StartWorth(n)
  BY <1>1, StartKept
<1>3. \A n \in Nodes : Worth(n)' = Worth(n)
  BY <1>1, RepayWorth DEF Books
<1>4. calls \in Seq(CallRecord) /\ c \in CallRecord
  BY <1>1 DEF Books, DebtInv, CallRecord
<1>5. c.neg = net \ pos
  OBVIOUS
<1> HIDE DEF c
<1>6. calls' # <<>> /\ calls'[1] = IF calls = <<>> THEN c ELSE calls[1]
  BY <1>1, <1>4
<1>7. calls'[1].neg = {n \in Nodes : StartDebt(n) >= 0}
  <2>1. CASE calls = <<>>
    <3>1. net = Nodes /\ sheet = start.sheet
      BY <1>1, <2>1 DEF Books, NestInv, WorthInv
    <3>2. \A n \in Nodes : GetDebt(n, net) = StartDebt(n) /\ StartDebt(n) \in Int
      BY <3>1, StartIs DEF GetDebt, StartDebt
    <3>3. net \ pos = {n \in Nodes : StartDebt(n) >= 0}
      BY <3>1, <3>2 DEF PositiveNodes
    <3> QED
      BY <1>5, <1>6, <2>1, <3>3
  <2>2. CASE calls # <<>>
    BY <1>6, <2>2 DEF WorthInv
  <2> QED
    BY <2>1, <2>2
<1>8. {n \in Nodes : StartDebt(n) >= 0}' = {n \in Nodes : StartDebt(n) >= 0}
  BY <1>2
<1> QED
  BY <1>1, <1>2, <1>3, <1>6, <1>7, <1>8 DEF WorthInv

LEMMA AscendWorth == ASSUME Books, WorthInv, Ascend PROVE WorthInv'
<1>1. /\ calls # <<>> /\ phase' = IF Len(calls) = 1 THEN "done" ELSE "up"
      /\ UNCHANGED start
  BY AscendIs DEF Ascend
<1>2. \A n \in Nodes : StartDebt(n)' = StartDebt(n) /\ StartWorth(n)' = StartWorth(n)
  BY <1>1, StartKept
<1>3. \A n \in Nodes : n \in Top.pos \/ n \in Top.neg \/ n \in Nodes \ Net
  BY <1>1, TopSheets
<1>4. Top.neg \subseteq Nodes
  BY <1>1, TopSheets
<1>5. ASSUME \A n \in Nodes : StartWorth(n) >= 0
      PROVE  \A n \in Nodes : Worth(n)' = StartWorth(n)
  <2>1. \A n \in Nodes : Worth(n) = StartWorth(n)
    BY <1>5 DEF WorthInv
  <2>2. Broke = {}
    <3> SUFFICES ASSUME NEW n \in Broke PROVE FALSE
      OBVIOUS
    <3>1. n \in Top.neg /\ n \in Nodes
      BY <1>4 DEF Broke
    <3>2. Worth(n) < 0
      BY <3>1, AscendNegWorth
    <3>3. StartWorth(n) \in Int /\ StartWorth(n) >= 0 /\ Worth(n) = StartWorth(n)
      BY <1>5, <2>1, <3>1, StartIs
    <3> QED
      BY <3>2, <3>3
  <2>3. ASSUME NEW n \in Nodes PROVE Worth(n)' = Worth(n)
    <3>1. CASE n \in Top.pos
      BY <2>2, <3>1, AscendPos
    <3>2. CASE n \in Top.neg
      BY <2>2, <3>2, AscendNegWorth
    <3>3. CASE n \in Nodes \ Net
      BY <3>3, AscendOut
    <3> QED
      BY <1>3, <3>1, <3>2, <3>3
  <2> QED
    BY <2>1, <2>3
<1>6. ASSUME NEW n \in Nodes
      PROVE  Worth(n)' <= Positive(StartWorth(n))
  <2>1. Worth(n) <= Positive(StartWorth(n))
    BY DEF WorthInv
  <2>2. Positive(StartWorth(n)) \in Nat
    BY StartIs
  <2>3. Worth(n) \in Int /\ Worth(n)' \in Int
    <3>1. /\ capital \in [Nodes -> Int] /\ capital' \in [Nodes -> Int]
          /\ sheet \in [Nodes -> [Nodes -> Int]] /\ sheet' \in [Nodes -> [Nodes -> Int]]
      BY AscendTypes, AscendIs DEF Books, DebtInv, Erases
    <3> QED
      BY <3>1, WorthInt DEF Worth, GetDebt
  <2>4. CASE n \in Top.pos
    <3>1. Worth(n)' <= Worth(n)
      BY <2>4, AscendPos
    <3> QED
      BY <2>1, <2>2, <2>3, <3>1
  <2>5. CASE n \in Top.neg
    <3>1. Worth(n)' = Worth(n) \/ Worth(n)' <= 0
      BY <2>5, AscendNegWorth
    <3> QED
      BY <2>1, <2>2, <2>3, <3>1
  <2>6. CASE n \in Nodes \ Net
    <3>1. Worth(n)' = Worth(n)
      BY <2>6, AscendOut
    <3> QED
      BY <2>1, <3>1
  <2> QED
    BY <1>3, <2>4, <2>5, <2>6
<1>7. calls[1].neg = {n \in Nodes : StartDebt(n) >= 0}
  BY <1>1 DEF WorthInv
<1>8. ASSUME phase' = "done", NEW n \in Nodes, StartDebt(n) >= 0
      PROVE  capital'[n] >= 0
  <2>1. Len(calls) = 1
    BY <1>1, <1>8
  <2>2. n \in Top.neg
    BY <1>7, <1>8, <2>1 DEF Top, Last
  <2> QED
    BY <2>2, AscendNegWorth
<1>9. calls' # <<>> => calls'[1] = calls[1]
  <2>1. calls' \in Seq(CallRecord) /\ Len(calls') = Len(calls) - 1
    BY AscendCalls DEF Books
  <2>2. calls \in Seq(CallRecord) /\ calls' = SubSeq(calls, 1, Len(calls) - 1)
    BY DEF Books, DebtInv, CallRecord, Ascend, Front
  <2> QED
    BY <2>1, <2>2
<1>10. {n \in Nodes : StartDebt(n) >= 0}' = {n \in Nodes : StartDebt(n) >= 0}
  BY <1>2
<1>11. phase' # "down"
  BY <1>1
<1> QED
  BY <1>1, <1>2, <1>5, <1>6, <1>7, <1>8, <1>9, <1>10, <1>11 DEF WorthInv


\* The inductive invariant of the settlement.
DebtBooks == Books /\ WorthInv

\* operator() of DebtLiquidation: at every depth of the recursion, for every net and
\* whatever the cash, the calls are nested, a net that is left is balanced, and
\* the worth of a node changes only if somebody cannot pay.
THEOREM DebtWorthInvariant == Spec => []DebtBooks
<1>1. Init => DebtBooks
  BY InitDebt, InitWorth DEF DebtBooks, Books
<1>2. DebtBooks /\ [Next]_vars => DebtBooks'
  <2> SUFFICES ASSUME DebtBooks, [Next]_vars PROVE DebtBooks'
    OBVIOUS
  <2> USE DEF DebtBooks
  <2>1. CASE Return
    <3>1. DebtInv' /\ NestInv' /\ WorthInv'
      BY <2>1, ReturnKeeps, ReturnNest, ReturnWorth DEF Books
    <3>2. capital' \in [Nodes -> Int]
      BY <2>1 DEF Return, Books
    <3> QED
      BY <3>1, <3>2 DEF Books
  <2>2. CASE Descend
    <3>1. DebtInv' /\ NestInv' /\ WorthInv'
      BY <2>2, DescendKeeps, DescendNest, DescendWorth DEF Books
    <3>2. capital' \in [Nodes -> Int]
      <4>1. /\ PositiveNodes(net) \in SUBSET net /\ net \in SUBSET Nodes
            /\ RepayAll(PositiveNodes(net), net)
        BY <2>2 DEF Descend, PositiveNodes, Books, DebtInv
      <4> QED
        BY <4>1, RepayWorth DEF Books
    <3> QED
      BY <3>1, <3>2 DEF Books
  <2>3. CASE Ascend
    BY <2>3, AscendKeeps, AscendNest, AscendWorth, AscendTypes DEF Books
  <2>4. CASE UNCHANGED vars
    <3>1. UNCHANGED <<capital, sheet, calls, net, phase, start>>
      BY <2>4 DEF vars
    <3>2. DebtInv'
      BY <3>1 DEF Books, DebtInv
    <3>3. NestInv'
      BY <3>1 DEF Books, NestInv, Nested
    <3>4. WorthInv'
      <4>1. \A n \in Nodes : /\ StartDebt(n)' = StartDebt(n)
                             /\ StartWorth(n)' = StartWorth(n) /\ Worth(n)' = Worth(n)
        BY <3>1 DEF StartDebt, StartWorth, Worth, GetDebt
      <4> QED
        BY <3>1, <4>1 DEF WorthInv
    <3> QED
      BY <3>1, <3>2, <3>3, <3>4 DEF Books
  <2> QED
    BY <2>1, <2>2, <2>3, <2>4 DEF Next
<1> QED
  BY <1>1, <1>2, PTL DEF Spec

\* When the settlement is over, what a node has is what it is worth.
LEMMA DoneIs ==
  ASSUME DebtBooks, phase = "done", NEW n \in Nodes
  PROVE  /\ StartDebt(n) \in Int /\ capital[n] \in Int /\ StartWorth(n) \in Int
         /\ Worth(n) = capital[n]
<1>1. GetDebt(n, Nodes) = 0 /\ Parts \in Int
  BY DebtAssumption DEF DebtBooks, Books, NestInv, Balanced, GetDebt
<1>2. capital[n] \in Int /\ StartDebt(n) \in Int /\ StartWorth(n) \in Int
  BY StartIs DEF DebtBooks, Books
<1> QED
  BY <1>1, <1>2 DEF Worth

\* operator() against the reference: if every node can pay its net debt, everybody
\* ends with their cash less their net debt, in every net.
THEOREM DebtSolventSettle == Spec => []SolventNetsSettle
<1>1. DebtBooks => SolventNetsSettle
  <2> SUFFICES ASSUME DebtBooks, phase = "done",
                      \A x \in Nodes : StartWorth(x) >= 0,
                      NEW n \in Nodes
               PROVE  capital[n] = StartWorth(n)
    BY DEF SolventNetsSettle
  <2>1. Worth(n) = StartWorth(n)
    BY DEF DebtBooks, WorthInv
  <2>2. Worth(n) = capital[n]
    BY DoneIs
  <2> QED
    BY <2>1, <2>2
<1> QED
  BY <1>1, DebtWorthInvariant, PTL

\* Nobody ends with more than their cash less their net debt, creditor or debtor, and a
\* net debtor is never overdrawn, in every net and whoever fails.
THEOREM DebtNobodyOverpaid == Spec => []NobodyOverpaid
<1>1. DebtBooks => NobodyOverpaid
  <2> SUFFICES ASSUME DebtBooks, phase = "done", NEW n \in Nodes
               PROVE  /\ capital[n] <= Positive(StartWorth(n))
                      /\ StartDebt(n) >= 0 => capital[n] >= 0
    BY DEF NobodyOverpaid
  <2>1. Worth(n) = capital[n]
    BY DoneIs
  <2>2. Worth(n) <= Positive(StartWorth(n)) /\ (StartDebt(n) >= 0 => capital[n] >= 0)
    BY DEF DebtBooks, WorthInv
  <2> QED
    BY <2>1, <2>2
<1> QED
  BY <1>1, DebtWorthInvariant, PTL

\* The state keeps its types.  The steps only erase entries, so a debt never grows
\* beyond its bound.
THEOREM DebtTypeOK == Spec => []TypeOK
<1> DEFINE Bounded == /\ \A n, m \in Nodes : sheet[n][m] \in -MaxDebt .. MaxDebt
                      /\ phase \in {"down", "up", "done"} /\ created \in BOOLEAN
<1>1. Init => Bounded
  <2> SUFFICES ASSUME Init PROVE Bounded
    OBVIOUS
  <2>1. PICK debt \in [Pairs -> -MaxDebt .. MaxDebt] : sheet = SheetOf(debt)
    BY DEF Init
  <2>2. ASSUME NEW n \in Nodes, NEW m \in Nodes
        PROVE  sheet[n][m] \in -MaxDebt .. MaxDebt
    <3>1. n \in Int /\ m \in Int /\ MaxDebt \in Nat
      BY DebtAssumption
    <3>2. sheet[n][m] = IF n < m THEN debt[<<n, m>>]
                        ELSE IF m < n THEN - debt[<<m, n>>] ELSE 0
      BY <2>1 DEF SheetOf
    <3>3. n < m => <<n, m>> \in Pairs
      BY DEF Pairs
    <3>4. m < n => <<m, n>> \in Pairs
      BY DEF Pairs
    <3>5. n < m => debt[<<n, m>>] \in -MaxDebt .. MaxDebt
      BY <3>3
    <3>6. m < n => debt[<<m, n>>] \in -MaxDebt .. MaxDebt
      BY <3>4
    <3>7. \A x \in -MaxDebt .. MaxDebt : - x \in -MaxDebt .. MaxDebt
      BY <3>1
    <3>8. 0 \in -MaxDebt .. MaxDebt
      BY <3>1
    <3> QED
      BY <3>2, <3>5, <3>6, <3>7, <3>8
  <2> QED
    BY <2>2 DEF Init
<1>2. DebtBooks /\ Bounded /\ [Next]_vars => Bounded'
  <2> SUFFICES ASSUME DebtBooks, Bounded, [Next]_vars PROVE Bounded'
    OBVIOUS
  <2>1. ASSUME Erases
        PROVE  \A n, m \in Nodes : sheet'[n][m] \in -MaxDebt .. MaxDebt
    <3> SUFFICES ASSUME NEW n \in Nodes, NEW m \in Nodes
                 PROVE  sheet'[n][m] \in -MaxDebt .. MaxDebt
      OBVIOUS
    <3>1. sheet'[n][m] = 0 \/ sheet'[n][m] = sheet[n][m]
      BY <2>1 DEF Erases
    <3>2. 0 \in -MaxDebt .. MaxDebt
      BY DebtAssumption
    <3> QED
      BY <3>1, <3>2
  <2>2. CASE Return
    BY <2>2 DEF Return
  <2>3. CASE Descend
    <3>1. Erases
      BY <2>3, RepayAllErases DEF Descend, DebtBooks, Books
    <3> QED
      BY <2>1, <2>3, <3>1 DEF Descend
  <2>4. CASE Ascend
    <3>1. Erases
      BY <2>4, AscendIs DEF DebtBooks
    <3>2. phase' \in {"down", "up", "done"} /\ created' \in BOOLEAN
      BY <2>4 DEF Ascend
    <3> QED
      BY <2>1, <3>1, <3>2
  <2>5. CASE UNCHANGED vars
    BY <2>5 DEF vars
  <2> QED
    BY <2>2, <2>3, <2>4, <2>5 DEF Next
<1>3. DebtBooks /\ Bounded => TypeOK
  <2> SUFFICES ASSUME DebtBooks, Bounded PROVE TypeOK
    OBVIOUS
  <2>1. sheet \in [Nodes -> [Nodes -> Int]]
    BY DEF DebtBooks, Books, DebtInv
  <2>2. sheet \in [Nodes -> [Nodes -> -MaxDebt .. MaxDebt]]
    BY <2>1
  <2> QED
    BY <2>2 DEF DebtBooks, Books, DebtInv, TypeOK
<1> QED
  BY <1>1, <1>2, <1>3, DebtWorthInvariant, PTL DEF Spec


-----------------------------------------------------------------------------
(* The money *)

LEMMA TotalParts ==
  ASSUME NEW f, \A x \in Nodes : f[x] \in Int, NEW S \in SUBSET Nodes
  PROVE  /\ SumFunctionOnSet(f, S) \in Int /\ SumFunctionOnSet(f, Nodes \ S) \in Int
         /\ SumFunctionOnSet(f, Nodes)
              = SumFunctionOnSet(f, S) + SumFunctionOnSet(f, Nodes \ S)
<1>1. IsFiniteSet(Nodes) /\ S \subseteq Nodes
  BY DebtAssumption
<1> QED
  BY <1>1, SumSplit

\* Payments between the nodes of a net neither make nor destroy money.
LEMMA PaidTotal ==
  ASSUME capital \in [Nodes -> Int], NEW S \in SUBSET Nodes, NEW pay \in Payments(S)
  PROVE  Total(Paid(pay, S)) = Total(capital) /\ Total(capital) \in Int
<1> DEFINE d == [n \in S |-> [m \in S |-> pay[m][n] - pay[n][m]]]
           row == [n \in S |-> SumFunctionOnSet(d[n], S)]
           q == Paid(pay, S)
           O == Nodes \ S
<1>1. IsFiniteSet(S) /\ IsFiniteSet(Nodes) /\ O = Nodes \ S /\ S \subseteq Nodes
  BY NetFinite, DebtAssumption
<1>2. \A n, m \in S : pay[n][m] \in Int
  BY DEF Payments
<1>3. \A n, m \in S : d[n][m] = pay[m][n] - pay[n][m]
  OBVIOUS
<1>4. \A n, m \in S : d[n][m] \in Int /\ d[n][m] = - d[m][n]
  BY <1>2, <1>3
<1>5. \A n \in S : row[n] = SumFunctionOnSet(d[n], S)
  OBVIOUS
<1>6. row = [n \in S |-> SumFunctionOnSet(d[n], S)]
  OBVIOUS
<1> HIDE DEF d, row, O
<1>7. SumFunctionOnSet(row, S) = 0
  BY <1>1, <1>4, <1>6, SumSkew
<1>8. \A n \in Nodes : q[n] \in Int /\ capital[n] \in Int
  BY PaidIs
<1>9. ASSUME NEW n \in S
      PROVE  row[n] \in Int /\ q[n] = capital[n] + row[n]
  <2> DEFINE r == [m \in S |-> pay[m][n]]
  <2>1. row[n] \in Int
    BY <1>1, <1>4, <1>5, SumInt
  <2>2. \A m \in S : pay[n][m] \in Int /\ d[n][m] \in Int /\ r[m] = pay[n][m] + d[n][m]
    BY <1>2, <1>3
  <2>3. SumFunctionOnSet(r, S) = Received(pay, S, n)
    BY DEF Received
  <2> HIDE DEF r
  <2>4. SumFunctionOnSet(r, S) = SumFunctionOnSet(pay[n], S) + SumFunctionOnSet(d[n], S)
    BY <1>1, <2>2, SumPlus
  <2>5. /\ SumFunctionOnSet(pay[n], S) \in Int /\ Received(pay, S, n) \in Int
        /\ q[n] = capital[n] - SumFunctionOnSet(pay[n], S) + Received(pay, S, n)
    BY PaidIs
  <2>6. SumFunctionOnSet(d[n], S) = row[n]
    BY <1>5
  <2>7. capital[n] \in Int
    BY <1>8
  <2> HIDE DEF q
  <2>8. Received(pay, S, n) = SumFunctionOnSet(pay[n], S) + row[n]
    BY <2>3, <2>4, <2>6, Zenon
  <2> DEFINE paid == SumFunctionOnSet(pay[n], S)
             got == Received(pay, S, n)
             k == capital[n]
             w == row[n]
  <2>9. paid \in Int /\ w \in Int /\ k \in Int /\ got = paid + w /\ q[n] = k - paid + got
    BY <2>1, <2>5, <2>7, <2>8
  <2>10. q[n] = k + w
    <3> HIDE DEF paid, got, k, w
    <3> QED
      BY <2>9
  <2> QED
    BY <2>1, <2>10
<1>10. \A n \in O : q[n] = capital[n]
  BY PaidIs DEF O
<1> HIDE DEF q
<1>11. SumFunctionOnSet(q, S) = SumFunctionOnSet(capital, S) + SumFunctionOnSet(row, S)
  <2>1. \A n \in S : capital[n] \in Int
    BY <1>8
  <2> QED
    BY <1>1, <1>9, <2>1, SumPlus
<1>12. IsFiniteSet(O)
  BY <1>1, NetFinite
<1>13. SumFunctionOnSet(q, O) = SumFunctionOnSet(capital, O)
  BY <1>10, <1>12, SumSame
<1>14. /\ SumFunctionOnSet(capital, S) \in Int /\ SumFunctionOnSet(capital, O) \in Int
       /\ SumFunctionOnSet(capital, Nodes)
            = SumFunctionOnSet(capital, S) + SumFunctionOnSet(capital, O)
  <2> DEFINE k == capital
  <2>1. \A x \in Nodes : k[x] \in Int
    BY <1>8
  <2> HIDE DEF k
  <2>2. /\ SumFunctionOnSet(k, S) \in Int /\ SumFunctionOnSet(k, O) \in Int
        /\ SumFunctionOnSet(k, Nodes) = SumFunctionOnSet(k, S) + SumFunctionOnSet(k, O)
    BY <2>1, TotalParts DEF O
  <2> QED
    BY <2>2 DEF k
<1>15. SumFunctionOnSet(q, Nodes) = SumFunctionOnSet(q, S) + SumFunctionOnSet(q, O)
  BY <1>1, <1>8, SumParts
<1>16. SumFunctionOnSet(q, Nodes) = SumFunctionOnSet(capital, Nodes)
  BY <1>7, <1>11, <1>13, <1>14, <1>15
<1> QED
  BY <1>14, <1>16 DEF Total, q

\* The proportional shares of a node that cannot pay all it owes add up to no more
\* than its cash, and to its cash if no share has to be rounded.
LEMMA ShareSum ==
  ASSUME NEW c \in Int, NEW s, NEW q, NEW S, IsFiniteSet(S), \A m \in S : s[m] \in Nat,
         NEW d \in Int, d = SumFunctionOnSet(s, S), d > 0,
         \A m \in S : q[m] = (c * s[m]) \div d
  PROVE  /\ SumFunctionOnSet(q, S) \in Int /\ SumFunctionOnSet(q, S) <= c
         /\ (\A m \in S : (c * s[m]) % d = 0) => SumFunctionOnSet(q, S) = c
<1> DEFINE f == [m \in S |-> s[m] * c]
           g == [m \in S |-> q[m] * d]
<1>1. \A m \in S : s[m] \in Int /\ c * s[m] \in Int /\ f[m] = s[m] * c /\ f[m] = c * s[m]
  OBVIOUS
<1>2. \A x \in Int : /\ x \div d \in Int /\ (x \div d) * d <= x
                     /\ x % d = 0 => (x \div d) * d = x
  OBVIOUS
<1>3. \A m \in S : q[m] \in Int /\ g[m] = q[m] * d
  BY <1>1, <1>2
<1>4. ASSUME NEW m \in S
      PROVE  g[m] \in Int /\ f[m] \in Int /\ g[m] <= f[m]
  <2>1. g[m] = ((c * s[m]) \div d) * d /\ f[m] = c * s[m] /\ c * s[m] \in Int
    BY <1>1, <1>3
  <2> HIDE DEF f, g
  <2>2. q[m] * d \in Int
    BY <1>3
  <2> QED
    BY <1>2, <1>3, <2>1, <2>2
<1>5. ASSUME \A m \in S : (c * s[m]) % d = 0
      PROVE  \A m \in S : g[m] = f[m]
  <2> SUFFICES ASSUME NEW m \in S PROVE g[m] = f[m]
    OBVIOUS
  <2>1. g[m] = ((c * s[m]) \div d) * d /\ f[m] = c * s[m] /\ c * s[m] \in Int
    BY <1>1, <1>3
  <2> HIDE DEF f, g
  <2> QED
    BY <1>2, <1>5, <2>1
<1> HIDE DEF f, g
<1>6. SumFunctionOnSet(f, S) = SumFunctionOnSet(s, S) * c
  BY <1>1, SumTimes
<1>7. SumFunctionOnSet(g, S) = SumFunctionOnSet(q, S) * d
  BY <1>3, SumTimes
<1>8. SumFunctionOnSet(q, S) \in Int
  BY <1>3, SumInt
<1>9. SumFunctionOnSet(g, S) <= SumFunctionOnSet(f, S)
  BY <1>4, SumLess
<1>10. SumFunctionOnSet(q, S) * d <= c * d
  BY <1>6, <1>7, <1>9
<1>11. \A x, y \in Int : /\ x * d <= y * d => x <= y
                         /\ x * d = y * d => x = y
  OBVIOUS
<1>12. SumFunctionOnSet(q, S) <= c
  BY <1>8, <1>10, <1>11
<1>13. ASSUME \A m \in S : (c * s[m]) % d = 0
       PROVE  SumFunctionOnSet(q, S) = c
  <2>1. SumFunctionOnSet(g, S) = SumFunctionOnSet(f, S)
    BY <1>5, <1>13, SumSame
  <2>2. SumFunctionOnSet(q, S) * d = c * d
    BY <1>6, <1>7, <2>1
  <2> QED
    BY <1>8, <1>11, <2>2
<1> QED
  BY <1>8, <1>12, <1>13


\* The negative node n gets nothing and pays no more than its cash, in a net where
\* it owes something or has cash.
LEMMA AscendPays ==
  ASSUME Books, Ascend, NEW n \in Top.neg
  PROVE  /\ Paid(Shares, Net)[n] \in Int
         /\ n \notin Broke => capital'[n] = Paid(Shares, Net)[n]
         /\ n \in Broke /\ ~(capital[n] < 0 /\ Owed(n) = 0) =>
              /\ Owed(n) > 0
              /\ capital'[n] <= Paid(Shares, Net)[n]
              /\ (\A m \in Top.pos : (capital[n] * sheet[n][m]) % Owed(n) = 0)
                   => capital'[n] = Paid(Shares, Net)[n]
<1>1. calls # <<>> /\ Erases
  BY AscendIs
<1>2. /\ Shares \in Payments(Net) /\ Net \in SUBSET Nodes /\ n \in Net /\ n \in Nodes
      /\ n \notin Top.pos /\ Top.pos \subseteq Net /\ Top.pos \in SUBSET Nodes
      /\ Net \ Top.pos = Top.neg /\ Top.neg \in SUBSET Nodes
  BY <1>1, SharesIs, TopSheets
<1>3. /\ SumFunctionOnSet(Shares[n], Net) \in Int /\ Received(Shares, Net, n) \in Int
      /\ Paid(Shares, Net)[n] = capital[n] - SumFunctionOnSet(Shares[n], Net)
                                + Received(Shares, Net, n)
      /\ Paid(Shares, Net)[n] \in Int
  BY <1>2, PaidIs DEF Books
<1>4. n \notin Broke => capital'[n] = Paid(Shares, Net)[n]
  BY <1>2, AscendIs
<1>5. ASSUME n \in Broke, ~(capital[n] < 0 /\ Owed(n) = 0)
      PROVE  /\ Owed(n) > 0
             /\ capital'[n] <= Paid(Shares, Net)[n]
             /\ (\A m \in Top.pos : (capital[n] * sheet[n][m]) % Owed(n) = 0)
                  => capital'[n] = Paid(Shares, Net)[n]
  <2>1. capital'[n] = 0
    BY <1>2, <1>5, AscendIs
  <2>2. /\ Owed(n) \in Int /\ capital[n] \in Int /\ Parts \in Int /\ Parts > 0
        /\ Owed(n) * Parts > capital[n]
    BY <1>1, <1>5, OwedInt DEF Broke
  <2>3. IsFiniteSet(Net) /\ IsFiniteSet(Top.pos) /\ IsFiniteSet(Top.neg)
    BY <1>2, NetFinite
  <2>4. \A m \in Top.pos : sheet[n][m] \in Nat
    BY <1>1, <1>2, TopSheets
  <2>5. Owed(n) = SumFunctionOnSet(sheet[n], Top.pos)
    BY DEF Owed, GetDebt
  <2>6. Owed(n) >= 0
    BY <2>3, <2>4, <2>5, SumNat
  <2>7. Owed(n) > 0
    <3>1. CASE Owed(n) = 0
      <4>1. Owed(n) * Parts = 0
        BY <2>2, <3>1
      <4>2. capital[n] < 0
        BY <2>2, <4>1
      <4> QED
        BY <1>5, <3>1, <4>2
    <3> QED
      BY <2>2, <2>6, <3>1
  <2>8. Received(Shares, Net, n) = 0
    <3> DEFINE r == [m \in Net |-> Shares[m][n]]
    <3>1. \A m \in Net : r[m] = 0
      BY <1>1, <1>2, SharesIs
    <3>2. SumFunctionOnSet(r, Net) = 0
      <4> HIDE DEF r
      <4> QED
        BY <2>3, <3>1, SumZero
    <3> QED
      BY <3>2 DEF Received
  <2>9. SumFunctionOnSet(Shares[n], Net) = SumFunctionOnSet(Shares[n], Top.pos)
    <3>1. \A m \in Top.neg : Shares[n][m] = 0
      BY <1>1, <1>2, SharesIs
    <3>2. SumFunctionOnSet(Shares[n], Top.neg) = 0
      BY <2>3, <3>1, SumZero
    <3>3. \A m \in Net : Shares[n][m] \in Int
      BY <1>2 DEF Payments
    <3>4. Top.pos \subseteq Net /\ Top.neg = Net \ Top.pos
      BY <1>2
    <3>5. SumFunctionOnSet(Shares[n], Net)
            = SumFunctionOnSet(Shares[n], Top.pos) + SumFunctionOnSet(Shares[n], Top.neg)
      BY <2>3, <3>3, <3>4, SumParts, SMTT(30)
    <3>6. \A m \in Top.pos : Shares[n][m] \in Int
      BY <3>3, <3>4
    <3>7. SumFunctionOnSet(Shares[n], Top.pos) \in Int
      BY <2>3, <3>6, SumInt
    <3> QED
      BY <3>2, <3>5, <3>7
  <2>10. \A m \in Top.pos : Shares[n][m] = (capital[n] * sheet[n][m]) \div Owed(n)
    <3> SUFFICES ASSUME NEW m \in Top.pos
                 PROVE  Shares[n][m] = (capital[n] * sheet[n][m]) \div Owed(n)
      OBVIOUS
    <3>1. Shares[n][m] = Share(n, m, Owed(n))
      BY <1>1, <1>2, SharesIs
    <3>2. ~(Owed(n) * Parts <= capital[n])
      BY <2>2
    <3> QED
      BY <2>7, <3>1, <3>2 DEF Share
  <2>11. /\ SumFunctionOnSet(Shares[n], Top.pos) \in Int
         /\ SumFunctionOnSet(Shares[n], Top.pos) <= capital[n]
         /\ (\A m \in Top.pos : (capital[n] * sheet[n][m]) % Owed(n) = 0)
              => SumFunctionOnSet(Shares[n], Top.pos) = capital[n]
    <3> DEFINE k == capital[n]
               s == sheet[n]
               q == Shares[n]
               d == Owed(n)
               P == Top.pos
    <3>1. /\ k \in Int /\ d \in Int /\ d = SumFunctionOnSet(s, P) /\ d > 0 /\ IsFiniteSet(P)
          /\ (\A m \in P : s[m] \in Nat) /\ \A m \in P : q[m] = (k * s[m]) \div d
      BY <2>2, <2>3, <2>4, <2>5, <2>7, <2>10
    <3> HIDE DEF k, s, q, d, P
    <3>2. /\ SumFunctionOnSet(q, P) \in Int /\ SumFunctionOnSet(q, P) <= k
          /\ (\A m \in P : (k * s[m]) % d = 0) => SumFunctionOnSet(q, P) = k
      BY <3>1, ShareSum
    <3> QED
      BY <3>2 DEF k, s, q, d, P
  <2>12. Paid(Shares, Net)[n] = capital[n] - SumFunctionOnSet(Shares[n], Top.pos)
    BY <1>3, <2>2, <2>8, <2>9, <2>11
  <2>13. capital'[n] <= Paid(Shares, Net)[n]
    BY <2>1, <2>2, <2>11, <2>12
  <2>14. ASSUME \A m \in Top.pos : (capital[n] * sheet[n][m]) % Owed(n) = 0
         PROVE  capital'[n] = Paid(Shares, Net)[n]
    <3>1. SumFunctionOnSet(Shares[n], Top.pos) = capital[n]
      BY <2>11, <2>14
    <3> QED
      BY <2>1, <2>2, <2>12, <3>1
  <2> QED
    BY <2>7, <2>13, <2>14
<1> QED
  BY <1>3, <1>4, <1>5

LEMMA AscendTotal ==
  ASSUME Books, Ascend, ~created'
  PROVE  /\ Total(capital') \in Int
         /\ Total(capital') <= Total(capital)
         /\ ExactShares => Total(capital') = Total(capital)
<1> DEFINE q == Paid(Shares, Net)
<1>1. calls # <<>> /\ capital' \in [Nodes -> Int] /\ phase = "up"
  BY AscendIs, AscendTypes DEF Ascend
<1>2. Shares \in Payments(Net) /\ Net \in SUBSET Nodes /\ Top.neg \in SUBSET Nodes
  BY <1>1, SharesIs, TopSheets
<1>3. Total(q) = Total(capital) /\ Total(capital) \in Int
  BY <1>2, PaidTotal DEF Books
<1>4. \A n \in Nodes : q[n] \in Int /\ capital'[n] \in Int
  BY <1>1, <1>2, PaidIs DEF Books
<1>5. \A n \in Broke : ~(capital[n] < 0 /\ Owed(n) = 0)
  <2> DEFINE debt == [n \in Top.neg |-> GetDebt(n, Top.pos)]
             broke == {n \in Top.neg : debt[n] * Parts > capital[n]}
  <2>1. ~ \E n \in broke : capital[n] < 0 /\ debt[n] = 0
    BY DEF Ascend, Top
  <2>2. \A n \in Top.neg : debt[n] = Owed(n)
    BY DEF Owed
  <2> HIDE DEF debt
  <2> QED
    BY <2>1, <2>2 DEF Broke
<1>6. ASSUME NEW n \in Nodes
      PROVE  capital'[n] <= q[n] /\ (ExactShares => capital'[n] = q[n])
  <2>1. CASE n \in Broke
    <3>1. n \in Top.neg /\ Owed(n) * Parts > capital[n]
      BY <2>1 DEF Broke
    <3>2. /\ Owed(n) > 0 /\ capital'[n] <= q[n]
          /\ (\A m \in Top.pos : (capital[n] * sheet[n][m]) % Owed(n) = 0)
               => capital'[n] = q[n]
      BY <1>5, <2>1, <3>1, AscendPays
    <3>3. ExactShares => \A m \in Top.pos : (capital[n] * sheet[n][m]) % Owed(n) = 0
      BY <1>1, <3>1, <3>2 DEF ExactShares, Top, Owed
    <3> QED
      BY <3>2, <3>3
  <2>2. CASE n \notin Broke
    <3>1. capital'[n] = q[n]
      BY <2>2, AscendIs
    <3> HIDE DEF q
    <3> QED
      BY <1>4, <3>1
  <2> QED
    BY <2>1, <2>2
<1>7. IsFiniteSet(Nodes)
  BY DebtAssumption
<1> DEFINE k == capital'
<1>8. \A n \in Nodes : k[n] \in Int /\ q[n] \in Int /\ k[n] <= q[n]
  BY <1>4, <1>6
<1>9. ExactShares => \A n \in Nodes : k[n] = q[n]
  BY <1>6
<1> HIDE DEF q, k
<1>10. SumFunctionOnSet(k, Nodes) <= SumFunctionOnSet(q, Nodes)
  BY <1>7, <1>8, SumLess
<1>11. SumFunctionOnSet(k, Nodes) \in Int
  BY <1>7, <1>8, SumInt
<1>12. ExactShares => SumFunctionOnSet(k, Nodes) = SumFunctionOnSet(q, Nodes)
  BY <1>7, <1>9, SumSame
<1> QED
  BY <1>3, <1>10, <1>11, <1>12 DEF Total, k

\* What the steps do to the money.
LEMMA StepTotal ==
  ASSUME DebtBooks, [Next]_vars, ~created'
  PROVE  /\ ~created /\ start' = start
         /\ Total(capital') \in Int /\ Total(capital) \in Int
         /\ Total(capital') <= Total(capital)
         /\ ExactShares => Total(capital') = Total(capital)
<1>1. Total(capital) \in Int
  <2> DEFINE k == capital
  <2>1. IsFiniteSet(Nodes) /\ \A n \in Nodes : k[n] \in Int
    BY DebtAssumption DEF DebtBooks, Books
  <2> HIDE DEF k
  <2>2. SumFunctionOnSet(k, Nodes) \in Int
    BY <2>1, SumInt
  <2> QED
    BY <2>2 DEF Total, k
<1>2. CASE Return \/ UNCHANGED vars
  <2>1. UNCHANGED <<capital, start, created>>
    BY <1>2 DEF Return, vars
  <2> QED
    BY <1>1, <2>1
<1>3. CASE Descend
  <2> DEFINE pos == PositiveNodes(net)
  <2>1. /\ pos \in SUBSET net /\ net \in SUBSET Nodes /\ RepayAll(pos, net)
        /\ UNCHANGED <<start, created>>
    BY <1>3 DEF Descend, PositiveNodes, DebtBooks, Books, DebtInv
  <2>2. capital' = Paid(RepayMatrix(pos, net), net)
    BY <2>1 DEF RepayAll, RepayMatrix
  <2>3. RepayMatrix(pos, net) \in Payments(net)
    BY <2>1, RepayPayments DEF DebtBooks, Books
  <2>4. Total(capital') = Total(capital)
    BY <2>1, <2>2, <2>3, PaidTotal DEF DebtBooks, Books
  <2> QED
    BY <1>1, <2>1, <2>4
<1>4. CASE Ascend
  <2>1. ~created /\ start' = start
    BY <1>4 DEF Ascend
  <2> QED
    BY <1>1, <1>4, <2>1, AscendTotal DEF DebtBooks
<1> QED
  BY <1>2, <1>3, <1>4 DEF Next

\* The settlement makes no money, in every net and with any rounding of the shares
\* downwards, unless it sets an overdrawn node without debts to zero.
THEOREM DebtMoneyNotMade == Spec => []MoneyNotMade
<1>1. Init => MoneyNotMade
  <2> SUFFICES ASSUME Init PROVE Total(capital) <= Total(start.capital)
    BY DEF MoneyNotMade
  <2>1. start.capital = capital
    BY DEF Init
  <2>2. IsFiniteSet(Nodes) /\ capital \in [Nodes -> Int]
    BY InitWorth, DebtAssumption
  <2> DEFINE k == capital
  <2>3. \A n \in Nodes : k[n] \in Int
    BY <2>2
  <2> HIDE DEF k
  <2>4. SumFunctionOnSet(k, Nodes) \in Int
    BY <2>2, <2>3, SumInt
  <2> QED
    BY <2>1, <2>4 DEF Total, k
<1>2. DebtBooks /\ MoneyNotMade /\ [Next]_vars => MoneyNotMade'
  <2> SUFFICES ASSUME DebtBooks, MoneyNotMade, [Next]_vars, ~created'
               PROVE  Total(capital') <= Total(start'.capital)
    BY DEF MoneyNotMade, Total
  <2>1. /\ Total(capital) <= Total(start.capital) /\ start' = start
        /\ Total(capital') \in Int /\ Total(capital) \in Int
        /\ Total(capital') <= Total(capital)
    BY StepTotal DEF MoneyNotMade
  <2>2. Total(start.capital) \in Int
    <3> DEFINE k == start.capital
    <3>1. IsFiniteSet(Nodes) /\ \A n \in Nodes : k[n] \in Int
      BY StartIs, DebtAssumption DEF DebtBooks
    <3> HIDE DEF k
    <3>2. SumFunctionOnSet(k, Nodes) \in Int
      BY <3>1, SumInt
    <3> QED
      BY <3>2 DEF Total, k
  <2> QED
    BY <2>1, <2>2
<1> QED
  BY <1>1, <1>2, DebtWorthInvariant, PTL DEF Spec

\* The settlement keeps the money: the proportional payments of a node add up to its
\* cash, in every net and at every depth, if cash is counted finely enough for the
\* shares to be exact.
THEOREM DebtMoneyConserved == Spec /\ []ExactShares => []MoneyConserved
<1> DEFINE Kept == ~created => Total(capital) = Total(start.capital)
<1>1. Init => Kept
  BY DEF Init
<1>2. DebtBooks /\ ExactShares /\ Kept /\ [Next]_vars => Kept'
  <2> SUFFICES ASSUME DebtBooks, ExactShares, Kept, [Next]_vars, ~created'
               PROVE  Total(capital') = Total(start'.capital)
    BY DEF Total
  <2> QED
    BY StepTotal
<1>3. Kept => MoneyConserved
  BY DEF MoneyConserved
<1> QED
  BY <1>1, <1>2, <1>3, DebtWorthInvariant, PTL DEF Spec

=============================================================================
