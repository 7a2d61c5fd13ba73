-------------------------- MODULE DebtLiquidation --------------------------
(***************************************************************************)
(* The settlement of a net of mutual debts: DebtNode and DebtLiquidation.   *)
(*                                                                         *)
(* operator() splits the nodes of its net into those with a net claim       *)
(* ("positive") and the others ("negative").  The positive ones repay all   *)
(* they owe, the debts among the negative ones are settled by a recursive   *)
(* call on a copy of that part of the net, and at last the negative ones    *)
(* pay the positive ones, in proportion if their cash is not enough.  A     *)
(* step below is what one call does before (Descend) or after (Ascend) its  *)
(* recursive call.  Sheets hold whole coins; cash, which is a double in the *)
(* code, is counted in parts of a coin that make every share exact.         *)
(***************************************************************************)
EXTENDS Integers, Sequences, FiniteSets, Functions, SequencesExt

CONSTANTS
  Nodes,      \* the nodes, numbered
  Coins,      \* cash a node may start with
  MaxDebt,    \* bound: a debt between two nodes
  Parts       \* parts of a coin

ASSUME DebtAssumption ==
  /\ Nodes \subseteq Nat /\ IsFiniteSet(Nodes)
  /\ Coins \subseteq Nat /\ MaxDebt \in Nat /\ Parts \in Nat \ {0}

VARIABLES
  capital,   \* capital[n]: DebtNode::_capital
  sheet,     \* sheet[n][m]: DebtNode::_debtSheet, what n owes m (or minus its claim)
  calls,     \* the calls in progress: their positive and negative nodes
  net,       \* nodes of the call that is about to begin
  phase,     \* "down", "up" or "done"
  start,     \* the net before the settlement
  created    \* history: an overdrawn node without debts was set to zero

vars == <<capital, sheet, calls, net, phase, start, created>>

Positive(x) == IF x > 0 THEN x ELSE 0

\* DebtNode::getDebt, of a node of a net with the nodes S.
GetDebt(n, S) == SumFunctionOnSet(sheet[n], S)

\* Cash after every node a of S has paid pay[a][b] to every node b of S.
Paid(pay, S) ==
  [n \in Nodes |->
     IF n \in S
     THEN capital[n] - SumFunctionOnSet(pay[n], S)
          + SumFunctionOnSet([m \in S |-> pay[m][n]], S)
     ELSE capital[n]]

\* The sheets without what the nodes in A and those in B owe each other.
Erase(A, B) ==
  [n \in Nodes |-> [m \in Nodes |->
     IF (n \in A /\ m \in B) \/ (n \in B /\ m \in A) THEN 0 ELSE sheet[n][m]]]

Cash == [Nodes -> {c * Parts : c \in Coins}]

Pairs == {e \in Nodes \X Nodes : e[1] < e[2]}

\* Double-entry bookkeeping: a debt of one node is the claim of another.
SheetOf(debt) ==
  [n \in Nodes |-> [m \in Nodes |->
     IF n < m THEN debt[<<n, m>>] ELSE IF m < n THEN - debt[<<m, n>>] ELSE 0]]

TypeOK ==
  /\ capital \in [Nodes -> Int]
  /\ sheet \in [Nodes -> [Nodes -> -MaxDebt .. MaxDebt]]
  /\ \A n, m \in Nodes : sheet[n][m] = - sheet[m][n]
  /\ calls \in Seq([pos : SUBSET Nodes, neg : SUBSET Nodes])
  /\ net \subseteq Nodes /\ phase \in {"down", "up", "done"}
  /\ created \in BOOLEAN

Init ==
  /\ capital \in Cash
  /\ \E debt \in [Pairs -> -MaxDebt .. MaxDebt] : sheet = SheetOf(debt)
  /\ calls = <<>> /\ net = Nodes /\ phase = "down" /\ created = FALSE
  /\ start = [capital |-> capital, sheet |-> sheet]

-----------------------------------------------------------------------------

\* Mutant of PositiveNodes: the sign of a debt the wrong way round.
PositiveDebtors(S) == {n \in S : GetDebt(n, S) > 0}

PositiveNodes(S) == {n \in S : GetDebt(n, S) < 0}

\* Mutants of RepayAll: the creditor's sheet keeps the claim, and both sheets do.
RepayAllOneSided(A, S) ==
  /\ capital' = Paid([n \in S |-> [m \in S |->
                        IF n \in A THEN Positive(sheet[n][m]) * Parts ELSE 0]], S)
  /\ sheet' = [n \in Nodes |-> [m \in Nodes |->
                 IF n \in A /\ m \in S /\ sheet[n][m] > 0 THEN 0 ELSE sheet[n][m]]]

RepayAllKeeps(A, S) ==
  /\ capital' = Paid([n \in S |-> [m \in S |->
                        IF n \in A THEN Positive(sheet[n][m]) * Parts ELSE 0]], S)
  /\ UNCHANGED sheet

\* repayAll by the nodes in A of a net S, each debt in full, whatever the cash.
RepayAll(A, S) ==
  /\ capital' = Paid([n \in S |-> [m \in S |->
                        IF n \in A THEN Positive(sheet[n][m]) * Parts ELSE 0]], S)
  /\ sheet' = [n \in Nodes |-> [m \in Nodes |->
                 IF \/ n \in A /\ m \in S /\ sheet[n][m] > 0
                    \/ m \in A /\ n \in S /\ sheet[m][n] > 0
                 THEN 0 ELSE sheet[n][m]]]

\* The call returns at once if no node has a net claim.
Return ==
  /\ phase = "down" /\ PositiveNodes(net) = {}
  /\ phase' = IF calls = <<>> THEN "done" ELSE "up"
  /\ UNCHANGED <<capital, sheet, calls, net, start, created>>

\* operator() up to the recursive call, which is left out if there are no debts
\* among the negative nodes.
Descend ==
  LET pos == PositiveNodes(net)
      neg == net \ pos
  IN
  /\ phase = "down" /\ pos # {}
  /\ RepayAll(pos, net)
  /\ calls' = Append(calls, [pos |-> pos, neg |-> neg])
  /\ net' = neg
  /\ phase' = IF \E n, m \in neg : sheet[n][m] # 0 THEN "down" ELSE "up"
  /\ UNCHANGED <<start, created>>

\* Mutants of Share: not divided by the debt, and all the cash whatever the debt.
ShareUndivided(n, m, debt) ==
  IF debt * Parts <= capital[n] THEN Positive(sheet[n][m]) * Parts
  ELSE IF debt > 0 THEN capital[n] * sheet[n][m]
  ELSE 0

ShareAlways(n, m, debt) ==
  IF debt > 0 THEN (capital[n] * sheet[n][m]) \div debt ELSE 0

\* What the negative node n pays the positive node m: all of it, or its share.
Share(n, m, debt) ==
  IF debt * Parts <= capital[n] THEN Positive(sheet[n][m]) * Parts
  ELSE IF debt > 0 THEN (capital[n] * sheet[n][m]) \div debt
  ELSE 0

\* operator() after the recursive call: the debts among the negative nodes are
\* erased, and each of them pays the positive ones.
Ascend ==
  LET c == Last(calls)
      S == c.pos \cup c.neg
      debt == [n \in c.neg |-> GetDebt(n, c.pos)]
      pay == [n \in S |-> [m \in S |->
                IF n \in c.neg /\ m \in c.pos THEN Share(n, m, debt[n]) ELSE 0]]
      broke == {n \in c.neg : debt[n] * Parts > capital[n]}
  IN
  /\ phase = "up"
  /\ capital' = [n \in Nodes |-> IF n \in broke THEN 0 ELSE Paid(pay, S)[n]]
  /\ sheet' = Erase(c.neg, S)
  /\ created' = (created \/ \E n \in broke : capital[n] < 0 /\ debt[n] = 0)
  /\ calls' = Front(calls) /\ net' = S
  /\ phase' = IF Len(calls) = 1 THEN "done" ELSE "up"
  /\ UNCHANGED start

Next == Return \/ Descend \/ Ascend

Spec == Init /\ [][Next]_vars /\ WF_vars(Next)

-----------------------------------------------------------------------------
(* Properties *)

\* By the sheets d, the positive nodes of the call c owe nothing in its net.
OneWay(c, d) ==
  \A n \in c.pos : /\ \A m \in c.pos : d[n][m] = 0
                   /\ \A m \in c.neg : d[n][m] <= 0

\* The inductive invariant behind OneWayDebts.
DebtInv ==
  /\ sheet \in [Nodes -> [Nodes -> Int]]
  /\ \A n, m \in Nodes : sheet[n][m] = - sheet[m][n]
  /\ calls \in Seq([pos : SUBSET Nodes, neg : SUBSET Nodes])
  /\ net \subseteq Nodes
  /\ phase = "up" => calls # <<>>
  /\ \A i \in 1 .. Len(calls) : OneWay(calls[i], sheet)

Total(cash) == SumFunctionOnSet(cash, Nodes)
StartDebt(n) == SumFunctionOnSet(start.sheet[n], Nodes)
\* What n would have if everybody could pay.
StartWorth(n) == start.capital[n] - StartDebt(n) * Parts

\* What the comment before the last loop of operator() claims for the recursion at
\* any depth: when the recursive call is over, a positive node owes nothing to a
\* node of the net, and a negative one has no claim on a positive one.
OneWayDebts == phase = "up" => OneWay(Last(calls), sheet)

\* The settlement neither makes nor destroys money: the proportional payments of a
\* node add up to its cash, at every depth.  The exception is a node without
\* debts that an earlier step of the recursion has overdrawn.
MoneyConserved ==
  phase = "done" /\ ~created => Total(capital) = Total(start.capital)

\* The reference: if every node can pay its net debt, then everybody ends with
\* their cash less their net debt, however the debts are chained and circular.
SolventNetsSettle ==
  phase = "done" /\ (\A n \in Nodes : StartWorth(n) >= 0)
    => \A n \in Nodes : capital[n] = StartWorth(n)

\* Nobody gains from the failure of others, creditors and debtors alike: no node ends
\* with more than its cash less its net debt.  A net debtor is never overdrawn, so one
\* that cannot pay ends with nothing, whatever it gets at any depth.
NobodyOverpaid ==
  phase = "done" =>
    \A n \in Nodes :
      /\ capital[n] <= Positive(StartWorth(n))
      /\ StartDebt(n) >= 0 => capital[n] >= 0

\* The invariants behind the two properties above.

\* What node n has when all debts are paid.
Worth(n) == capital[n] - GetDebt(n, Nodes) * Parts

NetOf(c) == c.pos \cup c.neg

\* The net of a call is the negative part of the one around it, and its nodes may
\* owe something to those outside but have no claims on them.
Nested(i) ==
  LET S == NetOf(calls[i])
  IN /\ calls[i].pos \cap calls[i].neg = {}
     /\ S = IF i = 1 THEN Nodes ELSE calls[i - 1].neg
     /\ \A n \in S, m \in Nodes \ S : sheet[n][m] >= 0

\* By the sheets d, nobody in a net with the nodes S owes anything on balance.
Balanced(S, d) == \A n \in S : SumFunctionOnSet(d[n], S) = 0

\* A net that has been settled may have circular debts left, but no balances.
NestInv ==
  /\ \A i \in 1 .. Len(calls) : Nested(i)
  /\ phase = "down" => net = IF calls = <<>> THEN Nodes ELSE Last(calls).neg
  /\ phase = "up" => Balanced(Last(calls).neg, sheet)
  /\ phase = "done" => calls = <<>> /\ Balanced(Nodes, sheet)

\* A step changes the worth of a node only if somebody cannot pay.  Nobody gains by
\* it, but for a node that is let off what it could never have paid.
WorthInv ==
  /\ start \in [capital : Cash, sheet : [Nodes -> [Nodes -> Int]]]
  /\ calls = <<>> /\ phase = "down" => capital = start.capital /\ sheet = start.sheet
  /\ calls # <<>> => calls[1].neg = {n \in Nodes : StartDebt(n) >= 0}
  /\ (\A n \in Nodes : StartWorth(n) >= 0) => \A n \in Nodes : Worth(n) = StartWorth(n)
  /\ \A n \in Nodes : Worth(n) <= Positive(StartWorth(n))
  /\ phase = "done" => \A n \in Nodes : StartDebt(n) >= 0 => capital[n] >= 0

\* With any number of parts to a coin, no money is made by the rounding of shares.
MoneyNotMade == ~created => Total(capital) <= Total(start.capital)

\* Parts is such that no share of a node that cannot pay all is rounded.
ExactShares ==
  phase = "up" =>
    LET c == Last(calls)
    IN \A n \in c.neg, m \in c.pos :
         LET debt == GetDebt(n, c.pos)
         IN debt > 0 /\ debt * Parts > capital[n] => (capital[n] * sheet[n][m]) % debt = 0

\* The recursion ends, and then nobody owes anything on balance.
Settles == <>(phase = "done" /\ \A n \in Nodes : GetDebt(n, Nodes) = 0)
=============================================================================
