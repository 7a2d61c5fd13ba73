--------------------------- MODULE CapitalLedger ---------------------------
(***************************************************************************)
(* What the players' capital promises to the game rooms: a room moves gold *)
(* between a player's account (`capital`) and its own holding for that     *)
(* player in single indivisible transfers that never overdraw the account, *)
(* whatever else happens to the account in between.  Whether a pledge fits *)
(* into an int is not the ledger's business: a room that cut one may       *)
(* overdraw.  CashPledge, in which every transfer is a select followed by  *)
(* a conditional update, implements this specification.                    *)
(***************************************************************************)
EXTENDS Integers

CONSTANTS Rooms,       \* venues of type GameRoom
          Players,     \* players with a row in `capital`
          DiamondNeed  \* diamonds a room charges at a time

VARIABLES gold,      \* gold[p]: the account of p
          diamond,   \* diamond[p]: the diamonds of p
          taken,     \* taken[r][p]: gold room r took from p and did not give back
          charged,   \* charged[p]: how often p was charged diamonds
          cut        \* input: where a room computes with a pledge cut to an int

ledgerVars == <<gold, diamond, taken, charged>>

LedgerInit ==
  /\ gold \in [Players -> Nat]
  /\ diamond \in [Players -> Nat]
  /\ taken = [r \in Rooms |-> [p \in Players |-> 0]]
  /\ charged = [p \in Players |-> 0]

\* Room r and player p exchange gold: what leaves the account enters the room's
\* holding and the reverse, and taking gold does not overdraw the account.
Transfer(r, p) ==
  LET n == gold[p] - gold'[p]
  IN /\ n > 0 => gold'[p] >= 0 \/ <<r, p>> \in cut
     /\ gold' = [gold EXCEPT ![p] = @ - n]
     /\ taken' = [taken EXCEPT ![r][p] = @ + n]
     /\ UNCHANGED <<diamond, charged>>

\* A room charges diamonds; they leave the player for good.
ChargeDiamond(p) ==
  /\ diamond'[p] \in Nat
  /\ diamond' = [diamond EXCEPT ![p] = @ - DiamondNeed]
  /\ charged' = [charged EXCEPT ![p] = @ + 1]
  /\ UNCHANGED <<gold, taken>>

\* Another service changes the account, and no room takes part.
OtherWriter(p) ==
  /\ gold'[p] \in Nat
  /\ gold' = [gold EXCEPT ![p] = gold'[p]]
  /\ UNCHANGED <<diamond, taken, charged>>

\* The game settles a round: what the room holds for p changes.
Settlement(r, p) ==
  /\ taken' = [taken EXCEPT ![r][p] = taken'[r][p]]
  /\ UNCHANGED <<gold, diamond, charged>>

LedgerNext ==
  \/ \E r \in Rooms, p \in Players : Transfer(r, p) \/ Settlement(r, p)
  \/ \E p \in Players : ChargeDiamond(p) \/ OtherWriter(p)

LedgerSpec == LedgerInit /\ [][LedgerNext]_ledgerVars
=============================================================================
