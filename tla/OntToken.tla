----------------------------- MODULE OntToken -----------------------------
(***************************************************************************)
(* The ONT and ONG contracts: balances, allowances, and the ONG unbound    *)
(* from ONT over time, which the ONT contract grants as an allowance on    *)
(* its own ONG whenever a balance changes.  The governance contract stakes *)
(* ONT of others and pays them, out of its one allowance, the ONG their    *)
(* stakes have unbound.  A value of 0 changes nothing and is left out.     *)
(***************************************************************************)
EXTENDS Integers, FiniteSets, FiniteSetsExt

CONSTANTS
  TokenUsers,                \* addresses of users
  Bookkeepers,          \* the user the genesis block gives the supply to
  Spenders,             \* the users others approve
  OntContract, GovContract,
  TokenValues,               \* amounts a call may name
  ONT_TOTAL_SUPPLY,
  UNBOUND_TIME_INTERVAL,
  UNBOUND_GENERATION_AMOUNT,    \* ONG per ONT and unit of time, by interval
  BlockTimes, MaxTokenCalls      \* bounds of the exploration

ASSUME TokenAssumption ==
  /\ Bookkeepers \in TokenUsers /\ Spenders \subseteq TokenUsers
  /\ OntContract \notin TokenUsers /\ GovContract \notin TokenUsers
  /\ BlockTimes \subseteq Nat /\ 0 \in BlockTimes
  /\ ONT_TOTAL_SUPPLY \in Nat /\ UNBOUND_TIME_INTERVAL \in Nat \ {0}

VARIABLES
  tokNow,                  \* block time since the genesis block's
  ontSupply, ongSupply, \* the stored total supplies, 0 before the genesis calls
  ontBalance, ongBalance,       \* address -> amount
  ontApproved, ongApproved,     \* owner -> spender -> amount
  unboundOffset,        \* address -> time up to which its ONG was granted
  stakeRecord,          \* TokenUsers -> [Stake, TimeOffset]
  penaltyRecord,        \* [Stake, TimeOffset, Amount], of one peer
  tokCalls                 \* calls so far, for the bound MaxTokenCalls

tokenVars == <<tokNow, ontSupply, ongSupply, ontBalance, ongBalance, ontApproved, ongApproved,
               unboundOffset, stakeRecord, penaltyRecord, tokCalls>>

Addresses == TokenUsers \cup {OntContract, GovContract}
TokenCall == tokCalls < MaxTokenCalls /\ tokCalls' = tokCalls + 1
ZeroEach == [a \in Addresses |-> 0]
TotalOf(f) == MapThenSumSet(LAMBDA a : f[a], DOMAIN f)

-----------------------------------------------------------------------------
(* Unbinding *)

numInterval == Cardinality(DOMAIN UNBOUND_GENERATION_AMOUNT)

\* The time at which every ONT has unbound ONT_TOTAL_SUPPLY units of ONG.
UNBOUND_DEADLINE ==
  LET count == TotalOf(UNBOUND_GENERATION_AMOUNT) * UNBOUND_TIME_INTERVAL
  IN UNBOUND_TIME_INTERVAL * numInterval - (count - ONT_TOTAL_SUPPLY)

ASSUME CompatibleConstants ==
  LET count == TotalOf(UNBOUND_GENERATION_AMOUNT) * UNBOUND_TIME_INTERVAL
  IN /\ UNBOUND_GENERATION_AMOUNT[numInterval] = 1
     /\ count - UNBOUND_TIME_INTERVAL < ONT_TOTAL_SUPPLY /\ ONT_TOTAL_SUPPLY <= count

ONG_TOTAL_SUPPLY == ONT_TOTAL_SUPPLY * ONT_TOTAL_SUPPLY

\* Whole intervals, the first from its offset on, and a part of the last.
CalcUnbindOng(balance, startOffset, endOffset) ==
  LET end    == IF endOffset >= UNBOUND_DEADLINE THEN UNBOUND_DEADLINE ELSE endOffset
      ustart == startOffset \div UNBOUND_TIME_INTERVAL
      uend   == end \div UNBOUND_TIME_INTERVAL
      from(u) == IF u = ustart THEN startOffset % UNBOUND_TIME_INTERVAL ELSE 0
      to(u)   == IF u = uend THEN end % UNBOUND_TIME_INTERVAL ELSE UNBOUND_TIME_INTERVAL
      part(u) == IF to(u) = from(u) THEN 0
                 ELSE (to(u) - from(u)) * UNBOUND_GENERATION_AMOUNT[u + 1]
  IN IF startOffset >= endOffset \/ startOffset >= UNBOUND_DEADLINE THEN 0
     ELSE balance * MapThenSumSet(part, ustart..uend)

\* Mutant: the time of the grant is not recorded when the balance was 0.
grantOngKeepsOffset(g, a, balance) ==
  IF tokNow = 0 \/ tokNow = g.offset[a] \/ balance = 0 THEN g
  ELSE [g EXCEPT !.offset[a] = tokNow,
                 !.approved[OntContract][a] = @ + CalcUnbindOng(balance, g.offset[a], tokNow)]

\* grantOng with getApproveArgs: the allowance grows by what `balance` unbound
\* since the last grant.  g is the pair of stores it changes.
grantOng(g, a, balance) ==
  IF tokNow = 0 \/ tokNow = g.offset[a] THEN g
  ELSE [g EXCEPT !.offset[a] = tokNow,
                 !.approved[OntContract][a] =
                    @ + (IF balance = 0 THEN 0 ELSE CalcUnbindOng(balance, g.offset[a], tokNow))]

Grants == [offset |-> unboundOffset, approved |-> ongApproved]

-----------------------------------------------------------------------------
(* Transfers, on either token's balances *)

\* fromTransfer, then toTransfer, which reads after the debit.
Debited(balance, from, value) == [balance EXCEPT ![from] = @ - value]
Transferred(balance, from, to, value) == [Debited(balance, from, value) EXCEPT ![to] = @ + value]

\* The grants of an ONT transfer, on the balances before it; `to` counts as debited
\* when the owner pays itself.
GrantBoth(g, from, to, value) ==
  grantOng(grantOng(g, from, ontBalance[from]), to, Debited(ontBalance, from, value)[to])

SaveGrants(g) == unboundOffset' = g.offset /\ ongApproved' = g.approved

\* fromApprove
Spent(approved, from, sender, value) == [approved EXCEPT ![from][sender] = @ - value]

\* Transfer and its checks, by the owner.
MoveOnt(from, to, value) ==
  /\ value \in 1..ONT_TOTAL_SUPPLY /\ ontBalance[from] >= value
  /\ ontBalance' = Transferred(ontBalance, from, to, value)

OntTransfer(from, to, value) ==
  /\ TokenCall
  /\ MoveOnt(from, to, value)
  /\ SaveGrants(GrantBoth(Grants, from, to, value))
  /\ UNCHANGED <<tokNow, ontSupply, ongSupply, ongBalance, ontApproved, stakeRecord, penaltyRecord>>

OntTransferFrom(sender, from, to, value) ==
  /\ TokenCall
  /\ ontApproved[from][sender] >= value
  /\ ontApproved' = Spent(ontApproved, from, sender, value)
  /\ MoveOnt(from, to, value)
  /\ SaveGrants(GrantBoth(Grants, from, to, value))
  /\ UNCHANGED <<tokNow, ontSupply, ongSupply, ongBalance, stakeRecord, penaltyRecord>>

\* An approval replaces the one before.
OntApprove(from, to, value) ==
  /\ TokenCall
  /\ value <= ONT_TOTAL_SUPPLY
  /\ ontApproved' = [ontApproved EXCEPT ![from][to] = value]
  /\ UNCHANGED <<tokNow, ontSupply, ongSupply, ontBalance, ongBalance, ongApproved, unboundOffset,
                 stakeRecord, penaltyRecord>>

OngTransfer(from, to, value) ==
  /\ TokenCall
  /\ value \in 1..ONG_TOTAL_SUPPLY /\ ongBalance[from] >= value
  /\ ongBalance' = Transferred(ongBalance, from, to, value)
  /\ UNCHANGED <<tokNow, ontSupply, ongSupply, ontBalance, ontApproved, ongApproved, unboundOffset,
                 stakeRecord, penaltyRecord>>

OngApprove(from, to, value) ==
  /\ TokenCall
  /\ value <= ONG_TOTAL_SUPPLY
  /\ ongApproved' = [ongApproved EXCEPT ![from][to] = value]
  /\ UNCHANGED <<tokNow, ontSupply, ongSupply, ontBalance, ongBalance, ontApproved, unboundOffset,
                 stakeRecord, penaltyRecord>>

OngTransferFrom(sender, from, to, value) ==
  /\ TokenCall
  /\ value \in 1..ONG_TOTAL_SUPPLY
  /\ ongApproved[from][sender] >= value /\ ongBalance[from] >= value
  /\ ongApproved' = Spent(ongApproved, from, sender, value)
  /\ ongBalance' = Transferred(ongBalance, from, to, value)
  /\ UNCHANGED <<tokNow, ontSupply, ongSupply, ontBalance, ontApproved, unboundOffset,
                 stakeRecord, penaltyRecord>>

-----------------------------------------------------------------------------
(* What governance does with ONT and ONG *)

\* appCallTransferFromOng(governance, ONT contract, to, amount) after the grants g.
PayUnbound(g, to, amount) ==
  /\ g.approved[OntContract][GovContract] >= amount
  /\ SaveGrants([g EXCEPT !.approved[OntContract][GovContract] = @ - amount])
  /\ ongBalance[OntContract] >= amount
  /\ ongBalance' = Transferred(ongBalance, OntContract, to, amount)

ClaimOf(r) == CalcUnbindOng(r.Stake, r.TimeOffset, tokNow)

\* RegisterCandidate, AuthorizeForPeer and AddInitPos: ONT in, depositTotalStake.
depositTotalStake(a, value) ==
  /\ TokenCall
  /\ MoveOnt(a, GovContract, value)
  /\ PayUnbound(GrantBoth(Grants, a, GovContract, value), a, ClaimOf(stakeRecord[a]))
  /\ stakeRecord' = [stakeRecord EXCEPT ![a] = [Stake |-> @.Stake + value, TimeOffset |-> tokNow]]
  /\ UNCHANGED <<tokNow, ontSupply, ongSupply, ontApproved, penaltyRecord>>

\* Withdraw: ONT out, withdrawTotalStake.
withdrawTotalStake(a, value) ==
  /\ TokenCall
  /\ stakeRecord[a].Stake >= value
  /\ MoveOnt(GovContract, a, value)
  /\ PayUnbound(GrantBoth(Grants, GovContract, a, value), a, ClaimOf(stakeRecord[a]))
  /\ stakeRecord' = [stakeRecord EXCEPT ![a] = [Stake |-> @.Stake - value, TimeOffset |-> tokNow]]
  /\ UNCHANGED <<tokNow, ontSupply, ongSupply, ontApproved, penaltyRecord>>

\* WithdrawOng: governance pays itself one ONT to make the contract grant.
WithdrawOng(a) ==
  /\ TokenCall
  /\ MoveOnt(GovContract, GovContract, 1)
  /\ PayUnbound(GrantBoth(Grants, GovContract, GovContract, 1), a, ClaimOf(stakeRecord[a]))
  /\ stakeRecord' = [stakeRecord EXCEPT ![a].TimeOffset = tokNow]
  /\ UNCHANGED <<tokNow, ontSupply, ongSupply, ontApproved, penaltyRecord>>

\* Mutant: a second penalty forgets what the first had unbound.
depositPenaltyStakeForgets(value) ==
  penaltyRecord' = [Stake |-> penaltyRecord.Stake + value, TimeOffset |-> 0,
                    Amount |-> penaltyRecord.Amount + ClaimOf(penaltyRecord)]

depositPenaltyStake(value) ==
  penaltyRecord' = [Stake |-> penaltyRecord.Stake + value, TimeOffset |-> tokNow,
                    Amount |-> penaltyRecord.Amount + ClaimOf(penaltyRecord)]

\* blackQuit: the stake of the owner becomes a penalty of the peer.
blackQuit(a, value) ==
  /\ TokenCall
  /\ stakeRecord[a].Stake >= value
  /\ MoveOnt(GovContract, GovContract, value)
  /\ PayUnbound(GrantBoth(Grants, GovContract, GovContract, value), a, ClaimOf(stakeRecord[a]))
  /\ stakeRecord' = [stakeRecord EXCEPT ![a] = [Stake |-> @.Stake - value, TimeOffset |-> tokNow]]
  /\ depositPenaltyStake(value)
  /\ UNCHANGED <<tokNow, ontSupply, ongSupply, ontApproved>>

\* TransferPenalty
withdrawPenaltyStake(to) ==
  /\ TokenCall
  /\ MoveOnt(GovContract, to, penaltyRecord.Stake)
  /\ PayUnbound(GrantBoth(Grants, GovContract, to, penaltyRecord.Stake), to,
                penaltyRecord.Amount + ClaimOf(penaltyRecord))
  /\ penaltyRecord' = [Stake |-> 0, TimeOffset |-> 0, Amount |-> 0]
  /\ UNCHANGED <<tokNow, ontSupply, ongSupply, ontApproved, stakeRecord>>

-----------------------------------------------------------------------------
(* The contracts' life *)

OntInit ==
  /\ ontSupply = 0
  /\ ontSupply' = ONT_TOTAL_SUPPLY
  /\ ontBalance' = [ontBalance EXCEPT ![Bookkeepers] = ONT_TOTAL_SUPPLY]
  /\ UNCHANGED <<tokNow, ongSupply, ongBalance, ontApproved, ongApproved, unboundOffset,
                 stakeRecord, penaltyRecord, tokCalls>>

OngInit ==
  /\ ongSupply = 0
  /\ ongSupply' = ONG_TOTAL_SUPPLY
  /\ ongBalance' = [ongBalance EXCEPT ![OntContract] = ONG_TOTAL_SUPPLY]
  /\ UNCHANGED <<tokNow, ontSupply, ontBalance, ontApproved, ongApproved, unboundOffset,
                 stakeRecord, penaltyRecord, tokCalls>>

\* Block times increase; the genesis block runs both init calls.
AdvanceTime ==
  /\ ontSupply # 0 /\ ongSupply # 0
  /\ tokNow' \in {t \in BlockTimes : t > tokNow}
  /\ UNCHANGED <<ontSupply, ongSupply, ontBalance, ongBalance, ontApproved, ongApproved,
                 unboundOffset, stakeRecord, penaltyRecord, tokCalls>>

TokenInit ==
  /\ tokNow = 0 /\ ontSupply = 0 /\ ongSupply = 0 /\ tokCalls = 0
  /\ ontBalance = ZeroEach /\ ongBalance = ZeroEach /\ unboundOffset = ZeroEach
  /\ ontApproved = [a \in Addresses |-> ZeroEach]
  /\ ongApproved = [a \in Addresses |-> ZeroEach]
  /\ stakeRecord = [a \in TokenUsers |-> [Stake |-> 0, TimeOffset |-> 0]]
  /\ penaltyRecord = [Stake |-> 0, TimeOffset |-> 0, Amount |-> 0]

TokenNext ==
  \/ OntInit \/ OngInit \/ AdvanceTime
  \/ \E a \in TokenUsers, value \in TokenValues :
       \/ depositTotalStake(a, value)
       \/ withdrawTotalStake(a, value)
       \/ blackQuit(a, value)
       \/ \E b \in Spenders : OntApprove(a, b, value) \/ OngApprove(a, b, value)
       \/ \E b \in Addresses : OntTransfer(a, b, value) \/ OngTransfer(a, b, value)
  \/ \E sender \in Spenders, from \in Addresses, value \in TokenValues :
       \/ OntTransferFrom(sender, from, sender, value)
       \/ OngTransferFrom(sender, from, sender, value)
  \/ \E a \in TokenUsers : WithdrawOng(a) \/ withdrawPenaltyStake(a)

TokenSpec == TokenInit /\ [][TokenNext]_tokenVars

-----------------------------------------------------------------------------
(* Properties *)

TokenTypeOK ==
  /\ tokNow \in BlockTimes /\ tokCalls \in 0..MaxTokenCalls
  /\ ontBalance \in [Addresses -> 0..ONT_TOTAL_SUPPLY]
  /\ ongBalance \in [Addresses -> 0..ONG_TOTAL_SUPPLY]
  /\ ontApproved \in [Addresses -> [Addresses -> Nat]]
  /\ ongApproved \in [Addresses -> [Addresses -> Nat]]
  /\ unboundOffset \in [Addresses -> 0..tokNow]
  /\ stakeRecord \in [TokenUsers -> [Stake : Nat, TimeOffset : 0..tokNow]]
  /\ penaltyRecord \in [Stake : Nat, TimeOffset : 0..tokNow, Amount : Nat]

\* No call makes or destroys a token, and the ONG the ONT contract still holds is
\* enough for every allowance it has granted and for all that the balances will
\* unbind until the deadline, however often balances changed hands (ont.go grantOng).
UnboundIsBacked ==
  /\ TotalOf(ontBalance) = ontSupply /\ TotalOf(ongBalance) = ongSupply
  /\ ongSupply # 0 =>
       ongBalance[OntContract] >=
         MapThenSumSet(LAMBDA a : ongApproved[OntContract][a]
                          + CalcUnbindOng(ontBalance[a], unboundOffset[a], UNBOUND_DEADLINE),
                       Addresses)

\* GovContract can pay: its allowance, with what its own ONT has unbound since the
\* last grant, covers the ONG every stake and penalty has unbound, so no deposit,
\* withdrawal or black listing fails for want of ONG (method.go depositTotalStake).
StakeClaimsCovered ==
  ongApproved[OntContract][GovContract]
      + CalcUnbindOng(ontBalance[GovContract], unboundOffset[GovContract], tokNow)
    >= MapThenSumSet(LAMBDA a : ClaimOf(stakeRecord[a]), TokenUsers)
       + penaltyRecord.Amount + ClaimOf(penaltyRecord)
=============================================================================
