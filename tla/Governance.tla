---------------------------- MODULE Governance ----------------------------
(***************************************************************************)
(* The governance contract: the peer pool and its epochs (views), the ONT *)
(* positions behind every peer, blacklisting and penalties, and the split *)
(* of the ONG fees.  A call is one transaction: it either completes or    *)
(* leaves the store as it was, so a handler that returns an error is a    *)
(* disabled action.  Handlers that take a list of peers are modelled on a *)
(* list of one; BlackNode, which mixes them, on any set.  Witness checks  *)
(* only say who calls.  ONG unbound from staked ONT is in OntToken.       *)
(***************************************************************************)
EXTENDS Integers, Sequences, FiniteSets, TLC, FiniteSetsExt, SequencesExt, GovPositions

CONSTANTS
  Peers,                \* peer public keys; integers, compared as the hex strings are
  GenesisPeers,         \* the peers of the genesis configuration
  Accounts,             \* addresses of users and node owners
  Holders,              \* the accounts that authorize peers
  OwnerOf,              \* Peers -> Accounts: who owns the genesis peers and registers the others
  Amounts,              \* amounts of ONT a call may name
  Wallet,               \* Accounts -> Nat: ONT outside the contract at the start
  GenesisInitPos,       \* InitPos of each genesis peer
  GenesisConfig,        \* the configuration of the genesis block
  Configs,              \* configurations UpdateConfig may be given
  GlobalParams,         \* values UpdateGlobalParam may be given
  GlobalParams2,        \* values UpdateGlobalParam2 may be given
  SplitCurves,          \* values UpdateSplitCurve may be given
  GasFees,              \* amounts of ONG a block's transactions may pay
  GasAddresses,         \* ONG addresses SetGasAddress may be given
  PenaltyAddresses,     \* addresses TransferPenalty may be given
  PeerCosts,            \* values SetPeerCost may be given
  StartAttributes,      \* settings the owners have made when the exploration starts
  NEW_VERSION_VIEW, NEW_VERSION_BLOCK, NEW_WITHDRAW_BLOCK, SelfGovRegisterHeight,
  PRECISE, Xi,          \* the abscissas of the split curve
  MinK, CandidatesPerK, \* 7 and 4 in the code
  MaxHeight, MaxView, MaxMinorCalls     \* bounds of the exploration

ASSUME GovAssumption ==
  /\ Peers \subseteq Nat /\ GenesisPeers \subseteq Peers
  /\ Cardinality(GenesisPeers) = GenesisConfig.K
  /\ GenesisInitPos \in Nat /\ Amounts \subseteq Nat
  /\ \A g \in GlobalParams : g.A + g.B = 100 /\ g.Penalty <= 100 /\ g.PosLimit >= 1

VARIABLES
  height,               \* height of the block being executed
  governanceView,       \* [View, Height]: the epoch and the height it began at
  peerPool,             \* the peer pool of the current view
  prePool,              \* the peer pool of the previous view
  authorizeInfo,        \* Peers -> Accounts -> AuthorizeInfo
  totalStake,           \* Accounts -> Nat
  penaltyStake,         \* Peers -> [InitPos, AuthorizePos]
  blackList,            \* set of peers
  promisePos,           \* Peers -> Nat, or NoPromise
  peerAttributes,       \* Peers -> [MaxAuthorize, T2PeerCost, T1PeerCost, TPeerCost]
  peerIndex,            \* Peers -> Nat, 0 when the peer never had an index
  candidateIndex,       \* the next free index
  govConfig, preConfig, \* the configuration, and the one set for the next view
  globalParam, globalParam2, splitCurve, gasAddress,
  ont,                  \* ONT balances: Accounts and the contract
  govOng,               \* ONG balance of the contract
  splitFee,             \* ONG set aside for withdrawal
  splitFeeAddress,      \* Accounts -> ONG to withdraw
  minorCalls            \* settings, payouts and pardons so far, for the bound MaxMinorCalls

stakeVars == <<authorizeInfo, totalStake, penaltyStake, ont>>
feeVars   == <<govOng, splitFee, splitFeeAddress>>
peerVars  == <<blackList, promisePos, peerAttributes, peerIndex, candidateIndex>>
paramVars == <<govConfig, preConfig, globalParam, globalParam2, splitCurve, gasAddress>>
govVars   == <<height, governanceView, peerPool, prePool, stakeVars, feeVars,
               peerVars, paramVars, minorCalls>>

Gov == "governance"
NoPromise == -1
NoAddress == "none"

Statuses == {"RegisterCandidate", "Candidate", "Consensus", "QuitConsensus", "Quiting", "Black"}

\* The stored records.
GovernanceView == [View : Nat, Height : Nat]
PeerPoolItem == [Address : Accounts, Index : Nat, InitPos : Nat, TotalPos : Nat, Status : Statuses]
PenaltyStake == [InitPos : Nat, AuthorizePos : Nat]
TotalStake == Nat
SplitFeeAddress == Nat
PeerAttributes == [MaxAuthorize : Nat, T2PeerCost : 0..100, T1PeerCost : 0..100, TPeerCost : 0..100]
Configuration == [K : Nat, MaxBlockChangeView : Nat, sound : BOOLEAN]
PreConfig == [Configuration : Configuration, SetView : Nat]
GlobalParam == [CandidateFee : Nat, MinInitStake : Nat, CandidateNum : Nat, PosLimit : Nat,
                A : Nat, B : Nat, Yita : Nat, Penalty : Nat]
GlobalParam2 == [MinAuthorizePos : Nat, CandidateFeeSplitNum : Nat, DappFee : Nat]
PeerPoolMap(pool) == DOMAIN pool \subseteq Peers /\ \A p \in DOMAIN pool : pool[p] \in PeerPoolItem

Item(owner, index, init, total, status) ==
  [Address |-> owner, Index |-> index, InitPos |-> init, TotalPos |-> total, Status |-> status]

\* The peers that may be elected, and their stake.
Elected(pool) == {p \in DOMAIN pool : pool[p].Status \in {"Candidate", "Consensus"}}
StakeOf(pool, p) == pool[p].InitPos + pool[p].TotalPos

\* Peers by stake, larger public key first among equals.
SortByStake(pool) ==
  SetToSortSeq(Elected(pool), LAMBDA p, q : \/ StakeOf(pool, p) > StakeOf(pool, q)
                                            \/ StakeOf(pool, p) = StakeOf(pool, q) /\ p > q)

SumOver(S, f(_)) == MapThenSumSet(f, S)

Without(pool, p) == [q \in DOMAIN pool \ {p} |-> pool[q]]
With(pool, p, item) == [q \in DOMAIN pool \cup {p} |-> IF q = p THEN item ELSE pool[q]]

-----------------------------------------------------------------------------
(* ONT and stake *)

MinorCall == minorCalls < MaxMinorCalls /\ minorCalls' = minorCalls + 1

TransferOnt(from, to, amount) ==
  /\ ont[from] >= amount
  /\ ont' = [[ont EXCEPT ![from] = @ - amount] EXCEPT ![to] = @ + amount]

depositTotalStake(a, stake) == totalStake' = [totalStake EXCEPT ![a] = @ + stake]

withdrawTotalStake(a, stake) ==
  /\ totalStake[a] >= stake
  /\ totalStake' = [totalStake EXCEPT ![a] = @ - stake]

putAuthorizeInfo(p, a, info) == authorizeInfo' = [authorizeInfo EXCEPT ![p][a] = info]

Unfreeze(p, a, amount) ==
  putAuthorizeInfo(p, a, [authorizeInfo[p][a] EXCEPT !.WithdrawUnfreezePos = @ + amount])

-----------------------------------------------------------------------------
(* The split of the ONG fees at the end of an epoch, over the pool of the *)
(* epoch before it.                                                       *)

\* splitCurve: linear interpolation between the points (Xi, Yi).
splitCurveAt(pos, avg) ==
  LET x     == (PRECISE * globalParam.Yita * 2 * pos) \div (avg * 10)
      i     == x \div (PRECISE \div 10)
      last  == Len(Xi) - 2
      index == IF i > last THEN last ELSE i
      xi    == IF i > last THEN Xi[Len(Xi)] ELSE x
      x0    == Xi[index + 1]
      x1    == Xi[index + 2]
  IN (splitCurve[index + 2] * (xi - x0) + splitCurve[index + 1] * (x1 - xi)) \div (x1 - x0)

\* What the K consensus peers get out of amount, by the split curve.
ConsensusShares(order, amount) ==
  LET k    == govConfig.K
      sum  == SumOver(1..k, LAMBDA n : StakeOf(prePool, order[n]))
      avg  == sum \div k
      S(n) == splitCurveAt(StakeOf(prePool, order[n]), avg)
      sumS == SumOver(1..k, S)
  IN [sumS  |-> IF sum < k THEN k ELSE sumS,
      share |-> [n \in (IF sum < k \/ sumS = 0 THEN {} ELSE 1..k) |->
                   (((amount * globalParam.A) \div 100) * S(n)) \div sumS]]

\* What the candidate peers up to the place `length` get, by stake.
CandidateShares(order, length, amount) ==
  LET sum == SumOver((govConfig.K + 1)..length, LAMBDA n : StakeOf(prePool, order[n]))
  IN [n \in (IF sum = 0 THEN {} ELSE (govConfig.K + 1)..length) |->
        (((amount * globalParam.B) \div 100) * StakeOf(prePool, order[n])) \div sum]

\* The shares by peer; `failed` is the error "sumS is 0".  When the consensus
\* peers have no stake nothing at all is split.
NodeShares(order, length, amount) ==
  LET c == ConsensusShares(order, amount)
      r == CandidateShares(order, length, amount)
      all == IF DOMAIN c.share = {} THEN <<>> ELSE c.share @@ r
  IN [failed |-> c.sumS = 0,
      share  |-> [p \in {order[n] : n \in DOMAIN all} |->
                    all[CHOOSE n \in DOMAIN all : order[n] = p]]]

\* executeSplit: the shares are paid out at once.
executeSplit ==
  LET order == SortByStake(prePool)
      nodes == NodeShares(order, Len(order), govOng)
  IN [failed  |-> nodes.failed,
      govOng  |-> govOng - SumOver(DOMAIN nodes.share, LAMBDA p : nodes.share[p]),
      sum     |-> 0,
      credit  |-> [a \in Accounts |-> 0]]

\* executeAddressSplit and executePeerSplit: how splitNodeFee divides the share
\* of peer p; the owner gets the peer cost and what rounding leaves.
executeAddressSplit(p, pool, amount, a) ==
  LET v == validatePos(authorizeInfo[p][a], prePool[p].Status = "Consensus",
                                            pool[p].Status = "Consensus")
  IN IF v = 0 \/ a = prePool[p].Address THEN 0 ELSE (v * amount) \div prePool[p].TotalPos

splitNodeFee(p, pool, nodeAmount) ==
  LET amount  == (nodeAmount * (100 - peerAttributes[p].TPeerCost)) \div 100
      part(a) == executeAddressSplit(p, pool, amount, a)
      remain  == nodeAmount - SumOver(Accounts, part)
  IN [a \in Accounts |-> part(a) + (IF a = prePool[p].Address THEN remain ELSE 0)]

\* executeSplit2: a part for the gas address, the shares set aside per address.
executeSplit2(pool) ==
  LET order  == SortByStake(prePool)
      income == govOng - splitFee
      dapp   == IF gasAddress = NoAddress THEN 0 ELSE (income * globalParam2.DappFee) \div 100
      length == Min({Len(order), globalParam2.CandidateFeeSplitNum})
      nodes  == NodeShares(order, length, income - dapp)
      fee    == [p \in DOMAIN nodes.share |-> splitNodeFee(p, pool, nodes.share[p])]
  IN [failed |-> nodes.failed,
      govOng |-> govOng - dapp,
      sum    |-> SumOver(DOMAIN nodes.share, LAMBDA p : nodes.share[p]),
      credit |-> [a \in Accounts |-> SumOver(DOMAIN fee, LAMBDA p : fee[p][a])]]

-----------------------------------------------------------------------------
(* The end of an epoch *)

\* blackQuit, normalQuit and the four transitions on the records of peer p.
NewInfo(pool, p, a, consensus) ==
  LET i == authorizeInfo[p][a]
      item == pool[p]
  IN CASE item.Status = "Quiting" ->
            [normalQuitInfo(i) EXCEPT !.WithdrawUnfreezePos =
               @ + (IF a = item.Address THEN item.InitPos ELSE 0)]
       [] item.Status = "Black" -> blackQuitInfo(i, globalParam.Penalty)
       [] item.Status = "Consensus" /\ p \in consensus -> consensusToConsensus(i)
       [] item.Status = "Consensus" /\ p \notin consensus -> consensusToUnConsensus(i)
       [] item.Status = "Candidate" /\ p \in consensus -> unConsensusToConsensus(i)
       [] item.Status = "Candidate" /\ p \notin consensus -> unConsensusToUnConsensus(i)
       [] OTHER -> i

\* Mutant: the penalty is not taken from the stake of those who authorized the peer.
BlackLossNoPenalty(pool, a) ==
  SumOver({p \in DOMAIN pool : pool[p].Status = "Black" /\ pool[p].Address = a},
          LAMBDA p : pool[p].InitPos)

\* What blackQuit takes from the stake of account a.
BlackLoss(pool, a) ==
  SumOver({p \in DOMAIN pool : pool[p].Status = "Black"},
          LAMBDA p : penaltyOf(authorizeInfo[p][a], globalParam.Penalty)
                     + (IF pool[p].Address = a THEN pool[p].InitPos ELSE 0))

\* depositPenaltyStake
depositPenaltyStake(pool) ==
  penaltyStake' = [p \in Peers |->
    IF p \in DOMAIN pool /\ pool[p].Status = "Black"
      THEN [InitPos |-> penaltyStake[p].InitPos + pool[p].InitPos,
            AuthorizePos |-> penaltyStake[p].AuthorizePos
               + SumOver(Accounts, LAMBDA a : penaltyOf(authorizeInfo[p][a], globalParam.Penalty))]
      ELSE penaltyStake[p]]

\* The refusals "candidatePos should be 0" and "consensusPos should be 0".
PositionsFit(pool) ==
  \A p \in Elected(pool), a \in Accounts :
    IF pool[p].Status = "Consensus" THEN authorizeInfo[p][a].CandidatePos = 0
                                    ELSE authorizeInfo[p][a].ConsensusPos = 0

\* What both versions do to the pool: they elect the K peers with most stake
\* under the configuration set for this view, settle the records, and drop the
\* peers that are leaving.
SettlePool(pool, split) ==
  LET config == IF preConfig.SetView = governanceView.View THEN preConfig.Configuration
                                                           ELSE govConfig
      order  == SortByStake(pool)
      consensus == {order[n] : n \in 1..config.K}
      gone   == {p \in DOMAIN pool : pool[p].Status \in {"Quiting", "Black"}}
      next(p) == CASE pool[p].Status = "QuitConsensus" -> "Quiting"
                   [] p \in consensus -> "Consensus"
                   [] p \in Elected(pool) \ consensus -> "Candidate"
                   [] OTHER -> pool[p].Status
  IN /\ ~split.failed
     /\ Len(order) >= config.K
     /\ PositionsFit(pool)
     /\ \A a \in Accounts : BlackLoss(pool, a) <= totalStake[a]
     /\ \A p \in gone : pool[p].Status = "Black" => ont[Gov] >= pool[p].InitPos
     /\ govOng' = split.govOng
     /\ splitFee' = splitFee + split.sum
     /\ splitFeeAddress' = [a \in Accounts |-> splitFeeAddress[a] + split.credit[a]]
     /\ govConfig' = config
     /\ authorizeInfo' = [p \in Peers |-> [a \in Accounts |->
          IF p \in DOMAIN pool THEN NewInfo(pool, p, a, consensus) ELSE authorizeInfo[p][a]]]
     /\ totalStake' = [a \in Accounts |-> totalStake[a] - BlackLoss(pool, a)]
     /\ depositPenaltyStake(pool)
     /\ peerPool' = [p \in DOMAIN pool \ gone |-> [pool[p] EXCEPT !.Status = next(p)]]
     /\ prePool' = pool

executeCommitDpos1(pool) == SettlePool(pool, executeSplit) /\ UNCHANGED peerAttributes

\* From NEW_VERSION_VIEW on the peer costs move one epoch on too.
executeCommitDpos2(pool) ==
  /\ SettlePool(pool, executeSplit2(pool))
  /\ peerAttributes' = [p \in Peers |->
       IF p \notin DOMAIN pool THEN peerAttributes[p]
       ELSE [peerAttributes[p] EXCEPT !.TPeerCost = peerAttributes[p].T1PeerCost,
                                      !.T1PeerCost = peerAttributes[p].T2PeerCost]]

executeCommitDpos(pool) ==
  /\ height # governanceView.Height
  /\ \/ governanceView.View <= NEW_VERSION_VIEW /\ executeCommitDpos1(pool)
     \/ governanceView.View > NEW_VERSION_VIEW /\ executeCommitDpos2(pool)
  /\ governanceView' = [View |-> governanceView.View + 1, Height |-> height]
  /\ UNCHANGED ont

-----------------------------------------------------------------------------
(* Calls of node owners *)

\* Mutant: a peer that comes back gets a new index.
IndexForAlwaysNew(p) == candidateIndex

\* The index a peer gets when it becomes a candidate: its old one, or the next.
IndexFor(p) == IF peerIndex[p] # 0 THEN peerIndex[p] ELSE candidateIndex

AssignIndex(p) ==
  /\ peerIndex' = [peerIndex EXCEPT ![p] = IndexFor(p)]
  /\ candidateIndex' = IF peerIndex[p] # 0 THEN candidateIndex ELSE candidateIndex + 1

PoolHasRoom == Cardinality(Elected(peerPool)) < globalParam.CandidateNum

\* registerCandidate; the ONT comes by transfer or, with an allowance, by transferFrom.
RegisterCandidate(p, a, pos) ==
  LET selfGov == height >= SelfGovRegisterHeight
  IN /\ pos >= 1 /\ p \notin blackList /\ p \notin DOMAIN peerPool
     /\ selfGov => PoolHasRoom /\ pos >= globalParam.MinInitStake
     /\ IF selfGov
          THEN /\ AssignIndex(p)
               /\ promisePos' = [promisePos EXCEPT ![p] = pos]
               /\ peerPool' = With(peerPool, p, Item(a, IndexFor(p), pos, 0, "Candidate"))
          ELSE /\ peerPool' = With(peerPool, p, Item(a, 0, pos, 0, "RegisterCandidate"))
               /\ UNCHANGED <<peerIndex, candidateIndex, promisePos>>
     /\ TransferOnt(a, Gov, pos)
     /\ govOng' = govOng + globalParam.CandidateFee
     /\ depositTotalStake(a, pos)
     /\ UNCHANGED <<height, governanceView, prePool, authorizeInfo, penaltyStake, blackList,
                    peerAttributes, splitFee, splitFeeAddress, paramVars, minorCalls>>

\* UnRegisterCandidate by the owner and RejectCandidate by the operator.
UnRegisterCandidate(p) ==
  /\ p \in DOMAIN peerPool /\ peerPool[p].Status = "RegisterCandidate"
  /\ Unfreeze(p, peerPool[p].Address, peerPool[p].InitPos)
  /\ peerPool' = Without(peerPool, p)
  /\ UNCHANGED <<height, governanceView, prePool, totalStake, penaltyStake, ont, feeVars,
                 peerVars, paramVars, minorCalls>>

RejectCandidate(p) == UnRegisterCandidate(p)

QuitNode(p) ==
  /\ p \in Elected(peerPool)
  /\ Cardinality(Elected(peerPool)) > govConfig.K
  /\ peerPool' = [peerPool EXCEPT ![p].Status =
                    IF @ = "Consensus" THEN "QuitConsensus" ELSE "Quiting"]
  /\ UNCHANGED <<height, governanceView, prePool, stakeVars, feeVars, peerVars, paramVars, minorCalls>>

AddInitPos(p, pos) ==
  /\ height >= NEW_VERSION_BLOCK /\ pos >= 1
  /\ p \in DOMAIN peerPool
  /\ peerPool[p].Status \in {"Candidate", "Consensus", "RegisterCandidate"}
  /\ peerPool' = [peerPool EXCEPT ![p].InitPos = @ + pos]
  /\ TransferOnt(peerPool[p].Address, Gov, pos)
  /\ depositTotalStake(peerPool[p].Address, pos)
  /\ UNCHANGED <<height, governanceView, prePool, authorizeInfo, penaltyStake, feeVars,
                 peerVars, paramVars, minorCalls>>

\* A peer with no promise on record is refused: getPromisePos fails.
ReduceInitPos(p, pos) ==
  LET item == peerPool[p]
      a    == item.Address
      i    == authorizeInfo[p][a]
  IN /\ height >= NEW_VERSION_BLOCK /\ pos >= 1
     /\ p \in DOMAIN peerPool
     /\ item.InitPos >= pos
     /\ item.InitPos - pos >= item.TotalPos \div globalParam.PosLimit
     /\ promisePos[p] # NoPromise /\ item.InitPos - pos >= promisePos[p]
     /\ \/ /\ item.Status = "Consensus"
           /\ putAuthorizeInfo(p, a, [i EXCEPT !.WithdrawConsensusPos = @ + pos])
        \/ /\ item.Status = "Candidate"
           /\ putAuthorizeInfo(p, a, [i EXCEPT !.WithdrawCandidatePos = @ + pos])
        \/ /\ item.Status = "RegisterCandidate"
           /\ putAuthorizeInfo(p, a, [i EXCEPT !.WithdrawUnfreezePos = @ + pos])
     /\ peerPool' = [peerPool EXCEPT ![p].InitPos = @ - pos]
     /\ UNCHANGED <<height, governanceView, prePool, totalStake, penaltyStake, ont, feeVars,
                    peerVars, paramVars, minorCalls>>

ChangeMaxAuthorization(p, max) ==
  /\ MinorCall
  /\ height >= NEW_VERSION_BLOCK
  /\ p \in DOMAIN peerPool /\ max <= globalParam.PosLimit * peerPool[p].InitPos
  /\ peerAttributes' = [peerAttributes EXCEPT ![p].MaxAuthorize = max]
  /\ UNCHANGED <<height, governanceView, peerPool, prePool, stakeVars, feeVars, blackList,
                 promisePos, peerIndex, candidateIndex, paramVars>>

SetPeerCost(p, cost) ==
  /\ MinorCall
  /\ height >= NEW_VERSION_BLOCK
  /\ p \in DOMAIN peerPool /\ cost <= 100
  /\ peerAttributes' = [peerAttributes EXCEPT ![p].T2PeerCost = cost]
  /\ UNCHANGED <<height, governanceView, peerPool, prePool, stakeVars, feeVars, blackList,
                 promisePos, peerIndex, candidateIndex, paramVars>>

-----------------------------------------------------------------------------
(* Calls of ONT holders *)

AuthorizeForPeer(p, a, pos) ==
  LET total == peerPool[p].TotalPos + pos
  IN /\ pos >= 1 /\ pos >= globalParam2.MinAuthorizePos /\ pos % globalParam2.MinAuthorizePos = 0
     /\ p \in Elected(peerPool) /\ a # peerPool[p].Address
     /\ total <= globalParam.PosLimit * peerPool[p].InitPos
     /\ total <= peerAttributes[p].MaxAuthorize
     /\ peerPool' = [peerPool EXCEPT ![p].TotalPos = total]
     /\ putAuthorizeInfo(p, a, [authorizeInfo[p][a] EXCEPT !.NewPos = @ + pos])
     /\ TransferOnt(a, Gov, pos)
     /\ depositTotalStake(a, pos)
     /\ UNCHANGED <<height, governanceView, prePool, penaltyStake, feeVars, peerVars,
                    paramVars, minorCalls>>

\* A position below the minimum is released whole, whatever amount is named.
UnAuthorizeForPeer(p, a, amount) ==
  LET i    == authorizeInfo[p][a]
      min  == globalParam2.MinAuthorizePos
      pos  == IF ActivePos(i) < min THEN ActivePos(i) ELSE amount
      cons == peerPool[p].Status = "Consensus"
  IN /\ amount >= 1
     /\ ActivePos(i) >= min => amount >= min /\ amount % min = 0
     /\ p \in Elected(peerPool)
     /\ enoughToUnAuthorize(i, cons, pos)
     /\ putAuthorizeInfo(p, a, unAuthorizeInfo(i, cons, pos))
     /\ peerPool' = [peerPool EXCEPT ![p].TotalPos = @ - pos]
     /\ UNCHANGED <<height, governanceView, prePool, totalStake, penaltyStake, ont, feeVars,
                    peerVars, paramVars, minorCalls>>

Withdraw(p, a, pos) ==
  /\ height > NEW_WITHDRAW_BLOCK => pos >= 1
  /\ authorizeInfo[p][a].WithdrawUnfreezePos >= pos
  /\ putAuthorizeInfo(p, a, [authorizeInfo[p][a] EXCEPT !.WithdrawUnfreezePos = @ - pos])
  /\ TransferOnt(Gov, a, pos)
  /\ withdrawTotalStake(a, pos)
  /\ UNCHANGED <<height, governanceView, peerPool, prePool, penaltyStake, feeVars, peerVars,
                 paramVars, minorCalls>>

\* Mutant: the sum of the fees set aside is not lowered by what is paid.
WithdrawFeeKeepsSum(a) ==
  /\ MinorCall
  /\ height >= NEW_VERSION_BLOCK
  /\ govOng >= splitFeeAddress[a]
  /\ govOng' = govOng - splitFeeAddress[a]
  /\ splitFeeAddress' = [splitFeeAddress EXCEPT ![a] = 0]
  /\ UNCHANGED <<height, governanceView, peerPool, prePool, stakeVars, splitFee, peerVars,
                 paramVars>>

WithdrawFee(a) ==
  /\ MinorCall
  /\ height >= NEW_VERSION_BLOCK
  /\ govOng >= splitFeeAddress[a] /\ splitFee >= splitFeeAddress[a]
  /\ govOng' = govOng - splitFeeAddress[a]
  /\ splitFee' = splitFee - splitFeeAddress[a]
  /\ splitFeeAddress' = [splitFeeAddress EXCEPT ![a] = 0]
  /\ UNCHANGED <<height, governanceView, peerPool, prePool, stakeVars, peerVars, paramVars>>

-----------------------------------------------------------------------------
(* Calls of the operator *)

ApproveCandidate(p) ==
  LET item == peerPool[p]
  IN /\ PoolHasRoom
     /\ p \in DOMAIN peerPool /\ item.Status = "RegisterCandidate"
     /\ item.InitPos >= globalParam.MinInitStake
     /\ promisePos' = IF height >= NEW_VERSION_BLOCK
                        THEN [promisePos EXCEPT ![p] = item.InitPos] ELSE promisePos
     /\ AssignIndex(p)
     /\ peerPool' = [peerPool EXCEPT ![p] =
                       Item(item.Address, IndexFor(p), item.InitPos, 0, "Candidate")]
     /\ UNCHANGED <<height, governanceView, prePool, stakeVars, feeVars, blackList,
                    peerAttributes, paramVars, minorCalls>>

\* Black listing a consensus peer ends the epoch in the same call.
BlackNode(S) ==
  LET pool == [p \in DOMAIN peerPool |->
                 IF p \in S THEN [peerPool[p] EXCEPT !.Status = "Black"] ELSE peerPool[p]]
  IN /\ S # {} /\ S \subseteq DOMAIN peerPool
     /\ blackList' = blackList \cup S
     /\ IF \E p \in S : peerPool[p].Status = "Consensus"
          THEN executeCommitDpos(pool)
          ELSE /\ peerPool' = pool
               /\ UNCHANGED <<governanceView, prePool, stakeVars, feeVars, govConfig, peerAttributes>>
     /\ UNCHANGED <<height, promisePos, peerIndex, candidateIndex, preConfig, globalParam,
                    globalParam2, splitCurve, gasAddress, minorCalls>>

WhiteNode(p) ==
  /\ MinorCall
  /\ p \in blackList
  /\ blackList' = blackList \ {p}
  /\ UNCHANGED <<height, governanceView, peerPool, prePool, stakeVars, feeVars, promisePos,
                 peerAttributes, peerIndex, candidateIndex, paramVars>>

\* TransferPenalty, withdrawPenaltyStake
TransferPenalty(p, a) ==
  /\ MinorCall
  /\ TransferOnt(Gov, a, penaltyStake[p].InitPos + penaltyStake[p].AuthorizePos)
  /\ penaltyStake' = [penaltyStake EXCEPT ![p] = [InitPos |-> 0, AuthorizePos |-> 0]]
  /\ UNCHANGED <<height, governanceView, peerPool, prePool, authorizeInfo, totalStake, feeVars,
                 peerVars, paramVars>>

\* The operator may always end the epoch, anyone may once it has lasted long enough.
CommitDpos(operator) ==
  /\ operator \/ height - governanceView.Height >= govConfig.MaxBlockChangeView
  /\ executeCommitDpos(peerPool)
  /\ UNCHANGED <<height, blackList, promisePos, peerIndex, candidateIndex, preConfig,
                 globalParam, globalParam2, splitCurve, gasAddress, minorCalls>>

ParameterCall ==
  /\ MinorCall
  /\ UNCHANGED <<height, governanceView, peerPool, prePool, stakeVars, feeVars, blackList,
                 peerAttributes, peerIndex, candidateIndex, govConfig>>

\* `sound` stands for the bounds on C, L, N and the delays.
UpdateConfig(c) ==
  /\ ParameterCall
  /\ c.sound /\ c.K <= Cardinality(Elected(peerPool)) /\ c.K >= MinK
  /\ CandidatesPerK * c.K <= globalParam.CandidateNum
  /\ preConfig' = [Configuration |-> c, SetView |-> governanceView.View]
  /\ UNCHANGED <<promisePos, globalParam, globalParam2, splitCurve, gasAddress>>

UpdateGlobalParam(g) ==
  /\ ParameterCall
  /\ g.A + g.B = 100 /\ g.Yita > 0 /\ g.Penalty <= 100 /\ g.PosLimit >= 1
  /\ g.CandidateNum >= CandidatesPerK * govConfig.K /\ g.MinInitStake >= 1
  /\ globalParam' = g
  /\ UNCHANGED <<promisePos, preConfig, globalParam2, splitCurve, gasAddress>>

UpdateGlobalParam2(g) ==
  /\ ParameterCall
  /\ height >= NEW_VERSION_BLOCK /\ g.CandidateFeeSplitNum >= govConfig.K
  /\ globalParam2' = g
  /\ UNCHANGED <<promisePos, preConfig, globalParam, splitCurve, gasAddress>>

UpdateSplitCurve(c) ==
  /\ ParameterCall
  /\ splitCurve' = c
  /\ UNCHANGED <<promisePos, preConfig, globalParam, globalParam2, gasAddress>>

SetPromisePos(p, pos) ==
  /\ ParameterCall
  /\ height >= NEW_VERSION_BLOCK
  /\ promisePos' = [promisePos EXCEPT ![p] = pos]
  /\ UNCHANGED <<preConfig, globalParam, globalParam2, splitCurve, gasAddress>>

SetGasAddress(a) ==
  /\ ParameterCall
  /\ gasAddress' = a
  /\ UNCHANGED <<promisePos, preConfig, globalParam, globalParam2, splitCurve>>

-----------------------------------------------------------------------------
(* The contract's life *)

\* The next block begins; its transactions paid `fee` ONG to the contract.
NextBlock(fee) ==
  /\ height < MaxHeight
  /\ height' = height + 1 /\ govOng' = govOng + fee
  /\ UNCHANGED <<governanceView, peerPool, prePool, stakeVars, splitFee, splitFeeAddress,
                 peerVars, paramVars, minorCalls>>

\* InitConfig.  The ONT behind the genesis peers is moved to the contract by the
\* bookkeepers, who hold the whole supply; the model starts after that transfer.
GenesisIndex == CHOOSE f \in [GenesisPeers -> 1..GenesisConfig.K] : IsInjective(f)
GovInit ==
  /\ height = 0
  /\ governanceView = [View |-> 1, Height |-> 0]
  /\ peerPool = [p \in GenesisPeers |->
                   Item(OwnerOf[p], GenesisIndex[p], GenesisInitPos, 0, "Consensus")]
  /\ prePool = peerPool
  /\ authorizeInfo = [p \in Peers |-> [a \in Accounts |-> NoInfo]]
  /\ totalStake = [a \in Accounts |->
                     GenesisInitPos * Cardinality({p \in GenesisPeers : OwnerOf[p] = a})]
  /\ penaltyStake = [p \in Peers |-> [InitPos |-> 0, AuthorizePos |-> 0]]
  /\ blackList = {} /\ promisePos = [p \in Peers |-> NoPromise]
  /\ peerAttributes = StartAttributes
  /\ peerIndex = [p \in Peers |-> IF p \in GenesisPeers THEN GenesisIndex[p] ELSE 0]
  /\ candidateIndex = GenesisConfig.K + 1
  /\ govConfig = GenesisConfig
  /\ preConfig = [Configuration |-> GenesisConfig, SetView |-> 0]
  /\ globalParam \in GlobalParams /\ globalParam2 \in GlobalParams2
  /\ splitCurve \in SplitCurves /\ gasAddress = NoAddress
  /\ ont = [a \in Accounts \cup {Gov} |->
              IF a = Gov THEN GenesisInitPos * GenesisConfig.K ELSE Wallet[a]]
  /\ govOng = 0 /\ splitFee = 0 /\ splitFeeAddress = [a \in Accounts |-> 0]
  /\ minorCalls = 0

GovNext ==
  \/ \E p \in Peers, pos \in Amounts :
       \/ RegisterCandidate(p, OwnerOf[p], pos)
       \/ AddInitPos(p, pos)
       \/ ReduceInitPos(p, pos)
       \/ ChangeMaxAuthorization(p, pos)
       \/ SetPromisePos(p, pos)
       \/ \E a \in Holders : AuthorizeForPeer(p, a, pos) \/ UnAuthorizeForPeer(p, a, pos)
       \/ \E a \in Accounts : Withdraw(p, a, pos)
  \/ \E p \in Peers :
       \/ UnRegisterCandidate(p)
       \/ RejectCandidate(p)
       \/ QuitNode(p)
       \/ ApproveCandidate(p)
       \/ WhiteNode(p)
       \/ \E cost \in PeerCosts : SetPeerCost(p, cost)
       \/ \E a \in PenaltyAddresses : TransferPenalty(p, a)
  \/ \E S \in SUBSET Peers : governanceView.View < MaxView /\ BlackNode(S)
  \/ \E a \in Accounts : WithdrawFee(a)
  \/ governanceView.View < MaxView /\ \E operator \in BOOLEAN : CommitDpos(operator)
  \/ \E c \in Configs : UpdateConfig(c)
  \/ \E g \in GlobalParams : UpdateGlobalParam(g)
  \/ \E g \in GlobalParams2 : UpdateGlobalParam2(g)
  \/ \E c \in SplitCurves : UpdateSplitCurve(c)
  \/ \E a \in GasAddresses : SetGasAddress(a)
  \/ \E fee \in GasFees : NextBlock(fee)

GovSpec == GovInit /\ [][GovNext]_govVars

-----------------------------------------------------------------------------
(* Properties *)

GovTypeOK ==
  /\ height \in Nat /\ governanceView \in GovernanceView
  /\ PeerPoolMap(peerPool) /\ PeerPoolMap(prePool)
  /\ authorizeInfo \in [Peers -> [Accounts -> AuthorizeInfo]]
  /\ totalStake \in [Accounts -> TotalStake] /\ ont \in [Accounts \cup {Gov} -> Nat]
  /\ penaltyStake \in [Peers -> PenaltyStake] /\ blackList \subseteq Peers
  /\ peerAttributes \in [Peers -> PeerAttributes] /\ promisePos \in [Peers -> Nat \cup {NoPromise}]
  /\ govConfig \in Configuration /\ preConfig \in PreConfig
  /\ globalParam \in GlobalParam /\ globalParam2 \in GlobalParam2
  /\ govOng \in Nat /\ splitFee \in Nat /\ splitFeeAddress \in [Accounts -> SplitFeeAddress]
  /\ peerIndex \in [Peers -> Nat] /\ candidateIndex \in Nat

\* The stake an account has: the InitPos of its peers and its positions on any peer.
StakeHeldBy(a) ==
  SumOver({p \in DOMAIN peerPool : peerPool[p].Address = a}, LAMBDA p : peerPool[p].InitPos)
    + SumOver(Peers, LAMBDA p : HeldPos(authorizeInfo[p][a]))

\* However positions move between peers, counters and epochs, through quits and
\* black lists, an account's TotalStake is the ONT its records stand for, and the
\* contract's ONT balance is all the stakes and penalties together: every Withdraw
\* and TransferPenalty can be paid (governance.go Withdraw, method.go blackQuit).
StakeConserved ==
  /\ \A a \in Accounts : totalStake[a] = StakeHeldBy(a)
  /\ ont[Gov] = SumOver(Accounts, LAMBDA a : totalStake[a])
                + SumOver(Peers, LAMBDA p : penaltyStake[p].InitPos + penaltyStake[p].AuthorizePos)

\* A peer's TotalPos is the sum of the positions put on it, and the positions are
\* in the counters of the peer's kind, so the end of an epoch is never refused
\* with "candidatePos should be 0" or "consensusPos should be 0" (method.go
\* consensusToConsensus and its three siblings).
PositionsMatchPool ==
  /\ \A p \in DOMAIN peerPool :
       peerPool[p].TotalPos = SumOver(Accounts, LAMBDA a : ActivePos(authorizeInfo[p][a]))
  /\ PositionsFit(peerPool)

\* The fees set aside are exactly what the addresses may withdraw and are covered
\* by the contract's ONG, so executeSplit2 never meets "balance less than splitFee
\* to withdraw!" and every WithdrawFee can be paid (method.go executeSplit2).
FeesBacked ==
  /\ splitFee = SumOver(Accounts, LAMBDA a : splitFeeAddress[a])
  /\ splitFee <= govOng

\* The split at the end of an epoch reads the pool of the epoch before: that pool
\* still has K electable peers, each of them is in the current pool, and the
\* positions paid for a peer are within the total they are divided by, so the
\* split indexes no missing peer, divides by no zero and pays out no more than the
\* peer's share (method.go executeSplit2, splitNodeFee).
SplitIsDefined ==
  /\ Cardinality(Elected(prePool)) >= govConfig.K
  /\ Elected(prePool) \subseteq DOMAIN peerPool
  /\ \A p \in Elected(prePool) :
       SumOver(Accounts \ {prePool[p].Address},
               LAMBDA a : validatePos(authorizeInfo[p][a], prePool[p].Status = "Consensus",
                                                           peerPool[p].Status = "Consensus"))
         <= prePool[p].TotalPos

\* Indices identify peers in the consensus messages: no two peers share one, and
\* a peer that quits and registers again keeps its own (governance.go ApproveCandidate).
IndexIdentifies ==
  [][/\ \A p \in Peers : peerIndex[p] # 0 => peerIndex'[p] = peerIndex[p]
     /\ \A p, q \in DOMAIN peerPool' :
          p # q /\ peerPool'[p].Index # 0 => peerPool'[p].Index # peerPool'[q].Index]_govVars
=============================================================================
