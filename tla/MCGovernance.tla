--------------------------- MODULE MCGovernance ---------------------------
(***************************************************************************)
(* An instance of Governance: peer 1 is in the genesis configuration, peer *)
(* 2 may register; o1 and o2 own them and u authorizes.  One consensus     *)
(* seat (K = 1), so that the two peers compete for it; three epochs, of    *)
(* which the first is split by executeSplit and the others by executeSplit2.*)
(* The split curve is the code's, divided by 1000.                         *)
(***************************************************************************)
EXTENDS Governance

mcOwner == 1 :> "o1" @@ 2 :> "o2"

\* o2 can register with one ONT and add one; u can authorize one.
mcWallet == "o1" :> 0 @@ "o2" :> 2 @@ "u" :> 1

mcConfig == [K |-> 1, MaxBlockChangeView |-> 2, sound |-> TRUE]

\* No candidate fee: with one, registering and unregistering collects ONG without end.
mcGlobalParam == [CandidateFee |-> 0, MinInitStake |-> 1, CandidateNum |-> 4, PosLimit |-> 2,
                  A |-> 50, B |-> 50, Yita |-> 5, Penalty |-> 50]
mcGlobalParam2 == [MinAuthorizePos |-> 1, CandidateFeeSplitNum |-> 4, DappFee |-> 50]

mcXi == <<0, 10, 20, 30, 40, 50, 60, 70, 80, 90, 100, 110, 120, 130>>
mcCurve == <<0, 95, 180, 258, 327, 389, 444, 493, 536, 573, 606, 634, 658, 678>>

\* Only peer 2 admits authorizations until its owner changes that.
mcAttributes == [p \in Peers |-> [MaxAuthorize |-> p - 1, T2PeerCost |-> 50,
                                  T1PeerCost |-> 50, TPeerCost |-> 50]]

mcConfigs == {mcConfig}
mcGlobalParams == {mcGlobalParam}
mcGlobalParams2 == {mcGlobalParam2}
mcCurves == {mcCurve}
=============================================================================
