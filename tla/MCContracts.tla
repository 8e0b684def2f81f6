---------------------------- MODULE MCContracts ----------------------------
(***************************************************************************)
(* The native contracts but governance, in one run.  They share the         *)
(* storage layer and not their state, except that Auth checks signatures    *)
(* through OntId and the cross-chain contracts ask GlobalParams for the     *)
(* operator.  `focus` picks, at the start, the contract (or the pair) that  *)
(* a behaviour exercises; the others keep their initial states, so the      *)
(* states are the union, and not the product, of the contracts' own.        *)
(***************************************************************************)
EXTENDS OntToken, OntFs, Auth, CrossChain

VARIABLE focus

contractVars == <<focus, tokenVars, fsVars, idVars, authVars, gpVars, ccVars>>

mcGen == <<2, 1>>

mcFsParam == [NodePerKbPledge |-> 1, NodeMinVolume |-> 2, SpacePerBlockFeeRate |-> 1,
              FilePerBlockFeeRate |-> 1, MinTimeForFileStorage |-> 1,
              FilePerServerPdpTimes |-> 2, ContractInvokeGasFee |-> 1, ChallengeReward |-> 1,
              ChallengeInterval |-> 1, FeePerBlockForRead |-> 1]
mcFsParams == {[mcFsParam EXCEPT !.ChallengeReward = 2]}
mcOwners == Permutations(FsOwners)

\* One recovery group, with a group inside: y, and one of x and y.
mcId(i) == [kind |-> "id", id |-> i]
mcInner == [members |-> <<mcId("x"), mcId("y")>>, threshold |-> 1]
mcGroups == {[members |-> <<mcId("y"), [kind |-> "group", group |-> mcInner]>>, threshold |-> 2]}
mcAttributes == {<<"a">>, <<"b", "c">>}

mcParams == "p" :> 1
mcPeers == 2 :> {"n2", "n3", "n4"}

\* In the behaviours about OntId: x is new, y has a key and z was revoked.
\* In those about Auth all three have a key and the calls to OntId are nearly used up.
mcIds == IF focus = "auth"
         THEN "x" :> Registered("k1") @@ "y" :> Registered("ky") @@ "z" :> Registered("k2")
         ELSE "x" :> Blank @@ "y" :> Registered("ky") @@ "z" :> [Blank EXCEPT !.flag = "revoke"]

ContractsInit ==
    /\ focus \in {"token", "fs", "id", "auth", "cross"}
    /\ TokenInit /\ FsInit /\ AuthInit /\ GpInit /\ CcInit
    /\ did = mcIds /\ idUpgraded = FALSE
    /\ idCalls = IF focus = "auth" THEN MaxIdCalls - 1 ELSE 0

ContractsNext ==
    /\ UNCHANGED focus
    /\ \/ /\ focus = "token" /\ TokenNext
          /\ UNCHANGED <<fsVars, idVars, authVars, gpVars, ccVars>>
       \/ /\ focus = "fs" /\ FsNext
          /\ UNCHANGED <<tokenVars, idVars, authVars, gpVars, ccVars>>
       \/ /\ focus = "id" /\ IdNext
          /\ UNCHANGED <<tokenVars, fsVars, authVars, gpVars, ccVars>>
       \/ /\ focus = "auth" /\ AuthStep
          /\ UNCHANGED <<tokenVars, fsVars, idVars, gpVars, ccVars>>
       \/ /\ focus = "auth" /\ \E id \in Ids : revokeID(id) \/ \E k \in IdKeys : removeKey(id, k)
          /\ UNCHANGED <<tokenVars, fsVars, authVars, gpVars, ccVars>>
       \/ /\ focus = "cross" /\ CcNext
          /\ UNCHANGED <<tokenVars, fsVars, idVars, authVars, gpVars>>
       \/ /\ focus = "cross" /\ GpNext
          /\ UNCHANGED <<tokenVars, fsVars, idVars, authVars, ccVars>>

\* The type invariant of the contracts the behaviour exercises.
ContractsTypeOK ==
    CASE focus = "token" -> TokenTypeOK
      [] focus = "fs"    -> FsTypeOK
      [] focus = "id"    -> IdTypeOK
      [] focus = "auth"  -> IdTypeOK /\ AuthTypeOK
      [] focus = "cross" -> GpTypeOK /\ CcTypeOK

ContractsSpec == ContractsInit /\ [][ContractsNext]_contractVars
=============================================================================
