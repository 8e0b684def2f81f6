------------------------------ MODULE CrossChain ------------------------------
(***************************************************************************)
(* Cross-chain transfers (native/cross_chain): the header sync contract,   *)
(* the cross chain manager and the lock proxy, with the operator of the    *)
(* global parameter contract and one other chain.                          *)
(*                                                                         *)
(* cc holds what the three contracts store for the other chain.  far is    *)
(* that chain, modelled from how the contracts use it (external): it signs *)
(* headers with the peers in office, mints what a request asks for once,   *)
(* and burns tokens to send them back.  Relayers deliver headers and       *)
(* proofs late, twice, in any order, or never.  The ledger's side of a     *)
(* request is the proof of its cross state, which a block commits to.      *)
(***************************************************************************)
EXTENDS GlobalParams, Sequences, FiniteSets, SequencesExt, FiniteSetsExt

CONSTANTS
    CcUser,         \* the tokens the users hold at the start
    CcValues,       \* values asked to be locked or sent back
    CcLimits,       \* limits an asset binding can set
    CcProxy,        \* the proxy contract on the other chain
    CcNoProxy,      \* no proxy is bound
    FarGenesis,     \* its peers at height 0
    FarConfig,      \* height |-> the peers a new chain config of that block sets
    FarHeights,     \* bound on its height
    HeightModulus,  \* heights are uint32; a smaller power of two for TLC
    MaxCcCalls      \* bound on the calls of the contracts

VARIABLES cc, far, ccCalls

ccVars == <<cc, far, ccCalls>>

PeerNames == FarGenesis \cup UNION Range(FarConfig)

\* A header of the other chain: config is empty when the block has no new chain
\* config; msgs is what its cross state root commits to.
IsHeader(x) == x.height \in 0..FarHeights /\ x.config \subseteq PeerNames /\ x.signers \subseteq PeerNames
IsMessage(m) == m.id \in Nat /\ m.value \in CcValues /\ m.from = CcProxy

\* The heights of headers with a new chain config, greatest first, and their peers.
IsKeyHeights(list) == \A i \in 2..Len(list) : list[i] < list[i - 1]

CcCall == ccCalls < MaxCcCalls /\ ccCalls' = ccCalls + 1 /\ UNCHANGED far

-------------------------------------------------------------------------------
(* Header sync *)

GetHeaderByHeight(c, h) == GetStorageItem(c.header, h)

PutBlockHeader(c, header) == [c EXCEPT !.header = PutBytes(@, header.height, header)]

\* Serialization sorts the key heights, greatest first.
putKeyHeights(c, h) ==
    [c EXCEPT !.keyHeights = SetToSortSeq(Range(@) \cup {h}, LAMBDA x, y : x > y)]

putConsensusPeers(c, header) ==
    putKeyHeights([c EXCEPT !.peers = PutBytes(@, header.height, header.config)],
                  header.height)

UpdateConsensusPeer(c, header) ==
    IF header.config = {} THEN c ELSE putConsensusPeers(c, header)

\* The difference is unsigned, so it is positive for every other height.
IsKeyHeight(h, v) == (h - v) % HeightModulus > 0

findKeyHeight(c, h) ==
    SelectInSeq(c.keyHeights, LAMBDA v : IsKeyHeight(h, v))

\* The signers are two thirds of the peers in office since the key height.
VerifyHeader(c, header) ==
    LET i == findKeyHeight(c, header.height)
    IN /\ i # 0
       /\ LET peers == c.peers[c.keyHeights[i]]
          IN /\ Cardinality(header.signers) * 3 >= Cardinality(peers) * 2
             /\ header.signers \subseteq peers

ProcessHeader(c, header) == UpdateConsensusPeer(PutBlockHeader(c, header), header)

SyncGenesisHeader ==
    /\ CcCall
    /\ RoleSigns("operator")
    /\ cc' = ProcessHeader(cc, far.header[0])
    /\ UNCHANGED gpVars

\* A header that is stored already is skipped.
SyncBlockHeader(h) ==
    /\ CcCall
    /\ ~GetHeaderByHeight(cc, h)
    /\ VerifyHeader(cc, far.header[h])
    /\ cc' = ProcessHeader(cc, far.header[h])
    /\ UNCHANGED gpVars

-------------------------------------------------------------------------------
(* Cross chain manager *)

getCrossChainID(c) == c.nextId

putRequest(c, id, value) == [c EXCEPT !.request = PutBytes(@, id, value)]

MakeFromOntProof(c, value) ==
    putRequest([c EXCEPT !.nextId = @ + 1], getCrossChainID(c), value)

checkDoneTx(c, id) == id \notin c.done

putDoneTx(c, id) == [c EXCEPT !.done = @ \cup {id}]

\* The proof leads to the header's cross state root.
MerkleProve(header, msg) == msg \in header.msgs

-------------------------------------------------------------------------------
(* Lock proxy *)

BindProxyHash ==
    /\ CcCall
    /\ RoleSigns("operator")
    /\ cc' = [cc EXCEPT !.proxy = CcProxy]
    /\ UNCHANGED gpVars

\* The limit only grows; for an asset of the other chain its growth counts as
\* crossed already.
BindAssetHash(limit, isTargetChainAsset) ==
    /\ CcCall
    /\ RoleSigns("operator")
    /\ limit > cc.limit
    /\ cc' = [cc EXCEPT !.asset = TRUE, !.limit = limit,
                        !.crossed = @ + IF isTargetChainAsset THEN limit - cc.limit ELSE 0]
    /\ UNCHANGED gpVars

Lock(value) ==
    /\ CcCall
    /\ value # 0 /\ value <= cc.user
    /\ cc.crossed + value <= cc.limit
    /\ cc.proxy # CcNoProxy
    /\ cc' = MakeFromOntProof([cc EXCEPT !.user = @ - value, !.locked = @ + value,
                                         !.crossed = @ + value], value)
    /\ UNCHANGED gpVars

\* A message of value 0 succeeds and moves nothing.
canUnlock(c, msg) == msg.from = c.proxy /\ msg.value <= c.locked

Unlock(c, msg) ==
    [c EXCEPT !.locked = @ - msg.value, !.user = @ + msg.value,
              !.crossed = @ - msg.value]

-------------------------------------------------------------------------------
\* A mutated form: a message that was processed before is not refused.
VerifyToOntTxAgain(c, header, msg) == MerkleProve(header, msg)

VerifyToOntTx(c, header, msg) == MerkleProve(header, msg) /\ checkDoneTx(c, msg.id)

\* The header of the proof is stored, or comes with the call and is verified
\* and stored by it.
ProcessCrossChainTx(h, msg) ==
    /\ CcCall
    /\ GetHeaderByHeight(cc, h) \/ VerifyHeader(cc, far.header[h])
    /\ LET c == IF GetHeaderByHeight(cc, h) THEN cc ELSE ProcessHeader(cc, far.header[h])
       IN /\ VerifyToOntTx(c, c.header[h], msg)
          /\ canUnlock(c, msg)
          /\ cc' = Unlock(putDoneTx(c, msg.id), msg)
    /\ UNCHANGED gpVars

-------------------------------------------------------------------------------
(* The other chain *)

FarHeight == Max(DOMAIN far.header)

PeersAt(h) ==
    LET changes == {k \in DOMAIN FarConfig : k < h}
    IN IF changes = {} THEN FarGenesis ELSE FarConfig[Max(changes)]

FarUnchanged == UNCHANGED <<cc, ccCalls, gpVars>>

\* It serves a request of the lock proxy once.
FarMint(id) ==
    /\ id \in DOMAIN cc.request \ far.served
    /\ far' = [far EXCEPT !.served = @ \cup {id}, !.supply = @ + cc.request[id]]
    /\ FarUnchanged

FarSend(value) ==
    /\ value <= far.supply
    /\ far' = [far EXCEPT !.supply = @ - value, !.sent = @ + 1,
                          !.pending = @ \cup {[id |-> far.sent, from |-> CcProxy,
                                               value |-> value]}]
    /\ FarUnchanged

\* A block commits to the messages since the last one.
FarBlock ==
    /\ FarHeight < FarHeights
    /\ LET h == FarHeight + 1
           config == IF h \in DOMAIN FarConfig THEN FarConfig[h] ELSE {}
       IN far' = [far EXCEPT
                     !.header = PutBytes(@, h, [height |-> h, config |-> config,
                                                signers |-> PeersAt(h),
                                                msgs |-> far.pending]),
                     !.pending = {}]
    /\ FarUnchanged

CcInit ==
    /\ cc = [header |-> Empty, keyHeights |-> <<>>, peers |-> Empty, nextId |-> 0,
             request |-> Empty, done |-> {}, proxy |-> CcNoProxy, asset |-> FALSE,
             limit |-> 0, crossed |-> 0, locked |-> 0, user |-> CcUser]
    /\ far = [header |-> (0 :> [height |-> 0, config |-> FarGenesis,
                                signers |-> {}, msgs |-> {}]),
              served |-> {}, supply |-> 0, sent |-> 0, pending |-> {}]
    /\ ccCalls = 0

CcNext ==
    \/ SyncGenesisHeader \/ BindProxyHash
    \/ \E limit \in CcLimits : BindAssetHash(limit, FALSE)
    \/ \E value \in CcValues : Lock(value) \/ FarSend(value)
    \/ \E id \in DOMAIN cc.request : FarMint(id)
    \/ FarBlock
    \/ \E h \in DOMAIN far.header :
          \/ SyncBlockHeader(h)
          \/ \E msg \in far.header[h].msgs : ProcessCrossChainTx(h, msg)

-------------------------------------------------------------------------------
CcTypeOK ==
    /\ \A h \in DOMAIN cc.header : IsHeader(cc.header[h]) /\ cc.header[h].height = h
    /\ IsKeyHeights(cc.keyHeights) /\ Range(cc.keyHeights) = DOMAIN cc.peers
    /\ \A h \in DOMAIN cc.peers : cc.peers[h] \subseteq PeerNames
    /\ \A h \in DOMAIN far.header : IsHeader(far.header[h]) /\ \A m \in far.header[h].msgs : IsMessage(m)
    /\ Range(cc.request) \subseteq CcValues /\ cc.done \subseteq 0..far.sent
    /\ {cc.nextId, cc.limit, cc.crossed, cc.locked, cc.user} \subseteq Nat
    /\ ccCalls \in 0..MaxCcCalls

\* What the lock proxy counts as crossed is exactly what is on the other chain
\* or on the way: requests not served yet, tokens minted, and messages sent
\* back that were not processed; and the proxy still holds it (Lock, Unlock,
\* MakeFromOntProof, VerifyToOntTx).  A proof that is delivered twice, or a
\* reused request ID, would break it.
CrossedIsOutstanding ==
    LET OnTheWay == MapThenSumSet(LAMBDA id : cc.request[id], DOMAIN cc.request \ far.served)
        sentBack == far.pending \cup UNION {far.header[h].msgs : h \in DOMAIN far.header}
        coming == {m \in sentBack : m.id \notin cc.done}
    IN /\ cc.crossed = OnTheWay + far.supply + MapThenSumSet(LAMBDA m : m.value, coming)
       /\ cc.locked >= cc.crossed

\* A header that the other chain's peers in office signed is accepted at
\* whatever height it is synced, once the key heights below it are known:
\* what the comment on VerifyHeader promises.
AnyHeightVerifies ==
    \A h \in DOMAIN far.header \ DOMAIN cc.header :
        (\A k \in {0} \cup {x \in DOMAIN FarConfig : x < h} : k \in DOMAIN cc.peers)
            => VerifyHeader(cc, far.header[h])
===============================================================================
