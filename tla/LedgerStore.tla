---------------------------- MODULE LedgerStore ----------------------------
(***************************************************************************)
(* The ledger of a node: core/store/ledgerstore.  One process keeps a      *)
(* block store, an event store, a state store and a cross-chain store,     *)
(* four LevelDB databases that are committed one after the other.  Blocks  *)
(* arrive from block sync (AddBlock) and from consensus (ExecuteBlock and  *)
(* later SubmitBlock); the process may crash, and any commit may fail.     *)
(*                                                                         *)
(* Blocks come from one agreed chain, so a block is named by its height    *)
(* and Chain[h] is its transactions root.  A Merkle tree is the sequence   *)
(* of its leaves (the root hash is injective); the contract state is the   *)
(* number of times each non-empty block has been executed on it.           *)
(***************************************************************************)
EXTENDS Integers, Sequences, FiniteSets

CONSTANTS
    MaxHeight,            \* bound: last height of the chain
    Chain,                \* transactions root of the block of each height
    EmptyRoot,            \* UINT256_EMPTY: root of a block without transactions
    NoWrites,             \* hash of an empty write set
    StateHashCheckHeight, \* first height whose state enters the delta tree
    CrossHeights,         \* heights whose block carries a cross-chain message
    CrossPutFails,        \* may a write to the cross-chain store return an error?
    LastConfig,           \* last block, up to each height, with a chain config
    HeaderBatch,          \* HEADER_INDEX_BATCH_SIZE
    PreserveLen,          \* what EnableBlockPrune sets, 0: never called
    PruneBatch,           \* pruneBatchSize
    DeprecateHeight,      \* config.GetContractApiDeprecateHeight()
    Word                  \* 2^w: height arithmetic is on w-bit unsigned words

Heights == 0..MaxHeight

ASSUME BoundsAssumption ==
    /\ MaxHeight \in Nat
    /\ StateHashCheckHeight \in Nat
    /\ HeaderBatch \in Nat \ {0}
    /\ PreserveLen \in Nat
    /\ PruneBatch \in Nat \ {0}
    /\ DeprecateHeight \in Nat
    /\ Word \in Nat /\ Word > MaxHeight /\ Word > PreserveLen

ASSUME HeadersAssumption ==
    /\ CrossHeights \subseteq Heights \ {0}
    /\ CrossPutFails \in BOOLEAN
    /\ LastConfig \in [Heights -> Heights]
    /\ \A h \in Heights : LastConfig[h] <= h

\* A transaction is in one block only, so two blocks have the same root only
\* when both are empty; the genesis block deploys the native contracts.
ASSUME ChainAssumption ==
    /\ DOMAIN Chain = Heights
    /\ Chain[0] # EmptyRoot
    /\ \A i, j \in Heights : i # j /\ Chain[i] = Chain[j] => Chain[i] = EmptyRoot

VARIABLES
    \* on disk
    version,   \* SYSTEM_VERSION saved: the genesis block is initialised
    blk,       \* block store: current height, blocks held, pruned height, index lists
    evt,       \* event store: current height, heights whose events are saved
    st,        \* state store: current height, contract state, trees, state roots
    cross,     \* cross-chain store: heights with a message
    \* in memory
    proc,      \* phase of the process
    cur,       \* currBlockHeight
    hdrIdx,    \* heights in headerIndex
    storedIdx, \* storedIndexCount
    tree,      \* stateStore.merkleTree
    delta,     \* stateStore.deltaMerkleTree
    preserve,  \* preserveBlockHistoryLength
    closing,   \* Close was called
    job,       \* the save in progress: whoever holds savingBlockSemaphore
    sync,      \* block sync between AddBlock's checks and saveBlock
    cons       \* consensus: the last result of ExecuteBlock

disk == <<version, blk, evt, st, cross>>
memory == <<proc, cur, hdrIdx, storedIdx, tree, delta, preserve, closing>>
vars == <<disk, memory, job, sync, cons>>

-----------------------------------------------------------------------------
(* Values.                                                                  *)

ContractState == [Heights -> Nat]
NoState == [i \in Heights |-> 0]

NoRes == [post |-> NoState, leaf |-> NoWrites]
NewJob(who, h, step, res) ==
    [who |-> who, h |-> h, step |-> step, res |-> res, list |-> {}, gone |-> {}]
NoJob == NewJob("none", 0, "none", NoRes)
NoReq == [h |-> -1, good |-> FALSE]

EmptyBlk == [cur |-> -1, have |-> {}, pruned |-> 0, idx |-> {}]
EmptyEvt == [cur |-> -1, saved |-> {}]
EmptySt  == [cur |-> -1, exec |-> NoState, tree |-> <<>>, delta |-> <<>>, roots |-> {}]

\* The contract state, block tree and delta tree of a ledger that executed
\* every block up to height h exactly once.
GoodState(h) == [i \in Heights |-> IF i <= h /\ Chain[i] # EmptyRoot THEN 1 ELSE 0]
GoodTree(h) == [i \in 1..(h + 1) |-> Chain[i - 1]]
GoodLeaf(h) ==
    IF Chain[h] = EmptyRoot /\ h # StateHashCheckHeight THEN NoWrites ELSE GoodState(h)
GoodDelta(h) ==
    [i \in 1..(h - StateHashCheckHeight + 1) |-> GoodLeaf(StateHashCheckHeight + i - 1)]

\* executeBlock: run the transactions of block h on the committed state.
executeBlock(h) ==
    LET post == IF Chain[h] = EmptyRoot THEN st.exec
                ELSE [st.exec EXCEPT ![h] = @ + 1]
    IN [post |-> post,
        leaf |-> IF Chain[h] = EmptyRoot /\ h # StateHashCheckHeight
                 THEN NoWrites ELSE post]

\* AddStateMerkleTreeRoot: the delta tree after the write-set hash of block h.
WithLeaf(h, leaf) ==
    CASE h < StateHashCheckHeight -> delta
      [] h = StateHashCheckHeight -> <<leaf>>
      [] OTHER -> Append(delta, leaf)

\* result.MerkleRoot; below the check height it is UINT256_EMPTY.
StateRoot(h, leaf) == IF h < StateHashCheckHeight THEN <<>> ELSE WithLeaf(h, leaf)

\* verifyHeader finds the previous header in the header cache, the block cache
\* or the store, which together hold every indexed header from cur on; what the
\* signatures and timestamps decide is left open (a refusal changes nothing).
PrevHeaderKnown(h) == h - 1 \in hdrIdx

-----------------------------------------------------------------------------
(* Start-up: NewLedgerStore and InitLedgerStoreWithGenesisBlock.            *)

\* StateStore.init: the saved trees must have one leaf per saved block; the
\* height is 0 when no current block is saved.
StateStoreInitOK ==
    LET height == IF st.cur < 0 THEN 0 ELSE st.cur
    IN /\ Len(st.tree) > 0 => Len(st.tree) = height + 1
       /\ height >= StateHashCheckHeight /\ Len(st.delta) > 0 =>
              Len(st.delta) = height - StateHashCheckHeight + 1

\* Mutant: the first height after the stored lists is skipped.
LoadedIndexSkipsOne ==
    blk.idx \cup {h \in Heights : Cardinality(blk.idx) < h /\ h <= blk.cur}

\* loadHeaderIndexList: the stored lists, then one block hash per height from
\* their count to the current block.
LoadedIndex == blk.idx \cup {h \in Heights : Cardinality(blk.idx) <= h /\ h <= blk.cur}

\* Mutant: a state store that is behind is taken for a ledger without genesis.
OpenStoresReinitialises ==
    /\ proc = "down"
    /\ StateStoreInitOK
    /\ tree' = st.tree
    /\ delta' = st.delta
    /\ IF version /\ st.cur = blk.cur
       THEN /\ proc' = "recover"
            /\ cur' = blk.cur
            /\ hdrIdx' = LoadedIndex
            /\ storedIdx' = Cardinality(blk.idx)
            /\ job' = NewJob("init", st.cur, "exec", NoRes)
       ELSE /\ proc' = "genesis"
            /\ job' = NewJob("init", 0, "clearBlk", NoRes)
            /\ UNCHANGED <<cur, hdrIdx, storedIdx>>
    /\ UNCHANGED <<disk, preserve, closing, sync, cons>>

\* The stores are opened; the trees are loaded before anything is cleared.
OpenStores ==
    /\ proc = "down"
    /\ StateStoreInitOK
    /\ tree' = st.tree
    /\ delta' = IF (IF st.cur < 0 THEN 0 ELSE st.cur) >= StateHashCheckHeight
                THEN st.delta ELSE <<>>
    /\ IF version
       THEN /\ 0 \in blk.have
            /\ proc' = "recover"
            /\ cur' = blk.cur
            /\ hdrIdx' = LoadedIndex
            /\ storedIdx' = Cardinality(blk.idx)
            /\ job' = NewJob("init", st.cur, "exec", NoRes)
       ELSE /\ proc' = "genesis"
            /\ job' = NewJob("init", 0, "clearBlk", NoRes)
            /\ UNCHANGED <<cur, hdrIdx, storedIdx>>
    /\ UNCHANGED <<disk, preserve, closing, sync, cons>>

\* An inconsistent tree size makes every start fail: the process exits.
OpenRefused ==
    /\ proc = "down"
    /\ ~StateStoreInitOK
    /\ UNCHANGED vars

\* Without a version the three stores are cleared, one commit each.
ClearAll ==
    /\ proc = "genesis"
    /\ \/ /\ job.step = "clearBlk"
          /\ blk' = EmptyBlk
          /\ job' = [job EXCEPT !.step = "clearSt"]
          /\ UNCHANGED <<st, evt>>
       \/ /\ job.step = "clearSt"
          /\ st' = EmptySt
          /\ job' = [job EXCEPT !.step = "clearEvt"]
          /\ UNCHANGED <<blk, evt>>
       \/ /\ job.step = "clearEvt"
          /\ evt' = EmptyEvt
          /\ job' = [job EXCEPT !.step = "batch", !.res = executeBlock(0)]
          /\ UNCHANGED <<blk, st>>
    /\ UNCHANGED <<version, cross, memory, sync, cons>>

\* initGenesisBlock, after the genesis block went through submitBlock.
SaveVersion ==
    /\ proc = "genesis"
    /\ job.step = "version"
    /\ version' = TRUE
    /\ proc' = "up"
    /\ job' = NoJob
    /\ UNCHANGED <<blk, evt, st, cross, cur, hdrIdx, storedIdx, tree, delta,
                   preserve, closing, sync, cons>>

\* recoverStore: one round of the loop for i := stateHeight; i < blockHeight.
RecoverBlock ==
    /\ proc = "recover"
    /\ job.step = "exec"
    /\ job.h < cur
    /\ job.h \in blk.have
    /\ LET res == executeBlock(job.h) IN
       /\ delta' = WithLeaf(job.h, res.leaf)
       /\ tree' = Append(tree, Chain[job.h])
       /\ job' = [job EXCEPT !.step = "evt", !.res = res]
    /\ UNCHANGED <<disk, proc, cur, hdrIdx, storedIdx, preserve, closing, sync, cons>>

\* The loop is over; the chain config is read from the current header.
RecoverDone ==
    /\ proc = "recover"
    /\ job.step = "exec"
    /\ job.h >= cur
    /\ {cur, LastConfig[cur]} \subseteq blk.have
    /\ proc' = "up"
    /\ job' = NoJob
    /\ UNCHANGED <<disk, cur, hdrIdx, storedIdx, tree, delta, preserve, closing,
                   sync, cons>>

-----------------------------------------------------------------------------
(* submitBlock: the body shared by AddBlock, SubmitBlock and the genesis.   *)

\* Mutant: the chain config does not limit pruning.
maxAllowedPruneHeightIgnoresConfig(h) == IF h <= DeprecateHeight THEN 0 ELSE h

\* maxAllowedPruneHeight: no block from the last chain config on is pruned.
maxAllowedPruneHeight(h) ==
    IF h <= DeprecateHeight \/ LastConfig[h] = 0 THEN 0 ELSE LastConfig[h] - 1

\* tryPruneBlock's limit: the loop prunes below it.  Heights are unsigned words.
PruneLimit(h) ==
    LET height == maxAllowedPruneHeight(h)
    IN IF (height + preserve) % Word >= h THEN (h - preserve) % Word ELSE height
PruneEnabled(h) == preserve # 0 /\ (blk.pruned + 1) % Word < PruneLimit(h)
PruneEnd(h) ==
    IF blk.pruned + PruneBatch < PruneLimit(h) THEN blk.pruned + PruneBatch ELSE PruneLimit(h)
PruneRange(h) ==
    IF PruneEnabled(h) THEN {k \in Heights : blk.pruned < k /\ k < PruneEnd(h)} ELSE {}

\* Mutant: a list is stored with every block.
NextIndexListUnbatched == storedIdx..(storedIdx + HeaderBatch - 1)

\* saveHeaderIndexList: the heights of the next list, empty when none is due.
NextIndexList ==
    IF (cur - storedIdx) % Word < HeaderBatch THEN {} ELSE storedIdx..(storedIdx + HeaderBatch - 1)

\* saveHeaderIndexList: storedIndexCount grows by a whole batch with each list.
NextStoredIdx == IF NextIndexList = {} THEN storedIdx ELSE storedIdx + HeaderBatch

\* Mutant: the block root of the header is not compared.
FillBatchesUnchecked ==
    /\ job.step = "batch"
    /\ hdrIdx' = hdrIdx \cup {job.h}
    /\ storedIdx' = NextStoredIdx
    /\ cross' = IF job.h \in CrossHeights THEN cross \cup {job.h - 1} ELSE cross
    /\ delta' = WithLeaf(job.h, job.res.leaf)
    /\ tree' = Append(tree, Chain[job.h])
    /\ job' = [job EXCEPT !.step = "blk", !.list = NextIndexList,
                           !.gone = PruneRange(job.h)]
    /\ UNCHANGED <<version, blk, evt, st, proc, cur, preserve, closing, sync, cons>>

\* The block root is checked, the batches are filled; the in-memory index and
\* trees advance here, and the cross-chain message is written to disk at once.
FillBatches ==
    /\ job.step = "batch"
    /\ job.h # 0 => Append(tree, Chain[job.h]) = GoodTree(job.h)
    /\ hdrIdx' = hdrIdx \cup {job.h}
    /\ storedIdx' = NextStoredIdx
    /\ cross' = IF job.h \in CrossHeights THEN cross \cup {job.h - 1} ELSE cross
    /\ delta' = WithLeaf(job.h, job.res.leaf)
    /\ tree' = Append(tree, Chain[job.h])
    /\ job' = [job EXCEPT !.step = "blk", !.list = NextIndexList,
                           !.gone = PruneRange(job.h)]
    /\ UNCHANGED <<version, blk, evt, st, proc, cur, preserve, closing, sync, cons>>

\* Mutant: the semaphore is not released on the error.
WrongBlockRootHolds ==
    /\ proc = "up"
    /\ job.step = "batch"
    /\ Append(tree, Chain[job.h]) # GoodTree(job.h)
    /\ job' = [job EXCEPT !.step = "held"]
    /\ UNCHANGED <<disk, memory, sync, cons>>

\* "wrong block root": the save ends with an error before any batch.
WrongBlockRoot ==
    /\ proc = "up"
    /\ job.step = "batch"
    /\ Append(tree, Chain[job.h]) # GoodTree(job.h)
    /\ job' = NoJob
    /\ UNCHANGED <<disk, memory, sync, cons>>

\* The write of the cross-chain message returns an error: the index has advanced
\* in memory and counts its next list as stored, the trees have not advanced.
CrossStoreError ==
    /\ CrossPutFails
    /\ proc = "up"
    /\ job.step = "batch"
    /\ job.h \in CrossHeights
    /\ Append(tree, Chain[job.h]) = GoodTree(job.h)
    /\ hdrIdx' = hdrIdx \cup {job.h}
    /\ storedIdx' = NextStoredIdx
    /\ job' = NoJob
    /\ UNCHANGED <<disk, proc, cur, tree, delta, preserve, closing, sync, cons>>

\* Mutant: setCurrentBlock runs before the commits.
CommitBlockStoreShows ==
    /\ job.step = "blk"
    /\ \/ /\ cur # job.h
          /\ cur' = job.h
          /\ UNCHANGED <<blk, job>>
       \/ /\ cur = job.h
          /\ blk' = [blk EXCEPT !.cur = job.h, !.have = @ \cup {job.h},
                                !.idx = @ \cup job.list]
          /\ job' = [job EXCEPT !.step = "evt"]
          /\ UNCHANGED cur
    /\ UNCHANGED <<version, evt, st, cross, proc, hdrIdx, storedIdx, tree, delta,
                   preserve, closing, sync, cons>>

\* blockStore.CommitTo
CommitBlockStore ==
    /\ job.step = "blk"
    /\ blk' = [cur    |-> job.h,
               have   |-> (blk.have \ job.gone) \cup {job.h},
               pruned |-> IF PruneEnabled(job.h) THEN PruneEnd(job.h) ELSE blk.pruned,
               idx    |-> blk.idx \cup job.list]
    /\ job' = [job EXCEPT !.step = "evt"]
    /\ UNCHANGED <<version, evt, st, cross, memory, sync, cons>>

\* Mutant: the events are left for later, after the state.
CommitEventStoreSkipped ==
    /\ job.step = "evt"
    /\ job' = [job EXCEPT !.step = "st"]
    /\ UNCHANGED <<version, blk, evt, st, cross, memory, sync, cons>>

\* eventStore.CommitTo; a block without transactions saves no events.
CommitEventStore ==
    /\ job.step = "evt"
    /\ evt' = [cur   |-> job.h,
               saved |-> (evt.saved \ job.gone)
                            \cup (IF Chain[job.h] = EmptyRoot THEN {} ELSE {job.h})]
    /\ job' = [job EXCEPT !.step = "st"]
    /\ UNCHANGED <<version, blk, st, cross, memory, sync, cons>>

\* stateStore.CommitTo: the write set of the result replaces what it wrote.
CommitStateStore ==
    /\ job.step = "st"
    /\ st' = [cur   |-> job.h,
              exec  |-> IF Chain[job.h] = EmptyRoot THEN st.exec ELSE job.res.post,
              tree  |-> tree,
              delta |-> IF job.h < StateHashCheckHeight THEN st.delta ELSE delta,
              roots |-> IF job.h < StateHashCheckHeight THEN st.roots
                        ELSE st.roots \cup {job.h}]
    /\ job' = IF proc = "recover" THEN [job EXCEPT !.step = "exec", !.h = @ + 1]
              ELSE [job EXCEPT !.step = "set"]
    /\ UNCHANGED <<version, blk, evt, cross, memory, sync, cons>>

\* A commit returns an error: the save ends, what is in memory stays there.
\* During start-up the error ends the process, which is the step Crash.
CommitError ==
    /\ proc = "up"
    /\ job.step \in {"blk", "evt", "st"}
    /\ job' = NoJob
    /\ UNCHANGED <<disk, memory, sync, cons>>

\* setCurrentBlock, then the semaphore is released.
FinishSave ==
    /\ job.step = "set"
    /\ cur' = job.h
    /\ job' = IF proc = "genesis" THEN [job EXCEPT !.step = "version"] ELSE NoJob
    /\ UNCHANGED <<disk, proc, hdrIdx, storedIdx, tree, delta, preserve, closing, sync, cons>>

-----------------------------------------------------------------------------
(* Callers of a running ledger.                                             *)

Idle == proc = "up" /\ job = NoJob

\* AddHeader, from block sync.
AddHeader ==
    LET h == Cardinality(hdrIdx) IN
    /\ proc = "up"
    /\ h \in Heights
    /\ PrevHeaderKnown(h)
    /\ hdrIdx' = hdrIdx \cup {h}
    /\ UNCHANGED <<disk, proc, cur, storedIdx, tree, delta, preserve, closing, job, sync, cons>>

\* AddBlock up to saveBlock, without the lock.  good: the state root sent with
\* the block is the agreed one.
AddBlock(h, good) ==
    /\ proc = "up"
    /\ sync = NoReq
    /\ h = cur + 1
    /\ PrevHeaderKnown(h)
    /\ sync' = [h |-> h, good |-> good]
    /\ UNCHANGED <<disk, memory, job, cons>>

\* saveBlock: the lock is taken, the height is checked again, the block is
\* executed and its state root compared.
SaveBlock ==
    /\ Idle
    /\ sync # NoReq
    /\ sync' = NoReq
    /\ IF closing \/ sync.h # cur + 1
       THEN job' = job
       ELSE LET res == executeBlock(sync.h)
                match == sync.good /\ StateRoot(sync.h, res.leaf) = GoodDelta(sync.h)
            IN job' = IF Chain[sync.h] = EmptyRoot \/ match
                      THEN NewJob("sync", sync.h, "batch", res)
                      ELSE job
    /\ UNCHANGED <<disk, memory, cons>>

\* ExecuteBlock, from consensus: at or below the current height only the saved
\* root is returned; above the next height it is an error.
ExecuteBlock(h) ==
    /\ Idle
    /\ h <= cur + 1
    /\ cons' = [h |-> h, res |-> IF h <= cur THEN NoRes ELSE executeBlock(h)]
    /\ UNCHANGED <<disk, memory, job, sync>>

\* SubmitBlock, from consensus, with the result of an earlier ExecuteBlock.
SubmitBlock ==
    /\ Idle
    /\ ~closing
    /\ cons.h = cur + 1
    /\ PrevHeaderKnown(cons.h)
    /\ job' = NewJob("cons", cons.h, "batch", cons.res)
    /\ UNCHANGED <<disk, memory, sync, cons>>

EnableBlockPrune ==
    /\ Idle
    /\ PreserveLen # 0
    /\ preserve' = PreserveLen
    /\ UNCHANGED <<disk, proc, cur, hdrIdx, storedIdx, tree, delta, closing, job,
                   sync, cons>>

Close ==
    /\ Idle
    /\ closing' = TRUE
    /\ UNCHANGED <<disk, proc, cur, hdrIdx, storedIdx, tree, delta, preserve, job,
                   sync, cons>>

\* The process ends, by a crash at any point or by an error during start-up.
Crash ==
    /\ proc # "down"
    /\ proc' = "down"
    /\ cur' = 0 /\ hdrIdx' = {} /\ storedIdx' = 0
    /\ tree' = <<>> /\ delta' = <<>> /\ preserve' = 0 /\ closing' = FALSE
    /\ job' = NoJob /\ sync' = NoReq /\ cons' = [h |-> -1, res |-> NoRes]
    /\ UNCHANGED disk

-----------------------------------------------------------------------------

Init ==
    /\ version = FALSE
    /\ blk = EmptyBlk /\ evt = EmptyEvt /\ st = EmptySt /\ cross = {}
    /\ proc = "down"
    /\ cur = 0 /\ hdrIdx = {} /\ storedIdx = 0
    /\ tree = <<>> /\ delta = <<>> /\ preserve = 0 /\ closing = FALSE
    /\ job = NoJob /\ sync = NoReq /\ cons = [h |-> -1, res |-> NoRes]

Next ==
    \/ OpenStores \/ OpenRefused \/ ClearAll \/ SaveVersion
    \/ RecoverBlock \/ RecoverDone
    \/ FillBatches \/ WrongBlockRoot \/ CrossStoreError
    \/ CommitBlockStore \/ CommitEventStore \/ CommitStateStore \/ CommitError
    \/ FinishSave
    \/ AddHeader
    \/ \E h \in Heights, good \in BOOLEAN : AddBlock(h, good)
    \/ SaveBlock
    \/ \E h \in Heights : ExecuteBlock(h)
    \/ SubmitBlock
    \/ EnableBlockPrune \/ Close \/ Crash

Spec == Init /\ [][Next]_vars

\* The goroutine that holds the semaphore keeps running.
SaveStep ==
    \/ FillBatches \/ WrongBlockRoot \/ CommitBlockStore \/ CommitEventStore
    \/ CommitStateStore \/ FinishSave

FairSpec == Spec /\ WF_vars(SaveStep)

-----------------------------------------------------------------------------
(* Properties.                                                              *)

Roots == {Chain[h] : h \in Heights}
Leaves == ContractState \cup {NoWrites}
Results == [post : ContractState, leaf : Leaves]
Steps == {"none", "clearBlk", "clearSt", "clearEvt", "exec", "batch", "blk",
          "evt", "st", "set", "version"}
JobType == [who : {"none", "init", "sync", "cons"}, h : Heights, step : Steps,
            res : Results, list : SUBSET Heights, gone : SUBSET Heights]
BlkType == [cur : Heights \cup {-1}, have : SUBSET Heights, pruned : Nat,
            idx : SUBSET Heights]

\* Types of the stores, the memory of the process and the pending requests.
TypeOK ==
    /\ version \in BOOLEAN
    /\ blk \in BlkType
    /\ evt \in [cur : Heights \cup {-1}, saved : SUBSET Heights]
    /\ st.cur \in Heights \cup {-1}
    /\ st.exec \in ContractState
    /\ st.tree \in Seq(Roots)
    /\ st.delta \in Seq(Leaves)
    /\ st.roots \in SUBSET Heights
    /\ cross \in SUBSET Heights
    /\ proc \in {"down", "genesis", "recover", "up"}
    /\ cur \in Heights
    /\ hdrIdx \in SUBSET Heights
    /\ storedIdx \in Nat
    /\ tree \in Seq(Roots)
    /\ delta \in Seq(Leaves)
    /\ preserve \in {0, PreserveLen}
    /\ closing \in BOOLEAN
    /\ job \in JobType
    /\ sync \in [h : Heights \cup {-1}, good : BOOLEAN]
    /\ cons \in [h : Heights \cup {-1}, res : Results]

\* Whenever the state store has caught up with the block store, the contract
\* state is that of every block executed exactly once: no crash, failed commit,
\* recovery or race of block sync with consensus applies a block twice or
\* leaves one out and goes on as if nothing had happened (submitBlock).
NoSilentCorruption ==
    version /\ st.cur = blk.cur => st.exec = GoodState(st.cur)

\* A block readers are shown is in the block store, so a restart shows it again
\* (setCurrentBlock comes after the commits of submitBlock).
ShownIsDurable == proc = "up" => cur <= blk.cur

\* No block is part of the saved contract state without its events: the event
\* store is committed first (submitBlock, recoverStore).
EventsBeforeState ==
    \A h \in Heights :
        version /\ h <= st.cur /\ h \in blk.have /\ Chain[h] # EmptyRoot => h \in evt.saved

\* The header index of a running node has no gap and reaches the current block:
\* loadHeaderIndexList restores what the stored lists, written only now and
\* then, left out; GetCurrentHeaderHeight counts its entries.  It holds unless a
\* write to the cross-chain store has failed.
HeaderIndexHasNoGap ==
    proc = "up" => hdrIdx = 0..(Cardinality(hdrIdx) - 1) /\ cur \in hdrIdx

\* The stores together implement the durable log (DurableLedger).
Ledger == INSTANCE DurableLedger WITH
              log  <- IF version THEN blk.cur ELSE -1,
              view <- IF proc = "up" THEN cur ELSE -1
ImplementsDurableLedger == Ledger!DLSpec

\* Whoever takes savingBlockSemaphore gives it back, on every error path too.
SaveEnds == proc = "up" /\ job # NoJob ~> job = NoJob

\* What recoverStore is for: a running node has executed every block it shows.
RecoveredStateCurrent == proc = "up" => cur <= st.cur

\* GetCurrentHeaderHeight returns the height of the last header, and a running
\* node has the header of every block it shows.
HeaderHeightCoversBlocks == proc = "up" => cur <= Cardinality(hdrIdx) - 1

\* StateStore.init's condition on the saved tree holds whenever the node starts.
SavedTreeFitsHeight == proc = "down" => StateStoreInitOK

\* EnableBlockPrune's contract, on the steps that drop blocks: a block goes only
\* when blockHeight + preserveBlockHistoryLength < currHeight.
PrunedIsOld ==
    [][\A k \in blk.have \ blk'.have : version => k + preserve < job.h]_vars

\* From height preserveBlockHistoryLength on, a block is dropped only when it is
\* older than the preserved history and than the last chain config, which a
\* restart reads (tryPruneBlock, maxAllowedPruneHeight).
PruneKeepsHistory ==
    [][\A k \in blk.have \ blk'.have : version /\ job.h >= preserve =>
           k > 0 /\ k + preserve < job.h /\ k < LastConfig[job.h]]_vars
=============================================================================
