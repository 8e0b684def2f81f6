--------------------------- MODULE VbftChainStore ---------------------------
(***************************************************************************)
(* How a VBFT node turns sealed blocks into blocks of the ledger: the      *)
(* ChainStore (consensus/vbft/chain_store.go), the sealing of a block      *)
(* (sealBlock, setBlockSealed), the BlockSubmit votes, and the ledger,     *)
(* which block sync advances on its own while consensus runs.              *)
(*                                                                         *)
(* A sealed block is executed at once but saved one block later: AddBlock  *)
(* of block n+1 saves block n, unless a quorum of BlockSubmit votes made   *)
(* the action loop save it earlier, or block sync saved it first.          *)
(*                                                                         *)
(* The chain is the agreed one: a block is its height.  The ledger is its  *)
(* height; what one save does inside is module LedgerStore's subject.      *)
(***************************************************************************)
EXTENDS Naturals, FiniteSets, Functions

CONSTANTS
    MaxHeight,      \* the highest block of the instance
    CrossHeights,   \* the blocks whose execution leaves cross-chain states
    MaxFails,       \* how many saves may fail with an error
    MaxSpawn        \* makeBlockSubmit goroutines alive at a time

ASSUME ChainStoreAssumption ==
    /\ MaxHeight \in Nat \ {0}
    /\ CrossHeights \subseteq 1..MaxHeight
    /\ MaxFails \in Nat
    /\ MaxSpawn \in Nat \ {0}

VARIABLES
    led,        \* db.GetCurrentBlockHeight()
    chained,    \* chainedBlockNum
    pending,    \* pendingBlocks: height -> block, execution result, hasSubmitted
    cur,        \* currentBlockNum, the round the node works on
    sealed,     \* the rounds whose candidate has a SealedBlock
    voted,      \* the rounds with a quorum of BlockSubmit messages in the pool
    spawn,      \* makeBlockSubmit goroutines that have not read currentBlockNum
    acts,       \* block numbers of the queued SubmitBlock actions
    seal,       \* where each goroutine that seals blocks stands
    member,     \* the node is in the consensus configuration
    fails       \* how many saves have failed

vars == <<led, chained, pending, cur, sealed, voted, spawn, acts, seal, member, fails>>

Heights == 1..MaxHeight

\* The action loop seals by sealProposal, the syncer by fastForwardBlock.
Sealers == {"action", "syncer"}

\* A result that is not full comes from ExecuteBlock of a block the ledger
\* already has: only its MerkleRoot is set.
PendingBlock == [blk : 0..MaxHeight, full : BOOLEAN, hasSubmitted : BOOLEAN]

Idle == [step |-> "idle", h |-> 0, num |-> 0]

\* num is the blkNum that AddBlock computed from the chained height
SealState == {Idle} \cup [step : {"lock", "exec", "finish"}, h : Heights, num : 0..MaxHeight]

Saved(h) == [blk |-> h, full |-> TRUE, hasSubmitted |-> TRUE]

\* OpenBlockStore
OpenBlockStore(height) == [k \in {height} |-> Saved(height)]

Init ==
    /\ led \in 0..1
    /\ chained = led
    /\ pending = OpenBlockStore(led)
    /\ cur = led + 1
    /\ sealed = {}
    /\ voted = {}
    /\ spawn = 0
    /\ acts = {}
    /\ seal = [s \in Sealers |-> Idle]
    /\ member = TRUE
    /\ fails = 0

\* pool.lock: one goroutine at a time is inside setBlockSealed
PoolFree == \A s \in Sealers : seal[s].step # "exec"

MoreSpawned == IF spawn < MaxSpawn THEN spawn + 1 ELSE spawn

-----------------------------------------------------------------------------
(* The chain store                                                         *)

\* submitBlock(k) has something to save.
Submittable(k) == k # 0 /\ k \in DOMAIN pending /\ ~pending[k].hasSubmitted

\* What the pending blocks are once block k is in the ledger.
AfterSubmit(k) ==
    [j \in DOMAIN pending \ {k - 1} |->
        IF j = k THEN [pending[k] EXCEPT !.hasSubmitted = TRUE] ELSE pending[j]]

\* Mutant: a block whose save fails is forgotten.
SubmitBlockForgets(k) ==
    IF Submittable(k) /\ pending[k].blk = led + 1 /\ fails < MaxFails
    THEN /\ fails' = fails + 1
         /\ pending' = Restrict(pending, DOMAIN pending \ {k})
         /\ UNCHANGED led
    ELSE UNCHANGED <<led, pending, fails>>

\* db.SubmitBlock: a block the ledger has is nothing to do, the next one is
\* saved, and any other is an error.  The save itself may fail.
SubmitBlock(k) ==
    \/ /\ ~Submittable(k)
       /\ UNCHANGED <<led, pending, fails>>
    \/ /\ Submittable(k)
       /\ pending[k].blk <= led + 1
       /\ led' = IF pending[k].blk = led + 1 THEN led + 1 ELSE led
       /\ pending' = AfterSubmit(k)
       /\ UNCHANGED fails
    \/ /\ Submittable(k)
       /\ pending[k].blk > led + 1
       /\ UNCHANGED <<led, pending, fails>>
    \/ /\ Submittable(k)
       /\ pending[k].blk = led + 1
       /\ fails < MaxFails
       /\ fails' = fails + 1
       /\ UNCHANGED <<led, pending>>

\* Mutant: a block beyond the next one is executed too.
ExecuteBlockFailsNever(h) == FALSE

\* db.ExecuteBlock refuses a block beyond the next one ...
ExecuteBlockFails(h) == h > led + 1

\* Mutant: the next block is taken for one the ledger has.
ExecuteBlockOffByOne(h) == [blk |-> h, full |-> h > led + 1, hasSubmitted |-> FALSE]

\* ... and executes only the next one.
ExecuteBlock(h) == [blk |-> h, full |-> h = led + 1, hasSubmitted |-> FALSE]

\* getCrossStatesRoot: is the root of block k's cross-chain states non-empty?
getCrossStatesRoot(k) ==
    IF k \in DOMAIN pending THEN pending[k].full /\ pending[k].blk \in CrossHeights
                            ELSE k \in CrossHeights

-----------------------------------------------------------------------------
(* Sealing                                                                 *)

\* sealBlock up to the lock: the block is the one of the current round.
SealStart(s) ==
    /\ seal[s] = Idle
    /\ cur \in Heights
    /\ seal' = [seal EXCEPT ![s] = [step |-> "lock", h |-> cur, num |-> 0]]
    /\ UNCHANGED <<led, chained, pending, cur, sealed, voted, spawn, acts, member, fails>>

\* setBlockSealed of a round that is already sealed, by the same proposer
SealAgain(s) ==
    /\ seal[s].step = "lock"
    /\ PoolFree
    /\ seal[s].h \in sealed
    /\ seal' = [seal EXCEPT ![s].step = "finish"]
    /\ UNCHANGED <<led, chained, pending, cur, sealed, voted, spawn, acts, member, fails>>

\* setBlockSealed of a block that AddBlock finds chained already
SealChained(s) ==
    /\ seal[s].step = "lock"
    /\ PoolFree
    /\ seal[s].h \notin sealed
    /\ sealed' = sealed \cup {seal[s].h}
    /\ seal[s].h <= chained
    /\ spawn' = MoreSpawned
    /\ seal' = [seal EXCEPT ![s].step = "finish"]
    /\ UNCHANGED <<led, chained, pending, cur, voted, acts, member, fails>>

\* Mutant: the block is filed under the chained height itself.
SealSubmitReusesHeight(s) ==
    /\ seal[s].step = "lock"
    /\ PoolFree
    /\ seal[s].h \notin sealed
    /\ sealed' = sealed \cup {seal[s].h}
    /\ seal[s].h > chained
    /\ SubmitBlock(chained)
    /\ seal' = [seal EXCEPT ![s].step = "exec", ![s].num = chained]
    /\ UNCHANGED <<chained, cur, voted, spawn, acts, member>>

\* setBlockSealed up to the save of the block before: an error is only logged
SealSubmit(s) ==
    /\ seal[s].step = "lock"
    /\ PoolFree
    /\ seal[s].h \notin sealed
    /\ sealed' = sealed \cup {seal[s].h}
    /\ seal[s].h > chained
    /\ SubmitBlock(chained)
    /\ seal' = [seal EXCEPT ![s].step = "exec", ![s].num = chained + 1]
    /\ UNCHANGED <<chained, cur, voted, spawn, acts, member>>

\* Mutant: chainedBlockNum is not advanced.
SealExecuteKeepsHeight(s) ==
    /\ seal[s].step = "exec"
    /\ ~ExecuteBlockFails(seal[s].h)
    /\ pending' = [j \in DOMAIN pending \cup {seal[s].num} |->
                      IF j = seal[s].num THEN ExecuteBlock(seal[s].h) ELSE pending[j]]
    /\ spawn' = MoreSpawned
    /\ seal' = [seal EXCEPT ![s].step = "finish"]
    /\ UNCHANGED <<led, chained, cur, sealed, voted, acts, member, fails>>

\* the rest of AddBlock, and the BlockSubmit vote for the chained block
SealExecute(s) ==
    /\ seal[s].step = "exec"
    /\ ~ExecuteBlockFails(seal[s].h)
    /\ pending' = [j \in DOMAIN pending \cup {seal[s].num} |->
                      IF j = seal[s].num THEN ExecuteBlock(seal[s].h) ELSE pending[j]]
    /\ chained' = seal[s].num
    /\ spawn' = MoreSpawned
    /\ seal' = [seal EXCEPT ![s].step = "finish"]
    /\ UNCHANGED <<led, cur, sealed, voted, acts, member, fails>>

\* ExecuteBlock failed: setBlockSealed returns, and the SealedBlock stays.
SealFails(s) ==
    /\ seal[s].step = "exec"
    /\ ExecuteBlockFails(seal[s].h)
    /\ seal' = [seal EXCEPT ![s] = Idle]
    /\ UNCHANGED <<led, chained, pending, cur, sealed, voted, spawn, acts, member, fails>>

\* sealBlock after setBlockSealed: on to the next round
NextRound(h) == IF h >= cur THEN h + 1 ELSE cur

SealFinish(s) ==
    /\ seal[s].step = "finish"
    /\ cur' = NextRound(seal[s].h)
    /\ seal' = [seal EXCEPT ![s] = Idle]
    /\ UNCHANGED <<led, chained, pending, sealed, voted, spawn, acts, member, fails>>

-----------------------------------------------------------------------------
(* The BlockSubmit votes                                                   *)

\* onConsensusMsg: the BlockSubmit message of a peer that makes a quorum of
\* equal state roots for block h, or comes after it.  A message before the
\* quorum only waits in the pool.
BlockSubmitMsg(h) ==
    /\ cur <= h + 1
    /\ voted' = voted \cup {h}
    /\ spawn' = MoreSpawned
    /\ UNCHANGED <<led, chained, pending, cur, sealed, acts, seal, member, fails>>

\* The goroutine of makeBlockSubmit: it ignores its argument and asks for the
\* current round when it gets to run.
makeBlockSubmit ==
    /\ spawn > 0
    /\ spawn' = spawn - 1
    /\ acts' = acts \cup {cur}
    /\ UNCHANGED <<led, chained, pending, cur, sealed, voted, seal, member, fails>>

\* getExecMerkleRoot succeeds, the round is not ahead, and a quorum has voted.
MaySubmit(k) ==
    /\ k <= cur
    /\ k \in DOMAIN pending \/ k <= led
    /\ k \in voted

\* the SubmitBlock action of actionLoop
SubmitAction(k) ==
    /\ k \in acts
    /\ seal["action"] = Idle
    /\ PoolFree
    /\ acts' = acts \ {k}
    /\ IF MaySubmit(k) THEN SubmitBlock(k) ELSE UNCHANGED <<led, pending, fails>>
    /\ UNCHANGED <<chained, cur, sealed, voted, spawn, seal, member>>

-----------------------------------------------------------------------------
(* What goes on beside consensus                                           *)

\* Block sync adds the next block of the agreed chain to the ledger.
BlockSync ==
    /\ led < MaxHeight
    /\ led' = led + 1
    /\ UNCHANGED <<chained, pending, cur, sealed, voted, spawn, acts, seal, member, fails>>

\* updateChainConfig drops the node from the peers of the next period.
LeaveConsensus ==
    /\ member
    /\ member' = FALSE
    /\ UNCHANGED <<led, chained, pending, cur, sealed, voted, spawn, acts, seal, fails>>

\* handleBlockPersistCompleted of a node that is not in the configuration:
\* ReloadFromLedger, without the pool's lock, and the current round after it
ReloadFromLedger ==
    /\ ~member
    /\ led > chained
    /\ chained' = led
    /\ pending' = Restrict(pending, {k \in DOMAIN pending : k > led})
    /\ cur' = IF led >= cur THEN led + 1 ELSE cur
    /\ UNCHANGED <<led, sealed, voted, spawn, acts, seal, member, fails>>

\* The process stops and starts again: only the ledger is left.
Restart ==
    /\ chained' = led
    /\ pending' = OpenBlockStore(led)
    /\ cur' = led + 1
    /\ sealed' = {}
    /\ voted' = {}
    /\ spawn' = 0
    /\ acts' = {}
    /\ seal' = [s \in Sealers |-> Idle]
    /\ UNCHANGED <<led, member, fails>>

Next ==
    \/ \E s \in Sealers : SealStart(s)
    \/ \E s \in Sealers : SealAgain(s)
    \/ \E s \in Sealers : SealChained(s)
    \/ \E s \in Sealers : SealSubmit(s)
    \/ \E s \in Sealers : SealExecute(s)
    \/ \E s \in Sealers : SealFails(s)
    \/ \E s \in Sealers : SealFinish(s)
    \/ \E h \in Heights : BlockSubmitMsg(h)
    \/ makeBlockSubmit
    \/ \E k \in acts : SubmitAction(k)
    \/ BlockSync
    \/ LeaveConsensus
    \/ ReloadFromLedger
    \/ Restart

Spec == Init /\ [][Next]_vars

-----------------------------------------------------------------------------
(* Properties                                                              *)

\* The variables keep their types.
TypeOK ==
    /\ led \in 0..MaxHeight
    /\ chained \in 0..MaxHeight
    /\ DOMAIN pending \subseteq 0..MaxHeight
    /\ \A k \in DOMAIN pending : pending[k] \in PendingBlock
    /\ cur \in 1..(MaxHeight + 1)
    /\ sealed \subseteq Heights
    /\ voted \subseteq Heights
    /\ spawn \in 0..MaxSpawn
    /\ acts \subseteq 1..(MaxHeight + 1)
    /\ seal \in [Sealers -> SealState]
    /\ member \in BOOLEAN
    /\ fails \in 0..MaxFails

\* A sealed block that is not in the ledger yet is still held by the chain
\* store: submitBlock forgets block n - 1 only once block n is saved, so no
\* order of seals, votes, block sync and failed saves loses a block.
UnsavedIsHeld ==
    member => \A h \in Heights : led < h /\ h <= chained => h \in DOMAIN pending

\* The chain store is never more than one block ahead of the ledger:
\* ExecuteBlock runs on the state that the ledger has saved.
OneBlockAhead == member => chained <= led + 1

\* An execution result that has no write set (ExecuteBlock found the block in
\* the ledger) is never what SubmitBlock saves: the ledger is past its block.
PartialNeverSaved ==
    \A k \in DOMAIN pending : ~pending[k].full => pending[k].blk <= led

\* As long as no save failed, the state root that the node votes for in the
\* round k is that of block k: AddBlock files the block under the chained
\* height plus one, whatever height the block has.
VoteMatchesBlock ==
    member /\ fails = 0 => \A k \in DOMAIN pending : pending[k].blk = k

\* As long as no save failed, a consensus node that has gone on to the next
\* round has chained the block of the round before.
SealedIsChained == member /\ fails = 0 => cur <= chained + 1

\* verifyCrossChainMsg of the next proposal compares its message with the
\* cross-chain states root of the block before, "malicious consensus node may
\* create a nil cross chain msg proposal, but it is actual not nil": the root
\* that the chain store gives for a block is the one its execution produced.
CrossRootKnown ==
    member /\ fails = 0 =>
        \A k \in DOMAIN pending : getCrossStatesRoot(k) = (k \in CrossHeights)
=============================================================================
