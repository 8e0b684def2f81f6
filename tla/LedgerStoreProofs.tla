------------------------- MODULE LedgerStoreProofs -------------------------
(***************************************************************************)
(* LedgerStore keeps its inductive invariant; the theorems that follow, on *)
(* the contract state, the blocks shown, the header index, the events,     *)
(* pruning and the refinement of DurableLedger.                            *)
(***************************************************************************)
EXTENDS LedgerHistorySteps, FiniteSetTheorems

-----------------------------------------------------------------------------
(* Sets of heights.                                                         *)

\* Sets of heights are finite, and a prefix of the heights has as many members
\* as its bound says.
LEMMA HeightSets == HeightsCounted
<1>1. \A n \in Nat : IsFiniteSet(0..(n - 1)) /\ Cardinality(0..(n - 1)) = n
  <2> TAKE n \in Nat
  <2>1. n - 1 \in Int
    OBVIOUS
  <2>2. IsFiniteSet(0..(n - 1))
    BY <2>1, FS_Interval
  <2>3. Cardinality(0..(n - 1)) = IF 0 > n - 1 THEN 0 ELSE (n - 1) - 0 + 1
    BY <2>1, FS_Interval
  <2> QED
    BY <2>2, <2>3
<1>2. IsFiniteSet(Heights)
  BY BoundsAssumption, FS_Interval DEF Heights
<1>3. \A S \in SUBSET Heights : Cardinality(S) \in Nat
  BY <1>2, FS_Subset, FS_CardinalityType
<1>4. \A n \in Nat : \A S \in SUBSET (0..(n - 1)) : Cardinality(S) <= n
  <2> TAKE n \in Nat
  <2> TAKE S \in SUBSET (0..(n - 1))
  <2>1. Cardinality(S) <= Cardinality(0..(n - 1))
    BY <1>1, FS_Subset, Zenon
  <2> QED
    BY <1>1, <2>1
<1> QED
  BY <1>1, <1>3, <1>4 DEF HeightsCounted

-----------------------------------------------------------------------------
(* The theorems.                                                            *)

\* The initial state satisfies the invariant.
LEMMA InvInit == Init => IInv
<1> SUFFICES ASSUME Init PROVE IInv
  OBVIOUS
<1>1. TypeOK
  BY TypeInit
<1>2. DownInv /\ GenesisInv /\ DiskInv /\ RecoverInv /\ UpInv /\ IndexBound /\ IndexInv
  BY DEF Init, DownInv, GenesisInv, DiskInv, RecoverInv, UpInv, IndexBound, IndexInv
<1> QED
  BY <1>1, <1>2 DEF IInv

\* Every step, and every stuttering step, preserves the invariant.
LEMMA InvStep == IInv /\ [Next]_vars => IInv'
<1> SUFFICES ASSUME IInv, [Next]_vars PROVE IInv'
  OBVIOUS
<1>1. CASE Next
  BY <1>1, HeightSets, TypeStep, DownStep, GenesisStep, DiskStep, RecoverStep, UpStep, IndexBoundStep,
     IndexStep DEF IInv
<1>2. CASE UNCHANGED vars
  <2>1. TypeOK'
    BY <1>2, TypeFrame DEF IInv
  <2>2. DownInv' /\ GenesisInv' /\ DiskInv'
    BY <1>2, DownFrame, GenesisFrame, DiskFrame DEF IInv, vars, disk, memory
  <2>3. RecoverInv' /\ UpInv' /\ IndexBound'
    BY <1>2, RecoverFrame, UpFrame, IndexBoundFrame DEF IInv, vars, disk, memory
  <2>4. ~CrossPutFails => IndexInv'
    BY <1>2, IndexFrame DEF IInv, vars, disk, memory
  <2> QED
    BY <2>1, <2>2, <2>3, <2>4 DEF IInv
<1> QED
  BY <1>1, <1>2

\* The invariant holds in every reachable state, through every save, failed commit, crash,
\* recovery and race of block sync with consensus (submitBlock, recoverStore).
THEOREM Invariance == Spec => []IInv
  BY InvInit, InvStep, PTL DEF Spec

\* The types of the stores and of the memory of the process hold in every
\* reachable state.
THEOREM TypeCorrect == Spec => []TypeOK
<1>1. IInv => TypeOK
  BY DEF IInv
<1> QED
  BY Invariance, <1>1, PTL

\* Whatever crashes, failed commits, recoveries and races of block sync with
\* consensus happen, a state store that has caught up with the block store
\* holds the result of executing every block exactly once.
THEOREM NoCorruption == Spec => []NoSilentCorruption
<1>1. IInv => NoSilentCorruption
  BY SMTT(30) DEF IInv, DiskInv, NoSilentCorruption
<1> QED
  BY Invariance, <1>1, PTL

\* A running node never shows a block that a restart would lose.
THEOREM ShownDurable == Spec => []ShownIsDurable
<1>1. IInv => ShownIsDurable
  BY DEF IInv, UpInv, ShownIsDurable
<1> QED
  BY Invariance, <1>1, PTL

\* The header index of a running node is an initial segment of the heights that
\* includes the current block, after any restart, if no write to the cross-chain
\* store fails.
THEOREM IndexHasNoGap ==
    ASSUME ~CrossPutFails
    PROVE  Spec => []HeaderIndexHasNoGap
<1>1. IInv => HeaderIndexHasNoGap
  <2> SUFFICES ASSUME IInv, proc = "up"
               PROVE  hdrIdx = 0..(Cardinality(hdrIdx) - 1) /\ cur \in hdrIdx
    BY DEF HeaderIndexHasNoGap
  <2>1. PICK n \in 0..(MaxHeight + 1) : hdrIdx = 0..(n - 1) /\ cur < n
    BY DEF IInv, IndexInv
  <2>2. n \in Nat /\ Cardinality(hdrIdx) = n
    BY <2>1, HeightSets, BoundsAssumption DEF HeightsCounted
  <2>3. cur \in Heights
    BY DEF IInv, TypeOK
  <2>4. cur \in hdrIdx
    BY <2>1, <2>2, <2>3, BoundsAssumption DEF Heights
  <2> QED
    BY <2>1, <2>2, <2>4
<1> QED
  BY Invariance, <1>1, PTL

\* No order of saves, failed commits, prunings, crashes and recoveries leaves a
\* block in the saved contract state whose events are missing: the event store is
\* committed before the state store, and drops only what the block store dropped
\* (submitBlock, recoverStore, tryPruneBlock).
THEOREM EventsComeFirst == Spec => []EventsBeforeState
<1>1. Init => EventsInv
  BY DEF Init, EventsInv
<1>2. IInv /\ EventsInv /\ [Next]_vars => EventsInv'
  <2>1. EventsInv /\ UNCHANGED vars => EventsInv'
    BY EventsFrame DEF vars, disk, memory
  <2> QED
    BY <2>1, EventsStep
<1>3. EventsInv => EventsBeforeState
  BY DEF EventsInv, EventsUpTo, EventsBeforeState
<1> QED
  BY <1>1, <1>2, <1>3, Invariance, PTL DEF Spec

\* Pruning never drops the genesis block, a block of the preserved history, or a
\* block from the last chain config on, whichever saves, failed commits, crashes
\* and changes of the preserved length came before (tryPruneBlock,
\* maxAllowedPruneHeight).  Heights and preserved length together stay below 2^w.
THEOREM HistoryKept ==
    ASSUME MaxHeight + PreserveLen < Word
    PROVE  Spec => PruneKeepsHistory
<1>1. Init => PruneInv
  BY DEF Init, PruneInv
<1>2. IInv /\ PruneInv /\ [Next]_vars => PruneInv'
  <2>1. ASSUME PruneInv, UNCHANGED vars
        PROVE  PruneInv'
    <3>1. PruneRange(job.h)' = PruneRange(job.h)
      BY <2>1 DEF vars, disk, memory, PruneRange, PruneEnabled, PruneEnd, PruneLimit,
                  maxAllowedPruneHeight
    <3> QED
      BY <2>1, <3>1 DEF PruneInv, vars, disk, memory
  <2> QED
    BY <2>1, PruneStep
<1>3. IInv /\ PruneInv /\ [Next]_vars =>
      [\A k \in blk.have \ blk'.have : version /\ job.h >= preserve =>
           k > 0 /\ k + preserve < job.h /\ k < LastConfig[job.h]]_vars
  <2> SUFFICES ASSUME IInv, PruneInv, [Next]_vars, NEW k \in blk.have \ blk'.have,
                      version, job.h >= preserve
               PROVE  k > 0 /\ k + preserve < job.h /\ k < LastConfig[job.h]
    OBVIOUS
  <2>1. job.h \in Heights /\ k \in PruneRange(job.h)
    BY DroppedArePruned
  <2> QED
    BY <2>1, PruneRangeIsOld DEF IInv
<1> QED
  BY <1>1, <1>2, <1>3, Invariance, PTL DEF Spec, PruneKeepsHistory

\* The heights of DurableLedger, and its steps in their terms.
log == IF version THEN blk.cur ELSE -1
view == IF proc = "up" THEN cur ELSE -1
LogStep ==
    \/ log = -1 /\ view = -1 /\ log' = 0 /\ view' = 0
    \/ log \in 0..(MaxHeight - 1) /\ view = log /\ log' = log + 1 /\ view' = view
    \/ view \in 0..(log - 1) /\ view' = view + 1 /\ log' = log
    \/ log >= 0 /\ view = -1 /\ view' = log /\ log' = log
    \/ view >= 0 /\ view' = -1 /\ log' = log
    \/ log' = log /\ view' = view

\* A step that changes neither height is a stuttering step of DurableLedger.
LEMMA LogSame ==
    ASSUME version' = version, version => blk'.cur = blk.cur,
           proc' = "up" <=> proc = "up", proc = "up" => cur' = cur
    PROVE  LogStep
<1>1. log' = log
  BY DEF log
<1>2. view' = view
  BY DEF view
<1> QED
  BY <1>1, <1>2 DEF LogStep

\* Only five actions touch what DurableLedger sees; SaveVersion creates the log,
\* the commit of the block store extends it, setCurrentBlock shows the block,
\* the end of the recovery opens the log and a crash stops the node.
LEMMA RefinementStep ==
    ASSUME IInv, Next
    PROVE  LogStep
<1>a. TypeOK /\ DownInv /\ GenesisInv /\ DiskInv /\ RecoverInv /\ UpInv
  BY DEF IInv
<1>b. cur \in Heights
  BY <1>a DEF TypeOK
<1>0. /\ TypeOK /\ DownInv /\ GenesisInv /\ DiskInv /\ RecoverInv /\ UpInv
      /\ cur \in Nat /\ cur <= MaxHeight /\ MaxHeight \in Nat
  BY <1>a, <1>b, BoundsAssumption DEF Heights
<1>1. CASE OpenStores
  BY <1>1, LogSame DEF OpenStores, disk
<1>2. CASE OpenRefused
  BY <1>2, LogSame DEF OpenRefused, vars, disk, memory
<1>3. CASE ClearAll
  <2>1. ~version
    BY <1>0, <1>3 DEF ClearAll, GenesisInv
  <2> QED
    BY <1>3, <2>1, LogSame DEF ClearAll, memory
<1>4. CASE SaveVersion
  BY <1>0, <1>4 DEF SaveVersion, LogStep, log, view, GenesisInv
<1>5. CASE RecoverBlock
  BY <1>5, LogSame, SMTT(30) DEF RecoverBlock, disk
<1>6. CASE RecoverDone
  BY <1>0, <1>6 DEF RecoverDone, LogStep, log, view, RecoverInv, disk
<1>7. CASE FillBatches
  BY <1>7, LogSame DEF FillBatches
<1>8. CASE WrongBlockRoot
  BY <1>8, LogSame DEF WrongBlockRoot, disk, memory
<1>9. CASE CommitBlockStore
  <2>1. CASE proc = "up"
    <3>1. /\ version /\ cur <= blk.cur /\ blk.cur <= cur + 1 /\ job.h = cur + 1
          /\ version' /\ blk'.cur = job.h /\ proc' = proc /\ cur' = cur
      BY <1>0, <1>9, <2>1 DEF CommitBlockStore, UpInv, memory
    <3>2. blk.cur \in Int /\ job.h <= MaxHeight
      BY <1>0 DEF TypeOK, JobType, BlkType, Heights
    <3> QED
      BY <1>0, <2>1, <3>1, <3>2 DEF LogStep, log, view
  <2>2. CASE proc # "up"
    BY <1>0, <1>9, <2>2
    DEF CommitBlockStore, LogStep, log, view, DownInv, NoJob, NewJob, RecoverInv, GenesisInv,
        TypeOK, memory
  <2> QED
    BY <2>1, <2>2
<1>10. CASE CommitEventStore
  BY <1>10, LogSame DEF CommitEventStore, memory
<1>11. CASE CommitStateStore
  BY <1>11, LogSame DEF CommitStateStore, memory
<1>12. CASE CommitError
  BY <1>12, LogSame DEF CommitError, disk, memory
<1>13. CASE FinishSave
  <2>1. CASE proc = "up"
    <3>1. /\ version /\ job.h = cur + 1 /\ blk.cur = job.h
          /\ version' /\ blk' = blk /\ proc' = proc /\ cur' = job.h
      BY <1>0, <1>13, <2>1 DEF FinishSave, UpInv, disk
    <3> QED
      BY <1>0, <2>1, <3>1 DEF LogStep, log, view
  <2>2. CASE proc # "up"
    BY <1>0, <1>13, <2>2 DEF FinishSave, LogStep, log, view, disk
  <2> QED
    BY <2>1, <2>2
<1>14. CASE AddHeader
  BY <1>14, LogSame DEF AddHeader, disk
<1>15. ASSUME NEW h \in Heights, NEW good \in BOOLEAN, AddBlock(h, good)
       PROVE  LogStep
  BY <1>15, LogSame DEF AddBlock, disk, memory
<1>16. CASE SaveBlock
  BY <1>16, LogSame DEF SaveBlock, disk, memory, Idle
<1>17. ASSUME NEW h \in Heights, ExecuteBlock(h)
       PROVE  LogStep
  BY <1>17, LogSame DEF ExecuteBlock, disk, memory, Idle
<1>18. CASE SubmitBlock
  BY <1>18, LogSame DEF SubmitBlock, disk, memory, Idle
<1>19. CASE EnableBlockPrune
  BY <1>19, LogSame DEF EnableBlockPrune, disk, Idle
<1>20. CASE Close
  BY <1>20, LogSame DEF Close, disk, Idle
<1>21. CASE Crash
  BY <1>0, <1>21 DEF Crash, LogStep, log, view, disk
<1>22. CASE CrossStoreError
  BY <1>22, LogSame DEF CrossStoreError, disk
<1> QED
  BY <1>1, <1>2, <1>3, <1>4, <1>5, <1>6, <1>7, <1>8, <1>9, <1>10, <1>11,
     <1>12, <1>13, <1>14, <1>15, <1>16, <1>17, <1>18, <1>19, <1>20, <1>21, <1>22 DEF Next

\* The stores together implement the durable log that only grows, one block at a
\* time, and that gives back after a crash every block that was shown.
THEOREM Refinement == Spec => ImplementsDurableLedger
<1>1. Init => Ledger!DLInit
  BY DEF Init, Ledger!DLInit
<1>2. ASSUME IInv, [Next]_vars
      PROVE  [Ledger!DLNext]_<<log, view>>
  <2>1. CASE Next
    <3>1. LogStep
      BY <1>2, <2>1, RefinementStep
    <3> QED
      BY <3>1
      DEF LogStep, log, view, Ledger!DLNext, Ledger!Create, Ledger!Extend, Ledger!Show,
          Ledger!Open, Ledger!Stop
  <2>2. CASE UNCHANGED vars
    BY <2>2 DEF vars, disk, memory, log, view
  <2> QED
    BY <1>2, <2>1, <2>2
<1> QED
  BY <1>1, <1>2, Invariance, PTL DEF Spec, ImplementsDurableLedger, Ledger!DLSpec, log, view
=============================================================================
