-------------------------- MODULE LedgerIndexSteps --------------------------
(***************************************************************************)
(* The steps of LedgerStore keep the index of the headers: the lists that  *)
(* are stored, their count in memory, and the index in memory.             *)
(***************************************************************************)
EXTENDS LedgerStoreSteps

\* storedIndexCount grows only by a full batch of heights below the current block.
LEMMA IndexBoundStep ==
    ASSUME IInv, Next, HeightsCounted
    PROVE  IndexBound'
<1>0. TypeOK /\ DownInv /\ GenesisInv /\ DiskInv /\ RecoverInv /\ UpInv /\ IndexBound
  BY DEF IInv
<1>1. CASE OpenStores
  <2>1. CASE version
    <3>1. blk.cur \in Nat /\ blk.idx \subseteq 0..(blk.cur - 1)
      BY <1>0, <2>1, BoundsAssumption DEF IndexBound, DiskInv, Heights
    <3>3. Cardinality(blk.idx) <= blk.cur
      BY <3>1 DEF HeightsCounted
    <3> QED
      BY <1>0, <1>1, <2>1, <3>1, <3>3 DEF OpenStores, IndexBound, disk
  <2>2. CASE ~version
    BY <1>1, <2>2 DEF OpenStores, IndexBound, disk
  <2> QED
    BY <2>1, <2>2
<1>2. CASE OpenRefused
  BY <1>0, <1>2, IndexBoundFrame DEF OpenRefused, vars, disk, memory
<1>3. CASE ClearAll
  BY <1>0, <1>3 DEF ClearAll, IndexBound, GenesisInv, memory
<1>4. CASE SaveVersion
  BY <1>0, <1>4 DEF SaveVersion, IndexBound, GenesisInv, NoJob, NewJob
<1>5. CASE RecoverBlock
  BY <1>0, <1>5, SMTT(30) DEF RecoverBlock, IndexBound, disk
<1>6. CASE RecoverDone
  BY <1>0, <1>6 DEF RecoverDone, IndexBound, NoJob, NewJob, disk
<1>7. CASE FillBatches
  <2>1. CASE proc = "up"
    <3>1. cur \in Heights /\ cur \in Int /\ storedIdx \in Nat /\ storedIdx <= cur
          /\ job \in JobType
      BY <1>0, <2>1, HeightTypes DEF IndexBound, TypeOK
    <3>2. /\ NextStoredIdx <= cur
          /\ NextIndexList \subseteq 0..(cur - 1)
      BY <3>1, NextIndexListFits, BoundsAssumption
    <3>3. job'.list = NextIndexList
      BY <1>7, <3>1 DEF FillBatches, JobType
    <3> QED
      BY <1>0, <1>7, <2>1, <3>2, <3>3, SMTT(30) DEF FillBatches, IndexBound
  <2>2. CASE proc # "up"
    <3>1. proc # "recover"
      BY <1>0, <1>7 DEF FillBatches, RecoverInv
    <3> QED
      BY <1>0, <1>7, <2>2, <3>1 DEF FillBatches, IndexBound
  <2> QED
    BY <2>1, <2>2
<1>8. CASE WrongBlockRoot
  BY <1>0, <1>8 DEF WrongBlockRoot, IndexBound, NoJob, NewJob, disk, memory
<1>9. CASE CommitBlockStore
  <2>1. job'.step = "evt" /\ blk'.cur = job.h /\ blk'.idx = blk.idx \cup job.list
    BY <1>0, <1>9, HeightTypes DEF CommitBlockStore, JobType
  <2>2. CASE proc = "up"
    <3>1. /\ version /\ job.h = cur + 1 /\ blk.cur <= cur + 1 /\ cur \in Int
          /\ blk.idx \subseteq 0..(blk.cur - 1) /\ job.list \subseteq 0..(cur - 1)
          /\ storedIdx <= cur
      BY <1>0, <1>9, <2>2, HeightTypes DEF CommitBlockStore, UpInv, IndexBound
    <3>2. blk.cur \in Int
      BY <1>0, <3>1 DEF DiskInv, Heights
    <3>3. blk.idx \cup job.list \subseteq 0..(job.h - 1)
      BY <3>1, <3>2
    <3> QED
      BY <1>9, <2>1, <2>2, <3>1, <3>3 DEF CommitBlockStore, IndexBound, memory
  <2>3. CASE proc # "up"
    BY <1>0, <1>9, <2>3
    DEF CommitBlockStore, IndexBound, DownInv, NoJob, NewJob, RecoverInv, GenesisInv, TypeOK, memory
  <2> QED
    BY <2>2, <2>3
<1>10. CASE CommitEventStore
  BY <1>0, <1>10, HeightTypes DEF CommitEventStore, IndexBound, JobType, memory
<1>11. CASE CommitStateStore
  <2>1. job'.step # "blk"
    BY <1>0, <1>11, HeightTypes DEF CommitStateStore, JobType
  <2> QED
    BY <1>0, <1>11, <2>1 DEF CommitStateStore, IndexBound, memory
<1>12. CASE CommitError
  BY <1>0, <1>12 DEF CommitError, IndexBound, NoJob, NewJob, disk, memory
<1>13. CASE FinishSave
  <2>1. CASE proc = "up"
    <3>1. job' = NoJob /\ cur' = job.h /\ job.h = cur + 1
      BY <1>0, <1>13, <2>1 DEF FinishSave, UpInv
    <3>2. cur \in Int /\ storedIdx \in Int /\ storedIdx <= cur
      BY <1>0, <2>1, HeightTypes DEF IndexBound, TypeOK
    <3>3. storedIdx <= cur'
      BY <3>1, <3>2
    <3> QED
      BY <1>0, <1>13, <2>1, <3>1, <3>3 DEF FinishSave, IndexBound, NoJob, NewJob, disk
  <2>2. CASE proc # "up"
    <3>1. proc # "recover"
      BY <1>0, <1>13 DEF FinishSave, RecoverInv
    <3> QED
      BY <1>0, <1>13, <2>2, <3>1 DEF FinishSave, IndexBound, disk
  <2> QED
    BY <2>1, <2>2
<1>14. CASE AddHeader
  BY <1>0, <1>14, IndexBoundFrame DEF AddHeader, disk
<1>15. ASSUME NEW h \in Heights, NEW good \in BOOLEAN, AddBlock(h, good)
       PROVE  IndexBound'
  BY <1>0, <1>15, IndexBoundFrame DEF AddBlock, disk, memory
<1>16. CASE SaveBlock
  <2>1. job' = job \/ job'.step = "batch"
    BY <1>16 DEF SaveBlock, NewJob
  <2> QED
    BY <1>0, <1>16, <2>1 DEF SaveBlock, IndexBound, disk, memory
<1>17. ASSUME NEW h \in Heights, ExecuteBlock(h)
       PROVE  IndexBound'
  BY <1>0, <1>17, IndexBoundFrame DEF ExecuteBlock, disk, memory, Idle
<1>18. CASE SubmitBlock
  BY <1>0, <1>18 DEF SubmitBlock, IndexBound, NewJob, disk, memory
<1>19. CASE EnableBlockPrune
  BY <1>0, <1>19, IndexBoundFrame DEF EnableBlockPrune, disk, Idle
<1>20. CASE Close
  BY <1>0, <1>20, IndexBoundFrame DEF Close, disk, Idle
<1>21. CASE Crash
  BY <1>0, <1>21 DEF Crash, IndexBound, disk
<1>22. CASE CrossStoreError
  <2>1. cur \in Heights /\ cur \in Int /\ storedIdx \in Nat /\ storedIdx <= cur
    BY <1>0, <1>22, HeightTypes DEF CrossStoreError, IndexBound, TypeOK
  <2>2. NextStoredIdx <= cur
    BY <2>1, NextIndexListFits, BoundsAssumption
  <2> QED
    BY <1>0, <1>22, <2>2, SMTT(30) DEF CrossStoreError, IndexBound, NoJob, NewJob, disk
<1> QED
  BY <1>1, <1>2, <1>3, <1>4, <1>5, <1>6, <1>7, <1>8, <1>9, <1>10, <1>11,
     <1>12, <1>13, <1>14, <1>15, <1>16, <1>17, <1>18, <1>19, <1>20, <1>21, <1>22 DEF Next

\* The header index keeps its shape: lists are stored whole batches at a time,
\* and one that was lost with a failed commit is never followed by another.
LEMMA IndexStep ==
    ASSUME IInv, Next, HeightsCounted, ~CrossPutFails
    PROVE  IndexInv'
<1>0. /\ TypeOK /\ DownInv /\ GenesisInv /\ DiskInv /\ RecoverInv /\ UpInv
      /\ IndexBound /\ IndexInv
  BY SMTT(30) DEF IInv
<1>1. CASE OpenStores
  <2>1. CASE version
    <3>1. PICK n \in 0..(MaxHeight + 1) : n <= blk.cur /\ blk.idx = 0..(n - 1)
      BY <1>0, <2>1 DEF IndexInv
    <3>2. Cardinality(blk.idx) = n /\ n \in Nat /\ blk.cur \in Heights /\ MaxHeight \in Nat
      BY <1>0, <2>1, <3>1, BoundsAssumption DEF DiskInv, HeightsCounted
    <3>3. LoadedIndex = 0..blk.cur
      BY <3>1, <3>2 DEF LoadedIndex, Heights
    <3> QED
      BY <1>0, <1>1, <2>1, <3>1, <3>2, <3>3 DEF OpenStores, IndexInv, disk
  <2>2. CASE ~version
    BY <1>1, <2>2 DEF OpenStores, IndexInv, disk
  <2> QED
    BY <2>1, <2>2
<1>2. CASE OpenRefused
  BY <1>0, <1>2, IndexFrame DEF OpenRefused, vars, disk, memory
<1>3. CASE ClearAll
  BY <1>0, <1>3 DEF ClearAll, IndexInv, GenesisInv, memory
<1>4. CASE SaveVersion
  <2>1. blk.cur = 0 /\ blk.idx = {} /\ storedIdx = 0 /\ hdrIdx = {0} /\ cur = 0
    BY <1>0, <1>4 DEF SaveVersion, GenesisInv
  <2>2. /\ {} = 0..(0 - 1) /\ {0} = 0..(1 - 1)
        /\ 0 \in 0..(MaxHeight + 1) /\ 1 \in 0..(MaxHeight + 1)
    BY BoundsAssumption
  <2> QED
    BY <1>4, <2>1, <2>2 DEF SaveVersion, IndexInv, NoJob, NewJob
<1>5. CASE RecoverBlock
  BY <1>0, <1>5, SMTT(30) DEF RecoverBlock, IndexInv, disk
<1>6. CASE RecoverDone
  <2>1. /\ version /\ cur \in Heights /\ blk.idx = 0..(storedIdx - 1)
        /\ hdrIdx = 0..cur
    BY <1>0, <1>6 DEF RecoverDone, RecoverInv, IndexInv, TypeOK
  <2>2. cur + 1 \in 0..(MaxHeight + 1) /\ cur < cur + 1 /\ (cur + 1) - 1 = cur
    BY <2>1, BoundsAssumption DEF Heights
  <2> QED
    BY <1>0, <1>6, <2>1, <2>2, SMTT(30) DEF RecoverDone, IndexInv, NoJob, NewJob, disk
<1>7. CASE FillBatches
  <2>1. CASE proc = "up"
    <3>1. /\ version /\ job.h = cur + 1 /\ job \in JobType /\ job.h \in Heights
          /\ cur \in Heights /\ tree \in Seq(Roots) /\ storedIdx \in Nat
          /\ storedIdx <= cur
      BY <1>0, <1>7, <2>1 DEF FillBatches, UpInv, IndexBound, TypeOK, JobType
    <3>2. job.h # 0 /\ job.h - 1 = cur /\ Chain[job.h] \in Roots
      BY <3>1 DEF Heights, Roots
    <3>3. tree = GoodTree(cur)
      BY <1>7, <3>1, <3>2, RootCheck DEF FillBatches
    <3>4. blk.idx = 0..(storedIdx - 1)
      BY <1>0, <1>7, <2>1, <3>3 DEF FillBatches, IndexInv
    <3>5. job'.step = "blk" /\ job'.h = job.h /\ job'.list = NextIndexList
      BY <1>7, <3>1 DEF FillBatches, JobType
    <3>6. blk.idx \cup NextIndexList = 0..(storedIdx' - 1)
      <4>1. CASE NextIndexList = {} /\ NextStoredIdx = storedIdx
        BY <1>7, <3>1, <3>4, <4>1 DEF FillBatches
      <4>2. CASE /\ NextIndexList = storedIdx..(storedIdx + HeaderBatch - 1)
                 /\ NextStoredIdx = storedIdx + HeaderBatch
                 /\ storedIdx + HeaderBatch <= cur
        <5>1. storedIdx' = storedIdx + HeaderBatch /\ HeaderBatch \in Nat \ {0}
          BY <1>7, <4>2, BoundsAssumption DEF FillBatches
        <5>2. (0..(storedIdx - 1)) \cup (storedIdx..(storedIdx + HeaderBatch - 1))
                  = 0..(storedIdx + HeaderBatch - 1)
          BY <3>1, <5>1
        <5>3. blk.idx \cup NextIndexList = 0..(storedIdx + HeaderBatch - 1)
          BY <3>4, <4>2, <5>2
        <5>4. storedIdx' - 1 = storedIdx + HeaderBatch - 1
          BY <3>1, <5>1
        <5> QED
          BY <5>3, <5>4, Zenon
      <4> QED
        BY <3>1, <4>1, <4>2, NextIndexListFits
    <3>7. \E n \in 0..(MaxHeight + 1) : hdrIdx' = 0..(n - 1) /\ cur < n /\ job.h < n
      <4>1. PICK n \in 0..(MaxHeight + 1) : hdrIdx = 0..(n - 1) /\ cur < n
        BY <1>0, <2>1 DEF IndexInv
      <4>2. CASE job.h < n
        <5>1. hdrIdx' = 0..(n - 1)
          BY <1>7, <3>1, <4>1, <4>2 DEF FillBatches, Heights
        <5> QED
          BY <4>1, <4>2, <5>1
      <4>3. CASE ~(job.h < n)
        <5>1. n = job.h /\ n + 1 \in 0..(MaxHeight + 1) /\ cur < n + 1 /\ job.h < n + 1
          BY <3>1, <4>1, <4>3, BoundsAssumption DEF Heights
        <5>2. hdrIdx' = 0..((n + 1) - 1)
          BY <1>7, <3>1, <4>1, <5>1 DEF FillBatches, Heights
        <5> QED
          BY <5>1, <5>2
      <4> QED
        BY <4>2, <4>3
    <3> QED
      BY <1>0, <1>7, <2>1, <3>5, <3>6, <3>7 DEF FillBatches, IndexInv
  <2>2. CASE proc # "up"
    BY <1>0, <1>7, <2>2, SMTT(30) DEF FillBatches, IndexInv, RecoverInv
  <2> QED
    BY <2>1, <2>2
<1>8. CASE WrongBlockRoot
  BY <1>0, <1>8 DEF WrongBlockRoot, IndexInv, NoJob, NewJob, disk, memory
<1>9. CASE CommitBlockStore
  <2>1. CASE proc = "up"
    <3>1. /\ job'.step = "evt" /\ job'.h = job.h /\ blk'.cur = job.h
          /\ blk'.idx = blk.idx \cup job.list
      BY <1>0, <1>9 DEF CommitBlockStore, TypeOK, JobType
    <3>2. /\ blk.idx \cup job.list = 0..(storedIdx - 1) /\ storedIdx <= cur
          /\ job.h = cur + 1 /\ cur \in Heights /\ storedIdx \in Nat
      BY <1>0, <1>9, <2>1 DEF CommitBlockStore, IndexInv, IndexBound, UpInv, TypeOK
    <3>3. storedIdx \in 0..(MaxHeight + 1) /\ storedIdx <= job.h
      BY <3>2, BoundsAssumption DEF Heights
    <3> QED
      BY <1>0, <1>9, <2>1, <3>1, <3>2, <3>3 DEF CommitBlockStore, IndexInv, memory
  <2>2. CASE proc # "up"
    BY <1>0, <1>9, <2>2
    DEF CommitBlockStore, IndexInv, DownInv, NoJob, NewJob, RecoverInv, GenesisInv, TypeOK, memory
  <2> QED
    BY <2>1, <2>2
<1>10. CASE CommitEventStore
  BY <1>0, <1>10 DEF CommitEventStore, IndexInv, memory
<1>11. CASE CommitStateStore
  BY <1>0, <1>11 DEF CommitStateStore, IndexInv, memory
<1>12. CASE CommitError
  <2>1. /\ job.h = cur + 1 /\ tree = GoodTree(job.h)
    BY <1>0, <1>12 DEF CommitError, UpInv
  <2>2. job.h \in Heights /\ cur \in Heights /\ job.h # cur
    BY <1>0, <2>1, HeightTypes
  <2>3. tree # GoodTree(cur)
    BY <2>1, <2>2, GoodTreeLength
  <2> QED
    BY <1>0, <1>12, <2>3, SMTT(30) DEF CommitError, IndexInv, NoJob, NewJob, disk, memory
<1>13. CASE FinishSave
  <2>1. CASE proc = "up"
    <3>1. /\ job' = NoJob /\ cur' = job.h /\ job.h = cur + 1 /\ cur \in Int
          /\ blk.idx = 0..(storedIdx - 1)
      BY <1>0, <1>13, <2>1 DEF FinishSave, UpInv, IndexInv, TypeOK, Heights
    <3>2. \E n \in 0..(MaxHeight + 1) : hdrIdx = 0..(n - 1) /\ job.h < n
      BY <1>0, <1>13, <2>1 DEF FinishSave, IndexInv
    <3> QED
      BY <1>0, <1>13, <2>1, <3>1, <3>2 DEF FinishSave, IndexInv, NoJob, NewJob, disk
  <2>2. CASE proc # "up"
    BY <1>0, <1>13, <2>2, SMTT(30) DEF FinishSave, IndexInv, RecoverInv, disk
  <2> QED
    BY <2>1, <2>2
<1>14. CASE AddHeader
  <2>1. PICK n \in 0..(MaxHeight + 1) :
            /\ hdrIdx = 0..(n - 1) /\ cur < n
            /\ (job.step \in {"blk", "evt", "st", "set"} => job.h < n)
    BY <1>0, <1>14 DEF AddHeader, IndexInv
  <2>2. Cardinality(hdrIdx) = n /\ n \in Heights /\ n \in Nat
    BY <1>14, <2>1, BoundsAssumption DEF AddHeader, HeightsCounted
  <2>3. /\ hdrIdx' = 0..((n + 1) - 1) /\ n + 1 \in 0..(MaxHeight + 1) /\ cur < n + 1
        /\ job.h < n => job.h < n + 1
    <3>1. cur \in Int /\ job.h \in Int
      BY <1>0 DEF Heights, TypeOK, JobType
    <3>2. hdrIdx' = hdrIdx \cup {n}
      BY <1>14, <2>2 DEF AddHeader
    <3>3. hdrIdx' = 0..((n + 1) - 1)
      BY <2>1, <2>2, <3>2
    <3> QED
      BY <2>1, <2>2, <3>1, <3>3, BoundsAssumption DEF Heights
  <2>4. UNCHANGED <<version, blk, proc, cur, storedIdx, tree, job>>
    BY <1>14 DEF AddHeader, disk
  <2> QED
    BY <1>0, <1>14, <2>1, <2>3, <2>4 DEF AddHeader, IndexInv
<1>15. ASSUME NEW h \in Heights, NEW good \in BOOLEAN, AddBlock(h, good)
       PROVE  IndexInv'
  BY <1>0, <1>15, IndexFrame, SMTT(30) DEF AddBlock, disk, memory
<1>16. CASE SaveBlock
  <2>1. job.step = "none" /\ job'.step \in {"none", "batch"}
    <3>1. job = NoJob /\ NoJob.step = "none"
      BY <1>16 DEF SaveBlock, Idle, NoJob, NewJob
    <3>2. CASE job' = job
      BY <3>1, <3>2
    <3>3. CASE job' # job
      <4>1. job' = NewJob("sync", sync.h, "batch", executeBlock(sync.h))
        BY <1>16, <3>3 DEF SaveBlock
      <4>2. job'.step = "batch"
        BY <4>1 DEF NewJob
      <4> QED
        BY <3>1, <4>2
    <3> QED
      BY <3>1, <3>2, <3>3
  <2> QED
    BY <1>0, <1>16, <2>1 DEF SaveBlock, IndexInv, disk, memory
<1>17. ASSUME NEW h \in Heights, ExecuteBlock(h)
       PROVE  IndexInv'
  BY <1>0, <1>17, IndexFrame, SMTT(30) DEF ExecuteBlock, disk, memory, Idle
<1>18. CASE SubmitBlock
  <2>1. job.step = "none" /\ job'.step = "batch"
    BY <1>18 DEF SubmitBlock, Idle, NoJob, NewJob
  <2> QED
    BY <1>0, <1>18, <2>1 DEF SubmitBlock, IndexInv, disk, memory
<1>19. CASE EnableBlockPrune
  BY <1>0, <1>19, IndexFrame DEF EnableBlockPrune, disk, Idle
<1>20. CASE Close
  BY <1>0, <1>20, IndexFrame, SMTT(30) DEF Close, disk, Idle
<1>21. CASE Crash
  BY <1>0, <1>21 DEF Crash, IndexInv, disk
<1>22. CASE CrossStoreError
  BY <1>22 DEF CrossStoreError
<1> QED
  BY <1>1, <1>2, <1>3, <1>4, <1>5, <1>6, <1>7, <1>8, <1>9, <1>10, <1>11,
     <1>12, <1>13, <1>14, <1>15, <1>16, <1>17, <1>18, <1>19, <1>20, <1>21, <1>22 DEF Next
=============================================================================
