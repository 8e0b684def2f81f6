-------------------------- MODULE LedgerStoreSteps --------------------------
(***************************************************************************)
(* The steps of LedgerStore keep the parts of its inductive invariant that *)
(* speak of the stores, the start-up, the recovery and the running node.   *)
(***************************************************************************)
EXTENDS LedgerStoreInv

-----------------------------------------------------------------------------
(* What each part of the invariant depends on.                              *)

\* A step that leaves the variables of a part alone preserves that part.
LEMMA DownFrame ==
    ASSUME DownInv, UNCHANGED <<proc, cur, hdrIdx, storedIdx, job, cons>>
    PROVE  DownInv'
  BY DEF DownInv

\* GenesisInv depends on these variables only.
LEMMA GenesisFrame ==
    ASSUME GenesisInv, UNCHANGED <<version, blk, st, proc, cur, hdrIdx, storedIdx, tree, job>>
    PROVE  GenesisInv'
  BY DEF GenesisInv

\* DiskInv depends on these variables only.
LEMMA DiskFrame ==
    ASSUME DiskInv, UNCHANGED <<version, blk, st>>
    PROVE  DiskInv'
  BY DEF DiskInv

\* RecoverInv depends on these variables only.
LEMMA RecoverFrame ==
    ASSUME RecoverInv, UNCHANGED <<version, blk, st, proc, cur, tree, job>>
    PROVE  RecoverInv'
  BY DEF RecoverInv

\* UpInv depends on these variables only.
LEMMA UpFrame ==
    ASSUME UpInv, UNCHANGED <<version, blk, st, proc, cur, tree, job, cons>>
    PROVE  UpInv'
  BY DEF UpInv

\* IndexBound depends on these variables only.
LEMMA IndexBoundFrame ==
    ASSUME IndexBound, UNCHANGED <<version, blk, proc, cur, storedIdx, job>>
    PROVE  IndexBound'
  BY DEF IndexBound

\* IndexInv depends on these variables only.
LEMMA IndexFrame ==
    ASSUME IndexInv, UNCHANGED <<version, blk, proc, cur, hdrIdx, storedIdx, tree, job>>
    PROVE  IndexInv'
  BY DEF IndexInv

\* A part that speaks of one phase of the process holds in every other phase.
LEMMA OtherPhase ==
    /\ version' /\ proc' # "genesis" => GenesisInv'
    /\ proc' # "recover" => RecoverInv'
    /\ proc' # "up" => UpInv'
<1>1. version' /\ proc' # "genesis" => GenesisInv'
  BY DEF GenesisInv
<1>2. proc' # "recover" => RecoverInv'
  BY DEF RecoverInv
<1>3. proc' # "up" => UpInv'
  BY DEF UpInv
<1> QED
  BY <1>1, <1>2, <1>3

-----------------------------------------------------------------------------
(* One lemma per part of the invariant, one step per action.                *)

\* A running node stays consistent: a save goes on only from a good tree, a
\* failed commit leaves a tree that stops the next save, and a result computed
\* earlier by consensus is used only while the state it read is still current.
LEMMA UpStep ==
    ASSUME IInv, Next
    PROVE  UpInv'
<1>0. TypeOK /\ DownInv /\ GenesisInv /\ DiskInv /\ RecoverInv /\ UpInv
  BY SMTT(30) DEF IInv
<1>1. CASE OpenStores
  BY <1>1, OtherPhase DEF OpenStores, disk
<1>2. CASE OpenRefused
  BY <1>0, <1>2, UpFrame DEF OpenRefused, vars, disk, memory
<1>3. CASE ClearAll
  BY <1>3, OtherPhase DEF ClearAll, memory
<1>4. CASE SaveVersion
  <2>1. /\ st.cur = 0 /\ st.exec = GoodState(0) /\ blk.cur = 0 /\ cur = 0
        /\ cons.h = -1
    BY <1>0, <1>4 DEF SaveVersion, GenesisInv, DownInv
  <2> QED
    BY <1>4, <2>1 DEF SaveVersion, UpInv, NoJob, NewJob
<1>5. CASE RecoverBlock
  BY <1>5, OtherPhase DEF RecoverBlock, disk
<1>6. CASE RecoverDone
  <2>1. /\ version /\ cur = blk.cur /\ st.cur \in Heights /\ cur \in Heights
        /\ cons.h = -1 /\ cur \in Int /\ st.cur \in Int /\ cur >= 0
    BY <1>0, <1>6 DEF RecoverDone, RecoverInv, DownInv, TypeOK, Heights
  <2>2. /\ proc' = "up" /\ job' = NoJob /\ job'.step = "none" /\ job.h >= cur
        /\ UNCHANGED <<version, blk, st, cur, tree, cons>>
    BY <1>6 DEF RecoverDone, NoJob, NewJob, disk
  <2>3. CASE /\ job.h = st.cur /\ cur \in {st.cur, st.cur + 1}
             /\ st.exec = GoodState(st.cur)
    <3>1. cur = st.cur
      BY <2>1, <2>2, <2>3
    <3> QED
      BY <2>1, <2>3, <2>2, <3>1 DEF UpInv
  <2>4. CASE /\ cur = st.cur + 1 /\ tree = st.tree
             /\ Chain[st.cur] = EmptyRoot => st.exec = GoodState(st.cur)
             /\ st.tree = Append(GoodTree(st.cur), Chain[st.cur])
    <3>1. /\ GoodTree(st.cur) \in Seq(Roots) /\ Len(GoodTree(st.cur)) = st.cur + 1
          /\ Chain[st.cur] \in Roots
      BY <2>1, GoodTreeType, Zenon DEF Roots
    <3>2. Len(st.tree) # st.cur + 1
      <4>1. Len(Append(GoodTree(st.cur), Chain[st.cur])) = Len(GoodTree(st.cur)) + 1
        BY <3>1
      <4> QED
        BY <2>1, <2>4, <3>1, <4>1
    <3>3. cur # 0 /\ cur - 1 = st.cur
      BY <2>1, <2>4 DEF Heights
    <3>4. ASSUME tree = GoodTree(cur) PROVE st.exec = GoodState(cur)
      <4>1. Chain[st.cur] = Chain[cur]
        <5>1. Append(GoodTree(st.cur), Chain[st.cur]) = GoodTree(cur)
          BY <2>4, <3>4
        <5> QED
          BY <2>1, <3>1, <3>3, <5>1, RootCheck, Zenon
      <4>2. Chain[st.cur] = EmptyRoot /\ Chain[cur] = EmptyRoot
        BY <2>1, <2>4, <4>1, ChainAssumption
      <4>3. Exec(GoodState(st.cur), cur) = GoodState(cur)
        BY <2>1, <3>3, GoodStateNext
      <4> QED
        BY <2>4, <4>2, <4>3 DEF Exec
    <3>5. /\ cur <= blk.cur /\ blk.cur <= cur + 1 /\ st.cur <= cur
          /\ cons.h <= cur + 1 /\ cons.h # cur + 1
      BY <2>1, <2>4
    <3>6. tree = GoodTree(cur) => st.exec = GoodState(cur)
      BY <3>4
    <3> QED
      BY <2>1, <2>2, <3>2, <3>5, <3>6 DEF UpInv
  <2> QED
    BY <1>0, <1>6, <2>3, <2>4 DEF RecoverDone, RecoverInv
<1>7. CASE FillBatches
  <2>0. job.step = "batch" /\ UNCHANGED <<version, blk, st, proc, cur, cons>>
    BY <1>7 DEF FillBatches
  <2>1. CASE proc = "up"
    <3>1. /\ version /\ job.h = cur + 1 /\ job.res.post = Exec(st.exec, job.h)
          /\ job \in JobType /\ job.h \in Heights /\ cur \in Heights
          /\ tree \in Seq(Roots)
      BY <1>0, <2>0, <2>1 DEF UpInv, TypeOK, JobType
    <3>2. job.h # 0 /\ job.h - 1 = cur /\ Chain[job.h] \in Roots
      BY <3>1 DEF Heights, Roots
    <3>3. tree = GoodTree(cur) /\ tree' = GoodTree(job.h)
      BY <1>7, <3>1, <3>2, RootCheck DEF FillBatches
    <3>4. st.exec = GoodState(cur)
      BY <1>0, <2>0, <2>1, <3>3 DEF UpInv
    <3>5. job'.step = "blk" /\ job'.h = job.h /\ job'.res = job.res
      BY <1>7, <3>1 DEF FillBatches, JobType
    <3> QED
      BY <1>0, <2>0, <2>1, <3>1, <3>3, <3>4, <3>5 DEF UpInv
  <2>2. CASE proc # "up"
    BY <2>0, <2>2, OtherPhase
  <2> QED
    BY <2>1, <2>2
<1>8. CASE WrongBlockRoot
  <2>1. /\ proc = "up" /\ job.step = "batch" /\ job' = NoJob
        /\ UNCHANGED <<version, blk, st, proc, cur, tree, cons>>
    BY <1>8 DEF WrongBlockRoot, disk, memory
  <2> QED
    BY <1>0, <2>1 DEF UpInv, NoJob, NewJob
<1>9. CASE CommitBlockStore
  <2>1. CASE proc = "up"
    <3>1. job'.step = "evt" /\ job'.h = job.h /\ job'.res = job.res /\ blk'.cur = job.h
      BY <1>0, <1>9 DEF CommitBlockStore, TypeOK, JobType
    <3>2. cur \in Int
      BY <1>0 DEF TypeOK, Heights
    <3>3. job.step = "blk" /\ UNCHANGED <<version, st, proc, cur, tree, cons>>
      BY <1>9 DEF CommitBlockStore, memory
    <3> QED
      BY <1>0, <2>1, <3>1, <3>2, <3>3 DEF UpInv
  <2>2. CASE proc # "up"
    <3>1. proc' = proc
      BY <1>9 DEF CommitBlockStore, memory
    <3> QED
      BY <2>2, <3>1, OtherPhase
  <2> QED
    BY <2>1, <2>2
<1>10. CASE CommitEventStore
  <2>1. /\ job.step = "evt" /\ job' = [job EXCEPT !.step = "st"]
        /\ UNCHANGED <<version, blk, st, proc, cur, tree, cons>>
    BY <1>10 DEF CommitEventStore, memory
  <2>2. job'.step = "st" /\ job'.h = job.h /\ job'.res = job.res
    BY <1>0, <2>1 DEF TypeOK, JobType
  <2> QED
    BY <1>0, <2>1, <2>2 DEF UpInv
<1>11. CASE CommitStateStore
  <2>1. CASE proc = "up"
    <3>1. job'.step = "set" /\ job'.h = job.h
      BY <1>0, <1>11, <2>1 DEF CommitStateStore, TypeOK, JobType
    <3>2. /\ version /\ job.h = cur + 1 /\ blk.cur = job.h /\ st.exec = GoodState(cur)
          /\ tree = GoodTree(job.h) /\ job.res.post = Exec(st.exec, job.h)
      BY <1>0, <1>11, <2>1 DEF CommitStateStore, UpInv
    <3>3. job.h \in Heights /\ job.h # 0 /\ cur = job.h - 1
      BY <1>0, <3>2, HeightTypes DEF Heights
    <3>4. Exec(st.exec, job.h) = GoodState(job.h)
      BY <3>2, <3>3, GoodStateNext
    <3>5. st'.cur = job.h /\ st'.tree = tree /\ st'.exec = GoodState(job.h)
      BY <1>11, <3>2, <3>4 DEF CommitStateStore, Exec
    <3>6. UNCHANGED <<version, blk, proc, cur, tree, cons>>
      BY <1>11 DEF CommitStateStore, memory
    <3> QED
      BY <1>0, <2>1, <3>1, <3>2, <3>5, <3>6 DEF UpInv
  <2>2. CASE proc # "up"
    <3>1. proc' = proc
      BY <1>11 DEF CommitStateStore, memory
    <3> QED
      BY <2>2, <3>1, OtherPhase
  <2> QED
    BY <2>1, <2>2
<1>12. CASE CommitError
  <2>1. /\ job.h = cur + 1 /\ tree = GoodTree(job.h)
    BY <1>0, <1>12 DEF CommitError, UpInv
  <2>2. job.h \in Heights /\ cur \in Heights /\ job.h # cur
    BY <1>0, <2>1, HeightTypes
  <2>3. tree # GoodTree(cur)
    BY <2>1, <2>2, GoodTreeLength
  <2>4. /\ proc = "up" /\ job.step \in {"blk", "evt", "st"} /\ job' = NoJob
        /\ UNCHANGED <<version, blk, st, proc, cur, tree, cons>>
    BY <1>12 DEF CommitError, disk, memory
  <2>5. NoJob.step = "none"
    BY DEF NoJob, NewJob
  <2> QED
    BY <1>0, <2>3, <2>4, <2>5 DEF UpInv
<1>13. CASE FinishSave
  <2>1. CASE proc = "up"
    <3>1. /\ version /\ job.h = cur + 1 /\ blk.cur = job.h /\ st.cur = job.h
          /\ st.exec = GoodState(job.h) /\ tree = GoodTree(job.h) /\ cons.h <= cur + 1
      BY <1>0, <1>13, <2>1 DEF FinishSave, UpInv
    <3>2. cur \in Int /\ cons.h \in Int
      BY <1>0 DEF TypeOK, Heights
    <3>3. job' = NoJob /\ cur' = job.h /\ UNCHANGED <<version, blk, st, proc, tree, cons>>
      BY <1>13, <2>1 DEF FinishSave, disk
    <3> QED
      BY <2>1, <3>1, <3>2, <3>3 DEF UpInv, NoJob, NewJob
  <2>2. CASE proc # "up"
    <3>1. proc' = proc
      BY <1>13 DEF FinishSave
    <3> QED
      BY <2>2, <3>1, OtherPhase
  <2> QED
    BY <2>1, <2>2
<1>14. CASE AddHeader
  BY <1>0, <1>14, UpFrame DEF AddHeader, disk
<1>15. ASSUME NEW h \in Heights, NEW good \in BOOLEAN, AddBlock(h, good)
       PROVE  UpInv'
  BY <1>0, <1>15, UpFrame DEF AddBlock, disk, memory
<1>16. CASE SaveBlock
  <2>0. UNCHANGED <<version, blk, st, proc, cur, tree, cons>>
    BY <1>16 DEF SaveBlock, disk, memory
  <2>1. CASE job' = job
    BY <1>0, <2>0, <2>1, UpFrame
  <2>2. CASE job' # job
    <3>0. sync.h \in Heights \cup {-1} /\ cur \in Heights
      BY <1>0 DEF TypeOK
    <3>1. /\ sync.h = cur + 1 /\ sync.h \in Heights
          /\ job' = NewJob("sync", sync.h, "batch", executeBlock(sync.h))
      BY <1>16, <2>2, <3>0 DEF SaveBlock, Heights
    <3>2. st.exec \in ContractState
      BY <1>0 DEF TypeOK
    <3>3. executeBlock(sync.h).post = Exec(st.exec, sync.h)
      BY <3>1, <3>2, ValueTypes
    <3>4. /\ job'.step = "batch" /\ job'.h = cur + 1
          /\ job'.res.post = Exec(st.exec, cur + 1)
      BY <3>1, <3>3 DEF NewJob
    <3>5. job.step = "none" /\ proc = "up"
      BY <1>16 DEF SaveBlock, Idle, NoJob, NewJob
    <3> QED
      BY <1>0, <2>0, <3>4, <3>5 DEF UpInv
  <2> QED
    BY <2>1, <2>2
<1>17. ASSUME NEW h \in Heights, ExecuteBlock(h)
       PROVE  UpInv'
  <2>1. cur \in Int /\ h \in Int /\ executeBlock(h).post = Exec(st.exec, h)
    BY <1>0, ValueTypes DEF TypeOK, Heights
  <2>2. /\ cons'.h = h /\ h <= cur + 1
        /\ h = cur + 1 => cons'.res.post = Exec(st.exec, h)
    BY <1>17, <2>1 DEF ExecuteBlock
  <2>3. UNCHANGED <<version, blk, st, proc, cur, tree, job>>
    BY <1>17 DEF ExecuteBlock, disk, memory
  <2> QED
    BY <1>0, <2>1, <2>2, <2>3 DEF UpInv
<1>18. CASE SubmitBlock
  <2>1. job'.step = "batch" /\ job'.h = cur + 1 /\ job'.res = cons.res
    BY <1>18 DEF SubmitBlock, NoJob, NewJob
  <2>2. job.step = "none" /\ proc = "up" /\ cons.h = cur + 1
    BY <1>18 DEF SubmitBlock, Idle, NoJob, NewJob
  <2>3. cons.res.post = Exec(st.exec, cur + 1)
    BY <1>0, <2>2 DEF UpInv
  <2>4. UNCHANGED <<version, blk, st, proc, cur, tree, cons>>
    BY <1>18 DEF SubmitBlock, disk, memory
  <2> QED
    BY <1>0, <2>1, <2>2, <2>3, <2>4 DEF UpInv
<1>19. CASE EnableBlockPrune
  BY <1>0, <1>19, UpFrame DEF EnableBlockPrune, disk, Idle
<1>20. CASE Close
  BY <1>0, <1>20, UpFrame DEF Close, disk, Idle
<1>21. CASE Crash
  <2>1. proc' # "up"
    BY <1>21 DEF Crash
  <2> QED
    BY <2>1, OtherPhase
<1>22. CASE CrossStoreError
  <2>1. /\ proc = "up" /\ job.step = "batch" /\ job' = NoJob
        /\ UNCHANGED <<version, blk, st, proc, cur, tree, cons>>
    BY <1>22 DEF CrossStoreError, disk
  <2> QED
    BY <1>0, <2>1 DEF UpInv, NoJob, NewJob
<1> QED
  BY <1>1, <1>2, <1>3, <1>4, <1>5, <1>6, <1>7, <1>8, <1>9, <1>10, <1>11,
     <1>12, <1>13, <1>14, <1>15, <1>16, <1>17, <1>18, <1>19, <1>20, <1>21, <1>22 DEF Next

\* recoverStore runs on a disk that StateStore.init accepted.
LEMMA RecoverStep ==
    ASSUME IInv, Next
    PROVE  RecoverInv'
<1>0. TypeOK /\ DownInv /\ GenesisInv /\ DiskInv /\ RecoverInv /\ UpInv
  BY SMTT(30) DEF IInv
<1>1. CASE OpenStores
  <2>1. CASE version
    <3>1. st.cur \in Heights /\ Len(st.tree) > 0
      BY <1>0, <2>1 DEF DiskInv
    <3>2. Len(st.tree) = st.cur + 1
      BY <1>1, <3>1 DEF OpenStores, StateStoreInitOK, Heights
    <3>3. /\ st.exec = GoodState(st.cur) /\ st.tree = GoodTree(st.cur)
          /\ blk.cur \in {st.cur, st.cur + 1}
      BY <1>0, <2>1, <3>2 DEF DiskInv
    <3> QED
      <4>1. /\ proc' = "recover" /\ cur' = blk.cur /\ tree' = st.tree
            /\ job' = NewJob("init", st.cur, "exec", NoRes)
            /\ UNCHANGED <<version, blk, st>>
        BY <1>1, <2>1 DEF OpenStores, disk
      <4>2. job'.step = "exec" /\ job'.h = st.cur
        BY <4>1 DEF NewJob
      <4> QED
        BY <2>1, <3>1, <3>3, <4>1, <4>2 DEF RecoverInv
  <2>2. CASE ~version
    BY <1>1, <2>2, OtherPhase DEF OpenStores
  <2> QED
    BY <2>1, <2>2
<1>2. CASE OpenRefused
  BY <1>0, <1>2, RecoverFrame DEF OpenRefused, vars, disk, memory
<1>3. CASE ClearAll
  BY <1>3, OtherPhase DEF ClearAll, memory
<1>4. CASE SaveVersion
  BY <1>4, OtherPhase DEF SaveVersion
<1>5. CASE RecoverBlock
  <2>1. /\ version /\ cur = blk.cur /\ st.cur \in Heights /\ job \in JobType
        /\ job.h = st.cur /\ cur = st.cur + 1
        /\ st.exec = GoodState(st.cur) /\ st.tree = GoodTree(st.cur) /\ tree = st.tree
    BY <1>0, <1>5 DEF RecoverBlock, RecoverInv, TypeOK, Heights
  <2>2. executeBlock(st.cur).post = Exec(st.exec, st.cur)
    BY <1>0, <2>1, ValueTypes DEF TypeOK
  <2>3. /\ job'.step = "evt" /\ job'.h = st.cur
        /\ job'.res.post = Exec(st.exec, st.cur)
    BY <1>5, <2>1, <2>2 DEF RecoverBlock, JobType
  <2> QED
    BY <1>5, <2>1, <2>3 DEF RecoverBlock, RecoverInv, disk
<1>6. CASE RecoverDone
  BY <1>6, OtherPhase DEF RecoverDone, disk
<1>7. CASE FillBatches
  <2>1. proc # "recover"
    BY <1>0, <1>7 DEF FillBatches, RecoverInv
  <2> QED
    BY <1>7, <2>1, OtherPhase DEF FillBatches
<1>8. CASE WrongBlockRoot
  BY <1>8, OtherPhase DEF WrongBlockRoot, disk, memory
<1>9. CASE CommitBlockStore
  <2>1. proc # "recover"
    BY <1>0, <1>9 DEF CommitBlockStore, RecoverInv
  <2> QED
    BY <1>9, <2>1, OtherPhase DEF CommitBlockStore, memory
<1>10. CASE CommitEventStore
  BY <1>0, <1>10 DEF CommitEventStore, RecoverInv, memory
<1>11. CASE CommitStateStore
  BY <1>0, <1>11 DEF CommitStateStore, RecoverInv, memory
<1>12. CASE CommitError
  BY <1>12, OtherPhase DEF CommitError, disk, memory
<1>13. CASE FinishSave
  <2>1. proc # "recover"
    BY <1>0, <1>13 DEF FinishSave, RecoverInv
  <2> QED
    BY <1>13, <2>1, OtherPhase DEF FinishSave
<1>14. CASE AddHeader
  BY <1>14, OtherPhase DEF AddHeader, disk
<1>15. ASSUME NEW h \in Heights, NEW good \in BOOLEAN, AddBlock(h, good)
       PROVE  RecoverInv'
  BY <1>15, OtherPhase DEF AddBlock, disk, memory
<1>16. CASE SaveBlock
  BY <1>16, OtherPhase DEF SaveBlock, disk, memory, Idle
<1>17. ASSUME NEW h \in Heights, ExecuteBlock(h)
       PROVE  RecoverInv'
  BY <1>17, OtherPhase DEF ExecuteBlock, disk, memory, Idle
<1>18. CASE SubmitBlock
  BY <1>18, OtherPhase DEF SubmitBlock, disk, memory, Idle
<1>19. CASE EnableBlockPrune
  BY <1>19, OtherPhase DEF EnableBlockPrune, disk, Idle
<1>20. CASE Close
  BY <1>20, OtherPhase DEF Close, disk, Idle
<1>21. CASE Crash
  BY <1>21, OtherPhase DEF Crash, disk
<1>22. CASE CrossStoreError
  BY <1>22, OtherPhase DEF CrossStoreError, disk
<1> QED
  BY <1>1, <1>2, <1>3, <1>4, <1>5, <1>6, <1>7, <1>8, <1>9, <1>10, <1>11,
     <1>12, <1>13, <1>14, <1>15, <1>16, <1>17, <1>18, <1>19, <1>20, <1>21, <1>22 DEF Next

\* A process that is down has nothing in memory: only Crash leads there.
LEMMA DownStep ==
    ASSUME IInv, Next
    PROVE  DownInv'
<1>0. DownInv /\ GenesisInv /\ RecoverInv /\ UpInv
  BY DEF IInv
<1>a. ASSUME job.step # "none" PROVE proc # "down"
  BY <1>0, <1>a DEF DownInv, NoJob, NewJob
<1>b. ASSUME proc # "down", UNCHANGED <<proc, cons>> PROVE DownInv'
  BY <1>0, <1>b DEF DownInv
<1>c. ASSUME proc' = "up" PROVE DownInv'
  BY <1>c DEF DownInv
<1>1. CASE OpenStores
  <2>1. proc = "down" /\ proc' \in {"recover", "genesis"} /\ cons' = cons
    BY <1>1 DEF OpenStores
  <2> QED
    BY <1>0, <2>1 DEF DownInv
<1>2. CASE OpenRefused
  BY <1>0, <1>2, DownFrame DEF OpenRefused, vars, disk, memory
<1>3. CASE ClearAll
  BY <1>3, <1>a, <1>b DEF ClearAll, memory
<1>4. CASE SaveVersion
  BY <1>4, <1>c DEF SaveVersion
<1>5. CASE RecoverBlock
  BY <1>5, <1>a, <1>b DEF RecoverBlock
<1>6. CASE RecoverDone
  BY <1>6, <1>c DEF RecoverDone
<1>7. CASE FillBatches
  BY <1>7, <1>a, <1>b DEF FillBatches
<1>8. CASE WrongBlockRoot
  BY <1>8, <1>c DEF WrongBlockRoot, memory
<1>9. CASE CommitBlockStore
  BY <1>9, <1>a, <1>b DEF CommitBlockStore, memory
<1>10. CASE CommitEventStore
  BY <1>10, <1>a, <1>b DEF CommitEventStore, memory
<1>11. CASE CommitStateStore
  BY <1>11, <1>a, <1>b DEF CommitStateStore, memory
<1>12. CASE CommitError
  BY <1>12, <1>c DEF CommitError, memory
<1>13. CASE FinishSave
  BY <1>13, <1>a, <1>b DEF FinishSave
<1>14. CASE AddHeader
  BY <1>14, <1>c DEF AddHeader
<1>15. ASSUME NEW h \in Heights, NEW good \in BOOLEAN, AddBlock(h, good)
       PROVE  DownInv'
  BY <1>15, <1>c DEF AddBlock, memory
<1>16. CASE SaveBlock
  BY <1>16, <1>c DEF SaveBlock, memory, Idle
<1>17. ASSUME NEW h \in Heights, ExecuteBlock(h)
       PROVE  DownInv'
  BY <1>17, <1>c DEF ExecuteBlock, memory, Idle
<1>18. CASE SubmitBlock
  BY <1>18, <1>c DEF SubmitBlock, memory, Idle
<1>19. CASE EnableBlockPrune
  BY <1>19, <1>c DEF EnableBlockPrune, Idle
<1>20. CASE Close
  BY <1>20, <1>c DEF Close, Idle
<1>21. CASE Crash
  <2>1. proc' = "down" /\ cur' = 0 /\ hdrIdx' = {} /\ storedIdx' = 0 /\ job' = NoJob /\ cons'.h = -1
    BY <1>21 DEF Crash
  <2> QED
    BY <2>1 DEF DownInv
<1>22. CASE CrossStoreError
  BY <1>22, <1>c DEF CrossStoreError
<1> QED
  BY <1>1, <1>2, <1>3, <1>4, <1>5, <1>6, <1>7, <1>8, <1>9, <1>10, <1>11,
     <1>12, <1>13, <1>14, <1>15, <1>16, <1>17, <1>18, <1>19, <1>20, <1>21, <1>22 DEF Next

\* The genesis block: nothing but its own save runs before the version is set.
LEMMA GenesisStep ==
    ASSUME IInv, Next
    PROVE  GenesisInv'
<1>0. TypeOK /\ DownInv /\ GenesisInv /\ RecoverInv /\ UpInv
  BY SMTT(30) DEF IInv
<1>a. proc \in {"recover", "up"} => version
  BY <1>0 DEF RecoverInv, UpInv
<1>1. CASE OpenStores
  <2>1. UNCHANGED <<version, blk, st>>
    BY <1>1 DEF OpenStores, disk
  <2>2. CASE version
    <3>1. proc' = "recover"
      BY <1>1, <2>2 DEF OpenStores
    <3> QED
      BY <2>1, <2>2, <3>1, OtherPhase
  <2>3. CASE ~version
    <3>1. /\ proc = "down" /\ proc' = "genesis" /\ job' = NewJob("init", 0, "clearBlk", NoRes)
          /\ UNCHANGED <<cur, hdrIdx, storedIdx>>
      BY <1>1, <2>3 DEF OpenStores
    <3>2. cur' = 0 /\ hdrIdx' = {} /\ storedIdx' = 0
      BY <1>0, <3>1 DEF DownInv
    <3>3. job'.h = 0 /\ job'.list = {} /\ job'.step = "clearBlk"
      BY <3>1 DEF NewJob
    <3> QED
      BY <2>1, <2>3, <3>1, <3>2, <3>3 DEF GenesisInv
  <2> QED
    BY <2>2, <2>3
<1>2. CASE OpenRefused
  <2>1. UNCHANGED <<disk, memory, job>>
    BY <1>2 DEF OpenRefused, vars
  <2> QED
    BY <1>0, <2>1, GenesisFrame DEF disk, memory
<1>3. CASE ClearAll
  <2>1. job.h = 0 /\ job \in JobType
    BY <1>0, <1>3 DEF ClearAll, GenesisInv, TypeOK
  <2>2. CASE job.step = "clearBlk"
    BY <1>0, <1>3, <2>1, <2>2 DEF ClearAll, GenesisInv, EmptyBlk, JobType, memory
  <2>3. CASE job.step = "clearSt"
    BY <1>0, <1>3, <2>1, <2>3 DEF ClearAll, GenesisInv, JobType, memory
  <2>4. CASE job.step = "clearEvt"
    <3>1. executeBlock(0).post = GoodState(0)
      BY <1>0, <1>3, <2>4, GoodStateGenesis, ValueTypes
      DEF ClearAll, GenesisInv, TypeOK, EmptySt
    <3> QED
      BY <1>0, <1>3, <2>1, <2>4, <3>1, Zenon DEF ClearAll, GenesisInv, JobType, memory
  <2> QED
    BY <1>3, <2>2, <2>3, <2>4 DEF ClearAll
<1>4. CASE SaveVersion
  BY <1>4, OtherPhase DEF SaveVersion
<1>5. CASE RecoverBlock
  BY <1>a, <1>5, OtherPhase DEF RecoverBlock, disk
<1>6. CASE RecoverDone
  BY <1>a, <1>6, OtherPhase DEF RecoverDone, disk
<1>7. CASE FillBatches
  <2>1. CASE proc = "genesis"
    <3>1. /\ job.h = 0 /\ cur = 0 /\ storedIdx = 0 /\ hdrIdx = {} /\ ~version
          /\ blk.idx = {} /\ st = EmptySt /\ job.res.post = GoodState(0)
          /\ job \in JobType
      BY <1>0, <1>7, <2>1 DEF FillBatches, GenesisInv, TypeOK
    <3>2. NextIndexList = {} /\ NextStoredIdx = 0
      BY <1>0, <3>1, NextIndexListFits, BoundsAssumption DEF TypeOK
    <3>4. Len(tree') > 0 /\ (Len(tree') = 1 => tree' = GoodTree(0))
      BY <1>0, <1>7, <3>1, GoodTreeGenesis DEF FillBatches, TypeOK
    <3> QED
      BY <1>7, <2>1, <3>1, <3>2, <3>4 DEF FillBatches, GenesisInv, JobType
  <2>2. CASE proc # "genesis"
    BY <1>0, <1>7, <2>2 DEF FillBatches, GenesisInv
  <2> QED
    BY <2>1, <2>2
<1>8. CASE WrongBlockRoot
  BY <1>a, <1>8, OtherPhase DEF WrongBlockRoot, disk, memory
<1>9. CASE CommitBlockStore
  <2>1. job \in JobType
    BY <1>0 DEF TypeOK
  <2> QED
    BY <1>0, <1>9, <2>1 DEF CommitBlockStore, GenesisInv, JobType, memory
<1>10. CASE CommitEventStore
  BY <1>0, <1>10 DEF CommitEventStore, GenesisInv, DownInv, memory
<1>11. CASE CommitStateStore
  <2>1. job \in JobType /\ Chain[0] # EmptyRoot
    BY <1>0, ChainAssumption DEF TypeOK
  <2> QED
    BY <1>0, <1>11, <2>1 DEF CommitStateStore, GenesisInv, JobType, memory
<1>12. CASE CommitError
  BY <1>a, <1>12, OtherPhase DEF CommitError, disk, memory
<1>13. CASE FinishSave
  BY <1>0, <1>13 DEF FinishSave, GenesisInv, DownInv, disk
<1>14. CASE AddHeader
  BY <1>a, <1>14, OtherPhase DEF AddHeader, disk
<1>15. ASSUME NEW h \in Heights, NEW good \in BOOLEAN, AddBlock(h, good)
       PROVE  GenesisInv'
  BY <1>a, <1>15, OtherPhase DEF AddBlock, disk, memory
<1>16. CASE SaveBlock
  BY <1>a, <1>16, OtherPhase DEF SaveBlock, disk, memory, Idle
<1>17. ASSUME NEW h \in Heights, ExecuteBlock(h)
       PROVE  GenesisInv'
  BY <1>a, <1>17, OtherPhase DEF ExecuteBlock, disk, memory, Idle
<1>18. CASE SubmitBlock
  BY <1>a, <1>18, OtherPhase DEF SubmitBlock, disk, memory, Idle
<1>19. CASE EnableBlockPrune
  BY <1>a, <1>19, OtherPhase DEF EnableBlockPrune, disk, Idle
<1>20. CASE Close
  BY <1>a, <1>20, OtherPhase DEF Close, disk, Idle
<1>21. CASE Crash
  <2>1. proc' = "down"
    BY <1>21 DEF Crash
  <2> QED
    BY <2>1 DEF GenesisInv
<1>22. CASE CrossStoreError
  BY <1>a, <1>22, OtherPhase DEF CrossStoreError, disk
<1> QED
  BY <1>1, <1>2, <1>3, <1>4, <1>5, <1>6, <1>7, <1>8, <1>9, <1>10, <1>11,
     <1>12, <1>13, <1>14, <1>15, <1>16, <1>17, <1>18, <1>19, <1>20, <1>21, <1>22 DEF Next

\* What is saved: a commit of the state store leaves a good tree and a good
\* state, or a tree that the next start refuses.
LEMMA DiskStep ==
    ASSUME IInv, Next
    PROVE  DiskInv'
<1>0. TypeOK /\ DownInv /\ GenesisInv /\ DiskInv /\ RecoverInv /\ UpInv
  BY SMTT(30) DEF IInv
<1>1. CASE OpenStores
  BY <1>0, <1>1, DiskFrame DEF OpenStores, disk
<1>2. CASE OpenRefused
  BY <1>0, <1>2, DiskFrame DEF OpenRefused, vars, disk, memory
<1>3. CASE ClearAll
  <2>1. proc = "genesis" /\ version' = version
    BY <1>3 DEF ClearAll
  <2> QED
    BY <1>0, <2>1 DEF DiskInv, GenesisInv
<1>4. CASE SaveVersion
  <2>1. /\ st.cur = 0 /\ st.exec = GoodState(0) /\ st.tree = tree /\ blk.cur = 0
        /\ Len(tree) > 0 /\ (Len(tree) = 1 => tree = GoodTree(0))
    BY <1>0, <1>4 DEF SaveVersion, GenesisInv
  <2>2. 0 \in Heights
    BY ConstantTypes
  <2> QED
    BY <1>4, <2>1, <2>2 DEF SaveVersion, DiskInv
<1>5. CASE RecoverBlock
  BY <1>0, <1>5, DiskFrame DEF RecoverBlock, disk
<1>6. CASE RecoverDone
  BY <1>0, <1>6, DiskFrame DEF RecoverDone, disk
<1>7. CASE FillBatches
  BY <1>0, <1>7, DiskFrame DEF FillBatches
<1>8. CASE WrongBlockRoot
  BY <1>0, <1>8, DiskFrame DEF WrongBlockRoot, disk, memory
<1>9. CASE CommitBlockStore
  <2>1. CASE proc = "up"
    <3>1. /\ version /\ job.h = cur + 1 /\ st.cur <= cur
          /\ Len(st.tree) = st.cur + 1 => st.cur = cur
          /\ st' = st /\ version' = version /\ blk'.cur = job.h
      BY <1>0, <1>9, <2>1 DEF CommitBlockStore, UpInv
    <3>2. cur \in Int /\ st.cur \in Int /\ job.h \in Heights
      BY <1>0, HeightTypes
    <3> QED
      BY <1>0, <3>1, <3>2 DEF DiskInv
  <2>2. CASE proc # "up"
    BY <1>0, <1>9, <2>2
    DEF CommitBlockStore, DiskInv, DownInv, NoJob, NewJob, GenesisInv, RecoverInv, TypeOK
  <2> QED
    BY <2>1, <2>2
<1>10. CASE CommitEventStore
  BY <1>0, <1>10, DiskFrame DEF CommitEventStore, memory
<1>11. CASE CommitStateStore
  <2>1. CASE proc = "up"
    <3>1. /\ version /\ job.h = cur + 1 /\ blk.cur = job.h /\ st.exec = GoodState(cur)
          /\ tree = GoodTree(job.h) /\ job.res.post = Exec(st.exec, job.h)
      BY <1>0, <1>11, <2>1 DEF CommitStateStore, UpInv
    <3>2. job.h \in Heights /\ job.h # 0 /\ cur = job.h - 1 /\ job.h + 1 > 0
      BY <1>0, <3>1, HeightTypes DEF Heights
    <3>3. Exec(st.exec, job.h) = GoodState(job.h)
      BY <3>1, <3>2, GoodStateNext
    <3>4. st'.cur = job.h /\ st'.tree = tree /\ st'.exec = GoodState(job.h)
      BY <1>11, <3>1, <3>3 DEF CommitStateStore, Exec
    <3>5. Len(tree) > 0
      BY <3>1, <3>2, GoodTreeType
    <3> QED
      BY <1>11, <3>1, <3>2, <3>4, <3>5 DEF CommitStateStore, DiskInv
  <2>2. CASE proc = "recover"
    <3>1. /\ version /\ cur = blk.cur /\ st.cur \in Heights
          /\ job.h = st.cur /\ cur = st.cur + 1
          /\ st.tree = GoodTree(st.cur) /\ tree = Append(st.tree, Chain[st.cur])
      BY <1>0, <1>11, <2>2 DEF CommitStateStore, RecoverInv
    <3>2. Len(tree) = st.cur + 2
      <4>1. st.tree \in Seq(Roots) /\ Len(st.tree) = st.cur + 1 /\ st.cur \in Int
        BY <3>1, GoodTreeType DEF Heights
      <4>2. Chain[st.cur] \in Roots
        BY <3>1 DEF Roots
      <4> QED
        BY <3>1, <4>1, <4>2
    <3>3. st'.cur = st.cur /\ st'.tree = tree /\ blk' = blk /\ version' = version
      BY <1>11, <3>1 DEF CommitStateStore
    <3>4. blk.cur \in Heights /\ st.cur \in Nat
      BY <1>0, <3>1 DEF DiskInv, Heights
    <3>5. /\ Len(st'.tree) > 0 /\ Len(st'.tree) # st'.cur + 1
          /\ st'.cur # blk'.cur /\ st'.cur \in Heights /\ blk'.cur \in Heights
      <4>1. blk.cur = st.cur + 1 /\ st.cur \in Heights
        BY <3>1
      <4>2. st.cur # st.cur + 1 /\ st.cur + 2 > 0 /\ st.cur + 2 # st.cur + 1
        BY <3>4
      <4> QED
        BY <4>1, <4>2, <3>2, <3>3, <3>4
    <3> QED
      BY <3>5 DEF DiskInv
  <2>3. CASE proc \notin {"up", "recover"}
    BY <1>0, <1>11, <2>3
    DEF CommitStateStore, DiskInv, DownInv, NoJob, NewJob, GenesisInv, TypeOK
  <2> QED
    BY <2>1, <2>2, <2>3
<1>12. CASE CommitError
  BY <1>0, <1>12, DiskFrame DEF CommitError, disk, memory
<1>13. CASE FinishSave
  BY <1>0, <1>13, DiskFrame DEF FinishSave, disk
<1>14. CASE AddHeader
  BY <1>0, <1>14, DiskFrame DEF AddHeader, disk
<1>15. ASSUME NEW h \in Heights, NEW good \in BOOLEAN, AddBlock(h, good)
       PROVE  DiskInv'
  BY <1>0, <1>15, DiskFrame DEF AddBlock, disk, memory
<1>16. CASE SaveBlock
  BY <1>0, <1>16, DiskFrame DEF SaveBlock, disk, memory, Idle
<1>17. ASSUME NEW h \in Heights, ExecuteBlock(h)
       PROVE  DiskInv'
  BY <1>0, <1>17, DiskFrame DEF ExecuteBlock, disk, memory, Idle
<1>18. CASE SubmitBlock
  BY <1>0, <1>18, DiskFrame DEF SubmitBlock, disk, memory, Idle
<1>19. CASE EnableBlockPrune
  BY <1>0, <1>19, DiskFrame DEF EnableBlockPrune, disk, Idle
<1>20. CASE Close
  BY <1>0, <1>20, DiskFrame DEF Close, disk, Idle
<1>21. CASE Crash
  BY <1>0, <1>21, DiskFrame DEF Crash, disk
<1>22. CASE CrossStoreError
  BY <1>0, <1>22, DiskFrame DEF CrossStoreError, disk
<1> QED
  BY <1>1, <1>2, <1>3, <1>4, <1>5, <1>6, <1>7, <1>8, <1>9, <1>10, <1>11,
     <1>12, <1>13, <1>14, <1>15, <1>16, <1>17, <1>18, <1>19, <1>20, <1>21, <1>22 DEF Next
=============================================================================
