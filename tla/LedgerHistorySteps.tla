------------------------- MODULE LedgerHistorySteps -------------------------
(***************************************************************************)
(* What LedgerStore keeps of its history, with and without pruning: the    *)
(* events of every block that is part of the saved state, and the blocks   *)
(* that the preserved history and the last chain config need.              *)
(***************************************************************************)
EXTENDS LedgerIndexSteps

\* Every block held up to height h has its events.
EventsUpTo(h) == \A i \in Heights : i <= h /\ i \in blk.have /\ Chain[i] # EmptyRoot => i \in evt.saved

\* A tree in memory that fits the current block vouches for the events as well;
\* what a save takes from the event store it has taken from the block store.
EventsInv ==
    /\ version => EventsUpTo(st.cur)
    /\ proc = "genesis" /\ job.step \in {"st", "set", "version"} => 0 \in evt.saved
    /\ proc = "recover" => job.gone = {}
    /\ proc = "up" =>
        /\ \/ job.step \in {"none", "batch"} /\ tree = GoodTree(cur)
           \/ job.step \in {"blk", "evt", "st"}
           => EventsUpTo(cur)
        /\ job.step = "evt" => blk.have \cap job.gone \subseteq {job.h}
        /\ job.step = "st" /\ Chain[job.h] # EmptyRoot => job.h \in evt.saved

\* The blocks that a save is about to drop are those of the batch at hand.
PruneInv == proc = "up" /\ job.step = "blk" => job.gone = PruneRange(job.h)

-----------------------------------------------------------------------------
(* The events.                                                              *)

\* A step that leaves what EventsInv speaks of, with a save that ends or goes on
\* to its batches.
LEMMA EventsFrame ==
    ASSUME EventsInv, blk' = blk, evt' = evt, st' = st, version' = version, proc' = proc,
           tree' = tree, cur' = cur,
           job' = job \/ job'.step \in {"none", "batch"}, proc = "recover" => job' = job,
           job'.step # job.step /\ proc = "up" /\ tree = GoodTree(cur) => EventsUpTo(cur)
    PROVE  EventsInv'
<1>1. (version => EventsUpTo(st.cur))'
  BY DEF EventsInv, EventsUpTo
<1>2. (proc = "genesis" /\ job.step \in {"st", "set", "version"} => 0 \in evt.saved)'
  BY DEF EventsInv
<1>3. (proc = "recover" => job.gone = {})'
  BY DEF EventsInv
<1>4. ASSUME proc' = "up"
      PROVE (/\ \/ job.step \in {"none", "batch"} /\ tree = GoodTree(cur)
                \/ job.step \in {"blk", "evt", "st"}
                => EventsUpTo(cur))'
  <2>1. EventsUpTo(cur) => EventsUpTo(cur)'
    BY DEF EventsUpTo
  <2>2. GoodTree(cur)' = GoodTree(cur)
    BY DEF GoodTree
  <2>3. QED
    BY <1>4, <2>1, <2>2 DEF EventsInv
<1>5. (proc = "up" => /\ job.step = "evt" => blk.have \cap job.gone \subseteq {job.h}
                      /\ job.step = "st" /\ Chain[job.h] # EmptyRoot => job.h \in evt.saved)'
  BY DEF EventsInv
<1> QED
  BY <1>1, <1>2, <1>3, <1>4, <1>5 DEF EventsInv

\* The conjuncts of EventsInv on a running node.
EventsUp ==
    /\ \/ job.step \in {"none", "batch"} /\ tree = GoodTree(cur)
       \/ job.step \in {"blk", "evt", "st"}
       => EventsUpTo(cur)
    /\ job.step = "evt" => blk.have \cap job.gone \subseteq {job.h}
    /\ job.step = "st" /\ Chain[job.h] # EmptyRoot => job.h \in evt.saved

\* The commit of the event store takes nothing of a block that is still held.
LEMMA CommitEventKeeps ==
    ASSUME NEW h \in Int, EventsUpTo(h), CommitEventStore, blk.have \cap job.gone \subseteq {job.h}
    PROVE  EventsUpTo(h)'
<1>1. blk' = blk
  BY DEF CommitEventStore
<1>2. evt'.saved = (evt.saved \ job.gone) \cup (IF Chain[job.h] = EmptyRoot THEN {} ELSE {job.h})
  BY DEF CommitEventStore
<1>3. SUFFICES ASSUME NEW k \in Heights, k <= h, k \in blk.have, Chain[k] # EmptyRoot
               PROVE  k \in evt'.saved
  BY <1>1 DEF EventsUpTo
<1>4. k \in evt.saved
  BY <1>3 DEF EventsUpTo
<1> QED
  BY <1>2, <1>3, <1>4

\* Every step keeps EventsInv; the event store is ahead of the state store in each save.
LEMMA EventsStep ==
    ASSUME IInv, EventsInv, Next
    PROVE  EventsInv'
<1>0. /\ TypeOK /\ DownInv /\ GenesisInv /\ DiskInv /\ RecoverInv /\ UpInv
      /\ version => EventsUpTo(st.cur)
      /\ proc = "up" => EventsUp
  BY DEF IInv, EventsInv, EventsUp
<1>a. /\ cur \in Heights /\ job.h \in Heights /\ st.cur \in Heights \cup {-1}
      /\ proc \in {"down", "genesis", "recover", "up"}
  BY <1>0 DEF TypeOK, JobType
<1>b. /\ cur \in Nat /\ job.h \in Nat /\ st.cur \in Int /\ MaxHeight \in Nat
      /\ \A k \in Heights : k \in Nat
  BY <1>a, BoundsAssumption DEF Heights
<1>1. CASE OpenStores
  <2>1. /\ UNCHANGED <<version, blk, evt, st>> /\ proc' \in {"recover", "genesis"}
        /\ job'.gone = {} /\ job'.step \in {"exec", "clearBlk"}
    BY <1>1 DEF OpenStores, NewJob, disk
  <2>2. (version => EventsUpTo(st.cur))'
    BY <1>0, <2>1 DEF EventsUpTo
  <2> QED
    BY <2>1, <2>2 DEF EventsInv
<1>2. CASE OpenRefused
  BY <1>2, EventsFrame DEF OpenRefused, vars, disk, memory
<1>3. CASE ClearAll
  <2>1. ~version' /\ proc' = "genesis"
    BY <1>0, <1>3 DEF ClearAll, GenesisInv, memory
  <2>2. job'.step \in {"clearSt", "clearEvt", "batch"}
    <3>1. job \in JobType
      BY <1>0 DEF TypeOK
    <3> QED
      BY <1>3, <3>1, Zenon DEF ClearAll, JobType
  <2> QED
    BY <2>1, <2>2 DEF EventsInv
<1>4. CASE SaveVersion
  <2>1. /\ proc = "genesis" /\ job.step = "version" /\ proc' = "up" /\ job'.step = "none"
        /\ UNCHANGED <<blk, evt, st, cur>>
    BY <1>4 DEF SaveVersion, NoJob, NewJob
  <2>2. st.cur = 0 /\ cur = 0 /\ 0 \in evt.saved
    BY <1>0, <2>1 DEF GenesisInv, EventsInv
  <2>3. \A k \in Heights : k <= 0 => k = 0
    BY <1>b
  <2>4. EventsUpTo(st.cur)' /\ EventsUpTo(cur)'
    BY <2>1, <2>2, <2>3 DEF EventsUpTo
  <2> QED
    BY <2>1, <2>4 DEF EventsInv
<1>5. CASE RecoverBlock
  <2>1. /\ proc = "recover" /\ proc' = proc /\ UNCHANGED <<version, blk, evt, st>>
    BY <1>5 DEF RecoverBlock, disk
  <2>2. job'.gone = job.gone
    <3>1. job \in JobType
      BY <1>0 DEF TypeOK
    <3> QED
      BY <1>5, <3>1 DEF RecoverBlock, JobType
  <2>3. (version => EventsUpTo(st.cur))'
    BY <1>0, <2>1 DEF EventsUpTo
  <2> QED
    BY <2>1, <2>2, <2>3 DEF EventsInv
<1>6. CASE RecoverDone
  <2>1. /\ proc = "recover" /\ proc' = "up" /\ job'.step = "none" /\ UNCHANGED <<version, blk, evt, st, cur, tree>>
        /\ job.step = "exec" /\ job.h >= cur
    BY <1>6 DEF RecoverDone, NoJob, NewJob, disk
  <2>2. version /\ EventsUpTo(st.cur)
    BY <1>0, <2>1 DEF RecoverInv
  <2>3. ASSUME tree = GoodTree(cur) PROVE EventsUpTo(cur)
    <3>1. CASE cur = st.cur
      BY <2>2, <3>1
    <3>2. CASE cur = st.cur + 1 /\ tree = Append(GoodTree(st.cur), Chain[st.cur]) /\ st.cur \in Heights
      <4>1. cur # 0 /\ Chain[st.cur] \in Roots /\ GoodTree(st.cur) \in Seq(Roots)
        BY <1>b, <3>2, GoodTreeType DEF Roots, Heights
      <4>2. Chain[st.cur] = Chain[cur]
        BY <1>a, <2>3, <3>2, <4>1, RootCheck
      <4>3. Chain[cur] = EmptyRoot
        BY <1>a, <1>b, <3>2, <4>2, ChainAssumption
      <4>4. \A k \in Heights : k <= cur => k <= st.cur \/ k = cur
        BY <1>b, <3>2
      <4> QED
        BY <2>2, <4>3, <4>4 DEF EventsUpTo
    <3>3. cur = st.cur \/ (cur = st.cur + 1 /\ tree = Append(GoodTree(st.cur), Chain[st.cur]) /\ st.cur \in Heights)
      BY <1>0, <1>b, <2>1 DEF RecoverInv
    <3> QED
      BY <3>1, <3>2, <3>3
  <2>4. GoodTree(cur)' = GoodTree(cur)
    BY <2>1 DEF GoodTree
  <2>5. (version => EventsUpTo(st.cur))' /\ (EventsUpTo(cur) => EventsUpTo(cur)')
    BY <2>1, <2>2 DEF EventsUpTo
  <2> QED
    BY <2>1, <2>3, <2>4, <2>5 DEF EventsInv
<1>7. CASE FillBatches
  <2>1. /\ job.step = "batch" /\ UNCHANGED <<version, blk, evt, st, proc, cur>>
        /\ job.h # 0 => Append(tree, Chain[job.h]) = GoodTree(job.h)
    BY <1>7 DEF FillBatches
  <2>2. job'.step = "blk"
    <3>1. job \in JobType
      BY <1>0 DEF TypeOK
    <3> QED
      BY <1>7, <3>1 DEF FillBatches, JobType
  <2>3. proc # "recover"
    BY <1>0, <2>1 DEF RecoverInv
  <2>4. ASSUME proc = "up" PROVE EventsUpTo(cur)
    <3>1. job.h = cur + 1 /\ job.h # 0
      BY <1>0, <1>b, <2>1, <2>4 DEF UpInv
    <3>2. tree \in Seq(Roots) /\ Chain[job.h] \in Roots
      BY <1>0, <1>a DEF TypeOK, Roots
    <3>3. tree = GoodTree(job.h - 1)
      BY <1>a, <2>1, <3>1, <3>2, RootCheck
    <3>4. job.h - 1 = cur
      BY <1>b, <3>1
    <3> QED
      BY <1>0, <2>1, <2>4, <3>3, <3>4 DEF EventsUp
  <2>5. (version => EventsUpTo(st.cur))' /\ (EventsUpTo(cur) => EventsUpTo(cur)')
    BY <1>0, <2>1 DEF EventsUpTo
  <2> QED
    BY <2>1, <2>2, <2>3, <2>4, <2>5 DEF EventsInv
<1>8. CASE WrongBlockRoot
  <2>1. job'.step = "none" /\ job.step = "batch" /\ proc = "up" /\ UNCHANGED <<disk, memory>>
    BY <1>8 DEF WrongBlockRoot, NoJob, NewJob
  <2> QED
    BY <1>0, <2>1, EventsFrame DEF EventsUp, disk, memory
<1>22. CASE CrossStoreError
  <2>1. job'.step = "none" /\ job.step = "batch" /\ proc = "up" /\ UNCHANGED <<disk, proc, tree, cur>>
    BY <1>22 DEF CrossStoreError, NoJob, NewJob
  <2> QED
    BY <1>0, <2>1, EventsFrame DEF EventsUp, disk
<1>9. CASE CommitBlockStore
  <2>1. /\ job.step = "blk" /\ UNCHANGED <<version, evt, st, memory>>
        /\ blk'.have = (blk.have \ job.gone) \cup {job.h}
    BY <1>9 DEF CommitBlockStore
  <2>2. job'.step = "evt" /\ job'.h = job.h /\ job'.gone = job.gone
    <3>1. job \in JobType
      BY <1>0 DEF TypeOK
    <3> QED
      BY <1>9, <3>1 DEF CommitBlockStore, JobType
  <2>3. CASE proc = "up"
    <3>1. job.h = cur + 1 /\ st.cur <= cur /\ EventsUpTo(cur) /\ version
      BY <1>0, <2>1, <2>3 DEF UpInv, EventsUp
    <3>2. EventsUpTo(cur)'
      <4>1. \A k \in Heights : k <= cur => k # job.h
        BY <1>b, <3>1
      <4>2. UNCHANGED <<cur, evt>>
        BY <2>1 DEF memory
      <4> QED
        BY <2>1, <3>1, <4>1, <4>2 DEF EventsUpTo
    <3>3. EventsUpTo(st.cur)'
      <4>1. \A k \in Heights : k <= st.cur => k <= cur
        BY <1>b, <3>1
      <4>2. UNCHANGED <<st, cur>>
        BY <2>1 DEF memory
      <4> QED
        BY <3>2, <4>1, <4>2 DEF EventsUpTo
    <3>4. blk'.have \cap job'.gone \subseteq {job'.h}
      BY <2>1, <2>2
    <3> QED
      BY <2>1, <2>2, <2>3, <3>2, <3>3, <3>4 DEF EventsInv, memory
  <2>4. CASE proc = "genesis"
    BY <1>0, <2>1, <2>2, <2>4 DEF EventsInv, GenesisInv, memory
  <2>5. proc \in {"up", "genesis"}
    <3>1. proc # "recover"
      BY <1>0, <2>1 DEF RecoverInv
    <3>2. proc # "down"
      BY <1>0, <2>1 DEF DownInv, NoJob, NewJob
    <3> QED
      BY <1>a, <3>1, <3>2
  <2> QED
    BY <2>3, <2>4, <2>5
<1>10. CASE CommitEventStore
  <2>1. /\ job.step = "evt" /\ UNCHANGED <<version, blk, st, memory>>
        /\ evt'.saved = (evt.saved \ job.gone) \cup (IF Chain[job.h] = EmptyRoot THEN {} ELSE {job.h})
    BY <1>10 DEF CommitEventStore
  <2>2. job'.step = "st" /\ job'.h = job.h /\ job'.gone = job.gone
    <3>1. job \in JobType
      BY <1>0 DEF TypeOK
    <3> QED
      BY <1>10, <3>1 DEF CommitEventStore, JobType
  <2>3. CASE proc = "up"
    <3>1. EventsUpTo(cur) /\ blk.have \cap job.gone \subseteq {job.h} /\ version
      BY <1>0, <2>1, <2>3 DEF UpInv, EventsUp
    <3>2. \A h \in Int : EventsUpTo(h) => EventsUpTo(h)'
      BY <1>10, <3>1, CommitEventKeeps
    <3>3. UNCHANGED <<st, cur, proc>>
      BY <2>1 DEF memory
    <3>4. EventsUpTo(cur)' /\ EventsUpTo(st.cur)'
      <4>1. cur \in Int
        BY <1>b
      <4>2. \A k \in Heights : k <= cur /\ k \in blk'.have /\ Chain[k] # EmptyRoot => k \in evt'.saved
        BY <3>1, <3>2, <4>1 DEF EventsUpTo
      <4>3. \A k \in Heights : k <= st.cur /\ k \in blk'.have /\ Chain[k] # EmptyRoot => k \in evt'.saved
        BY <1>0, <1>b, <3>1, <3>2 DEF EventsUpTo
      <4> QED
        BY <3>3, <4>2, <4>3 DEF EventsUpTo
    <3>5. Chain[job'.h] # EmptyRoot => job'.h \in evt'.saved
      BY <2>1, <2>2
    <3> QED
      BY <2>1, <2>2, <2>3, <3>3, <3>4, <3>5 DEF EventsInv
  <2>4. CASE proc = "genesis"
    <3>1. job.h = 0 /\ ~version
      BY <1>0, <2>4 DEF GenesisInv
    <3>2. 0 \in evt'.saved
      BY <2>1, <3>1, ChainAssumption
    <3> QED
      BY <2>1, <2>4, <3>1, <3>2 DEF EventsInv, memory
  <2>5. CASE proc = "recover"
    <3>1. job.gone = {} /\ version /\ proc' = proc /\ st' = st /\ blk' = blk
      BY <1>0, <2>1, <2>5 DEF EventsInv, RecoverInv, memory
    <3>2. evt.saved \subseteq evt'.saved
      BY <2>1, <3>1
    <3>3. EventsUpTo(st.cur)'
      BY <1>0, <3>1, <3>2 DEF EventsUpTo
    <3> QED
      BY <2>2, <2>5, <3>1, <3>3 DEF EventsInv
  <2>6. proc # "down"
    BY <1>0, <2>1 DEF DownInv, NoJob, NewJob
  <2> QED
    BY <1>a, <2>3, <2>4, <2>5, <2>6
<1>11. CASE CommitStateStore
  <2>1. job.step = "st" /\ UNCHANGED <<version, blk, evt, memory>> /\ st'.cur = job.h
    BY <1>11 DEF CommitStateStore
  <2>2. job'.step \in {"exec", "set"} /\ job'.gone = job.gone
    <3>1. job \in JobType
      BY <1>0 DEF TypeOK
    <3> QED
      BY <1>11, <3>1 DEF CommitStateStore, JobType
  <2>3. CASE proc = "up"
    <3>1. EventsUpTo(cur) /\ job.h = cur + 1 /\ (Chain[job.h] # EmptyRoot => job.h \in evt.saved)
      BY <1>0, <2>1, <2>3 DEF UpInv, EventsUp
    <3>2. \A k \in Heights : k <= job.h => k <= cur \/ k = job.h
      BY <1>b, <3>1
    <3>3. EventsUpTo(st.cur)'
      BY <2>1, <3>1, <3>2 DEF EventsUpTo
    <3> QED
      BY <2>1, <2>2, <2>3, <3>3 DEF EventsInv, memory
  <2>4. CASE proc = "genesis"
    <3>1. ~version /\ 0 \in evt.saved
      BY <1>0, <2>1, <2>4 DEF GenesisInv, EventsInv
    <3> QED
      BY <2>1, <2>4, <3>1 DEF EventsInv, memory
  <2>5. CASE proc = "recover"
    <3>1. job.gone = {} /\ version /\ job.h = st.cur
      BY <1>0, <2>1, <2>5 DEF EventsInv, RecoverInv
    <3>2. EventsUpTo(st.cur)'
      BY <1>0, <2>1, <3>1 DEF EventsUpTo
    <3> QED
      BY <2>1, <2>2, <2>5, <3>1, <3>2 DEF EventsInv, memory
  <2>6. proc # "down"
    BY <1>0, <2>1 DEF DownInv, NoJob, NewJob
  <2> QED
    BY <1>a, <2>3, <2>4, <2>5, <2>6
<1>12. CASE CommitError
  <2>1. job'.step = "none" /\ job.step \in {"blk", "evt", "st"} /\ proc = "up" /\ UNCHANGED <<disk, memory>>
    BY <1>12 DEF CommitError, NoJob, NewJob
  <2> QED
    BY <1>0, <2>1, EventsFrame DEF EventsUp, disk, memory
<1>13. CASE FinishSave
  <2>1. job.step = "set" /\ UNCHANGED <<version, blk, evt, st, proc>> /\ cur' = job.h
    BY <1>13 DEF FinishSave, disk
  <2>2. (version => EventsUpTo(st.cur))'
    BY <1>0, <2>1 DEF EventsUpTo
  <2>3. CASE proc = "up"
    <3>1. st.cur = job.h /\ version
      BY <1>0, <2>1, <2>3 DEF UpInv
    <3>2. EventsUpTo(cur)'
      BY <1>0, <2>1, <3>1 DEF EventsUpTo
    <3>3. job'.step = "none"
      BY <1>13, <2>3 DEF FinishSave, NoJob, NewJob
    <3> QED
      BY <2>1, <2>2, <2>3, <3>2, <3>3 DEF EventsInv
  <2>4. CASE proc = "genesis"
    <3>1. 0 \in evt.saved
      BY <2>1, <2>4 DEF EventsInv
    <3> QED
      BY <2>1, <2>2, <2>4, <3>1 DEF EventsInv
  <2>5. proc \in {"up", "genesis"}
    <3>1. proc # "recover"
      BY <1>0, <2>1 DEF RecoverInv
    <3>2. proc # "down"
      BY <1>0, <2>1 DEF DownInv, NoJob, NewJob
    <3> QED
      BY <1>a, <3>1, <3>2
  <2> QED
    BY <2>3, <2>4, <2>5
<1>14. CASE AddHeader
  BY <1>14, EventsFrame DEF AddHeader, disk
<1>15. ASSUME NEW h \in Heights, NEW good \in BOOLEAN, AddBlock(h, good)
       PROVE  EventsInv'
  BY <1>15, EventsFrame DEF AddBlock, disk, memory
<1>16. CASE SaveBlock
  <2>1. /\ proc = "up" /\ job.step = "none" /\ UNCHANGED <<disk, memory>>
        /\ job' = job \/ job'.step = "batch"
    BY <1>16 DEF SaveBlock, Idle, NoJob, NewJob
  <2> QED
    BY <1>0, <2>1, EventsFrame DEF EventsUp, disk, memory
<1>17. ASSUME NEW h \in Heights, ExecuteBlock(h)
       PROVE  EventsInv'
  BY <1>17, EventsFrame DEF ExecuteBlock, disk, memory
<1>18. CASE SubmitBlock
  <2>1. proc = "up" /\ job.step = "none" /\ UNCHANGED <<disk, memory>> /\ job'.step = "batch"
    BY <1>18 DEF SubmitBlock, Idle, NoJob, NewJob
  <2> QED
    BY <1>0, <2>1, EventsFrame DEF EventsUp, disk, memory
<1>19. CASE EnableBlockPrune
  BY <1>19, EventsFrame DEF EnableBlockPrune, disk
<1>20. CASE Close
  BY <1>20, EventsFrame DEF Close, disk
<1>21. CASE Crash
  <2>1. proc' = "down" /\ UNCHANGED <<version, blk, evt, st>>
    BY <1>21 DEF Crash, disk
  <2>2. (version => EventsUpTo(st.cur))'
    BY <1>0, <2>1 DEF EventsUpTo
  <2> QED
    BY <2>1, <2>2 DEF EventsInv
<1> QED
  BY <1>1, <1>2, <1>3, <1>4, <1>5, <1>6, <1>7, <1>8, <1>9, <1>10, <1>11,
     <1>12, <1>13, <1>14, <1>15, <1>16, <1>17, <1>18, <1>19, <1>20, <1>21, <1>22 DEF Next

-----------------------------------------------------------------------------
(* Pruning.                                                                 *)

\* Nothing that decides what is dropped changes between the filling of the batch
\* and its commit.
LEMMA PruneStep ==
    ASSUME IInv, PruneInv, Next
    PROVE  PruneInv'
<1>1. job \in JobType
  BY DEF IInv, TypeOK
<1>2. CASE FillBatches
  <2>0. blk' = blk /\ preserve' = preserve
    BY <1>2 DEF FillBatches
  <2>1. job'.h = job.h /\ job'.gone = PruneRange(job.h)
    BY <1>1, <1>2 DEF FillBatches, JobType
  <2>2. PruneRange(job.h)' = PruneRange(job.h)
    <3>1. job.h' = job.h
      BY <2>1
    <3> QED
      BY <2>0, <3>1 DEF PruneRange, PruneEnabled, PruneEnd, PruneLimit, maxAllowedPruneHeight
  <2> QED
    BY <2>1, <2>2 DEF PruneInv
<1>3. CASE job'.step # "blk" \/ proc' # "up"
  BY <1>3 DEF PruneInv
<1>4. CASE job' = job /\ blk' = blk /\ preserve' = preserve /\ proc' = proc
  <2>1. PruneRange(job.h)' = PruneRange(job.h)
    BY <1>4 DEF PruneRange, PruneEnabled, PruneEnd, PruneLimit, maxAllowedPruneHeight
  <2> QED
    BY <1>4, <2>1 DEF PruneInv
<1>5. CASE OpenStores
  <2>1. proc' # "up"
    BY <1>5, Zenon DEF OpenStores
  <2> QED
    BY <1>3, <2>1
<1>6. CASE SaveVersion \/ RecoverDone \/ WrongBlockRoot \/ CrossStoreError \/ CommitError \/ Crash
  <2>1. job' = NoJob
    BY <1>6, Zenon DEF SaveVersion, RecoverDone, WrongBlockRoot, CrossStoreError, CommitError, Crash
  <2> QED
    BY <1>3, <2>1 DEF NoJob, NewJob
<1>7. CASE ClearAll \/ RecoverBlock
  <2>1. proc' # "up"
    BY <1>7 DEF ClearAll, RecoverBlock, memory
  <2> QED
    BY <1>3, <2>1
<1>8. CASE CommitBlockStore \/ CommitEventStore
  <2>1. job'.step \in {"evt", "st"}
    BY <1>1, <1>8 DEF CommitBlockStore, CommitEventStore, JobType
  <2> QED
    BY <1>3, <2>1
<1>9. CASE CommitStateStore
  <2>1. job'.step \in {"exec", "set"}
    BY <1>1, <1>9 DEF CommitStateStore, JobType
  <2> QED
    BY <1>3, <2>1
<1>10. CASE FinishSave
  <2>1. job'.step \in {"version", "none"}
    BY <1>1, <1>10 DEF FinishSave, JobType, NoJob, NewJob
  <2> QED
    BY <1>3, <2>1
<1>11. CASE SaveBlock
  <2>1. job'.step \in {"none", "batch"}
    BY <1>11 DEF SaveBlock, Idle, NoJob, NewJob
  <2> QED
    BY <1>3, <2>1
<1>12. CASE SubmitBlock
  BY <1>3, <1>12 DEF SubmitBlock, NewJob
<1>13. CASE OpenRefused \/ AddHeader \/ Close
  <2>1. UNCHANGED <<disk, job, preserve, proc>>
    <3>1. CASE OpenRefused
      BY <3>1 DEF OpenRefused, vars, memory
    <3>2. CASE AddHeader
      BY <3>2 DEF AddHeader
    <3>3. CASE Close
      BY <3>3 DEF Close
    <3> QED
      BY <1>13, <3>1, <3>2, <3>3
  <2> QED
    BY <1>4, <2>1 DEF disk
<1>14. CASE EnableBlockPrune
  BY <1>3, <1>14 DEF EnableBlockPrune, Idle, NoJob, NewJob
<1>15. ASSUME NEW h \in Heights, NEW good \in BOOLEAN, AddBlock(h, good)
       PROVE  PruneInv'
  BY <1>4, <1>15 DEF AddBlock, disk, memory
<1>16. ASSUME NEW h \in Heights, ExecuteBlock(h)
       PROVE  PruneInv'
  BY <1>4, <1>16 DEF ExecuteBlock, disk, memory
<1> QED
  BY <1>2, <1>5, <1>6, <1>7, <1>8, <1>9, <1>10, <1>11, <1>12, <1>13, <1>14, <1>15, <1>16
  DEF Next

\* A height the prune loop visits lies below the preserved history and below the
\* last chain config (tryPruneBlock), as long as no height wraps around.
LEMMA PruneRangeIsOld ==
    ASSUME MaxHeight + PreserveLen < Word, TypeOK, NEW h \in Heights, h >= preserve,
           NEW k \in PruneRange(h)
    PROVE  k > 0 /\ k + preserve < h /\ k < LastConfig[h]
<1> DEFINE height == maxAllowedPruneHeight(h)
<1>1. /\ preserve \in Nat /\ preserve <= PreserveLen /\ blk.pruned \in Nat
      /\ h \in Nat /\ h <= MaxHeight /\ k \in Nat
      /\ MaxHeight \in Nat /\ PreserveLen \in Nat /\ Word \in Nat
  <2>1. MaxHeight \in Nat /\ PreserveLen \in Nat /\ Word \in Nat
    BY BoundsAssumption
  <2>2. preserve \in {0, PreserveLen}
    BY DEF TypeOK
  <2>3. blk.pruned \in Nat
    BY DEF TypeOK, BlkType
  <2>4. k \in Heights
    BY DEF PruneRange
  <2> QED
    BY <2>1, <2>2, <2>3, <2>4 DEF Heights
<1>2. LastConfig[h] \in Nat /\ LastConfig[h] <= h
  BY HeadersAssumption DEF Heights
<1>3. height \in Nat /\ height <= h /\ (height > 0 => height < LastConfig[h])
  BY <1>1, <1>2 DEF maxAllowedPruneHeight
<1>4. blk.pruned < k /\ k < PruneEnd(h)
  BY DEF PruneRange
<1>5. k < PruneLimit(h)
  <2>1. PruneLimit(h) \in Nat
    <3>1. (h - preserve) % Word \in Nat
      BY <1>1
    <3> QED
      BY <1>3, <3>1 DEF PruneLimit
  <2> QED
    BY <1>1, <1>4, <2>1, BoundsAssumption DEF PruneEnd
<1>6. (height + preserve) % Word = height + preserve /\ (h - preserve) % Word = h - preserve
  <2> HIDE DEF height
  <2> QED
    BY <1>1, <1>3
<1>7. CASE height + preserve >= h
  <2>1. k < h - preserve
    BY <1>5, <1>6, <1>7 DEF PruneLimit
  <2> HIDE DEF height
  <2> QED
    BY <1>1, <1>2, <1>3, <1>4, <1>7, <2>1
<1>8. CASE height + preserve < h
  <2>1. k < height
    <3>1. ~(height + preserve >= h)
      BY <1>1, <1>3, <1>8
    <3> QED
      BY <1>5, <1>6, <3>1 DEF PruneLimit
  <2> HIDE DEF height
  <2> QED
    BY <1>1, <1>2, <1>3, <1>4, <1>8, <2>1
<1> HIDE DEF height
<1> QED
  BY <1>1, <1>3, <1>7, <1>8

\* Only the commit of a running node's save drops blocks of an initialised ledger,
\* and it drops the heights the prune loop visited.
LEMMA DroppedArePruned ==
    ASSUME IInv, PruneInv, [Next]_vars, version, NEW k \in blk.have \ blk'.have
    PROVE  job.h \in Heights /\ k \in PruneRange(job.h)
<1>1. CASE CommitBlockStore
  <2>1. k \in job.gone /\ job.step = "blk"
    BY <1>1 DEF CommitBlockStore
  <2>2. proc = "up"
    <3>1. proc # "genesis"
      BY DEF IInv, GenesisInv
    <3>2. proc # "recover"
      BY <2>1 DEF IInv, RecoverInv
    <3>3. proc # "down"
      BY <2>1 DEF IInv, DownInv, NoJob, NewJob
    <3> QED
      BY <3>1, <3>2, <3>3 DEF IInv, TypeOK
  <2>3. job.h \in Heights
    BY DEF IInv, TypeOK, JobType
  <2> QED
    BY <2>1, <2>2, <2>3 DEF PruneInv
<1>2. CASE ClearAll
  BY <1>2 DEF ClearAll, IInv, GenesisInv
<1>3. CASE blk' = blk
  BY <1>3
<1>4. ASSUME OpenStores \/ OpenRefused \/ SaveVersion \/ RecoverBlock \/ RecoverDone
             \/ FillBatches \/ WrongBlockRoot \/ CrossStoreError
      PROVE  blk' = blk
  BY <1>4, Zenon DEF OpenStores, OpenRefused, SaveVersion, RecoverBlock, RecoverDone, FillBatches,
              WrongBlockRoot, CrossStoreError, vars, disk
<1>5. ASSUME CommitEventStore \/ CommitStateStore \/ CommitError \/ FinishSave
             \/ AddHeader \/ SaveBlock \/ SubmitBlock \/ EnableBlockPrune \/ Close \/ Crash
      PROVE  blk' = blk
  BY <1>5, Zenon DEF CommitEventStore, CommitStateStore, CommitError, FinishSave, AddHeader,
              SaveBlock, SubmitBlock, EnableBlockPrune, Close, Crash, vars, disk
<1>6. ASSUME \/ \E h \in Heights, good \in BOOLEAN : AddBlock(h, good)
             \/ \E h \in Heights : ExecuteBlock(h)
             \/ UNCHANGED vars
      PROVE  blk' = blk
  BY <1>6, Zenon DEF AddBlock, ExecuteBlock, vars, disk
<1> QED
  BY <1>1, <1>2, <1>3, <1>4, <1>5, <1>6 DEF Next
=============================================================================
