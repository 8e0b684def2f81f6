-------------------------- MODULE LedgerStoreInv ---------------------------
(***************************************************************************)
(* The inductive invariant of LedgerStore, facts about the values it       *)
(* speaks of, and the proof that every step preserves the types.           *)
(***************************************************************************)
EXTENDS LedgerStore, TLAPS

\* The contract state after block h is executed on state e.
Exec(e, h) == IF Chain[h] = EmptyRoot THEN e ELSE [e EXCEPT ![h] = @ + 1]

\* Nothing survives in memory, and nobody calls a ledger that is not up.
DownInv ==
    /\ proc = "down" => cur = 0 /\ hdrIdx = {} /\ storedIdx = 0 /\ job = NoJob
    /\ proc # "up" => cons.h = -1

\* Without a version only the genesis block is being written.
GenesisInv ==
    /\ ~version => proc \in {"down", "genesis"}
    /\ proc = "genesis" =>
        /\ ~version /\ cur = 0 /\ storedIdx = 0 /\ job.h = 0
        /\ job.list = {}
        /\ job.step \in {"clearBlk", "clearSt", "clearEvt", "batch", "blk", "evt",
                         "st", "set", "version"}
        /\ job.step \in {"clearBlk", "clearSt", "clearEvt", "batch"} => hdrIdx = {}
        /\ job.step \notin {"clearBlk", "clearSt", "clearEvt", "batch"} =>
               /\ hdrIdx = {0}
               /\ Len(tree) > 0
               /\ Len(tree) = 1 => tree = GoodTree(0)
        /\ job.step # "clearBlk" => blk.idx = {}
        /\ job.step \notin {"clearBlk", "clearSt", "set", "version"} => st = EmptySt
        /\ job.step \in {"batch", "blk", "evt", "st"} => job.res.post = GoodState(0)
        /\ job.step \in {"evt", "st", "set", "version"} => blk.cur = 0
        /\ job.step \in {"set", "version"} =>
               st.cur = 0 /\ st.exec = GoodState(0) /\ st.tree = tree

\* What is on disk once the genesis block is complete.  A saved tree of the
\* right size is a good one, and so is the contract state beside it; a tree of
\* another size is refused at the next start.
DiskInv ==
    version =>
        /\ st.cur \in Heights /\ blk.cur \in Heights
        /\ Len(st.tree) > 0
        /\ Len(st.tree) = st.cur + 1 =>
               /\ st.exec = GoodState(st.cur)
               /\ st.tree = GoodTree(st.cur)
               /\ blk.cur \in {st.cur, st.cur + 1}
        /\ st.cur = blk.cur => st.exec = GoodState(st.cur)

\* recoverStore executes at most one block, the last one of the state store,
\* and leaves a tree that is too long.
RecoverInv ==
    proc = "recover" =>
        /\ version /\ cur = blk.cur /\ st.cur \in Heights
        /\ \/ /\ job.step = "exec" /\ job.h = st.cur /\ cur \in {st.cur, st.cur + 1}
              /\ st.exec = GoodState(st.cur)
              /\ st.tree = GoodTree(st.cur)
              /\ tree = st.tree
           \/ /\ job.step \in {"evt", "st"} /\ job.h = st.cur /\ cur = st.cur + 1
              /\ st.exec = GoodState(st.cur)
              /\ st.tree = GoodTree(st.cur)
              /\ tree = Append(st.tree, Chain[st.cur])
              /\ job.res.post = Exec(st.exec, st.cur)
           \/ /\ job.step = "exec" /\ job.h = cur /\ cur = st.cur + 1
              /\ Chain[st.cur] = EmptyRoot => st.exec = GoodState(st.cur)
              /\ st.tree = Append(GoodTree(st.cur), Chain[st.cur])
              /\ tree = st.tree

\* A running node: a tree in memory that fits the current block vouches for the
\* contract state, and the block root check lets only such a tree through.
UpInv ==
    proc = "up" =>
        /\ version
        /\ cur <= blk.cur /\ blk.cur <= cur + 1
        /\ job.step \in {"none", "batch", "blk", "evt", "st", "set"}
        /\ job.step = "none" => job = NoJob
        /\ job.step # "none" => job.h = cur + 1
        /\ job.step \in {"evt", "st", "set"} => blk.cur = job.h
        /\ job.step # "set" => /\ st.cur <= cur
                               /\ Len(st.tree) = st.cur + 1 => st.cur = cur
        /\ job.step \in {"none", "batch"} /\ tree = GoodTree(cur) =>
               st.exec = GoodState(cur)
        /\ job.step \in {"blk", "evt", "st"} =>
               tree = GoodTree(job.h) /\ st.exec = GoodState(cur)
        /\ job.step \in {"batch", "blk", "evt", "st"} =>
               job.res.post = Exec(st.exec, job.h)
        /\ job.step = "set" =>
               /\ st.cur = job.h
               /\ st.exec = GoodState(job.h)
               /\ st.tree = GoodTree(job.h) /\ tree = GoodTree(job.h)
        /\ cons.h <= cur + 1
        /\ cons.h = cur + 1 /\ job.step # "set" =>
               cons.res.post = Exec(st.exec, cons.h)

\* The stored index lists hold heights below the current block only, and the
\* count of them that is kept in memory does not pass it.
IndexBound ==
    /\ version => blk.idx \subseteq 0..(blk.cur - 1)
    /\ proc \in {"recover", "up"} => storedIdx <= cur
    /\ proc = "up" /\ job.step = "blk" => job.list \subseteq 0..(cur - 1)

\* Without errors of the cross-chain store the stored index lists cover a prefix
\* of the heights below the current block, and the index in memory a prefix that
\* reaches beyond it.
IndexInv ==
    /\ version => \E n \in 0..(MaxHeight + 1) : n <= blk.cur /\ blk.idx = 0..(n - 1)
    /\ proc = "recover" => blk.idx = 0..(storedIdx - 1) /\ hdrIdx = 0..cur
    /\ proc = "up" =>
        /\ \E n \in 0..(MaxHeight + 1) : hdrIdx = 0..(n - 1) /\ cur < n
                          /\ (job.step \in {"blk", "evt", "st", "set"} => job.h < n)
        /\ job.step \in {"none", "batch"} /\ tree = GoodTree(cur) =>
               blk.idx = 0..(storedIdx - 1)
        /\ job.step = "blk" => blk.idx \cup job.list = 0..(storedIdx - 1)
        /\ job.step \in {"evt", "st", "set"} => blk.idx = 0..(storedIdx - 1)

IInv ==
    /\ TypeOK /\ DownInv /\ GenesisInv /\ DiskInv /\ RecoverInv /\ UpInv /\ IndexBound
    /\ ~CrossPutFails => IndexInv

-----------------------------------------------------------------------------
(* Facts about the values.                                                  *)

\* Two sequences of one length with the same members at each place are one.
LEMMA SameSeq ==
    ASSUME NEW S, NEW s \in Seq(S), NEW t \in Seq(S), Len(s) = Len(t),
           \A i \in 1..Len(s) : s[i] = t[i]
    PROVE  s = t
  OBVIOUS

\* The good tree of height h is a sequence of h + 1 roots.
LEMMA GoodTreeType ==
    ASSUME NEW h \in Heights
    PROVE  /\ GoodTree(h) \in Seq(Roots)
           /\ Len(GoodTree(h)) = h + 1
           /\ \A i \in 1..(h + 1) : GoodTree(h)[i] = Chain[i - 1]
<1>1. h + 1 \in Nat /\ \A i \in 1..(h + 1) : i - 1 \in Heights
  BY BoundsAssumption DEF Heights
<1>2. \A i \in 1..(h + 1) : Chain[i - 1] \in Roots
  BY <1>1 DEF Roots
<1>3. GoodTree(h) \in [1..(h + 1) -> Roots]
  BY <1>2 DEF GoodTree
<1>4. GoodTree(h) \in Seq(Roots) /\ Len(GoodTree(h)) = h + 1
  BY <1>1, <1>3
<1> QED
  BY <1>4, Zenon DEF GoodTree

\* Appending the root of the next block to a good tree gives a good tree.
LEMMA GoodTreeNext ==
    ASSUME NEW h \in Heights, h # 0
    PROVE  h - 1 \in Heights /\ Append(GoodTree(h - 1), Chain[h]) = GoodTree(h)
<1>1. h - 1 \in Heights
  BY BoundsAssumption DEF Heights
<1>2. Chain[h] \in Roots
  BY DEF Roots
<1> DEFINE a == GoodTree(h - 1)
           b == GoodTree(h)
<1>3. a \in Seq(Roots) /\ Len(a) = h /\ \A i \in 1..h : a[i] = Chain[i - 1]
  BY <1>1, GoodTreeType DEF Heights
<1>4. b \in Seq(Roots) /\ Len(b) = h + 1 /\ \A i \in 1..(h + 1) : b[i] = Chain[i - 1]
  BY GoodTreeType
<1> HIDE DEF a, b
<1>5. Append(a, Chain[h]) \in Seq(Roots) /\ Len(Append(a, Chain[h])) = Len(b)
  BY <1>2, <1>3, <1>4, BoundsAssumption DEF Heights
<1>6. \A i \in 1..Len(b) : Append(a, Chain[h])[i] = b[i]
  BY <1>2, <1>3, <1>4, BoundsAssumption DEF Heights
<1>7. Append(a, Chain[h]) = b
  BY <1>4, <1>5, <1>6, SameSeq
<1> QED
  BY <1>1, <1>7 DEF a, b

\* The block root check accepts block h only on the good tree of the block
\* before it.
LEMMA RootCheck ==
    ASSUME NEW h \in Heights, h # 0, NEW t \in Seq(Roots), NEW x \in Roots,
           Append(t, x) = GoodTree(h)
    PROVE  h - 1 \in Heights /\ t = GoodTree(h - 1) /\ x = Chain[h]
<1>1. h - 1 \in Heights
  BY BoundsAssumption DEF Heights
<1> DEFINE a == GoodTree(h - 1)
           b == GoodTree(h)
<1>3. a \in Seq(Roots) /\ Len(a) = h /\ \A i \in 1..h : a[i] = Chain[i - 1]
  BY <1>1, GoodTreeType DEF Heights
<1>4. Len(b) = h + 1 /\ \A i \in 1..(h + 1) : b[i] = Chain[i - 1]
  BY GoodTreeType
<1>5. Append(t, x) = b
  OBVIOUS
<1> HIDE DEF a, b
<1>6. h \in Nat /\ h >= 1
  BY BoundsAssumption DEF Heights
<1>7. Len(t) = h
  BY <1>4, <1>5, <1>6
<1>8. \A i \in 1..h : t[i] = a[i]
  <2> SUFFICES ASSUME NEW i \in 1..h PROVE t[i] = a[i]
    OBVIOUS
  <2>1. t[i] = Append(t, x)[i]
    BY <1>7
  <2>2. b[i] = Chain[i - 1]
    BY <1>4, <1>6
  <2> QED
    BY <2>1, <2>2, <1>5, <1>3
<1>9. t = a
  BY <1>3, <1>7, <1>8, SameSeq
<1>10. x = b[h + 1]
  BY <1>5, <1>7
<1>11. b[h + 1] = Chain[h]
  BY <1>4, <1>6
<1> QED
  BY <1>1, <1>9, <1>10, <1>11 DEF a

\* The tree of the genesis block alone.
LEMMA GoodTreeGenesis ==
    ASSUME NEW t \in Seq(Roots)
    PROVE  /\ Len(Append(t, Chain[0])) > 0
           /\ Len(Append(t, Chain[0])) = 1 => Append(t, Chain[0]) = GoodTree(0)
<1> DEFINE u == Append(t, Chain[0])
           g == GoodTree(0)
<1>1. 0 \in Heights /\ Chain[0] \in Roots
  BY BoundsAssumption DEF Heights, Roots
<1>2. u \in Seq(Roots) /\ Len(u) = Len(t) + 1 /\ Len(t) \in Nat /\ u[Len(u)] = Chain[0]
  BY <1>1
<1>3. g \in Seq(Roots) /\ Len(g) = 1 /\ g[1] = Chain[0]
  <2>1. g \in Seq(Roots) /\ Len(g) = 0 + 1 /\ \A i \in 1..(0 + 1) : g[i] = Chain[i - 1]
    BY <1>1, GoodTreeType, Zenon
  <2> HIDE DEF g
  <2>2. 1 \in 1..(0 + 1) /\ 1 - 1 = 0
    OBVIOUS
  <2> QED
    BY <2>1, <2>2
<1> HIDE DEF u, g
<1>4. Len(u) = 1 => \A i \in 1..Len(u) : u[i] = g[i]
  BY <1>2, <1>3
<1>5. Len(u) = 1 => u = g
  BY <1>2, <1>3, <1>4, SameSeq
<1> QED
  BY <1>2, <1>5 DEF u, g

\* Executing the next block on a good state gives a good state.
LEMMA GoodStateNext ==
    ASSUME NEW h \in Heights, h # 0
    PROVE  Exec(GoodState(h - 1), h) = GoodState(h)
<1>1. \A i \in Heights : (i <= h) <=> (i <= h - 1 \/ i = h)
  BY BoundsAssumption DEF Heights
<1>2. ~(h <= h - 1)
  BY BoundsAssumption DEF Heights
<1>3. CASE Chain[h] = EmptyRoot
  BY <1>1, <1>2, <1>3 DEF Exec, GoodState
<1>4. CASE Chain[h] # EmptyRoot
  <2> DEFINE f == GoodState(h - 1)
             g == GoodState(h)
  <2>1. /\ f \in [Heights -> Nat] /\ g \in [Heights -> Nat]
        /\ f[h] = 0 /\ g[h] = 1
        /\ \A i \in Heights : i # h => f[i] = g[i]
    BY <1>1, <1>2, <1>4 DEF GoodState
  <2> HIDE DEF f, g
  <2>2. [f EXCEPT ![h] = @ + 1] = g
    BY <2>1
  <2> QED
    BY <1>4, <2>2 DEF Exec, f, g
<1> QED
  BY <1>3, <1>4

\* The genesis block on an empty state store.
LEMMA GoodStateGenesis ==
    0 \in Heights /\ Exec(NoState, 0) = GoodState(0)
<1>1. 0 \in Heights /\ \A i \in Heights : i <= 0 <=> i = 0
  BY BoundsAssumption DEF Heights
<1> QED
  BY <1>1, ChainAssumption DEF Exec, GoodState, NoState

\* Types of the values, and what executeBlock returns.
LEMMA ValueTypes ==
    ASSUME NEW h \in Heights, st.exec \in ContractState
    PROVE  /\ GoodState(h) \in ContractState
           /\ NoState \in ContractState
           /\ NoRes \in Results
           /\ executeBlock(h) \in Results
           /\ executeBlock(h).post = Exec(st.exec, h)
<1>1. GoodState(h) \in ContractState /\ NoState \in ContractState
  BY DEF GoodState, NoState, ContractState
<1>2. Exec(st.exec, h) \in ContractState
  BY DEF Exec, ContractState
<1>3. executeBlock(h).post = Exec(st.exec, h)
  BY DEF executeBlock, Exec
<1>4. executeBlock(h) \in Results
  BY <1>2 DEF executeBlock, Exec, Results, Leaves
<1> QED
  BY <1>1, <1>3, <1>4 DEF NoRes, Results, Leaves

-----------------------------------------------------------------------------
(* The index lists.                                                         *)

\* What the steps use of the sizes of sets of heights; LedgerStoreProofs has the
\* proof (HeightSets).
HeightsCounted ==
    /\ \A S \in SUBSET Heights : Cardinality(S) \in Nat
    /\ \A n \in Nat : Cardinality(0..(n - 1)) = n
    /\ \A n \in Nat : \A S \in SUBSET (0..(n - 1)) : Cardinality(S) <= n

\* No index list is due unless a full batch of heights below the current block
\* is missing from the stored ones.
LEMMA NextIndexListFits ==
    ASSUME cur \in Heights, storedIdx \in Nat, storedIdx <= cur
    PROVE  \/ NextIndexList = {} /\ NextStoredIdx = storedIdx
           \/ /\ NextIndexList = storedIdx..(storedIdx + HeaderBatch - 1)
              /\ NextStoredIdx = storedIdx + HeaderBatch
              /\ storedIdx + HeaderBatch <= cur
<1>1. cur - storedIdx \in 0..(Word - 1)
  BY BoundsAssumption DEF Heights
<1>2. (cur - storedIdx) % Word = cur - storedIdx
  BY <1>1, BoundsAssumption
<1>3. CASE (cur - storedIdx) % Word < HeaderBatch
  BY <1>3 DEF NextIndexList, NextStoredIdx
<1>4. CASE ~((cur - storedIdx) % Word < HeaderBatch)
  <2>1. NextIndexList = storedIdx..(storedIdx + HeaderBatch - 1)
    BY <1>4 DEF NextIndexList
  <2>2. storedIdx \in NextIndexList
    BY <2>1, BoundsAssumption
  <2>3. storedIdx + HeaderBatch <= cur
    BY <1>2, <1>4, BoundsAssumption DEF Heights
  <2> QED
    BY <2>1, <2>2, <2>3 DEF NextStoredIdx
<1> QED
  BY <1>3, <1>4

-----------------------------------------------------------------------------
(* Type correctness.                                                        *)

\* The constants of the model have the types of the variables they initialise.
LEMMA ConstantTypes ==
    /\ 0 \in Heights /\ NoState \in ContractState /\ NoRes \in Results
    /\ NoJob \in JobType
    /\ EmptyBlk \in BlkType
    /\ EmptyEvt \in [cur : Heights \cup {-1}, saved : SUBSET Heights]
    /\ EmptySt.cur = -1 /\ EmptySt.exec = NoState
    /\ EmptySt.tree \in Seq(Roots) /\ EmptySt.delta \in Seq(Leaves)
    /\ EmptySt.roots = {} /\ <<>> \in Seq(Roots) /\ <<>> \in Seq(Leaves)
    /\ NoReq \in [h : Heights \cup {-1}, good : BOOLEAN]
    /\ [h |-> -1, res |-> NoRes] \in [h : Heights \cup {-1}, res : Results]
<1>1. 0 \in Heights /\ NoState \in ContractState /\ NoRes \in Results
  BY BoundsAssumption DEF Heights, NoState, ContractState, NoRes, Results, Leaves
<1>2. NoJob \in JobType
  BY <1>1, SMTT(30) DEF NoJob, NewJob, JobType, Steps
<1> QED
  BY <1>1, <1>2 DEF BlkType, EmptyBlk, EmptyEvt, EmptySt, NoReq

\* A save that starts, and one that moves to its next step, is a save.
LEMMA JobTypes ==
    /\ \A h \in Heights, res \in Results :
           /\ NewJob("init", h, "exec", res) \in JobType
           /\ NewJob("init", h, "clearBlk", res) \in JobType
           /\ NewJob("sync", h, "batch", res) \in JobType
           /\ NewJob("cons", h, "batch", res) \in JobType
    /\ \A j \in JobType :
           /\ [j EXCEPT !.step = "clearSt"] \in JobType
           /\ [j EXCEPT !.step = "clearEvt"] \in JobType
           /\ [j EXCEPT !.step = "evt"] \in JobType
           /\ [j EXCEPT !.step = "st"] \in JobType
           /\ [j EXCEPT !.step = "set"] \in JobType
           /\ [j EXCEPT !.step = "version"] \in JobType
<1>1. \A h \in Heights, res \in Results :
          /\ NewJob("init", h, "exec", res) \in JobType
          /\ NewJob("init", h, "clearBlk", res) \in JobType
          /\ NewJob("sync", h, "batch", res) \in JobType
          /\ NewJob("cons", h, "batch", res) \in JobType
  BY DEF NewJob, JobType, Steps
<1>2. \A j \in JobType, s \in Steps : [j EXCEPT !.step = s] \in JobType
  BY DEF JobType
<1> QED
  BY <1>1, <1>2, ZenonT(30) DEF Steps

\* The heights that a typed state holds are integers.
LEMMA HeightTypes ==
    ASSUME TypeOK
    PROVE  /\ job \in JobType
           /\ job.h \in Heights /\ job.h \in Int
           /\ cur \in Heights /\ cur \in Int
           /\ st.cur \in Int
<1>1. job \in JobType /\ cur \in Heights /\ st.cur \in Heights \cup {-1}
  BY DEF TypeOK
<1>2. job.h \in Heights
  BY <1>1 DEF JobType
<1> QED
  BY <1>1, <1>2 DEF Heights

\* The height tryPruneBlock stores is a natural number.
LEMMA PruneEndType ==
    ASSUME NEW h \in Heights, blk.pruned \in Nat, preserve \in {0, PreserveLen}
    PROVE  PruneEnd(h) \in Nat
<1>1. h \in Nat /\ LastConfig[h] \in Nat /\ preserve \in Nat
  BY BoundsAssumption, HeadersAssumption DEF Heights
<1>2. maxAllowedPruneHeight(h) \in Nat
  BY <1>1 DEF maxAllowedPruneHeight
<1>3. (h - preserve) % Word \in Nat
  BY <1>1, BoundsAssumption
<1>4. PruneLimit(h) \in Nat
  BY <1>2, <1>3 DEF PruneLimit
<1> QED
  BY <1>4, BoundsAssumption DEF PruneEnd

\* The initial state is well typed.
LEMMA TypeInit == Init => TypeOK
<1> SUFFICES ASSUME Init PROVE TypeOK
  OBVIOUS
<1>1. /\ st.cur \in Heights \cup {-1} /\ st.exec \in ContractState
      /\ st.tree \in Seq(Roots) /\ st.delta \in Seq(Leaves)
      /\ st.roots \in SUBSET Heights
  BY ConstantTypes DEF Init
<1> QED
  BY <1>1, ConstantTypes, ZenonT(30) DEF Init, TypeOK

\* The types of what is on disk, in memory, and asked for.
DiskTypes ==
    /\ version \in BOOLEAN
    /\ blk \in BlkType
    /\ evt \in [cur : Heights \cup {-1}, saved : SUBSET Heights]
    /\ st.cur \in Heights \cup {-1}
    /\ st.exec \in ContractState
    /\ st.tree \in Seq(Roots)
    /\ st.delta \in Seq(Leaves)
    /\ st.roots \in SUBSET Heights
    /\ cross \in SUBSET Heights

MemoryTypes ==
    /\ proc \in {"down", "genesis", "recover", "up"}
    /\ cur \in Heights
    /\ hdrIdx \in SUBSET Heights
    /\ storedIdx \in Nat
    /\ tree \in Seq(Roots)
    /\ delta \in Seq(Leaves)
    /\ preserve \in {0, PreserveLen}
    /\ closing \in BOOLEAN

RequestTypes ==
    /\ sync \in [h : Heights \cup {-1}, good : BOOLEAN]
    /\ cons \in [h : Heights \cup {-1}, res : Results]

\* A typed state has these parts.
LEMMA TypeParts ==
    ASSUME TypeOK
    PROVE  DiskTypes /\ MemoryTypes /\ RequestTypes /\ job \in JobType
  BY Zenon DEF TypeOK, DiskTypes, MemoryTypes, RequestTypes

\* These parts make a typed state.
LEMMA TypeWhole ==
    ASSUME DiskTypes', MemoryTypes', RequestTypes', job' \in JobType
    PROVE  TypeOK'
  BY Zenon DEF TypeOK, DiskTypes, MemoryTypes, RequestTypes

\* A disk that does not change keeps its types.
LEMMA DiskTypesFrame == ASSUME DiskTypes, UNCHANGED disk PROVE DiskTypes'
  BY DEF DiskTypes, disk

\* Memory that does not change keeps its types.
LEMMA MemoryTypesFrame == ASSUME MemoryTypes, UNCHANGED memory PROVE MemoryTypes'
  BY DEF MemoryTypes, memory

\* Requests that do not change keep their types.
LEMMA RequestTypesFrame == ASSUME RequestTypes, UNCHANGED <<sync, cons>> PROVE RequestTypes'
  BY DEF RequestTypes

\* A step that changes no variable keeps every variable's type.
LEMMA TypeFrame == ASSUME TypeOK, UNCHANGED vars PROVE TypeOK'
  BY TypeParts, TypeWhole, DiskTypesFrame, MemoryTypesFrame, RequestTypesFrame DEF vars

\* Every step preserves the types; the index lists stay within the chain because
\* storedIndexCount never passes the current height.
LEMMA TypeStep ==
    ASSUME IInv, Next, HeightsCounted
    PROVE  TypeOK'
<1>0. TypeOK
  BY DEF IInv
<1>a. DiskTypes /\ MemoryTypes /\ RequestTypes /\ job \in JobType
  BY <1>0, TypeParts
<1>b. ASSUME UNCHANGED <<disk, sync, cons>>, MemoryTypes', job' \in JobType PROVE TypeOK'
  BY <1>a, <1>b, DiskTypesFrame, RequestTypesFrame, TypeWhole
<1>c. ASSUME UNCHANGED <<memory, sync, cons>>, DiskTypes', job' \in JobType PROVE TypeOK'
  BY <1>a, <1>c, MemoryTypesFrame, RequestTypesFrame, TypeWhole
<1>d. ASSUME UNCHANGED <<disk, memory>>, RequestTypes', job' \in JobType PROVE TypeOK'
  BY <1>a, <1>d, DiskTypesFrame, MemoryTypesFrame, TypeWhole
<1>1. CASE OpenStores
  <2>1. job' \in JobType
    <3>1. CASE version
      <4>1. st.cur \in Heights
        BY <3>1 DEF IInv, DiskInv
      <4>2. job' = NewJob("init", st.cur, "exec", NoRes)
        BY <1>1, <3>1 DEF OpenStores
      <4> QED
        BY <4>1, <4>2, JobTypes, ConstantTypes
    <3>2. CASE ~version
      BY <1>1, <3>2, JobTypes, ConstantTypes DEF OpenStores
    <3> QED
      BY <3>1, <3>2
  <2>2. cur' \in Heights
    BY <1>0, <1>1 DEF OpenStores, IInv, DiskInv, TypeOK
  <2>3. hdrIdx' \in SUBSET Heights /\ storedIdx' \in Nat
    <3>1. hdrIdx \in SUBSET Heights /\ storedIdx \in Nat /\ blk.idx \in SUBSET Heights
      BY <1>0 DEF TypeOK, BlkType
    <3>2. Cardinality(blk.idx) \in Nat
      BY <3>1 DEF HeightsCounted
    <3>3. LoadedIndex \in SUBSET Heights
      BY <3>1 DEF LoadedIndex
    <3> QED
      BY <1>1, <3>1, <3>2, <3>3 DEF OpenStores
  <2>4. tree' \in Seq(Roots) /\ delta' \in Seq(Leaves)
    BY <1>a, <1>1, ConstantTypes DEF OpenStores, DiskTypes
  <2> QED
    <3>1. MemoryTypes'
      BY <1>a, <1>1, <2>2, <2>3, <2>4 DEF MemoryTypes, OpenStores
    <3> QED
      BY <1>b, <1>1, <2>1, <3>1 DEF OpenStores
<1>2. CASE OpenRefused
  BY <1>0, <1>2, TypeFrame DEF OpenRefused
<1>3. CASE ClearAll
  <2>1. executeBlock(0) \in Results
    BY <1>0, ValueTypes, ConstantTypes DEF TypeOK
  <2>2. job' \in JobType
    <3>1. job \in JobType
      BY <1>0 DEF TypeOK
    <3>2. [job EXCEPT !.step = "batch", !.res = executeBlock(0)] \in JobType
      BY <2>1, <3>1, ZenonT(30) DEF JobType, Steps
    <3> QED
      <4>1. \/ job' = [job EXCEPT !.step = "clearSt"]
            \/ job' = [job EXCEPT !.step = "clearEvt"]
            \/ job' = [job EXCEPT !.step = "batch", !.res = executeBlock(0)]
        BY <1>3 DEF ClearAll
      <4> QED
        BY <3>1, <3>2, <4>1, JobTypes, Zenon
  <2> QED
    <3>1. DiskTypes'
      BY <1>a, <1>3, ConstantTypes DEF DiskTypes, ClearAll
    <3> QED
      BY <1>3, <1>c, <2>2, <3>1 DEF ClearAll
<1>4. CASE SaveVersion
  <2>1. DiskTypes'
    BY <1>a, <1>4 DEF DiskTypes, SaveVersion
  <2>2. MemoryTypes' /\ job' \in JobType
    BY <1>a, <1>4, ConstantTypes DEF MemoryTypes, SaveVersion
  <2>3. RequestTypes'
    BY <1>a, <1>4, RequestTypesFrame DEF SaveVersion
  <2> QED
    BY <2>1, <2>2, <2>3, TypeWhole
<1>5. CASE RecoverBlock
  <2>1. job.h \in Heights
    BY <1>a DEF JobType
  <2>2. executeBlock(job.h) \in Results
    BY <1>a, <2>1, ValueTypes DEF DiskTypes
  <2>3. job' \in JobType
    BY <1>a, <1>5, <2>2, Zenon DEF RecoverBlock, JobType, Steps
  <2>4. delta' \in Seq(Leaves)
    BY <1>a, <1>5, <2>1, <2>2 DEF MemoryTypes, RecoverBlock, WithLeaf, Results
  <2>5. tree' \in Seq(Roots)
    BY <1>a, <1>5, <2>1 DEF MemoryTypes, RecoverBlock, Roots
  <2>6. MemoryTypes'
    BY <1>a, <1>5, <2>4, <2>5 DEF MemoryTypes, RecoverBlock
  <2> QED
    BY <1>5, <1>b, <2>3, <2>6 DEF RecoverBlock
<1>6. CASE RecoverDone
  <2>1. MemoryTypes'
    BY <1>a, <1>6 DEF MemoryTypes, RecoverDone
  <2> QED
    BY <1>6, <1>b, <2>1, ConstantTypes DEF RecoverDone
<1>7. CASE FillBatches
  <2>1. job.h \in Heights /\ job.res \in Results
    BY <1>a DEF JobType
  <2>2. proc \in {"genesis", "up"}
    BY <1>0, <1>7, SMTT(30) DEF IInv, TypeOK, DownInv, RecoverInv, FillBatches, NoJob, NewJob
  <2>3. storedIdx \in Nat /\ storedIdx <= cur
    BY <1>0, <2>2 DEF IInv, TypeOK, GenesisInv, IndexBound
  <2>4. /\ NextIndexList \in SUBSET Heights
        /\ NextStoredIdx \in Nat
    <3>1. cur \in Heights
      BY <1>0 DEF TypeOK
    <3>2. CASE NextIndexList = {} /\ NextStoredIdx = storedIdx
      BY <2>3, <3>2
    <3>3. CASE /\ NextIndexList = storedIdx..(storedIdx + HeaderBatch - 1)
               /\ NextStoredIdx = storedIdx + HeaderBatch
               /\ storedIdx + HeaderBatch <= cur
      BY <2>3, <3>1, <3>3, BoundsAssumption DEF Heights
    <3> QED
      BY <2>3, <3>1, <3>2, <3>3, NextIndexListFits
  <2>5. PruneRange(job.h) \in SUBSET Heights
    BY DEF PruneRange
  <2>6. job' \in JobType
    BY <1>a, <1>7, <2>4, <2>5, Zenon DEF FillBatches, JobType, Steps
  <2>7. delta' \in Seq(Leaves)
    BY <1>a, <1>7, <2>1 DEF MemoryTypes, FillBatches, WithLeaf, Results
  <2>8. tree' \in Seq(Roots)
    BY <1>a, <1>7, <2>1 DEF MemoryTypes, FillBatches, Roots
  <2>9. cross' \in SUBSET Heights
    <3>1. job.h \in CrossHeights => job.h - 1 \in Heights
      <4>1. job.h \in CrossHeights => job.h \in Heights \ {0}
        BY HeadersAssumption
      <4> QED
        BY <4>1, BoundsAssumption DEF Heights
    <3> QED
      BY <1>a, <1>7, <3>1 DEF DiskTypes, FillBatches
  <2> QED
    <3>1. DiskTypes'
      BY <1>a, <1>7, <2>9 DEF DiskTypes, FillBatches
    <3>2. MemoryTypes'
      BY <1>a, <1>7, <2>1, <2>4, <2>7, <2>8 DEF MemoryTypes, FillBatches
    <3>3. RequestTypes'
      BY <1>a, <1>7, RequestTypesFrame DEF FillBatches
    <3> QED
      BY <2>6, <3>1, <3>2, <3>3, TypeWhole
<1>8. CASE WrongBlockRoot
  BY <1>a, <1>8, <1>d, RequestTypesFrame, ConstantTypes DEF WrongBlockRoot
<1>9. CASE CommitBlockStore
  <2>1. job' \in JobType
    BY <1>a, <1>9, JobTypes, ZenonT(30) DEF CommitBlockStore
  <2>2. blk.pruned \in Nat /\ job.h \in Heights
    BY <1>a DEF DiskTypes, BlkType, JobType
  <2>3. PruneEnd(job.h) \in Nat
    BY <1>a, <2>2, PruneEndType DEF MemoryTypes
  <2>4. blk' \in BlkType
    BY <1>a, <1>9, <2>2, <2>3 DEF DiskTypes, CommitBlockStore, BlkType, JobType
  <2> QED
    <3>1. DiskTypes'
      BY <1>a, <1>9, <2>4 DEF DiskTypes, CommitBlockStore
    <3> QED
      BY <1>9, <1>c, <2>1, <3>1 DEF CommitBlockStore
<1>10. CASE CommitEventStore
  <2>1. job' \in JobType
    BY <1>a, <1>10, JobTypes, ZenonT(30) DEF CommitEventStore
  <2>2. evt' \in [cur : Heights \cup {-1}, saved : SUBSET Heights]
    BY <1>a, <1>10 DEF DiskTypes, CommitEventStore, JobType
  <2> QED
    <3>1. DiskTypes'
      BY <1>a, <1>10, <2>2 DEF DiskTypes, CommitEventStore
    <3> QED
      BY <1>10, <1>c, <2>1, <3>1 DEF CommitEventStore
<1>11. CASE CommitStateStore
  <2>1. proc = "recover" => job.h + 1 \in Heights
    BY <1>0, <1>11 DEF IInv, RecoverInv, TypeOK, CommitStateStore
  <2>2. job' \in JobType
    BY <1>a, <1>11, <2>1, Zenon DEF CommitStateStore, JobType, Steps
  <2>3. job.h \in Heights /\ job.res.post \in ContractState
    BY <1>a DEF JobType, Results
  <2> QED
    <3>1. DiskTypes'
      BY <1>a, <1>11, <2>3 DEF DiskTypes, MemoryTypes, CommitStateStore
    <3> QED
      BY <1>11, <1>c, <2>2, <3>1 DEF CommitStateStore
<1>12. CASE CommitError
  BY <1>a, <1>12, <1>d, RequestTypesFrame, ConstantTypes DEF CommitError
<1>13. CASE FinishSave
  <2>1. job' \in JobType
    BY <1>a, <1>13, JobTypes, ConstantTypes, ZenonT(30) DEF FinishSave
  <2>2. cur' \in Heights
    BY <1>a, <1>13 DEF FinishSave, JobType
  <2> QED
    <3>1. MemoryTypes'
      BY <1>a, <1>13, <2>2 DEF MemoryTypes, FinishSave
    <3> QED
      BY <1>13, <1>b, <2>1, <3>1 DEF FinishSave
<1>14. CASE AddHeader
  <2>1. MemoryTypes'
    BY <1>a, <1>14 DEF MemoryTypes, AddHeader
  <2> QED
    BY <1>a, <1>14, <1>b, <2>1 DEF AddHeader
<1>15. ASSUME NEW h \in Heights, NEW good \in BOOLEAN, AddBlock(h, good)
       PROVE  TypeOK'
  BY <1>a, <1>15, <1>d DEF AddBlock, RequestTypes
<1>16. CASE SaveBlock
  <2>1. job' \in JobType
    <3>1. CASE job' = job
      BY <1>a, <3>1
    <3>2. CASE job' # job
      <4>1. sync.h \in Heights
        <5>1. sync.h = cur + 1 /\ sync.h \in Heights \cup {-1} /\ cur \in Heights
          BY <1>a, <1>16, <3>2 DEF SaveBlock, RequestTypes, MemoryTypes
        <5> QED
          BY <5>1, BoundsAssumption DEF Heights
      <4>2. executeBlock(sync.h) \in Results
        BY <1>a, <4>1, ValueTypes DEF DiskTypes
      <4> QED
        BY <1>16, <3>2, <4>1, <4>2, JobTypes, SMTT(30) DEF SaveBlock
    <3> QED
      BY <3>1, <3>2
  <2> QED
    <3>1. RequestTypes'
      BY <1>a, <1>16, ConstantTypes DEF RequestTypes, SaveBlock
    <3> QED
      BY <1>16, <1>d, <2>1, <3>1 DEF SaveBlock
<1>17. ASSUME NEW h \in Heights, ExecuteBlock(h)
       PROVE  TypeOK'
  <2>1. RequestTypes'
    <3>1. executeBlock(h) \in Results
      BY <1>a, ValueTypes DEF DiskTypes
    <3> QED
      BY <1>a, <1>17, <3>1, ConstantTypes DEF RequestTypes, ExecuteBlock
  <2> QED
    BY <1>a, <1>17, <1>d, <2>1 DEF ExecuteBlock
<1>18. CASE SubmitBlock
  <2>1. cons.h \in Heights /\ cons.res \in Results
    <3>1. cons.h = cur + 1 /\ cons.h \in Heights \cup {-1} /\ cur \in Heights /\ cons.res \in Results
      BY <1>a, <1>18 DEF SubmitBlock, RequestTypes, MemoryTypes
    <3> QED
      BY <3>1, BoundsAssumption DEF Heights
  <2>2. job' \in JobType
    BY <1>18, <2>1, JobTypes, SMTT(30) DEF SubmitBlock
  <2> QED
    BY <1>a, <1>18, <1>d, <2>2, RequestTypesFrame DEF SubmitBlock
<1>19. CASE EnableBlockPrune
  <2>1. MemoryTypes'
    BY <1>a, <1>19 DEF MemoryTypes, EnableBlockPrune
  <2> QED
    BY <1>a, <1>19, <1>b, <2>1 DEF EnableBlockPrune
<1>20. CASE Close
  <2>1. MemoryTypes'
    BY <1>a, <1>20 DEF MemoryTypes, Close
  <2> QED
    BY <1>a, <1>20, <1>b, <2>1 DEF Close
<1>21. CASE Crash
  <2>1. MemoryTypes' /\ job' \in JobType
    BY <1>21, ConstantTypes, Zenon DEF MemoryTypes, Crash
  <2>2. RequestTypes'
    BY <1>21, ConstantTypes DEF RequestTypes, Crash
  <2> QED
    BY <1>a, <1>21, <2>1, <2>2, DiskTypesFrame, TypeWhole DEF Crash
<1>22. CASE CrossStoreError
  <2>1. job.h \in Heights /\ storedIdx \in Nat /\ storedIdx <= cur /\ cur \in Heights
    <3>1. IndexBound
      BY DEF IInv
    <3>2. proc = "up"
      BY <1>22 DEF CrossStoreError
    <3> QED
      BY <1>a, <3>1, <3>2 DEF MemoryTypes, JobType, IndexBound
  <2>2. NextStoredIdx \in Nat
    BY <2>1, NextIndexListFits, BoundsAssumption
  <2> QED
    <3>1. MemoryTypes'
      BY <1>a, <1>22, <2>1, <2>2 DEF MemoryTypes, CrossStoreError
    <3> QED
      BY <1>22, <1>b, <3>1, ConstantTypes DEF CrossStoreError
<1> QED
  BY <1>1, <1>2, <1>3, <1>4, <1>5, <1>6, <1>7, <1>8, <1>9, <1>10, <1>11, <1>12,
     <1>13, <1>14, <1>15, <1>16, <1>17, <1>18, <1>19, <1>20, <1>21, <1>22 DEF Next

\* Trees of different heights differ.
LEMMA GoodTreeLength ==
    ASSUME NEW h \in Heights, NEW k \in Heights, h # k
    PROVE  GoodTree(h) # GoodTree(k)
<1>1. Len(GoodTree(h)) = h + 1 /\ Len(GoodTree(k)) = k + 1
  BY GoodTreeType
<1> QED
  BY <1>1 DEF Heights
=============================================================================
