-------------------------- MODULE ChainStoreProofs --------------------------
(***************************************************************************)
(* The five invariants of VbftChainStore for every chain length, every      *)
(* number of failing saves and every number of vote goroutines.             *)
(***************************************************************************)
EXTENDS VbftChainStore, TLAPS

At(s, step) == seal[s].step = step

\* pool.lock is held while a block is executed.
OneInside == \A s, t \in Sealers : At(s, "exec") /\ At(t, "exec") => s = t

\* The pending blocks end with the chained one, and a block being added goes on top of it.
ChainInv ==
    /\ chained \in DOMAIN pending
    /\ \A k \in DOMAIN pending : k <= chained
    /\ chained <= led + 1
    /\ \A s \in Sealers : At(s, "exec") => seal[s].num = chained + 1 /\ seal[s].h > chained

\* While no save failed, heights and numbers agree, what was saved early is in the ledger,
\* the block being executed is the ledger's next, and every round left behind is chained.
CleanInv ==
    /\ \A k \in DOMAIN pending : pending[k].blk = k /\ (pending[k].hasSubmitted => k <= led)
    /\ cur <= chained + 1
    /\ \A s \in Sealers :
         /\ At(s, "lock") => seal[s].h <= chained + 1
         /\ At(s, "exec") => seal[s].h = chained + 1 /\ chained <= led
         /\ At(s, "finish") => seal[s].h <= chained
    /\ \A h \in sealed : h <= chained \/ \E s \in Sealers : At(s, "exec") /\ seal[s].h = h

StoreInv ==
    /\ TypeOK
    /\ OneInside
    /\ PartialNeverSaved
    /\ member => ChainInv
    /\ member /\ fails = 0 => CleanInv

-----------------------------------------------------------------------------
(* The parts that actions share *)

\* What a sealing goroutine holds at each of its steps.
LEMMA SealTypes ==
  ASSUME TypeOK, NEW s \in Sealers
  PROVE  /\ seal[s].step \in {"idle", "lock", "exec", "finish"}
         /\ seal[s].h \in 0..MaxHeight /\ seal[s].num \in 0..MaxHeight
         /\ seal[s].step # "idle" => seal[s] \in [step : {"lock", "exec", "finish"}, h : Heights, num : 0..MaxHeight]
<1>1. seal[s] \in SealState
  BY DEF TypeOK
<1>2. CASE seal[s] = Idle
  BY <1>2, ChainStoreAssumption DEF Idle
<1>3. CASE seal[s] \in [step : {"lock", "exec", "finish"}, h : Heights, num : 0..MaxHeight]
  <2>1. seal[s].step \in {"lock", "exec", "finish"} /\ seal[s].h \in Heights /\ seal[s].num \in 0..MaxHeight
    BY <1>3
  <2>2. QED
    BY <1>3, <2>1, ChainStoreAssumption DEF Heights
<1>4. QED
  BY <1>1, <1>2, <1>3 DEF SealState

\* One goroutine goes a step on.
LEMMA Stepped ==
  ASSUME TypeOK, NEW s \in Sealers, seal[s].step # "idle", NEW st \in {"exec", "finish"},
         NEW n \in 0..MaxHeight, seal' = [seal EXCEPT ![s].step = st, ![s].num = n]
  PROVE  /\ seal' \in [Sealers -> SealState]
         /\ seal'[s].step = st /\ seal'[s].h = seal[s].h /\ seal'[s].num = n
         /\ \A t \in Sealers : t # s => seal'[t] = seal[t]
<1>1. seal \in [Sealers -> SealState]
  BY DEF TypeOK
<1>2. seal[s] \in [step : {"lock", "exec", "finish"}, h : Heights, num : 0..MaxHeight]
  BY SealTypes
<1> DEFINE r == [[seal[s] EXCEPT !.step = st] EXCEPT !.num = n]
<1>3. r \in [step : {"lock", "exec", "finish"}, h : Heights, num : 0..MaxHeight]
  BY <1>2, Zenon
<1>4. r.step = st /\ r.h = seal[s].h /\ r.num = n
  BY <1>2
<1>5. seal' = [seal EXCEPT ![s] = r]
  BY <1>1, Zenon
<1>6. r \in SealState
  BY <1>3 DEF SealState
<1> HIDE DEF r
<1>7. QED
  BY <1>1, <1>4, <1>5, <1>6, ZenonT(40)

\* A goroutine goes on to its next step with the number it seals; the others stay.
LEMMA SteppedOn ==
  ASSUME TypeOK, NEW s \in Sealers, seal[s].step # "idle", NEW st \in {"exec", "finish"},
         seal' = [seal EXCEPT ![s].step = st]
  PROVE  /\ seal' \in [Sealers -> SealState]
         /\ seal'[s].step = st /\ seal'[s].h = seal[s].h /\ seal'[s].num = seal[s].num
         /\ \A t \in Sealers : t # s => seal'[t] = seal[t]
<1>1. seal \in [Sealers -> SealState]
  BY DEF TypeOK
<1>2. seal[s] \in [step : {"lock", "exec", "finish"}, h : Heights, num : 0..MaxHeight]
  BY SealTypes
<1> DEFINE r == [seal[s] EXCEPT !.step = st]
<1>3. r \in [step : {"lock", "exec", "finish"}, h : Heights, num : 0..MaxHeight]
  BY <1>2
<1>4. r.step = st /\ r.h = seal[s].h /\ r.num = seal[s].num
  BY <1>2
<1>5. seal' = [seal EXCEPT ![s] = r]
  BY <1>1
<1>6. r \in SealState
  BY <1>3 DEF SealState
<1> HIDE DEF r
<1>7. QED
  BY <1>1, <1>4, <1>5, <1>6

\* What the chain store holds of a pending block.
LEMMA PendingTypes ==
  ASSUME TypeOK, NEW k \in DOMAIN pending
  PROVE  /\ k \in 0..MaxHeight /\ pending[k] \in PendingBlock
         /\ pending[k].blk \in 0..MaxHeight /\ pending[k].full \in BOOLEAN /\ pending[k].hasSubmitted \in BOOLEAN
BY DEF TypeOK, PendingBlock

\* What an attempt to save a pending block may do.
LEMMA SubmitBlockDoes ==
  ASSUME TypeOK, NEW k \in 0..(MaxHeight + 1), SubmitBlock(k)
  PROVE  /\ led' \in 0..MaxHeight /\ led <= led' /\ fails' \in 0..MaxFails /\ fails <= fails'
         /\ DOMAIN pending' \subseteq DOMAIN pending
         /\ \A j \in DOMAIN pending' :
              /\ pending'[j] \in PendingBlock /\ pending'[j].blk = pending[j].blk /\ pending'[j].full = pending[j].full
              /\ pending'[j].hasSubmitted => pending[j].hasSubmitted \/ pending[j].blk <= led'
         /\ \A j \in DOMAIN pending : (\A i \in DOMAIN pending : i <= j) => j \in DOMAIN pending'
         /\ k # 0 /\ k \in DOMAIN pending /\ pending[k].blk <= led + 1 /\ fails' = fails =>
              pending[k].hasSubmitted \/ pending[k].blk <= led'
<1>1. led \in 0..MaxHeight /\ fails \in 0..MaxFails /\ MaxHeight \in Nat /\ MaxFails \in Nat
  BY ChainStoreAssumption DEF TypeOK
<1>2. \A j \in DOMAIN pending : pending[j] \in PendingBlock /\ j \in 0..MaxHeight
  BY DEF TypeOK
<1>3. CASE ~Submittable(k) /\ UNCHANGED <<led, pending, fails>>
  BY <1>1, <1>2, <1>3 DEF Submittable
<1>4. CASE /\ Submittable(k) /\ pending[k].blk <= led + 1
           /\ led' = (IF pending[k].blk = led + 1 THEN led + 1 ELSE led)
           /\ pending' = AfterSubmit(k) /\ UNCHANGED fails
  <2>1. k # 0 /\ k \in DOMAIN pending /\ pending[k].blk \in 0..MaxHeight
    BY <1>4, PendingTypes DEF Submittable
  <2>2. led' \in 0..MaxHeight /\ led <= led' /\ pending[k].blk <= led'
    BY <1>1, <1>4, <2>1
  <2>3. DOMAIN pending' = DOMAIN pending \ {k - 1}
    BY <1>4 DEF AfterSubmit
  <2>4. \A j \in DOMAIN pending' : j # k => pending'[j] = pending[j]
    BY <1>4, <2>3 DEF AfterSubmit
  <2>5. k \in DOMAIN pending'
    BY <1>2, <2>1, <2>3
  <2>6. pending'[k] = [pending[k] EXCEPT !.hasSubmitted = TRUE]
    BY <1>4, <2>3, <2>5 DEF AfterSubmit
  <2>7. /\ pending'[k] \in PendingBlock /\ pending'[k].blk = pending[k].blk /\ pending'[k].full = pending[k].full
    BY <1>2, <2>1, <2>6, Zenon DEF PendingBlock
  <2>8. \A j \in DOMAIN pending : (\A i \in DOMAIN pending : i <= j) => j # k - 1
    BY <1>2, <2>1
  <2>9. QED
    BY <1>1, <1>2, <1>4, <2>2, <2>3, <2>4, <2>7, <2>8
<1>5. CASE Submittable(k) /\ pending[k].blk > led + 1 /\ UNCHANGED <<led, pending, fails>>
  <2>1. k \in DOMAIN pending /\ pending[k].blk \in 0..MaxHeight
    BY <1>5, PendingTypes DEF Submittable
  <2>2. QED
    BY <1>1, <1>2, <1>5, <2>1
<1>6. CASE Submittable(k) /\ fails < MaxFails /\ fails' = fails + 1 /\ UNCHANGED <<led, pending>>
  BY <1>1, <1>2, <1>6
<1>7. QED
  BY <1>3, <1>4, <1>5, <1>6 DEF SubmitBlock

\* Growth of the ledger keeps the chained height at most one ahead of it.
LEMMA StillAhead == \A c, l, m \in Nat : c <= l + 1 /\ l <= m => c <= m + 1
OBVIOUS

\* makeBlockSubmit starts goroutines up to their bound.
LEMMA MoreSpawnedType == TypeOK => MoreSpawned \in 0..MaxSpawn
BY ChainStoreAssumption DEF TypeOK, MoreSpawned

-----------------------------------------------------------------------------
(* Steps *)

\* sealBlock up to the lock.
LEMMA SealStartKeeps == ASSUME StoreInv, NEW s \in Sealers, SealStart(s) PROVE StoreInv'
<1>0. /\ TypeOK /\ OneInside /\ PartialNeverSaved /\ (member => ChainInv) /\ (member /\ fails = 0 => CleanInv)
      /\ MaxHeight \in Nat \ {0} /\ MaxFails \in Nat /\ MaxSpawn \in Nat
  BY ChainStoreAssumption DEF StoreInv
<1>1. cur \in Heights /\ At(s, "idle")
  BY DEF SealStart, Idle, At
<1> DEFINE r == [step |-> "lock", h |-> cur, num |-> 0]
<1>2. r \in SealState
  BY <1>0, <1>1 DEF SealState
<1>3. r.step = "lock" /\ r.h = cur
  OBVIOUS
<1>4. seal' = [seal EXCEPT ![s] = r] /\ UNCHANGED <<led, chained, pending, cur, sealed, voted, spawn, acts, member, fails>>
  BY DEF SealStart
<1> HIDE DEF r
<1>5. seal' \in [Sealers -> SealState] /\ seal'[s].step = "lock" /\ seal'[s].h = cur
      /\ \A t \in Sealers : t # s => seal'[t] = seal[t]
  BY <1>0, <1>2, <1>3, <1>4 DEF TypeOK
<1>6. TypeOK'
  BY <1>0, <1>4, <1>5 DEF TypeOK
<1>7. OneInside' /\ PartialNeverSaved'
  BY <1>0, <1>4, <1>5 DEF OneInside, At, PartialNeverSaved
<1>8. ASSUME member' PROVE ChainInv'
  BY <1>0, <1>4, <1>5, <1>8 DEF ChainInv, At
<1>9. ASSUME member', fails' = 0 PROVE CleanInv'
  BY <1>0, <1>1, <1>4, <1>5, <1>9 DEF CleanInv, At
<1>10. QED
  BY <1>6, <1>7, <1>8, <1>9 DEF StoreInv

\* setBlockSealed of a round that is sealed already.
LEMMA SealAgainKeeps == ASSUME StoreInv, NEW s \in Sealers, SealAgain(s) PROVE StoreInv'
<1>0. /\ TypeOK /\ OneInside /\ PartialNeverSaved /\ (member => ChainInv) /\ (member /\ fails = 0 => CleanInv)
      /\ MaxHeight \in Nat \ {0} /\ MaxFails \in Nat /\ MaxSpawn \in Nat
  BY ChainStoreAssumption DEF StoreInv
<1>1. /\ At(s, "lock") /\ PoolFree /\ seal[s].h \in sealed
      /\ UNCHANGED <<led, chained, pending, cur, sealed, voted, spawn, acts, member, fails>>
  BY DEF SealAgain, At
<1>2. seal' \in [Sealers -> SealState] /\ seal'[s].step = "finish" /\ seal'[s].h = seal[s].h
      /\ \A t \in Sealers : t # s => seal'[t] = seal[t]
  BY <1>0, <1>1, SteppedOn, Zenon DEF SealAgain, At
<1>3. TypeOK'
  BY <1>0, <1>1, <1>2 DEF TypeOK
<1>4. OneInside' /\ PartialNeverSaved'
  BY <1>0, <1>1, <1>2 DEF OneInside, At, PartialNeverSaved
<1>5. ASSUME member' PROVE ChainInv'
  BY <1>0, <1>1, <1>2, <1>5 DEF ChainInv, At
<1>6. ASSUME member', fails' = 0 PROVE CleanInv'
  BY <1>0, <1>1, <1>2, <1>6 DEF CleanInv, At, PoolFree
<1>7. QED
  BY <1>3, <1>4, <1>5, <1>6 DEF StoreInv

\* AddBlock: the block is chained already.
LEMMA SealChainedKeeps == ASSUME StoreInv, NEW s \in Sealers, SealChained(s) PROVE StoreInv'
<1>0. /\ TypeOK /\ OneInside /\ PartialNeverSaved /\ (member => ChainInv) /\ (member /\ fails = 0 => CleanInv)
      /\ MaxHeight \in Nat \ {0} /\ MaxFails \in Nat /\ MaxSpawn \in Nat
  BY ChainStoreAssumption DEF StoreInv
<1>1. /\ At(s, "lock") /\ PoolFree /\ seal[s].h <= chained /\ sealed' = sealed \cup {seal[s].h}
      /\ spawn' = MoreSpawned /\ UNCHANGED <<led, chained, pending, cur, voted, acts, member, fails>>
  BY DEF SealChained, At
<1>2. seal' \in [Sealers -> SealState] /\ seal'[s].step = "finish" /\ seal'[s].h = seal[s].h
      /\ \A t \in Sealers : t # s => seal'[t] = seal[t]
  BY <1>0, <1>1, SteppedOn, Zenon DEF SealChained, At
<1>3. TypeOK'
  <2>1. seal[s].h \in Heights
    BY <1>0, <1>1, SealTypes DEF At
  <2>2. QED
    BY <1>0, <1>1, <1>2, <2>1, MoreSpawnedType DEF TypeOK
<1>4. OneInside' /\ PartialNeverSaved'
  BY <1>0, <1>1, <1>2 DEF OneInside, At, PartialNeverSaved
<1>5. ASSUME member' PROVE ChainInv'
  BY <1>0, <1>1, <1>2, <1>5 DEF ChainInv, At
<1>6. ASSUME member', fails' = 0 PROVE CleanInv'
  BY <1>0, <1>1, <1>2, <1>6 DEF CleanInv, At, PoolFree
<1>7. QED
  BY <1>3, <1>4, <1>5, <1>6 DEF StoreInv

\* AddBlock: the block before it is saved first.
LEMMA SealSubmitKeeps == ASSUME StoreInv, NEW s \in Sealers, SealSubmit(s) PROVE StoreInv'
<1>0. /\ TypeOK /\ OneInside /\ PartialNeverSaved /\ (member => ChainInv) /\ (member /\ fails = 0 => CleanInv)
      /\ MaxHeight \in Nat \ {0} /\ MaxFails \in Nat /\ MaxSpawn \in Nat
  BY ChainStoreAssumption DEF StoreInv
<1>1. /\ At(s, "lock") /\ PoolFree /\ seal[s].h > chained /\ sealed' = sealed \cup {seal[s].h} /\ SubmitBlock(chained)
      /\ UNCHANGED <<chained, cur, voted, spawn, acts, member>>
  BY DEF SealSubmit, At
<1>2. seal[s].h \in Heights /\ chained \in 0..MaxHeight /\ led \in 0..MaxHeight /\ fails \in 0..MaxFails
  BY <1>0, <1>1, SealTypes DEF At, TypeOK
<1>3. chained + 1 \in 0..MaxHeight /\ chained \in 0..(MaxHeight + 1)
  BY <1>0, <1>1, <1>2 DEF Heights
<1>4. /\ seal' \in [Sealers -> SealState] /\ seal'[s].step = "exec" /\ seal'[s].h = seal[s].h /\ seal'[s].num = chained + 1
      /\ \A t \in Sealers : t # s => seal'[t] = seal[t]
  BY <1>0, <1>1, <1>3, Stepped, ZenonT(30) DEF SealSubmit, At
<1>5. /\ led' \in 0..MaxHeight /\ led <= led' /\ fails' \in 0..MaxFails /\ fails <= fails'
      /\ DOMAIN pending' \subseteq DOMAIN pending
      /\ \A j \in DOMAIN pending' :
           /\ pending'[j] \in PendingBlock /\ pending'[j].blk = pending[j].blk /\ pending'[j].full = pending[j].full
           /\ pending'[j].hasSubmitted => pending[j].hasSubmitted \/ pending[j].blk <= led'
      /\ \A j \in DOMAIN pending : (\A i \in DOMAIN pending : i <= j) => j \in DOMAIN pending'
      /\ chained # 0 /\ chained \in DOMAIN pending /\ pending[chained].blk <= led + 1 /\ fails' = fails =>
           pending[chained].hasSubmitted \/ pending[chained].blk <= led'
  BY <1>0, <1>1, <1>3, SubmitBlockDoes
<1>6. TypeOK'
  BY <1>0, <1>1, <1>2, <1>4, <1>5 DEF TypeOK
<1>7. OneInside'
  BY <1>1, <1>4 DEF OneInside, At, PoolFree
<1>8. PartialNeverSaved'
  BY <1>0, <1>2, <1>5, PendingTypes DEF PartialNeverSaved
<1>9. ASSUME member' PROVE ChainInv'
  <2>1. ChainInv
    BY <1>0, <1>1, <1>9
  <2>2. chained \in DOMAIN pending'
    BY <1>5, <2>1 DEF ChainInv
  <2>3. chained <= led' + 1
    BY <1>2, <1>5, <2>1 DEF ChainInv
  <2>4. QED
    BY <1>1, <1>4, <1>5, <2>1, <2>2, <2>3 DEF ChainInv, At, PoolFree
<1>10. ASSUME member', fails' = 0 PROVE CleanInv'
  <2>1. fails = 0 /\ fails' = fails /\ ChainInv /\ CleanInv
    BY <1>0, <1>1, <1>2, <1>5, <1>10
  <2>2. chained \in DOMAIN pending /\ pending[chained].blk = chained /\ chained <= led + 1
        /\ (pending[chained].hasSubmitted => chained <= led)
    BY <2>1 DEF ChainInv, CleanInv
  <2>3. chained <= led'
    BY <1>2, <1>5, <2>1, <2>2
  <2>4. \A k \in DOMAIN pending' : pending'[k].blk = k /\ (pending'[k].hasSubmitted => k <= led')
    BY <1>0, <1>2, <1>5, <2>1, PendingTypes DEF CleanInv
  <2>5. seal[s].h = chained + 1
    BY <1>1, <1>2, <2>1 DEF CleanInv, At, Heights
  <2>6. cur <= chained + 1
    BY <2>1 DEF CleanInv
  <2>7. \A t \in Sealers :
          /\ At(t, "lock")' => seal'[t].h <= chained + 1
          /\ At(t, "exec")' => seal'[t].h = chained + 1 /\ chained <= led'
          /\ At(t, "finish")' => seal'[t].h <= chained
    BY <1>1, <1>4, <2>1, <2>3, <2>5 DEF CleanInv, At, PoolFree
  <2>8. \A h \in sealed' : h <= chained \/ \E t \in Sealers : At(t, "exec")' /\ seal'[t].h = h
    BY <1>1, <1>4, <2>1 DEF CleanInv, At, PoolFree
  <2>9. QED
    BY <1>1, <2>4, <2>6, <2>7, <2>8 DEF CleanInv
<1>11. QED
  BY <1>6, <1>7, <1>8, <1>9, <1>10 DEF StoreInv

\* AddBlock: the block is executed and chained; the case where CleanInv is at stake.
LEMMA SealExecuteKeeps == ASSUME StoreInv, NEW s \in Sealers, SealExecute(s) PROVE StoreInv'
<1>0. /\ TypeOK /\ OneInside /\ PartialNeverSaved /\ (member => ChainInv) /\ (member /\ fails = 0 => CleanInv)
      /\ MaxHeight \in Nat \ {0} /\ MaxFails \in Nat /\ MaxSpawn \in Nat
  BY ChainStoreAssumption DEF StoreInv
<1>1. /\ At(s, "exec") /\ ~(seal[s].h > led + 1) /\ chained' = seal[s].num /\ spawn' = MoreSpawned
      /\ UNCHANGED <<led, cur, sealed, voted, acts, member, fails>>
  BY DEF SealExecute, ExecuteBlockFails, At
<1> DEFINE n == seal[s].num
           h == seal[s].h
           b == ExecuteBlock(h)
<1>2. h \in Heights /\ h \in 0..MaxHeight /\ n \in 0..MaxHeight /\ chained \in 0..MaxHeight /\ led \in 0..MaxHeight
  BY <1>0, <1>1, SealTypes DEF At, TypeOK
<1>3. h <= led + 1
  BY <1>1, <1>2
<1>4. b \in PendingBlock /\ b.blk = h /\ (~ b.full => h # led + 1) /\ b.hasSubmitted = FALSE
  BY <1>2, Zenon DEF ExecuteBlock, PendingBlock
<1>5. /\ seal' \in [Sealers -> SealState] /\ seal'[s].step = "finish" /\ seal'[s].h = h
      /\ \A t \in Sealers : t # s => seal'[t] = seal[t]
  BY <1>0, <1>1, SteppedOn, Zenon DEF SealExecute, At
<1>6. pending' = [j \in DOMAIN pending \cup {n} |-> IF j = n THEN b ELSE pending[j]]
  BY DEF SealExecute
<1> HIDE DEF b, h, n
<1>7. DOMAIN pending' = DOMAIN pending \cup {n} /\ pending'[n] = b
      /\ \A j \in DOMAIN pending : j # n => pending'[j] = pending[j]
  BY <1>6
<1>8. \A t \in Sealers : ~ At(t, "exec")'
  BY <1>0, <1>1, <1>5 DEF OneInside, At
<1>9. TypeOK'
  <2>1. DOMAIN pending' \subseteq 0..MaxHeight /\ \A k \in DOMAIN pending' : pending'[k] \in PendingBlock
    BY <1>0, <1>2, <1>4, <1>7 DEF TypeOK
  <2>2. chained' \in 0..MaxHeight
    BY <1>1, <1>2 DEF n
  <2>3. QED
    BY <1>0, <1>1, <1>5, <2>1, <2>2, MoreSpawnedType DEF TypeOK
<1>10. OneInside'
  BY <1>8 DEF OneInside
<1>11. PartialNeverSaved'
  <2>1. ~ b.full => b.blk <= led
    BY <1>2, <1>3, <1>4
  <2>2. QED
    BY <1>0, <1>1, <1>7, <2>1 DEF PartialNeverSaved
<1>12. ASSUME member' PROVE ChainInv' /\ n = chained + 1
  <2>1. ChainInv
    BY <1>0, <1>1, <1>12
  <2>2. n = chained + 1 /\ h > chained
    BY <1>1, <2>1 DEF ChainInv, n, h
  <2>3. chained' = n
    BY <1>1 DEF n
  <2>4. n <= led + 1
    BY <1>2, <1>3, <2>2
  <2>5. \A k \in DOMAIN pending' : k <= n
    <3>1. \A k \in DOMAIN pending : k \in 0..MaxHeight /\ k <= chained
      BY <1>0, <2>1 DEF TypeOK, ChainInv
    <3>2. QED
      BY <1>2, <1>7, <2>2, <3>1
  <2>6. QED
    BY <1>1, <1>7, <1>8, <2>2, <2>3, <2>4, <2>5 DEF ChainInv
<1>13. ASSUME member', fails' = 0 PROVE CleanInv'
  <2>1. CleanInv /\ n = chained + 1 /\ chained' = n
    BY <1>0, <1>1, <1>12, <1>13 DEF n
  <2>2. h = n
    BY <1>1, <2>1 DEF CleanInv, h
  <2>3. \A k \in DOMAIN pending' : pending'[k].blk = k /\ (pending'[k].hasSubmitted => k <= led')
    BY <1>1, <1>4, <1>7, <2>1, <2>2 DEF CleanInv
  <2>4. cur' <= chained' + 1
    <3>1. cur \in 1..(MaxHeight + 1) /\ cur <= chained + 1
      BY <1>0, <2>1 DEF TypeOK, CleanInv
    <3>2. QED
      BY <1>0, <1>1, <1>2, <2>1, <3>1
  <2>5. \A t \in Sealers : /\ At(t, "lock")' => seal'[t].h <= chained' + 1
                           /\ At(t, "finish")' => seal'[t].h <= chained'
    <3> SUFFICES ASSUME NEW t \in Sealers
                 PROVE  /\ At(t, "lock")' => seal'[t].h <= chained' + 1
                        /\ At(t, "finish")' => seal'[t].h <= chained'
      OBVIOUS
    <3>1. CASE t = s
      BY <1>2, <1>5, <2>1, <2>2, <3>1 DEF At
    <3>2. CASE t # s
      <4>1. seal'[t] = seal[t] /\ seal[t].h \in 0..MaxHeight
        BY <1>0, <1>5, <3>2, SealTypes
      <4>2. (At(t, "lock") => seal[t].h <= chained + 1) /\ (At(t, "finish") => seal[t].h <= chained)
        BY <2>1 DEF CleanInv
      <4>3. QED
        BY <1>2, <2>1, <4>1, <4>2 DEF At
    <3>3. QED
      BY <3>1, <3>2
  <2>6. \A k \in sealed' : k <= chained'
    <3>1. \A k \in sealed : k \in 1..MaxHeight
      BY <1>0 DEF TypeOK, Heights
    <3>2. \A k \in sealed : k <= chained \/ k = h
      BY <1>0, <1>1, <2>1 DEF CleanInv, OneInside, h
    <3>3. QED
      BY <1>0, <1>1, <1>2, <2>1, <2>2, <3>1, <3>2
  <2>7. QED
    BY <1>8, <2>3, <2>4, <2>5, <2>6 DEF CleanInv
<1>14. QED
  BY <1>9, <1>10, <1>11, <1>12, <1>13 DEF StoreInv

\* AddBlock: the execution is refused, the round stays sealed.
LEMMA SealFailsKeeps == ASSUME StoreInv, NEW s \in Sealers, SealFails(s) PROVE StoreInv'
<1>0. /\ TypeOK /\ OneInside /\ PartialNeverSaved /\ (member => ChainInv) /\ (member /\ fails = 0 => CleanInv)
      /\ MaxHeight \in Nat \ {0} /\ MaxFails \in Nat /\ MaxSpawn \in Nat
  BY ChainStoreAssumption DEF StoreInv
<1>1. /\ At(s, "exec") /\ seal[s].h > led + 1 /\ seal' = [seal EXCEPT ![s] = Idle]
      /\ UNCHANGED <<led, chained, pending, cur, sealed, voted, spawn, acts, member, fails>>
  BY DEF SealFails, ExecuteBlockFails, At
<1>2. seal' \in [Sealers -> SealState] /\ seal'[s].step = "idle" /\ \A t \in Sealers : t # s => seal'[t] = seal[t]
  <2>1. Idle \in SealState /\ Idle.step = "idle"
    BY DEF SealState, Idle
  <2>2. QED
    BY <1>0, <1>1, <2>1 DEF TypeOK
<1>3. TypeOK'
  BY <1>0, <1>1, <1>2 DEF TypeOK
<1>4. OneInside' /\ PartialNeverSaved'
  BY <1>0, <1>1, <1>2 DEF OneInside, At, PartialNeverSaved
<1>5. ASSUME member' PROVE ChainInv'
  BY <1>0, <1>1, <1>2, <1>5 DEF ChainInv, At
\* the block before is in the ledger, so executing this one did not fail
<1>6. ~ (member' /\ fails' = 0)
  <2> SUFFICES ASSUME member, fails = 0 PROVE FALSE
    BY <1>1
  <2>1. seal[s].h = chained + 1 /\ chained <= led
    BY <1>0, <1>1 DEF CleanInv
  <2>2. chained \in 0..MaxHeight /\ led \in 0..MaxHeight
    BY <1>0 DEF TypeOK
  <2>3. QED
    BY <1>0, <1>1, <2>1, <2>2
<1>7. QED
  BY <1>3, <1>4, <1>5, <1>6 DEF StoreInv

\* sealBlock after the lock: the server goes on to the next round.
LEMMA SealFinishKeeps == ASSUME StoreInv, NEW s \in Sealers, SealFinish(s) PROVE StoreInv'
<1>0. /\ TypeOK /\ OneInside /\ PartialNeverSaved /\ (member => ChainInv) /\ (member /\ fails = 0 => CleanInv)
      /\ MaxHeight \in Nat \ {0} /\ MaxFails \in Nat /\ MaxSpawn \in Nat
  BY ChainStoreAssumption DEF StoreInv
<1>1. /\ At(s, "finish") /\ cur' = NextRound(seal[s].h) /\ seal' = [seal EXCEPT ![s] = Idle]
      /\ UNCHANGED <<led, chained, pending, sealed, voted, spawn, acts, member, fails>>
  BY DEF SealFinish, At
<1>2. seal' \in [Sealers -> SealState] /\ seal'[s].step = "idle" /\ \A t \in Sealers : t # s => seal'[t] = seal[t]
  <2>1. Idle \in SealState /\ Idle.step = "idle"
    BY DEF SealState, Idle
  <2>2. QED
    BY <1>0, <1>1, <2>1 DEF TypeOK
<1>3. seal[s].h \in Heights /\ cur \in 1..(MaxHeight + 1) /\ chained \in 0..MaxHeight
  BY <1>0, <1>1, SealTypes DEF At, TypeOK
<1>4. TypeOK'
  <2>1. cur' \in 1..(MaxHeight + 1)
    BY <1>0, <1>1, <1>3 DEF NextRound, Heights
  <2>2. QED
    BY <1>0, <1>1, <1>2, <2>1 DEF TypeOK
<1>5. OneInside' /\ PartialNeverSaved'
  BY <1>0, <1>1, <1>2 DEF OneInside, At, PartialNeverSaved
<1>6. ASSUME member' PROVE ChainInv'
  BY <1>0, <1>1, <1>2, <1>6 DEF ChainInv, At
<1>7. ASSUME member', fails' = 0 PROVE CleanInv'
  <2>1. CleanInv
    BY <1>0, <1>1, <1>7
  <2>2. cur' <= chained + 1
    BY <1>1, <1>3, <2>1 DEF CleanInv, NextRound, Heights
  <2>3. QED
    BY <1>1, <1>2, <2>1, <2>2 DEF CleanInv, At
<1>8. QED
  BY <1>4, <1>5, <1>6, <1>7 DEF StoreInv

\* The SubmitBlock action of actionLoop.
LEMMA SubmitActionKeeps == ASSUME StoreInv, NEW k, SubmitAction(k) PROVE StoreInv'
<1>0. /\ TypeOK /\ OneInside /\ PartialNeverSaved /\ (member => ChainInv) /\ (member /\ fails = 0 => CleanInv)
      /\ MaxHeight \in Nat \ {0} /\ MaxFails \in Nat /\ MaxSpawn \in Nat
  BY ChainStoreAssumption DEF StoreInv
<1>1. /\ k \in acts /\ PoolFree /\ acts' = acts \ {k}
      /\ UNCHANGED <<chained, cur, sealed, voted, spawn, seal, member>>
      /\ SubmitBlock(k) \/ UNCHANGED <<led, pending, fails>>
  BY DEF SubmitAction
<1>2. CASE UNCHANGED <<led, pending, fails>>
  <2>1. TypeOK'
    BY <1>0, <1>1, <1>2 DEF TypeOK
  <2>2. OneInside' /\ PartialNeverSaved'
    BY <1>0, <1>1, <1>2 DEF OneInside, At, PartialNeverSaved
  <2>3. ASSUME member' PROVE ChainInv'
    BY <1>0, <1>1, <1>2, <2>3 DEF ChainInv, At
  <2>4. ASSUME member', fails' = 0 PROVE CleanInv'
    BY <1>0, <1>1, <1>2, <2>4 DEF CleanInv, At
  <2>5. QED
    BY <2>1, <2>2, <2>3, <2>4 DEF StoreInv
<1>3. CASE SubmitBlock(k)
  <2>1. k \in 0..(MaxHeight + 1) /\ led \in 0..MaxHeight /\ fails \in 0..MaxFails /\ chained \in 0..MaxHeight
    BY <1>0, <1>1 DEF TypeOK
  <2>2. /\ led' \in 0..MaxHeight /\ led <= led' /\ fails' \in 0..MaxFails /\ fails <= fails'
        /\ DOMAIN pending' \subseteq DOMAIN pending
        /\ \A j \in DOMAIN pending' :
             /\ pending'[j] \in PendingBlock /\ pending'[j].blk = pending[j].blk /\ pending'[j].full = pending[j].full
             /\ pending'[j].hasSubmitted => pending[j].hasSubmitted \/ pending[j].blk <= led'
        /\ \A j \in DOMAIN pending : (\A i \in DOMAIN pending : i <= j) => j \in DOMAIN pending'
    BY <1>0, <1>3, <2>1, SubmitBlockDoes
  <2>3. TypeOK'
    BY <1>0, <1>1, <2>2 DEF TypeOK
  <2>4. OneInside'
    BY <1>0, <1>1 DEF OneInside, At
  <2>5. PartialNeverSaved'
    BY <1>0, <2>1, <2>2, PendingTypes DEF PartialNeverSaved
  <2>6. ASSUME member' PROVE ChainInv'
    <3>1. ChainInv
      BY <1>0, <1>1, <2>6
    <3>2. chained \in DOMAIN pending'
      BY <2>2, <3>1 DEF ChainInv
    <3>3. chained <= led' + 1
      <4>1. chained <= led + 1 /\ led <= led'
        BY <2>2, <3>1 DEF ChainInv
      <4>2. chained \in Nat /\ led \in Nat /\ led' \in Nat
        BY <2>1, <2>2
      <4>3. QED
        BY <4>1, <4>2, StillAhead, Zenon
    <3>4. QED
      BY <1>1, <2>2, <3>1, <3>2, <3>3 DEF ChainInv, At
  <2>7. ASSUME member', fails' = 0 PROVE CleanInv'
    <3>1. CleanInv
      BY <1>0, <1>1, <2>1, <2>2, <2>7
    <3>2. \A j \in DOMAIN pending' : pending'[j].blk = j /\ (pending'[j].hasSubmitted => j <= led')
      BY <1>0, <2>1, <2>2, <3>1, PendingTypes DEF CleanInv
    <3>3. QED
      BY <1>1, <3>1, <3>2 DEF CleanInv, At, PoolFree
  <2>8. QED
    BY <2>3, <2>4, <2>5, <2>6, <2>7 DEF StoreInv
<1>4. QED
  BY <1>1, <1>2, <1>3

\* A BlockSubmit message that makes a quorum of equal roots, or comes after it.
LEMMA BlockSubmitMsgKeeps == ASSUME StoreInv, NEW h \in Heights, BlockSubmitMsg(h) PROVE StoreInv'
<1>0. /\ TypeOK /\ OneInside /\ PartialNeverSaved /\ (member => ChainInv) /\ (member /\ fails = 0 => CleanInv)
      /\ MaxHeight \in Nat \ {0} /\ MaxFails \in Nat /\ MaxSpawn \in Nat
  BY ChainStoreAssumption DEF StoreInv
<1>1. /\ voted' = voted \cup {h} /\ spawn' = MoreSpawned
      /\ UNCHANGED <<led, chained, pending, cur, sealed, acts, seal, member, fails>>
  BY DEF BlockSubmitMsg
<1>2. TypeOK'
  BY <1>0, <1>1, MoreSpawnedType DEF TypeOK
<1>3. OneInside' /\ PartialNeverSaved'
  BY <1>0, <1>1 DEF OneInside, At, PartialNeverSaved
<1>4. ASSUME member' PROVE ChainInv'
  BY <1>0, <1>1, <1>4 DEF ChainInv, At
<1>5. ASSUME member', fails' = 0 PROVE CleanInv'
  BY <1>0, <1>1, <1>5 DEF CleanInv, At
<1>6. QED
  BY <1>2, <1>3, <1>4, <1>5 DEF StoreInv

\* The goroutine of makeBlockSubmit asks for the current round.
LEMMA makeBlockSubmitKeeps == ASSUME StoreInv, makeBlockSubmit PROVE StoreInv'
<1>0. /\ TypeOK /\ OneInside /\ PartialNeverSaved /\ (member => ChainInv) /\ (member /\ fails = 0 => CleanInv)
      /\ MaxHeight \in Nat \ {0} /\ MaxFails \in Nat /\ MaxSpawn \in Nat
  BY ChainStoreAssumption DEF StoreInv
<1>1. /\ spawn > 0 /\ spawn' = spawn - 1 /\ acts' = acts \cup {cur}
      /\ UNCHANGED <<led, chained, pending, cur, sealed, voted, seal, member, fails>>
  BY DEF makeBlockSubmit
<1>2. TypeOK'
  BY <1>0, <1>1 DEF TypeOK
<1>3. OneInside' /\ PartialNeverSaved'
  BY <1>0, <1>1 DEF OneInside, At, PartialNeverSaved
<1>4. ASSUME member' PROVE ChainInv'
  BY <1>0, <1>1, <1>4 DEF ChainInv, At
<1>5. ASSUME member', fails' = 0 PROVE CleanInv'
  BY <1>0, <1>1, <1>5 DEF CleanInv, At
<1>6. QED
  BY <1>2, <1>3, <1>4, <1>5 DEF StoreInv

\* The node stops being a member of the consensus.
LEMMA LeaveConsensusKeeps == ASSUME StoreInv, LeaveConsensus PROVE StoreInv'
<1>0. /\ TypeOK /\ OneInside /\ PartialNeverSaved /\ (member => ChainInv) /\ (member /\ fails = 0 => CleanInv)
      /\ MaxHeight \in Nat \ {0} /\ MaxFails \in Nat /\ MaxSpawn \in Nat
  BY ChainStoreAssumption DEF StoreInv
<1>1. /\ member' = FALSE
      /\ UNCHANGED <<led, chained, pending, cur, sealed, voted, spawn, acts, seal, fails>>
  BY DEF LeaveConsensus
<1>2. TypeOK'
  BY <1>0, <1>1, Zenon DEF TypeOK
<1>3. OneInside' /\ PartialNeverSaved'
  BY <1>0, <1>1 DEF OneInside, At, PartialNeverSaved
<1>4. ASSUME member' PROVE ChainInv'
  BY <1>0, <1>1, <1>4 DEF ChainInv, At
<1>5. ASSUME member', fails' = 0 PROVE CleanInv'
  BY <1>0, <1>1, <1>5 DEF CleanInv, At
<1>6. QED
  BY <1>2, <1>3, <1>4, <1>5 DEF StoreInv

\* Block sync saves the next block.
LEMMA BlockSyncKeeps == ASSUME StoreInv, BlockSync PROVE StoreInv'
<1>0. /\ TypeOK /\ OneInside /\ PartialNeverSaved /\ (member => ChainInv) /\ (member /\ fails = 0 => CleanInv)
      /\ MaxHeight \in Nat \ {0} /\ MaxFails \in Nat /\ MaxSpawn \in Nat
  BY ChainStoreAssumption DEF StoreInv
<1>1. /\ led < MaxHeight /\ led' = led + 1
      /\ UNCHANGED <<chained, pending, cur, sealed, voted, spawn, acts, seal, member, fails>>
  BY DEF BlockSync
<1>2. led \in 0..MaxHeight /\ chained \in 0..MaxHeight
  BY <1>0 DEF TypeOK
<1>3. TypeOK'
  BY <1>0, <1>1, <1>2 DEF TypeOK
<1>4. OneInside'
  BY <1>0, <1>1 DEF OneInside, At
<1>5. PartialNeverSaved'
  BY <1>0, <1>1, <1>2, PendingTypes DEF PartialNeverSaved
<1>6. ASSUME member' PROVE ChainInv'
  BY <1>0, <1>1, <1>2, <1>6 DEF ChainInv, At
<1>7. ASSUME member', fails' = 0 PROVE CleanInv'
  <2>1. CleanInv
    BY <1>0, <1>1, <1>7
  <2>2. \A k \in DOMAIN pending : pending[k].blk = k /\ (pending[k].hasSubmitted => k <= led')
    BY <1>0, <1>1, <1>2, <2>1, PendingTypes DEF CleanInv
  <2>3. \A s \in Sealers : At(s, "exec") => chained <= led'
    BY <1>1, <1>2, <2>1 DEF CleanInv
  <2>4. QED
    BY <1>1, <2>1, <2>2, <2>3 DEF CleanInv, At
<1>8. QED
  BY <1>3, <1>4, <1>5, <1>6, <1>7 DEF StoreInv

\* The chain store of a node outside the consensus follows its ledger.
LEMMA ReloadFromLedgerKeeps == ASSUME StoreInv, ReloadFromLedger PROVE StoreInv'
<1>0. /\ TypeOK /\ OneInside /\ PartialNeverSaved /\ (member => ChainInv) /\ (member /\ fails = 0 => CleanInv)
      /\ MaxHeight \in Nat \ {0} /\ MaxFails \in Nat /\ MaxSpawn \in Nat
  BY ChainStoreAssumption DEF StoreInv
<1>1. /\ ~member /\ chained' = led /\ pending' = Restrict(pending, {k \in DOMAIN pending : k > led})
      /\ cur' = (IF led >= cur THEN led + 1 ELSE cur)
      /\ UNCHANGED <<led, sealed, voted, spawn, acts, seal, member, fails>>
  BY DEF ReloadFromLedger
<1>2. led \in 0..MaxHeight /\ cur \in 1..(MaxHeight + 1)
  BY <1>0 DEF TypeOK
<1>3. DOMAIN pending' \subseteq DOMAIN pending /\ \A k \in DOMAIN pending' : pending'[k] = pending[k]
  BY <1>1 DEF Restrict
<1>4. TypeOK'
  <2>1. cur' \in 1..(MaxHeight + 1)
    BY <1>0, <1>1, <1>2
  <2>2. QED
    BY <1>0, <1>1, <1>3, <2>1 DEF TypeOK
<1>5. OneInside' /\ PartialNeverSaved'
  BY <1>0, <1>1, <1>3 DEF OneInside, At, PartialNeverSaved
<1>6. QED
  BY <1>1, <1>4, <1>5 DEF StoreInv

\* Both a start on an empty ledger and a restart open the chain store on what the ledger has.
LEMMA Opened ==
  ASSUME NEW l \in 0..MaxHeight
  PROVE  LET p == OpenBlockStore(l)
         IN /\ DOMAIN p = {l} /\ p[l] \in PendingBlock /\ p[l].blk = l /\ p[l].full = TRUE
            /\ [s \in Sealers |-> Idle] \in [Sealers -> SealState] /\ Idle.step = "idle"
BY DEF OpenBlockStore, Saved, PendingBlock, SealState, Idle

\* The chain store as it is opened.
LEMMA InitKeeps == ASSUME Init PROVE StoreInv
<1>0. /\ MaxHeight \in Nat \ {0} /\ MaxFails \in Nat /\ MaxSpawn \in Nat
  BY ChainStoreAssumption
<1>1. /\ led \in 0..MaxHeight /\ chained = led /\ pending = OpenBlockStore(led) /\ cur = led + 1
      /\ sealed = {} /\ voted = {} /\ spawn = 0 /\ acts = {} /\ seal = [s \in Sealers |-> Idle]
      /\ member \in BOOLEAN /\ fails \in 0..MaxFails
  BY <1>0 DEF Init
<1>2. /\ DOMAIN pending = {led} /\ pending[led] \in PendingBlock /\ pending[led].blk = led
      /\ pending[led].full = TRUE /\ seal \in [Sealers -> SealState]
      /\ \A s \in Sealers : seal[s].step = "idle"
  BY <1>1, Opened, Zenon
<1>3. TypeOK
  BY <1>0, <1>1, <1>2 DEF TypeOK
<1>4. OneInside /\ PartialNeverSaved
  BY <1>2 DEF OneInside, At, PartialNeverSaved
<1>5. ChainInv
  BY <1>0, <1>1, <1>2 DEF ChainInv, At
<1>6. CleanInv
  BY <1>0, <1>1, <1>2 DEF CleanInv, At
<1>7. QED
  BY <1>3, <1>4, <1>5, <1>6 DEF StoreInv

\* A restart opens the chain store on what the ledger kept.
LEMMA RestartKeeps == ASSUME StoreInv, Restart PROVE StoreInv'
<1>0. /\ MaxHeight \in Nat \ {0} /\ MaxFails \in Nat /\ MaxSpawn \in Nat
  BY ChainStoreAssumption
<1>1. /\ led' = led /\ led \in 0..MaxHeight /\ chained' = led /\ pending' = OpenBlockStore(led) /\ cur' = led + 1
      /\ sealed' = {} /\ voted' = {} /\ spawn' = 0 /\ acts' = {} /\ seal' = [s \in Sealers |-> Idle]
      /\ member' \in BOOLEAN /\ fails' \in 0..MaxFails
  BY <1>0 DEF Restart, StoreInv, TypeOK
<1>2. /\ DOMAIN pending' = {led} /\ pending'[led] \in PendingBlock /\ pending'[led].blk = led
      /\ pending'[led].full = TRUE /\ seal' \in [Sealers -> SealState]
      /\ \A s \in Sealers : seal'[s].step = "idle"
  BY <1>1, Opened, Zenon
<1>3. TypeOK'
  BY <1>0, <1>1, <1>2 DEF TypeOK
<1>4. OneInside' /\ PartialNeverSaved'
  BY <1>2 DEF OneInside, At, PartialNeverSaved
<1>5. ChainInv'
  BY <1>0, <1>1, <1>2 DEF ChainInv, At
<1>6. CleanInv'
  BY <1>0, <1>1, <1>2 DEF CleanInv, At
<1>7. QED
  BY <1>3, <1>4, <1>5, <1>6 DEF StoreInv

-----------------------------------------------------------------------------
(* Theorems *)

(* The invariant holds in every state: the pending blocks end with the      *)
(* chained one, which is at most one ahead of the ledger, a block is added  *)
(* on top of it under the pool's lock, and while no save failed block       *)
(* numbers, rounds and heights agree (chain_store.go, sealBlock).           *)
THEOREM StoreInvariance == Spec => []StoreInv
<1>1. Init => StoreInv
  BY InitKeeps
<1>2. StoreInv /\ [Next]_vars => StoreInv'
  <2> SUFFICES ASSUME StoreInv, [Next]_vars PROVE StoreInv'
    OBVIOUS
  <2>1. CASE Next
    BY <2>1, SealStartKeeps, SealAgainKeeps, SealChainedKeeps, SealSubmitKeeps, SealExecuteKeeps, SealFailsKeeps,
       SealFinishKeeps, BlockSubmitMsgKeeps, makeBlockSubmitKeeps, SubmitActionKeeps, BlockSyncKeeps,
       LeaveConsensusKeeps, ReloadFromLedgerKeeps, RestartKeeps DEF Next
  <2>2. CASE UNCHANGED vars
    <3>1. TypeOK' /\ OneInside'
      BY <2>2 DEF vars, StoreInv, TypeOK, OneInside, At
    <3>2. PartialNeverSaved'
      BY <2>2 DEF vars, StoreInv, PartialNeverSaved
    <3>3. (member => ChainInv)'
      BY <2>2 DEF vars, StoreInv, ChainInv, At
    <3>4. (member /\ fails = 0 => CleanInv)'
      BY <2>2 DEF vars, StoreInv, CleanInv, At
    <3>5. QED
      BY <3>1, <3>2, <3>3, <3>4 DEF StoreInv
  <2>3. QED
    BY <2>1, <2>2
<1>3. QED
  BY <1>1, <1>2, PTL DEF Spec

(* No order of seals, votes, block sync and failed saves loses a sealed     *)
(* block: what the ledger lacks the chain store of a consensus node still   *)
(* holds (submitBlock, AddBlock).                                           *)
THEOREM UnsavedBlocksHeld == Spec => []UnsavedIsHeld
<1>1. StoreInv => UnsavedIsHeld
  <2> SUFFICES ASSUME StoreInv, member, NEW h \in Heights, led < h, h <= chained PROVE h \in DOMAIN pending
    BY DEF UnsavedIsHeld
  <2>1. ChainInv /\ led \in 0..MaxHeight /\ chained \in 0..MaxHeight /\ MaxHeight \in Nat
    BY ChainStoreAssumption DEF StoreInv, TypeOK
  <2>2. h = chained
    BY <2>1 DEF ChainInv, Heights
  <2>3. QED
    BY <2>1, <2>2 DEF ChainInv
<1>2. QED
  BY <1>1, StoreInvariance, PTL

(* A consensus node's chain store is at most one block ahead of its ledger: *)
(* AddBlock chains a block only where ExecuteBlock accepted it, and between *)
(* the two nothing moves the chained height (AddBlock, ExecuteBlock).       *)
THEOREM AtMostOneAhead == Spec => []OneBlockAhead
<1>1. StoreInv => OneBlockAhead
  BY DEF StoreInv, ChainInv, OneBlockAhead
<1>2. QED
  BY <1>1, StoreInvariance, PTL

(* A result without a write set belongs to a block that the ledger has, so  *)
(* SubmitBlock never saves it (ExecuteBlock, submitBlock).                  *)
THEOREM PartialResultsNotSaved == Spec => []PartialNeverSaved
<1>1. StoreInv => PartialNeverSaved
  BY DEF StoreInv
<1>2. QED
  BY <1>1, StoreInvariance, PTL

(* While no save failed, the root a consensus node votes for under a number *)
(* is that of the block of this height (AddBlock, getExecMerkleRoot).       *)
THEOREM VotesMatchBlocks == Spec => []VoteMatchesBlock
<1>1. StoreInv => VoteMatchesBlock
  BY DEF StoreInv, CleanInv, VoteMatchesBlock
<1>2. QED
  BY <1>1, StoreInvariance, PTL

(* While no save failed, a consensus node has chained every round it left:  *)
(* the save that sealing the next block makes is what lets that block be    *)
(* executed (sealBlock, setBlockSealed, AddBlock).                          *)
THEOREM SealedBlocksChained == Spec => []SealedIsChained
<1>1. StoreInv => SealedIsChained
  BY DEF StoreInv, CleanInv, SealedIsChained
<1>2. QED
  BY <1>1, StoreInvariance, PTL
=============================================================================
