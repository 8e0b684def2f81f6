----------------------------- MODULE BlockSync -----------------------------
(***************************************************************************)
(* Block synchronization from peers (p2pserver/protocols/block_sync).      *)
(* Every second the manager looks for requests that timed out, asks for    *)
(* headers and for the blocks of headers it has, and saves cached blocks   *)
(* in order; what peers answer is handled by goroutines of their own.      *)
(* Only saveBlock is split: between AddBlock and the removal of the cache  *)
(* entry, blocks keep arriving.                                            *)
(*                                                                         *)
(* A peer is "good", "bad" (its headers or blocks are refused by the       *)
(* ledger) or "silent".  getNextNode sorts peers by measured speed, so any *)
(* peer that is high enough may be its answer; getNodeWithMinFailedTimes   *)
(* only ever considers that answer.                                        *)
(***************************************************************************)
EXTENDS Integers, Sequences, FiniteSets

CONSTANTS SyncNodes, Situations,
          BatchSize,        \* headers of one answer
          FlightMax,        \* SYNC_MAX_FLIGHT_BLOCK_SIZE
          CacheMax,         \* SYNC_MAX_BLOCK_CACHE_SIZE
          ForwardMax,       \* SYNC_MAX_HEADER_FORWARD_SIZE
          NextTimes,        \* SYNC_NEXT_BLOCK_TIMES
          NextHeights,      \* SYNC_NEXT_BLOCKS_HEIGHT
          ErrorMax          \* SYNC_MAX_ERROR_RESP_TIMES

VARIABLES situation, curHeader, curBlock, flightHeaders, flightBlocks, blocksCache, nodeWeights,
          linked, requests, saver, faults, lastInv, still

bsVars == <<situation, curHeader, curBlock, flightHeaders, flightBlocks, blocksCache, nodeWeights,
            linked, requests, saver, faults, lastInv, still>>

(* situation: [heights, kinds, empty, faults, outside, announced]: what each peer has and *)
(* how it behaves, the empty blocks, the requests that may be lost or      *)
(* links that may break, and how many blocks consensus saves meanwhile.    *)
HeightOf(p) == situation.heights[p]
Least(a, b) == IF a < b THEN a ELSE b

\* getNextNode: nil when the set is empty.
NextNodes(h) == {p \in SyncNodes : nodeWeights[p] >= 0 /\ p \in linked /\ h <= HeightOf(p)}
Chosen(pick, k, h) == IF pick[k] \in NextNodes(h) THEN pick[k] ELSE CHOOSE p \in NextNodes(h) : TRUE
\* The nodes are asked in turns: each request changes the weights.
Picks == [1..NextTimes -> SyncNodes]

FlightCount(f) == Cardinality({<<h, i>> \in (DOMAIN f) \X (1..(2 * FlightMax)) : i <= Len(f[h])})
Request(p, kind, h) == [to |-> p, kind |-> kind, h |-> h]

(* syncHeader: one request at a time, and not too far ahead of the blocks. *)
SyncHeader(fh, reqs, hh, p) ==
  IF \/ Cardinality(DOMAIN fh) >= 1
     \/ hh - curBlock >= ForwardMax
     \/ NextNodes(hh + 1) = {}
  THEN [fh |-> fh, reqs |-> reqs]
  ELSE LET n == IF p \in NextNodes(hh + 1) THEN p ELSE CHOOSE q \in NextNodes(hh + 1) : TRUE
       IN [fh |-> [h \in DOMAIN fh \cup {hh + 1} |-> IF h = hh + 1 THEN n ELSE fh[h]],
           reqs |-> reqs \cup {Request(n, "header", hh + 1)}]

NonEmptyCached(bc) == Cardinality({h \in DOMAIN bc : h \notin situation.empty})

(* syncBlock: ask for the blocks above the ledger's that are neither on    *)
(* flight nor cached; those next in line from several nodes.  The number   *)
(* of nodes stays raised when such a block turns out to be cached.         *)
RECURSIVE SyncBlockFrom(_, _, _, _, _, _)
SyncBlockFrom(acc, h, bc, hh, count, pick) ==
  LET next == h <= curBlock + NextHeights
      onFlight == h \in DOMAIN acc.fb
      times == IF next THEN NextTimes ELSE acc.times
      node(i) == Chosen(pick, ((acc.asked + i - 1) % NextTimes) + 1, h)
      old == IF onFlight THEN acc.fb[h] ELSE <<>>
  IN CASE acc.done >= count \/ h > hh -> acc
       [] (onFlight /\ ~next) \/ h \in DOMAIN bc ->
            SyncBlockFrom([acc EXCEPT !.times = IF onFlight /\ next THEN NextTimes ELSE @],
                          h + 1, bc, hh, count, pick)
       [] NextNodes(h) = {} -> acc
       [] OTHER ->
            SyncBlockFrom(
              [fb |-> [k \in DOMAIN acc.fb \cup {h} |->
                         IF k = h THEN old \o [i \in 1..times |-> node(i)] ELSE acc.fb[k]],
               reqs |-> acc.reqs \cup {Request(node(i), "block", h) : i \in 1..times},
               done |-> acc.done + 1, asked |-> acc.asked + times, times |-> 1],
              h + 1, bc, hh, count, pick)

SyncBlock(fb, reqs, bc, hh, pick) ==
  LET count == Least(Least(hh - curBlock, FlightMax - FlightCount(fb)), CacheMax - NonEmptyCached(bc))
  IN SyncBlockFrom([fb |-> fb, reqs |-> reqs, done |-> 0, asked |-> 0, times |-> 1],
                   curBlock + 1, bc, hh, count, pick)

Removed(f, h) == [k \in DOMAIN f \ {h} |-> f[k]]
Updated(f, h, v) == [k \in DOMAIN f \cup {h} |-> IF k = h THEN v ELSE f[k]]

(* An error answer counts against the node; at the limit it is dropped. *)
AddErrorResp(w, p) ==
  IF w[p] < 0 THEN w ELSE [w EXCEPT ![p] = IF @ + 1 >= ErrorMax THEN -1 ELSE @ + 1]

(* ---- The ticker ------------------------------------------------------- *)
\* "still" collects the passes that changed nothing since the last change.
Still(pass, changed) == still' = IF changed THEN {} ELSE still \cup {pass}

Sync ==
  \E pick \in Picks :
    LET s == SyncHeader(flightHeaders, requests, curHeader, pick[1])
        b == SyncBlock(flightBlocks, s.reqs, blocksCache, curHeader, pick)
    IN /\ flightHeaders' = s.fh /\ flightBlocks' = b.fb /\ requests' = b.reqs
       /\ Still("sync", s.fh # flightHeaders \/ b.fb # flightBlocks \/ b.reqs # requests)
       /\ UNCHANGED <<situation, curHeader, curBlock, blocksCache, nodeWeights, linked, saver, faults, lastInv>>

(* checkTimeout, per flight: one the ledger has passed is dropped, another *)
(* is asked of a node that has the ledger's next block.  A timeout while   *)
(* the answer is still on its way is one of the bounded faults.            *)
Answer(r) == r \in requests /\ r.to \in linked /\ situation.kinds[r.to] # "silent" /\ r.h <= HeightOf(r.to)
Expires(r) == IF Answer(r) THEN faults > 0 /\ faults' = faults - 1 ELSE faults' = faults

TimeoutHeader ==
  \E h \in DOMAIN flightHeaders :
    IF h <= curHeader
    THEN /\ flightHeaders' = Removed(flightHeaders, h) /\ still' = {}
         /\ UNCHANGED <<situation, curHeader, curBlock, flightBlocks, blocksCache, nodeWeights, linked,
                        requests, saver, faults, lastInv>>
    ELSE \E p \in NextNodes(curBlock + 1) :
         /\ Expires(Request(flightHeaders[h], "header", h))
         /\ flightHeaders' = [flightHeaders EXCEPT ![h] = p]
         /\ requests' = requests \cup {Request(p, "header", curHeader + 1)}
         /\ still' = {}
         /\ UNCHANGED <<situation, curHeader, curBlock, flightBlocks, blocksCache, nodeWeights, linked,
                        saver, lastInv>>

TimeoutBlock ==
  \E h \in DOMAIN flightBlocks :
    IF h <= curBlock
    THEN /\ flightBlocks' = Removed(flightBlocks, h) /\ still' = {}
         /\ UNCHANGED <<situation, curHeader, curBlock, flightHeaders, blocksCache, nodeWeights, linked,
                        requests, saver, faults, lastInv>>
    ELSE \E i \in DOMAIN flightBlocks[h], p \in NextNodes(curBlock + 1) :
         /\ Expires(Request(flightBlocks[h][i], "block", h))
         /\ flightBlocks' = [flightBlocks EXCEPT ![h][i] = p]
         /\ requests' = requests \cup {Request(p, "block", h)}
         /\ still' = {}
         /\ UNCHANGED <<situation, curHeader, curBlock, flightHeaders, blocksCache, nodeWeights, linked,
                        saver, lastInv>>

(* ---- saveBlock, one at a time ----------------------------------------- *)
Nothing == [at |-> "idle", h |-> 0, from |-> "", ok |-> TRUE]

SaveStart ==
  /\ saver.at = "idle"
  /\ blocksCache' = [h \in {k \in DOMAIN blocksCache : k >= curBlock} |-> blocksCache[h]]
  /\ IF curBlock + 1 \in DOMAIN blocksCache
     THEN /\ saver' = [Nothing EXCEPT !.at = "add", !.h = curBlock + 1] /\ still' = still
     ELSE /\ saver' = saver /\ Still("save", blocksCache' # blocksCache)
  /\ UNCHANGED <<situation, curHeader, curBlock, flightHeaders, flightBlocks, nodeWeights, linked,
                 requests, faults, lastInv>>

\* AddBlock: a block of a height the ledger has by now is taken for saved.
SaveAdd ==
  /\ saver.at = "add"
  /\ IF saver.h \notin DOMAIN blocksCache
     THEN saver' = Nothing /\ UNCHANGED <<curBlock, curHeader, still>>
     ELSE LET b == blocksCache[saver.h]
              done == saver.h <= curBlock
              ok == done \/ (saver.h = curBlock + 1 /\ b.ok)
          IN /\ saver' = [at |-> "del", h |-> saver.h, from |-> b.from, ok |-> ok]
             /\ curBlock' = IF ok /\ ~done THEN saver.h ELSE curBlock
             /\ curHeader' = IF curBlock' > curHeader THEN curBlock' ELSE curHeader
             /\ still' = IF ok THEN {} ELSE still
  /\ UNCHANGED <<situation, flightHeaders, flightBlocks, blocksCache, nodeWeights, linked, requests, faults, lastInv>>

\* Mutant: a refused block stays in the cache.
SaveDelKeep ==
  /\ saver.at = "del"
  /\ saver' = IF saver.ok THEN [Nothing EXCEPT !.at = "add", !.h = saver.h + 1] ELSE Nothing
  /\ blocksCache' = IF saver.ok THEN Removed(blocksCache, saver.h) ELSE blocksCache
  /\ nodeWeights' = IF saver.ok THEN nodeWeights ELSE AddErrorResp(nodeWeights, saver.from)
  /\ Still("save", saver.ok \/ nodeWeights' # nodeWeights)
  /\ UNCHANGED <<situation, curHeader, curBlock, flightHeaders, flightBlocks, linked, requests, faults, lastInv>>

(* The entry of the height is removed, whichever block it holds by now; a  *)
(* refused block counts against its sender and is asked for again.         *)
SaveDel ==
  /\ saver.at = "del"
  /\ blocksCache' = Removed(blocksCache, saver.h)
  /\ still' = {}
  /\ IF saver.ok
     THEN /\ saver' = [Nothing EXCEPT !.at = "add", !.h = saver.h + 1]
          /\ UNCHANGED <<nodeWeights, flightBlocks, requests>>
     ELSE /\ saver' = Nothing
          /\ nodeWeights' = AddErrorResp(nodeWeights, saver.from)
          /\ LET left == {p \in NextNodes(saver.h) : nodeWeights'[p] >= 0}
             IN IF left = {} THEN UNCHANGED <<flightBlocks, requests>>
                ELSE \E p \in left :
                  /\ flightBlocks' = Updated(flightBlocks, saver.h,
                       Append(IF saver.h \in DOMAIN flightBlocks THEN flightBlocks[saver.h] ELSE <<>>, p))
                  /\ requests' = requests \cup {Request(p, "block", saver.h)}
  /\ UNCHANGED <<situation, curHeader, curBlock, flightHeaders, linked, faults, lastInv>>

(* ---- Answers ---------------------------------------------------------- *)
(* OnHeaderReceive.  The blocks of headers without transactions are made   *)
(* on the spot.  Then headers are asked for again.                         *)
OnHeaderReceive ==
  \E r \in requests, p \in SyncNodes :
    LET last == Least(HeightOf(r.to), r.h + BatchSize - 1)
        taken == r.h > curHeader /\ r.h \in DOMAIN flightHeaders
        bad == situation.kinds[r.to] = "bad"
        hh == IF taken /\ ~bad THEN last ELSE curHeader
        fh == IF taken THEN Removed(flightHeaders, r.h) ELSE flightHeaders
        empties == IF taken /\ ~bad THEN {h \in r.h..last : h \in situation.empty} ELSE {}
        fresh == {h \in empties : h > curBlock}
        s == IF taken /\ ~bad THEN SyncHeader(fh, requests \ {r}, hh, p)
             ELSE [fh |-> fh, reqs |-> requests \ {r}]
    IN /\ r.kind = "header" /\ Answer(r)
       /\ curHeader' = hh
       /\ flightHeaders' = s.fh /\ requests' = s.reqs
       /\ flightBlocks' = [h \in DOMAIN flightBlocks \ empties |-> flightBlocks[h]]
       /\ blocksCache' = [h \in DOMAIN blocksCache \cup fresh |->
                            IF h \in fresh THEN [from |-> r.to, ok |-> TRUE] ELSE blocksCache[h]]
       /\ nodeWeights' = IF taken /\ bad THEN AddErrorResp(nodeWeights, r.to) ELSE nodeWeights
       /\ still' = {}
       /\ UNCHANGED <<situation, curBlock, linked, saver, faults, lastInv>>

(* OnBlockReceive: every flight of the block ends, whoever answered; the   *)
(* block is cached unchecked and further blocks are asked for.             *)
OnBlockReceive ==
  \E r \in requests, pick \in Picks :
    LET fb == Removed(flightBlocks, r.h)
        kept == curBlock < r.h /\ r.h <= curHeader + 1
        bc == IF kept THEN Updated(blocksCache, r.h, [from |-> r.to, ok |-> situation.kinds[r.to] = "good"])
              ELSE blocksCache
        b == IF kept THEN SyncBlock(fb, requests \ {r}, bc, curHeader, pick)
             ELSE [fb |-> fb, reqs |-> requests \ {r}]
    IN /\ r.kind = "block" /\ Answer(r)
       /\ flightBlocks' = b.fb /\ requests' = b.reqs /\ blocksCache' = bc
       /\ still' = {}
       /\ UNCHANGED <<situation, curHeader, curBlock, flightHeaders, nodeWeights, linked, saver, faults, lastInv>>

(* InvHandle: a peer announces its newest block. *)
InvHandle ==
  \E p \in linked :
    /\ situation.announced /\ HeightOf(p) > curBlock /\ HeightOf(p) # lastInv
    /\ lastInv' = HeightOf(p)
    /\ requests' = requests \cup {Request(p, "block", HeightOf(p))}
    /\ still' = {}
    /\ UNCHANGED <<situation, curHeader, curBlock, flightHeaders, flightBlocks, blocksCache, nodeWeights,
                   linked, saver, faults>>

(* ---- Surroundings ----------------------------------------------------- *)
Lose ==
  \E r \in requests :
    /\ faults > 0 /\ faults' = faults - 1
    /\ requests' = requests \ {r} /\ still' = {}
    /\ UNCHANGED <<situation, curHeader, curBlock, flightHeaders, flightBlocks, blocksCache, nodeWeights,
                   linked, saver, lastInv>>

\* OnDelNode and OnAddNode; a returning node starts with a clean record.
Disconnect ==
  \E p \in linked :
    /\ faults > 0 /\ faults' = faults - 1
    /\ linked' = linked \ {p} /\ nodeWeights' = [nodeWeights EXCEPT ![p] = -1]
    /\ requests' = {r \in requests : r.to # p} /\ still' = {}
    /\ UNCHANGED <<situation, curHeader, curBlock, flightHeaders, flightBlocks, blocksCache, saver, lastInv>>
Connect ==
  \E p \in SyncNodes \ linked :
    /\ linked' = linked \cup {p} /\ nodeWeights' = [nodeWeights EXCEPT ![p] = 0] /\ still' = {}
    /\ UNCHANGED <<situation, curHeader, curBlock, flightHeaders, flightBlocks, blocksCache, requests,
                   saver, faults, lastInv>>

\* Consensus on this node saves the next block itself.
SavedElsewhere ==
  /\ curBlock < situation.outside
  /\ curBlock' = curBlock + 1
  /\ curHeader' = IF curBlock' > curHeader THEN curBlock' ELSE curHeader
  /\ still' = {}
  /\ UNCHANGED <<situation, flightHeaders, flightBlocks, blocksCache, nodeWeights, linked, requests, saver, faults, lastInv>>

BsInit ==
  /\ situation \in Situations
  /\ curHeader = 0 /\ curBlock = 0
  /\ flightHeaders = <<>> /\ flightBlocks = <<>> /\ blocksCache = <<>>
  /\ nodeWeights = [p \in SyncNodes |-> 0] /\ linked = SyncNodes
  /\ requests = {} /\ saver = Nothing /\ faults = situation.faults
  /\ lastInv = 0 /\ still = {}

BsNext ==
  \/ Sync \/ TimeoutHeader \/ TimeoutBlock \/ SaveStart \/ SaveAdd \/ SaveDel
  \/ OnHeaderReceive \/ OnBlockReceive \/ InvHandle \/ Lose \/ Disconnect \/ Connect \/ SavedElsewhere

BsSpec == BsInit /\ [][BsNext]_bsVars

(* ---- Properties ------------------------------------------------------- *)
BsTypeOK ==
  /\ curBlock <= curHeader
  /\ DOMAIN nodeWeights = SyncNodes /\ linked \subseteq SyncNodes
  /\ \A h \in DOMAIN blocksCache : h <= curHeader + 1
  /\ \A h \in DOMAIN flightBlocks : flightBlocks[h] # <<>>

(* No request is outstanding, and neither asking for blocks nor saving them *)
(* changes anything any more.                                               *)
SyncSettled ==
  /\ still = {"sync", "save"} /\ saver.at = "idle"
  /\ DOMAIN flightHeaders = {} /\ DOMAIN flightBlocks = {}
  /\ ~\E r \in requests : Answer(r)

(* Synchronization never settles below a peer: once nothing moves any more, *)
(* the ledger has every block that a connected good peer has - unless the   *)
(* cache is full of blocks above a missing one, in which case syncBlock     *)
(* asks for nothing (syncBlock, checkTimeout, saveBlock, OnDelNode).        *)
BlocksArrive ==
  SyncSettled =>
    \/ \A p \in linked : nodeWeights[p] >= 0 => HeightOf(p) <= curBlock
    \/ NonEmptyCached(blocksCache) >= CacheMax
============================================================================
