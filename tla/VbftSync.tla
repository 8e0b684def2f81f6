------------------------------ MODULE VbftSync ------------------------------
(* How a VBFT server catches up: the state manager (state_mgmt.go), the      *)
(* syncer and its goroutine per peer (node_sync.go).  The peers are honest   *)
(* and hold one chain, of which peer p has the blocks up to has[p]; messages *)
(* to and from them may be late or lost.  A block is its height: what        *)
(* matters is which peers have delivered it.                                 *)
EXTENDS Integers, Sequences, FiniteSets, FiniteSetsExt, SequencesExt

CONSTANTS
    SyncPeers,   \* the other servers
    SyncC,       \* config.C
    Cases,       \* cases to explore: the heights of the peers at the start (has) and in the
                 \* end (top), the heights whose proposal and commits the message pool has
                 \* (pooled), and how many times the environment may interfere (ticks)
    TopHeight,   \* bound: the highest block
    CheckNum,    \* MAX_SYNCING_CHECK_BLK_NUM
    ReqCap,      \* the capacity of blockSyncReqC
    MaxInstances \* bound: goroutines started per peer

VARIABLES
    stState,    \* StateMgr.currentState
    stPeers,    \* StateMgr.peers: the last height heard of each connected peer
    stEvents,   \* events on their way to the state manager
    lastTick,   \* lastTickChainHeight
    sealed,     \* GetCommittedBlockNo; the current height is one more
    forward,    \* a FastForward action is queued
    has,        \* the height each peer has reached
    reqC,       \* blockSyncReqC
    syncNext,   \* Syncer.nextReqBlkNum
    syncTarget, \* Syncer.targetBlkNum
    arrived,    \* the block the syncer is working on from, or 0 when it is idle
    blockC,     \* blockFromPeerC
    pending,    \* pendingBlocks: who has delivered each height
    ps,         \* the PeerSyncers of each peer, oldest first; the last is in Syncer.peers
    net,        \* answers on their way, by peer
    trouble,    \* why a block was not taken or not delivered, if ever
    top,        \* the height the peers will reach
    pooled,     \* the heights the message pool can decide
    ticks       \* how often the environment may still interfere

syncVars == <<stState, stPeers, stEvents, lastTick, sealed, forward, has, reqC, syncNext,
              syncTarget, arrived, blockC, pending, ps, net, trouble, top, pooled, ticks>>
syncerVars == <<top, pooled, syncNext, syncTarget, arrived, blockC, pending, ps, net,
                trouble>>

SyncHeights == 1..TopHeight
StateOrder == <<"Init", "LocalConfigured", "Configured", "Syncing", "WaitNetworkReady", "SyncReady",
                "Synced", "SyncingCheck">>
Rank(s) == CHOOSE i \in DOMAIN StateOrder : StateOrder[i] = s
stActive == Rank(stState) >= Rank("Synced")
stReady  == Rank(stState) >= Rank("SyncReady")

----------------------------------------------------------------------------
(* The heights of the peers, tallied in the order Go's map iteration takes:  *)
(* a height counts the peers at it or above it that come no earlier than the *)
(* first peer at that very height.                                           *)
Tally(order, heard, low) ==
    LET at(i)      == heard[order[i]]
        since(i)   == {j \in DOMAIN order : at(j) >= at(i) /\ \E f \in 1..j : at(f) = at(i)}
        counted    == {i \in DOMAIN order : at(i) >= low /\ Cardinality({j \in since(i) : j <= i}) > SyncC}
    IN  IF counted = {} THEN [num |-> -1, from |-> {}]
        ELSE [num |-> at(Max(counted)), from |-> {order[j] : j \in since(Max(counted))}]

Tallies(peers, low) == {Tally(o, peers, low) : o \in SetToSeqs(DOMAIN peers)}

getMinActivePeerCount == 2 * SyncC
enoughPeers(peers) == Cardinality(DOMAIN peers) >= getMinActivePeerCount

syncerIsActive == syncNext <= syncTarget

canFastForward(t) ==
    /\ t <= sealed + (4 * CheckNum)
    /\ ((sealed + 1)..t) \subseteq pooled
    /\ ~syncerIsActive

----------------------------------------------------------------------------
(* The state manager.  An operator here gives what a handler changes of      *)
(* stState, stEvents, forward and reqC as a record.                          *)
Now == [state |-> stState, events |-> stEvents, forward |-> forward, reqs |-> reqC]

Apply(r) == /\ stState' = r.state /\ stEvents' = r.events
            /\ forward' = r.forward /\ reqC' = r.reqs
            /\ Len(r.reqs) <= ReqCap

setSyncedReadyR(r) ==
    IF Rank(r.state) <= Rank("SyncReady")
    THEN [r EXCEPT !.state = "SyncReady", !.forward = TRUE,
                   !.events = @ \cup {<<"SyncReadyTimeout", sealed + 1>>}]
    ELSE [r EXCEPT !.state = "SyncReady"]

checkStartSyncing(r, start, force, t) ==
    IF t.num > start \/ force
    THEN [r EXCEPT !.state = "Syncing",
                   !.reqs = IF t.num > syncTarget
                            THEN Append(@, [from |-> t.from, start |-> sealed + 1, target |-> t.num])
                            ELSE @]
    ELSE IF r.state = "Synced" THEN [r EXCEPT !.state = "SyncingCheck"] ELSE r

isSyncedReady(peers, t) ==
    enoughPeers(peers) /\ t.num >= 0 /\ (sealed >= t.num \/ canFastForward(t.num))

(* A peer is ahead: catch up from the message pool, or from the peers.       *)
catchUp(r, t, t2) ==
    IF t.num <= sealed THEN r
    ELSE IF canFastForward(t.num) THEN [r EXCEPT !.forward = TRUE]
    ELSE checkStartSyncing(r, sealed, FALSE, t2)

(* Every call iterates the map anew: each tally is a choice of its own.      *)
onPeerUpdate(p) ==
    LET newPeer == p \notin DOMAIN stPeers
        n       == has[p]
        peers   == [q \in DOMAIN stPeers \cup {p} |-> IF q = p THEN n ELSE stPeers[q]]
        lost    == ~newPeer /\ stActive /\ n > sealed + 1 + CheckNum
        all     == Tallies(peers, sealed)
        ahead   == Tallies(peers, sealed + 1)
        far     == Tallies(peers, sealed + CheckNum + 1)
    IN  /\ stPeers' = peers
        /\ \/ /\ lost
              /\ \E t \in far : Apply(checkStartSyncing(Now, sealed + CheckNum, FALSE, t))
           \/ /\ ~lost /\ stState = "LocalConfigured"
              /\ Apply([Now EXCEPT !.state = IF enoughPeers(peers) THEN "Syncing" ELSE @])
           \/ /\ ~lost /\ stState = "Syncing"
              /\ \E t, u \in all : \E t2 \in ahead :
                    LET r == IF n > sealed THEN catchUp(Now, t, t2) ELSE Now
                    IN  Apply(IF isSyncedReady(peers, u) THEN setSyncedReadyR(r) ELSE r)
           \/ /\ ~lost /\ stState = "WaitNetworkReady"
              /\ \E u \in all : Apply(IF isSyncedReady(peers, u) THEN setSyncedReadyR(Now) ELSE Now)
           \/ /\ ~lost /\ stState = "Synced"
              /\ \E t \in all : Apply([Now EXCEPT !.forward = @ \/ t.num > sealed + 1])
           \/ /\ ~lost /\ stState = "SyncingCheck"
              /\ \E u \in all : \E t \in far :
                    Apply(IF isSyncedReady(peers, u) THEN setSyncedReadyR(Now)
                          ELSE checkStartSyncing(Now, sealed + CheckNum, FALSE, t))
           \/ /\ ~lost /\ stState \in {"Init", "Configured", "SyncReady"}
              /\ Apply(Now)
        /\ UNCHANGED <<syncerVars, lastTick, sealed, has, ticks>>

ConfigLoaded ==
    /\ stState = "Init"
    /\ stState' = "LocalConfigured"
    /\ UNCHANGED <<syncerVars, stPeers, stEvents, lastTick, sealed, forward, has, reqC, ticks>>

onPeerDisconnected(p) ==
    /\ ticks > 0 /\ p \in DOMAIN stPeers
    /\ ticks' = ticks - 1
    /\ stPeers' = [q \in DOMAIN stPeers \ {p} |-> stPeers[q]]
    /\ stState' = IF stState \in {"Synced", "SyncingCheck"} /\ ~enoughPeers(stPeers')
                  THEN "WaitNetworkReady" ELSE stState
    /\ UNCHANGED <<syncerVars, stEvents, lastTick, sealed, forward, has, reqC>>

stateEvent ==
    /\ \/ \E h \in 1..(TopHeight + 1) :
             /\ <<"SyncReadyTimeout", h>> \in stEvents
             /\ Apply([Now EXCEPT !.events = @ \ {<<"SyncReadyTimeout", h>>},
                                  !.state = IF @ = "SyncReady" THEN "Synced" ELSE @])
       \/ /\ <<"SyncDone", 0>> \in stEvents
          /\ Apply(setSyncedReadyR([Now EXCEPT !.events = @ \ {<<"SyncDone", 0>>}]))
    /\ UNCHANGED <<syncerVars, stPeers, lastTick, sealed, has, ticks>>

(* restartSyncing of the consensus loops.                                    *)
forceCheckSync ==
    /\ ticks > 0 /\ stReady
    /\ ticks' = ticks - 1
    /\ \E t \in Tallies(stPeers, sealed + 1) : Apply(checkStartSyncing(Now, sealed, TRUE, t))
    /\ UNCHANGED <<syncerVars, stPeers, lastTick, sealed, has>>

onSyncLiveTick ==
    /\ ticks > 0
    /\ ticks' = ticks - 1
    /\ IF sealed > lastTick \/ lastTick = 0
       THEN lastTick' = sealed /\ Apply(Now)
       ELSE /\ UNCHANGED lastTick
            /\ IF stState \in {"Synced", "SyncReady"}
               THEN \E t \in Tallies(stPeers, sealed) : \E t2 \in Tallies(stPeers, sealed + 1) : Apply(catchUp(Now, t, t2))
               ELSE Apply(Now)
    /\ UNCHANGED <<syncerVars, stPeers, sealed, has>>

(* Blocks that reach the chain some other way: a round, or the queued        *)
(* FastForward over what the message pool holds.                             *)
roundSeals ==
    /\ stReady /\ sealed < Max({has[p] : p \in SyncPeers})
    /\ ticks > 0 /\ ticks' = ticks - 1
    /\ sealed' = sealed + 1
    /\ UNCHANGED <<syncerVars, stState, stPeers, stEvents, lastTick, forward, has, reqC>>

runFastForward ==
    /\ forward
    /\ IF sealed + 1 \in pooled THEN sealed' = sealed + 1 /\ UNCHANGED forward
       ELSE forward' = FALSE /\ UNCHANGED sealed
    /\ UNCHANGED <<syncerVars, stState, stPeers, stEvents, lastTick, has, reqC, ticks>>

peerAdvances(p) ==
    /\ has[p] < top
    /\ has' = [has EXCEPT ![p] = @ + 1]
    /\ UNCHANGED <<syncerVars, stState, stPeers, stEvents, lastTick, sealed, forward, reqC, ticks>>

----------------------------------------------------------------------------
(* The syncer.                                                               *)
NewInstance(n, t) == [next |-> n, target |-> t, active |-> FALSE, phase |-> "none",
                      infos |-> {}, box |-> <<>>]

Current(p) == Last(ps[p])
Known(p)   == ps[p] # <<>>

(* startPeerSyncer raises the target, and starts a goroutine if the          *)
(* PeerSyncer is not active.                                                 *)
startPeerSyncer(i, t) ==
    LET j == [i EXCEPT !.target = Max({@, t})]
    IN  IF j.target >= j.next /\ ~j.active
        THEN [j EXCEPT !.active = TRUE, !.phase = "run"] ELSE j

(* onNewBlockSyncReq: an inactive PeerSyncer is replaced by a new one, which *)
(* starts where the old one was if that is further on.                       *)
onNewBlockSyncReq(req, start) ==
    LET next    == IF syncNext = 1 THEN start ELSE syncNext
        fresh(p) == ~Known(p) \/ ~Current(p).active
        from(p) == IF Known(p) THEN Max({next, Current(p).next}) ELSE next
    IN  IF req.target <= syncTarget THEN UNCHANGED <<syncNext, syncTarget, ps>>
        ELSE /\ \A p \in req.from : fresh(p) => Len(ps[p]) < MaxInstances
             /\ syncNext' = next
             /\ syncTarget' = req.target
             /\ ps' = [p \in SyncPeers |->
                   IF p \notin req.from THEN ps[p]
                   ELSE IF fresh(p)
                   THEN Append(ps[p], startPeerSyncer(NewInstance(from(p), req.target), req.target))
                   ELSE [ps[p] EXCEPT ![Len(ps[p])] = startPeerSyncer(@, req.target)]]

blockSyncReq ==
    /\ arrived = 0 /\ reqC # <<>>
    /\ reqC' = Tail(reqC)
    /\ LET req   == Head(reqC)
           start == Max({req.start, sealed + 1})
       IN  IF start > req.target THEN UNCHANGED <<syncNext, syncTarget, ps>>
           ELSE onNewBlockSyncReq(req, start)
    /\ UNCHANGED <<stState, stPeers, stEvents, lastTick, top, pooled, sealed, forward, has, arrived, blockC,
                   pending, net, trouble, ticks>>

(* syncMsgC: an answer goes to the PeerSyncer of the peer it comes from; one *)
(* that is not active any more gets nil.                                     *)
syncMsg(p) ==
    /\ arrived = 0 /\ net[p] # <<>>
    /\ net' = [net EXCEPT ![p] = Tail(@)]
    /\ ps' = [ps EXCEPT ![p][Len(ps[p])].box =
                 Append(@, IF Current(p).active THEN Head(net[p]) ELSE [kind |-> "nil", num |-> 0, upto |-> 0])]
    /\ UNCHANGED <<stState, stPeers, stEvents, lastTick, top, pooled, sealed, forward, has, reqC, syncNext,
                   syncTarget, arrived, blockC, pending, trouble, ticks>>

loseAnswer(p) ==
    /\ net[p] # <<>> /\ ticks > 0
    /\ net' = [net EXCEPT ![p] = Tail(@)]
    /\ ticks' = ticks - 1
    /\ UNCHANGED <<stState, stPeers, stEvents, lastTick, top, pooled, sealed, forward, has, reqC, syncNext,
                   syncTarget, arrived, blockC, pending, ps, trouble>>

\* Mutant: a height is looked at only when the first copy of its block arrives.
blockFromPeerOnce ==
    /\ arrived = 0 /\ blockC # <<>>
    /\ blockC' = Tail(blockC)
    /\ LET b == Head(blockC)
       IN  IF b.num < syncNext THEN UNCHANGED <<pending, arrived>>
           ELSE /\ pending' = [pending EXCEPT ![b.num] = @ \cup {b.from}]
                /\ arrived' = IF b.num = syncNext /\ pending[b.num] = {} THEN b.num ELSE 0
    /\ UNCHANGED <<stState, stPeers, stEvents, lastTick, top, pooled, sealed, forward, has, reqC, syncNext,
                   syncTarget, ps, net, trouble, ticks>>

blockFromPeer ==
    /\ arrived = 0 /\ blockC # <<>>
    /\ blockC' = Tail(blockC)
    /\ LET b == Head(blockC)
       IN  IF b.num < syncNext THEN UNCHANGED <<pending, arrived>>
           ELSE /\ pending' = [pending EXCEPT ![b.num] = @ \cup {b.from}]
                /\ arrived' = IF b.num = syncNext THEN b.num ELSE 0
    /\ UNCHANGED <<stState, stPeers, stEvents, lastTick, top, pooled, sealed, forward, has, reqC, syncNext,
                   syncTarget, ps, net, trouble, ticks>>

(* blockConsensusDone and blockCheckMerkleRoot, of blocks that agree.        *)
blockConsensusDone(h) == Cardinality(pending[h]) > SyncC

(* A turn of the loop over the blocks that are ready.  A block the chain has *)
(* already is compared with the state root of the block that has just        *)
(* arrived, which is its own only on the first turn.  fastForwardBlock       *)
(* refuses a block while the server is active.                               *)
sealPending ==
    LET local   == syncNext <= sealed
        refusal == IF local /\ syncNext # arrived THEN {"merkle root of another height"}
                   ELSE IF stActive THEN {"server is active"}
                   ELSE IF syncNext > sealed + 1 THEN {"future block"} ELSE {}
        ready   == syncNext <= syncTarget /\ (local \/ blockConsensusDone(syncNext))
    IN  /\ arrived # 0
        /\ \/ /\ ready /\ refusal = {}
              /\ sealed' = Max({sealed, syncNext})
              /\ pending' = [pending EXCEPT ![syncNext] = {}]
              /\ syncNext' = syncNext + 1
              /\ UNCHANGED <<stEvents, syncTarget, arrived, ps, trouble>>
           \/ /\ syncNext <= syncTarget /\ ~(ready /\ refusal = {})
              /\ arrived' = 0
              /\ trouble' = IF ready THEN trouble \cup refusal ELSE trouble
              /\ UNCHANGED <<stEvents, sealed, pending, syncNext, syncTarget, ps>>
           \/ /\ syncNext > syncTarget
              /\ stEvents' = stEvents \cup {<<"SyncDone", 0>>}
              /\ ps' = [p \in SyncPeers |->
                           IF Known(p) THEN [ps[p] EXCEPT ![Len(ps[p])].active = FALSE] ELSE ps[p]]
              /\ syncNext' = 1 /\ syncTarget' = 0
              /\ arrived' = 0
              /\ UNCHANGED <<sealed, pending, trouble>>
        /\ UNCHANGED <<stState, stPeers, lastTick, top, pooled, forward, has, reqC, blockC, net, ticks>>

----------------------------------------------------------------------------
(* PeerSyncer.run, of the k-th PeerSyncer of peer p.                         *)
Become(p, k, i) == ps' = [ps EXCEPT ![p][k] = i]
Ask(p, a) == net' = [net EXCEPT ![p] = Append(@, a)]
Quit(i)   == [i EXCEPT !.phase = "none", !.active = FALSE]
Deliver(p, k, i) ==
    /\ Become(p, k, [i EXCEPT !.next = @ + 1, !.phase = "run"])
    /\ blockC' = Append(blockC, [from |-> p, num |-> i.next])

peerSyncerRun(p, k) ==
    LET i == ps[p][k]
    IN  /\ i.phase = "run"
        /\ \/ /\ i.next > i.target
              /\ Become(p, k, [i EXCEPT !.phase = "end"])
              /\ UNCHANGED <<blockC, net>>
           \/ /\ i.next <= i.target /\ i.next \notin i.infos
              /\ Ask(p, [kind |-> "info", num |-> i.next, upto |-> has[p]])
              /\ Become(p, k, [i EXCEPT !.phase = "info"])
              /\ UNCHANGED blockC
           \/ /\ i.next <= i.target /\ i.next \in i.infos /\ i.next <= sealed
              /\ Deliver(p, k, i)
              /\ UNCHANGED net
           \/ /\ i.next <= i.target /\ i.next \in i.infos /\ i.next > sealed
              /\ IF i.next <= has[p] THEN Ask(p, [kind |-> "block", num |-> i.next, upto |-> i.next]) ELSE UNCHANGED net
              /\ Become(p, k, [i EXCEPT !.phase = "block"])
              /\ UNCHANGED blockC
        /\ UNCHANGED <<stState, stPeers, stEvents, lastTick, top, pooled, sealed, forward, has, reqC, syncNext,
                       syncTarget, arrived, pending, trouble, ticks>>

(* The loop is over; stop(false) looks at the target again.                  *)
peerSyncerStop(p, k) ==
    LET i == ps[p][k]
    IN  /\ i.phase = "end"
        /\ Become(p, k, IF i.next > i.target THEN Quit(i) ELSE [i EXCEPT !.phase = "none"])
        /\ trouble' = IF i.next > i.target THEN trouble ELSE trouble \cup {"active without a goroutine"}
        /\ UNCHANGED <<stState, stPeers, stEvents, lastTick, top, pooled, sealed, forward, has, reqC, syncNext,
                       syncTarget, arrived, blockC, pending, net, ticks>>

(* requestBlockInfo and requestBlock take the next answer, whatever it       *)
(* answers, or time out.  The number of a block that arrives is not looked   *)
(* at: it is delivered as it is, and the PeerSyncer moves on.                *)
peerSyncerAnswer(p, k) ==
    LET i == ps[p][k]
        a == Head(i.box)
        j == [i EXCEPT !.box = Tail(@)]
    IN  /\ i.phase \in {"info", "block"} /\ i.box # <<>>
        /\ \/ /\ i.phase = "info" /\ a.kind = "info" /\ i.next \in a.num..a.upto
              /\ Become(p, k, [j EXCEPT !.infos = @ \cup (a.num..a.upto), !.phase = "run"])
              /\ UNCHANGED <<blockC, trouble>>
           \/ /\ i.phase = "block" /\ a.kind = "block"
              /\ Become(p, k, [j EXCEPT !.next = @ + 1, !.phase = "run"])
              /\ blockC' = Append(blockC, [from |-> p, num |-> a.num])
              /\ trouble' = IF a.num = i.next THEN trouble ELSE trouble \cup {"answer to another request"}
           \/ /\ a.kind # i.phase \/ (i.phase = "info" /\ i.next \notin a.num..a.upto)
              /\ Become(p, k, Quit(j))
              /\ trouble' = trouble \cup {"answer to another request"}
              /\ UNCHANGED blockC
        /\ UNCHANGED <<stState, stPeers, stEvents, lastTick, top, pooled, sealed, forward, has, reqC, syncNext,
                       syncTarget, arrived, pending, net, ticks>>

peerSyncerTimeout(p, k) ==
    LET i == ps[p][k]
    IN  /\ i.phase \in {"info", "block"} /\ i.box = <<>>
        /\ ticks > 0 /\ ticks' = ticks - 1
        /\ Become(p, k, Quit(i))
        /\ trouble' = trouble \cup {"timeout"}
        /\ UNCHANGED <<stState, stPeers, stEvents, lastTick, top, pooled, sealed, forward, has, reqC, syncNext,
                       syncTarget, arrived, blockC, pending, net>>

SyncInit ==
    /\ stState = "Init" /\ stPeers = <<>> /\ stEvents = {} /\ lastTick = 0
    /\ sealed = 0 /\ forward = FALSE
    /\ reqC = <<>> /\ syncNext = 1 /\ syncTarget = 0 /\ arrived = 0 /\ blockC = <<>>
    /\ pending = [h \in SyncHeights |-> {}]
    /\ ps = [p \in SyncPeers |-> <<>>]
    /\ net = [p \in SyncPeers |-> <<>>]
    /\ trouble = {}
    /\ \E c \in Cases : has = c.has /\ top = c.top /\ pooled = c.pooled /\ ticks = c.ticks

SyncNext ==
    \/ ConfigLoaded
    \/ \E p \in SyncPeers :
          \/ onPeerUpdate(p)
          \/ onPeerDisconnected(p)
          \/ peerAdvances(p)
          \/ syncMsg(p)
          \/ loseAnswer(p)
          \/ \E k \in DOMAIN ps[p] :
                \/ peerSyncerRun(p, k)
                \/ peerSyncerStop(p, k)
                \/ peerSyncerAnswer(p, k)
                \/ peerSyncerTimeout(p, k)
    \/ stateEvent
    \/ forceCheckSync
    \/ onSyncLiveTick
    \/ roundSeals
    \/ runFastForward
    \/ blockSyncReq
    \/ blockFromPeer
    \/ sealPending

SyncTypeOK ==
    /\ stState \in Range(StateOrder)
    /\ DOMAIN stPeers \subseteq SyncPeers
    /\ sealed \in 0..TopHeight
    /\ syncNext \in 1..(TopHeight + 1) /\ syncTarget \in 0..TopHeight
    /\ \A p \in SyncPeers : \A k \in DOMAIN ps[p] :
          ps[p][k].phase \in {"none", "run", "end", "info", "block"}

(* Nothing is on its way to the syncer and no PeerSyncer is at work.         *)
SyncQuiet ==
    /\ reqC = <<>> /\ arrived = 0 /\ blockC = <<>>
    /\ \A p \in SyncPeers : \A k \in DOMAIN ps[p] : ps[p][k].phase = "none"

(* node_sync.go never asks twice for a block: a PeerSyncer fetches each      *)
(* height once, and the syncer looks at a height only when a block of it     *)
(* arrives.  Nothing must therefore be lost between them: when everything    *)
(* has come to rest short of the target, then a peer did not answer in time, *)
(* an answer met the wrong request, a finished goroutine was taken for a     *)
(* running one, or a block was refused.                                      *)
SyncCompletes == SyncQuiet /\ trouble = {} => syncNext > syncTarget
=============================================================================
