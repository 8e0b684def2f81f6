----------------------------- MODULE VbftServer -----------------------------
(* One VBFT server (consensus/vbft/service.go) and its goroutines.  The      *)
(* message loop (processMsgEvent), the action loop, the timer loop, the      *)
(* state manager and the syncer share the block pool, the message pool and   *)
(* the current height, and each takes the pool's lock for one call at a      *)
(* time.  A handler is therefore a list of calls, `todo`, and any other      *)
(* goroutine may run between two of them: between the check in endorseBlock  *)
(* or commitBlock and the call that records the signature, between sealing a *)
(* block and moving to the next height.  The other servers are the           *)
(* environment: its messages arrive in any order, or never.                  *)
EXTENDS VbftBlockPool

CONSTANTS
    Self,          \* Server.Index
    Order,         \* Order[h]: the peers as the VRF of block h-1 draws them
    Scenarios,     \* how the server starts and what its environment may do: see SrvInit
    NetBlocks,     \* NetBlocks[h]: the blocks of height h the syncer can fetch
    InitConnected, \* the peers heard of when the round starts
    MaxHeight      \* bound: heights decided

VARIABLES
    cur,        \* currentBlockNum
    chain,      \* the sealed blocks, by height
    fetched,    \* the heights whose block came from the syncer
    roleNum,    \* currentParticipantConfig.BlockNum
    srvState,   \* StateMgr.currentState
    connected,  \* peerPool: the peers a message has come from
    pool,       \* msgPool: proposals and endorsements
    poolC,      \* msgPool: commits, in the order they came
    cand,       \* blockPool.candidateBlocks
    msgC, actionC, timerC, stateC,      \* the channels
    timers,     \* running timers, <<event, height>>
    verifying,  \* proposals whose transactions the pool is verifying
    todo,       \* what each goroutine has still to do in its handler
    sent,       \* messages this server has broadcast
    env         \* what is left of the scenario

srvVars == <<cur, chain, fetched, roleNum, srvState, connected, pool, poolC, cand,
             msgC, actionC, timerC, stateC, timers, verifying, todo, sent, env>>

Heights == 1..MaxHeight
AllHeights == 1..(MaxHeight + 1)
Loops == {"msg", "action", "timer", "state", "sync"}
Roles == [h \in AllHeights |-> calcParticipantPeers(Order[h])]

proposalMsg(h, p, prev, txs) ==
    [type |-> "proposal", num |-> h, from |-> p, proposer |-> p, prev |-> prev, txs |-> txs]
blockHash(m, e) == <<m.proposer, m.txs, e>>
endorseMsg(m, from, e) ==
    [type |-> "endorse", num |-> m.num, from |-> from, proposer |-> m.proposer,
     empty |-> e, hash |-> blockHash(m, e)]
commitMsg(m, from, e, sigs) ==
    [type |-> "commit", num |-> m.num, from |-> from, proposer |-> m.proposer,
     empty |-> e, hash |-> blockHash(m, e), sigs |-> sigs]

chained == Max({h \in DOMAIN chain : h = 0 \/ chain[h] # NoVBlock})
isReady  == srvState \in {"SyncReady", "Synced"}
isActive == srvState = "Synced"

isProposerAs(p, h) ==
    /\ p = Self => isActive
    /\ LeaderIs(Roles[h].Proposers, p, connected \cup {Self})
isProposer(p)   == isProposerAs(p, roleNum)
rankOf(h, p)    == IF h = roleNum THEN ProposerRank(Roles[h].Proposers, p) ELSE C + 1
is2ndProposer(h) == rankOf(h, Self) \in 1..C
isEndorserAs(p, h)  == AmongActive(Roles[h].Endorsers, p, connected \cup {Self})
isCommitterAs(p, h) == AmongActive(Roles[h].Committers, p, connected \cup {Self})
isEndorser(p)   == isEndorserAs(p, roleNum)
isCommitter(p)  == isCommitterAs(p, roleNum)
endorserSet(h)  == {p \in VPeers : isEndorserAs(p, h)}

poolProposals(h) == {m \in pool : m.type = "proposal" /\ m.num = h}
poolEndorses(h)  == {m \in pool : m.type = "endorse" /\ m.num = h}

endorsedForBlock(c, h)  == chained >= h \/ c.Endorsed # NoPeer \/ c.EndorsedEmpty # NoPeer
committedForBlock(c, h) == chained >= h \/ c.Committed # NoVBlock

findBlockProposal(c, h, p) ==
    LET inPool == {m \in c.Proposals : m.proposer = p}
    IN  IF inPool # {} THEN inPool ELSE {m \in poolProposals(h) : m.proposer = p}

getHighestRankProposal(h, ms) ==
    {m \in ms : \A o \in ms : rankOf(h, m.proposer) <= rankOf(h, o.proposer)}

verifyPrevBlockHash(m) == chain[m.num - 1] = m.prev

----------------------------------------------------------------------------
(* The calls a handler makes.                                                *)

(* Up to the check; what remains is to record the endorsement and send it.   *)
endorseBlock(c, m, forEmpty) ==
    IF \/ m.proposer = Self
       \/ ~forEmpty /\ endorsedForBlock(c, m.num)
       \/ forEmpty /\ c.EndorsedEmpty # NoPeer
    THEN <<>>
    ELSE <<[op |-> "endorse", m |-> m, empty |-> forEmpty \/ endorseFailed(c)]>>

commitBlock(c, m, forEmpty) ==
    IF m.proposer = Self \/ committedForBlock(c, m.num) THEN <<>>
    ELSE <<[op |-> "commit", m |-> m, empty |-> forEmpty,
            sigs |-> {e.from : e \in {x \in poolEndorses(m.num) :
                                        x.hash = blockHash(m, forEmpty)}}]>>

makeSealed(m, e, stop) == [op |-> "seal", m |-> m, empty |-> e, stop |-> stop]

processConsensusMsg(m) == msgC' = IF isReady THEN Append(msgC, m) ELSE msgC

processProposalMsg(m, pl) ==
    IF ~verifyPrevBlockHash(m)
    THEN pool' = pl \ {m} /\ UNCHANGED <<verifying, msgC>>
    ELSE /\ pool' = pl
         /\ IF m.txs THEN verifying' = verifying \cup {m} /\ UNCHANGED msgC
            ELSE UNCHANGED verifying /\ processConsensusMsg(m)

makeProposal(h, forEmpty) ==
    IF h < cur THEN UNCHANGED <<pool, verifying, msgC, sent>>
    ELSE LET m == proposalMsg(h, Self, chain[h - 1], ~forEmpty)
         IN  sent' = sent \cup {m} /\ processProposalMsg(m, pool \cup {m})

restartSyncing == stateC' = stateC \cup {<<"ForceCheckSync", 0>>}

Do(g, steps) == todo' = [todo EXCEPT ![g] = steps \o @]
Done(g)      == todo' = [todo EXCEPT ![g] = Tail(@)]

(* setProposalEndorsed checks again, under the lock, then the message goes   *)
(* to the server's own loop and to the others.                               *)
setProposalEndorsed(c, m, e) ==
    /\ c.present
    /\ IF e THEN c.EndorsedEmpty = NoPeer ELSE c.Endorsed \in {NoPeer, m.proposer}

sendEndorse(g, s) ==
    LET c   == cand[s.m.num]
        msg == endorseMsg(s.m, Self, s.empty)
    IN  /\ Done(g)
        /\ IF ~setProposalEndorsed(c, s.m, s.empty)
           THEN UNCHANGED <<cand, msgC, pool, sent, timers>>
           ELSE /\ cand' = [cand EXCEPT ![s.m.num] =
                    IF s.empty THEN [c EXCEPT !.EndorsedEmpty = s.m.proposer]
                    ELSE [c EXCEPT !.Endorsed = s.m.proposer]]
                /\ processConsensusMsg(msg)
                /\ IF s.empty \/ isEndorser(Self)
                   THEN pool' = pool \cup {msg} /\ sent' = sent \cup {msg} /\ UNCHANGED timers
                   ELSE timers' = timers \cup {<<"endorse", s.m.num>>} /\ UNCHANGED <<pool, sent>>
        /\ UNCHANGED <<cur, chain, fetched, roleNum, srvState, connected, poolC, actionC, timerC,
                       stateC, verifying, env>>

(* Mutant: whether a commit was signed before is not looked at.              *)
setProposalCommittedBlind(c) == c.present

setProposalCommitted(c) == c.present /\ c.Committed = NoVBlock

sendCommit(g, s) ==
    LET c   == cand[s.m.num]
        msg == commitMsg(s.m, Self, s.empty, s.sigs)
    IN  /\ IF ~setProposalCommitted(c)
           THEN /\ todo' = [todo EXCEPT ![g] =
                        IF Len(@) > 1 /\ @[2].op = "failed?" THEN SubSeq(@, 3, Len(@)) ELSE Tail(@)]
                /\ UNCHANGED <<cand, msgC, poolC, sent, timers>>
           ELSE /\ Done(g)
                /\ cand' = [cand EXCEPT ![s.m.num].Committed = <<s.m.proposer, s.empty>>]
                /\ processConsensusMsg(msg)
                /\ IF s.empty \/ isCommitter(Self)
                   THEN /\ poolC' = [poolC EXCEPT ![s.m.num] = Append(@, msg)]
                        /\ sent' = sent \cup {msg} /\ UNCHANGED timers
                   ELSE timers' = timers \cup {<<"commit", s.m.num>>} /\ UNCHANGED <<poolC, sent>>
        /\ UNCHANGED <<cur, chain, fetched, roleNum, srvState, connected, pool, actionC, timerC,
                       stateC, verifying, env>>

(* The end of the handler of an endorsement.                                 *)
checkFailed(g, s) ==
    /\ Done(g)
    /\ timerC' = IF endorseFailed(cand[s.num]) THEN timerC \cup {<<"endorse", s.num>>} ELSE timerC
    /\ UNCHANGED <<cur, chain, fetched, roleNum, srvState, connected, pool, poolC, cand, msgC,
                   actionC, stateC, timers, verifying, sent, env>>

(* makeSealed hands the block to the action loop; the handler of a commit    *)
(* has stopped the commit timer first.                                       *)
queueSeal(g, s) ==
    /\ Done(g)
    /\ timers' = IF s.stop THEN timers \ {<<"commit", s.m.num>>} ELSE timers
    /\ IF verifyPrevBlockHash(s.m)
       THEN /\ actionC' = Append(actionC, [type |-> "SealBlock", num |-> s.m.num, m |-> s.m,
                                           empty |-> s.empty])
            /\ UNCHANGED stateC
       ELSE restartSyncing /\ UNCHANGED actionC
    /\ UNCHANGED <<cur, chain, fetched, roleNum, srvState, connected, pool, poolC, cand, msgC,
                   timerC, verifying, sent, env>>

(* sealBlock up to setBlockSealed.  A height sealed with another proposer's  *)
(* block is an error; with the same one it is done already.                  *)
CanSeal(h, p) ==
    h = cur /\ (cand[h].SealedBlock = NoVBlock \/ cand[h].SealedBlock[1] = p)

setBlockSealed(h, p, e, sync) ==
    IF cand[h].SealedBlock # NoVBlock THEN UNCHANGED <<cand, chain, fetched>>
    ELSE /\ cand' = [cand EXCEPT ![h].SealedBlock = <<p, e>>, ![h].present = TRUE]
         /\ chain' = [chain EXCEPT ![h] = <<p, e>>]
         /\ fetched' = IF sync THEN fetched \cup {h} ELSE fetched

(* The rest of sealBlock, and what its caller does next: sealProposal starts *)
(* a round, or fast-forwards if the next height already has its commits.     *)
hasBlockConsensused(h) ==
    LET of(p) == {i \in DOMAIN poolC[h] : poolC[h][i].proposer = p}
    IN  \/ \E p \in VPeers : Cardinality(of(p)) > C
        \/ Cardinality({i \in DOMAIN poolC[h] : poolC[h][i].empty}) > C

onBlockSealed(g, s) ==
    LET next == Max({cur, s.num + 1})
    IN  /\ timers' = {t \in timers : t[2] # s.num}
        /\ cur' = next
        /\ \/ /\ s.then = "round" /\ hasBlockConsensused(next)
              /\ actionC' = Append(actionC, [type |-> "FastForward", num |-> next])
              /\ Done(g)
           \/ /\ s.then = "round" /\ ~hasBlockConsensused(next)
              /\ todo' = [todo EXCEPT ![g] = <<[op |-> "round"]>> \o Tail(@)]
              /\ UNCHANGED actionC
           \/ s.then = "return" /\ Done(g) /\ UNCHANGED actionC
        /\ UNCHANGED <<chain, fetched, roleNum, srvState, connected, pool, poolC, cand, msgC,
                       timerC, stateC, verifying, sent, env>>

(* startNewRound: what the message pool already holds for the height goes to *)
(* the block pool, and the last stage it reaches is taken up again.  An      *)
(* endorser's full and empty endorsements are in the pool in either order.   *)
withPool(h, ms, emptyFirst) ==
    LET add(c, e) == FoldSet(LAMBDA m, d : newBlockEndorsement(d, m), c,
                             {m \in poolEndorses(h) : m.empty = e})
        proposed  == FoldSet(LAMBDA m, d : newBlockProposal(d, m), cand[h], ms)
    IN  FoldLeft(newBlockCommitment, add(add(proposed, emptyFirst), ~emptyFirst), poolC[h])

startRound(g, emptyFirst) ==
    LET leading == {m \in poolProposals(cur) : isProposerAs(m.proposer, cur)}
        c       == withPool(cur, poolProposals(cur) \ leading, emptyFirst)
        decided == poolC[cur] # <<>> /\ commitDone(c, endorserSet(cur)) # {}
        agreed  == poolEndorses(cur) # {} /\ endorseDone(c) # {}
    IN  /\ cur <= env.heights
        /\ Done(g)
        /\ roleNum' = cur
        /\ cand' = [cand EXCEPT ![cur] = IF decided THEN [c EXCEPT !.commitDone = TRUE] ELSE c]
        /\ \/ /\ decided
              /\ processConsensusMsg(poolC[cur][1])
              /\ UNCHANGED <<pool, verifying, timers>>
           \/ /\ ~decided /\ agreed
              /\ \E m \in poolEndorses(cur) : processConsensusMsg(m)
              /\ UNCHANGED <<pool, verifying, timers>>
           \/ /\ ~decided /\ ~agreed
              /\ \E m \in leading : processProposalMsg(m, pool)
              /\ UNCHANGED timers
           \/ /\ ~decided /\ ~agreed /\ leading = {}
              /\ timers' = timers \cup {<<"txpool", cur>>, <<"txblock", cur>>}
              /\ UNCHANGED <<pool, verifying, msgC>>
        /\ UNCHANGED <<cur, chain, fetched, srvState, connected, poolC, actionC, timerC, stateC,
                       sent, env>>

startNewRound(g) == \E emptyFirst \in BOOLEAN : startRound(g, emptyFirst)

(* catchConsensus: join the round where the endorsements or the commits of   *)
(* the message pool have it.  Of the commits it takes the last one's block.  *)
catchConsensus(c, h) ==
    LET es       == poolEndorses(h)
        of(p)    == Cardinality({m \in es : m.proposer = p})
        most     == {p \in VPeers : of(p) > 0 /\ \A q \in VPeers : of(q) <= of(p)}
        empties  == Cardinality({m \in es : m.empty}) > C
        enough   == Cardinality(es) > C
        done     == enough /\ (empties \/ \E p \in VPeers : of(p) > C)
        voted    == IF enough THEN {m \in poolProposals(h) : m.proposer \in most} ELSE {}
        lastC    == {m \in poolProposals(h) : poolC[h] # <<>> /\ m.proposer = Last(poolC[h]).proposer}
        anyEmpty == \E i \in DOMAIN poolC[h] : poolC[h][i].empty
    IN  {[process |-> {m \in ms : isProposerAs(m.proposer, h)},
          steps |-> IF isEndorserAs(Self, h) /\ ~done
                    THEN IF ms = {} THEN <<>>
                         ELSE endorseBlock(c, CHOOSE m \in ms : TRUE, FALSE)
                    ELSE IF done /\ isCommitterAs(Self, h) /\ lastC # {}
                         THEN commitBlock(c, CHOOSE m \in lastC : TRUE, anyEmpty)
                         ELSE <<>>]
          : ms \in IF voted = {} THEN {{}} ELSE {{m} : m \in voted}}

(* One turn of the loop of the action FastForward.                           *)
fastForward(g) ==
    LET withProposals == FoldSet(LAMBDA m, c : newBlockProposal(c, m), cand[cur], poolProposals(cur))
        c       == FoldLeft(newBlockCommitment, withProposals, poolC[cur])
        counted == SelectSeq(poolC[cur], LAMBDA m : ~DupCommit(c, m))
        decided == getCommitConsensus(counted)
        chosen  == {m \in poolProposals(cur) : m.proposer = decided[1]}
    IN  /\ cur <= env.heights
        /\ roleNum' = cur
        /\ \/ /\ poolProposals(cur) = {} /\ poolC[cur] = <<>>
              /\ todo' = [todo EXCEPT ![g] = <<[op |-> "round"]>> \o Tail(@)]
              /\ UNCHANGED <<cand, chain, fetched, pool, verifying, msgC, timers>>
           \/ /\ poolProposals(cur) # {} \/ poolC[cur] # <<>>
              /\ decided = NoVBlock
              /\ cand' = [cand EXCEPT ![cur] = c]
              /\ \E r \in catchConsensus(c, cur) :
                    /\ todo' = [todo EXCEPT ![g] = r.steps \o Tail(@)]
                    /\ IF r.process = {} THEN UNCHANGED <<pool, verifying, msgC>>
                       ELSE \E m \in r.process : processProposalMsg(m, pool)
              /\ UNCHANGED <<chain, fetched, timers>>
           \/ /\ decided # NoVBlock /\ chosen = {}
              /\ cand' = [cand EXCEPT ![cur] = c]
              /\ timers' = timers \cup {<<"commit", cur>>}
              /\ Done(g)
              /\ UNCHANGED <<chain, fetched, pool, verifying, msgC>>
           \/ /\ decided # NoVBlock /\ chosen # {}
              /\ IF CanSeal(cur, decided[1])
                 THEN /\ IF cand[cur].SealedBlock # NoVBlock
                         THEN cand' = [cand EXCEPT ![cur] = c] /\ UNCHANGED <<chain, fetched>>
                         ELSE /\ cand' = [cand EXCEPT ![cur] = [c EXCEPT !.SealedBlock = decided]]
                              /\ chain' = [chain EXCEPT ![cur] = decided]
                              /\ UNCHANGED fetched
                      /\ todo' = [todo EXCEPT ![g] =
                            <<[op |-> "sealed", num |-> cur, then |-> "return"]>> \o @]
                 ELSE Done(g) /\ cand' = [cand EXCEPT ![cur] = c] /\ UNCHANGED <<chain, fetched>>
              /\ UNCHANGED <<pool, verifying, msgC, timers>>
        /\ UNCHANGED <<cur, srvState, connected, poolC, actionC, timerC, stateC, sent, env>>

(* The action ReBroadcast of a round that does not move: what was signed is  *)
(* sent again, and what was not is signed now.                               *)
reBroadcast(g) ==
    LET c    == cand[cur]
        own  == {m \in poolEndorses(cur) : m.from = Self /\ m.empty = endorseFailed(c)}
        best == getHighestRankProposal(cur, poolProposals(cur))
        next == <<[op |-> "recommit", num |-> cur]>>
        past == IF c.EndorsedEmpty # NoPeer THEN <<c.EndorsedEmpty, TRUE>> ELSE <<c.Endorsed, FALSE>>
    IN  \/ /\ isEndorser(Self) /\ (own # {} \/ best = {})
           /\ Do(g, next) /\ UNCHANGED sent
        \/ /\ isEndorser(Self) /\ own = {}
           /\ \E m \in best : Do(g, endorseBlock(c, m, FALSE) \o next)
           /\ UNCHANGED sent
        \/ /\ ~isEndorser(Self)
           /\ sent' = sent \cup {endorseMsg(m, Self, past[2]) : m \in
                                   {p \in c.Proposals : p.proposer = past[1]}}
           /\ Do(g, next)

reCommit(g, s) ==
    LET c    == cand[s.num]
        mine == \E i \in DOMAIN poolC[s.num] : poolC[s.num][i].from = Self
    IN  /\ \/ /\ ~isCommitter(Self) \/ mine
              /\ Done(g) /\ UNCHANGED <<timers, timerC>>
           \/ /\ isCommitter(Self) /\ ~mine
              /\ \E r \in endorseDone(c) :
                    \/ /\ findBlockProposal(c, s.num, r[1]) = {}
                       /\ timers' = timers \cup {<<"endorse", s.num>>} /\ Done(g)
                    \/ /\ \E p \in findBlockProposal(c, s.num, r[1]) :
                             todo' = [todo EXCEPT ![g] = commitBlock(c, p, r[2]) \o Tail(@)]
                       /\ UNCHANGED timers
              /\ UNCHANGED timerC
           \/ /\ isCommitter(Self) /\ ~mine /\ endorseDone(c) = {}
              /\ timerC' = IF endorseFailed(c) THEN timerC \cup {<<"endorse", s.num>>} ELSE timerC
              /\ Done(g) /\ UNCHANGED timers
        /\ UNCHANGED <<cur, chain, fetched, roleNum, srvState, connected, pool, poolC, cand, msgC,
                       actionC, stateC, verifying, sent, env>>

(* A goroutine makes the next call of its handler.                           *)
Step(g) ==
    /\ todo[g] # <<>>
    /\ LET s == Head(todo[g])
       IN  \/ s.op = "endorse" /\ sendEndorse(g, s)
           \/ s.op = "commit"  /\ sendCommit(g, s)
           \/ s.op = "failed?" /\ checkFailed(g, s)
           \/ s.op = "seal"    /\ queueSeal(g, s)
           \/ s.op = "sealed"  /\ onBlockSealed(g, s)
           \/ s.op = "round"   /\ startNewRound(g)
           \/ s.op = "forward" /\ fastForward(g)
           \/ s.op = "recommit" /\ reCommit(g, s)

----------------------------------------------------------------------------
(* onConsensusMsg: messages of a later height wait in the message pool, of   *)
(* an earlier one are dropped.                                               *)
onConsensusMsg(m) ==
    /\ m \in env.msgs
    /\ env' = [env EXCEPT !.msgs = @ \ {m}]
    /\ connected' = connected \cup {m.from}
    /\ IF m.num < cur THEN UNCHANGED <<pool, poolC, verifying, msgC>>
       ELSE \/ /\ m.type = "proposal" /\ UNCHANGED poolC
               /\ IF m.num = cur THEN processProposalMsg(m, pool \cup {m})
                  ELSE pool' = pool \cup {m} /\ UNCHANGED <<verifying, msgC>>
            \/ /\ m.type # "proposal" /\ UNCHANGED verifying
               /\ IF m.type = "endorse" THEN pool' = pool \cup {m} /\ UNCHANGED poolC
                  ELSE poolC' = [poolC EXCEPT ![m.num] = Append(@, m)] /\ UNCHANGED pool
               /\ IF m.num = cur THEN processConsensusMsg(m) ELSE UNCHANGED msgC
    /\ UNCHANGED <<cur, chain, fetched, roleNum, srvState, cand, actionC, timerC, stateC, timers,
                   todo, sent>>

(* The goroutine of processProposalMsg: the pool accepts the transactions, or not. *)
VerifyBlock(m) ==
    /\ m \in verifying
    /\ verifying' = verifying \ {m}
    /\ processConsensusMsg(m) \/ UNCHANGED msgC
    /\ UNCHANGED <<cur, chain, fetched, roleNum, srvState, connected, pool, poolC, cand, actionC,
                   timerC, stateC, timers, todo, sent, env>>

(* processMsgEvent, by the type of the message.                              *)
onProposal(m) ==
    LET c == newBlockProposal(cand[m.num], m)
    IN  IF DupProposal(cand[m.num], m) THEN UNCHANGED <<cand, timers, todo>>
        ELSE /\ cand' = [cand EXCEPT ![m.num] = c]
             /\ IF isProposer(m.proposer) /\ verifyPrevBlockHash(m)
                THEN /\ timers' = timers \ {<<"propose", m.num>>}
                     /\ IF isEndorser(Self) THEN Do("msg", endorseBlock(c, m, FALSE))
                        ELSE UNCHANGED todo
                ELSE UNCHANGED <<timers, todo>>

onEndorse(m) ==
    LET c == newBlockEndorsement(cand[m.num], m)
        last == <<[op |-> "failed?", num |-> m.num]>>
    IN  /\ cand' = [cand EXCEPT ![m.num] = c]
        /\ IF committedForBlock(c, m.num)
           THEN timers' = timers \cup {<<"commit", m.num>>} /\ UNCHANGED todo
           ELSE IF isEndorser(m.from) /\ endorseDone(c) # {}
           THEN \E r \in endorseDone(c) :
                  /\ timers' = timers \ {<<"endorse", m.num>>}
                  /\ \/ /\ findBlockProposal(c, m.num, r[1]) = {} \/ ~isCommitter(Self)
                        /\ Do("msg", last)
                     \/ /\ isCommitter(Self)
                        /\ \E p \in findBlockProposal(c, m.num, r[1]) :
                              Do("msg", commitBlock(c, p, r[2]) \o last)
           ELSE Do("msg", last) /\ UNCHANGED timers

onCommit(m) ==
    LET c == newBlockCommitment(cand[m.num], m)
        done == commitDone(c, endorserSet(roleNum))
    IN  /\ UNCHANGED timers
        /\ IF DupCommit(cand[m.num], m) THEN UNCHANGED <<cand, todo>>
           ELSE IF done = {} THEN cand' = [cand EXCEPT ![m.num] = c] /\ UNCHANGED todo
           ELSE /\ cand' = [cand EXCEPT ![m.num] = [c EXCEPT !.commitDone = TRUE]]
                /\ \E r \in done :
                      \/ findBlockProposal(c, m.num, r[1]) = {} /\ UNCHANGED todo
                      \/ \E p \in findBlockProposal(c, m.num, r[1]) :
                            Do("msg", (IF isCommitter(Self) THEN commitBlock(c, p, r[2]) ELSE <<>>)
                                      \o <<makeSealed(p, r[2], TRUE)>>)

processMsgEvent ==
    /\ todo["msg"] = <<>> /\ msgC # <<>>
    /\ msgC' = Tail(msgC)
    /\ LET m == Head(msgC)
       IN  IF m.num # cur THEN UNCHANGED <<cand, timers, todo>>
           ELSE \/ m.type = "proposal" /\ onProposal(m)
                \/ m.type = "endorse" /\ onEndorse(m)
                \/ m.type = "commit" /\ onCommit(m)
    /\ UNCHANGED <<cur, chain, fetched, roleNum, srvState, connected, pool, poolC, actionC, timerC,
                   stateC, verifying, sent, env>>

(* The action loop.                                                          *)
onMakeProposal(a) ==
    /\ IF cur > a.num \/ \E m \in poolProposals(cur) : m.proposer = Self
       THEN UNCHANGED <<pool, verifying, msgC, sent>>
       ELSE makeProposal(cur, FALSE)
    /\ UNCHANGED <<todo, cand, chain, fetched>>

onSealBlock(a) ==
    /\ IF a.num = cur /\ CanSeal(cur, a.m.proposer)
       THEN /\ setBlockSealed(cur, a.m.proposer, a.empty, FALSE)
            /\ Do("action", <<[op |-> "sealed", num |-> cur, then |-> "round"]>>)
       ELSE UNCHANGED <<todo, cand, chain, fetched>>
    /\ UNCHANGED <<pool, verifying, msgC, sent>>

actionLoop ==
    /\ todo["action"] = <<>> /\ actionC # <<>> /\ cur <= env.heights
    /\ actionC' = Tail(actionC)
    /\ LET a == Head(actionC)
       IN  \/ a.type = "MakeProposal" /\ onMakeProposal(a)
           \/ /\ a.type = "EndorseBlock"
              /\ Do("action", endorseBlock(cand[a.num], a.m, FALSE))
              /\ UNCHANGED <<pool, verifying, msgC, sent, cand, chain, fetched>>
           \/ a.type = "SealBlock" /\ onSealBlock(a)
           \/ /\ a.type = "FastForward"
              /\ Do("action", <<[op |-> "forward"]>>)
              /\ UNCHANGED <<pool, verifying, msgC, sent, cand, chain, fetched>>
           \/ /\ a.type = "ReBroadcast"
              /\ IF cur > a.num THEN UNCHANGED <<todo, sent>> ELSE reBroadcast("action")
              /\ UNCHANGED <<pool, verifying, msgC, cand, chain, fetched>>
    /\ UNCHANGED <<cur, roleNum, srvState, connected, poolC, timerC, stateC, timers, env>>

----------------------------------------------------------------------------
(* Timers.  A timer that has gone off can no longer be cancelled.            *)
Expire(t) ==
    /\ t \in timers /\ env.timeouts > 0
    /\ timers' = timers \ {t}
    /\ timerC' = timerC \cup {t}
    /\ env' = [env EXCEPT !.timeouts = @ - 1]
    /\ UNCHANGED <<cur, chain, fetched, roleNum, srvState, connected, pool, poolC, cand, msgC,
                   actionC, stateC, verifying, todo, sent>>

(* What the handlers of the timer loop may change; each leaves the rest of it. *)
startNewProposal(h) ==
    /\ actionC' = IF isProposer(Self) THEN Append(actionC, [type |-> "MakeProposal", num |-> h])
                  ELSE actionC
    /\ timers' = (timers \ {<<"txpool", h>>, <<"txblock", h>>})
                 \cup (IF ~isProposer(Self) /\ is2ndProposer(h) THEN {<<"backoff", h>>} ELSE {})
                 \cup {<<"propose", h>>}
    /\ UNCHANGED <<pool, verifying, msgC, sent, stateC, cand, todo>>

handleProposalTimeout(type, h) ==
    LET ps == cand[h].Proposals
        best == getHighestRankProposal(h, ps)
        quiet == endorsedForBlock(cand[h], h) \/ ~isReady
    IN  /\ UNCHANGED <<cand, todo>>
        /\ \/ /\ quiet \/ (ps # {} /\ type = "random") \/ (\E m \in best : isProposer(m.proposer))
              /\ UNCHANGED <<actionC, timers, pool, verifying, msgC, sent, stateC>>
           \/ /\ ~quiet /\ ps = {} /\ type = "propose"
              /\ timers' = timers \cup {<<"random", h>>}
              /\ UNCHANGED <<actionC, pool, verifying, msgC, sent, stateC>>
           \/ /\ ~quiet /\ ps = {} /\ type = "random" /\ is2ndProposer(h)
              /\ makeProposal(h, TRUE)
              /\ timers' = IF h < cur THEN timers ELSE timers \cup {<<"2nd", h>>}
              /\ UNCHANGED <<actionC, stateC>>
           \/ /\ ~quiet /\ ps = {} /\ type = "random" /\ ~is2ndProposer(h)
              /\ UNCHANGED <<actionC, timers, pool, verifying, msgC, sent, stateC>>
           \/ /\ ~quiet /\ ps = {} /\ type = "2nd"
              /\ restartSyncing
              /\ UNCHANGED <<actionC, timers, pool, verifying, msgC, sent>>
           \/ /\ ~quiet /\ type # "random"
              /\ \E m \in best :
                    /\ ~isProposer(m.proposer)
                    /\ actionC' = Append(actionC, [type |-> "EndorseBlock", num |-> h, m |-> m])
              /\ UNCHANGED <<timers, pool, verifying, msgC, sent, stateC>>

onBackoff(h) ==
    /\ IF ~endorsedForBlock(cand[h], h) /\ isReady /\ cand[h].Proposals = {} /\ is2ndProposer(h)
       THEN makeProposal(h, FALSE)
       ELSE UNCHANGED <<pool, verifying, msgC, sent>>
    /\ UNCHANGED <<actionC, timers, stateC, cand, todo>>

onEndorseTimeout(h) ==
    LET c == cand[h]
        best == getHighestRankProposal(h, c.Proposals)
    IN  /\ UNCHANGED <<actionC, pool, verifying, msgC, sent, cand>>
        /\ \/ /\ committedForBlock(c, h) \/ ~isReady
              /\ UNCHANGED <<timers, stateC, todo>>
           \/ /\ ~committedForBlock(c, h) /\ isReady
              /\ \E r \in endorseDone(c) :
                    \/ /\ \/ findBlockProposal(c, h, r[1]) = {}
                          \/ \E p \in findBlockProposal(c, h, r[1]) : ~verifyPrevBlockHash(p)
                       /\ timers' = timers \cup {<<"endorse", h>>} /\ UNCHANGED todo
                    \/ \E p \in findBlockProposal(c, h, r[1]) :
                          /\ verifyPrevBlockHash(p)
                          /\ Do("timer", commitBlock(c, p, r[2])) /\ UNCHANGED timers
              /\ UNCHANGED stateC
           \/ /\ ~committedForBlock(c, h) /\ isReady /\ endorseDone(c) = {}
              /\ UNCHANGED timers
              /\ \/ /\ ~isActive \/ c.EndorsedEmpty # NoPeer
                    /\ UNCHANGED <<todo, stateC>>
                 \/ /\ isActive /\ c.EndorsedEmpty = NoPeer /\ c.Proposals = {}
                    /\ restartSyncing /\ UNCHANGED todo
                 \/ /\ isActive /\ c.EndorsedEmpty = NoPeer
                    /\ \E m \in best : Do("timer", endorseBlock(c, m, TRUE))
                    /\ UNCHANGED stateC

onCommitTimeout(h) ==
    LET c == cand[h]
        done == commitDone(c, endorserSet(roleNum))
    IN  /\ UNCHANGED <<actionC, pool, verifying, msgC, sent, timers>>
        /\ IF c.SealedBlock # NoVBlock \/ ~isReady \/ c.commitDone
           THEN UNCHANGED <<stateC, cand, todo>>
           ELSE IF done = {} THEN restartSyncing /\ UNCHANGED <<cand, todo>>
           ELSE /\ cand' = [cand EXCEPT ![h].commitDone = TRUE]
                /\ \E r \in done :
                      \/ findBlockProposal(c, h, r[1]) = {} /\ restartSyncing /\ UNCHANGED todo
                      \/ /\ \E p \in findBlockProposal(c, h, r[1]) :
                               Do("timer", <<makeSealed(p, r[2], FALSE)>>)
                         /\ UNCHANGED stateC

processTimerEvent ==
    /\ todo["timer"] = <<>>
    /\ \E t \in timerC :
          /\ timerC' = timerC \ {t}
          /\ \/ t[1] \in {"txpool", "txblock"} /\ startNewProposal(t[2])
             \/ t[1] = "backoff" /\ onBackoff(t[2])
             \/ t[1] \in {"propose", "random", "2nd"} /\ handleProposalTimeout(t[1], t[2])
             \/ t[1] = "endorse" /\ onEndorseTimeout(t[2])
             \/ t[1] = "commit" /\ onCommitTimeout(t[2])
    /\ UNCHANGED <<cur, chain, fetched, roleNum, srvState, connected, poolC, env>>

----------------------------------------------------------------------------
(* The state manager (VbftSync has the whole of it), as the rounds see it.   *)
ForceCheckSync ==
    /\ <<"ForceCheckSync", 0>> \in stateC /\ env.restarts > 0 /\ todo["state"] = <<>>
    /\ stateC' = stateC \ {<<"ForceCheckSync", 0>>}
    /\ srvState' = "Syncing"
    /\ env' = [env EXCEPT !.restarts = @ - 1]
    /\ UNCHANGED <<cur, chain, fetched, roleNum, connected, pool, poolC, cand, msgC, actionC,
                   timerC, timers, verifying, todo, sent>>

(* The syncer has a block from more than C peers: fastForwardBlock.          *)
fastForwardBlock ==
    /\ srvState = "Syncing" /\ todo["sync"] = <<>> /\ cur <= env.heights
    /\ \E b \in NetBlocks[cur] :
          /\ CanSeal(cur, b[1])
          /\ setBlockSealed(cur, b[1], b[2], TRUE)
    /\ Do("sync", <<[op |-> "sealed", num |-> cur, then |-> "return"]>>)
    /\ UNCHANGED <<cur, roleNum, srvState, connected, pool, poolC, msgC, actionC, timerC, stateC,
                   timers, verifying, sent, env>>

setSyncedReady ==
    /\ srvState = "Syncing" /\ todo["state"] = <<>> /\ todo["sync"] = <<>>
    /\ srvState' = "SyncReady"
    /\ stateC' = stateC \cup {<<"SyncReadyTimeout", cur>>}
    /\ actionC' = Append(actionC, [type |-> "FastForward", num |-> cur])
    /\ UNCHANGED <<cur, chain, fetched, roleNum, connected, pool, poolC, cand, msgC, timerC,
                   timers, verifying, todo, sent, env>>

SyncReadyTimeout ==
    /\ todo["state"] = <<>>
    /\ \E h \in AllHeights :
          /\ <<"SyncReadyTimeout", h>> \in stateC
          /\ stateC' = stateC \ {<<"SyncReadyTimeout", h>>}
          /\ IF srvState = "SyncReady"
             THEN /\ srvState' = "Synced"
                  /\ IF h = cur THEN Do("state", <<[op |-> "round"]>>) ELSE UNCHANGED todo
             ELSE UNCHANGED <<srvState, todo>>
    /\ UNCHANGED <<cur, chain, fetched, roleNum, connected, pool, poolC, cand, msgC, actionC,
                   timerC, timers, verifying, sent, env>>

onLiveTick ==
    /\ isReady /\ todo["state"] = <<>> /\ env.rebroadcasts > 0
    /\ env' = [env EXCEPT !.rebroadcasts = @ - 1]
    /\ actionC' = Append(actionC, [type |-> "ReBroadcast", num |-> cur])
    /\ UNCHANGED <<cur, chain, fetched, roleNum, srvState, connected, pool, poolC, cand, msgC,
                   timerC, stateC, timers, verifying, todo, sent>>

(* A server that has just synced to its peers (boot), holding the messages   *)
(* it had while syncing (have), or one that has started its first round.     *)
(* The rest of the scenario: the messages still to come (msgs), and bounds   *)
(* on the heights played, on restarts of syncing, on rebroadcasts and on the *)
(* timers that go off.                                                       *)
SrvInit ==
    /\ cur = 1
    /\ chain = [h \in 0..(MaxHeight + 1) |-> IF h = 0 THEN <<1, FALSE>> ELSE NoVBlock]
    /\ fetched = {}
    /\ roleNum = 1
    /\ connected = InitConnected
    /\ env \in Scenarios
    /\ pool = {m \in Range(env.have) : m.type # "commit"}
    /\ poolC = [h \in AllHeights |-> SelectSeq(env.have, LAMBDA m : m.type = "commit" /\ m.num = h)]
    /\ cand = [h \in AllHeights |-> EmptyCandidate]
    /\ msgC = <<>> /\ timerC = {}
    /\ \/ /\ env.boot
          /\ srvState = "SyncReady"
          /\ actionC = <<[type |-> "FastForward", num |-> 1]>>
          /\ stateC = {<<"SyncReadyTimeout", 1>>} /\ timers = {}
       \/ /\ ~env.boot
          /\ srvState = "Synced"
          /\ actionC = <<>>
          /\ stateC = {} /\ timers = {<<"txpool", 1>>, <<"txblock", 1>>}
    /\ verifying = {}
    /\ todo = [g \in Loops |-> <<>>]
    /\ sent = {}

SrvNext ==
    \/ \E m \in env.msgs : onConsensusMsg(m)
    \/ \E m \in verifying : VerifyBlock(m)
    \/ \E g \in Loops : Step(g)
    \/ processMsgEvent
    \/ actionLoop
    \/ \E t \in timers : Expire(t)
    \/ processTimerEvent
    \/ ForceCheckSync
    \/ fastForwardBlock
    \/ setSyncedReady
    \/ SyncReadyTimeout
    \/ onLiveTick

----------------------------------------------------------------------------
SrvTypeOK ==
    /\ cur \in AllHeights /\ roleNum \in AllHeights
    /\ \A h \in DOMAIN chain : chain[h] \in VBlocks \cup {NoVBlock}
    /\ srvState \in {"Syncing", "SyncReady", "Synced"}
    /\ connected \subseteq VPeers
    /\ \A m \in pool : m.type \in {"proposal", "endorse"} /\ m.num \in AllHeights
    /\ \A h \in AllHeights : \A p \in VPeers : cand[h].EndorseSigs[p] \subseteq VBlocks

(* "for each round, we can only commit one block" (service.go, commitBlock)  *)
(* and "one node can only endorse one block, or empty block" (endorseBlock): *)
(* of each height the server signs at most one commit, one endorsement of a  *)
(* full block and one of an empty block, whichever of its goroutines pass    *)
(* the check at the same time.                                               *)
SignsOnce ==
    \A a, b \in sent :
        /\ a.type = b.type /\ a.num = b.num
        /\ a.type \in {"commit", "endorse"}
        /\ a.type = "endorse" => a.empty = b.empty
        => a = b

(* A block the server sealed itself was proposed by the proposer that a      *)
(* quorum signed for: the proposer and the signers of the commits, or the    *)
(* signers of endorsements, are N-(N-1)/3 servers at least (commitDone,      *)
(* getCommitConsensus, makeSealed, sealBlock).                               *)
SealedIsSupported ==
    \A h \in Heights \ fetched :
        chain[h] # NoVBlock =>
            LET p       == chain[h][1]
                commits == {i \in DOMAIN cand[h].CommitMsgs : cand[h].CommitMsgs[i].proposer = p}
                signers == UNION {{cand[h].CommitMsgs[i].from} \cup cand[h].CommitMsgs[i].sigs : i \in commits}
                sigs    == {e \in VPeers : \E f \in BOOLEAN : <<p, f>> \in cand[h].EndorseSigs[e]}
            IN  Cardinality(signers \cup sigs \cup {p}) >= VQuorum

=============================================================================
