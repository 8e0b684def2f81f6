------------------------------- MODULE MCVbft -------------------------------
(* What the VBFT server and its syncer meet in the model checker's run.      *)
EXTENDS VbftServer, VbftSync, TLC

\* Height 1 is proposed by peer 1, height 2 by peer 2 (this server).
mcOrder == 1 :> <<1, 2, 3, 4>> @@ 2 :> <<2, 3, 4, 1>> @@ 3 :> <<3, 4, 1, 2>>
mcNet == 1 :> {<<1, FALSE>>} @@ 2 :> {<<3, FALSE>>} @@ 3 :> {}

genesis == <<1, FALSE>>
full1  == proposalMsg(1, 1, genesis, TRUE)      \* peer 1's block with transactions
empty1 == proposalMsg(1, 1, genesis, FALSE)     \* and its empty one
own    == proposalMsg(1, 2, genesis, TRUE)      \* this server's, as second proposer
next3  == proposalMsg(2, 3, <<1, FALSE>>, FALSE)
commit1(i, sigs) == commitMsg(empty1, i, FALSE, sigs)
decided1 == {commit1(3, {3, 4}), commit1(4, {3})}
decided1Seq == <<commit1(3, {3, 4}), commit1(4, {3})>>
decided2Seq == <<commitMsg(next3, 3, FALSE, {1, 4}), commitMsg(next3, 4, FALSE, {1, 4})>>

\* In consensus, with messages to come and timeouts; or starting up with messages at hand.
running(msgs, timeouts) ==
    [boot |-> FALSE, have |-> <<>>, msgs |-> msgs, heights |-> 1, restarts |-> 0, rebroadcasts |-> 0,
     timeouts |-> timeouts]
booting(have, msgs, timeouts) == [running(msgs, timeouts) EXCEPT !.boot = TRUE, !.have = have, !.restarts = 1]

mcScenarios ==
  { \* a block is endorsed and committed by the others while this server votes
    running({empty1, endorseMsg(empty1, 3, FALSE)} \cup decided1, 1),
    running({full1, endorseMsg(full1, 3, TRUE), endorseMsg(full1, 4, TRUE), commitMsg(full1, 4, TRUE, {3})}, 1),
    \* the first proposer is silent, this server proposes
    running({endorseMsg(own, 3, FALSE), endorseMsg(own, 4, FALSE), commitMsg(own, 3, FALSE, {4})}, 3),
    \* nobody is heard; restarts and rebroadcasts
    [running({}, 5) EXCEPT !.restarts = 1, !.rebroadcasts = 1],
    [running({full1, commitMsg(full1, 3, FALSE, {3})}, 2) EXCEPT !.restarts = 1],
    [running({full1, endorseMsg(full1, 3, FALSE)}, 2) EXCEPT !.rebroadcasts = 1],
    \* two heights, messages of the next one early
    [running({empty1, next3} \cup decided1, 0) EXCEPT !.heights = 2],
    [running({empty1, endorseMsg(next3, 3, FALSE)} \cup decided1, 0) EXCEPT !.heights = 2],
    [running({empty1} \cup decided1, 0) EXCEPT !.heights = 2, !.have = decided2Seq],
    \* start-up: the messages at hand let it fast-forward, or not
    [booting(<<empty1>> \o decided1Seq \o <<next3>>, {endorseMsg(next3, 4, FALSE)}, 3) EXCEPT !.heights = 2],
    [booting(<<empty1>> \o decided1Seq \o <<next3>> \o decided2Seq, {}, 3) EXCEPT !.heights = 2],
    [booting(<<empty1>> \o decided1Seq, {}, 3) EXCEPT !.heights = 2, !.rebroadcasts = 1],
    booting(<<empty1, endorseMsg(empty1, 3, FALSE), endorseMsg(empty1, 4, FALSE)>>, {commit1(3, {3, 4})}, 1),
    booting(decided1Seq, {empty1}, 2),
    booting(<<empty1>>, {}, 1),
    booting(<<>>, {}, 0) }

\* What each peer has, what the chain's top is, what the block pool has, state-check ticks.
peersAt(a, b) == (1 :> a) @@ (3 :> b)
mcCases ==
  { [has |-> peersAt(2, 2), top |-> 2, pooled |-> {}, ticks |-> 2],
    [has |-> peersAt(1, 1), top |-> 1, pooled |-> {}, ticks |-> 1],
    [has |-> peersAt(0, 1), top |-> 2, pooled |-> {}, ticks |-> 0] }
=============================================================================
