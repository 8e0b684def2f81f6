--------------------------- MODULE VbftBlockPool ---------------------------
(* The candidate of one height in consensus/vbft/block_pool.go, and the      *)
(* roles of node_utils.go: what a server has gathered for a round, and when  *)
(* endorsements or commits are enough.  Everything here is a pure operator;  *)
(* VbftServer runs the goroutines that call them.                            *)
(*                                                                           *)
(* A proposal stands for two blocks, the one with the transactions and the   *)
(* empty one: a block is <<proposer, empty>>.  Go iterates its maps in any   *)
(* order, so an operator that stops at the first quorum it meets returns the *)
(* SET of results the iteration can produce.                                 *)
EXTENDS Integers, Sequences, FiniteSets, FiniteSetsExt, SequencesExt

CONSTANTS
    N,      \* config.N, the number of consensus peers
    C       \* config.C, the number of faulty peers tolerated

ASSUME VbftSizes == N \in Nat /\ C \in Nat /\ C > 0 /\ 3 * C < N

VPeers == 1..N
NoPeer == 0
NoVBlock == <<NoPeer, FALSE>>
VBlocks == VPeers \X BOOLEAN

----------------------------------------------------------------------------
(* The roles of a height, from the peers in the order the VRF drew them.     *)

Fill(s, extra, n) == s \o SubSeq(extra, 1, Min({Len(extra), Max({0, n - Len(s)})}))

calcParticipantPeers(peers) ==
    LET proposers  == SubSeq(peers, 1, C + 1)
        n1         == (Len(peers) - (C + 1)) \div 2
        endorsers0 == SubSeq(peers, C + 2, C + 1 + n1)
        committers == SubSeq(peers, C + 2 + n1, Len(peers))
        need       == (2 * C) + 1
    IN  [Proposers  |-> proposers,
         Endorsers  |-> IF Len(endorsers0) >= need THEN endorsers0
                        ELSE Fill(Fill(endorsers0 \o <<proposers[C + 1]>>,
                                       Reverse(committers), need),
                                  Reverse(SubSeq(proposers, 2, C)), need),
         Committers |-> Fill(Fill(committers, Tail(proposers), need),
                             Reverse(endorsers0), need)]

(* The first 2C+1 active members of a list.                                  *)
AmongActive(list, p, active) ==
    \E i \in DOMAIN list :
        /\ list[i] = p
        /\ Cardinality({j \in 1..(i - 1) : list[j] \in active}) <= 2 * C

(* The first alive proposer leads.                                           *)
LeaderIs(list, p, alive) ==
    \E i \in DOMAIN list : /\ list[i] = p
                           /\ p \in alive
                           /\ \A j \in 1..(i - 1) : list[j] \notin alive

ProposerRank(list, p) ==
    IF \E i \in DOMAIN list : list[i] = p
    THEN (CHOOSE i \in DOMAIN list : list[i] = p) - 1
    ELSE Len(list)

----------------------------------------------------------------------------
(* CandidateInfo.                                                            *)

EmptyCandidate ==
    [present       |-> FALSE,
     Proposals     |-> {},
     EndorseSigs   |-> [p \in VPeers |-> {}],
     CommitMsgs    |-> <<>>,
     Endorsed      |-> NoPeer,      \* EndorsedProposal
     EndorsedEmpty |-> NoPeer,      \* EndorsedEmptyProposal
     Committed     |-> NoVBlock,    \* CommittedProposal, CommittedEmptyProposal
     commitDone    |-> FALSE,
     SealedBlock   |-> NoVBlock]

(* An endorser's signatures: one per proposer until it signs an empty block, *)
(* none after that; a commitment replaces whatever was there.                *)
addBlockEndorsementLocked(sigs, endorser, sig, commitment) ==
    CASE commitment \/ sigs[endorser] = {} -> [sigs EXCEPT ![endorser] = {sig}]
      [] \E s \in sigs[endorser] : s[2]    -> sigs
      [] OTHER                             -> [sigs EXCEPT ![endorser] = @ \cup {sig}]

newBlockProposal(c, m) ==
    IF \E p \in c.Proposals : p.proposer = m.proposer
    THEN c
    ELSE [c EXCEPT !.present = TRUE,
                   !.Proposals = @ \cup {m},
                   !.EndorseSigs = addBlockEndorsementLocked(@, m.proposer,
                                                       <<m.proposer, FALSE>>, FALSE)]

DupProposal(c, m) == \E p \in c.Proposals : p.proposer = m.proposer /\ p # m

newBlockEndorsement(c, m) ==
    [c EXCEPT !.present = TRUE,
              !.EndorseSigs = addBlockEndorsementLocked(@, m.from,
                                                  <<m.proposer, m.empty>>, FALSE)]

(* The endorsers' signatures a commit carries are added one by one (to other *)
(* endorsers each), the committer's own replaces what it had signed.         *)
newBlockCommitment(c, m) ==
    IF \E i \in DOMAIN c.CommitMsgs : c.CommitMsgs[i].from = m.from
    THEN c
    ELSE LET sig  == <<m.proposer, m.empty>>
             with == [e \in VPeers |->
                        IF e \in m.sigs
                        THEN addBlockEndorsementLocked(c.EndorseSigs, e, sig, FALSE)[e]
                        ELSE c.EndorseSigs[e]]
         IN [c EXCEPT !.present = TRUE,
                      !.EndorseSigs = addBlockEndorsementLocked(with, m.from, sig, TRUE),
                      !.CommitMsgs = Append(@, m)]

DupCommit(c, m) ==
    \E i \in DOMAIN c.CommitMsgs :
        c.CommitMsgs[i].from = m.from /\ c.CommitMsgs[i].hash # m.hash

SignersOf(c)     == {e \in VPeers : c.EndorseSigs[e] # {}}
FullFor(c, p)    == {e \in VPeers : <<p, FALSE>> \in c.EndorseSigs[e]}
EmptySigners(c)  == {e \in VPeers : \E p \in VPeers : <<p, TRUE>> \in c.EndorseSigs[e]}

(* C+1 endorsements of one full block, or C+1 of empty blocks, whoever       *)
(* proposed them: the proposer returned is that of the last one counted.  An *)
(* endorser that signed both is counted for the full block first.            *)
endorseDone(c) ==
    IF Cardinality(SignersOf(c)) < C + 1 THEN {}
    ELSE {<<p, FALSE>> : p \in {q \in VPeers : Cardinality(FullFor(c, q)) > C}}
         \cup
         {b \in VPeers \X {TRUE} :
            \E s \in kSubset(C + 1, EmptySigners(c)) :
                /\ \E e \in s : b \in c.EndorseSigs[e]
                /\ \A q \in VPeers : \E e \in s : e \notin FullFor(c, q)}

(* No full block can reach C+1 any more (the subtraction is on uint32).      *)
endorseFailed(c) ==
    LET voted == {p \in VPeers : FullFor(c, p) # {}}
        count(p) == Cardinality(FullFor(c, p))
        reach(p) == (count(p) + (2 * C) + 1) - Cardinality(SignersOf(c))
    IN  /\ Cardinality(SignersOf(c)) >= C + 1
        /\ \A p \in voted : count(p) <= C + 1
        /\ \/ Cardinality(voted) > C + 1
           \/ Cardinality(EmptySigners(c)) > C
           \/ \A p \in voted : reach(p) \in 0..C

(* The quorum of a block: the proposer and N-(N-1)/3-1 signers of commits.   *)
VQuorum == N - ((N - 1) \div 3)

CommitSigners(commits, i) ==
    UNION {{commits[j].from} \cup commits[j].sigs :
              j \in {k \in 1..i : commits[k].proposer = commits[i].proposer}}

(* Mutant: one signer fewer is enough.                                       *)
getCommitConsensusShort(commits) ==
    LET reached == {i \in DOMAIN commits :
                        Cardinality(CommitSigners(commits, i)) + 2 >= VQuorum}
    IN  IF reached = {} THEN NoVBlock
        ELSE <<commits[Min(reached)].proposer,
               Cardinality({j \in 1..Min(reached) : commits[j].empty}) > C>>

getCommitConsensus(commits) ==
    LET reached == {i \in DOMAIN commits :
                        Cardinality(CommitSigners(commits, i)) + 1 >= VQuorum}
    IN  IF reached = {} THEN NoVBlock
        ELSE <<commits[Min(reached)].proposer,
               Cardinality({j \in 1..Min(reached) : commits[j].empty}) > C>>

(* Commits decide; if they do not, N-C signatures of one full block do.  The *)
(* flag for the empty block then counts the empty signatures met before, a   *)
(* signer that is no endorser twice.                                         *)
commitDone(c, endorsers) ==
    LET byCommits == getCommitConsensus(c.CommitMsgs)
        quorum    == N - C
        weight(e) == IF e \notin EmptySigners(c) THEN 0
                     ELSE IF e \in endorsers THEN 1 ELSE 2
        met(s)    == MapThenSumSet(weight, s)
        last(p)   == {<<s, t>> \in kSubset(quorum, FullFor(c, p)) \X FullFor(c, p) :
                        t \in s}
        bySigs    == {p \in VPeers : Cardinality(FullFor(c, p)) >= quorum}
    IN  IF byCommits # NoVBlock THEN {byCommits}
        ELSE UNION {
              {<<p, FALSE>> : x \in {y \in last(p) : met(y[1] \ {y[2]}) < quorum}}
              \cup
              {<<p, TRUE>> : x \in {y \in last(p) :
                    met((SignersOf(c) \ FullFor(c, p)) \cup (y[1] \ {y[2]})) >= quorum}}
              : p \in bySigs}

=============================================================================
