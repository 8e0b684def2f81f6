--------------------------- MODULE GovPositions ---------------------------
(***************************************************************************)
(* The arithmetic of one AuthorizeInfo record of the governance contract: *)
(* the ONT one address has put on one peer, split over six counters.  An  *)
(* absent record and a record of six zeros are the same to every caller.  *)
(***************************************************************************)
EXTENDS Integers

\* The six counters (states.go, AuthorizeInfo).
AuthorizeInfo == [ConsensusPos : Nat, CandidatePos : Nat, NewPos : Nat,
                  WithdrawConsensusPos : Nat, WithdrawCandidatePos : Nat,
                  WithdrawUnfreezePos : Nat]

NoInfo == [ConsensusPos |-> 0, CandidatePos |-> 0, NewPos |-> 0,
           WithdrawConsensusPos |-> 0, WithdrawCandidatePos |-> 0,
           WithdrawUnfreezePos |-> 0]

\* The part that counts towards the peer's TotalPos.
ActivePos(i) == i.ConsensusPos + i.CandidatePos + i.NewPos

\* The part still exposed to the peer's fate: everything not yet unfrozen.
FrozenPos(i) == ActivePos(i) + i.WithdrawConsensusPos + i.WithdrawCandidatePos

\* All the ONT the record stands for.
HeldPos(i) == FrozenPos(i) + i.WithdrawUnfreezePos

\* The withdrawal queue moves one epoch on: two steps from a consensus peer,
\* one from a candidate peer.
ShiftWithdrawals(i) ==
  [i EXCEPT !.WithdrawConsensusPos = 0,
            !.WithdrawCandidatePos = i.WithdrawConsensusPos,
            !.WithdrawUnfreezePos = i.WithdrawUnfreezePos + i.WithdrawCandidatePos]

consensusToConsensus(i) ==
  [ShiftWithdrawals(i) EXCEPT !.ConsensusPos = i.ConsensusPos + i.NewPos,
                              !.NewPos = 0]

unConsensusToConsensus(i) ==
  [ShiftWithdrawals(i) EXCEPT !.ConsensusPos = i.ConsensusPos + i.CandidatePos + i.NewPos,
                              !.CandidatePos = 0, !.NewPos = 0]

consensusToUnConsensus(i) ==
  [ShiftWithdrawals(i) EXCEPT !.CandidatePos = i.ConsensusPos + i.NewPos,
                              !.ConsensusPos = 0, !.NewPos = 0]

unConsensusToUnConsensus(i) ==
  [ShiftWithdrawals(i) EXCEPT !.CandidatePos = i.CandidatePos + i.NewPos,
                              !.NewPos = 0]

\* normalQuit: the peer leaves in good standing, everything is unfrozen.
normalQuitInfo(i) == [NoInfo EXCEPT !.WithdrawUnfreezePos = HeldPos(i)]

\* The share of the frozen positions a black listed peer costs, rounded up.
penaltyOf(i, rate) == (rate * FrozenPos(i) + 99) \div 100

\* blackQuit: what is left after the penalty is unfrozen.
blackQuitInfo(i, rate) ==
  [NoInfo EXCEPT !.WithdrawUnfreezePos =
     FrozenPos(i) - penaltyOf(i, rate) + i.WithdrawUnfreezePos]

\* Mutant: what is released from NewPos stays counted there.
unAuthorizeInfoKeepsNew(i, consensus, pos) ==
  IF i.NewPos >= pos
    THEN [i EXCEPT !.WithdrawUnfreezePos = @ + pos]
    ELSE [i EXCEPT !.NewPos = 0]

\* UnAuthorizeForPeer on one record: NewPos goes first and is free at once,
\* the rest waits in the queue of the peer's kind.
unAuthorizeInfo(i, consensus, pos) ==
  IF i.NewPos >= pos
    THEN [i EXCEPT !.NewPos = @ - pos, !.WithdrawUnfreezePos = @ + pos]
    ELSE LET rest == pos - i.NewPos
             free == [i EXCEPT !.NewPos = 0, !.WithdrawUnfreezePos = @ + i.NewPos]
         IN IF consensus
              THEN [free EXCEPT !.ConsensusPos = @ - rest, !.WithdrawConsensusPos = @ + rest]
              ELSE [free EXCEPT !.CandidatePos = @ - rest, !.WithdrawCandidatePos = @ + rest]

\* The guard of UnAuthorizeForPeer: "your pos of this peerPubkey is not enough".
enoughToUnAuthorize(i, consensus, pos) ==
  \/ i.NewPos >= pos
  \/ consensus /\ i.ConsensusPos >= pos - i.NewPos
  \/ ~consensus /\ i.CandidatePos >= pos - i.NewPos

\* Mutant: positions put on the peer after the epoch are paid too.
validatePosWithNew(i, preIfConsensus, ifConsensus) ==
  IF ifConsensus \/ preIfConsensus
    THEN i.ConsensusPos + i.WithdrawConsensusPos + i.NewPos
    ELSE i.CandidatePos + i.WithdrawCandidatePos + i.NewPos

\* executeAddressSplit: the positions that earned in the epoch being paid.
validatePos(i, preIfConsensus, ifConsensus) ==
  IF ifConsensus \/ preIfConsensus
    THEN i.ConsensusPos + i.WithdrawConsensusPos
    ELSE i.CandidatePos + i.WithdrawCandidatePos
=============================================================================
