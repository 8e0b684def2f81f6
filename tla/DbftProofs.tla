---------------------------- MODULE DbftProofs ----------------------------
(***************************************************************************)
(* DbftSound holds for every set of bookkeepers, every height, view and     *)
(* number of messages.  The invariant is stated of a context, the record    *)
(* that the handlers of Dbft pass on, so that there is one lemma for each   *)
(* of them; a step of the actor adopts the context that its handlers left.  *)
(***************************************************************************)
EXTENDS Dbft, FiniteSetTheorems, TLAPS

Flags == {"Primary", "Backup", "RequestSent", "RequestReceived", "SignatureSent", "BlockGenerated"}
Blocks == [h : Nat, by : Int, n : Nat]
Notices == {"timeout", "block persisted"}
AtMostOne == {<<>>} \cup {<<b>> : b \in Blocks}

Contexts ==
  [flags : SUBSET Flags, height : Nat, view : Nat, primary : Int, content : Blocks, header : AtMostOne,
   sigs : [Bookkeepers -> AtMostOne], expected : [Bookkeepers -> Nat], timer : {"idle", "armed"}, round : Nat,
   signed : SUBSET (Nat \X Nat \X Blocks),
   submitted : SUBSET [block : Blocks, header : Blocks, sigs : [Bookkeepers -> AtMostOne]],
   ledger : Seq(Blocks), mailbox : Seq(Notices)]

\* A block that some bookkeeper proposed.
Real(b) == b.by # -1

\* The header is that of the block at hand, and every signature kept is over it.
HeldInv(c) ==
  /\ c.header \in {<<>>, <<c.content>>}
  /\ \A b \in Bookkeepers : c.sigs[b] # <<>> =>
        c.sigs[b] = <<c.content>> /\ c.header = <<c.content>> /\ Real(c.content)

\* A primary that has neither proposed nor signed has no block yet.
RoleInv(c) ==
  /\ ~ {"Primary", "Backup"} \subseteq c.flags
  /\ "Primary" \in c.flags /\ "RequestSent" \notin c.flags /\ "SignatureSent" \notin c.flags => ~ Real(c.content)

\* The flags that keep the bookkeeper from signing again in this view.
Asked(c) == {"Backup", "RequestReceived"} \subseteq c.flags \/ {"Primary", "RequestSent"} \subseteq c.flags

\* What was signed belongs to an earlier round or view, or the flags tell of it.
OnceInv(c) ==
  /\ \A s \in c.signed :
       /\ Real(s[3])
       /\ s[1] <= c.round
       /\ s[1] = c.round => s[2] <= c.view
       /\ s[1] = c.round /\ s[2] = c.view => Asked(c)
  /\ \A s, t \in c.signed : s[1] = t[1] /\ s[2] = t[2] => s[3] = t[3]

IsQuorum(Q) == Q \subseteq Bookkeepers /\ Cardinality(Q) >= M

\* A view is entered when a quorum expects it, and nobody expects less again.
ViewInv(c) == c.view > 0 => \E Q : IsQuorum(Q) /\ \A b \in Q : c.expected[b] >= c.view

SubmitInv(c) ==
  \A s \in c.submitted :
     /\ s.header = s.block
     /\ Cardinality({b \in Bookkeepers : s.sigs[b] = <<s.block>>}) >= M
     /\ \A b \in Bookkeepers : s.sigs[b] \in {<<>>, <<s.block>>}

ContextInv(c) ==
  /\ c \in Contexts /\ IsFiniteSet(c.signed)
  /\ HeldInv(c) /\ RoleInv(c) /\ OnceInv(c) /\ ViewInv(c) /\ SubmitInv(c)

DbftInv == ContextInv(Ctx)

---------------------------------------------------------------------------
(* Quorums *)

\* M is more than half of the bookkeepers, and at most all of them.
LEMMA SizeType == Size \in Nat \ {0} /\ M \in Nat \ {0} /\ M <= Size /\ Size < M + M
<1>1. Size \in Nat
  BY FS_CardinalityType, BookkeepersAssumption DEF Size
<1>2. Size # 0
  BY FS_EmptySet, BookkeepersAssumption DEF Size
<1>3. QED
  BY <1>1, <1>2 DEF M

\* M bookkeepers and M bookkeepers have one in common.
LEMMA QuorumsMeet == ASSUME NEW P, NEW Q, IsQuorum(P), IsQuorum(Q) PROVE P \cap Q # {}
<1>1. IsFiniteSet(P) /\ IsFiniteSet(Q)
  BY FS_Subset, BookkeepersAssumption, Zenon DEF IsQuorum
<1>2. IsFiniteSet(P \cup Q) /\ Cardinality(P \cup Q) <= Size
  BY FS_Subset, BookkeepersAssumption, Zenon DEF IsQuorum, Size
<1>3. Cardinality(P \cup Q) = Cardinality(P) + Cardinality(Q) - Cardinality(P \cap Q)
  BY <1>1, FS_Union
<1>4. Cardinality(P) \in Nat /\ Cardinality(Q) \in Nat
  BY <1>1, FS_CardinalityType
<1>5. P \cap Q = {} => Cardinality(P \cap Q) = 0
  BY FS_EmptySet
<1>6. QED
  BY <1>2, <1>3, <1>4, <1>5, SizeType DEF IsQuorum

---------------------------------------------------------------------------
(* Contexts *)

\* The types of the fields of a context.
LEMMA Fields ==
  ASSUME NEW c \in Contexts
  PROVE  /\ c.flags \in SUBSET Flags /\ c.height \in Nat /\ c.view \in Nat /\ c.primary \in Int
         /\ c.content \in Blocks /\ c.header \in AtMostOne
         /\ c.sigs \in [Bookkeepers -> AtMostOne] /\ c.expected \in [Bookkeepers -> Nat]
         /\ c.timer \in {"idle", "armed"} /\ c.round \in Nat
         /\ c.signed \in SUBSET (Nat \X Nat \X Blocks)
         /\ c.submitted \in SUBSET [block : Blocks, header : Blocks, sigs : [Bookkeepers -> AtMostOne]]
         /\ c.ledger \in Seq(Blocks) /\ c.mailbox \in Seq(Notices)
BY DEF Contexts

\* A sequence with one more element.
LEMMA Appended == ASSUME NEW S, NEW q \in Seq(S), NEW e \in S PROVE Append(q, e) \in Seq(S)
OBVIOUS

\* A sequence has a length.
LEMMA Counted == ASSUME NEW S, NEW q \in Seq(S) PROVE Len(q) \in Nat
OBVIOUS

\* The values of a new round.
LEMMA Empty ==
  /\ <<>> \in AtMostOne /\ Nobody \in [Bookkeepers -> AtMostOne]
  /\ [b \in Bookkeepers |-> 0] \in [Bookkeepers -> Nat]
  /\ \A h \in Nat : Leftover(h) \in Blocks /\ ~ Real(Leftover(h))
BY DEF AtMostOne, Nobody, Leftover, Blocks, Real

\* A step that leaves the view, the block and what was signed or submitted.
LEMMA SameBlock ==
  ASSUME NEW c, ContextInv(c), NEW n \in Contexts, HeldInv(n),
         n.flags = c.flags, n.view = c.view, n.round = c.round, n.content = c.content,
         n.signed = c.signed, n.submitted = c.submitted, n.expected = c.expected
  PROVE  ContextInv(n)
<1>1. RoleInv(n) /\ ViewInv(n) /\ IsFiniteSet(n.signed)
  BY DEF ContextInv, RoleInv, ViewInv
<1>2. OnceInv(n)
  BY DEF ContextInv, OnceInv, Asked
<1>3. SubmitInv(n)
  BY Zenon DEF ContextInv, SubmitInv
<1>4. QED
  BY <1>1, <1>2, <1>3 DEF ContextInv

---------------------------------------------------------------------------
(* Views *)

\* What Reset leaves of a context.
LEMMA ResetResult ==
  ASSUME NEW c \in Contexts
  PROVE  /\ Reset(c) \in Contexts
         /\ Reset(c).flags = {} /\ Reset(c).view = 0 /\ ~ Real(Reset(c).content) /\ Reset(c).header = <<>>
         /\ Reset(c).sigs = Nobody /\ Reset(c).round = c.round + 1
         /\ Reset(c).signed = c.signed /\ Reset(c).submitted = c.submitted
<1> DEFINE h == Len(c.ledger) + 1
<1>1. c.ledger \in Seq(Blocks) /\ c.round \in Nat
  BY Fields
<1>2. Len(c.ledger) \in Nat
  BY <1>1
<1>3. h \in Nat /\ h % Size \in Int /\ c.round + 1 \in Nat
  BY <1>1, <1>2, SizeType
<1> HIDE DEF h
<1>4. Leftover(h) \in Blocks /\ ~ Real(Leftover(h))
  BY <1>3, Empty
<1>5. Reset(c) \in Contexts
  BY <1>3, <1>4, Empty, Zenon DEF Reset, Contexts, h
<1>6. /\ Reset(c).flags = {} /\ Reset(c).view = 0 /\ Reset(c).content = Leftover(h) /\ Reset(c).header = <<>>
      /\ Reset(c).sigs = Nobody /\ Reset(c).round = c.round + 1
      /\ Reset(c).signed = c.signed /\ Reset(c).submitted = c.submitted
  BY DEF Reset, Contexts, h
<1>7. QED
  BY <1>4, <1>5, <1>6

\* What ChangeView leaves: a new view without block and signatures.
LEMMA ChangeViewResult ==
  ASSUME NEW c \in Contexts, NEW v \in Nat
  PROVE  LET r == ChangeView(c, v)
             kept == c.flags \cap {"SignatureSent"}
         IN /\ r \in Contexts /\ r.flags = kept /\ r.view = v /\ r.expected = c.expected
            /\ r.round = c.round /\ r.signed = c.signed /\ r.submitted = c.submitted
            /\ kept # {} => r.content = c.content /\ r.header = c.header /\ r.sigs = c.sigs
            /\ kept = {} => ~ Real(r.content) /\ r.header = <<>> /\ r.sigs = Nobody
<1> DEFINE kept == c.flags \cap {"SignatureSent"}
           p == (c.height - v) % Size
           n == [c EXCEPT !.flags = kept, !.view = v, !.primary = p]
           l == [n EXCEPT !.content = Leftover(c.height), !.sigs = Nobody, !.header = <<>>]
<1>1. c.height \in Nat /\ c.flags \in SUBSET Flags
  BY Fields
<1>2. p \in Int
  BY <1>1, SizeType
<1>3. Leftover(c.height) \in Blocks /\ ~ Real(Leftover(c.height))
  BY <1>1, Empty
<1>4. kept \in SUBSET Flags
  BY <1>1
<1>5. ChangeView(c, v) = IF kept # {} THEN n ELSE l
  BY DEF ChangeView
<1> HIDE DEF kept, p
<1>6. /\ n \in Contexts /\ n.flags = kept /\ n.view = v /\ n.expected = c.expected /\ n.round = c.round
      /\ n.signed = c.signed /\ n.submitted = c.submitted
      /\ n.content = c.content /\ n.header = c.header /\ n.sigs = c.sigs
  BY <1>2, <1>4, Zenon DEF Contexts
<1> HIDE DEF n
<1>7. /\ l \in Contexts /\ l.flags = kept /\ l.view = v /\ l.expected = c.expected /\ l.round = c.round
      /\ l.signed = c.signed /\ l.submitted = c.submitted
      /\ l.content = Leftover(c.height) /\ l.header = <<>> /\ l.sigs = Nobody
  BY <1>3, <1>6, Empty, Zenon DEF Contexts
<1> HIDE DEF l
<1>8. QED
  BY <1>3, <1>5, <1>6, <1>7 DEF kept

\* The role that a view gives this bookkeeper.
Roles(r) == {[r EXCEPT !.flags = @ \cup {"Primary"}, !.timer = "armed"], [r EXCEPT !.flags = {"Backup"}, !.timer = "armed"]}

\* What the choice of the primary leaves.
LEMMA RoleResult ==
  ASSUME NEW r \in Contexts, NEW n \in Roles(r)
  PROVE  /\ n \in Contexts /\ n.flags \in {r.flags \cup {"Primary"}, {"Backup"}}
         /\ n.view = r.view /\ n.round = r.round /\ n.content = r.content /\ n.header = r.header /\ n.sigs = r.sigs
         /\ n.expected = r.expected /\ n.signed = r.signed /\ n.submitted = r.submitted
<1>1. r.flags \cup {"Primary"} \in SUBSET Flags /\ {"Backup"} \in SUBSET Flags
  BY Fields DEF Flags
<1>2. CASE n = [r EXCEPT !.flags = @ \cup {"Primary"}, !.timer = "armed"]
  BY <1>1, <1>2, Zenon DEF Contexts
<1>3. CASE n = [r EXCEPT !.flags = {"Backup"}, !.timer = "armed"]
  BY <1>1, <1>3, Zenon DEF Contexts
<1>4. QED
  BY <1>2, <1>3 DEF Roles

\* A round begins anew, or a later view of it that a quorum expects.
LEMMA InitializeConsensusKeeps ==
  ASSUME NEW c, ContextInv(c), NEW v \in Nat,
         v # 0 => c.view < v /\ \E Q : IsQuorum(Q) /\ \A b \in Q : c.expected[b] >= v
  PROVE  ContextInv(InitializeConsensus(c, v))
<1> DEFINE n == InitializeConsensus(c, v)
<1>0. /\ c \in Contexts /\ IsFiniteSet(c.signed)
      /\ HeldInv(c) /\ RoleInv(c) /\ OnceInv(c) /\ ViewInv(c) /\ SubmitInv(c)
  BY DEF ContextInv
<1>1. CASE v # 0 /\ "BlockGenerated" \in c.flags
  BY <1>1 DEF InitializeConsensus
<1>2. CASE v = 0
  <2>1. n \in Roles(Reset(c))
    BY <1>2 DEF InitializeConsensus, Roles
  <2> HIDE DEF n
  <2>2. /\ n \in Contexts /\ n.flags \in {{"Primary"}, {"Backup"}} /\ n.view = 0 /\ ~ Real(n.content) /\ n.header = <<>>
        /\ n.sigs = Nobody /\ n.round = c.round + 1 /\ n.signed = c.signed /\ n.submitted = c.submitted
    BY <1>0, <2>1, ResetResult, RoleResult
  <2>3. HeldInv(n)
    BY <2>2 DEF HeldInv, Nobody
  <2>4. RoleInv(n)
    BY <2>2 DEF RoleInv
  <2>5. ViewInv(n)
    BY <2>2 DEF ViewInv
  <2>8. SubmitInv(n)
    BY <1>0, <2>2, Zenon DEF SubmitInv
  <2>6. OnceInv(n)
    <3>1. c.round \in Nat /\ c.signed \in SUBSET (Nat \X Nat \X Blocks)
      BY <1>0, Fields
    <3>2. QED
      BY <1>0, <2>2, <3>1 DEF OnceInv
  <2>7. QED
    BY <1>0, <2>2, <2>3, <2>4, <2>5, <2>6, <2>8 DEF n, ContextInv
<1>3. CASE v # 0 /\ "BlockGenerated" \notin c.flags
  <2> DEFINE kept == c.flags \cap {"SignatureSent"}
  <2>1. n \in Roles(ChangeView(c, v))
    BY <1>3 DEF InitializeConsensus, Roles
  <2> HIDE DEF n
  <2>2. /\ n \in Contexts /\ n.flags \in {kept \cup {"Primary"}, {"Backup"}} /\ n.view = v
        /\ n.round = c.round /\ n.signed = c.signed /\ n.submitted = c.submitted /\ n.expected = c.expected
        /\ kept # {} => n.content = c.content /\ n.header = c.header /\ n.sigs = c.sigs
        /\ kept = {} => ~ Real(n.content) /\ n.header = <<>> /\ n.sigs = Nobody
    <3> DEFINE r == ChangeView(c, v)
    <3>1. /\ r \in Contexts /\ r.flags = kept /\ r.view = v /\ r.expected = c.expected
          /\ r.round = c.round /\ r.signed = c.signed /\ r.submitted = c.submitted
          /\ kept # {} => r.content = c.content /\ r.header = c.header /\ r.sigs = c.sigs
          /\ kept = {} => ~ Real(r.content) /\ r.header = <<>> /\ r.sigs = Nobody
      BY <1>0, ChangeViewResult
    <3> HIDE DEF r, kept
    <3>2. QED
      BY <2>1, <3>1, RoleResult DEF r
  <2>3. HeldInv(n)
    BY <1>0, <2>2 DEF HeldInv, Nobody
  <2>4. RoleInv(n)
    BY <1>0, <2>2 DEF RoleInv
  <2>5. SubmitInv(n)
    BY <1>0, <2>2, Zenon DEF SubmitInv
  <2>6. OnceInv(n)
    <3>1. c.view \in Nat /\ c.round \in Nat /\ c.signed \in SUBSET (Nat \X Nat \X Blocks)
      BY <1>0, Fields
    <3>2. QED
      BY <1>0, <1>3, <2>2, <3>1 DEF OnceInv
  <2>7. ViewInv(n)
    BY <1>3, <2>2 DEF ViewInv
  <2>8. QED
    BY <1>0, <2>2, <2>3, <2>4, <2>5, <2>6, <2>7 DEF n, ContextInv
<1>4. QED
  BY <1>1, <1>2, <1>3

\* CheckExpectedView: a view that a quorum expects is later than the present one.
LEMMA CheckExpectedViewKeeps ==
  ASSUME NEW c, ContextInv(c), NEW v \in Nat
  PROVE  ContextInv(CheckExpectedView(c, v))
<1> DEFINE Q == {b \in Bookkeepers : c.expected[b] = v}
<1>1. CASE CheckExpectedView(c, v) = c
  BY <1>1
<1>2. CASE c.view # v /\ ~ (Cardinality(Q) < M) /\ CheckExpectedView(c, v) = InitializeConsensus(c, v)
  <2>1. IsQuorum(Q)
    <3>1. Cardinality(Q) \in Nat
      BY FS_Subset, FS_CardinalityType, BookkeepersAssumption
    <3>2. QED
      BY <1>2, <3>1, SizeType DEF IsQuorum
  <2>2. c.view \in Nat /\ c.expected \in [Bookkeepers -> Nat]
    BY DEF ContextInv, Contexts
  <2>3. c.view < v
    <3>1. CASE c.view = 0
      BY <3>1, <1>2, <2>2
    <3>2. CASE c.view > 0
      <4>1. PICK P : IsQuorum(P) /\ \A b \in P : c.expected[b] >= c.view
        BY <3>2 DEF ContextInv, ViewInv
      <4>2. PICK b \in Bookkeepers : b \in P /\ b \in Q
        BY <2>1, <4>1, QuorumsMeet DEF IsQuorum
      <4>3. QED
        BY <4>1, <4>2, <2>2, <1>2
    <3>3. QED
      BY <3>1, <3>2, <2>2
  <2>4. \A b \in Q : c.expected[b] >= v
    BY <2>2
  <2> HIDE DEF Q
  <2>5. QED
    BY <1>2, <2>1, <2>3, <2>4, InitializeConsensusKeeps
<1>3. QED
  BY <1>1, <1>2 DEF CheckExpectedView

\* Expecting more of a bookkeeper is harmless.
LEMMA ExpectMore ==
  ASSUME NEW c, ContextInv(c), NEW b \in Bookkeepers, NEW v \in Nat, v > c.expected[b],
         NEW t \in {"idle", "armed"}
  PROVE  ContextInv([c EXCEPT !.expected[b] = v, !.timer = t])
<1> DEFINE n == [c EXCEPT !.expected[b] = v, !.timer = t]
<1>1. /\ n \in Contexts /\ n.flags = c.flags /\ n.content = c.content /\ n.header = c.header /\ n.sigs = c.sigs
      /\ n.view = c.view /\ n.round = c.round /\ n.signed = c.signed /\ n.submitted = c.submitted
      /\ n.expected = [c.expected EXCEPT ![b] = v]
  BY Zenon DEF ContextInv, Contexts
<1> HIDE DEF n
<1>2. ViewInv(n)
  <2>1. c.expected \in [Bookkeepers -> Nat] /\ c.view \in Nat /\ ViewInv(c)
    BY Fields DEF ContextInv
  <2>2. SUFFICES ASSUME n.view > 0
                 PROVE  \E Q : IsQuorum(Q) /\ \A k \in Q : n.expected[k] >= n.view
    BY DEF ViewInv
  <2>3. PICK Q : IsQuorum(Q) /\ \A k \in Q : c.expected[k] >= c.view
    BY <1>1, <2>1, <2>2 DEF ViewInv
  <2>4. \A k \in Q : n.expected[k] >= n.view
    BY <1>1, <2>1, <2>3 DEF IsQuorum
  <2>5. QED
    BY <2>3, <2>4
<1>3. HeldInv(n) /\ RoleInv(n)
  BY <1>1 DEF ContextInv, HeldInv, RoleInv, Asked
<1>4. SubmitInv(n)
  BY <1>1, Zenon DEF ContextInv, SubmitInv
<1>5. OnceInv(n)
  <2>1. Asked(c) <=> Asked(n)
    BY <1>1 DEF Asked
  <2>2. QED
    BY <1>1, <2>1 DEF ContextInv, OnceInv
<1>6. QED
  BY <1>1, <1>2, <1>3, <1>4, <1>5 DEF n, ContextInv

\* RequestChangeView raises the own expected view and looks at the quorum.
LEMMA RequestChangeViewKeeps ==
  ASSUME NEW c, ContextInv(c)
  PROVE  ContextInv(RequestChangeView(c))
<1> DEFINE v == IF c.view > c.expected[Me] THEN c.view + 1 ELSE c.expected[Me] + 1
<1>0. c.view \in Nat /\ c.expected \in [Bookkeepers -> Nat] /\ Me \in Bookkeepers
  BY BookkeepersAssumption, Fields DEF ContextInv
<1>1. v \in Nat /\ v > c.expected[Me] /\ Me \in Bookkeepers
  BY <1>0
<1>2. ContextInv([c EXCEPT !.expected[Me] = v, !.timer = "armed"])
  BY <1>1, ExpectMore, Zenon
<1>3. ContextInv(CheckExpectedView([c EXCEPT !.expected[Me] = v, !.timer = "armed"], v))
  BY <1>1, <1>2, CheckExpectedViewKeeps
<1>4. QED
  BY <1>3 DEF RequestChangeView

\* ChangeViewReceived raises another's expected view and looks at the quorum.
LEMMA ChangeViewReceivedKeeps ==
  ASSUME NEW c, ContextInv(c), NEW from \in Bookkeepers, NEW v \in Nat
  PROVE  ContextInv(ChangeViewReceived(c, from, v))
<1>1. c.timer \in {"idle", "armed"} /\ c.expected[from] \in Nat
  BY DEF ContextInv, Contexts
<1>2. CASE v <= c.expected[from]
  BY <1>2 DEF ChangeViewReceived
<1>3. CASE v > c.expected[from]
  <2>1. ContextInv([c EXCEPT !.expected[from] = v, !.timer = c.timer])
    BY <1>1, <1>3, ExpectMore, Zenon
  <2>2. [c EXCEPT !.expected[from] = v, !.timer = c.timer] = [c EXCEPT !.expected[from] = v]
    BY Zenon DEF ContextInv, Contexts
  <2>3. QED
    BY <1>1, <1>3, <2>1, <2>2, CheckExpectedViewKeeps DEF ChangeViewReceived
<1>4. QED
  BY <1>1, <1>2, <1>3

---------------------------------------------------------------------------
(* Signatures *)

\* Nothing was signed in this view of this round.
Unsigned(c) ==
  /\ \A s \in c.signed : Real(s[3]) /\ s[1] <= c.round /\ (s[1] = c.round => s[2] < c.view)
  /\ \A s, t \in c.signed : s[1] = t[1] /\ s[2] = t[2] => s[3] = t[3]

\* A bookkeeper whose flags do not tell of a signature has signed nothing in this view.
LEMMA NotAsked ==
  ASSUME NEW c, ContextInv(c), ~ Asked(c)
  PROVE  Unsigned(c)
<1>1. c.view \in Nat /\ c.round \in Nat /\ c.signed \in SUBSET (Nat \X Nat \X Blocks)
  BY Fields DEF ContextInv
<1>2. QED
  BY <1>1 DEF Unsigned, ContextInv, OnceInv

\* Signing in a view in which nothing was signed.
LEMMA SignKeeps ==
  ASSUME NEW c \in Contexts, IsFiniteSet(c.signed), c.header = <<c.content>>, Real(c.content),
         HeldInv(c), RoleInv(c), ViewInv(c), SubmitInv(c), Asked(c), Unsigned(c)
  PROVE  ContextInv(Sign(c))
<1> DEFINE new == <<c.round, c.view, c.content>>
           n == Sign(c)
<1>0. Me \in Bookkeepers
  BY BookkeepersAssumption
<1>1. /\ c.round \in Nat /\ c.view \in Nat /\ c.content \in Blocks /\ c.header \in AtMostOne
      /\ c.sigs \in [Bookkeepers -> AtMostOne] /\ c.signed \in SUBSET (Nat \X Nat \X Blocks)
  BY Fields, Zenon
<1>2. new \in Nat \X Nat \X Blocks /\ new[1] = c.round /\ new[2] = c.view /\ new[3] = c.content
  BY <1>1
<1>3. n = [c EXCEPT !.sigs[Me] = c.header, !.signed = @ \cup {new}]
  BY DEF Sign
<1> HIDE DEF new, n
<1>4. c.signed \cup {new} \in SUBSET (Nat \X Nat \X Blocks)
  BY <1>1, <1>2
<1>5. /\ n \in Contexts /\ n.flags = c.flags /\ n.view = c.view /\ n.round = c.round /\ n.content = c.content
      /\ n.header = c.header /\ n.expected = c.expected /\ n.submitted = c.submitted
      /\ n.signed = c.signed \cup {new} /\ n.sigs = [c.sigs EXCEPT ![Me] = c.header]
  BY <1>0, <1>1, <1>3, <1>4, Zenon DEF Contexts
<1>6. HeldInv(n)
  BY <1>1, <1>5 DEF HeldInv
<1>7. RoleInv(n)
  BY <1>5 DEF RoleInv
<1>8. OnceInv(n)
  <2>1. Asked(n)
    BY <1>5 DEF Asked
  <2>2. \A s \in n.signed : /\ Real(s[3]) /\ s[1] <= n.round
                            /\ s[1] = n.round => s[2] <= n.view
    BY <1>1, <1>2, <1>5 DEF Unsigned
  <2>3. \A s \in c.signed : ~ (s[1] = new[1] /\ s[2] = new[2])
    BY <1>1, <1>2 DEF Unsigned
  <2>4. \A s, t \in n.signed : s[1] = t[1] /\ s[2] = t[2] => s[3] = t[3]
    BY <1>5, <2>3 DEF Unsigned
  <2>5. QED
    BY <2>1, <2>2, <2>4 DEF OnceInv
<1>9. ViewInv(n)
  BY <1>5 DEF ViewInv
<1>10. SubmitInv(n)
  BY <1>5, Zenon DEF SubmitInv
<1>11. IsFiniteSet(n.signed)
  BY <1>5, FS_AddElement
<1>12. QED
  BY <1>5, <1>6, <1>7, <1>8, <1>9, <1>10, <1>11 DEF n, ContextInv

\* BlockGenerated or RequestSent is set, and nothing else of the round changes.
LEMMA AddFlagKeeps ==
  ASSUME NEW c, ContextInv(c), NEW f \in {"BlockGenerated", "RequestSent"}, NEW n \in Contexts,
         n.flags = c.flags \cup {f}, n.view = c.view, n.round = c.round, n.content = c.content,
         n.header = c.header, n.sigs = c.sigs, n.signed = c.signed, n.expected = c.expected, SubmitInv(n)
  PROVE  ContextInv(n)
<1>1. HeldInv(n)
  BY DEF ContextInv, HeldInv
<1>2. RoleInv(n)
  BY DEF ContextInv, RoleInv
<1>3. OnceInv(n)
  BY DEF ContextInv, OnceInv, Asked
<1>4. ViewInv(n)
  BY DEF ContextInv, ViewInv
<1>5. QED
  BY <1>1, <1>2, <1>3, <1>4 DEF ContextInv

\* A block submitted with M signatures over its header.
LEMMA SubmitBlockKeeps ==
  ASSUME NEW c, ContextInv(c), ~ (Cardinality(Signers(c)) < M)
  PROVE  c.header = <<c.content>> /\ ContextInv(SubmitBlock(c))
<1> DEFINE n == SubmitBlock(c)
           new == [block |-> c.content, header |-> c.content, sigs |-> c.sigs]
<1>1. c \in Contexts /\ HeldInv(c) /\ SubmitInv(c)
  BY DEF ContextInv
<1>2. /\ c.content \in Blocks /\ c.ledger \in Seq(Blocks) /\ c.mailbox \in Seq(Notices)
      /\ c.sigs \in [Bookkeepers -> AtMostOne] /\ c.flags \in SUBSET Flags
      /\ c.submitted \in SUBSET [block : Blocks, header : Blocks, sigs : [Bookkeepers -> AtMostOne]]
  BY <1>1, Fields
<1>3. Signers(c) # {}
  BY FS_EmptySet, SizeType
<1>4. c.header = <<c.content>>
  BY <1>1, <1>3 DEF HeldInv, Signers
<1>5. Signers(c) = {b \in Bookkeepers : c.sigs[b] = <<c.content>>}
  BY <1>1 DEF HeldInv, Signers
<1>6. Cardinality(Signers(c)) >= M
  <2>1. IsFiniteSet(Signers(c))
    BY FS_Subset, BookkeepersAssumption DEF Signers
  <2>2. Cardinality(Signers(c)) \in Nat
    BY <2>1, FS_CardinalityType
  <2>3. QED
    BY <2>2, SizeType
<1>7. /\ new \in [block : Blocks, header : Blocks, sigs : [Bookkeepers -> AtMostOne]]
      /\ new.block = c.content /\ new.header = c.content /\ new.sigs = c.sigs
  BY <1>2
<1>8. /\ Append(c.ledger, c.content) \in Seq(Blocks) /\ Append(c.mailbox, "block persisted") \in Seq(Notices)
      /\ c.flags \cup {"BlockGenerated"} \in SUBSET Flags
  <2>1. "block persisted" \in Notices
    BY DEF Notices
  <2>2. Append(c.ledger, c.content) \in Seq(Blocks) /\ Append(c.mailbox, "block persisted") \in Seq(Notices)
    BY <1>2, <2>1, Appended, Zenon
  <2>3. QED
    BY <1>2, <2>2, Zenon DEF Flags
<1>9. n = [c EXCEPT !.ledger = Append(@, c.content), !.mailbox = Append(@, "block persisted"),
                    !.flags = @ \cup {"BlockGenerated"}, !.submitted = @ \cup {new}]
  BY <1>4 DEF SubmitBlock
<1> HIDE DEF n, new
<1>10. c.submitted \cup {new} \in SUBSET [block : Blocks, header : Blocks, sigs : [Bookkeepers -> AtMostOne]]
  BY <1>2, <1>7
<1>11. /\ n \in Contexts /\ n.flags = c.flags \cup {"BlockGenerated"} /\ n.view = c.view /\ n.round = c.round
       /\ n.content = c.content /\ n.header = c.header /\ n.sigs = c.sigs /\ n.signed = c.signed
       /\ n.expected = c.expected /\ n.submitted = c.submitted \cup {new}
  BY <1>1, <1>8, <1>9, <1>10, Zenon DEF Contexts
<1>12. /\ new.header = new.block
       /\ Cardinality({b \in Bookkeepers : new.sigs[b] = <<new.block>>}) >= M
       /\ \A b \in Bookkeepers : new.sigs[b] \in {<<>>, <<new.block>>}
  BY <1>1, <1>5, <1>6, <1>7 DEF HeldInv
<1>13. SubmitInv(n)
  BY <1>1, <1>11, <1>12, Zenon DEF SubmitInv
<1>14. ContextInv(n)
  BY <1>11, <1>13, AddFlagKeeps
<1>15. QED
  BY <1>4, <1>14 DEF n

\* CheckSignatures submits when M signatures have come.
LEMMA CheckSignaturesKeeps ==
  ASSUME NEW c, ContextInv(c), NEW fails
  PROVE  ContextInv(CheckSignatures(c, fails))
<1> DEFINE g == [c EXCEPT !.flags = @ \cup {"BlockGenerated"}]
<1>1. ContextInv(g)
  <2>1. c \in Contexts /\ SubmitInv(c) /\ c.flags \cup {"BlockGenerated"} \in SUBSET Flags
    BY Fields DEF ContextInv, Flags
  <2>2. /\ g \in Contexts /\ g.flags = c.flags \cup {"BlockGenerated"} /\ g.view = c.view /\ g.round = c.round
        /\ g.content = c.content /\ g.header = c.header /\ g.sigs = c.sigs /\ g.signed = c.signed
        /\ g.expected = c.expected /\ g.submitted = c.submitted
    BY <2>1, Zenon DEF Contexts
  <2> HIDE DEF g
  <2>3. SubmitInv(g)
    BY <2>1, <2>2, Zenon DEF SubmitInv
  <2>4. QED
    BY <2>2, <2>3, AddFlagKeeps
<1>2. ~ (Cardinality(Signers(c)) < M) => ContextInv(SubmitBlock(c))
  BY SubmitBlockKeeps
<1>3. QED
  BY <1>1, <1>2 DEF CheckSignatures

---------------------------------------------------------------------------
(* Handlers *)

\* A block that some bookkeeper proposed, as BlocksAt gives them.
Proposed == {b \in Blocks : Real(b)}

\* PrepareRequestReceived takes the primary's block and signs it.
LEMMA PrepareRequestReceivedKeeps ==
  ASSUME NEW c, ContextInv(c), NEW from \in Bookkeepers, NEW block \in Proposed, NEW why
  PROVE  ContextInv(PrepareRequestReceived(c, from, block, why))
<1> DEFINE r == PrepareRequestReceived(c, from, block, why)
           n == [c EXCEPT !.flags = @ \cup {"RequestReceived", "SignatureSent"}, !.content = block,
                          !.header = <<block>>, !.sigs = [Nobody EXCEPT ![from] = <<block>>]]
<1>1. CASE r \in {c, RequestChangeView(c)}
  BY <1>1, RequestChangeViewKeeps
<1>2. CASE "Backup" \in c.flags /\ "RequestReceived" \notin c.flags /\ r = Sign(n)
  <2>1. c \in Contexts /\ RoleInv(c) /\ ViewInv(c) /\ SubmitInv(c) /\ IsFiniteSet(c.signed)
    BY DEF ContextInv
  <2>2. Unsigned(c)
    BY <1>2, <2>1, NotAsked DEF Asked, RoleInv
  <2>3. /\ c.flags \cup {"RequestReceived", "SignatureSent"} \in SUBSET Flags
        /\ block \in Blocks /\ <<block>> \in AtMostOne
    BY <2>1, Fields DEF Flags, Proposed, AtMostOne
  <2>4. [Nobody EXCEPT ![from] = <<block>>] \in [Bookkeepers -> AtMostOne]
    BY <2>3, Empty
  <2>5. /\ n \in Contexts /\ n.flags = c.flags \cup {"RequestReceived", "SignatureSent"} /\ n.view = c.view
        /\ n.round = c.round /\ n.content = block /\ n.header = <<block>> /\ n.signed = c.signed
        /\ n.sigs = [Nobody EXCEPT ![from] = <<block>>] /\ n.expected = c.expected /\ n.submitted = c.submitted
    BY <2>1, <2>3, <2>4, Zenon DEF Contexts
  <2> HIDE DEF n
  <2>6. HeldInv(n)
    BY <2>5 DEF HeldInv, Nobody, Proposed
  <2>7. RoleInv(n) /\ Asked(n)
    BY <1>2, <2>1, <2>5 DEF RoleInv, Asked
  <2>8. ViewInv(n)
    BY <2>1, <2>5 DEF ViewInv
  <2>9. SubmitInv(n)
    BY <2>1, <2>5, Zenon DEF SubmitInv
  <2>10. Unsigned(n)
    BY <2>2, <2>5 DEF Unsigned
  <2>11. Real(n.content)
    BY <2>5 DEF Proposed
  <2>12. QED
    BY <1>2, <2>1, <2>5, <2>6, <2>7, <2>8, <2>9, <2>10, <2>11, SignKeeps
<1>3. QED
  BY <1>1, <1>2 DEF PrepareRequestReceived

\* MakeHeader gives the block at hand its header.
LEMMA MakeHeaderKeeps ==
  ASSUME NEW c, ContextInv(c)
  PROVE  LET n == MakeHeader(c)
         IN ContextInv(n) /\ n.header = <<n.content>> /\ n.sigs = c.sigs
<1> DEFINE n == [c EXCEPT !.header = <<c.content>>]
<1>1. c \in Contexts /\ HeldInv(c) /\ <<c.content>> \in AtMostOne
  BY Fields DEF ContextInv, AtMostOne
<1>2. CASE c.header # <<>>
  BY <1>1, <1>2 DEF MakeHeader, HeldInv
<1>3. CASE c.header = <<>>
  <2>1. /\ n \in Contexts /\ n.flags = c.flags /\ n.view = c.view /\ n.round = c.round /\ n.content = c.content
        /\ n.header = <<c.content>> /\ n.sigs = c.sigs /\ n.expected = c.expected /\ n.signed = c.signed
        /\ n.submitted = c.submitted
    BY <1>1, Zenon DEF Contexts
  <2>2. MakeHeader(c) = n
    BY <1>3 DEF MakeHeader
  <2> HIDE DEF n
  <2>3. HeldInv(n)
    BY <1>1, <2>1 DEF HeldInv
  <2>4. QED
    BY <2>1, <2>2, <2>3, SameBlock
<1>4. QED
  BY <1>2, <1>3

\* More signatures over the header at hand.
LEMMA MoreSignatures ==
  ASSUME NEW c, ContextInv(c), c.header = <<c.content>>, NEW sigs \in [Bookkeepers -> AtMostOne],
         \A b \in Bookkeepers : sigs[b] = c.sigs[b] \/ (sigs[b] = <<c.content>> /\ Real(c.content))
  PROVE  ContextInv([c EXCEPT !.sigs = sigs])
<1> DEFINE n == [c EXCEPT !.sigs = sigs]
<1>1. c \in Contexts /\ HeldInv(c)
  BY DEF ContextInv
<1>2. /\ n \in Contexts /\ n.flags = c.flags /\ n.view = c.view /\ n.round = c.round /\ n.content = c.content
      /\ n.header = c.header /\ n.sigs = sigs /\ n.expected = c.expected /\ n.signed = c.signed
      /\ n.submitted = c.submitted
  BY <1>1, Zenon DEF Contexts
<1> HIDE DEF n
<1>3. HeldInv(n)
  BY <1>1, <1>2 DEF HeldInv
<1>4. QED
  BY <1>2, <1>3, SameBlock, Zenon DEF n

\* PrepareResponseReceived keeps a signature over the block at hand.
LEMMA PrepareResponseReceivedKeeps ==
  ASSUME NEW c, ContextInv(c), NEW from \in Bookkeepers, NEW sig \in Proposed, NEW fails
  PROVE  ContextInv(PrepareResponseReceived(c, from, sig, fails))
<1> DEFINE n == MakeHeader(c)
           m == [n EXCEPT !.sigs[from] = <<sig>>]
<1>1. ContextInv(n) /\ n.header = <<n.content>>
  BY MakeHeaderKeeps
<1> HIDE DEF n
<1>2. CASE PrepareResponseReceived(c, from, sig, fails) \in {c, n}
  BY <1>1, <1>2
<1>3. CASE n.header = <<sig>> /\ PrepareResponseReceived(c, from, sig, fails) = CheckSignatures(m, fails)
  <2>1. n \in Contexts /\ n.sigs \in [Bookkeepers -> AtMostOne] /\ sig = n.content
    BY <1>1, <1>3, Fields DEF ContextInv
  <2>2. <<sig>> \in AtMostOne /\ Real(sig)
    BY DEF Proposed, AtMostOne
  <2> DEFINE sigs == [n.sigs EXCEPT ![from] = <<sig>>]
  <2>3. sigs \in [Bookkeepers -> AtMostOne] /\ \A b \in Bookkeepers : sigs[b] = n.sigs[b] \/ sigs[b] = <<n.content>>
    BY <2>1, <2>2
  <2>4. m = [n EXCEPT !.sigs = sigs]
    BY <2>1 DEF Contexts
  <2> HIDE DEF sigs, m
  <2>5. ContextInv(m)
    BY <1>1, <2>1, <2>2, <2>3, <2>4, MoreSignatures
  <2>6. QED
    BY <1>3, <2>5, CheckSignaturesKeeps
<1>4. QED
  BY <1>2, <1>3 DEF PrepareResponseReceived, n

\* BlockSignaturesReceived keeps a signature over the block at hand.
LEMMA BlockSignaturesReceivedKeeps ==
  ASSUME NEW c, ContextInv(c), NEW from \in Bookkeepers, NEW blk \in Proposed, NEW fails,
         NEW sigs \in [Bookkeepers -> {<<>>, <<blk>>}]
  PROVE  ContextInv(BlockSignaturesReceived(c, from, sigs, fails))
<1> DEFINE n == MakeHeader(c)
           all == [b \in Bookkeepers |-> IF n.sigs[b] = <<>> /\ sigs[b] = n.header THEN sigs[b] ELSE n.sigs[b]]
<1>1. ContextInv(n) /\ n.header = <<n.content>>
  BY MakeHeaderKeeps
<1>2. BlockSignaturesReceived(c, from, sigs, fails) \in {c, CheckSignatures([n EXCEPT !.sigs = all], fails)}
  BY DEF BlockSignaturesReceived
<1> HIDE DEF n
<1>3. n \in Contexts /\ n.sigs \in [Bookkeepers -> AtMostOne] /\ n.header \in AtMostOne
  BY <1>1, Fields, Zenon DEF ContextInv
<1>4. all \in [Bookkeepers -> AtMostOne]
  BY <1>3
<1>5. ASSUME NEW b \in Bookkeepers
      PROVE  all[b] = n.sigs[b] \/ (all[b] = <<n.content>> /\ Real(n.content))
  <2>1. CASE sigs[b] = n.header
    <3>1. sigs[b] = <<n.content>> /\ sigs[b] \in {<<>>, <<blk>>}
      BY <1>1, <2>1, Zenon
    <3>2. n.content = blk
      BY <3>1
    <3>3. QED
      BY <1>1, <2>1, <3>2 DEF Proposed
  <2>2. CASE sigs[b] # n.header
    BY <2>2
  <2>3. QED
    BY <2>1, <2>2
<1> HIDE DEF all
<1>6. ContextInv([n EXCEPT !.sigs = all])
  BY <1>1, <1>4, <1>5, MoreSignatures
<1>7. QED
  BY <1>2, <1>6, CheckSignaturesKeeps

\* Timeout: the primary proposes and signs, or a view change is asked for.
LEMMA TimeoutKeeps ==
  ASSUME NEW c, ContextInv(c), NEW k \in Nat, NEW why
  PROVE  ContextInv(Timeout(c, k, why))
<1> DEFINE s == [c EXCEPT !.flags = @ \cup {"RequestSent"}]
           a == [s EXCEPT !.timer = "armed"]
           b == Proposal(c.height, Me, k)
           n == [s EXCEPT !.content = b, !.header = <<b>>, !.timer = "armed"]
<1>1. CASE Timeout(c, k, why) \in {c, RequestChangeView(c)}
  BY <1>1, RequestChangeViewKeeps
<1>2. CASE /\ "Primary" \in c.flags /\ "RequestSent" \notin c.flags
           /\ \/ Timeout(c, k, why) \in {s, a}
              \/ "SignatureSent" \notin c.flags /\ Timeout(c, k, why) = Sign(n)
  <2>1. /\ c \in Contexts /\ HeldInv(c) /\ RoleInv(c) /\ ViewInv(c) /\ SubmitInv(c) /\ IsFiniteSet(c.signed)
    BY DEF ContextInv
  <2>2. c.flags \cup {"RequestSent"} \in SUBSET Flags /\ c.height \in Nat /\ c.sigs \in [Bookkeepers -> AtMostOne]
    BY <2>1, Fields DEF Flags
  <2>3. /\ s \in Contexts /\ s.flags = c.flags \cup {"RequestSent"} /\ s.view = c.view /\ s.round = c.round
        /\ s.content = c.content /\ s.header = c.header /\ s.sigs = c.sigs /\ s.signed = c.signed
        /\ s.expected = c.expected /\ s.submitted = c.submitted
    BY <2>1, <2>2, Zenon DEF Contexts
  <2> HIDE DEF s
  <2>4. /\ a \in Contexts /\ a.flags = c.flags \cup {"RequestSent"} /\ a.view = c.view /\ a.round = c.round
        /\ a.content = c.content /\ a.header = c.header /\ a.sigs = c.sigs /\ a.signed = c.signed
        /\ a.expected = c.expected /\ a.submitted = c.submitted
    BY <2>3, Zenon DEF Contexts
  <2> HIDE DEF a
  <2>5. SubmitInv(s) /\ SubmitInv(a)
    BY <2>1, <2>3, <2>4, Zenon DEF SubmitInv
  <2>6. ContextInv(s)
    BY <2>3, <2>5, AddFlagKeeps
  <2>7. ContextInv(a)
    BY <2>4, <2>5, AddFlagKeeps
  <2>8. ASSUME "SignatureSent" \notin c.flags
        PROVE  ContextInv(Sign(n))
    <3>1. b \in Blocks /\ Real(b) /\ <<b>> \in AtMostOne
      <4>1. Me \in Nat
        BY BookkeepersAssumption
      <4>2. b \in Blocks /\ b.by = Me
        BY <2>2, <4>1 DEF Proposal, Blocks
      <4> HIDE DEF b
      <4>3. QED
        BY <4>1, <4>2 DEF Real, AtMostOne
    <3> HIDE DEF b
    <3>2. /\ n \in Contexts /\ n.flags = c.flags \cup {"RequestSent"} /\ n.view = c.view /\ n.round = c.round
          /\ n.content = b /\ n.header = <<b>> /\ n.sigs = c.sigs /\ n.signed = c.signed
          /\ n.expected = c.expected /\ n.submitted = c.submitted
      BY <2>3, <3>1, Zenon DEF Contexts
    <3> HIDE DEF n
    <3>3. ~ Real(c.content)
      BY <1>2, <2>1, <2>8 DEF RoleInv
    <3>4. HeldInv(n)
      BY <2>1, <3>2, <3>3 DEF HeldInv
    <3>5. RoleInv(n) /\ Asked(n)
      BY <1>2, <2>1, <3>2 DEF RoleInv, Asked
    <3>6. ViewInv(n)
      BY <2>1, <3>2 DEF ViewInv
    <3>7. SubmitInv(n)
      BY <2>1, <3>2, Zenon DEF SubmitInv
    <3>8. Unsigned(c)
      BY <1>2, <2>1, NotAsked DEF Asked, RoleInv
    <3>9. Unsigned(n)
      BY <3>2, <3>8 DEF Unsigned
    <3>10. QED
      BY <2>1, <3>1, <3>2, <3>4, <3>5, <3>6, <3>7, <3>9, SignKeeps
  <2>9. QED
    BY <1>2, <2>6, <2>7, <2>8
<1>3. QED
  BY <1>1, <1>2 DEF Timeout

---------------------------------------------------------------------------
(* Steps of the actor *)

\* The variables after a step are those of the context its handlers left.
LEMMA Adopted ==
  ASSUME NEW c \in Contexts, Adopt(c)
  PROVE  Ctx' = c
BY DEF Adopt, Ctx, Contexts

\* The context of the variables.
LEMMA CtxFields ==
  /\ Ctx.flags = flags /\ Ctx.height = height /\ Ctx.view = viewNumber /\ Ctx.primary = primaryIndex
  /\ Ctx.content = content /\ Ctx.header = header /\ Ctx.sigs = signatures /\ Ctx.expected = expectedView
  /\ Ctx.timer = timer /\ Ctx.round = round /\ Ctx.signed = signed /\ Ctx.submitted = submitted
  /\ Ctx.ledger = ledger /\ Ctx.mailbox = mailbox
BY DEF Ctx

\* Every block that a message or block sync brings was proposed by somebody.
LEMMA BlocksAreProposed ==
  ASSUME DbftInv, NEW h \in Nat
  PROVE  BlocksAt(h) \subseteq Proposed
<1>1. ASSUME NEW b \in Others PROVE Proposal(h, b, 1) \in Proposed
  <2>1. b \in Nat
    BY BookkeepersAssumption DEF Others
  <2>2. Proposal(h, b, 1) \in Blocks /\ Proposal(h, b, 1).by = b
    BY <2>1 DEF Proposal, Blocks
  <2>3. QED
    BY <2>1, <2>2 DEF Proposed, Real
<1>2. ASSUME NEW s \in signed PROVE s[3] \in Proposed
  <2>1. Ctx.signed \in SUBSET (Nat \X Nat \X Blocks) /\ OnceInv(Ctx)
    BY Fields DEF DbftInv, ContextInv
  <2>2. QED
    BY <2>1, CtxFields DEF OnceInv, Proposed
<1>3. QED
  BY <1>1, <1>2 DEF BlocksAt

\* A step that leaves the round: the ledger, the mailbox or the timer.
LEMMA Aside ==
  ASSUME NEW c, ContextInv(c), NEW q \in Seq(Notices), NEW l \in Seq(Blocks), NEW t \in {"idle", "armed"}
  PROVE  ContextInv([c EXCEPT !.mailbox = q, !.ledger = l, !.timer = t])
<1> DEFINE n == [c EXCEPT !.mailbox = q, !.ledger = l, !.timer = t]
<1>1. c \in Contexts /\ HeldInv(c)
  BY DEF ContextInv
<1>2. /\ n \in Contexts /\ n.flags = c.flags /\ n.view = c.view /\ n.round = c.round /\ n.content = c.content
      /\ n.header = c.header /\ n.sigs = c.sigs /\ n.expected = c.expected /\ n.signed = c.signed
      /\ n.submitted = c.submitted
  BY <1>1, Zenon DEF Contexts
<1> HIDE DEF n
<1>3. HeldInv(n)
  BY <1>1, <1>2 DEF HeldInv
<1>4. QED
  BY <1>2, <1>3, SameBlock, Zenon DEF n

\* The bookkeeper before it has started.
LEMMA InitInv == DbftInit => DbftInv
<1> SUFFICES ASSUME DbftInit PROVE ContextInv(Ctx)
  BY DEF DbftInv
<1>1. /\ Ctx.flags = {} /\ Ctx.view = 0 /\ Ctx.content = Leftover(0) /\ Ctx.header = <<>> /\ Ctx.sigs = Nobody
      /\ Ctx.signed = {} /\ Ctx.submitted = {} /\ Ctx.expected = [b \in Bookkeepers |-> 0]
  BY CtxFields DEF DbftInit
<1>2. Ctx \in Contexts
  <2>1. <<>> \in Seq(Blocks) /\ <<>> \in Seq(Notices)
    OBVIOUS
  <2>2. Leftover(0) \in Blocks /\ <<>> \in AtMostOne /\ Nobody \in [Bookkeepers -> AtMostOne]
    BY Empty
  <2>3. QED
    BY <2>1, <2>2, Empty DEF DbftInit, Ctx, Contexts
<1> HIDE DEF Ctx
<1>3. HeldInv(Ctx)
  BY <1>1 DEF HeldInv, Nobody
<1>4. RoleInv(Ctx) /\ OnceInv(Ctx)
  BY <1>1 DEF RoleInv, OnceInv
<1>5. ViewInv(Ctx) /\ SubmitInv(Ctx) /\ IsFiniteSet(Ctx.signed)
  BY <1>1, FS_EmptySet DEF ViewInv, SubmitInv
<1>6. QED
  BY <1>2, <1>3, <1>4, <1>5 DEF ContextInv

\* start of the service.
LEMMA StartKeeps == DbftInv /\ Start => DbftInv'
<1> SUFFICES ASSUME DbftInv, Start PROVE ContextInv(Ctx')
  BY DEF DbftInv
<1>1. ContextInv(Ctx) /\ 0 \in Nat
  BY DEF DbftInv
<1>2. CASE Adopt(InitializeConsensus(Ctx, 0))
  <2>1. ContextInv(InitializeConsensus(Ctx, 0))
    BY <1>1, InitializeConsensusKeeps
  <2>2. QED
    BY <1>2, <2>1, Adopted DEF ContextInv
<1>3. ASSUME NEW b \in BlocksAt(1),
             Adopt(InitializeConsensus([Ctx EXCEPT !.ledger = <<b>>, !.mailbox = <<"block persisted">>], 0))
      PROVE  ContextInv(Ctx')
  <2> DEFINE c == [Ctx EXCEPT !.ledger = <<b>>, !.mailbox = <<"block persisted">>]
  <2>1. b \in Blocks
    BY BlocksAreProposed DEF Proposed
  <2>2. <<b>> \in Seq(Blocks) /\ <<"block persisted">> \in Seq(Notices)
    BY <2>1 DEF Notices
  <2>3. Ctx \in Contexts /\ Ctx.timer \in {"idle", "armed"}
    BY <1>1, Fields DEF ContextInv
  <2>4. c = [Ctx EXCEPT !.mailbox = <<"block persisted">>, !.ledger = <<b>>, !.timer = Ctx.timer]
    <3> HIDE DEF Ctx
    <3>1. QED
      BY <2>3, Zenon DEF Contexts
  <2> HIDE DEF c
  <2>5. ContextInv(c)
    BY <1>1, <2>2, <2>3, <2>4, Aside, Zenon
  <2>6. ContextInv(InitializeConsensus(c, 0))
    BY <1>1, <2>5, InitializeConsensusKeeps
  <2>7. QED
    BY <1>3, <2>6, Adopted DEF ContextInv, c
<1>4. QED
  BY <1>2, <1>3, Zenon DEF Start

\* The timer puts a notice into the mailbox.
LEMMA TimerFiresKeeps == DbftInv /\ TimerFires => DbftInv'
<1> SUFFICES ASSUME DbftInv, TimerFires PROVE ContextInv(Ctx')
  BY DEF DbftInv
<1> DEFINE c == [Ctx EXCEPT !.mailbox = Append(mailbox, "timeout"), !.ledger = ledger, !.timer = "idle"]
<1>1. ContextInv(Ctx) /\ mailbox \in Seq(Notices) /\ ledger \in Seq(Blocks) /\ "timeout" \in Notices
  BY Fields, CtxFields, Zenon DEF DbftInv, ContextInv, Notices
<1>2. Append(mailbox, "timeout") \in Seq(Notices)
  BY <1>1, Appended
<1>3. ContextInv(c)
  <2> HIDE DEF Ctx
  <2>1. QED
    BY <1>1, <1>2, Aside, Zenon
<1>4. Adopt(c)
  BY DEF Ctx, Adopt, TimerFires
<1> HIDE DEF c
<1>5. QED
  BY <1>3, <1>4, Adopted DEF ContextInv

\* Block sync saves a block and puts a notice into the mailbox.
LEMMA SyncedKeeps == DbftInv /\ Synced => DbftInv'
<1> SUFFICES ASSUME DbftInv, Synced PROVE ContextInv(Ctx')
  BY DEF DbftInv
<1>1. /\ ContextInv(Ctx) /\ mailbox \in Seq(Notices) /\ ledger \in Seq(Blocks) /\ timer \in {"idle", "armed"}
      /\ "block persisted" \in Notices
  BY Fields, CtxFields, Zenon DEF DbftInv, ContextInv, Notices
<1>2. Len(ledger) \in Nat
  BY <1>1, Counted, Zenon
<1>3. PICK b \in BlocksAt(Len(ledger) + 1) : ledger' = Append(ledger, b)
  BY Zenon DEF Synced
<1> DEFINE c == [Ctx EXCEPT !.mailbox = Append(mailbox, "block persisted"), !.ledger = Append(ledger, b), !.timer = timer]
<1>4. b \in Blocks
  <2>1. Len(ledger) + 1 \in Nat
    BY <1>2
  <2>2. QED
    BY <1>3, <2>1, BlocksAreProposed DEF Proposed
<1>5. Append(mailbox, "block persisted") \in Seq(Notices) /\ Append(ledger, b) \in Seq(Blocks)
  BY <1>1, <1>4, Appended, ZenonT(40)
<1>6. ContextInv(c)
  <2> HIDE DEF Ctx
  <2>1. QED
    BY <1>1, <1>5, Aside, Zenon
<1>7. Adopt(c)
  BY <1>3, Zenon DEF Ctx, Adopt, Synced
<1> HIDE DEF c
<1>8. QED
  BY <1>6, <1>7, Adopted DEF ContextInv

\* The actor takes a notice: a timeout, or a block that was saved.
LEMMA HandleKeeps == DbftInv /\ Handle => DbftInv'
<1> SUFFICES ASSUME DbftInv, Handle PROVE ContextInv(Ctx')
  BY DEF DbftInv
<1> DEFINE c == [Ctx EXCEPT !.mailbox = Tail(@)]
           k == 1 + Cardinality({s \in signed : s[3].by = Me})
<1>1. /\ ContextInv(Ctx) /\ Ctx \in Contexts /\ mailbox \in Seq(Notices) /\ ledger \in Seq(Blocks)
      /\ timer \in {"idle", "armed"} /\ 0 \in Nat
  BY Fields, CtxFields DEF DbftInv, ContextInv
<1>2. mailbox # <<>>
  BY DEF Handle
<1>3. Tail(mailbox) \in Seq(Notices)
  BY <1>1, <1>2
<1>4. c = [Ctx EXCEPT !.mailbox = Tail(mailbox), !.ledger = ledger, !.timer = timer]
  <2> HIDE DEF Ctx
  <2>1. QED
    BY <1>1, CtxFields, Zenon DEF Contexts
<1>5. k \in Nat
  <2>1. IsFiniteSet(signed)
    BY <1>1, CtxFields DEF ContextInv
  <2>2. IsFiniteSet({s \in signed : s[3].by = Me})
    BY <2>1, FS_Subset
  <2>3. Cardinality({s \in signed : s[3].by = Me}) \in Nat
    BY <2>2, FS_CardinalityType
  <2>4. QED
    BY <2>3
<1>6. (\E why : Adopt(Timeout(c, k, why))) \/ Adopt(InitializeConsensus(c, 0))
  BY Zenon DEF Handle
<1> HIDE DEF c, k
<1>7. ContextInv(c)
  BY <1>1, <1>3, <1>4, Aside, Zenon
<1>8. ASSUME NEW why, Adopt(Timeout(c, k, why)) PROVE ContextInv(Ctx')
  <2>1. ContextInv(Timeout(c, k, why))
    BY <1>5, <1>7, TimeoutKeeps
  <2>2. QED
    BY <1>8, <2>1, Adopted DEF ContextInv
<1>9. ASSUME Adopt(InitializeConsensus(c, 0)) PROVE ContextInv(Ctx')
  <2>1. ContextInv(InitializeConsensus(c, 0))
    BY <1>1, <1>7, InitializeConsensusKeeps
  <2>2. QED
    BY <1>9, <2>1, Adopted DEF ContextInv
<1>10. QED
  BY <1>6, <1>8, <1>9

\* The actor takes a message of each kind.
LEMMA GetPrepareRequestKeeps == DbftInv /\ GetPrepareRequest => DbftInv'
<1> SUFFICES ASSUME DbftInv, GetPrepareRequest PROVE ContextInv(Ctx')
  BY DEF DbftInv
<1>1. ContextInv(Ctx) /\ height \in Nat
  BY Fields, CtxFields DEF DbftInv, ContextInv
<1>2. PICK b \in BlocksAt(height), why \in {"fine", "time", "signature", "transactions", "bookkeepers", "reading"} :
        primaryIndex \in Others /\ Adopt(PrepareRequestReceived(Ctx, primaryIndex, b, why))
  BY DEF GetPrepareRequest, Receives
<1>3. b \in Proposed /\ primaryIndex \in Bookkeepers
  BY <1>1, <1>2, BlocksAreProposed DEF Others
<1>4. ContextInv(PrepareRequestReceived(Ctx, primaryIndex, b, why))
  BY <1>1, <1>3, PrepareRequestReceivedKeeps
<1>5. QED
  BY <1>2, <1>4, Adopted DEF ContextInv

\* A signature of another bookkeeper arrives.
LEMMA GetPrepareResponseKeeps == DbftInv /\ GetPrepareResponse => DbftInv'
<1> SUFFICES ASSUME DbftInv, GetPrepareResponse PROVE ContextInv(Ctx')
  BY DEF DbftInv
<1>1. ContextInv(Ctx) /\ height \in Nat
  BY Fields, CtxFields DEF DbftInv, ContextInv
<1>2. PICK from \in Others, b \in BlocksAt(height), fails \in BOOLEAN : Adopt(PrepareResponseReceived(Ctx, from, b, fails))
  BY DEF GetPrepareResponse
<1>3. b \in Proposed /\ from \in Bookkeepers
  BY <1>1, BlocksAreProposed DEF Others
<1>4. ContextInv(PrepareResponseReceived(Ctx, from, b, fails))
  BY <1>1, <1>3, PrepareResponseReceivedKeeps
<1>5. QED
  BY <1>2, <1>4, Adopted DEF ContextInv

\* The signatures of a block another bookkeeper has sealed arrive.
LEMMA GetBlockSignaturesKeeps == DbftInv /\ GetBlockSignatures => DbftInv'
<1> SUFFICES ASSUME DbftInv, GetBlockSignatures PROVE ContextInv(Ctx')
  BY DEF DbftInv
<1>1. ContextInv(Ctx) /\ height \in Nat
  BY Fields, CtxFields DEF DbftInv, ContextInv
<1>2. PICK from \in Others, b \in BlocksAt(height), who \in SUBSET Bookkeepers :
        Adopt(BlockSignaturesReceived(Ctx, from, [k \in Bookkeepers |-> IF k \in who THEN <<b>> ELSE <<>>], FALSE))
  BY Zenon DEF GetBlockSignatures
<1> DEFINE sigs == [k \in Bookkeepers |-> IF k \in who THEN <<b>> ELSE <<>>]
<1>3. b \in Proposed /\ from \in Bookkeepers
  BY <1>1, BlocksAreProposed DEF Others
<1>4. sigs \in [Bookkeepers -> {<<>>, <<b>>}]
  OBVIOUS
<1> HIDE DEF sigs
<1>5. ContextInv(BlockSignaturesReceived(Ctx, from, sigs, FALSE))
  BY <1>1, <1>3, <1>4, BlockSignaturesReceivedKeeps, Zenon
<1>6. QED
  BY <1>2, <1>5, Adopted, Zenon DEF ContextInv, sigs

\* Another bookkeeper asks for a later view.
LEMMA GetChangeViewKeeps == DbftInv /\ GetChangeView => DbftInv'
<1> SUFFICES ASSUME DbftInv, GetChangeView PROVE ContextInv(Ctx')
  BY DEF DbftInv
<1>1. ContextInv(Ctx)
  BY DEF DbftInv
<1>2. PICK from \in Others, v \in 1..MaxView : Adopt(ChangeViewReceived(Ctx, from, v))
  BY DEF GetChangeView
<1>3. v \in Nat /\ from \in Bookkeepers
  BY DEF Others
<1>4. ContextInv(ChangeViewReceived(Ctx, from, v))
  BY <1>1, <1>3, ChangeViewReceivedKeeps
<1>5. QED
  BY <1>2, <1>4, Adopted DEF ContextInv

---------------------------------------------------------------------------
(* Theorems *)

(* The invariant holds in every state: the bookkeeper is asked for at most  *)
(* one signature in a view, its flags tell of it, views only grow within a  *)
(* round, and the signatures it keeps cover the header of the block at hand *)
(* (every handler of dbft_service.go and what consensus_context.go keeps).  *)
THEOREM DbftInvariance == DbftSpec => []DbftInv
<1>1. DbftInit => DbftInv
  BY InitInv
<1>2. DbftInv /\ [DbftNext]_dbftVars => DbftInv'
  <2>1. DbftInv /\ UNCHANGED dbftVars => DbftInv'
    <3> SUFFICES ASSUME DbftInv, UNCHANGED dbftVars PROVE ContextInv(Ctx')
      BY DEF DbftInv
    <3>1. Ctx' = Ctx
      BY DEF dbftVars, Ctx
    <3>2. QED
      BY <3>1 DEF DbftInv
  <2>2. QED
    BY <2>1, StartKeeps, TimerFiresKeeps, HandleKeeps, SyncedKeeps, GetPrepareRequestKeeps,
       GetPrepareResponseKeeps, GetBlockSignaturesKeeps, GetChangeViewKeeps DEF DbftNext
<1>3. QED
  BY <1>1, <1>2, PTL DEF DbftSpec

(* For every set of bookkeepers and whatever arrives when: in one view of   *)
(* one round the bookkeeper signs one block at most, and a block it submits *)
(* has M signatures, all over the header of its own transactions            *)
(* (PrepareRequestReceived, Timeout, InitializeConsensus, CheckSignatures). *)
THEOREM DbftIsSound == DbftSpec => []DbftSound
<1>1. DbftInv => DbftSound
  <2> SUFFICES ASSUME DbftInv PROVE DbftSound
    OBVIOUS
  <2>1. OnceInv(Ctx) /\ SubmitInv(Ctx)
    BY DEF DbftInv, ContextInv
  <2>2. \A s, t \in signed : s[1] = t[1] /\ s[2] = t[2] => s[3] = t[3]
    BY <2>1, CtxFields DEF OnceInv
  <2>3. QED
    BY <2>1, <2>2, CtxFields, Zenon DEF SubmitInv, DbftSound
<1>2. QED
  BY <1>1, DbftInvariance, PTL
============================================================================
