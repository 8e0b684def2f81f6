------------------------------- MODULE Dbft -------------------------------
(***************************************************************************)
(* One bookkeeper of dBFT (consensus/dbft).  The service is an actor:      *)
(* every message is handled to its end before the next.  The other         *)
(* bookkeepers are the environment: they send requests, responses, change  *)
(* view requests and block signatures in any order, and the ledger may be  *)
(* moved on by block synchronization meanwhile.                            *)
(*                                                                         *)
(* A block is the header that is signed, [h, by, n]: its height, the       *)
(* bookkeeper that first proposed it, and a counter that stands for time   *)
(* stamp, nonce and transactions.  A signature is the block it covers.     *)
(***************************************************************************)
EXTENDS Integers, Sequences, FiniteSets

CONSTANTS Bookkeepers,   \* 0..n-1, positions in the list of bookkeepers
          Me,            \* this node's position
          MaxDbftHeight, MaxView, MaxMsgs   \* bounds

ASSUME BookkeepersAssumption == Bookkeepers \subseteq Nat /\ IsFiniteSet(Bookkeepers) /\ Me \in Bookkeepers

VARIABLES started, mailbox, timer, ledger,
          flags, height, viewNumber, primaryIndex,
          content, header, signatures, expectedView,
          round, signed, submitted, received

dbftVars == <<started, mailbox, timer, ledger, flags, height, viewNumber, primaryIndex,
              content, header, signatures, expectedView, round, signed, submitted, received>>

(* The fields of ConsensusContext that handlers change together. *)
Ctx == [flags |-> flags, height |-> height, view |-> viewNumber, primary |-> primaryIndex,
        content |-> content, header |-> header, sigs |-> signatures, expected |-> expectedView,
        timer |-> timer, round |-> round, signed |-> signed, submitted |-> submitted, ledger |-> ledger,
        mailbox |-> mailbox]

Adopt(c) ==
  /\ flags' = c.flags /\ height' = c.height /\ viewNumber' = c.view /\ primaryIndex' = c.primary
  /\ content' = c.content /\ header' = c.header /\ signatures' = c.sigs /\ expectedView' = c.expected
  /\ timer' = c.timer /\ round' = c.round /\ signed' = c.signed /\ submitted' = c.submitted /\ ledger' = c.ledger
  /\ mailbox' = c.mailbox

Nobody == [b \in Bookkeepers |-> <<>>]
Size == Cardinality(Bookkeepers)
M == Size - ((Size - 1) \div 3)

\* Header fields left from the previous round: no bookkeeper signs this block.
Leftover(h) == [h |-> h, by |-> -1, n |-> 0]
Proposal(h, b, n) == [h |-> h, by |-> b, n |-> n]

\* MakeHeader caches the header of the current fields.
MakeHeader(c) == IF c.header = <<>> THEN [c EXCEPT !.header = <<c.content>>] ELSE c

(* Reset: the round of the block after the ledger's newest.  `round` counts *)
(* the rounds begun: of one height there is more than one where the ledger *)
(* was ahead of the notices of its blocks.                                 *)
Reset(c) ==
  [c EXCEPT !.flags = {}, !.height = Len(c.ledger) + 1, !.view = 0, !.primary = (Len(c.ledger) + 1) % Size,
            !.content = Leftover(Len(c.ledger) + 1), !.header = <<>>, !.sigs = Nobody,
            !.expected = [b \in Bookkeepers |-> 0], !.round = @ + 1]

(* ChangeView: only SignatureSent survives, and with it the round's block. *)
ChangeView(c, v) ==
  LET kept == c.flags \cap {"SignatureSent"}
      n == [c EXCEPT !.flags = kept, !.view = v, !.primary = (c.height - v) % Size]
  IN IF kept # {} THEN n
     ELSE [n EXCEPT !.content = Leftover(c.height), !.sigs = Nobody, !.header = <<>>]

(* InitializeConsensus arms the timer and takes the role of the view; a    *)
(* backup forgets that it has signed, a primary does not.                  *)
InitializeConsensus(c, v) ==
  IF v # 0 /\ "BlockGenerated" \in c.flags THEN c
  ELSE LET n == IF v = 0 THEN Reset(c) ELSE ChangeView(c, v)
       IN IF Me = n.primary
          THEN [n EXCEPT !.flags = @ \cup {"Primary"}, !.timer = "armed"]
          ELSE [n EXCEPT !.flags = {"Backup"}, !.timer = "armed"]

CheckExpectedView(c, v) ==
  IF \/ "BlockGenerated" \in c.flags
     \/ c.view = v
     \/ Cardinality({b \in Bookkeepers : c.expected[b] = v}) < M
  THEN c ELSE InitializeConsensus(c, v)

RequestChangeView(c) ==
  IF "BlockGenerated" \in c.flags THEN c
  ELSE LET v == IF c.view > c.expected[Me] THEN c.view + 1 ELSE c.expected[Me] + 1
       IN CheckExpectedView([c EXCEPT !.expected[Me] = v, !.timer = "armed"], v)

Signers(c) == {b \in Bookkeepers : c.sigs[b] # <<>>}

SubmitBlock(c) ==
  [c EXCEPT !.ledger = Append(@, c.header[1]), !.mailbox = Append(@, "block persisted"),
            !.flags = @ \cup {"BlockGenerated"},
            !.submitted = @ \cup {[block |-> c.content, header |-> c.header[1], sigs |-> c.sigs]}]

\* Mutant: the block is submitted one signature short.
CheckSignaturesShort(c, fails) == IF Cardinality(Signers(c)) < M - 1 THEN c ELSE SubmitBlock(c)

(* CheckSignatures: the block with M signatures is executed and submitted, *)
(* which publishes the event that starts the next round.  A block the      *)
(* ledger already has is left alone; saving may fail; and where the ledger *)
(* has another block of the height, ExecuteBlock and SubmitBlock return no *)
(* error, so the block counts as generated though it is not saved.         *)
CheckSignatures(c, fails) ==
  IF Cardinality(Signers(c)) < M THEN c
  ELSE IF Len(c.ledger) >= c.height
  THEN IF c.ledger[c.height] = c.header[1] THEN c ELSE [c EXCEPT !.flags = @ \cup {"BlockGenerated"}]
  ELSE IF fails THEN c
  ELSE SubmitBlock(c)

Sign(c) == [c EXCEPT !.sigs[Me] = c.header, !.signed = @ \cup {<<c.round, c.view, c.header[1]>>}]

(* PrepareRequestReceived.  "why" says what is wrong with the request: its *)
(* time stamp, its signature, its transactions, the next bookkeepers it    *)
(* names, or reading them here.  A refused request leaves the context as   *)
(* it was, so a later one of the view is still considered.                 *)
PrepareRequestReceived(c, from, block, why) ==
  IF "Backup" \notin c.flags \/ "RequestReceived" \in c.flags \/ from # c.primary \/ why = "time" THEN c
  ELSE IF why \in {"signature", "transactions", "bookkeepers"} THEN RequestChangeView(c)
  ELSE IF why = "reading" THEN c
  ELSE LET n == [c EXCEPT !.flags = @ \cup {"RequestReceived", "SignatureSent"}, !.content = block,
                          !.header = <<block>>, !.sigs = [Nobody EXCEPT ![from] = <<block>>]]
       IN Sign(n)

PrepareResponseReceived(c, from, sig, fails) ==
  IF c.sigs[from] # <<>> THEN c
  ELSE LET n == MakeHeader(c)
       IN IF n.header # <<sig>> THEN n
          ELSE CheckSignatures([n EXCEPT !.sigs[from] = <<sig>>], fails)

\* Signatures that do not verify are skipped; those already held are kept.
\* (The loop stops at M signatures, CheckSignatures takes the first M.)
BlockSignaturesReceived(c, from, sigs, fails) ==
  IF c.sigs[from] # <<>> THEN c
  ELSE LET n == MakeHeader(c)
       IN CheckSignatures([n EXCEPT !.sigs = [b \in Bookkeepers |->
              IF @[b] = <<>> /\ sigs[b] = n.header THEN sigs[b] ELSE @[b]]], fails)

ChangeViewReceived(c, from, v) ==
  IF v <= c.expected[from] THEN c ELSE CheckExpectedView([c EXCEPT !.expected[from] = v], v)

(* Timeout: the primary proposes, once per view; having signed in an       *)
(* earlier view it repeats that block.  Reading the ledger or the next     *)
(* bookkeepers may fail, after which only a change of view helps - but the *)
(* timer is not armed again on that path.                                  *)
Timeout(c, n, why) ==
  IF "Primary" \in c.flags /\ "RequestSent" \notin c.flags
  THEN LET s == [c EXCEPT !.flags = @ \cup {"RequestSent"}]
           b == Proposal(c.height, Me, n)
       IN IF "SignatureSent" \in c.flags THEN [s EXCEPT !.timer = "armed"]
          ELSE IF why = "reading" THEN s
          ELSE Sign([s EXCEPT !.content = b, !.header = <<b>>, !.timer = "armed"])
  ELSE IF {"Primary", "Backup"} \cap c.flags # {} THEN RequestChangeView(c)
  ELSE c

(* ---- The actor's mailbox ---------------------------------------------- *)
Others == Bookkeepers \ {Me}
\* What others may sign: their own proposals, and this node's once it made them.
BlocksAt(h) == {Proposal(h, b, 1) : b \in Others} \cup {s[3] : s \in {t \in signed : t[3].h = h}}

(* NewConsensusPayload drops messages of another height or, but for change *)
(* view requests, of another view, and all of them once the block is made. *)
Receives(from) ==
  /\ started /\ from \in Others /\ received < MaxMsgs /\ height <= MaxDbftHeight
  /\ "BlockGenerated" \notin flags
  /\ received' = received + 1
  /\ UNCHANGED started

GetPrepareRequest ==
  \E b \in BlocksAt(height), why \in {"fine", "time", "signature", "transactions", "bookkeepers", "reading"} :
    /\ viewNumber < MaxView /\ expectedView[Me] < MaxView
    /\ Receives(primaryIndex)
    /\ Adopt(PrepareRequestReceived(Ctx, primaryIndex, b, why))

GetPrepareResponse ==
  \E from \in Others, b \in BlocksAt(height), fails \in BOOLEAN :
    Receives(from) /\ Adopt(PrepareResponseReceived(Ctx, from, b, fails))

GetBlockSignatures ==
  \E from \in Others, b \in BlocksAt(height), who \in SUBSET Bookkeepers :
    /\ Cardinality(who) = M
    /\ Me \in who => \E s \in signed : s[3] = b
    /\ Receives(from)
    /\ Adopt(BlockSignaturesReceived(Ctx, from, [k \in Bookkeepers |-> IF k \in who THEN <<b>> ELSE <<>>], FALSE))

GetChangeView ==
  \E from \in Others, v \in 1..MaxView : Receives(from) /\ Adopt(ChangeViewReceived(Ctx, from, v))

\* start subscribes to the ledger and then reads it: a block saved in between is read,
\* and its notice is still to come.
Start ==
  /\ ~started
  /\ started' = TRUE
  /\ \/ Adopt(InitializeConsensus(Ctx, 0))
     \/ \E b \in BlocksAt(1) :
          Adopt(InitializeConsensus([Ctx EXCEPT !.ledger = <<b>>, !.mailbox = <<"block persisted">>], 0))
  /\ UNCHANGED received

\* The timer's goroutine tells the actor; a notice in the mailbox stays there.
TimerFires ==
  /\ timer = "armed" /\ height <= MaxDbftHeight
  /\ viewNumber < MaxView
  /\ expectedView[Me] + Len(SelectSeq(mailbox, LAMBDA m : m = "timeout")) < MaxView
  /\ timer' = "idle"
  /\ mailbox' = Append(mailbox, "timeout")
  /\ UNCHANGED <<started, ledger, flags, height, viewNumber, primaryIndex, content, header, signatures,
                 expectedView, round, signed, submitted, received>>

Handle ==
  /\ mailbox # <<>>
  /\ LET c == [Ctx EXCEPT !.mailbox = Tail(@)]
     IN IF Head(mailbox) = "timeout"
        THEN \E why \in {"fine", "reading"} :
               Adopt(Timeout(c, 1 + Cardinality({s \in signed : s[3].by = Me}), why))
        ELSE Adopt(InitializeConsensus(c, 0))
  /\ UNCHANGED <<started, received>>

\* Block synchronization saves the next block, whoever made it.
Synced ==
  /\ started
  /\ Len(ledger) < MaxDbftHeight
  /\ \E b \in BlocksAt(Len(ledger) + 1) : ledger' = Append(ledger, b)
  /\ mailbox' = Append(mailbox, "block persisted")
  /\ UNCHANGED <<started, timer, flags, height, viewNumber, primaryIndex, content, header, signatures,
                 expectedView, round, signed, submitted, received>>

DbftInit ==
  /\ started = FALSE /\ mailbox = <<>> /\ timer = "idle" /\ ledger = <<>>
  /\ flags = {} /\ height = 0 /\ viewNumber = 0 /\ primaryIndex = 0
  /\ content = Leftover(0) /\ header = <<>> /\ signatures = Nobody
  /\ expectedView = [b \in Bookkeepers |-> 0]
  /\ round = 0 /\ signed = {} /\ submitted = {} /\ received = 0

DbftNext ==
  \/ Start \/ TimerFires \/ Handle \/ Synced
  \/ GetPrepareRequest \/ GetPrepareResponse \/ GetBlockSignatures \/ GetChangeView

DbftSpec == DbftInit /\ [][DbftNext]_dbftVars

(* ---- Properties ------------------------------------------------------- *)
DbftTypeOK ==
  /\ height \in 0..(MaxDbftHeight + 1) /\ viewNumber \in 0..MaxView /\ primaryIndex \in Bookkeepers
  /\ timer \in {"idle", "armed"}
  /\ flags \subseteq {"Primary", "Backup", "RequestSent", "RequestReceived", "SignatureSent", "BlockGenerated"}

(* In one view of one round the bookkeeper signs one block at most,         *)
(* whatever requests, timeouts and change views it meets; and a block it    *)
(* submits has the signatures of M bookkeepers, all over the header that    *)
(* belongs to the block's own transactions (PrepareRequestReceived,         *)
(* PrepareResponseReceived, InitializeConsensus, CheckSignatures).          *)
DbftSound ==
  /\ \A s, t \in signed : s[1] = t[1] /\ s[2] = t[2] => s[3] = t[3]
  /\ \A s \in submitted :
       /\ s.header = s.block
       /\ Cardinality({b \in Bookkeepers : s.sigs[b] = <<s.block>>}) >= M
       /\ \A b \in Bookkeepers : s.sigs[b] \in {<<>>, <<s.block>>}
============================================================================
