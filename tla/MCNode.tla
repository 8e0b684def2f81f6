------------------------------- MODULE MCNode -------------------------------
(***************************************************************************)
(* The parts of a node that make, execute and fetch blocks, in one run: the *)
(* VBFT server and its syncer, the older dBFT service, the transaction      *)
(* pool, transaction execution, the NeoVM, block synchronization, the block *)
(* Merkle tree, the network's connections, the table of peers and the       *)
(* wallets.                                                                 *)
(* `focus` picks, at the start, the part that a behaviour exercises; the    *)
(* others keep an initial state, so that the states are the union, and not  *)
(* the product, of the parts' own.                                          *)
(***************************************************************************)
EXTENDS MCVbft, MCTx, MCVm, TxPool, Dbft, BlockSync, Merkle, Connections, PeerTable, Wallet

VARIABLE focus

netVars == <<merkleVars, connVars, tableVars, walletVars, storeVars>>
nodeVars == <<focus, srvVars, syncVars, txVars, poolVars, neoVars, dbftVars, bsVars, netVars>>

\* The transaction pool's days: what is submitted, asked for, saved.
mcGas == "a" :> 2 @@ "b" :> 1 @@ "x" :> 2
submitted_(t, s) == [tx |-> t, sender |-> s]
asked(t, h) == [txs |-> t, height |-> h]
quietDay == [submit |-> {}, ask |-> <<>>, fetch |-> <<>>, save |-> <<>>, price |-> <<1, 1>>, expire |-> 0,
             has |-> [t \in {} |-> 0]]
mcDays ==
  { [quietDay EXCEPT !.submit = {submitted_("a", "http"), submitted_("a", "net")}, !.ask = <<asked({"a", "b"}, 0)>>],
    [quietDay EXCEPT !.submit = {submitted_("x", "http")}, !.ask = <<asked({"a", "x"}, 0)>>],
    [quietDay EXCEPT !.submit = {submitted_("a", "http")}, !.has = "b" :> 0, !.save = <<{"b"}>>,
                     !.ask = <<asked({"a", "b"}, 1)>>],
    [quietDay EXCEPT !.has = "b" :> 0 @@ "a" :> 0, !.save = <<{"a"}>>, !.price = <<2, 2>>,
                     !.ask = <<asked({"b"}, 1)>>, !.fetch = <<1>>],
    [quietDay EXCEPT !.submit = {submitted_("a", "http")}, !.expire = 1, !.ask = <<asked({"a"}, 0)>>],
    [quietDay EXCEPT !.has = "a" :> 0 @@ "b" :> 0, !.save = <<{}>>, !.ask = <<asked({"a", "b"}, 1), asked({"a"}, 0)>>],
    [quietDay EXCEPT !.submit = {submitted_("a", "net")}, !.save = <<{"a"}>>, !.ask = <<asked({"a"}, 1)>>] }

\* Peers to fetch blocks from: p1 is good.
mcSituation(h1, h2, kind2, empty, lost, outside, announced) ==
    [heights |-> [p1 |-> h1, p2 |-> h2], kinds |-> [p1 |-> "good", p2 |-> kind2], empty |-> empty,
     faults |-> lost, outside |-> outside, announced |-> announced]
mcSituations ==
  { mcSituation(3, 3, "bad", {2}, 0, 0, FALSE), mcSituation(3, 1, "silent", {}, 1, 0, FALSE),
    mcSituation(1, 2, "good", {}, 0, 1, TRUE), mcSituation(2, 2, "bad", {}, 0, 0, FALSE) }

\* Connections that meet: of one peer in both directions, to one address twice, of one
\* peer from two places, of this node with itself, of several peers of one place.
inbound(i, ip, kid) == [id |-> i, dir |-> "in", addr |-> <<ip, i>>, ip |-> ip, listen |-> <<ip, 0>>, kid |-> kid]
outbound(i, ip, kid) == [id |-> i, dir |-> "out", addr |-> <<ip, 0>>, ip |-> ip, listen |-> <<ip, 0>>, kid |-> kid]
mcMeetings ==
  { {inbound(1, "A", "p"), outbound(2, "A", "p"), inbound(3, "A", "p")},
    {outbound(1, "A", "p"), outbound(2, "A", "p"), inbound(3, "B", "p")},
    {outbound(1, "A", "self"), outbound(2, "A", "self"), outbound(3, "B", "q")},
    {inbound(1, "A", "p"), inbound(2, "A", "q"), inbound(3, "B", "r")} }
mcAddrOf == [i \in 0..7 |-> i]

\* The parts that are not exercised keep one initial state.
mcIdleScenario == booting(<<>>, {}, 0)

NodeInit ==
    /\ focus \in {"server", "sync", "dbft", "pool", "tx", "vm", "blocks", "merkle", "connections", "table",
                 "wallet", "store"}
    /\ SrvInit  /\ (focus = "server" \/ env = mcIdleScenario)
    /\ SyncInit /\ (focus = "sync" \/ ticks = 1)
    /\ TxInit   /\ (focus = "tx" \/ todoTxs = mcEmptyBlock.txs)
    /\ PoolInit /\ (focus = "pool" \/ day.expire = 1)
    /\ IF focus = "vm" THEN NeoInit
       ELSE /\ program = [code |-> <<>>, disableHasKey |-> FALSE, allowEOF |-> FALSE]
            /\ vm = [eval |-> <<>>, alt |-> <<>>, heap |-> <<>>, callers |-> <<>>, ip |-> 0, state |-> "NONE"]
    /\ DbftInit
    /\ BsInit   /\ (focus = "blocks" \/ situation.empty # {})
    /\ MerkleInit /\ TableInit /\ WalletInit
    /\ StoreInit /\ (focus = "store" \/ db.init)
    /\ ConnInit /\ (focus = "connections" \/ \A c \in attempts : c.dir = "in")

NodeNext ==
    /\ UNCHANGED focus
    /\ \/ /\ focus = "server" /\ SrvNext
          /\ UNCHANGED <<syncVars, txVars, poolVars, neoVars, dbftVars, bsVars, netVars>>
       \/ /\ focus = "sync" /\ SyncNext
          /\ UNCHANGED <<srvVars, txVars, poolVars, neoVars, dbftVars, bsVars, netVars>>
       \/ /\ focus = "tx" /\ TxNext
          /\ UNCHANGED <<srvVars, syncVars, poolVars, neoVars, dbftVars, bsVars, netVars>>
       \/ /\ focus = "pool" /\ PoolNext
          /\ UNCHANGED <<srvVars, syncVars, txVars, neoVars, dbftVars, bsVars, netVars>>
       \/ /\ focus = "vm" /\ NeoNext
          /\ UNCHANGED <<srvVars, syncVars, txVars, poolVars, dbftVars, bsVars, netVars>>
       \/ /\ focus = "dbft" /\ DbftNext
          /\ UNCHANGED <<srvVars, syncVars, txVars, poolVars, neoVars, bsVars, netVars>>
       \/ /\ focus = "blocks" /\ BsNext
          /\ UNCHANGED <<srvVars, syncVars, txVars, poolVars, neoVars, dbftVars, netVars>>
       \/ /\ focus = "merkle" /\ MerkleNext
          /\ UNCHANGED <<srvVars, syncVars, txVars, poolVars, neoVars, dbftVars, bsVars, connVars, tableVars, walletVars, storeVars>>
       \/ /\ focus = "connections" /\ ConnNext
          /\ UNCHANGED <<srvVars, syncVars, txVars, poolVars, neoVars, dbftVars, bsVars, merkleVars, tableVars, walletVars, storeVars>>
       \/ /\ focus = "table" /\ TableNext
          /\ UNCHANGED <<srvVars, syncVars, txVars, poolVars, neoVars, dbftVars, bsVars, merkleVars, connVars, walletVars, storeVars>>
       \/ /\ focus = "wallet" /\ WalletNext
          /\ UNCHANGED <<srvVars, syncVars, txVars, poolVars, neoVars, dbftVars, bsVars, merkleVars, connVars, tableVars, storeVars>>
       \/ /\ focus = "store" /\ StoreNext
          /\ UNCHANGED <<srvVars, syncVars, txVars, poolVars, neoVars, dbftVars, bsVars, merkleVars, connVars, tableVars, walletVars>>

NodeSpec == NodeInit /\ [][NodeNext]_nodeVars

\* The type invariant of the part the behaviour exercises.
NodeTypeOK ==
    CASE focus = "server" -> SrvTypeOK
      [] focus = "sync"   -> SyncTypeOK
      [] focus = "tx"     -> TxTypeOK
      [] focus = "pool"   -> PoolTypeOK
      [] focus = "vm"     -> NeoTypeOK
      [] focus = "dbft"   -> DbftTypeOK
      [] focus = "blocks" -> BsTypeOK
      [] focus = "merkle" -> MerkleTypeOK
      [] focus = "connections" -> ConnTypeOK
      [] focus = "table"  -> TableTypeOK
      [] focus \in {"wallet", "store"} -> WalletTypeOK
=============================================================================
