-------------------------------- MODULE MCTx --------------------------------
(* The blocks that transaction execution runs in the model checker's run.    *)
EXTENDS TxExec, TLC

invokeTx(entry, price, limit, len, ops) ==
    [kind |-> "invoke", sys |-> FALSE, price |-> price, limit |-> limit, len |-> len, entry |-> entry,
     ops |-> ops, amounts |-> {3}]
deployTx(a, price, limit, valid) ==
    [kind |-> "deploy", sys |-> FALSE, price |-> price, limit |-> limit, len |-> 1, addr |-> a, valid |-> valid]
sysTx(t) == [t EXCEPT !.sys = TRUE]

\* Contracts 1 (NeoVM) and 3 (wasm) are deployed and have storage; the payer has n ONG.
stored(n) == (101 :> 1) @@ (103 :> 1) @@ (11 :> 1) @@ (12 :> 1) @@ (31 :> 1) @@ (91 :> n)
blockOf(s, w, txs, tune) == [store |-> s, written |-> w, txs |-> txs, tune |-> tune]

mcEmptyBlock == blockOf(91 :> 1, EmptyMem, <<>>, FALSE)

mcBlocks ==
  { \* nested calls, migration and destruction under the calls
    blockOf(stored(20), (12 :> 0) @@ (13 :> 1), <<invokeTx(0, 1, 8, 1, {"call", "put", "migrate", "destroy"})>>, TRUE),
    blockOf(stored(20), (12 :> 0) @@ (11 :> 3), <<invokeTx(0, 1, 7, 1, {"call", "delete", "create", "migrate"})>>, FALSE),
    \* fees: several transactions, balances that run out
    blockOf(stored(7), EmptyMem, <<invokeTx(1, 2, 4, 1, {"put", "transfer", "compute", "fault"}),
                                   invokeTx(1, 1, 3, 1, {"put", "transfer", "notify", "fault"})>>, TRUE),
    blockOf(stored(3), EmptyMem, <<invokeTx(1, 2, 4, 1, {"put"}), invokeTx(1, 1, 3, 1, {"put"}),
                                   deployTx(2, 1, 9, TRUE)>>, TRUE),
    blockOf(stored(13), EmptyMem, <<invokeTx(1, 2, 2, 3, {"put"}), deployTx(2, 1, 2, TRUE), deployTx(2, 1, 9, TRUE),
                                    invokeTx(2, 1, 3, 0, {"put", "notify"})>>, FALSE),
    blockOf(stored(9), EmptyMem, <<deployTx(4, 1, 4, FALSE), invokeTx(4, 1, 3, 0, {"put"}), deployTx(4, 0, 4, TRUE),
                                   deployTx(4, 1, 9, TRUE),
                                   sysTx(invokeTx(1, 1, 3, 1, {"put", "fault", "storefail"}))>>, TRUE),
    \* wasm
    blockOf(stored(20), (32 :> 1), <<invokeTx(3, 1, 7, 1, {"call", "put", "migrate", "destroy", "notify"})>>, FALSE),
    mcEmptyBlock }
=============================================================================
