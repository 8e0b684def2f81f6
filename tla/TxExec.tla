------------------------------ MODULE TxExec -------------------------------
(* The execution of the transactions of a block (executeBlock,               *)
(* handleTransaction, tx_handler.go) by the NeoVM and wasm services, with    *)
(* the calls between contracts (smart_contract.go) and the fee in ONG.       *)
(*                                                                           *)
(* A contract is a number; its storage keys and its deployment record are    *)
(* numbers made from it.  A program is not data: at each step the running    *)
(* contract takes any of the operations its transaction allows, so that a    *)
(* run shows every program over them.                                        *)
EXTENDS StateLayers

CONSTANTS
    Addrs,        \* the contracts
    Wasm,         \* those of the wasm kind
    Slots,        \* the keys in the storage of a contract
    Blocks,       \* blocks to explore: the state before (store, in the block so far: written),
                  \* the transactions (txs) and whether fees are rounded up (tune)
    MinGas,       \* MIN_TRANSACTION_GAS
    CreateGas,    \* CONTRACT_CREATE_NAME of the gas table
    PutGas,       \* STORAGE_PUT_NAME of the gas table
    OpGas,        \* every other price
    MaxEngine     \* MAX_EXECUTE_ENGINE

VARIABLES
    store,    \* the state the ledger has saved
    overlay,  \* the OverlayDB of the block
    cache,    \* the CacheDB of the transactions
    phase,    \* "idle", between transactions; "run"; "saved"; or "failed": the block is given up
    todoTxs,  \* the transactions of the block still to execute
    tx,       \* the transaction in execution
    gasLeft,  \* SmartContract.Gas
    avail,    \* availableGasLimit
    oldBal,   \* oldBalance
    contexts, \* SmartContract.Contexts, one per engine at work
    seen,     \* the contracts whose storage context some contract holds
    notes,    \* SmartContract.Notifications
    receipt,  \* the ExecuteNotify of the last transaction
    prior,    \* the state before the last transaction
    tuned     \* the block is at a height where fees are rounded up

txVars == <<store, overlay, cache, phase, todoTxs, tx, gasLeft, avail, oldBal, contexts, seen,
            notes, receipt, prior, tuned>>

Script    == 0                       \* the address of a script that is not deployed
SlotKey(a, s)  == 10 * a + s          \* genStorageKey
ContractKey(a) == 100 + a
Payer     == 91
Gov       == 92
Other     == 93
Keys      == {SlotKey(a, s) : a \in Addrs, s \in Slots} \cup {ContractKey(a) : a \in Addrs}
                \cup {Payer, Gov, Other}
RangeOf(a) == {SlotKey(a, s) : s \in Slots}

get(k)      == CacheGet(store, overlay, cache, k)
deployed(a) == a # Script /\ get(ContractKey(a)) # NoVal
View(ov, c) == [k \in Keys |-> CacheGet(store, ov, c, k)]

(* ONG transfer from the payer over the cache c; the balance that falls to   *)
(* zero is deleted.  canPay is what the transfer fails without.              *)
balance(c, k)    == CacheGet(store, overlay, c, k)
canPay(c, n)     == balance(c, Payer) >= n
pay(c, to, n)    ==
    IF n = 0 THEN c ELSE memPut(memPut(c, Payer, balance(c, Payer) - n), to, balance(c, to) + n)

tuneGasFeeByHeight(gas, round, curBalance) ==
    IF tuned THEN Min({round * ((gas + round - 1) \div round), curBalance}) ELSE gas

----------------------------------------------------------------------------
TxInit ==
    /\ \E b \in Blocks : /\ store = [k \in Keys |-> IF k \in DOMAIN b.store THEN b.store[k] ELSE NoVal]
                         /\ overlay = b.written
                         /\ todoTxs = b.txs
                         /\ tuned = b.tune
    /\ cache = EmptyMem /\ phase = "idle" /\ tx = << >>
    /\ gasLeft = 0 /\ avail = 0 /\ oldBal = 0
    /\ contexts = << >> /\ seen = {} /\ notes = 0
    /\ receipt = [state |-> "none", gas |-> 0, notes |-> 0]
    /\ prior = View(overlay, EmptyMem)

(* Mutant: the fee is charged on the cache of the failed transaction.        *)
costInvalidGasDirty(n) ==
    /\ overlay' = CacheCommit(overlay, pay(cache, Gov, n))
    /\ receipt' = [state |-> "fail", gas |-> n, notes |-> IF n = 0 THEN 0 ELSE 1]

(* What a transaction that is given up leaves: costInvalidGas charges n on a *)
(* cache of its own, so that nothing the transaction wrote is kept.          *)
costInvalidGas(n) ==
    IF canPay(EmptyMem, n)
    THEN /\ overlay' = CacheCommit(overlay, pay(EmptyMem, Gov, n))
         /\ receipt' = [state |-> "fail", gas |-> n, notes |-> IF n = 0 THEN 0 ELSE 1]
    ELSE /\ receipt' = [state |-> "fail", gas |-> 0, notes |-> 0]
         /\ UNCHANGED overlay

giveUp == /\ receipt' = [state |-> "fail", gas |-> 0, notes |-> 0]
          /\ UNCHANGED overlay

isCharge(t) == ~t.sys /\ t.price # 0
take(t) == /\ phase = "idle" /\ todoTxs # << >> /\ t = Head(todoTxs)
           /\ tx' = t /\ todoTxs' = Tail(todoTxs)
           /\ prior' = View(overlay, EmptyMem)
           /\ UNCHANGED <<store, tuned>>
atRest == /\ gasLeft' = 0 /\ avail' = 0 /\ oldBal' = 0
          /\ contexts' = << >> /\ seen' = {} /\ notes' = 0

(* HandleInvokeTransaction up to engine.Invoke.  The code length costs       *)
(* t.len units of gas.                                                       *)
RefuseInvoke(t) ==
    LET bal == balance(EmptyMem, Payer)
    IN  /\ take(t) /\ t.kind = "invoke" /\ isCharge(t)
        /\ cache' = EmptyMem
        /\ \/ /\ bal < MinGas * t.price \/ bal < t.len * t.price
              /\ costInvalidGas(bal)
           \/ /\ bal >= MinGas * t.price /\ bal >= t.len * t.price /\ t.limit < t.len
              /\ costInvalidGas(t.limit * t.price)
        /\ atRest /\ UNCHANGED phase

(* A wasm contract that is not deployed is found missing before anything is  *)
(* executed: the context is there and all it can do is fail.                 *)
StartInvoke(t) ==
    LET bal   == balance(EmptyMem, Payer)
        limit == IF isCharge(t) THEN Min({t.limit, bal \div t.price}) ELSE t.limit
    IN  /\ take(t) /\ t.kind = "invoke"
        /\ isCharge(t) => bal >= MinGas * t.price /\ bal >= t.len * t.price /\ t.limit >= t.len
        /\ cache' = EmptyMem /\ phase' = "run"
        /\ avail' = limit
        /\ gasLeft' = limit - (IF isCharge(t) THEN t.len ELSE 0)
        /\ oldBal' = IF isCharge(t) THEN bal ELSE 0
        /\ contexts' = <<[addr |-> t.entry, notes |-> 0,
                          is |-> IF t.entry \in Wasm /\ balance(EmptyMem, ContractKey(t.entry)) = NoVal
                                 THEN "missing" ELSE "live"]>> /\ seen' = {t.entry} /\ notes' = 0
        /\ UNCHANGED <<overlay, receipt>>

(* HandleDeployTransaction.  isBalanceSufficient returns a balance of 0 with *)
(* its error, so that a payer who is short is charged nothing.               *)
Deploy(t) ==
    LET need   == CreateGas + t.len
        bal    == balance(EmptyMem, Payer)
        charge == t.price # 0
        paid   == IF charge THEN pay(EmptyMem, Gov, need * t.price) ELSE EmptyMem
        done   == IF get(ContractKey(t.addr)) = NoVal THEN memPut(paid, ContractKey(t.addr), 1) ELSE paid
    IN  /\ take(t) /\ t.kind = "deploy"
        /\ \/ /\ t.addr \in Wasm /\ ~t.valid            \* ReadWasmModule
              /\ giveUp /\ cache' = EmptyMem
           \/ /\ t.addr \in Wasm => t.valid
              /\ charge /\ bal < need * t.price
              /\ costInvalidGas(0) /\ cache' = EmptyMem
           \/ /\ t.addr \in Wasm => t.valid
              /\ charge /\ bal >= need * t.price /\ t.limit < need
              /\ costInvalidGas(t.limit * t.price) /\ cache' = EmptyMem
           \/ /\ t.addr \in Wasm => t.valid
              /\ charge => bal >= need * t.price /\ t.limit >= need
              /\ overlay' = CacheCommit(overlay, done) /\ cache' = done
              /\ receipt' = [state |-> "success", notes |-> IF charge THEN 1 ELSE 0,
                             gas |-> IF charge THEN need * t.price ELSE 0]
        /\ atRest /\ UNCHANGED phase

----------------------------------------------------------------------------
(* The steps of the engine on top of the stack.                              *)
current == contexts[Len(contexts)].addr
may(op) == phase = "run" /\ contexts[Len(contexts)].is = "live" /\ op \in tx.ops

(* The transaction fails: the rest of HandleInvokeTransaction when           *)
(* engine.Invoke has returned an error and spent what is gone from g.        *)
costOf(g) == Max({avail - g, MinGas}) * tx.price
Abort(g) ==
    /\ IF isCharge(tx)
       THEN costInvalidGas(tuneGasFeeByHeight(costOf(g), MinGas * tx.price, oldBal))
       ELSE giveUp
    /\ phase' = "idle"
    /\ atRest
    /\ UNCHANGED <<store, cache, todoTxs, tx, prior, tuned>>

(* CheckUseGas, then the operation if it may be done.                        *)
Operation(cost, ok, c, ctx, ns, see) ==
    IF gasLeft < cost THEN Abort(gasLeft)
    ELSE IF ~ok THEN Abort(gasLeft - cost)
    ELSE /\ gasLeft' = gasLeft - cost
         /\ cache' = c /\ contexts' = ctx /\ notes' = ns /\ seen' = see
         /\ UNCHANGED <<store, overlay, phase, todoTxs, tx, avail, oldBal, receipt, prior, tuned>>
Write(cost, ok, c) == Operation(cost, ok, c, contexts, notes, seen)

Compute == may("compute") /\ Write(OpGas, TRUE, cache)
Faulted   == may("fault") /\ Write(OpGas, FALSE, cache)
Missing == phase = "run" /\ contexts[1].is = "missing" /\ Abort(gasLeft)

(* StoragePut and StorageDelete of the NeoVM take a storage context from the *)
(* stack, which another contract may have put there; those of wasm are for   *)
(* the current contract, deployed or not.                                    *)
storageTarget(a) == IF current \in Wasm THEN a = current ELSE a \in seen \ Wasm
checkStorageContextNone(a) == TRUE   \* mutant: never looks
checkStorageContext(a) == current \in Wasm \/ deployed(a)
StoragePut == \E a \in Addrs, s \in Slots :
    /\ may("put") /\ storageTarget(a)
    /\ Write(PutGas, checkStorageContext(a), memPut(cache, SlotKey(a, s), 2))
StorageDelete == \E a \in Addrs, s \in Slots :
    /\ may("delete") /\ storageTarget(a)
    /\ Write(OpGas, checkStorageContext(a), memDelete(cache, SlotKey(a, s)))

(* A call to the ONG contract: its context is pushed and popped, its         *)
(* notification pushed.  The engine limit is not checked for it.             *)
NativeInvoke ==
    /\ may("transfer")
    /\ \E n \in tx.amounts : Operation(OpGas, canPay(cache, n), pay(cache, Other, n), contexts, notes + 1, seen)

(* Runtime.Notify: the NeoVM keeps a contract's notifications until it       *)
(* returns, wasm hands them on at once.                                      *)
Notify ==
    /\ may("notify")
    /\ IF current \in Wasm
       THEN Operation(OpGas, TRUE, cache, contexts, notes + 1, seen)
       ELSE Operation(OpGas, TRUE, cache, [contexts EXCEPT ![Len(contexts)].notes = @ + 1], notes, seen)

(* APPCALL, WASMInvoke and CallContract: a new engine unless there are more  *)
(* than MaxEngine contexts.                                                  *)
CanEnter(a) == deployed(a) /\ Len(contexts) <= MaxEngine
AppCall == \E a \in Addrs :
    /\ may("call")
    /\ Operation(OpGas, CanEnter(a), cache,
          Append(contexts, [addr |-> a, notes |-> 0, is |-> "live"]), notes, seen \cup {a})

(* ContractMigrate moves the storage while it iterates over it: each step    *)
(* writes the cache that the iterator reads.                                 *)
RECURSIVE moveStorage(_, _, _, _, _)
moveStorage(it, c, from, to, back) ==
    IF ~it.more THEN c
    ELSE LET moved == IF to = Script THEN c ELSE memPut(c, it.key + 10 * (to - from), it.val)
             gone  == memDelete(moved, it.key)
         IN  moveStorage(JoinNext(it, gone, RangeOf(from), back), gone, from, to, back)
moveAll(c, from, to) ==
    LET back == OverlayEntries(store, overlay, RangeOf(from))
    IN  moveStorage(JoinFirst(c, RangeOf(from), back), c, from, to, back)

ContractMigrate == \E a \in Addrs :
    /\ may("migrate") /\ (a \in Wasm) = (current \in Wasm) /\ a # current
    /\ LET c1 == memPut(cache, ContractKey(a), 1)
           c2 == IF current = Script THEN c1 ELSE memDelete(c1, ContractKey(current))
       IN  Write(CreateGas, ~deployed(a), IF current = Script THEN c2 ELSE moveAll(c2, current, a))

ContractCreate == \E a \in Addrs :
    /\ may("create") /\ (a \in Wasm) = (current \in Wasm)
    /\ Write(CreateGas, current \in Wasm => ~deployed(a),
             IF deployed(a) THEN cache ELSE memPut(cache, ContractKey(a), 1))

(* ContractDestory of the NeoVM goes on; ContractDestroy of wasm ends the    *)
(* contract.                                                                 *)
Finished == Len(contexts) = 1
Unwound == IF Finished THEN contexts ELSE SubSeq(contexts, 1, Len(contexts) - 1)
ContractDestroy ==
    /\ may("destroy")
    /\ LET c1 == IF current = Script THEN cache
                 ELSE memDelete(moveAll(cache, current, Script), ContractKey(current))
       IN  IF current \in Wasm
           THEN Operation(0, TRUE, c1, [contexts EXCEPT ![Len(contexts)].is = "ended"], notes, seen)
           ELSE Write(OpGas, deployed(current), c1)

(* The contract returns to its caller.                                       *)
Return ==
    /\ phase = "run" /\ ~Finished
    /\ Operation(0, TRUE, cache, Unwound, notes + contexts[Len(contexts)].notes, seen)

(* The entry contract returns: the rest of HandleInvokeTransaction.          *)
Complete ==
    LET bal  == balance(cache, Payer)
        cost == costOf(gasLeft)
        fee  == tuneGasFeeByHeight(cost, MinGas * tx.price, bal)
        paid == IF isCharge(tx) THEN pay(cache, Gov, fee) ELSE cache
        gas  == IF isCharge(tx) THEN fee ELSE cost
    IN  /\ phase = "run" /\ Finished /\ contexts[1].is # "missing"
        /\ IF isCharge(tx) /\ bal < cost
           THEN Abort(gasLeft)
           ELSE /\ overlay' = CacheCommit(overlay, paid) /\ cache' = paid
                /\ receipt' = [state |-> "success", gas |-> gas,
                               notes |-> notes + contexts[1].notes + (IF isCharge(tx) /\ fee > 0 THEN 1 ELSE 0)]
                /\ phase' = "idle" /\ atRest
                /\ UNCHANGED <<store, todoTxs, tx, prior, tuned>>

(* The store fails to answer: OverlayDB keeps the error and the block is     *)
(* given up, with all that its transactions did.                             *)
StoreError ==
    /\ phase = "run" /\ may("storefail")
    /\ phase' = "failed" /\ overlay' = EmptyMem /\ cache' = EmptyMem
    /\ atRest /\ UNCHANGED <<store, todoTxs, tx, receipt, prior, tuned>>

SaveBlock ==
    /\ phase = "idle" /\ todoTxs = << >>
    /\ store' = CommitTo(store, overlay) /\ overlay' = EmptyMem /\ cache' = EmptyMem
    /\ phase' = "saved"
    /\ UNCHANGED <<todoTxs, tx, gasLeft, avail, oldBal, contexts, seen, notes, receipt, prior, tuned>>

TxNext ==
    \/ phase = "idle" /\ todoTxs # << >> /\ RefuseInvoke(Head(todoTxs))
    \/ phase = "idle" /\ todoTxs # << >> /\ StartInvoke(Head(todoTxs))
    \/ phase = "idle" /\ todoTxs # << >> /\ Deploy(Head(todoTxs))
    \/ Compute \/ Faulted \/ Missing \/ StoragePut \/ StorageDelete \/ NativeInvoke \/ Notify \/ AppCall
    \/ ContractMigrate \/ ContractCreate \/ ContractDestroy \/ Return \/ Complete
    \/ StoreError \/ SaveBlock

----------------------------------------------------------------------------
TxTypeOK ==
    /\ store \in [Keys -> Nat]
    /\ DOMAIN overlay \subseteq Keys /\ DOMAIN cache \subseteq Keys
    /\ phase \in {"idle", "run", "saved", "failed"}
    /\ gasLeft \in Nat /\ avail \in Nat /\ oldBal \in Nat /\ gasLeft <= avail
    /\ Len(contexts) <= MaxEngine + 1 /\ seen \subseteq Addrs \cup {Script}
    /\ receipt.state \in {"none", "success", "fail"} /\ receipt.gas \in Nat

(* A transaction that fails changes nothing but the payer's balance, by the  *)
(* fee its receipt records, and the governance contract's; one that succeeds *)
(* and charges gives that contract the fee recorded, and ONG is neither made *)
(* nor lost.  When the fee is charged it is at least that of the minimum gas *)
(* or all the payer has, or the whole gas limit when this does not cover the *)
(* length of the code (tx_handler.go).                                       *)
FailedTxOnlyPays ==
    (phase = "idle" /\ receipt.state # "none") =>
        LET after == View(overlay, EmptyMem)
            ong(v) == v[Payer] + v[Gov] + v[Other]
        IN  /\ ong(after) = ong(prior)
            /\ receipt.state = "fail" =>
                 /\ \A k \in Keys \ {Payer, Gov} : after[k] = prior[k]
                 /\ after[Gov] = prior[Gov] + receipt.gas
            /\ (receipt.state = "success" /\ isCharge(tx)) => after[Gov] = prior[Gov] + receipt.gas
            /\ (tx.kind = "invoke" /\ isCharge(tx)) =>
                 receipt.gas >= Min({MinGas * tx.price, prior[Payer], tx.limit * tx.price})

(* The storage of a NeoVM contract ends with the contract: whatever calls,   *)
(* migrations and destructions have been nested, no value is left under the  *)
(* address of a NeoVM contract that is not deployed, and an iterator over    *)
(* the three layers yields exactly the live entries in key order             *)
(* (ContractMigrate, ContractDestory, checkStorageContext; JoinIter).        *)
StorageFollowsContract ==
    tx # << >> =>
    /\ \A a \in Addrs \ Wasm : ~deployed(a) => \A k \in RangeOf(a) : get(k) = NoVal
    /\ \A a \in Addrs : CacheEntries(store, overlay, cache, RangeOf(a)) =
                        LiveEntries(store, overlay, cache, RangeOf(a))
=============================================================================
