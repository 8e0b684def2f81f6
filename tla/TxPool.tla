------------------------------ MODULE TxPool -------------------------------
(* The transaction pool (txnpool/): the actors that take transactions from   *)
(* the network and from clients and requests from consensus, the workers     *)
(* that have them checked, the stateless and the stateful validator, and the *)
(* ledger they read.  The actors, the workers and the validators run         *)
(* concurrently; an action is a step of one of them between two points where *)
(* it takes or gives up a lock that others want.                             *)
EXTENDS Integers, Sequences, FiniteSets, FiniteSetsExt, SequencesExt, Functions

CONSTANTS
    Workers,     \* the workers of the pool
    BadTxs,      \* transactions whose signatures or payload are wrong
    GasOf,       \* the gas price each transaction offers
    Days,        \* what may happen: submissions (submit), blocks consensus asks about (ask),
                 \* heights at which it takes transactions (fetch), blocks the ledger saves
                 \* (save), the gas price after (price), expiries (expire) and the verified
                 \* transactions at the start (has)
    MaxSlots,    \* MAX_LIMITATION
    MaxCapacity, \* MAX_CAPACITY
    MaxRetries,  \* MAX_RETRIES
    PreExec      \* ~disablePreExec

VARIABLES
    txList,      \* TXPool.txList: the height at which each transaction was verified
    allPending,  \* allPendingTxs: the sender of each transaction in verification
    slots,       \* free slots
    poolHeight,  \* TXPoolServer.height
    gasPrice,    \* TXPoolServer.gasPrice
    blk,         \* pendingBlock, with the answers given to its request
    blkLock,     \* pendingBlock.mu is held by verifyBlock
    submitter,   \* the TxActor: idle, or at work on a transaction
    server,      \* the TxPoolActor: idle, or with transactions still to hand to workers
    worker,      \* the workers: channels, pendingTxList and the step they are at
    slQueue,     \* the mailbox of the stateless validator
    sfQueue,     \* the mailbox of the stateful validator
    ledgerTxs,   \* the blocks of the ledger
    completed,   \* SaveBlockCompleteMsgs that the TxPoolActor has not handled
    answered,    \* submissions of clients that have their result
    day          \* what is left of the day

poolVars == <<txList, allPending, slots, poolHeight, gasPrice, blk, blkLock, submitter, server,
              worker, slQueue, sfQueue, ledgerTxs, completed, answered, day>>

Txs      == DOMAIN GasOf
None     == "none"
Height   == Len(ledgerTxs)
OnChain  == UNION Range(ledgerTxs)
Without(f, t)   == [x \in DOMAIN f \ {t} |-> f[x]]
With(f, t, v)   == [x \in DOMAIN f \cup {t} |-> IF x = t THEN v ELSE f[x]]
Idle     == [at |-> "idle"]

PoolInit ==
    /\ \E d \in Days : day = d /\ txList = d.has
    /\ allPending = [t \in {} |-> None] /\ slots = MaxSlots /\ poolHeight = 0 /\ gasPrice = 1
    /\ blk = [height |-> 0, asked |-> {}, unproc |-> {}, processed |-> [t \in {} |-> None],
              answers |-> << >>]
    /\ blkLock = FALSE /\ submitter = Idle /\ server = Idle
    /\ worker = [w \in Workers |-> [rcv |-> << >>, stf |-> << >>, rsp |-> << >>,
                                    pend |-> [t \in {} |-> None], step |-> Idle]]
    /\ slQueue = << >> /\ sfQueue = << >> /\ ledgerTxs = << >> /\ completed = << >>
    /\ answered = {}

----------------------------------------------------------------------------
(* assignTxToWorker and reVerifyStateful: the transaction becomes pending    *)
(* unless it is already, and goes to a worker with the shortest queues.      *)
Load(w, ch) == Len(worker[w][ch]) + Cardinality(DOMAIN worker[w].pend)
Lightest(ch) == {w \in Workers : \A v \in Workers : Load(w, ch) <= Load(v, ch)}
assign(t, sender, ch) ==
    IF t \in DOMAIN allPending THEN UNCHANGED <<allPending, worker>>
    ELSE /\ allPending' = With(allPending, t, sender)
         /\ \E w \in Lightest(ch) : worker' = [worker EXCEPT ![w][ch] = Append(@, t)]

(* The TxActor.  handleTransaction looks at the pool, then waits for a slot; *)
(* a transaction that is pending already costs a slot all the same.          *)
preExecOK(t) == PreExec => t \notin OnChain   \* a payment made twice is refused by preExecCheck
Submit ==
    \E s \in day.submit :
        /\ submitter = Idle
        /\ day' = [day EXCEPT !.submit = @ \ {s}]
        /\ IF s.tx \in DOMAIN txList \/ Cardinality(DOMAIN txList) >= MaxCapacity
                \/ GasOf[s.tx] < gasPrice \/ ~preExecOK(s.tx)
           THEN /\ answered' = answered \cup {s}
                /\ UNCHANGED submitter
           ELSE /\ submitter' = [at |-> "slot", req |-> s]
                /\ UNCHANGED answered
        /\ UNCHANGED <<txList, allPending, slots, poolHeight, gasPrice, blk, blkLock, server,
                       worker, slQueue, sfQueue, ledgerTxs, completed>>

TakeSlot ==
    /\ submitter.at = "slot" /\ slots > 0
    /\ slots' = slots - 1
    /\ assign(submitter.req.tx, submitter.req.sender, "rcv")
    /\ answered' = IF submitter.req.tx \in DOMAIN allPending
                   THEN answered \cup {submitter.req} ELSE answered
    /\ submitter' = Idle
    /\ UNCHANGED <<txList, poolHeight, gasPrice, blk, blkLock, server, slQueue, sfQueue, ledgerTxs,
                   completed, day>>

----------------------------------------------------------------------------
(* The TxPoolActor: verifyBlock, getTxPool and cleanTransactionList, each up *)
(* to the point where it hands transactions to workers one by one.           *)
(* sendBlkResult2Consensus.  Consensus waits on a future: it sees the first  *)
(* answer to its request.                                                    *)
reply(b) == [b EXCEPT !.answers = Append(@, b.processed), !.processed = [t \in {} |-> None]]

verifyBlock ==
    /\ server = Idle /\ ~blkLock /\ day.ask # << >>
    /\ LET ask   == Head(day.ask)
           cheap == {t \in ask.txs : GasOf[t] < gasPrice}
           fresh == {t \in ask.txs \cap DOMAIN txList : txList[t] >= ask.height}
           old   == (ask.txs \cap DOMAIN txList) \ fresh
           start == [height |-> ask.height, asked |-> ask.txs, unproc |-> {},
                     processed |-> [t \in {} |-> None], answers |-> << >>]
       IN  /\ poolHeight' = ask.height
           /\ IF cheap # {}
              THEN /\ \E t \in cheap : blk' = reply([start EXCEPT !.processed = With(@, t, "gas price")])
                   /\ UNCHANGED <<txList, server, blkLock>>
              ELSE /\ blk' = [start EXCEPT !.processed = [t \in fresh |-> "ok"]]
                   /\ txList' = [t \in DOMAIN txList \ old |-> txList[t]]
                   /\ blkLock' = TRUE
                   /\ server' = [at |-> "block", unverified |-> ask.txs \ (fresh \cup old), old |-> old]
    /\ day' = [day EXCEPT !.ask = Tail(@)]
    /\ UNCHANGED <<allPending, slots, gasPrice, submitter, worker, slQueue, sfQueue, ledgerTxs,
                   completed, answered>>

AssignUnverified ==
    /\ server.at = "block" /\ server.unverified # {}
    /\ \E t \in server.unverified :
           /\ assign(t, "nil", "rcv")
           /\ blk' = [blk EXCEPT !.unproc = @ \cup {t}]
           /\ server' = [server EXCEPT !.unverified = @ \ {t}]
    /\ UNCHANGED <<txList, slots, poolHeight, gasPrice, blkLock, submitter, slQueue, sfQueue,
                   ledgerTxs, completed, answered, day>>

reVerifyOld ==
    /\ server.at = "block" /\ server.unverified = {} /\ server.old # {}
    /\ \E t \in server.old :
           /\ assign(t, "nil", "stf")
           /\ blk' = [blk EXCEPT !.unproc = @ \cup {t}]
           /\ server' = [server EXCEPT !.old = @ \ {t}]
    /\ UNCHANGED <<txList, slots, poolHeight, gasPrice, blkLock, submitter, slQueue, sfQueue,
                   ledgerTxs, completed, answered, day>>

(* Mutant: a block is not waited for when all it lacks is a repeated check.  *)
verifyBlockEndEarly ==
    /\ server.at = "block" /\ server.unverified = {} /\ server.old = {}
    /\ blk' = reply(blk)
    /\ blkLock' = FALSE /\ server' = Idle
    /\ UNCHANGED <<txList, allPending, slots, poolHeight, gasPrice, submitter, worker, slQueue,
                   sfQueue, ledgerTxs, completed, answered, day>>

verifyBlockEnd ==
    /\ server.at = "block" /\ server.unverified = {} /\ server.old = {}
    /\ blk' = IF blk.unproc = {} THEN reply(blk) ELSE blk
    /\ blkLock' = FALSE /\ server' = Idle
    /\ UNCHANGED <<txList, allPending, slots, poolHeight, gasPrice, submitter, worker, slQueue,
                   sfQueue, ledgerTxs, completed, answered, day>>

getTxPool ==
    /\ server = Idle /\ day.fetch # << >>
    /\ poolHeight' = Head(day.fetch)
    /\ server' = [at |-> "again", txs |-> {t \in DOMAIN txList : txList[t] < Head(day.fetch)}]
    /\ day' = [day EXCEPT !.fetch = Tail(@)]
    /\ UNCHANGED <<txList, allPending, slots, gasPrice, blk, blkLock, submitter, worker, slQueue,
                   sfQueue, ledgerTxs, completed, answered>>

cleanTransactionList ==
    /\ server = Idle /\ completed # << >>
    /\ LET price == day.price[Head(completed).height]
           left  == {t \in DOMAIN txList \ Head(completed).txs : GasOf[t] >= price \/ price <= gasPrice}
       IN  /\ gasPrice' = price
           /\ txList' = [t \in (IF PreExec THEN {} ELSE left) |-> txList[t]]
           /\ server' = IF PreExec THEN [at |-> "again", txs |-> {t \in left : preExecOK(t)}] ELSE Idle
    /\ completed' = Tail(completed)
    /\ UNCHANGED <<allPending, slots, poolHeight, blk, blkLock, submitter, worker, slQueue, sfQueue,
                   ledgerTxs, answered, day>>

(* delTransaction and reVerifyStateful, for one transaction after the other. *)
reVerifyStateful ==
    /\ server.at = "again"
    /\ IF server.txs = {} THEN server' = Idle /\ UNCHANGED <<txList, allPending, worker>>
       ELSE \E t \in server.txs : /\ txList' = Without(txList, t)
                                  /\ assign(t, "nil", "stf")
                                  /\ server' = [server EXCEPT !.txs = @ \ {t}]
    /\ UNCHANGED <<slots, poolHeight, gasPrice, blk, blkLock, submitter, slQueue, sfQueue,
                   ledgerTxs, completed, answered, day>>

----------------------------------------------------------------------------
(* A worker.  Its step is what it still has to do for the message it took:   *)
(* put the transaction into the pool, take it off the pending list, tell the *)
(* pending block.                                                            *)
idle(w) == worker[w].step = Idle
pendingTx(retries, flags) == [retries |-> retries, flags |-> flags, height |-> 0]
drop(t, err) == [at |-> "drop", tx |-> t, err |-> err]

verifyTx(w) ==
    /\ idle(w) /\ worker[w].rcv # << >>
    /\ LET t == Head(worker[w].rcv)
           v == [worker[w] EXCEPT !.rcv = Tail(@)]
       IN  IF t \in DOMAIN txList
           THEN worker' = [worker EXCEPT ![w] = [v EXCEPT !.step = drop(t, "duplicate")]]
                /\ UNCHANGED <<slQueue, sfQueue>>
           ELSE IF t \in DOMAIN v.pend
           THEN worker' = [worker EXCEPT ![w] = v] /\ UNCHANGED <<slQueue, sfQueue>>
           ELSE /\ worker' = [worker EXCEPT ![w] = [v EXCEPT !.pend = With(@, t, pendingTx(0, {}))]]
                /\ slQueue' = Append(slQueue, <<w, t>>) /\ sfQueue' = Append(sfQueue, <<w, t>>)
    /\ UNCHANGED <<txList, allPending, slots, poolHeight, gasPrice, blk, blkLock, submitter, server,
                   ledgerTxs, completed, answered, day>>

verifyStateful(w) ==
    /\ idle(w) /\ worker[w].stf # << >>
    /\ LET t == Head(worker[w].stf)
       IN  /\ worker' = [worker EXCEPT ![w].stf = Tail(@), ![w].pend = With(@, t, pendingTx(0, {"stateless"}))]
           /\ sfQueue' = Append(sfQueue, <<w, t>>)
    /\ UNCHANGED <<txList, allPending, slots, poolHeight, gasPrice, blk, blkLock, submitter, server,
                   slQueue, ledgerTxs, completed, answered, day>>

handleRsp(w) ==
    /\ idle(w) /\ worker[w].rsp # << >>
    /\ LET r == Head(worker[w].rsp)
           v == [worker[w] EXCEPT !.rsp = Tail(@)]
           p == [v.pend[r.tx] EXCEPT !.flags = @ \cup {r.by},
                                     !.height = IF r.by = "stateful" /\ r.by \notin v.pend[r.tx].flags
                                                THEN r.height ELSE @]
       IN  \/ /\ r.tx \notin DOMAIN v.pend
              /\ worker' = [worker EXCEPT ![w] = v] /\ UNCHANGED sfQueue
           \/ /\ r.tx \in DOMAIN v.pend /\ r.err # "ok"
              /\ worker' = [worker EXCEPT ![w] = [v EXCEPT !.pend = Without(@, r.tx),
                                                           !.step = drop(r.tx, r.err)]]
              /\ UNCHANGED sfQueue
           \/ /\ r.tx \in DOMAIN v.pend /\ r.err = "ok" /\ r.by = "stateful" /\ r.height < poolHeight
              /\ worker' = [worker EXCEPT ![w] = v]
              /\ sfQueue' = Append(sfQueue, <<w, r.tx>>)
           \/ /\ r.tx \in DOMAIN v.pend /\ r.err = "ok" /\ (r.by = "stateful" => r.height >= poolHeight)
              /\ worker' = [worker EXCEPT ![w] =
                     [v EXCEPT !.pend = With(@, r.tx, p),
                               !.step = IF p.flags = {"stateless", "stateful"}
                                        THEN [at |-> "put", tx |-> r.tx] ELSE Idle]]
              /\ UNCHANGED sfQueue
    /\ UNCHANGED <<txList, allPending, slots, poolHeight, gasPrice, blk, blkLock, submitter, server,
                   slQueue, ledgerTxs, completed, answered, day>>

handleTimeoutEvent(w) ==
    /\ idle(w) /\ day.expire > 0
    /\ \E t \in DOMAIN worker[w].pend :
           IF worker[w].pend[t].retries < MaxRetries
           THEN /\ worker' = [worker EXCEPT ![w].pend[t].retries = @ + 1]
                /\ slQueue' = Append(slQueue, <<w, t>>) /\ sfQueue' = Append(sfQueue, <<w, t>>)
           ELSE /\ worker' = [worker EXCEPT ![w].pend = Without(@, t),
                                            ![w].step = drop(t, "retries exhausted")]
                /\ UNCHANGED <<slQueue, sfQueue>>
    /\ day' = [day EXCEPT !.expire = @ - 1]
    /\ UNCHANGED <<txList, allPending, slots, poolHeight, gasPrice, blk, blkLock, submitter, server,
                   ledgerTxs, completed, answered>>

putTxPool(w) ==
    /\ worker[w].step.at = "put"
    /\ LET t == worker[w].step.tx
       IN  /\ txList' = IF t \in DOMAIN txList THEN txList ELSE With(txList, t, worker[w].pend[t].height)
           /\ worker' = [worker EXCEPT ![w].step = drop(t, "ok")]
    /\ UNCHANGED <<allPending, slots, poolHeight, gasPrice, blk, blkLock, submitter, server, slQueue,
                   sfQueue, ledgerTxs, completed, answered, day>>

(* removePendingTx up to the unlock of the server.                           *)
removePendingTx(w) ==
    /\ worker[w].step.at = "drop"
    /\ LET t == worker[w].step.tx
       IN  IF t \in DOMAIN allPending
           THEN /\ allPending' = Without(allPending, t)
                /\ slots' = Min({slots + 1, MaxSlots})
                /\ answered' = IF allPending[t] = "http"
                               THEN answered \cup {[tx |-> t, sender |-> "http"]} ELSE answered
                /\ worker' = [worker EXCEPT ![w].step.at = "tell"]
           ELSE /\ worker' = [worker EXCEPT ![w].step = Idle, ![w].pend = Without(@, t)]
                /\ UNCHANGED <<allPending, slots, answered>>
    /\ UNCHANGED <<txList, poolHeight, gasPrice, blk, blkLock, submitter, server, slQueue, sfQueue,
                   ledgerTxs, completed, day>>

checkPendingBlockOk(w) ==
    /\ worker[w].step.at = "tell" /\ ~blkLock
    /\ LET t == worker[w].step.tx
           e == worker[w].step.err
           b == [blk EXCEPT !.unproc = @ \ {t}, !.processed = With(@, t, e)]
       IN  /\ blk' = IF t \notin blk.unproc THEN blk
                     ELSE IF e # "ok" \/ b.unproc = {} THEN reply(b) ELSE b
           /\ worker' = [worker EXCEPT ![w].step = Idle, ![w].pend = Without(@, t)]
    /\ UNCHANGED <<txList, allPending, slots, poolHeight, gasPrice, blkLock, submitter, server,
                   slQueue, sfQueue, ledgerTxs, completed, answered, day>>

----------------------------------------------------------------------------
(* The validators answer through the VerifyRspActor, which passes the answer *)
(* to the worker that asked.                                                 *)
answerTo(q, r) == worker' = [worker EXCEPT ![q[1]].rsp = Append(@, r)]
Stateless ==
    /\ slQueue # << >>
    /\ LET q == Head(slQueue)
       IN  answerTo(q, [tx |-> q[2], by |-> "stateless", height |-> 0,
                        err |-> IF q[2] \in BadTxs THEN "invalid" ELSE "ok"])
    /\ slQueue' = Tail(slQueue)
    /\ UNCHANGED <<txList, allPending, slots, poolHeight, gasPrice, blk, blkLock, submitter, server,
                   sfQueue, ledgerTxs, completed, answered, day>>

Stateful ==
    /\ sfQueue # << >>
    /\ LET q == Head(sfQueue)
       IN  answerTo(q, [tx |-> q[2], by |-> "stateful", height |-> Height,
                        err |-> IF q[2] \in OnChain THEN "on chain" ELSE "ok"])
    /\ sfQueue' = Tail(sfQueue)
    /\ UNCHANGED <<txList, allPending, slots, poolHeight, gasPrice, blk, blkLock, submitter, server,
                   slQueue, ledgerTxs, completed, answered, day>>

SaveBlockOfTxs ==
    /\ day.save # << >>
    /\ ledgerTxs' = Append(ledgerTxs, Head(day.save))
    /\ completed' = Append(completed, [txs |-> Head(day.save), height |-> Height + 1])
    /\ day' = [day EXCEPT !.save = Tail(@)]
    /\ UNCHANGED <<txList, allPending, slots, poolHeight, gasPrice, blk, blkLock, submitter, server,
                   worker, slQueue, sfQueue, answered>>

WorkerStep(w) ==
    \/ verifyTx(w) \/ verifyStateful(w) \/ handleRsp(w) \/ handleTimeoutEvent(w)
    \/ putTxPool(w) \/ removePendingTx(w) \/ checkPendingBlockOk(w)

PoolNext ==
    \/ Submit \/ TakeSlot
    \/ verifyBlock \/ AssignUnverified \/ reVerifyOld \/ verifyBlockEnd
    \/ getTxPool \/ cleanTransactionList \/ reVerifyStateful
    \/ \E w \in Workers : WorkerStep(w)
    \/ Stateless \/ Stateful \/ SaveBlockOfTxs

----------------------------------------------------------------------------
PoolTypeOK ==
    /\ DOMAIN txList \subseteq Txs /\ DOMAIN allPending \subseteq Txs
    /\ slots \in 0..MaxSlots /\ poolHeight \in Nat /\ blk.unproc \subseteq blk.asked
    /\ \A w \in Workers : worker[w].step.at \in {"idle", "put", "drop", "tell"}
    /\ server.at \in {"idle", "block", "again"}

(* Somebody is at work on every pending transaction, and every transaction a *)
(* block waits for is pending or about to be reported: neither a client nor  *)
(* consensus can be forgotten.  When the answer to consensus has no error it *)
(* has every transaction of the block, and none whose signatures are wrong   *)
(* (setPendingTx, removePendingTx, verifyBlock, checkPendingBlockOk).        *)
PendingIsWorkedOn ==
    /\ \A t \in DOMAIN allPending : \E w \in Workers :
           t \in Range(worker[w].rcv) \cup Range(worker[w].stf) \cup DOMAIN worker[w].pend
           \/ (worker[w].step.at \in {"put", "drop"} /\ worker[w].step.tx = t)
    /\ \A t \in blk.unproc : t \in DOMAIN allPending
           \/ \E w \in Workers : worker[w].step.at = "tell" /\ worker[w].step.tx = t
    /\ (blk.answers # << >> /\ Range(blk.answers[1]) \subseteq {"ok"}) =>
           DOMAIN blk.answers[1] = blk.asked /\ blk.asked \cap BadTxs = {}
=============================================================================
