--------------------------- MODULE DurableLedger ---------------------------
(***************************************************************************)
(* What the ledger promises to the rest of the node, whatever the stores   *)
(* do inside: a log of blocks that only grows, one block at a time, and a   *)
(* running process that shows a prefix of it.  A block that was shown is    *)
(* still in the log after any crash.                                        *)
(***************************************************************************)
EXTENDS Integers

CONSTANT MaxHeight

VARIABLES
    log,   \* height of the last durable block, -1 before the genesis block
    view   \* height shown to readers, -1 when the node is not serving

\* The genesis block is durable and shown.
Create == log = -1 /\ view = -1 /\ log' = 0 /\ view' = 0

\* A block becomes durable, but is not shown yet.
Extend == log \in 0..(MaxHeight - 1) /\ view = log /\ log' = log + 1 /\ view' = view

\* The durable block is shown.
Show == view \in 0..(log - 1) /\ view' = view + 1 /\ log' = log

\* The node starts again on everything that is durable.
Open == log >= 0 /\ view = -1 /\ view' = log /\ log' = log

\* The node stops.
Stop == view >= 0 /\ view' = -1 /\ log' = log

DLInit == log = -1 /\ view = -1

DLNext == Create \/ Extend \/ Show \/ Open \/ Stop

DLSpec == DLInit /\ [][DLNext]_<<log, view>>
=============================================================================
