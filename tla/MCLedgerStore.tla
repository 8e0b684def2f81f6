--------------------------- MODULE MCLedgerStore ---------------------------
(* LedgerStore on one small chain, with every pattern of adjacent empty and *)
(* non-empty blocks.                                                        *)
EXTENDS LedgerStore

CONSTANTS Genesis, TxA, TxB, TxC, ConfigHeights

MCChain == [h \in Heights |->
    CASE h = 0 -> Genesis [] h = 1 -> TxA [] h = 4 -> TxB [] h = 5 -> TxC
      [] OTHER -> EmptyRoot]

\* Chain configs in the genesis block and in the blocks of ConfigHeights.
MCLastConfig == [h \in Heights |->
    CHOOSE c \in ConfigHeights \cup {0} :
        c <= h /\ \A d \in ConfigHeights : d <= h => d <= c]
=============================================================================
