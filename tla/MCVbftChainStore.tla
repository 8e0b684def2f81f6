-------------------------- MODULE MCVbftChainStore --------------------------
(* Instances of VbftChainStore for TLC.                                    *)
EXTENDS VbftChainStore
=============================================================================
