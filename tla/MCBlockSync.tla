----------------------------- MODULE MCBlockSync -----------------------------
(* BlockStateSynchronizer with one note, created by tx1 and spent by tx2.    *)
EXTENDS BlockStateSynchronizer, TLC

CONSTANTS n1, tx1, tx2

MCCreator == n1 :> tx1
MCSpender == n1 :> tx2
=============================================================================
