------------------------------ MODULE MCSignals ------------------------------
(***************************************************************************)
(* Small instance of Signals: a loop of each of two accounts.              *)
(***************************************************************************)
EXTENDS Signals
CONSTANTS main, second, one, two, sym

MCOwner == [l \in Loops |-> IF l = main THEN one ELSE two]
MCFound == [l \in Loops |-> {<<sym, "BUY">>}]
==============================================================================
