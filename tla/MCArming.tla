------------------------------ MODULE MCArming ------------------------------
(***************************************************************************)
(* Two accounts: one to be live, one to be paper, and every request.       *)
(***************************************************************************)
EXTENDS Arming, TLC
CONSTANTS one, other, env

Symmetry == Permutations({one, other})
==============================================================================
