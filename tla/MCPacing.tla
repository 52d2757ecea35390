------------------------------- MODULE MCPacing -------------------------------
(***************************************************************************)
(* What holds orders back: the intervals between the slices of a TWAP, and *)
(* the cooldown of orders that failed.  As modelled the two share no state *)
(* with each other, so one of them, the active one, moves in a behaviour.  *)
(* Two executions of three slices and one crash; loops of two accounts     *)
(* that deal in the same symbol, and a human.                              *)
(***************************************************************************)
EXTENDS Twap, Cooldown

CONSTANTS first, second, human, sym

VARIABLE active

vars == <<active, twapVars, cooldownVars>>

CooldownDeals ==
    [x \in Actors |-> IF x = first THEN {<<sym, "BUY">>, <<sym, "SELL">>}
                      ELSE IF x = second THEN {<<sym, "SELL">>} ELSE {<<sym, "BUY">>}]

Init == active \in {"twap", "cooldown"} /\ TwapInit /\ CooldownInit

Next ==
    \/ active = "twap" /\ TwapNext /\ UNCHANGED <<active, cooldownVars>>
    \/ active = "cooldown" /\ CooldownNext /\ UNCHANGED <<active, twapVars>>

\* Coroutines that are not blocked go on, a request that was accepted is served, a dead
\* process is restarted; time passes.
Spec ==
    /\ Init /\ [][Next]_vars
    /\ \A x \in Twaps : /\ WF_twapVars(active = "twap" /\ TwapStep(x))
                        /\ WF_twapVars(active = "twap" /\ CancelCommit(x))
    /\ WF_twapVars(active = "twap" /\ Boot)
    /\ WF_cooldownVars(active = "cooldown" /\ Tick)
===============================================================================
