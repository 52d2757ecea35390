------------------------------ MODULE OrderGate ------------------------------
(***************************************************************************)
(* What execute_trade promises about a call and its order, with everything *)
(* else abstracted: a call is vetted (its audit entry is committed), then  *)
(* refused or recorded as an intent, and only a recorded intent goes to    *)
(* the broker, once.  A call may be abandoned by a crash before it is      *)
(* sent; an abandoned or refused call never sends anything.                *)
(***************************************************************************)
EXTENDS Naturals

CONSTANT Trades

VARIABLES
    phase,    \* how far each call got
    ticket    \* the id of the order it sent, 0 before

Phase == {"new", "vetted", "refused", "intended", "sent", "abandoned"}

Init ==
    /\ phase = [t \in Trades |-> "new"]
    /\ ticket = [t \in Trades |-> 0]

Move(t, from, to) ==
    /\ phase[t] \in from
    /\ phase' = [phase EXCEPT ![t] = to]

Vet(t)    == Move(t, {"new"}, "vetted") /\ UNCHANGED ticket
Refuse(t) == Move(t, {"new", "vetted", "intended"}, "refused") /\ UNCHANGED ticket
Intend(t) == Move(t, {"vetted"}, "intended") /\ UNCHANGED ticket

\* The order goes out under an id that never changes again.
Send(t) ==
    /\ Move(t, {"intended"}, "sent")
    /\ ticket'[t] > 0
    /\ ticket' = [ticket EXCEPT ![t] = ticket'[t]]

\* A crash takes every call that has neither ended nor sent its order; which
\* of them had started does not matter to the gate.
Abandon ==
    /\ \E S \in SUBSET {t \in Trades : phase[t] \in {"new", "vetted", "intended"}} :
          phase' = [t \in Trades |-> IF t \in S THEN "abandoned" ELSE phase[t]]
    /\ UNCHANGED ticket

Next ==
    \/ \E t \in Trades : Vet(t) \/ Refuse(t) \/ Intend(t) \/ Send(t)
    \/ Abandon

Spec == Init /\ [][Next]_<<phase, ticket>>
==============================================================================
