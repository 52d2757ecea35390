----------------------------- MODULE TradeStates -----------------------------
(***************************************************************************)
(* The vocabulary of ibkr_core/core/state.py: the trade states and the     *)
(* relation TradeStateMachine.transition_to enforces.  A pure module, no   *)
(* variables: TradeExecution is checked against it for the states a call   *)
(* can end in.                                                             *)
(***************************************************************************)

\* enum TradeState
TradeState ==
    { "IDLE", "AI_ANALYSIS", "SCREENING", "HALAL_CERTIFIED", "PRE_ORDER",
      "SUBMITTED", "FILLED", "PENDING_SETTLEMENT", "SETTLED", "DRY_RUN",
      "REJECTED_COMPLIANCE", "REJECTED_FUNDS", "REJECTED_CONCENTRATION",
      "IBKR_ERROR" }

\* The rejections and the broker failure: each may only be reset to IDLE.
FailureState ==
    { "REJECTED_COMPLIANCE", "REJECTED_FUNDS", "REJECTED_CONCENTRATION",
      "IBKR_ERROR" }

\* Mutant: the table as it was before REJECTED_CONCENTRATION was added.
AllowedBefore ==
    [ s \in TradeState |->
        CASE s = "SCREENING"          -> {"HALAL_CERTIFIED",
                                          "REJECTED_COMPLIANCE", "IDLE"}
          [] s = "PRE_ORDER"          -> {"SUBMITTED", "DRY_RUN", "IDLE",
                                          "REJECTED_FUNDS"}
          [] OTHER                    -> {"IDLE"} ]

\* _allowed_transitions: the successors the table names for a state.
Allowed ==
    [ s \in TradeState |->
        CASE s = "IDLE"               -> {"AI_ANALYSIS"}
          [] s = "AI_ANALYSIS"        -> {"SCREENING", "IDLE"}
          [] s = "SCREENING"          -> {"HALAL_CERTIFIED",
                                          "REJECTED_COMPLIANCE", "IDLE"}
          [] s = "HALAL_CERTIFIED"    -> {"PRE_ORDER", "IDLE"}
          [] s = "PRE_ORDER"          -> {"SUBMITTED", "DRY_RUN", "IDLE",
                                          "REJECTED_FUNDS",
                                          "REJECTED_CONCENTRATION"}
          [] s = "SUBMITTED"          -> {"FILLED", "IBKR_ERROR"}
          [] s = "FILLED"             -> {"PENDING_SETTLEMENT", "IBKR_ERROR"}
          [] s = "PENDING_SETTLEMENT" -> {"SETTLED", "IBKR_ERROR"}
          [] OTHER                    -> {"IDLE"} ]

\* transition_to: the table, and the two escapes open everywhere but in IDLE
\* and SETTLED.
CanMove(from, to) ==
    \/ to \in Allowed[from]
    \/ from \notin {"IDLE", "SETTLED"} /\ to \in {"IBKR_ERROR", "REJECTED_COMPLIANCE"}
==============================================================================
