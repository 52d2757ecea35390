------------------------------- MODULE AuditChain -------------------------------
(***************************************************************************)
(* The hash chain of the audit log: execute_trade appends to it inside one *)
(* step of the event loop, somebody changes or removes rows behind its     *)
(* back, and audit_integrity_loop verifies it, cancels every order at the  *)
(* first mismatch and waits for good.  A hash is the identity of the row   *)
(* it was computed for.                                                    *)
(***************************************************************************)
EXTENDS Integers, Sequences

CONSTANT MaxLogged   \* bound on the rows ever written

ASSUME AuditChainAssumption == MaxLogged \in Nat

VARIABLES
    log,        \* AuditLog: the row's own hash, the one before it, the content as hashed
    logged,     \* rows ever written; the hashes given out
    working,    \* orders at the broker
    reachable,  \* worker.ib.isConnected()
    guard,      \* "watching", or "safe" for SAFE MODE
    tampered    \* a row was changed, or removed from under its successor

chainVars == <<log, logged, working, reachable, guard, tampered>>

GENESIS == 0
Rows == [hash : Nat \ {GENESIS}, previous : Nat, sound : BOOLEAN]

ChainTypeOK ==
    /\ log \in Seq(Rows)
    /\ logged \in Nat
    /\ working \in BOOLEAN /\ reachable \in BOOLEAN
    /\ guard \in {"watching", "safe"}
    /\ tampered \in BOOLEAN

ChainInit ==
    /\ log = <<>> /\ logged = 0
    /\ working = FALSE /\ reachable = TRUE
    /\ guard = "watching"
    /\ tampered = FALSE

\* The hash the next row has to name.
HashAt(rows, i) == IF i = 0 THEN GENESIS ELSE rows[i].hash

verify_audit_chain(rows) ==
    \A i \in 1..Len(rows) : rows[i].sound /\ rows[i].previous = HashAt(rows, i - 1)

\* Mutant: the row is chained to the beginning.
SecureLogEntryUnchained ==
    /\ logged < MaxLogged
    /\ log' = Append(log, [hash |-> logged + 1, previous |-> GENESIS, sound |-> TRUE])
    /\ logged' = logged + 1

\* Reads the tail, inserts, hashes and commits, with no await in between.
secure_log_entry ==
    /\ logged < MaxLogged
    /\ log' = Append(log, [hash |-> logged + 1, previous |-> HashAt(log, Len(log)), sound |-> TRUE])
    /\ logged' = logged + 1

\* execute_trade logs the decision and places the order, or fails after the log.  No loop
\* looks at the guard first.
LoggedTrade ==
    /\ secure_log_entry
    /\ working' \in {working, TRUE}
    /\ UNCHANGED <<reachable, guard, tampered>>

\* A column the hash covers is changed.
ChangeRow ==
    /\ \E i \in 1..Len(log) : log' = [log EXCEPT ![i] = [log[i] EXCEPT !.sound = FALSE]]
    /\ tampered' = TRUE
    /\ UNCHANGED <<logged, working, reachable, guard>>

\* A row is removed; the last one leaves no trace.
RemoveRow ==
    /\ \E i \in 1..Len(log) :
          /\ log' = SubSeq(log, 1, i - 1) \o SubSeq(log, i + 1, Len(log))
          /\ tampered' = (tampered \/ i < Len(log))
    /\ UNCHANGED <<logged, working, reachable, guard>>

\* An hour later, or five minutes after a query that failed.
VerifyFinds ==
    /\ guard = "watching"
    /\ ~verify_audit_chain(log)
    /\ guard' = "safe"
    /\ working' = (working /\ ~reachable)
    /\ UNCHANGED <<log, logged, reachable, tampered>>

OrdersEnd ==
    /\ working /\ working' = FALSE
    /\ UNCHANGED <<log, logged, reachable, guard, tampered>>

LoseOrRegain ==
    /\ reachable' = ~reachable
    /\ UNCHANGED <<log, logged, working, guard, tampered>>

\* SAFE MODE lives in memory.
RestartGuard ==
    /\ guard = "safe" /\ guard' = "watching"
    /\ UNCHANGED <<log, logged, working, reachable, tampered>>

ChainNext ==
    \/ LoggedTrade \/ ChangeRow \/ RemoveRow \/ VerifyFinds
    \/ OrdersEnd \/ LoseOrRegain \/ RestartGuard

ChainSpec == ChainInit /\ [][ChainNext]_chainVars

----------------------------------------------------------------------------
\* SAFE MODE, which cancels everybody's orders, is never entered by what the program
\* does: whatever trades are logged and whatever rows are lost from the end, an alarm
\* means that somebody tampered.
AlarmIsTrue == guard = "safe" => tampered

\* The chain behind it, which a restart finds again: without tampering it verifies.
ChainHolds == ~tampered => verify_audit_chain(log)
=============================================================================
