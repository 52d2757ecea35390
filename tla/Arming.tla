------------------------------- MODULE Arming -------------------------------
(***************************************************************************)
(* Which accounts may place orders: the rows of the accounts table, the    *)
(* seed and the guard of the boot, the endpoints that create, change and   *)
(* deactivate an account, the choice of the worker an order goes to and    *)
(* the read-only gate at the head of execute_trade.                        *)
(*                                                                         *)
(* create_account and deactivate_account run in threads, patch_account on  *)
(* the event loop: between the check of one and its commit others commit.  *)
(***************************************************************************)
EXTENDS Integers

CONSTANTS
    Accounts,  \* rows there can be
    Env,       \* stands for "no account": the worker made from the environment
    PaperTest  \* the PAPER_TEST flag

ASSUME ArmingAssumption == Env \notin Accounts /\ PaperTest \in BOOLEAN

VARIABLES
    rows,     \* the table
    up,       \* the process runs
    primary,  \* the account of the primary worker, or Env
    envPort,  \* the class of IBKR_PORT, where the primary worker is Env's
    asked,    \* per account the request that is past its check
    leaked    \* a worker nobody had armed was given an order, a history only

vars == <<rows, up, primary, envPort, asked, leaked>>

\* Ports by what order_policy.py knows of them: LIVE_PORTS, PAPER_PORTS, others.
Port == {"live", "paper", "unknown"}
Row == [there : BOOLEAN, is_paper : BOOLEAN, port : Port, is_active : BOOLEAN, read_only : BOOLEAN]
Field == {"is_paper", "port", "is_active", "read_only"}
NoRow == [there |-> FALSE, is_paper |-> TRUE, port |-> "paper", is_active |-> FALSE, read_only |-> TRUE]

\* stale: something was committed since the request's check, a history only.
Request == [op : {"none", "create", "patch"}, row : Row, fields : SUBSET Field, stale : BOOLEAN]
NoRequest == [op |-> "none", row |-> NoRow, fields |-> {}, stale |-> FALSE]

IsLive(r) == ~r.is_paper \/ r.port = "live"
ArmedLive(r) == r.there /\ r.is_active /\ IsLive(r) /\ ~r.read_only
ActivePaper(r) == r.there /\ r.is_active /\ ~IsLive(r)

\* Real money that can be traded beside simulated money.
Coexist(R) == (\E a \in Accounts : ArmedLive(R[a])) /\ (\E a \in Accounts : ActivePaper(R[a]))

\* _assert_paper_test_safety.
BootRefuses(R) ==
    \/ Coexist(R)
    \/ PaperTest /\ \E a \in Accounts : R[a].there /\ R[a].is_active /\ IsLive(R[a])

Init ==
    /\ rows = [a \in Accounts |-> NoRow]
    /\ up = FALSE
    /\ primary = Env /\ envPort = "paper"
    /\ asked = [a \in Accounts |-> NoRequest]
    /\ leaked = FALSE

-----------------------------------------------------------------------------
\* Starting and stopping.

\* Mutant: the seed as it was before, always active and writable.
SeedArmed(p) ==
    [there |-> TRUE, is_paper |-> p # "live", port |-> p, is_active |-> TRUE, read_only |-> FALSE]

\* Mutant: the port itself where its class belongs.
SeedRaw(p) ==
    [there |-> TRUE, is_paper |-> p # "live", port |-> IF p = "live" THEN "4003" ELSE p,
     is_active |-> p = "paper", read_only |-> p # "paper"]

\* The account put into an empty table: armed only on a port that proves paper.
SeedRow(p) ==
    [there |-> TRUE, is_paper |-> p # "live", port |-> p,
     is_active |-> p = "paper", read_only |-> p # "paper"]

\* lifespan: seed, guard, and the worker of the first active account as the primary
\* one; without an active account it is made from the environment.  A refused boot
\* leaves the seed behind and the process down.
Boot ==
    /\ ~up
    /\ \E p \in Port :
          /\ IF \A a \in Accounts : ~rows[a].there
             THEN \E a \in Accounts : rows' = [rows EXCEPT ![a] = SeedRow(p)]
             ELSE UNCHANGED rows
          /\ up' = ~BootRefuses(rows')
          /\ \/ \E a \in Accounts :
                   /\ up' /\ rows'[a].there /\ rows'[a].is_active
                   /\ primary' = a
                   /\ UNCHANGED envPort
             \/ /\ up' /\ \A a \in Accounts : ~(rows'[a].there /\ rows'[a].is_active)
                /\ envPort' = p
                /\ UNCHANGED primary
             \/ ~up' /\ UNCHANGED <<primary, envPort>>
    /\ UNCHANGED <<asked, leaked>>

\* The process ends; requests under way end with it.
Stop ==
    /\ up
    /\ up' = FALSE
    /\ primary' = Env /\ envPort' = "paper"
    /\ asked' = [a \in Accounts |-> NoRequest]
    /\ UNCHANGED <<rows, leaked>>

-----------------------------------------------------------------------------
\* The endpoints.

\* Mutant: the account itself is counted only as a live one.
SafeForgetsPaper(a, r, isActive, readOnly) ==
    LET own == [there |-> TRUE, is_paper |-> r.is_paper, port |-> r.port,
                is_active |-> isActive, read_only |-> readOnly]
        Would(b) == IF b = a /\ IsLive(r) THEN own ELSE rows[b]
    IN  ~ /\ \E b \in Accounts : ArmedLive(Would(b))
          /\ \E b \in Accounts : ActivePaper(Would(b))

\* _assert_no_armed_live_beside_paper lets a request pass: the other rows as they
\* are, this one with the requested is_active and read_only, but with is_paper
\* and port from r, the row handed in.
Safe(a, r, isActive, readOnly) ==
    LET own == [there |-> TRUE, is_paper |-> r.is_paper, port |-> r.port,
                is_active |-> isActive, read_only |-> readOnly]
        Would(b) == IF b = a THEN own ELSE rows[b]
    IN  ~ /\ \E b \in Accounts : ArmedLive(Would(b))
          /\ \E b \in Accounts : ActivePaper(Would(b))

\* A row with some of its fields taken from another one.
Merge(old, new, fields) ==
    [there |-> TRUE,
     is_paper |-> IF "is_paper" \in fields THEN new.is_paper ELSE old.is_paper,
     port |-> IF "port" \in fields THEN new.port ELSE old.port,
     is_active |-> IF "is_active" \in fields THEN new.is_active ELSE old.is_active,
     read_only |-> IF "read_only" \in fields THEN new.read_only ELSE old.read_only]

\* A request is past its check; of its row only what it will write is kept.
Ask(a, op, r, fields) ==
    asked' = [asked EXCEPT ![a] = [op |-> op, row |-> Merge(NoRow, r, fields),
                                   fields |-> fields, stale |-> FALSE]]

\* create_account: the new row is active whatever the body says.
CreateCheck(a) ==
    /\ up
    /\ ~rows[a].there
    /\ asked[a] = NoRequest
    /\ \E r \in Row :
          /\ r.there /\ r.is_active
          /\ Safe(a, r, TRUE, r.read_only)
          /\ Ask(a, "create", r, Field)
    /\ UNCHANGED <<rows, up, primary, envPort, leaked>>

\* The fields in which two rows differ: the ones the ORM will write.
Changed(r, s) ==
    {f \in Field : \/ f = "is_paper" /\ r.is_paper # s.is_paper
                   \/ f = "port" /\ r.port # s.port
                   \/ f = "is_active" /\ r.is_active # s.is_active
                   \/ f = "read_only" /\ r.read_only # s.read_only}

\* patch_account: the guard sees is_active and read_only as they will be, and the
\* row itself, is_paper and port included, as it is.
PatchCheck(a) ==
    /\ up
    /\ rows[a].there
    /\ \A b \in Accounts : asked[b].op # "patch"
    /\ asked[a] = NoRequest
    /\ \E r \in Row :
          /\ r.there
          /\ Safe(a, rows[a], r.is_active, r.read_only)
          /\ Ask(a, "patch", r, Changed(rows[a], r))
    /\ UNCHANGED <<rows, up, primary, envPort, leaked>>

\* The requests under way when the one of a has been committed.
Outdated(a) ==
    [b \in Accounts |->
        IF b = a \/ asked[b] = NoRequest THEN NoRequest
        ELSE [op |-> asked[b].op, row |-> asked[b].row, fields |-> asked[b].fields, stale |-> TRUE]]

\* The create or the patch is committed.
Commit(a) ==
    /\ up
    /\ asked[a] # NoRequest
    /\ rows' = [rows EXCEPT ![a] = Merge(@, asked[a].row, asked[a].fields)]
    /\ asked' = Outdated(a)
    /\ UNCHANGED <<up, primary, envPort, leaked>>

\* deactivate_account.  The worker and its loops are left running.
Deactivate(a) ==
    /\ up
    /\ rows[a].there
    /\ rows' = [rows EXCEPT ![a] = Merge(@, NoRow, {"is_active"})]
    /\ asked' = [b \in Accounts |->
                    IF asked[b] = NoRequest THEN NoRequest
                    ELSE [op |-> asked[b].op, row |-> asked[b].row,
                          fields |-> asked[b].fields, stale |-> TRUE]]
    /\ UNCHANGED <<up, primary, envPort, leaked>>

-----------------------------------------------------------------------------
\* Orders.

\* _resolve_worker: an account that is not there or not active means the primary.
Resolve(id) == IF id # Env /\ rows[id].there /\ rows[id].is_active THEN id ELSE primary

\* The gate of execute_trade: no account, no gate; an unknown account, no gate.
GatePasses(id) == id # Env => ~(rows[id].there /\ rows[id].read_only)

\* The worker whose orders nobody has armed: its account is read-only, or it was
\* made from the environment and the port does not prove paper.
Disarmed(w) == IF w = Env THEN envPort # "paper" ELSE rows[w].there /\ rows[w].read_only

\* execute_trade for id on worker w gets past the gate and to the broker.
OrderOn(id, w) ==
    /\ up
    /\ GatePasses(id)
    /\ leaked' = (leaked \/ Disarmed(w))
    /\ UNCHANGED <<rows, up, primary, envPort, asked>>

\* The loops of the primary worker trade, with its own account; those of the other
\* workers do as a request for their account does.
LoopOrder == OrderOn(primary, primary)

\* A request trades for an account or for none.
RequestOrder(id) == OrderOn(id, Resolve(id))

Next ==
    \/ Boot \/ Stop
    \/ \E a \in Accounts : CreateCheck(a) \/ PatchCheck(a) \/ Commit(a) \/ Deactivate(a)
    \/ LoopOrder
    \/ \E id \in Accounts \cup {Env} : RequestOrder(id)

Spec == Init /\ [][Next]_vars

-----------------------------------------------------------------------------
\* Properties.

TypeOK ==
    /\ rows \in [Accounts -> Row]
    /\ up \in BOOLEAN /\ leaked \in BOOLEAN /\ envPort \in Port
    /\ primary \in Accounts \cup {Env}
    /\ asked \in [Accounts -> Request]

\* Creating, arming, activating and deactivating, in any order and however many
\* requests run at once, puts an armed live account beside an active paper one only
\* when a commit rests on a check that others have overtaken, or when it turns the
\* account from one kind into the other.
ApartByAdmin ==
    [][~Coexist(rows) /\ Coexist(rows') =>
          \E a \in Accounts :
              /\ asked[a] # NoRequest /\ asked'[a] = NoRequest
              /\ \/ asked[a].stale
                 \/ asked[a].op = "patch" /\ asked[a].fields \cap {"is_paper", "port"} # {}]_vars

\* A row that appears without a request is armed only if its port proves paper; no
\* row is armed later but by a request (main.py:339, order_policy.py:54).
SeedIsInert ==
    [][\A a \in Accounts :
          /\ rows'[a].is_active /\ ~rows'[a].read_only
          /\ ~(rows[a].is_active /\ ~rows[a].read_only)
          => asked[a] # NoRequest \/ rows'[a].port = "paper"]_vars

\* accounts_router.py:76, "Keep the runtime out of the state the boot guard refuses
\* to start in" (and :84, the check is on "the state the patch WOULD produce"): with
\* one request at a time the table never holds that state.
NeverArmedBesidePaper ==
    [][~Coexist(rows) /\ (\A a \in Accounts : ~asked[a].stale) => ~Coexist(rows')]_vars

\* main.py:339, "A cold boot on an empty DB must never produce an account that can
\* place real orders", and main.py:358, "Trading stays disarmed until you activate it
\* deliberately": no order goes to a read-only account or an unproven port.
StaysDisarmed == ~leaked
==============================================================================
