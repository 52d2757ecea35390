------------------------ MODULE TradeExecution_proofs ------------------------
(***************************************************************************)
(* Theorems about TradeExecution, for every set of calls, accounts and     *)
(* symbols and any number of crashes.                                      *)
(***************************************************************************)
EXTENDS TradeExecution, TLAPS

\* Calls that return, and the states their rows get, keep the type of pc, row.
LEMMA FinishType ==
    ASSUME TypeOK, NEW t \in Trades, NEW s \in TradeState, Finish(t, s)
    PROVE  /\ pc' \in [Trades -> PC]
           /\ row' \in [Trades -> [state : TradeState \cup {"NONE"}, oid : Nat]]
BY DEF TypeOK, Finish, PersistTradeHistory, NoId, PC

\* The states execute_trade, the callbacks and reconciliation write are states.
LEMMA StatesUsed ==
    {"PRE_ORDER", "SUBMITTED", "FILLED", "DRY_RUN", "REJECTED_COMPLIANCE",
     "REJECTED_FUNDS", "REJECTED_CONCENTRATION", "IBKR_ERROR"} \subseteq TradeState
BY DEF TradeState

LEMMA CertifyType ==
    ASSUME TypeOK, NEW t \in Trades, NEW v \in Verdict, Certify(t, v)
    PROVE  /\ pc' \in [Trades -> PC]
           /\ audit' \in [Trades -> Verdict]
           /\ row' \in [Trades -> [state : TradeState \cup {"NONE"}, oid : Nat]]
<1>1. CASE Finish(t, "REJECTED_COMPLIANCE")
  BY <1>1, FinishType, StatesUsed DEF Certify, TypeOK
<1>2. CASE GoTo(t, "price") /\ UNCHANGED row
  BY <1>2 DEF Certify, TypeOK, GoTo, PC
<1> QED  BY <1>1, <1>2 DEF Certify

LEMMA CommitIntentType ==
    ASSUME TypeOK, NEW t \in Trades, CommitIntent(t)
    PROVE  /\ pc' \in [Trades -> PC]
           /\ row' \in [Trades -> [state : TradeState \cup {"NONE"}, oid : Nat]]
BY StatesUsed DEF TypeOK, CommitIntent, PersistTradeHistory, GoTo, NoId, PC

LEMMA GetPositionsType ==
    ASSUME TypeOK, NEW a \in Accounts, NEW view \in SUBSET Symbols,
           GetPositions(a, view)
    PROVE  cache' \in [Accounts -> SUBSET SUBSET Symbols]
BY DEF TypeOK, GetPositions

LEMMA MayReadPositionsType ==
    ASSUME TypeOK, NEW a \in Accounts, MayReadPositions(a)
    PROVE  cache' \in [Accounts -> SUBSET SUBSET Symbols]
<1>1. Held(a) \in SUBSET Symbols
  BY DEF Held
<1>2. CASE UNCHANGED cache
  BY <1>2 DEF TypeOK
<1> QED  BY <1>1, <1>2, GetPositionsType DEF MayReadPositions

LEMMA NoShortGuardType ==
    ASSUME TypeOK, NEW t \in Trades, NoShortGuard(t)
    PROVE  cache' \in [Accounts -> SUBSET SUBSET Symbols]
BY TradesAssumption, GetPositionsType DEF NoShortGuard, TypeOK

\* Healing changes the state of one row.
LEMMA HealFrame ==
    ASSUME TypeOK, NEW t \in Trades, NEW view, Heal(t, view)
    PROVE  /\ row' \in [Trades -> [state : TradeState \cup {"NONE"}, oid : Nat]]
           /\ \A u \in Trades : /\ row'[u].oid = row[u].oid
                                /\ row[u].state # "NONE" => row'[u].state # "NONE"
<1>1. PICK u \in Trades : row' = [row EXCEPT ![u] = WithState(u, "FILLED")]
  BY DEF Heal
<1> QED  BY <1>1, StatesUsed DEF WithState, TypeOK

\* A step of execute_trade keeps the types.
LEMMA ExecuteTradeType ==
    ASSUME TypeOK, NEW t \in Trades, ExecuteTrade(t)
    PROVE  TypeOK'
<1> USE TradesAssumption
<1>1. CASE Begin(t)
  <2>1. UNCHANGED <<auditId, brokerVars, eventVars, linkVars, lifeVars>>
    BY <1>1 DEF Begin
  <2>2. /\ pc' \in [Trades -> PC]
        /\ audit' \in [Trades -> Verdict]
        /\ row' \in [Trades -> [state : TradeState \cup {"NONE"}, oid : Nat]]
    <3>1. CASE \E v \in Verdict \ {"none"} : Certify(t, v)
      BY <3>1, CertifyType
    <3>3. CASE Finish(t, "IBKR_ERROR") /\ UNCHANGED audit
      BY <3>3, FinishType, StatesUsed DEF TypeOK
    <3>2. CASE (\E l \in {"returned", "screen"} : GoTo(t, l)) /\ UNCHANGED <<audit, row>>
      BY <3>2 DEF GoTo, TypeOK, PC
    <3> QED  BY <1>1, <3>1, <3>2, <3>3 DEF Begin
  <2> QED  BY <2>1, <2>2 DEF TypeOK, brokerVars, eventVars, linkVars, lifeVars
<1>2. CASE Screen(t)
  BY <1>2, CertifyType, FinishType, StatesUsed
     DEF Screen, TypeOK, brokerVars, eventVars, linkVars, lifeVars
<1>3. CASE Price(t)
  <2>1. /\ pc' \in [Trades -> PC]
        /\ row' \in [Trades -> [state : TradeState \cup {"NONE"}, oid : Nat]]
    <3>1. CASE \E s \in {"IBKR_ERROR", "REJECTED_COMPLIANCE"} : Finish(t, s)
      BY <3>1, FinishType, StatesUsed
    <3>2. CASE (\E l \in {"funds", "held"} : GoTo(t, l)) /\ UNCHANGED row
      BY <3>2 DEF GoTo, TypeOK, PC
    <3>3. CASE GoTo(t, "held") /\ \E view : Heal(t, view)
      BY <3>3, HealFrame DEF GoTo, TypeOK, PC
    <3> QED  BY <1>3, <3>1, <3>2, <3>3 DEF Price
  <2>2. cache' \in [Accounts -> SUBSET SUBSET Symbols]
    <3>1. CASE UNCHANGED cache
      BY <3>1 DEF TypeOK
    <3> QED  BY <1>3, <3>1, MayReadPositionsType, GetPositionsType DEF Price
  <2> QED  BY <1>3, <2>1, <2>2 DEF Price, TypeOK, brokerVars, eventVars, lifeVars
<1>4. CASE Fund(t)
  <2>1. /\ pc' \in [Trades -> PC]
        /\ row' \in [Trades -> [state : TradeState \cup {"NONE"}, oid : Nat]]
    <3>1. CASE \E s \in {"REJECTED_FUNDS", "REJECTED_CONCENTRATION", "IBKR_ERROR"} :
                  Finish(t, s)
      BY <3>1, FinishType, StatesUsed
    <3>2. CASE GoTo(t, "slippage") /\ UNCHANGED row
      BY <3>2 DEF GoTo, TypeOK, PC
    <3> QED  BY <1>4, <3>1, <3>2 DEF Fund
  <2>2. cache' \in [Accounts -> SUBSET SUBSET Symbols]
    BY <1>4, MayReadPositionsType DEF Fund
  <2> QED  BY <1>4, <2>1, <2>2 DEF Fund, TypeOK, brokerVars, eventVars, lifeVars
<1>5. CASE Slippage(t)
  <2>1. /\ pc' \in [Trades -> PC]
        /\ row' \in [Trades -> [state : TradeState \cup {"NONE"}, oid : Nat]]
    <3>1. CASE \E s \in {"IBKR_ERROR", "REJECTED_FUNDS", "DRY_RUN"} : Finish(t, s)
      BY <3>1, FinishType, StatesUsed
    <3> QED  BY <1>5, <3>1, CommitIntentType DEF Slippage
  <2> QED  BY <1>5, <2>1 DEF Slippage, TypeOK, brokerVars, eventVars, linkVars, lifeVars
<1>6. CASE Possess(t)
  <2>1. PICK view \in SUBSET Symbols :
           /\ GetPositions(AccountOf[t], view)
           /\ \/ \E s \in {"REJECTED_COMPLIANCE", "IBKR_ERROR", "DRY_RUN"} : Finish(t, s)
              \/ CommitIntent(t)
    BY <1>6 DEF Possess
  <2>2. /\ pc' \in [Trades -> PC]
        /\ row' \in [Trades -> [state : TradeState \cup {"NONE"}, oid : Nat]]
    BY <2>1, FinishType, StatesUsed, CommitIntentType
  <2>3. cache' \in [Accounts -> SUBSET SUBSET Symbols]
    BY <2>1, GetPositionsType
  <2> QED  BY <1>6, <2>2, <2>3 DEF Possess, TypeOK, brokerVars, eventVars, lifeVars
<1>7. CASE PlaceFails(t)
  BY <1>7, FinishType, StatesUsed, MayReadPositionsType
     DEF PlaceFails, TypeOK, brokerVars, eventVars, lifeVars
<1>8. CASE Place(t)
  <2>1. cache' \in [Accounts -> SUBSET SUBSET Symbols]
    BY <1>8, NoShortGuardType DEF Place, TypeOK
  <2>2. /\ pc' \in [Trades -> PC]
        /\ order' \in [Trades -> OrderStatus]
        /\ orderId' \in [Trades -> Nat]
        /\ nextId' \in [Accounts -> Nat]
    BY <1>8 DEF Place, TypeOK, GoTo, AfterPlace, PC, OrderStatus
  <2> QED  BY <1>8, <2>1, <2>2 DEF Place, TypeOK, eventVars, lifeVars
<1>9. CASE AckFails(t)
  BY <1>9, FinishType, StatesUsed
     DEF AckFails, TypeOK, brokerVars, eventVars, linkVars, lifeVars
<1>10. CASE RecordAuditId(t)
  BY <1>10 DEF RecordAuditId, TypeOK, GoTo, PC, brokerVars, eventVars, linkVars, lifeVars
<1>11. CASE RecordSubmitted(t)
  BY <1>11, StatesUsed
     DEF RecordSubmitted, PersistTradeHistory, TypeOK, GoTo, PC, brokerVars, eventVars,
         linkVars, lifeVars
<1>12. CASE Quote(t)
  BY <1>12, NoShortGuardType
     DEF Quote, TypeOK, GoTo, PC, brokerVars, eventVars, lifeVars
<1> QED
  BY <1>1, <1>2, <1>3, <1>4, <1>5, <1>6, <1>7, <1>8, <1>9, <1>10, <1>11, <1>12
     DEF ExecuteTrade, Resume

\* A step of the broker keeps the types.
LEMMA BrokerType ==
    ASSUME TypeOK, NEW t \in Trades, Broker(t)
    PROVE  TypeOK'
<1> USE TradesAssumption
<1>1. CASE Fill(t)
  <2>1. /\ order' \in [Trades -> OrderStatus]
        /\ pos' \in [Accounts -> [Symbols -> Int]]
        /\ inbox' \subseteq Message
    BY <1>1 DEF Fill, MoveLots, Notify, TypeOK, OrderStatus, Message
  <2> QED  BY <1>1, <2>1 DEF Fill, TypeOK, execVars, linkVars, lifeVars
<1>2. CASE Cancel(t)
  <2>1. /\ order' \in [Trades -> OrderStatus]
        /\ inbox' \subseteq Message
    BY <1>2 DEF Cancel, Notify, TypeOK, OrderStatus, Message
  <2> QED  BY <1>2, <2>1 DEF Cancel, TypeOK, execVars, linkVars, lifeVars
<1>3. CASE ChildExit(t)
  <2>1. /\ order' \in [Trades -> OrderStatus]
        /\ pos' \in [Accounts -> [Symbols -> Int]]
        /\ inbox' \subseteq Message
    BY <1>3 DEF ChildExit, MoveLots, Notify, TypeOK, OrderStatus, Message
  <2> QED  BY <1>3, <2>1 DEF ChildExit, TypeOK, execVars, linkVars, lifeVars
<1> QED  BY <1>1, <1>2, <1>3 DEF Broker

\* The callbacks, on the loop and in their threads, keep the types.
LEMMA CallbackType ==
    ASSUME TypeOK,
           \/ \E m \in inbox : OnOrderStatus(m)
           \/ \E m \in tasks : DbUpdateOrderStatus(m)
    PROVE  TypeOK'
<1>1. ASSUME NEW m \in inbox, OnOrderStatus(m)
      PROVE  TypeOK'
  BY <1>1 DEF OnOrderStatus, TypeOK, execVars, brokerVars, linkVars, lifeVars
<1>2. ASSUME NEW m \in tasks, DbUpdateOrderStatus(m)
      PROVE  TypeOK'
  <2>1. StateOf(m.status) \in TradeState
    BY <1>2, StatesUsed DEF TypeOK, Message, StateOf
  <2>2. row' \in [Trades -> [state : TradeState \cup {"NONE"}, oid : Nat]]
    <3>1. CASE UNCHANGED row
      BY <3>1 DEF TypeOK
    <3>2. ASSUME NEW t \in Trades, row' = [row EXCEPT ![t] = WithState(t, StateOf(m.status))]
          PROVE  row' \in [Trades -> [state : TradeState \cup {"NONE"}, oid : Nat]]
      BY <2>1, <3>2 DEF WithState, TypeOK
    <3> QED  BY <1>2, <3>1, <3>2 DEF DbUpdateOrderStatus
  <2> QED  BY <1>2, <2>2 DEF DbUpdateOrderStatus, TypeOK, brokerVars, linkVars, lifeVars
<1> QED  BY <1>1, <1>2

\* Reconciliation decides on states only, and leaves alone the rows it leaves.
LEMMA ReconciledStateType ==
    \A a \in Accounts, t \in Trades : ReconciledState(a, t) \in TradeState \cup {"NONE"}
BY StatesUsed DEF ReconciledState, JudgedState

\* A step of a worker's connection or reconciliation keeps the types.
LEMMA LinkType ==
    ASSUME TypeOK, NEW a \in Accounts, Link(a)
    PROVE  TypeOK'
<1>1. CASE Disconnect(a)
  BY <1>1 DEF Disconnect, TypeOK, RecState, execVars, brokerVars, eventVars, lifeVars
<1>2. CASE LoopConnect(a)
  BY <1>2 DEF LoopConnect, TypeOK, execVars, brokerVars, eventVars, lifeVars
<1>3. CASE Reconnect(a)
  BY <1>3 DEF Reconnect, TypeOK, RecState, execVars, brokerVars, eventVars, lifeVars
<1>4. CASE GiveUp(a)
  BY <1>4 DEF GiveUp, TypeOK, RecState, execVars, brokerVars, eventVars, lifeVars
<1>5. CASE ReconcileRead(a)
  <2>1. /\ cache' \in [Accounts -> SUBSET SUBSET Symbols]
        /\ snap' \in [Accounts -> SUBSET Symbols]
    BY <1>5, GetPositionsType DEF ReconcileRead, TypeOK
  <2> QED
    BY <1>5, <2>1 DEF ReconcileRead, TypeOK, RecState, execVars, brokerVars, eventVars,
                      lifeVars
<1>6. CASE ReconcileQuery(a)
  <2>1. fix' \in [Accounts -> [Trades -> TradeState \cup {"NONE"}]]
    BY <1>6, ReconciledStateType DEF ReconcileQuery, TypeOK
  <2> QED
    BY <1>6, <2>1 DEF ReconcileQuery, TypeOK, RecState, execVars, brokerVars, eventVars,
                      lifeVars
<1>8. CASE ReadPositions(a)
  <2>1. cache' \in [Accounts -> SUBSET SUBSET Symbols]
    BY <1>8 DEF ReadPositions, Held, TypeOK
  <2> QED  BY <1>8, <2>1 DEF ReadPositions, TypeOK, execVars, brokerVars, eventVars, lifeVars
<1>7. CASE ReconcileCommit(a)
  <2>1. row' \in [Trades -> [state : TradeState \cup {"NONE"}, oid : Nat]]
    BY <1>7 DEF ReconcileCommit, WithState, TypeOK
  <2> QED
    BY <1>7, <2>1 DEF ReconcileCommit, TypeOK, RecState, brokerVars, eventVars, lifeVars
<1>9. CASE Alerted(a)
  BY <1>9 DEF Alerted, TypeOK, RecState, execVars, brokerVars, eventVars, lifeVars
<1> QED
  BY <1>1, <1>2, <1>3, <1>4, <1>5, <1>6, <1>7, <1>8, <1>9 DEF Link, Reconcile

\* So does a crash, and a restart.
LEMMA ProcessType ==
    ASSUME TypeOK, Crash \/ Boot
    PROVE  TypeOK'
<1>1. CASE Crash
  <2>1. /\ up' \in BOOLEAN /\ crashes' \in Nat
        /\ pc' \in [Trades -> PC]
    <3>1. pc' = [t \in Trades |-> IF pc[t] \in Running THEN "killed" ELSE pc[t]]
      BY <1>1 DEF Crash
    <3>2. "killed" \in PC
      BY DEF PC
    <3>3. pc' \in [Trades -> PC]
      BY <3>1, <3>2 DEF TypeOK
    <3>4. up' \in BOOLEAN
      BY <1>1 DEF Crash
    <3>5. crashes' \in Nat
      BY <1>1 DEF Crash, TypeOK
    <3> QED  BY <3>3, <3>4, <3>5
  <2>2. /\ inbox' \subseteq Message /\ tasks' \subseteq Message
        /\ conn' \in [Accounts -> BOOLEAN]
        /\ dropped' \in [Accounts -> BOOLEAN]
        /\ rec' \in [Accounts -> RecState]
    BY <1>1 DEF Crash, RecState
  <2>3. /\ cache' \in [Accounts -> SUBSET SUBSET Symbols]
        /\ snap' \in [Accounts -> SUBSET Symbols]
        /\ fix' \in [Accounts -> [Trades -> TradeState \cup {"NONE"}]]
    BY <1>1 DEF Crash
  <2> QED  BY <1>1, <2>1, <2>2, <2>3 DEF Crash, TypeOK, brokerVars
<1>2. CASE Boot
  BY <1>2 DEF Boot, TypeOK, execVars, brokerVars, eventVars, linkVars
<1> QED  BY <1>1, <1>2

\* The types are an invariant, whatever the number of calls, accounts, symbols
\* and crashes.
THEOREM TypeCorrect == Spec => []TypeOK
<1>1. Init => TypeOK
  BY BoundsAssumption
     DEF Init, TypeOK, PC, Verdict, NoId, NoRow, OrderStatus, RecState, Message
<1>2. TypeOK /\ [Next]_vars => TypeOK'
  <2>1. CASE Next
    BY <2>1, ExecuteTradeType, BrokerType, CallbackType, LinkType, ProcessType DEF Next
  <2>2. CASE UNCHANGED vars
    BY <2>2 DEF TypeOK, vars, execVars, brokerVars, eventVars, linkVars, lifeVars
  <2> QED  BY <2>1, <2>2
<1> QED  BY <1>1, <1>2, PTL DEF Spec

-----------------------------------------------------------------------------
\* What TraceInv depends on: with these unchanged it is unchanged.
LEMMA TraceFrame ==
    ASSUME TraceInv,
           UNCHANGED <<pc, audit, auditId, order, orderId, nextId>>,
           \A t \in Trades : /\ row'[t].oid = row[t].oid
                             /\ row[t].state # "NONE" => row'[t].state # "NONE"
    PROVE  TraceInv'
BY DEF TraceInv, Progress, Ids, Vetted

\* A step of t that leaves the orders alone keeps TraceInv if it keeps what
\* TraceInv says of t: its row's id is unset and a vetted call stays vetted.
LEMMA TraceCall ==
    ASSUME TypeOK, TraceInv, NEW t \in Trades,
           UNCHANGED <<auditId, order, orderId, nextId>>,
           pc' = [pc EXCEPT ![t] = pc'[t]],
           audit' = [audit EXCEPT ![t] = audit'[t]],
           row' = [row EXCEPT ![t] = row'[t]],
           row'[t].oid = NoId \/ row'[t].oid = row[t].oid,
           Progress(t)', pc'[t] # "history"
    PROVE  TraceInv'
<1>1. \A a \in Accounts : nextId'[a] > NoId
  BY DEF TraceInv
<1>2. ASSUME NEW u \in Trades, u # t
      PROVE  Progress(u)'
  BY <1>2 DEF TypeOK, TraceInv, Progress, Vetted
<1>3. ASSUME NEW u \in Trades, u # t
      PROVE  Ids(u)'
  BY <1>3 DEF TypeOK, TraceInv, Ids
<1>4. Ids(t)'
  BY DEF TypeOK, TraceInv, Ids
<1> QED  BY <1>1, <1>2, <1>3, <1>4 DEF TraceInv

\* A call that ends without an order id: it may end anywhere, the row it leaves
\* has a state and no id.
LEMMA TraceFinish ==
    ASSUME TypeOK, TraceInv, NEW t \in Trades, NEW s \in TradeState, Finish(t, s),
           UNCHANGED <<audit, auditId, order, orderId, nextId>>
    PROVE  TraceInv'
<1>1. /\ pc' = [pc EXCEPT ![t] = "returned"]
      /\ row' = [row EXCEPT ![t] = [state |-> s, oid |-> NoId]]
  BY DEF Finish, PersistTradeHistory
<1>2. s # "NONE"
  BY DEF TradeState
<1>3. /\ pc'[t] = "returned"
      /\ row'[t] = [state |-> s, oid |-> NoId]
  BY <1>1 DEF TypeOK
<1>4. audit' = [audit EXCEPT ![t] = audit'[t]]
  BY DEF TypeOK
<1>5. Progress(t)'
  BY <1>2, <1>3 DEF TraceInv, Progress, Vetted, PastGate, PastIntent, PastSend
<1>6. row'[t].oid = NoId
  BY <1>3
<1>7. /\ pc' = [pc EXCEPT ![t] = pc'[t]]
      /\ row' = [row EXCEPT ![t] = row'[t]]
  BY <1>1, <1>3, Zenon
<1>8. pc'[t] # "history"
  BY <1>3
<1> QED  BY <1>4, <1>5, <1>6, <1>7, <1>8, TraceCall

\* The gate lets a call through vetted, or ends it.
LEMMA TraceCertify ==
    ASSUME TypeOK, TraceInv, NEW t \in Trades, NEW v \in Verdict \ {"none"},
           Certify(t, v), pc[t] \in {"idle", "screen"},
           UNCHANGED <<auditId, order, orderId, nextId>>
    PROVE  TraceInv'
<1>1. audit' = [audit EXCEPT ![t] = audit'[t]] /\ audit'[t] = v
  BY DEF Certify, TypeOK
<1>2. order[t] = "none"
  BY DEF TraceInv, Progress, PastSend
<1>3. CASE Finish(t, "REJECTED_COMPLIANCE")
  <2>1. /\ pc' = [pc EXCEPT ![t] = "returned"] /\ pc'[t] = "returned"
        /\ row' = [row EXCEPT ![t] = row'[t]] /\ row'[t].oid = NoId
    BY <1>3 DEF Finish, PersistTradeHistory, TypeOK
  <2>2. Progress(t)'
    BY <1>2, <2>1 DEF Progress, PastGate, PastIntent, PastSend
  <2> QED  BY <1>1, <2>1, <2>2, TraceCall
<1>4. CASE (Side[t] = "SELL" \/ v = "COMPLIANT") /\ GoTo(t, "price") /\ UNCHANGED row
  <2>1. pc' = [pc EXCEPT ![t] = "price"] /\ pc'[t] = "price"
    BY <1>4 DEF GoTo, TypeOK
  <2>2. row' = [row EXCEPT ![t] = row'[t]] /\ row'[t].oid = row[t].oid
    BY <1>4 DEF TypeOK
  <2>3. Vetted(t)'
    BY <1>1, <1>4 DEF Vetted, Verdict
  <2>4. Progress(t)'
    BY <1>2, <2>1, <2>3 DEF Progress, PastGate, PastIntent, PastSend
  <2> QED  BY <1>1, <2>1, <2>2, <2>4, TraceCall
<1> QED  BY <1>3, <1>4 DEF Certify

\* A step from one point before the order to the next keeps what was vetted.
LEMMA TraceGoTo ==
    ASSUME TypeOK, TraceInv, NEW t \in Trades, NEW l \in PC \ PastSend,
           GoTo(t, l), l \in PastGate => pc[t] \in PastGate,
           l \in PastIntent => pc[t] \in PastIntent,
           pc[t] \notin PastSend, l = "returned" \/ order[t] = "none",
           UNCHANGED <<audit, auditId, row, order, orderId, nextId>>
    PROVE  TraceInv'
<1>1. pc' = [pc EXCEPT ![t] = l] /\ pc'[t] = l
  BY DEF GoTo, TypeOK
<1>2. audit' = [audit EXCEPT ![t] = audit'[t]] /\ row' = [row EXCEPT ![t] = row'[t]]
  BY DEF TypeOK
<1>3. Progress(t)' /\ l # "history"
  BY <1>1 DEF TraceInv, Progress, Vetted, PastGate, PastIntent, PastSend
<1> QED  BY <1>1, <1>2, <1>3, TraceCall

\* A SELL that heals a BUY's row on its way.
LEMMA TraceHeal ==
    ASSUME TypeOK, TraceInv, NEW t \in Trades, NEW view, Heal(t, view), GoTo(t, "held"),
           pc[t] = "price",
           UNCHANGED <<audit, auditId, order, orderId, nextId>>
    PROVE  TraceInv'
<1>1. pc' = [pc EXCEPT ![t] = "held"]
  BY DEF GoTo
<1>2. \A u \in Trades : /\ row'[u].oid = row[u].oid
                        /\ row[u].state # "NONE" => row'[u].state # "NONE"
  BY HealFrame
<1>3. ASSUME NEW u \in Trades
      PROVE  Progress(u)'
  BY <1>1, <1>2 DEF TypeOK, TraceInv, Progress, Vetted, PastGate, PastIntent, PastSend
<1>4. ASSUME NEW u \in Trades
      PROVE  Ids(u)'
  BY <1>1, <1>2 DEF TypeOK, TraceInv, Ids
<1> QED  BY <1>3, <1>4 DEF TraceInv

\* Committing the intent of a vetted call that has no order yet.
LEMMA TraceIntent ==
    ASSUME TypeOK, TraceInv, NEW t \in Trades, CommitIntent(t),
           pc[t] \in {"slippage", "held"},
           UNCHANGED <<audit, auditId, order, orderId, nextId>>
    PROVE  TraceInv'
<1>1. pc' = [pc EXCEPT ![t] = "place"] /\ pc'[t] = "place"
  BY DEF CommitIntent, GoTo, TypeOK
<1>2. /\ row' = [row EXCEPT ![t] = row'[t]]
      /\ row'[t] = [state |-> "PRE_ORDER", oid |-> NoId]
  BY DEF CommitIntent, PersistTradeHistory, TypeOK
<1>3. audit' = [audit EXCEPT ![t] = audit'[t]]
  BY DEF TypeOK
<1>4. Progress(t)'
  BY <1>1, <1>2 DEF TraceInv, Progress, Vetted, PastGate, PastIntent, PastSend
<1>5. row'[t].oid = NoId
  BY <1>2
<1>6. pc' = [pc EXCEPT ![t] = pc'[t]]
  BY <1>1, Zenon
<1>7. pc'[t] # "history"
  BY <1>1
<1> QED  BY <1>2, <1>3, <1>4, <1>5, <1>6, <1>7, TraceCall

\* Submission: a recorded call gets an id below the next one of its account,
\* which no order of that account has.
LEMMA TracePlace ==
    ASSUME TypeOK, TraceInv, NEW t \in Trades, Place(t)
    PROVE  TraceInv'
<1> DEFINE a == AccountOf[t]
<1>1. a \in Accounts /\ nextId[a] \in Nat \ {NoId}
  BY TradesAssumption DEF TraceInv, TypeOK, NoId
<1>2. /\ order' = [order EXCEPT ![t] = "working"]
      /\ orderId' = [orderId EXCEPT ![t] = nextId[a]]
      /\ UNCHANGED <<audit, auditId, row>>
      /\ pc[t] \in {"place", "quote"}
  BY DEF Place
<1>3. PICK k \in {1, 3} : nextId' = [nextId EXCEPT ![a] = @ + k]
  BY DEF Place
<1>4. \A b \in Accounts : nextId'[b] \in Nat /\ nextId'[b] >= nextId[b]
  BY <1>3 DEF TypeOK
<1>5. nextId'[a] > nextId[a]
  BY <1>1, <1>3 DEF TypeOK
<1>6. PICK l \in {"ack", "audit_id"} : pc' = [pc EXCEPT ![t] = l]
  BY DEF Place, GoTo, AfterPlace
<1>7. \A b \in Accounts : nextId'[b] > NoId
  BY <1>4 DEF TraceInv, TypeOK, NoId
<1>8. ASSUME NEW u \in Trades
      PROVE  Progress(u)'
  BY <1>2, <1>6 DEF TypeOK, TraceInv, Progress, Vetted, PastGate, PastIntent, PastSend
<1>9. ASSUME NEW u \in Trades
      PROVE  Ids(u)'
  <2>1. order[t] = "none" /\ row[t].oid = NoId
    BY <1>2 DEF TraceInv, Progress, Ids, PastSend
  <2>2. AccountOf[u] \in Accounts
    BY TradesAssumption
  <2>3. CASE u = t
    <3>1. order'[t] # "none" /\ orderId'[t] = nextId[a]
      BY <1>2 DEF TypeOK
    <3>2. orderId'[t] # NoId /\ orderId'[t] < nextId'[a]
      BY <1>1, <1>4, <1>5, <3>1
    <3>3. row'[t].oid = NoId /\ pc'[t] # "history"
      BY <1>2, <1>6, <2>1 DEF TypeOK
    <3>4. ASSUME NEW v \in Trades \ {t}, AccountOf[v] = AccountOf[t]
          PROVE  orderId'[v] # orderId'[t]
      <4>1. orderId'[v] = orderId[v] /\ orderId[v] < nextId[a]
        BY <1>2, <3>4 DEF TypeOK, TraceInv, Ids
      <4> QED  BY <1>1, <3>1, <4>1 DEF TypeOK
    <3> QED  BY <2>3, <3>1, <3>2, <3>3, <3>4 DEF Ids
  <2>4. CASE u # t
    <3>1. /\ order'[u] = order[u] /\ orderId'[u] = orderId[u] /\ pc'[u] = pc[u]
          /\ row'[u] = row[u] /\ auditId'[u] = auditId[u]
      BY <1>2, <1>6, <2>4 DEF TypeOK
    <3>2. orderId[u] < nextId[AccountOf[u]] /\ orderId[u] \in Nat
          /\ nextId[AccountOf[u]] \in Nat
      BY <2>2 DEF TypeOK, TraceInv, Ids
    <3>3. orderId'[u] < nextId'[AccountOf[u]]
      BY <1>4, <2>2, <3>1, <3>2
    <3>4. ASSUME NEW v \in Trades \ {u}, AccountOf[v] = AccountOf[u], orderId'[u] # NoId
          PROVE  orderId'[v] # orderId'[u]
      <4>1. CASE v = t
        <5>1. orderId'[v] = nextId[a] /\ AccountOf[u] = a
          BY <1>2, <3>4, <4>1 DEF TypeOK
        <5> QED  BY <1>1, <3>1, <3>2, <5>1
      <4>2. CASE v # t
        BY <1>2, <3>1, <3>4, <4>2 DEF TypeOK, TraceInv, Ids
      <4> QED  BY <4>1, <4>2
    <3> QED  BY <3>1, <3>3, <3>4 DEF Ids, TraceInv
  <2> QED  BY <2>3, <2>4
<1> QED  BY <1>7, <1>8, <1>9 DEF TraceInv

\* The id goes into the audit entry, then into the row.
LEMMA TraceRecord ==
    ASSUME TypeOK, TraceInv, NEW t \in Trades, RecordAuditId(t) \/ RecordSubmitted(t)
    PROVE  TraceInv'
<1>1. CASE RecordAuditId(t)
  <2>1. /\ pc' = [pc EXCEPT ![t] = "history"] /\ pc[t] \in PastSend
        /\ auditId' = [auditId EXCEPT ![t] = orderId[t]]
        /\ UNCHANGED <<audit, row, order, orderId, nextId>>
    BY <1>1 DEF RecordAuditId, GoTo, PastSend, brokerVars
  <2>2. ASSUME NEW u \in Trades
        PROVE  Progress(u)' /\ Ids(u)'
    BY <2>1 DEF TypeOK, TraceInv, Progress, Ids, Vetted, PastGate, PastIntent, PastSend
  <2> QED  BY <2>1, <2>2 DEF TraceInv
<1>2. CASE RecordSubmitted(t)
  <2>1. /\ pc' = [pc EXCEPT ![t] = "returned"] /\ pc[t] = "history"
        /\ row' = [row EXCEPT ![t] = [state |-> "SUBMITTED", oid |-> orderId[t]]]
        /\ UNCHANGED <<audit, auditId, order, orderId, nextId>>
    BY <1>2 DEF RecordSubmitted, PersistTradeHistory, GoTo, brokerVars
  <2>2. ASSUME NEW u \in Trades
        PROVE  Progress(u)' /\ Ids(u)'
    BY <2>1 DEF TypeOK, TraceInv, Progress, Ids, Vetted, PastGate, PastIntent, PastSend
  <2> QED  BY <2>1, <2>2 DEF TraceInv
<1> QED  BY <1>1, <1>2

\* A step of execute_trade keeps TraceInv.
LEMMA ExecuteTradeTrace ==
    ASSUME TypeOK, TraceInv, NEW t \in Trades, ExecuteTrade(t)
    PROVE  TraceInv'
<1>1. CASE Begin(t)
  <2>1. pc[t] = "idle" /\ UNCHANGED <<auditId, order, orderId, nextId>>
    BY <1>1 DEF Begin, brokerVars
  <2>2. CASE \E v \in Verdict \ {"none"} : Certify(t, v)
    BY <2>1, <2>2, TraceCertify
  <2>3. ASSUME NEW l \in {"returned", "screen"}, GoTo(t, l), UNCHANGED <<audit, row>>
        PROVE  TraceInv'
    <3>1. order[t] = "none"
      BY <2>1 DEF TraceInv, Progress, PastSend
    <3> QED
      BY <2>1, <2>3, <3>1, TraceGoTo DEF PC, PastGate, PastIntent, PastSend
  <2>4. CASE Finish(t, "IBKR_ERROR") /\ UNCHANGED audit
    BY <2>1, <2>4, TraceFinish, StatesUsed
  <2> QED  BY <1>1, <2>2, <2>3, <2>4 DEF Begin
<1>2. CASE Screen(t)
  BY <1>2, TraceCertify, TraceFinish, StatesUsed DEF Screen, brokerVars
<1>3. CASE Price(t)
  <2>1. pc[t] = "price" /\ UNCHANGED <<audit, auditId, order, orderId, nextId>>
    BY <1>3 DEF Price, brokerVars
  <2>2. ASSUME NEW s \in {"IBKR_ERROR", "REJECTED_COMPLIANCE"}, Finish(t, s)
        PROVE  TraceInv'
    BY <2>1, <2>2, TraceFinish, StatesUsed
  <2>3. ASSUME NEW l \in {"funds", "held"}, GoTo(t, l), UNCHANGED row
        PROVE  TraceInv'
    <3>1. order[t] = "none"
      BY <2>1 DEF TraceInv, Progress, PastSend
    <3> QED
      BY <2>1, <2>3, <3>1, TraceGoTo DEF PC, PastGate, PastIntent, PastSend
  <2>4. ASSUME NEW view, GoTo(t, "held"), Heal(t, view)
        PROVE  TraceInv'
    BY <2>1, <2>4, TraceHeal
  <2> QED  BY <1>3, <2>2, <2>3, <2>4 DEF Price
<1>4. CASE Fund(t)
  <2>1. pc[t] = "funds" /\ UNCHANGED <<audit, auditId, order, orderId, nextId>>
    BY <1>4 DEF Fund, brokerVars
  <2>2. ASSUME NEW s \in {"REJECTED_FUNDS", "REJECTED_CONCENTRATION", "IBKR_ERROR"},
               Finish(t, s)
        PROVE  TraceInv'
    BY <2>1, <2>2, TraceFinish, StatesUsed
  <2>3. CASE GoTo(t, "slippage") /\ UNCHANGED row
    <3>1. order[t] = "none"
      BY <2>1 DEF TraceInv, Progress, PastSend
    <3> QED
      BY <2>1, <2>3, <3>1, TraceGoTo DEF PC, PastGate, PastIntent, PastSend
  <2> QED  BY <1>4, <2>2, <2>3 DEF Fund
<1>5. CASE Slippage(t)
  <2>1. pc[t] = "slippage" /\ UNCHANGED <<audit, auditId, order, orderId, nextId>>
    BY <1>5 DEF Slippage, brokerVars
  <2>2. ASSUME NEW s \in {"IBKR_ERROR", "REJECTED_FUNDS", "DRY_RUN"}, Finish(t, s)
        PROVE  TraceInv'
    BY <2>1, <2>2, TraceFinish, StatesUsed
  <2> QED  BY <1>5, <2>1, <2>2, TraceIntent DEF Slippage
<1>6. CASE Possess(t)
  <2>1. pc[t] = "held" /\ UNCHANGED <<audit, auditId, order, orderId, nextId>>
    BY <1>6 DEF Possess, brokerVars
  <2>2. ASSUME NEW s \in {"REJECTED_COMPLIANCE", "IBKR_ERROR", "DRY_RUN"}, Finish(t, s)
        PROVE  TraceInv'
    BY <2>1, <2>2, TraceFinish, StatesUsed
  <2> QED  BY <1>6, <2>1, <2>2, TraceIntent DEF Possess
<1>7. CASE PlaceFails(t)
  BY <1>7, TraceFinish, StatesUsed DEF PlaceFails, brokerVars
<1>8. CASE AckFails(t)
  BY <1>8, TraceFinish, StatesUsed DEF AckFails, brokerVars
<1>9. CASE Quote(t)
  <2>1. /\ pc[t] = "place" /\ GoTo(t, "quote")
        /\ UNCHANGED <<audit, auditId, row, order, orderId, nextId>>
    BY <1>9 DEF Quote, brokerVars
  <2>2. order[t] = "none"
    BY <2>1 DEF TraceInv, Progress, PastSend
  <2> QED  BY <2>1, <2>2, TraceGoTo DEF PC, PastGate, PastIntent, PastSend
<1> QED
  BY <1>1, <1>2, <1>3, <1>4, <1>5, <1>6, <1>7, <1>8, <1>9, TracePlace, TraceRecord
     DEF ExecuteTrade, Resume

\* The broker changes what became of an order, never whether there is one.
LEMMA BrokerTrace ==
    ASSUME TypeOK, TraceInv, NEW t \in Trades, Broker(t)
    PROVE  TraceInv'
<1>1. PICK s \in OrderStatus \ {"none"} : order' = [order EXCEPT ![t] = s]
  BY DEF Broker, Fill, Cancel, ChildExit, OrderStatus
<1>2. order[t] # "none" /\ UNCHANGED <<pc, audit, auditId, row, orderId, nextId>>
  BY DEF Broker, Fill, Cancel, ChildExit, execVars
<1>3. ASSUME NEW u \in Trades
      PROVE  Progress(u)' /\ Ids(u)'
  BY <1>1, <1>2 DEF TypeOK, TraceInv, Progress, Ids, Vetted
<1> QED  BY <1>2, <1>3 DEF TraceInv

\* A callback writes a state into a row it finds by its id.
LEMMA CallbackTrace ==
    ASSUME TypeOK, TraceInv,
           \/ \E m \in inbox : OnOrderStatus(m)
           \/ \E m \in tasks : DbUpdateOrderStatus(m)
    PROVE  TraceInv'
<1>1. UNCHANGED <<pc, audit, auditId, order, orderId, nextId>>
  BY DEF OnOrderStatus, DbUpdateOrderStatus, execVars, brokerVars
<1>2. CASE UNCHANGED row
  BY <1>1, <1>2, TraceFrame
<1>3. ASSUME NEW m \in tasks, NEW t \in Trades,
             row' = [row EXCEPT ![t] = WithState(t, StateOf(m.status))]
      PROVE  TraceInv'
  <2>1. StateOf(m.status) # "NONE"
    BY DEF StateOf
  <2>2. \A u \in Trades : /\ row'[u].oid = row[u].oid
                          /\ row[u].state # "NONE" => row'[u].state # "NONE"
    BY <1>3, <2>1 DEF WithState, TypeOK
  <2> QED  BY <1>1, <2>2, TraceFrame
<1> QED  BY <1>2, <1>3 DEF OnOrderStatus, DbUpdateOrderStatus, execVars

\* Reconciliation rewrites states and neither ids nor orders.
LEMMA LinkTrace ==
    ASSUME TypeOK, TraceInv, NEW a \in Accounts, Link(a)
    PROVE  TraceInv'
<1>1. UNCHANGED <<pc, audit, auditId, order, orderId, nextId>>
  BY DEF Link, Disconnect, LoopConnect, Reconnect, GiveUp, Reconcile, Alerted,
         ReconcileRead, ReadPositions, ReconcileQuery, ReconcileCommit, execVars, brokerVars
<1>2. CASE UNCHANGED row
  BY <1>1, <1>2, TraceFrame
<1>3. CASE ReconcileCommit(a)
  <2>1. \A u \in Trades : /\ row'[u].oid = row[u].oid
                          /\ row[u].state # "NONE" => row'[u].state # "NONE"
    BY <1>3 DEF ReconcileCommit, WithState, TypeOK
  <2> QED  BY <1>1, <2>1, TraceFrame
<1> QED
  BY <1>2, <1>3 DEF Link, Disconnect, LoopConnect, Reconnect, GiveUp, Reconcile, Alerted,
                    ReadPositions, ReconcileRead, ReconcileQuery, execVars

\* A crash suspends every claim about a running call and no other.
LEMMA ProcessTrace ==
    ASSUME TypeOK, TraceInv, Crash \/ Boot
    PROVE  TraceInv'
<1>1. UNCHANGED <<audit, auditId, row, order, orderId, nextId>>
  BY DEF Crash, Boot, execVars, brokerVars
<1>2. \A t \in Trades : pc'[t] = pc[t] \/ pc'[t] = "killed"
  BY DEF Crash, Boot, execVars, TypeOK
<1>3. ASSUME NEW t \in Trades
      PROVE  Progress(t)'
  BY <1>1, <1>2 DEF TraceInv, Progress, Vetted, PastGate, PastIntent, PastSend
<1>4. ASSUME NEW t \in Trades
      PROVE  Ids(t)'
  BY <1>1, <1>2 DEF TraceInv, Ids
<1> QED  BY <1>1, <1>3, <1>4 DEF TraceInv

\* What a call has committed at each point, and where the id of its order may
\* stand, through every interleaving of calls, callbacks, reconciliations and
\* crashes.
THEOREM TraceInvariant == Spec => []TraceInv
<1>1. Init => TraceInv
  BY TradesAssumption
     DEF Init, TraceInv, Progress, Ids, PastGate, PastIntent, PastSend, NoId, NoRow
<1>2. TypeOK /\ TraceInv /\ [Next]_vars => TraceInv'
  <2>1. CASE Next
    BY <2>1, ExecuteTradeTrace, BrokerTrace, CallbackTrace, LinkTrace, ProcessTrace
       DEF Next
  <2>2. CASE UNCHANGED vars
    BY <2>2, TraceFrame DEF vars, execVars, brokerVars
  <2> QED  BY <2>1, <2>2
<1> QED  BY <1>1, <1>2, TypeCorrect, PTL DEF Spec

\* No order without a row and a committed audit entry behind it, no BUY that
\* was not screened COMPLIANT.
THEOREM OrdersAreRecorded == Spec => []OrderIsRecorded
<1>1. TraceInv => OrderIsRecorded
  BY DEF TraceInv, Progress, Vetted, OrderIsRecorded
<1> QED  BY <1>1, TraceInvariant, PTL

\* The id in a row is the id of that call's order, in its audit entry too, and
\* of no other call of the account.
THEOREM IdsAreTraceable == Spec => []IdsTraceable
<1>1. TraceInv => IdsTraceable
  BY DEF TraceInv, Ids, IdsTraceable
<1> QED  BY <1>1, TraceInvariant, PTL

-----------------------------------------------------------------------------
\* The refinement.

PhaseMap == [t \in Trades |-> PhaseOf(t)]

\* A step of t, with orders and ids of others alone, moves the phase of t only.
LEMMA PhaseMove ==
    ASSUME TypeOK, NEW t \in Trades,
           pc' = [pc EXCEPT ![t] = pc'[t]],
           order' = [order EXCEPT ![t] = order'[t]]
    PROVE  PhaseMap' = [PhaseMap EXCEPT ![t] = PhaseOf(t)']
<1>1. ASSUME NEW u \in Trades, u # t
      PROVE  PhaseOf(u)' = PhaseOf(u)
  BY <1>1 DEF PhaseOf, TypeOK
<1> QED  BY <1>1 DEF PhaseMap

\* So a step of t within one phase that issues no id is a stutter of the gate,
LEMMA GateStutter ==
    ASSUME TypeOK, NEW t \in Trades,
           pc' = [pc EXCEPT ![t] = pc'[t]],
           order' = [order EXCEPT ![t] = order'[t]],
           UNCHANGED orderId, PhaseOf(t)' = PhaseOf(t)
    PROVE  UNCHANGED <<PhaseMap, orderId>>
<1>1. PhaseMap[t] = PhaseOf(t) /\ PhaseMap \in [Trades -> {PhaseMap[u] : u \in Trades}]
  BY DEF PhaseMap
<1> QED  BY <1>1, PhaseMove

\* and any other is one of its moves.
LEMMA GateMove ==
    ASSUME TypeOK, NEW t \in Trades,
           pc' = [pc EXCEPT ![t] = pc'[t]],
           UNCHANGED <<order, orderId>>,
           \/ PhaseOf(t) = "new" /\ PhaseOf(t)' = "vetted"
           \/ PhaseOf(t) = "vetted" /\ PhaseOf(t)' = "intended"
           \/ PhaseOf(t) \in {"new", "vetted", "intended"} /\ PhaseOf(t)' = "refused"
    PROVE  Gate!Next
<1>1. order' = [order EXCEPT ![t] = order'[t]]
  BY DEF TypeOK
<1>2. PhaseMap' = [PhaseMap EXCEPT ![t] = PhaseOf(t)'] /\ PhaseMap[t] = PhaseOf(t)
  BY <1>1, PhaseMove DEF PhaseMap
<1>3. Gate!Vet(t) \/ Gate!Intend(t) \/ Gate!Refuse(t)
  BY <1>2 DEF Gate!Vet, Gate!Intend, Gate!Refuse, Gate!Move, PhaseMap
<1> QED  BY <1>3 DEF Gate!Next

\* A call that ends before its order: refused.
LEMMA GateFinish ==
    ASSUME TypeOK, TraceInv, NEW t \in Trades, NEW s, Finish(t, s),
           UNCHANGED <<order, orderId>>,
           pc[t] \in {"idle", "screen", "price", "funds", "slippage", "held", "place",
                     "quote"}
    PROVE  Gate!Next
<1>1. order[t] = "none"
  BY DEF TraceInv, Progress, PastSend
<1>2. pc' = [pc EXCEPT ![t] = pc'[t]] /\ pc'[t] = "returned"
  BY DEF Finish, TypeOK
<1>3. PhaseOf(t) \in {"new", "vetted", "intended"} /\ PhaseOf(t)' = "refused"
  BY <1>1, <1>2 DEF PhaseOf
<1> QED  BY <1>2, <1>3, GateMove

\* A call that gets from one await to the next before its order is sent.
LEMMA GateGoTo ==
    ASSUME TypeOK, TraceInv, NEW t \in Trades, NEW l, GoTo(t, l),
           UNCHANGED <<order, orderId>>,
           \/ pc[t] = "idle" /\ l \in {"screen", "price", "returned"}
           \/ pc[t] = "screen" /\ l = "price"
           \/ pc[t] = "price" /\ l \in {"funds", "held"}
           \/ pc[t] = "funds" /\ l = "slippage"
           \/ pc[t] \in {"slippage", "held"} /\ l = "place"
           \/ pc[t] = "place" /\ l = "quote"
    PROVE  Gate!Next \/ UNCHANGED <<PhaseMap, orderId>>
<1>1. order[t] = "none" /\ order' = [order EXCEPT ![t] = order'[t]]
  BY DEF TraceInv, Progress, PastSend, TypeOK
<1>2. pc' = [pc EXCEPT ![t] = pc'[t]] /\ pc'[t] = l
  BY DEF GoTo, TypeOK
<1>3. CASE l \in {"screen", "funds", "held", "slippage", "quote"}
  <2>1. PhaseOf(t)' = PhaseOf(t)
    BY <1>1, <1>2, <1>3 DEF PhaseOf
  <2> QED  BY <1>1, <1>2, <2>1, GateStutter
<1>4. CASE l = "price"
  <2>1. PhaseOf(t) = "new" /\ PhaseOf(t)' = "vetted"
    BY <1>1, <1>2, <1>4 DEF PhaseOf
  <2> QED  BY <1>2, <2>1, GateMove
<1>5. CASE l = "returned"
  <2>1. PhaseOf(t) = "new" /\ PhaseOf(t)' = "refused"
    BY <1>1, <1>2, <1>5 DEF PhaseOf
  <2> QED  BY <1>2, <2>1, GateMove
<1>6. CASE l = "place"
  <2>1. PhaseOf(t) = "vetted" /\ PhaseOf(t)' = "intended"
    BY <1>1, <1>2, <1>6 DEF PhaseOf
  <2> QED  BY <1>2, <2>1, GateMove
<1> QED  BY <1>3, <1>4, <1>5, <1>6

\* Once the order is sent the call cannot leave that phase.
LEMMA GateSent ==
    ASSUME TypeOK, NEW t \in Trades, order[t] # "none", order'[t] # "none",
           pc' = [pc EXCEPT ![t] = pc'[t]],
           order' = [order EXCEPT ![t] = order'[t]],
           UNCHANGED orderId
    PROVE  UNCHANGED <<PhaseMap, orderId>>
<1>1. PhaseOf(t)' = PhaseOf(t)
  BY DEF PhaseOf
<1> QED  BY <1>1, GateStutter

\* The submission is the gate's.
LEMMA GatePlace ==
    ASSUME TypeOK, TraceInv, NEW t \in Trades, Place(t)
    PROVE  Gate!Next
<1>1. /\ pc[t] \in {"place", "quote"}
      /\ order' = [order EXCEPT ![t] = "working"]
      /\ orderId' = [orderId EXCEPT ![t] = nextId[AccountOf[t]]]
      /\ pc' = [pc EXCEPT ![t] = AfterPlace(t)]
  BY DEF Place, GoTo
<1>2. order[t] = "none"
  BY <1>1 DEF TraceInv, Progress, PastSend
<1>3. order'[t] = "working" /\ order' = [order EXCEPT ![t] = order'[t]]
  BY <1>1 DEF TypeOK
<1>4. pc' = [pc EXCEPT ![t] = pc'[t]]
  BY <1>1 DEF TypeOK
<1>5. PhaseOf(t) = "intended" /\ PhaseOf(t)' = "sent"
  BY <1>1, <1>2, <1>3 DEF PhaseOf
<1>6. PhaseMap' = [PhaseMap EXCEPT ![t] = "sent"] /\ PhaseMap[t] = "intended"
  BY <1>3, <1>4, <1>5, PhaseMove DEF PhaseMap
<1>7. orderId' = [orderId EXCEPT ![t] = orderId'[t]] /\ orderId'[t] > 0
  BY <1>1, TradesAssumption DEF TypeOK, TraceInv, NoId
<1>8. Gate!Send(t)
  BY <1>6, <1>7 DEF Gate!Send, Gate!Move, PhaseMap
<1> QED  BY <1>8 DEF Gate!Next

\* A step of execute_trade is a step of the gate or a stutter.
LEMMA GateExecuteTrade ==
    ASSUME TypeOK, TraceInv, NEW t \in Trades, ExecuteTrade(t)
    PROVE  Gate!Next \/ UNCHANGED <<PhaseMap, orderId>>
<1>1. CASE Begin(t)
  <2>1. pc[t] = "idle" /\ UNCHANGED <<order, orderId>>
    BY <1>1 DEF Begin, brokerVars
  <2> QED  BY <1>1, <2>1, GateFinish, GateGoTo DEF Begin, Certify
<1>2. CASE Screen(t)
  <2>1. pc[t] = "screen" /\ UNCHANGED <<order, orderId>>
    BY <1>2 DEF Screen, brokerVars
  <2> QED  BY <1>2, <2>1, GateFinish, GateGoTo DEF Screen, Certify
<1>3. CASE Price(t)
  <2>1. pc[t] = "price" /\ UNCHANGED <<order, orderId>>
    BY <1>3 DEF Price, brokerVars
  <2>2. (\E s : Finish(t, s)) \/ (\E l \in {"funds", "held"} : GoTo(t, l))
    BY <1>3 DEF Price
  <2> QED  BY <2>1, <2>2, GateFinish, GateGoTo
<1>4. CASE Fund(t)
  <2>1. pc[t] = "funds" /\ UNCHANGED <<order, orderId>>
    BY <1>4 DEF Fund, brokerVars
  <2> QED  BY <1>4, <2>1, GateFinish, GateGoTo DEF Fund
<1>5. CASE Slippage(t)
  <2>1. pc[t] = "slippage" /\ UNCHANGED <<order, orderId>>
    BY <1>5 DEF Slippage, brokerVars
  <2> QED  BY <1>5, <2>1, GateFinish, GateGoTo DEF Slippage, CommitIntent
<1>6. CASE Possess(t)
  <2>1. pc[t] = "held" /\ UNCHANGED <<order, orderId>>
    BY <1>6 DEF Possess, brokerVars
  <2> QED  BY <1>6, <2>1, GateFinish, GateGoTo DEF Possess, CommitIntent
<1>7. CASE PlaceFails(t)
  BY <1>7, GateFinish DEF PlaceFails, brokerVars
<1>8. CASE Place(t)
  BY <1>8, GatePlace
<1>9. CASE AckFails(t) \/ RecordAuditId(t) \/ RecordSubmitted(t)
  <2>1. pc[t] \in PastSend /\ UNCHANGED <<order, orderId>>
    BY <1>9 DEF AckFails, RecordAuditId, RecordSubmitted, PastSend, brokerVars
  <2>2. order[t] # "none" /\ order' = [order EXCEPT ![t] = order'[t]]
    BY <2>1 DEF TraceInv, Progress, TypeOK
  <2>3. pc' = [pc EXCEPT ![t] = pc'[t]]
    BY <1>9 DEF AckFails, RecordAuditId, RecordSubmitted, Finish, GoTo, TypeOK
  <2> QED  BY <2>1, <2>2, <2>3, GateSent
<1>10. CASE Quote(t)
  <2>1. pc[t] = "place" /\ UNCHANGED <<order, orderId>>
    BY <1>10 DEF Quote, brokerVars
  <2> QED  BY <1>10, <2>1, GateGoTo DEF Quote
<1> QED
  BY <1>1, <1>2, <1>3, <1>4, <1>5, <1>6, <1>7, <1>8, <1>9, <1>10 DEF ExecuteTrade, Resume

\* What the broker does to a sent order is a stutter of the gate.
LEMMA GateBroker ==
    ASSUME TypeOK, NEW t \in Trades, Broker(t)
    PROVE  UNCHANGED <<PhaseMap, orderId>>
<1>1. PICK s \in OrderStatus \ {"none"} : order' = [order EXCEPT ![t] = s]
  BY DEF Broker, Fill, Cancel, ChildExit, OrderStatus
<1>2. order[t] # "none" /\ UNCHANGED <<pc, orderId>>
  BY DEF Broker, Fill, Cancel, ChildExit, execVars
<1>3. order'[t] # "none" /\ order' = [order EXCEPT ![t] = order'[t]]
  BY <1>1 DEF TypeOK
<1>4. pc' = [pc EXCEPT ![t] = pc'[t]]
  BY <1>2 DEF TypeOK
<1> QED  BY <1>2, <1>3, <1>4, GateSent

\* A crash abandons the running calls that have sent nothing.
LEMMA GateCrash ==
    ASSUME TypeOK, TraceInv, Crash
    PROVE  Gate!Next
<1> DEFINE S == {t \in Trades : pc[t] \in Running /\ order[t] = "none"}
<1>1. /\ pc' = [t \in Trades |-> IF pc[t] \in Running THEN "killed" ELSE pc[t]]
      /\ UNCHANGED <<order, orderId>>
  BY DEF Crash, brokerVars
<1>2. S \in SUBSET {t \in Trades : PhaseMap[t] \in {"new", "vetted", "intended"}}
  <2>1. ASSUME NEW t \in S
        PROVE  PhaseOf(t) \in {"new", "vetted", "intended"}
    BY <2>1 DEF PhaseOf, Running, PC
  <2> QED  BY <2>1 DEF PhaseMap
<1>3. ASSUME NEW t \in Trades
      PROVE  PhaseOf(t)' = IF t \in S THEN "abandoned" ELSE PhaseOf(t)
  BY <1>1 DEF PhaseOf
<1>4. PhaseMap' = [t \in Trades |-> IF t \in S THEN "abandoned" ELSE PhaseMap[t]]
  BY <1>3 DEF PhaseMap
<1>5. Gate!Abandon
  BY <1>1, <1>2, <1>4 DEF Gate!Abandon, PhaseMap
<1> QED  BY <1>5 DEF Gate!Next

\* Everything else leaves calls and orders where they are.
LEMMA GateFrame ==
    ASSUME UNCHANGED <<pc, order, orderId>>
    PROVE  UNCHANGED <<PhaseMap, orderId>>
BY DEF PhaseMap, PhaseOf

\* execute_trade, among everything that interferes with it, implements the gate:
\* one submission per call, after vetting and a committed intent, and none
\* after a refusal or a crash.
THEOREM GateImplemented == Spec => ImplementsGate
<1>1. Init => Gate!Init
  BY DEF Init, Gate!Init, PhaseOf, NoId
<1>2. TypeOK /\ TraceInv /\ [Next]_vars => [Gate!Next]_<<PhaseMap, orderId>>
  <2>1. ASSUME TypeOK, TraceInv, Next
        PROVE  Gate!Next \/ UNCHANGED <<PhaseMap, orderId>>
    <3>1. ASSUME NEW a \in Accounts, Link(a)
          PROVE  UNCHANGED <<pc, order, orderId>>
      BY <3>1 DEF Link, Disconnect, LoopConnect, Reconnect, GiveUp, Reconcile, Alerted,
                  ReadPositions, ReconcileRead, ReconcileQuery, ReconcileCommit, execVars,
                  brokerVars
    <3>2. ASSUME \/ \E m \in inbox : OnOrderStatus(m)
                 \/ \E m \in tasks : DbUpdateOrderStatus(m)
                 \/ Boot
          PROVE  UNCHANGED <<pc, order, orderId>>
      BY <3>2 DEF OnOrderStatus, DbUpdateOrderStatus, Boot, execVars, brokerVars
    <3> QED
      BY <2>1, <3>1, <3>2, GateExecuteTrade, GateBroker, GateCrash, GateFrame DEF Next
  <2>2. CASE UNCHANGED vars
    BY <2>2, GateFrame DEF vars, execVars, brokerVars
  <2> QED  BY <2>1, <2>2
<1>3. PhaseMap = [t \in Trades |-> PhaseOf(t)]
  BY DEF PhaseMap
<1> QED
  BY <1>1, <1>2, <1>3, TypeCorrect, TraceInvariant, PTL
     DEF Spec, ImplementsGate, Gate!Spec, PhaseMap

-----------------------------------------------------------------------------
\* The states a call ends in.

LEMMA LegalEnds ==
    /\ \A s \in {"REJECTED_COMPLIANCE", "IBKR_ERROR"} : CanMove("SCREENING", s)
    /\ \A s \in {"SUBMITTED", "DRY_RUN", "REJECTED_FUNDS", "REJECTED_CONCENTRATION",
                "REJECTED_COMPLIANCE", "IBKR_ERROR"} : CanMove("PRE_ORDER", s)
<1>1. {"SUBMITTED", "DRY_RUN", "REJECTED_FUNDS", "REJECTED_CONCENTRATION"}
          \subseteq Allowed["PRE_ORDER"]
  <2>1. "PRE_ORDER" \in TradeState
    BY DEF TradeState
  <2> QED  BY <2>1 DEF Allowed
<1> QED  BY <1>1 DEF CanMove

\* The step of a call that returns with another row.
LEMMA CallEnds ==
    ASSUME TypeOK, NEW t \in Trades, NEW u \in Trades, ExecuteTrade(t),
           pc[u] \notin {"returned", "killed"}, pc'[u] = "returned", row'[u] # row[u]
    PROVE  CanMove(MachineAt(u), row'[u].state)
<1>1. PICK l \in PC : pc' = [pc EXCEPT ![t] = l]
  BY DEF ExecuteTrade, Resume, Begin, Screen, Price, Fund, Slippage, Possess, PlaceFails,
         Quote, Place, AckFails, RecordAuditId, RecordSubmitted, Certify, CommitIntent,
         Finish, GoTo, AfterPlace, PC
<1>2. u = t /\ pc'[t] = "returned" /\ pc[t] \notin {"returned", "killed"}
  BY <1>1 DEF TypeOK
<1>3. ASSUME NEW s, Finish(t, s)
      PROVE  row'[t].state = s
  BY <1>3 DEF Finish, PersistTradeHistory, TypeOK
<1>4. ASSUME NEW l2, GoTo(t, l2), l2 # "returned"
      PROVE  FALSE
  BY <1>2, <1>4 DEF GoTo, TypeOK
<1>5. CASE Begin(t) \/ Screen(t)
  <2>1. MachineAt(t) = "SCREENING"
    BY <1>5 DEF Begin, Screen, MachineAt
  <2>2. \E s \in {"REJECTED_COMPLIANCE", "IBKR_ERROR"} : Finish(t, s)
    BY <1>2, <1>4, <1>5 DEF Begin, Screen, Certify
  <2> QED  BY <1>2, <1>3, <2>1, <2>2, LegalEnds
<1>6. CASE Price(t) \/ Fund(t) \/ Slippage(t) \/ Possess(t) \/ PlaceFails(t) \/ AckFails(t)
  <2>1. MachineAt(t) = "PRE_ORDER"
    BY <1>6 DEF Price, Fund, Slippage, Possess, PlaceFails, AckFails, MachineAt
  <2>2. \E s \in {"DRY_RUN", "REJECTED_FUNDS", "REJECTED_CONCENTRATION",
                 "REJECTED_COMPLIANCE", "IBKR_ERROR"} : Finish(t, s)
    BY <1>2, <1>4, <1>6
       DEF Price, Fund, Slippage, Possess, PlaceFails, AckFails, CommitIntent
  <2> QED  BY <1>2, <1>3, <2>1, <2>2, LegalEnds
<1>7. CASE Quote(t) \/ Place(t) \/ RecordAuditId(t)
  BY <1>2, <1>4, <1>7 DEF Quote, Place, RecordAuditId, AfterPlace
<1>8. CASE RecordSubmitted(t)
  <2>1. MachineAt(t) = "PRE_ORDER" /\ row'[t].state = "SUBMITTED"
    BY <1>8 DEF RecordSubmitted, PersistTradeHistory, MachineAt, TypeOK
  <2> QED  BY <1>2, <2>1, LegalEnds
<1> QED  BY <1>5, <1>6, <1>7, <1>8 DEF ExecuteTrade, Resume

\* A call never ends in a state its machine would refuse: the exception handler
\* of execute_trade is never entered because of the machine itself.
THEOREM EndsAreLegalAlways == Spec => EndsAreLegal
<1> DEFINE Legal == \A t \in Trades :
              pc[t] \notin {"returned", "killed"} /\ pc'[t] = "returned" /\ row'[t] # row[t]
                  => CanMove(MachineAt(t), row'[t].state)
<1>1. TypeOK /\ [Next]_vars => [Legal]_vars
  <2>1. ASSUME TypeOK, Next
        PROVE  Legal
    <3>1. CASE \E t \in Trades : ExecuteTrade(t)
      BY <2>1, <3>1, CallEnds
    <3>2. CASE \/ \E t \in Trades : Broker(t)
               \/ \E m \in inbox : OnOrderStatus(m)
               \/ \E m \in tasks : DbUpdateOrderStatus(m)
               \/ \E a \in Accounts : Link(a)
               \/ Boot
      <4>1. UNCHANGED pc
        BY <3>2 DEF Broker, Fill, Cancel, ChildExit, OnOrderStatus, DbUpdateOrderStatus,
                    Link, Disconnect, LoopConnect, Reconnect, GiveUp, ReadPositions,
                    Reconcile, Alerted, ReconcileRead, ReconcileQuery, ReconcileCommit, Boot,
                    execVars
      <4> QED  BY <4>1
    <3>3. CASE Crash
      BY <3>3 DEF Crash
    <3> QED  BY <2>1, <3>1, <3>2, <3>3 DEF Next
  <2>2. CASE UNCHANGED vars
    BY <2>2
  <2> QED  BY <2>1, <2>2
<1> QED  BY <1>1, TypeCorrect, PTL DEF Spec, EndsAreLegal
-----------------------------------------------------------------------------
\* Rows, orders and positions on one account, with symbols bought once.

\* Nothing the account lists as held, read now or earlier, holds t's symbol.
Unseen(t) ==
    \A a \in Accounts :
        /\ pos[a][SymbolOf[t]] <= 0
        /\ SymbolOf[t] \notin snap[a]
        /\ \A view \in cache[a] : SymbolOf[t] \notin view

\* Nothing says, or is about to say, that the order of t was executed.
Unclaimed(t) ==
    /\ row[t].state # "FILLED"
    /\ \A a \in Accounts : fix[a][t] # "FILLED"
    /\ Unseen(t)

\* A status message carries the id of its order, or of a bracket's child that
\* executed, and says what has become of that order for good.
Sincere(m) ==
    \/ /\ m.id = orderId[m.of]
       /\ \/ m.status = "Filled" /\ Executed(m.of)
          \/ m.status = "Cancelled" /\ order[m.of] \in {"inactive", "cancelled"}
    \/ /\ m.of \in Bracket /\ m.id = orderId[m.of] + 1
       /\ m.status = "Filled" /\ order[m.of] = "exited"

\* The id of a bracket's first child is no call's order.
ChildId(t) ==
    order[t] # "none" =>
        /\ orderId[t] + 1 < nextId[AccountOf[t]]
        /\ \A u \in Trades : orderId[u] # orderId[t] + 1

\* The inductive invariant behind FilledBuyIsReal: the claim that a BUY was
\* executed reaches its row from a message, a position or a reconciliation's
\* decision, and none of the three makes it before the broker executed it.
BackedInv ==
    /\ \A t \in Trades : Side[t] = "BUY" => Executed(t) \/ Unclaimed(t)
    /\ \A m \in inbox \cup tasks : Sincere(m)
    /\ \A t \in Bracket : ChildId(t)

\* What a step of execute_trade does: the pc and the row of its own call, or the
\* healed row of a BUY; positions are read, the order is sent or left alone.
LEMMA CallStep ==
    ASSUME TypeOK, NEW c \in Trades, ExecuteTrade(c)
    PROVE  /\ UNCHANGED <<pos, inbox, tasks, conn, dropped, rec, snap, fix, up, crashes>>
           /\ pc' = [pc EXCEPT ![c] = pc'[c]]
           /\ Place(c) \/ UNCHANGED <<order, orderId, nextId>>
<1>1. UNCHANGED <<pos, inbox, tasks, conn, dropped, rec, snap, fix, up, crashes>>
  BY DEF ExecuteTrade, Resume, Begin, Screen, Price, Fund, Slippage, Possess, PlaceFails,
         Quote, Place, AckFails, RecordAuditId, RecordSubmitted, brokerVars, eventVars,
         linkVars, lifeVars
<1>2. pc' = [pc EXCEPT ![c] = pc'[c]]
  <2>1. PICK l \in PC : pc' = [pc EXCEPT ![c] = l]
    BY DEF ExecuteTrade, Resume, Begin, Screen, Price, Fund, Slippage, Possess, PlaceFails,
           Quote, Place, AckFails, RecordAuditId, RecordSubmitted, Certify, CommitIntent,
           Finish, GoTo, AfterPlace, PC
  <2> QED  BY <2>1 DEF TypeOK
<1>3. Place(c) \/ UNCHANGED <<order, orderId, nextId>>
  BY DEF ExecuteTrade, Resume, Begin, Screen, Price, Fund, Slippage, Possess, PlaceFails,
         Quote, AckFails, RecordAuditId, RecordSubmitted, brokerVars
<1> QED  BY <1>1, <1>2, <1>3

\* A call writes a state of its own, none of them FILLED, or heals a BUY.
WritesOwn(c) == \E s \in TradeState \ {"FILLED"}, o \in Nat : PersistTradeHistory(c, s, o)

LEMMA CallRow ==
    ASSUME TypeOK, NEW c \in Trades, ExecuteTrade(c)
    PROVE  \/ UNCHANGED row
           \/ WritesOwn(c)
           \/ \E view \in SUBSET Symbols : GetPositions(AccountOf[c], view) /\ Heal(c, view)
<1>1. ASSUME NEW s \in TradeState \ {"FILLED"}, Finish(c, s)
      PROVE  WritesOwn(c)
  BY <1>1 DEF WritesOwn, Finish, NoId
<1>2. ASSUME CommitIntent(c)
      PROVE  WritesOwn(c)
  BY <1>2, StatesUsed DEF WritesOwn, CommitIntent, NoId
<1>3. ASSUME RecordSubmitted(c)
      PROVE  WritesOwn(c)
  BY <1>3, StatesUsed DEF WritesOwn, RecordSubmitted, TypeOK
<1>4. CASE Begin(c) \/ Screen(c)
  BY <1>1, <1>4, StatesUsed DEF Begin, Screen, Certify
<1>5. CASE Price(c)
  BY <1>1, <1>5, StatesUsed DEF Price
<1>6. CASE Fund(c) \/ Slippage(c) \/ Possess(c) \/ PlaceFails(c) \/ AckFails(c)
  BY <1>1, <1>2, <1>6, StatesUsed DEF Fund, Slippage, Possess, PlaceFails, AckFails
<1>7. CASE Quote(c) \/ Place(c) \/ RecordAuditId(c)
  BY <1>7 DEF Quote, Place, RecordAuditId
<1> QED  BY <1>3, <1>4, <1>5, <1>6, <1>7 DEF ExecuteTrade, Resume

\* Reading positions shows no symbol whose BUY was not executed.
LEMMA ReadUnseen ==
    ASSUME TypeOK, NEW t \in Trades, Unseen(t), NEW a \in Accounts, NEW view,
           GetPositions(a, view)
    PROVE  /\ SymbolOf[t] \notin view
           /\ \A b \in Accounts : \A v \in cache'[b] : SymbolOf[t] \notin v
<1>1. pos[a][SymbolOf[t]] \in Int /\ pos[a][SymbolOf[t]] <= 0
  BY TradesAssumption DEF TypeOK, Unseen
<1>2. SymbolOf[t] \notin Held(a)
  BY <1>1 DEF Held
<1> QED  BY <1>2 DEF GetPositions, Unseen, TypeOK

LEMMA CallUnseen ==
    ASSUME TypeOK, NEW t \in Trades, Unseen(t), NEW c \in Trades, ExecuteTrade(c)
    PROVE  Unseen(t)'
<1>1. AccountOf[c] \in Accounts
  BY TradesAssumption
<1>2. UNCHANGED cache \/ \E view : GetPositions(AccountOf[c], view)
  BY DEF ExecuteTrade, Resume, Begin, Screen, Price, Fund, Slippage, Possess, PlaceFails,
         Quote, Place, AckFails, RecordAuditId, RecordSubmitted, MayReadPositions,
         NoShortGuard, linkVars
<1>3. \A b \in Accounts : \A v \in cache'[b] : SymbolOf[t] \notin v
  BY <1>1, <1>2, ReadUnseen DEF Unseen
<1> QED  BY <1>3, CallStep DEF Unseen

\* No row of an unexecuted BUY is written FILLED: the only one a call heals is
\* that of a symbol it has seen held.
LEMMA CallUnclaimed ==
    ASSUME TypeOK, BackedInv, NEW t \in Trades, Side[t] = "BUY", Unclaimed(t),
           NEW c \in Trades, ExecuteTrade(c)
    PROVE  Unclaimed(t)'
<1>1. Unseen(t)' /\ \A a \in Accounts : fix'[a][t] # "FILLED"
  BY CallUnseen, CallStep DEF Unclaimed
<1>2. CASE UNCHANGED row
  BY <1>1, <1>2 DEF Unclaimed
<1>3. ASSUME NEW s \in TradeState \ {"FILLED"}, NEW o \in Nat, PersistTradeHistory(c, s, o)
      PROVE  row'[t].state # "FILLED"
  BY <1>3 DEF PersistTradeHistory, Unclaimed, TypeOK
<1>4. ASSUME NEW view \in SUBSET Symbols, GetPositions(AccountOf[c], view), Heal(c, view)
      PROVE  row'[t].state # "FILLED"
  <2>1. SymbolOf[t] \notin view
    BY <1>4, TradesAssumption, ReadUnseen DEF Unclaimed
  <2>2. PICK u \in Trades : /\ SymbolOf[u] = SymbolOf[c]
                            /\ row' = [row EXCEPT ![u] = WithState(u, "FILLED")]
    BY <1>4 DEF Heal
  <2>3. u # t
    BY <1>4, <2>1, <2>2 DEF Heal
  <2> QED  BY <2>2, <2>3 DEF Unclaimed, TypeOK
<1> QED  BY <1>1, <1>2, <1>3, <1>4, CallRow DEF Unclaimed, WritesOwn

\* What was sent stays what it was, and so does what messages say of it.
LEMMA PlacedOrder ==
    ASSUME TypeOK, TraceInv, NEW c \in Trades, Place(c)
    PROVE  /\ order[c] = "none" /\ orderId[c] = NoId
           /\ order' = [order EXCEPT ![c] = "working"]
           /\ orderId' = [orderId EXCEPT ![c] = nextId[AccountOf[c]]]
           /\ nextId[AccountOf[c]] \in Nat /\ nextId[AccountOf[c]] > 0
<1>1. order[c] = "none"
  BY DEF Place, TraceInv, Progress, PastSend
<1> QED  BY <1>1, TradesAssumption DEF Place, TraceInv, Ids, TypeOK, NoId

LEMMA CallBacked ==
    ASSUME TypeOK, TraceInv, OneAccount, BackedInv, NEW c \in Trades, ExecuteTrade(c)
    PROVE  BackedInv'
<1>1. \A t \in Trades : order[t] # "none" => order'[t] = order[t] /\ orderId'[t] = orderId[t]
  BY CallStep, PlacedOrder DEF TypeOK
<1>2. ASSUME NEW t \in Trades, Side[t] = "BUY"
      PROVE  (Executed(t) \/ Unclaimed(t))'
  BY <1>1, <1>2, CallUnclaimed DEF BackedInv, Executed
<1>3. ASSUME NEW m \in inbox' \cup tasks'
      PROVE  Sincere(m)'
  <2>1. m \in inbox \cup tasks /\ m.of \in Trades
    BY CallStep DEF TypeOK, Message
  <2>2. Sincere(m) /\ order[m.of] # "none"
    BY <2>1 DEF BackedInv, Sincere, Executed
  <2> QED  BY <1>1, <2>1, <2>2 DEF Sincere, Executed
<1>4. ASSUME NEW t \in Bracket, order'[t] # "none"
      PROVE  /\ orderId'[t] + 1 < nextId'[AccountOf[t]]
             /\ \A u \in Trades : orderId'[u] # orderId'[t] + 1
  <2>1. t \in Trades /\ AccountOf[t] \in Accounts /\ AccountOf[t] = AccountOf[c]
    BY TradesAssumption DEF OneAccount
  <2>2. CASE UNCHANGED <<order, orderId, nextId>>
    BY <1>4, <2>2 DEF BackedInv, ChildId
  <2>3. CASE Place(c)
    <3> DEFINE n == nextId[AccountOf[t]]
    <3>1. n \in Nat /\ n > 0
      BY <2>1, <2>3, PlacedOrder
    <3>2. nextId' = [nextId EXCEPT ![AccountOf[c]] = @ + IF c \in Bracket THEN 3 ELSE 1]
      BY <2>3 DEF Place
    <3>3. nextId'[AccountOf[t]] = n + IF c \in Bracket THEN 3 ELSE 1
      BY <2>1, <3>2 DEF TypeOK
    <3>4. \A u \in Trades : /\ orderId[u] \in Nat /\ orderId[u] < n
                            /\ orderId'[u] = IF u = c THEN n ELSE orderId[u]
      BY <2>1, <2>3, PlacedOrder, TradesAssumption DEF TypeOK, TraceInv, Ids, OneAccount
    <3>5. CASE t = c
      BY <2>1, <3>1, <3>3, <3>4, <3>5
    <3>6. CASE t # c
      <4>1. order[t] # "none"
        BY <1>4, <2>1, <2>3, <3>6, PlacedOrder DEF TypeOK
      <4>2. orderId[t] + 1 < n /\ \A u \in Trades : orderId[u] # orderId[t] + 1
        BY <4>1 DEF BackedInv, ChildId
      <4> HIDE DEF n
      <4> QED  BY <2>1, <3>1, <3>3, <3>4, <3>6, <4>2
    <3> QED  BY <3>5, <3>6
  <2> QED  BY <2>2, <2>3, CallStep
<1> QED  BY <1>2, <1>3, <1>4 DEF BackedInv, ChildId
\* The broker moves an order on, to where no message said it could not be, and
\* lets a position of t's symbol appear with the execution of t only.
LEMMA BrokerBacked ==
    ASSUME TypeOK, TraceInv, OneAccount, BoughtOnce, BackedInv, NEW c \in Trades, Broker(c)
    PROVE  BackedInv'
<1>1. /\ UNCHANGED <<orderId, nextId, tasks, row, cache, snap, fix>>
      /\ AccountOf[c] \in Accounts /\ SymbolOf[c] \in Symbols
  BY TradesAssumption
     DEF Broker, Fill, Cancel, ChildExit, execVars, linkVars
<1>2. PICK s \in OrderStatus \ {"none"} :
          /\ order' = [order EXCEPT ![c] = s]
          /\ order[c] \in {"filled", "exited"} => s \in {"filled", "exited"}
          /\ order[c] \in {"inactive", "cancelled"} => s \in {"inactive", "cancelled"}
          /\ order[c] # "none" /\ order[c] # "exited"
  BY DEF Broker, Fill, Cancel, ChildExit, OrderStatus
<1>3. \A t \in Trades : order'[t] = IF t = c THEN s ELSE order[t]
  BY <1>2 DEF TypeOK
<1>4. ASSUME NEW t \in Trades, Side[t] = "BUY", Unclaimed(t), ~Executed(t)'
      PROVE  Unclaimed(t)'
  <2>1. UNCHANGED pos \/ \E n \in Int : MoveLots(c, n) /\ (n > 0 => Side[c] = "BUY" /\ Fill(c))
    BY DEF Broker, Fill, Cancel, ChildExit
  <2>2. ASSUME NEW a \in Accounts
        PROVE  pos'[a][SymbolOf[t]] <= 0
    <3>1. pos[a][SymbolOf[t]] \in Int /\ pos[a][SymbolOf[t]] <= 0
      BY <1>4, TradesAssumption DEF TypeOK, Unclaimed, Unseen
    <3>2. CASE UNCHANGED pos
      BY <3>1, <3>2
    <3>3. ASSUME NEW n \in Int, MoveLots(c, n), n > 0 => Side[c] = "BUY" /\ Fill(c)
          PROVE  pos'[a][SymbolOf[t]] <= 0
      <4>1. CASE n > 0
        <5>1. t # c
          BY <1>4, <3>3, <4>1 DEF Fill, Executed, TypeOK
        <5>2. SymbolOf[t] # SymbolOf[c]
          BY <1>4, <3>3, <4>1, <5>1 DEF BoughtOnce
        <5> QED  BY <1>1, <3>1, <3>3, <5>2 DEF MoveLots, TypeOK
      <4>2. CASE n <= 0
        <5>1. pos'[a][SymbolOf[t]] \in {pos[a][SymbolOf[t]], pos[a][SymbolOf[t]] + n}
          BY <1>1, <3>3 DEF MoveLots, TypeOK
        <5> QED  BY <3>1, <3>3, <4>2, <5>1
      <4> QED  BY <3>3, <4>1, <4>2
    <3> QED  BY <2>1, <3>2, <3>3
  <2> QED  BY <1>1, <1>4, <2>2 DEF Unclaimed, Unseen
<1>5. ASSUME NEW t \in Trades, Side[t] = "BUY"
      PROVE  (Executed(t) \/ Unclaimed(t))'
  <2>1. CASE Executed(t)
    BY <1>2, <1>3, <2>1 DEF Executed
  <2>2. CASE Unclaimed(t)
    BY <1>4, <1>5, <2>2
  <2> QED  BY <1>5, <2>1, <2>2 DEF BackedInv
<1>6. ASSUME NEW m \in inbox \cup tasks
      PROVE  Sincere(m)'
  <2>1. m.of \in Trades /\ Sincere(m)
    BY DEF TypeOK, Message, BackedInv
  <2> QED  BY <1>1, <1>2, <1>3, <2>1 DEF Sincere, Executed
<1>7. ASSUME NEW m \in inbox', m \notin inbox
      PROVE  Sincere(m)'
  <2>1. CASE Fill(c)
    <3>1. m = [of |-> c, id |-> orderId[c], status |-> "Filled"]
      BY <1>7, <2>1 DEF Fill, Notify
    <3>2. m.of = c /\ m.id = orderId[c] /\ m.status = "Filled"
      BY <3>1
    <3> QED  BY <1>1, <2>1, <3>2 DEF Fill, Sincere, Executed, TypeOK
  <2>2. CASE Cancel(c)
    <3>1. m = [of |-> c, id |-> orderId[c], status |-> "Cancelled"]
      BY <1>7, <2>2 DEF Cancel, Notify
    <3>2. m.of = c /\ m.id = orderId[c] /\ m.status = "Cancelled"
      BY <3>1
    <3> QED  BY <1>1, <2>2, <3>2 DEF Cancel, Sincere, Executed, TypeOK
  <2>3. CASE ChildExit(c)
    <3>1. m = [of |-> c, id |-> orderId[c] + 1, status |-> "Filled"]
      BY <1>7, <2>3 DEF ChildExit, Notify
    <3>2. m.of = c /\ m.id = orderId[c] + 1 /\ m.status = "Filled"
      BY <3>1
    <3> QED  BY <1>1, <2>3, <3>2 DEF ChildExit, Sincere, Executed, TypeOK
  <2> QED  BY <2>1, <2>2, <2>3 DEF Broker
<1>8. ASSUME NEW t \in Bracket
      PROVE  ChildId(t)'
  <2>1. t \in Trades /\ ChildId(t) /\ (order[t] # "none" <=> order'[t] # "none")
    BY <1>2, <1>3, TradesAssumption DEF BackedInv
  <2> QED  BY <1>1, <2>1 DEF ChildId
<1> QED  BY <1>1, <1>5, <1>6, <1>7, <1>8 DEF BackedInv

\* The row that carries the id a message names is that of the message's order,
\* and not a child's.
LEMMA MatchedRow ==
    ASSUME TypeOK, TraceInv, OneAccount, BackedInv,
           NEW m \in inbox \cup tasks, NEW u \in Trades, row[u].oid = m.id
    PROVE  /\ u = m.of /\ m.id = orderId[m.of]
           /\ IF m.status = "Filled" THEN Executed(m.of)
                                     ELSE order[m.of] \in {"inactive", "cancelled"}
<1>1. m.of \in Trades /\ Sincere(m) /\ order[m.of] # "none"
  BY DEF TypeOK, Message, BackedInv, Sincere, Executed
<1>2. orderId[m.of] \in Nat /\ orderId[m.of] # NoId
  BY <1>1 DEF TraceInv, Ids, TypeOK
<1>3. m.id # NoId
  BY <1>1, <1>2 DEF Sincere, NoId
<1>4. row[u].oid = orderId[u] /\ orderId[u] = m.id
  BY <1>3 DEF TraceInv, Ids
<1>5. m.id = orderId[m.of]
  BY <1>1, <1>4 DEF Sincere, BackedInv, ChildId
<1>6. u = m.of
  BY <1>1, <1>2, <1>4, <1>5, TradesAssumption DEF TraceInv, Ids, OneAccount
<1>7. orderId[m.of] # orderId[m.of] + 1
  BY <1>2
<1> QED  BY <1>1, <1>5, <1>6, <1>7 DEF Sincere

LEMMA CallbackBacked ==
    ASSUME TypeOK, TraceInv, OneAccount, BackedInv,
           \/ \E m \in inbox : OnOrderStatus(m)
           \/ \E m \in tasks : DbUpdateOrderStatus(m)
    PROVE  BackedInv'
<1>1. /\ UNCHANGED <<order, orderId, nextId, pos, cache, snap, fix>>
      /\ inbox' \cup tasks' \subseteq inbox \cup tasks
  BY DEF OnOrderStatus, DbUpdateOrderStatus, brokerVars, linkVars
<1>2. ASSUME NEW t \in Trades, Unclaimed(t), ~Executed(t)
      PROVE  row'[t].state # "FILLED"
  <2>1. CASE UNCHANGED row
    BY <1>2, <2>1 DEF Unclaimed
  <2>2. ASSUME NEW m \in tasks, NEW u \in Trades, row[u].oid = m.id,
               row' = [row EXCEPT ![u] = WithState(u, StateOf(m.status))]
        PROVE  row'[t].state # "FILLED"
    <3>1. CASE u = t
      BY <1>2, <2>2, <3>1, MatchedRow DEF StateOf, WithState, TypeOK
    <3>2. CASE u # t
      BY <1>2, <2>2, <3>2 DEF Unclaimed, TypeOK
    <3> QED  BY <3>1, <3>2
  <2> QED  BY <2>1, <2>2 DEF OnOrderStatus, DbUpdateOrderStatus, execVars
<1>3. ASSUME NEW t \in Trades, Side[t] = "BUY"
      PROVE  (Executed(t) \/ Unclaimed(t))'
  BY <1>1, <1>2, <1>3 DEF BackedInv, Executed, Unclaimed, Unseen
<1>4. \A m \in inbox' \cup tasks' : Sincere(m)'
  BY <1>1 DEF BackedInv, Sincere, Executed
<1>5. \A t \in Bracket : ChildId(t)'
  BY <1>1 DEF BackedInv, ChildId
<1> QED  BY <1>3, <1>4, <1>5 DEF BackedInv

\* Reconciliation takes a BUY for executed when its symbol is among the
\* positions it has read.
LEMMA LinkBacked ==
    ASSUME TypeOK, BackedInv, NEW a \in Accounts, Link(a)
    PROVE  BackedInv'
<1>1. UNCHANGED <<order, orderId, nextId, pos, inbox, tasks>>
  BY DEF Link, Disconnect, LoopConnect, Reconnect, GiveUp, Reconcile, Alerted,
         ReconcileRead, ReadPositions, ReconcileQuery, ReconcileCommit, brokerVars, eventVars
<1>2. ASSUME NEW t \in Trades, Side[t] = "BUY", Unclaimed(t)
      PROVE  Unclaimed(t)'
  <2> USE <1>2
  <2>1. CASE UNCHANGED <<row, cache, snap, fix>>
    BY <1>1, <2>1 DEF Unclaimed, Unseen
  <2>2. CASE ReadPositions(a)
    <3>1. SymbolOf[t] \notin Held(a)
      BY TradesAssumption DEF Held, Unclaimed, Unseen, TypeOK
    <3> QED
      BY <1>1, <2>2, <3>1 DEF ReadPositions, Unclaimed, Unseen, TypeOK, execVars
  <2>3. CASE ReconcileRead(a)
    <3>1. PICK view \in SUBSET Symbols :
              GetPositions(a, view) /\ snap' = [snap EXCEPT ![a] = view]
      BY <2>3 DEF ReconcileRead
    <3>2. /\ SymbolOf[t] \notin view
          /\ \A b \in Accounts : \A v \in cache'[b] : SymbolOf[t] \notin v
      BY <3>1, ReadUnseen DEF Unclaimed
    <3> QED
      BY <1>1, <2>3, <3>1, <3>2 DEF ReconcileRead, Unclaimed, Unseen, TypeOK, execVars
  <2>4. CASE ReconcileQuery(a)
    <3>1. ReconciledState(a, t) # "FILLED"
      BY DEF ReconciledState, JudgedState, Unclaimed, Unseen
    <3> QED
      BY <1>1, <2>4, <3>1 DEF ReconcileQuery, Unclaimed, Unseen, TypeOK, execVars
  <2>5. CASE ReconcileCommit(a)
    BY <1>1, <2>5 DEF ReconcileCommit, WithState, Unclaimed, Unseen, TypeOK
  <2> QED
    BY <2>1, <2>2, <2>3, <2>4, <2>5
       DEF Link, Disconnect, LoopConnect, Reconnect, GiveUp, Reconcile, Alerted, execVars
<1> QED
  BY <1>1, <1>2 DEF BackedInv, Executed, Sincere, ChildId

LEMMA ProcessBacked ==
    ASSUME TypeOK, BackedInv, Crash \/ Boot
    PROVE  BackedInv'
<1>1. /\ UNCHANGED <<row, order, orderId, nextId, pos>>
      /\ inbox' \cup tasks' \subseteq inbox \cup tasks
  BY DEF Crash, Boot, execVars, brokerVars, eventVars
<1>2. ASSUME NEW t \in Trades, Unclaimed(t)
      PROVE  Unclaimed(t)'
  BY <1>1, <1>2 DEF Crash, Boot, linkVars, Unclaimed, Unseen
<1> QED
  BY <1>1, <1>2 DEF BackedInv, Executed, Sincere, ChildId

\* The row of a BUY says FILLED only if the order was executed: whatever the
\* interleaving of calls, callbacks, position reads, reconciliations and
\* crashes, on one account and for symbols bought once.
THEOREM BackedInvariant == OneAccount /\ BoughtOnce => (Spec => []BackedInv)
<1> SUFFICES ASSUME OneAccount, BoughtOnce
             PROVE  Spec => []BackedInv
  OBVIOUS
<1>1. Init => BackedInv
  <2> SUFFICES ASSUME Init
               PROVE  BackedInv
    OBVIOUS
  <2>1. ASSUME NEW t \in Trades, Side[t] = "BUY"
        PROVE  Unclaimed(t)
    <3>1. \A a \in Accounts : pos[a][SymbolOf[t]] = 0
      BY <2>1, TradesAssumption DEF Init, OneAccount, BoughtOnce
    <3> QED  BY <3>1 DEF Init, Unclaimed, Unseen, NoRow
  <2>2. \A t \in Bracket : ChildId(t)
    BY TradesAssumption DEF Init, ChildId
  <2> QED  BY <2>1, <2>2 DEF Init, BackedInv
<1>2. TypeOK /\ TraceInv /\ BackedInv /\ [Next]_vars => BackedInv'
  <2>1. ASSUME TypeOK, TraceInv, BackedInv, Next
        PROVE  BackedInv'
    BY <2>1, CallBacked, BrokerBacked, CallbackBacked, LinkBacked, ProcessBacked
       DEF Next
  <2>2. ASSUME BackedInv, UNCHANGED vars
        PROVE  BackedInv'
    BY <2>2 DEF vars, execVars, brokerVars, eventVars, linkVars, BackedInv, Executed,
                Unclaimed, Unseen, Sincere, ChildId
  <2> QED  BY <2>1, <2>2
<1> QED  BY <1>1, <1>2, TypeCorrect, TraceInvariant, PTL DEF Spec

THEOREM FilledBuysAreReal == OneAccount /\ BoughtOnce => (Spec => []FilledBuyIsReal)
<1>1. BackedInv => FilledBuyIsReal
  BY DEF BackedInv, Unclaimed, FilledBuyIsReal
<1> QED  BY <1>1, BackedInvariant, PTL

-----------------------------------------------------------------------------
\* The ledger of a process that neither died nor lost its connection.

Calm == crashes = 0 /\ \A a \in Accounts : ~dropped[a]

\* The order is placed and its id not yet in the row: place_order returned, the
\* two commits that follow hold the loop.
InHand(t) == pc[t] \in {"audit_id", "history"}

\* What became of the order meanwhile waits for the loop.
Awaited(t) ==
    /\ Executed(t) => Pending(t, "Filled")
    /\ order[t] \in {"inactive", "cancelled"} => Pending(t, "Cancelled")
    /\ \A m \in tasks : m.of # t

\* The row agrees with the broker, up to callbacks on their way.
Agrees(t) ==
    /\ row[t].oid = orderId[t]
    /\ order[t] = "working" => row[t].state = "SUBMITTED"
    /\ Executed(t) => row[t].state = "FILLED" \/ Pending(t, "Filled")
    /\ order[t] \in {"inactive", "cancelled"} =>
          row[t].state = "IBKR_ERROR" \/ Pending(t, "Cancelled")

PlainOrder(t) ==
    /\ pc[t] # "ack"
    /\ order[t] # "exited"
    /\ Calm /\ order[t] # "none" =>
          /\ conn[AccountOf[t]]
          /\ \/ InHand(t) /\ Awaited(t)
             \/ pc[t] = "returned" /\ Agrees(t)

\* The inductive invariant behind PlainLedgerExact, next to BackedInv: nothing
\* reconciles, and no callback looks for the row of a plain order before the
\* row has the id it looks for.
LedgerInv ==
    /\ Calm => \A a \in Accounts : rec[a] = "off"
    /\ \A t \in Trades \ Bracket : PlainOrder(t)

\* The call's own steps.
LEMMA CallLedger ==
    ASSUME TypeOK, TraceInv, BackedInv, NEW t \in Trades \ Bracket, PlainOrder(t),
           ExecuteTrade(t)
    PROVE  PlainOrder(t)'
<1> t \in Trades
  OBVIOUS
<1>1. /\ UNCHANGED <<inbox, tasks, conn, dropped, crashes>>
      /\ pc' = [pc EXCEPT ![t] = pc'[t]]
  BY CallStep
<1>2. Calm' <=> Calm
  BY <1>1 DEF Calm
<1>3. CASE Place(t)
  <2>1. pc'[t] = "audit_id" /\ order'[t] = "working" /\ conn[AccountOf[t]]
    BY <1>3 DEF Place, GoTo, AfterPlace, TypeOK
  <2>2. order[t] = "none"
    BY <1>3, PlacedOrder
  <2>3. \A m \in tasks : m.of # t
    BY <2>2 DEF BackedInv, Sincere, Executed
  <2> QED  BY <1>1, <2>1, <2>3 DEF PlainOrder, InHand, Awaited, Executed
<1>4. CASE RecordAuditId(t)
  <2>1. InHand(t) /\ InHand(t)' /\ pc'[t] = "history" /\ UNCHANGED <<order, orderId, row>>
    BY <1>4 DEF RecordAuditId, PlainOrder, InHand, GoTo, TypeOK, brokerVars
  <2> QED
    BY <1>1, <1>2, <2>1 DEF PlainOrder, InHand, Awaited, Executed, Pending
<1>5. CASE RecordSubmitted(t)
  <2>1. InHand(t) /\ pc'[t] = "returned" /\ UNCHANGED <<order, orderId>>
    BY <1>5 DEF RecordSubmitted, InHand, GoTo, TypeOK, brokerVars
  <2>2. row'[t].state = "SUBMITTED" /\ row'[t].oid = orderId[t]
    BY <1>5 DEF RecordSubmitted, PersistTradeHistory, TypeOK
  <2> QED
    BY <1>1, <1>2, <2>1, <2>2
       DEF PlainOrder, InHand, Awaited, Agrees, Executed, Pending
<1>6. CASE ~Place(t) /\ ~RecordAuditId(t) /\ ~RecordSubmitted(t)
  <2>1. pc[t] \notin PastSend \cup {"returned", "killed"} /\ pc'[t] # "ack"
    BY <1>6 DEF ExecuteTrade, Resume, Begin, Screen, Price, Fund, Slippage, Possess,
                PlaceFails, Quote, AckFails, Certify, CommitIntent, Finish, GoTo,
                PlainOrder, PastSend, TypeOK
  <2>2. order[t] = "none"
    BY <2>1 DEF TraceInv, Progress
  <2>3. order'[t] = "none"
    BY <1>6, <2>2, CallStep
  <2> QED  BY <2>1, <2>3 DEF PlainOrder
<1> QED  BY <1>3, <1>4, <1>5, <1>6

\* Another call may heal the row, and then of an executed order.
LEMMA OtherLedger ==
    ASSUME TypeOK, TraceInv, BackedInv, NEW t \in Trades \ Bracket, PlainOrder(t),
           NEW c \in Trades \ {t}, ExecuteTrade(c)
    PROVE  PlainOrder(t)'
<1> t \in Trades /\ c \in Trades
  OBVIOUS
<1>1. /\ UNCHANGED <<inbox, tasks, conn, dropped, crashes>>
      /\ pc'[t] = pc[t]
  BY CallStep DEF TypeOK
<1>2. order'[t] = order[t] /\ orderId'[t] = orderId[t]
  BY CallStep DEF Place, TypeOK
<1>3. row'[t] = row[t] \/ (row'[t] = WithState(t, "FILLED") /\ Executed(t))
  <2>1. CASE UNCHANGED row
    BY <2>1
  <2>2. CASE WritesOwn(c)
    BY <2>2 DEF WritesOwn, PersistTradeHistory, TypeOK
  <2>3. ASSUME NEW view \in SUBSET Symbols, GetPositions(AccountOf[c], view), Heal(c, view)
        PROVE  row'[t] = row[t] \/ (row'[t] = WithState(t, "FILLED") /\ Executed(t))
    <3>1. PICK u \in Trades : /\ Side[u] = "BUY" /\ SymbolOf[u] \in view
                              /\ row' = [row EXCEPT ![u] = WithState(u, "FILLED")]
      BY <2>3 DEF Heal
    <3>2. Executed(u)
      BY <2>3, <3>1, TradesAssumption, ReadUnseen DEF BackedInv, Unclaimed
    <3> QED  BY <3>1, <3>2 DEF TypeOK
  <2> QED  BY <2>1, <2>2, <2>3, CallRow
<1>4. CASE row'[t] = row[t]
  BY <1>1, <1>2, <1>4 DEF PlainOrder, Calm, InHand, Awaited, Agrees, Executed, Pending
<1>5. CASE row'[t] = WithState(t, "FILLED") /\ Executed(t)
  <2>1. row'[t].state = "FILLED" /\ row'[t].oid = row[t].oid
    BY <1>5 DEF WithState
  <2> QED
    BY <1>1, <1>2, <1>5, <2>1
       DEF PlainOrder, Calm, InHand, Awaited, Agrees, Executed, Pending
<1> QED  BY <1>3, <1>4, <1>5

\* What the broker does reaches the inbox, for the worker is connected.
LEMMA BrokerLedger ==
    ASSUME TypeOK, NEW t \in Trades \ Bracket, PlainOrder(t), NEW c \in Trades, Broker(c)
    PROVE  PlainOrder(t)'
<1> t \in Trades
  OBVIOUS
<1>1. /\ UNCHANGED <<pc, row, orderId, tasks, conn, dropped, crashes>>
      /\ inbox \subseteq inbox'
  BY DEF Broker, Fill, Cancel, ChildExit, Notify, execVars, linkVars, lifeVars
<1>2. \A st : Pending(t, st) => Pending(t, st)'
  BY <1>1 DEF Pending
<1>3. CASE c # t
  <2>1. order'[t] = order[t]
    BY <1>3 DEF Broker, Fill, Cancel, ChildExit, TypeOK
  <2> QED  BY <1>1, <1>2, <2>1 DEF PlainOrder, Calm, InHand, Awaited, Agrees, Executed
<1>4. CASE c = t /\ Fill(t)
  <2>1. order[t] = "working" /\ order'[t] = "filled"
    BY <1>4 DEF Fill, TypeOK
  <2>2. conn[AccountOf[t]] => Pending(t, "Filled")'
    <3>1. conn[AccountOf[t]] => [of |-> t, id |-> orderId[t], status |-> "Filled"] \in inbox'
      BY <1>4 DEF Fill, Notify
    <3> QED  BY <3>1 DEF Pending
  <2> QED  BY <1>1, <2>1, <2>2 DEF PlainOrder, Calm, InHand, Awaited, Agrees, Executed
<1>5. CASE c = t /\ Cancel(t)
  <2>1. order[t] \in {"working", "inactive"} /\ order'[t] \in {"inactive", "cancelled"}
    BY <1>5 DEF Cancel, TypeOK
  <2>2. conn[AccountOf[t]] => Pending(t, "Cancelled")'
    <3>1. conn[AccountOf[t]] =>
              [of |-> t, id |-> orderId[t], status |-> "Cancelled"] \in inbox'
      BY <1>5 DEF Cancel, Notify
    <3> QED  BY <3>1 DEF Pending
  <2> QED  BY <1>1, <2>1, <2>2 DEF PlainOrder, Calm, InHand, Awaited, Agrees, Executed
<1> QED  BY <1>3, <1>4, <1>5 DEF Broker, ChildExit

\* A callback goes to its thread when no order is in hand, and there it finds
\* the row of its order.
LEMMA CallbackLedger ==
    ASSUME TypeOK, TraceInv, OneAccount, BackedInv, NEW t \in Trades \ Bracket,
           PlainOrder(t),
           \/ \E m \in inbox : OnOrderStatus(m)
           \/ \E m \in tasks : DbUpdateOrderStatus(m)
    PROVE  PlainOrder(t)'
<1> t \in Trades
  OBVIOUS
<1>1. UNCHANGED <<pc, order, orderId, conn, dropped, crashes>>
  BY DEF OnOrderStatus, DbUpdateOrderStatus, execVars, brokerVars, linkVars, lifeVars
<1>2. ASSUME NEW m \in inbox, OnOrderStatus(m)
      PROVE  PlainOrder(t)'
  <2>1. row' = row /\ ~InHand(t)
    BY <1>2 DEF OnOrderStatus, LoopFree, InHand, execVars
  <2>2. \A st : Pending(t, st)' <=> Pending(t, st)
    BY <1>2 DEF OnOrderStatus, Pending
  <2> QED  BY <1>1, <2>1, <2>2 DEF PlainOrder, Calm, InHand, Agrees, Executed
<1>3. ASSUME NEW m \in tasks, DbUpdateOrderStatus(m), m.of # t
      PROVE  PlainOrder(t)'
  <2>1. row'[t] = row[t]
    BY <1>3, MatchedRow DEF DbUpdateOrderStatus, TypeOK
  <2>2. tasks' = tasks \ {m} /\ inbox' = inbox
    BY <1>3 DEF DbUpdateOrderStatus
  <2>3. \A st : Pending(t, st) => Pending(t, st)'
    BY <1>3, <2>2 DEF Pending
  <2> QED
    BY <1>1, <2>1, <2>2, <2>3 DEF PlainOrder, Calm, InHand, Awaited, Agrees, Executed
<1>4. ASSUME NEW m \in tasks, DbUpdateOrderStatus(m), m.of = t, Calm
      PROVE  PlainOrder(t)'
  <2>1. Sincere(m) /\ m.id = orderId[t] /\ order[t] # "none"
    BY <1>4 DEF BackedInv, Sincere, Executed
  <2>2. pc[t] = "returned" /\ Agrees(t) /\ conn[AccountOf[t]]
    BY <1>4, <2>1 DEF PlainOrder, Awaited
  <2>3. row[t].oid = m.id
    BY <2>1, <2>2 DEF Agrees
  <2>4. row' = [row EXCEPT ![t] = WithState(t, StateOf(m.status))]
    BY <1>4, <2>3, MatchedRow DEF DbUpdateOrderStatus
  <2>5. row'[t].oid = orderId[t] /\ row'[t].state = StateOf(m.status)
    BY <2>2, <2>4 DEF Agrees, WithState, TypeOK
  <2>6. IF m.status = "Filled" THEN Executed(t) ELSE order[t] \in {"inactive", "cancelled"}
    BY <1>4, <2>3, MatchedRow
  <2>7. Agrees(t)'
    BY <1>1, <2>5, <2>6 DEF Agrees, Executed, StateOf
  <2> QED  BY <1>1, <2>2, <2>7 DEF PlainOrder
<1>5. CASE ~Calm
  BY <1>1, <1>5 DEF PlainOrder, Calm
<1> QED  BY <1>2, <1>3, <1>4, <1>5

\* While it is calm the connection is at most made, and nothing reconciles.
LEMMA LinkLedger ==
    ASSUME TypeOK, LedgerInv, NEW a \in Accounts, Link(a)
    PROVE  LedgerInv'
<1>1. UNCHANGED <<pc, order, orderId, inbox, tasks, crashes>>
  BY DEF Link, Disconnect, LoopConnect, Reconnect, GiveUp, Reconcile, Alerted,
         ReconcileRead, ReadPositions, ReconcileQuery, ReconcileCommit, execVars, brokerVars, eventVars,
         lifeVars
<1>2. CASE ~Calm'
  BY <1>1, <1>2 DEF LedgerInv, PlainOrder
<1>3. CASE Calm'
  <2>1. ~Disconnect(a)
    BY <1>3 DEF Disconnect, Calm, TypeOK
  <2>2. UNCHANGED dropped
    BY <2>1 DEF Link, LoopConnect, Reconnect, GiveUp, Reconcile, Alerted, ReconcileRead,
                ReadPositions, ReconcileQuery, ReconcileCommit, linkVars
  <2>3. Calm /\ rec[a] = "off"
    BY <1>1, <1>3, <2>2 DEF Calm, LedgerInv
  <2>4. LoopConnect(a) \/ ReadPositions(a)
    BY <2>1, <2>3 DEF Link, Reconnect, GiveUp, Reconcile, Alerted, ReconcileRead,
                      ReconcileQuery, ReconcileCommit
  <2>5. UNCHANGED <<row, rec>> /\ \A b \in Accounts : conn[b] => conn'[b]
    BY <2>4 DEF LoopConnect, ReadPositions, execVars, TypeOK
  <2>6. ASSUME NEW t \in Trades \ Bracket
        PROVE  PlainOrder(t)'
    BY <1>1, <2>3, <2>5, TradesAssumption
       DEF LedgerInv, PlainOrder, InHand, Awaited, Agrees, Executed, Pending
  <2> QED  BY <2>3, <2>5, <2>6 DEF LedgerInv
<1> QED  BY <1>2, <1>3

LEMMA ProcessLedger ==
    ASSUME TypeOK, LedgerInv, Crash \/ Boot
    PROVE  LedgerInv'
<1>1. CASE Crash
  <2>1. ~Calm'
    BY <1>1 DEF Crash, Calm, TypeOK
  <2>2. \A t \in Trades : pc'[t] # "ack" \/ pc'[t] = pc[t]
    BY <1>1 DEF Crash, TypeOK
  <2> QED  BY <1>1, <2>1, <2>2 DEF Crash, LedgerInv, PlainOrder, brokerVars
<1>2. CASE Boot
  BY <1>2 DEF Boot, LedgerInv, PlainOrder, Calm, InHand, Awaited, Agrees, Executed, Pending,
              execVars, brokerVars, eventVars, linkVars
<1> QED  BY <1>1, <1>2

THEOREM LedgerInvariant == OneAccount /\ BoughtOnce => (Spec => []LedgerInv)
<1> SUFFICES ASSUME OneAccount, BoughtOnce
             PROVE  Spec => []LedgerInv
  OBVIOUS
<1>1. Init => LedgerInv
  BY DEF Init, LedgerInv, PlainOrder
<1>2. TypeOK /\ TraceInv /\ BackedInv /\ LedgerInv /\ [Next]_vars => LedgerInv'
  <2>1. ASSUME TypeOK, TraceInv, BackedInv, LedgerInv, Next
        PROVE  LedgerInv'
    <3>1. ASSUME NEW c \in Trades, ExecuteTrade(c)
          PROVE  LedgerInv'
      <4>1. \A t \in Trades \ Bracket : PlainOrder(t)'
        BY <2>1, <3>1, CallLedger, OtherLedger DEF LedgerInv
      <4> QED  BY <2>1, <3>1, <4>1, CallStep DEF LedgerInv, Calm
    <3>2. ASSUME NEW c \in Trades, Broker(c)
          PROVE  LedgerInv'
      <4>1. \A t \in Trades \ Bracket : PlainOrder(t)'
        BY <2>1, <3>2, BrokerLedger DEF LedgerInv
      <4> QED
        BY <2>1, <3>2, <4>1
           DEF Broker, Fill, Cancel, ChildExit, LedgerInv, Calm, linkVars, lifeVars
    <3>3. ASSUME \/ \E m \in inbox : OnOrderStatus(m)
                 \/ \E m \in tasks : DbUpdateOrderStatus(m)
          PROVE  LedgerInv'
      <4>1. \A t \in Trades \ Bracket : PlainOrder(t)'
        BY <2>1, <3>3, CallbackLedger DEF LedgerInv
      <4> QED
        BY <2>1, <3>3, <4>1
           DEF OnOrderStatus, DbUpdateOrderStatus, LedgerInv, Calm, linkVars, lifeVars
    <3> QED  BY <2>1, <3>1, <3>2, <3>3, LinkLedger, ProcessLedger DEF Next
  <2>2. ASSUME LedgerInv, UNCHANGED vars
        PROVE  LedgerInv'
    BY <2>2 DEF vars, execVars, brokerVars, eventVars, linkVars, lifeVars, LedgerInv,
                PlainOrder, Calm, InHand, Awaited, Agrees, Executed, Pending
  <2> QED  BY <2>1, <2>2
<1> QED  BY <1>1, <1>2, TypeCorrect, TraceInvariant, BackedInvariant, PTL DEF Spec

\* Without a crash or a disconnect the row of every plain order whose call has
\* returned agrees with the broker, up to callbacks on their way.
THEOREM PlainLedgersExact == OneAccount /\ BoughtOnce => (Spec => []PlainLedgerExact)
<1> SUFFICES ASSUME OneAccount, BoughtOnce
             PROVE  Spec => []PlainLedgerExact
  OBVIOUS
<1>1. LedgerInv => PlainLedgerExact
  <2> SUFFICES ASSUME LedgerInv, NEW t \in Trades \ Bracket, Undisturbed(t),
                      pc[t] = "returned"
               PROVE  Exact(t)
    BY DEF PlainLedgerExact, Exact
  <2>1. Calm /\ PlainOrder(t)
    BY TradesAssumption DEF LedgerInv, Calm, Undisturbed, OneAccount
  <2> QED  BY <2>1 DEF PlainOrder, InHand, Agrees, Exact, Executed
<1> QED  BY <1>1, LedgerInvariant, PTL

-----------------------------------------------------------------------------
\* Selling what is held.

LotsOf(t) == pos[AccountOf[t]][SymbolOf[t]]

\* The guard of place_order let t through, or may yet by what was cached.
MaySell(t) ==
    \/ order[t] # "none" \/ pc[t] = "quote"
    \/ \E view \in cache[AccountOf[t]] : SymbolOf[t] \in view

\* The inductive invariant behind NoShort: what a SELL was let through for, and
\* what a bracket bought, is there until it is sold.
LotsInv ==
    /\ NoShort
    /\ \A t \in Trades :
          /\ Side[t] = "SELL" /\ ~Executed(t) /\ MaySell(t) => LotsOf(t) > 0
          /\ t \in Bracket /\ order[t] = "filled" => LotsOf(t) > 0

\* A read of positions shows what is held, or what was when it was cached.
LEMMA ReadIsHeld ==
    ASSUME TypeOK, LotsInv, NEW t \in Trades, Side[t] = "SELL", ~Executed(t),
           NEW a \in Accounts, NEW view, GetPositions(a, view)
    PROVE  /\ a = AccountOf[t] /\ SymbolOf[t] \in view => LotsOf(t) > 0
           /\ (\E v \in cache'[AccountOf[t]] : SymbolOf[t] \in v) => LotsOf(t) > 0
<1>1. AccountOf[t] \in Accounts
  BY TradesAssumption
<1>2. SymbolOf[t] \in Held(AccountOf[t]) => LotsOf(t) > 0
  BY DEF Held, LotsOf
<1>3. (\E v \in cache[AccountOf[t]] : SymbolOf[t] \in v) => LotsOf(t) > 0
  BY DEF LotsInv, MaySell
<1> QED  BY <1>1, <1>2, <1>3 DEF GetPositions, TypeOK

LEMMA CallLots ==
    ASSUME TypeOK, TraceInv, LotsInv, NEW c \in Trades, ExecuteTrade(c)
    PROVE  LotsInv'
<1>1. UNCHANGED pos /\ \A t \in Trades : order[t] # "none" => order'[t] = order[t]
  BY CallStep, PlacedOrder DEF TypeOK
<1>2. UNCHANGED cache \/ \E view : GetPositions(AccountOf[c], view)
  BY DEF ExecuteTrade, Resume, Begin, Screen, Price, Fund, Slippage, Possess, PlaceFails,
         Quote, Place, AckFails, RecordAuditId, RecordSubmitted, MayReadPositions,
         NoShortGuard, linkVars
<1>3. ASSUME NEW t \in Trades, Side[t] = "SELL", ~Executed(t)', MaySell(t)'
      PROVE  LotsOf(t) > 0
  <2>1. ~Executed(t)
    BY <1>1, <1>3 DEF Executed
  <2>2. CASE \E v \in cache'[AccountOf[t]] : SymbolOf[t] \in v
    BY <1>2, <1>3, <2>1, <2>2, TradesAssumption, ReadIsHeld DEF LotsInv, MaySell
  <2>3. CASE order[t] # "none" \/ pc[t] = "quote"
    BY <1>3, <2>1, <2>3 DEF LotsInv, MaySell
  <2>4. CASE /\ order[t] = "none" /\ pc[t] # "quote"
             /\ order'[t] # "none" \/ pc'[t] = "quote"
    <3>1. c = t
      BY <2>4, CallStep, PlacedOrder DEF TypeOK
    <3>2. NoShortGuard(t)
      <4>1. CASE Place(c)
        BY <2>4, <3>1, <4>1 DEF Place
      <4>2. CASE ~Place(c)
        <5>1. pc'[t] = "quote"
          BY <2>4, <4>2, CallStep
        <5>2. Quote(t)
          BY <3>1, <4>2, <5>1
             DEF ExecuteTrade, Resume, Begin, Screen, Price, Fund, Slippage, Possess,
                 PlaceFails, AckFails, RecordAuditId, RecordSubmitted, Certify,
                 CommitIntent, Finish, GoTo, TypeOK
        <5> QED  BY <5>2 DEF Quote
      <4> QED  BY <4>1, <4>2
    <3>3. \E view \in SUBSET Symbols : GetPositions(AccountOf[t], view) /\ SymbolOf[t] \in view
      BY <1>3, <3>2 DEF NoShortGuard
    <3> QED  BY <1>3, <2>1, <3>3, TradesAssumption, ReadIsHeld
  <2> QED  BY <1>3, <2>2, <2>3, <2>4 DEF MaySell
<1>4. ASSUME NEW t \in Bracket, order'[t] = "filled"
      PROVE  LotsOf(t) > 0
  <2>1. t \in Trades
    BY TradesAssumption
  <2>2. order[t] = "filled"
    BY <1>1, <1>4, <2>1, CallStep, PlacedOrder DEF TypeOK
  <2> QED  BY <2>1, <2>2 DEF LotsInv
<1>5. \A t \in Trades : LotsOf(t)' = LotsOf(t)
  BY <1>1 DEF LotsOf
<1> QED  BY <1>1, <1>3, <1>4, <1>5 DEF LotsInv, NoShort

\* What the broker sells of a symbol, its sole seller sells.
LEMMA BrokerLots ==
    ASSUME TypeOK, SoleSellers, LotsInv, NEW c \in Trades, Broker(c)
    PROVE  LotsInv'
<1> DEFINE a == AccountOf[c]
           s == SymbolOf[c]
<1>1. /\ UNCHANGED <<pc, cache>>
      /\ a \in Accounts /\ s \in Symbols
      /\ \A t \in Trades : AccountOf[t] \in Accounts /\ SymbolOf[t] \in Symbols
  BY TradesAssumption DEF Broker, Fill, Cancel, ChildExit, execVars, linkVars
<1>2. \A t \in Trades : /\ t # c => order'[t] = order[t]
                        /\ Executed(t) => Executed(t)'
                        /\ order[t] = "none" <=> order'[t] = "none"
  BY DEF Broker, Fill, Cancel, ChildExit, Executed, TypeOK
<1>3. \A b \in Accounts, r \in Symbols : pos[b][r] \in Int /\ pos[b][r] >= 0
  BY DEF TypeOK, LotsInv, NoShort
<1>4. \A t \in Trades : MaySell(t)' => MaySell(t)
  BY <1>1, <1>2 DEF MaySell
<1>5. ASSUME UNCHANGED pos, order'[c] # "filled"
      PROVE  LotsInv'
  BY <1>2, <1>4, <1>5 DEF LotsInv, NoShort, LotsOf
<1>6. ASSUME NEW n \in {1, -1}, MoveLots(c, n),
             n = -1 => LotsOf(c) > 0 /\ Sells(c) /\ Executed(c)',
             n = -1 => ~(c \in Bracket /\ order'[c] = "filled"),
             Executed(c)'
      PROVE  LotsInv'
  <2>1. \A b \in Accounts, r \in Symbols :
            pos'[b][r] = IF b = a /\ r = s THEN pos[b][r] + n ELSE pos[b][r]
    BY <1>1, <1>6 DEF MoveLots, TypeOK
  <2>2. NoShort'
    BY <1>1, <1>3, <1>6, <2>1 DEF NoShort, LotsOf
  <2>3. \A t \in Trades : LotsOf(t)' = IF AccountOf[t] = a /\ SymbolOf[t] = s
                                       THEN LotsOf(t) + n ELSE LotsOf(t)
    BY <1>1, <2>1 DEF LotsOf
  <2>4. ASSUME NEW t \in Trades, t # c, Sells(t), LotsOf(t) > 0
        PROVE  LotsOf(t)' > 0
    <3>1. LotsOf(t) \in Int
      BY <1>1, <1>3 DEF LotsOf
    <3>2. n = -1 => ~(AccountOf[t] = a /\ SymbolOf[t] = s)
      BY <1>6, <2>4 DEF SoleSellers
    <3> QED  BY <1>6, <2>3, <2>4, <3>1, <3>2
  <2>5. c \in Bracket /\ order'[c] = "filled" => LotsOf(c)' > 0
    BY <1>1, <1>3, <1>6, <2>3 DEF LotsOf
  <2>6. ASSUME NEW t \in Trades
        PROVE  /\ Side[t] = "SELL" /\ ~Executed(t)' /\ MaySell(t)' => LotsOf(t)' > 0
               /\ t \in Bracket /\ order'[t] = "filled" => LotsOf(t)' > 0
    BY <1>2, <1>4, <1>6, <2>4, <2>5 DEF LotsInv, Sells
  <2> QED  BY <2>2, <2>6 DEF LotsInv
<1>7. CASE Fill(c)
  <2>1. order[c] = "working" /\ order'[c] = "filled"
    BY <1>7 DEF Fill, TypeOK
  <2>2. CASE Side[c] = "BUY"
    BY <1>6, <1>7, <2>1, <2>2 DEF Fill, Executed
  <2>3. CASE Side[c] = "SELL"
    <3>1. c \notin Bracket /\ LotsOf(c) > 0
      BY <2>1, <2>3, TradesAssumption DEF LotsInv, MaySell, Executed
    <3>2. MoveLots(c, -1)
      BY <1>7, <2>3 DEF Fill
    <3> QED  BY <1>6, <2>1, <2>3, <3>1, <3>2 DEF Executed, Sells
  <2> QED  BY <2>2, <2>3, TradesAssumption
<1>8. CASE Cancel(c)
  BY <1>5, <1>8 DEF Cancel, TypeOK
<1>9. CASE ChildExit(c)
  <2>1. order'[c] = "exited" /\ LotsOf(c) > 0 /\ Sells(c) /\ MoveLots(c, -1)
    BY <1>9 DEF ChildExit, TypeOK, LotsInv, Sells
  <2> QED  BY <1>6, <2>1 DEF Executed
<1> QED  BY <1>7, <1>8, <1>9 DEF Broker

LEMMA LinkLots ==
    ASSUME TypeOK, LotsInv, NEW a \in Accounts, Link(a)
    PROVE  LotsInv'
<1>1. UNCHANGED <<pc, order, pos>>
  BY DEF Link, Disconnect, LoopConnect, Reconnect, GiveUp, Reconcile, Alerted,
         ReconcileRead, ReadPositions, ReconcileQuery, ReconcileCommit, execVars, brokerVars
<1>2. UNCHANGED cache \/ \E view : GetPositions(a, view)
  BY DEF Link, Disconnect, LoopConnect, Reconnect, GiveUp, Reconcile, Alerted,
         ReconcileRead, ReadPositions, ReconcileQuery, ReconcileCommit, GetPositions
<1>3. ASSUME NEW t \in Trades, Side[t] = "SELL", ~Executed(t), MaySell(t)'
      PROVE  LotsOf(t) > 0
  BY <1>1, <1>2, <1>3, ReadIsHeld DEF LotsInv, MaySell
<1> QED  BY <1>1, <1>3 DEF LotsInv, NoShort, LotsOf, Executed

\* Everything else leaves orders and lots alone and forgets what was cached.
LEMMA LotsFrame ==
    ASSUME LotsInv, UNCHANGED <<order, pos>>,
           \A t \in Trades : pc'[t] = "quote" => pc[t] = "quote",
           \A t \in Trades : cache'[AccountOf[t]] \subseteq cache[AccountOf[t]]
    PROVE  LotsInv'
BY DEF LotsInv, NoShort, LotsOf, MaySell, Executed

\* trader.py:751, "a SELL can never cross zero into a short", holds where the
\* call and the bracket's children that sell a symbol are one: the lots its guard
\* saw, in a cache of any age, are there when the order executes.
THEOREM SoleSellersNeverShort == SoleSellers => (Spec => []NoShort)
<1> SUFFICES ASSUME SoleSellers
             PROVE  Spec => []NoShort
  OBVIOUS
<1>1. Init => LotsInv
  BY TradesAssumption, BoundsAssumption
     DEF Init, LotsInv, NoShort, MaySell, Executed
<1>2. TypeOK /\ TraceInv /\ LotsInv /\ [Next]_vars => LotsInv'
  <2>1. ASSUME TypeOK, TraceInv, LotsInv, Next
        PROVE  LotsInv'
    <3>1. CASE \/ \E m \in inbox : OnOrderStatus(m)
               \/ \E m \in tasks : DbUpdateOrderStatus(m)
               \/ Boot
      <4>1. UNCHANGED <<pc, order, pos, cache>>
        BY <3>1 DEF OnOrderStatus, DbUpdateOrderStatus, Boot, execVars, brokerVars, linkVars
      <4> QED  BY <2>1, <4>1, LotsFrame
    <3>2. CASE Crash
      <4>1. /\ UNCHANGED <<order, pos>>
            /\ \A t \in Trades : pc'[t] = "quote" => pc[t] = "quote"
            /\ \A t \in Trades : cache'[AccountOf[t]] = {}
        BY <3>2, TradesAssumption DEF Crash, brokerVars
      <4> QED  BY <2>1, <4>1, LotsFrame
    <3> QED  BY <2>1, <3>1, <3>2, CallLots, BrokerLots, LinkLots DEF Next
  <2>2. ASSUME LotsInv, UNCHANGED vars
        PROVE  LotsInv'
    BY <2>2, LotsFrame DEF vars, execVars, brokerVars, linkVars
  <2> QED  BY <2>1, <2>2
<1>3. LotsInv => NoShort
  BY DEF LotsInv
<1> QED  BY <1>1, <1>2, <1>3, TypeCorrect, TraceInvariant, PTL DEF Spec

-----------------------------------------------------------------------------
\* Orders that can be found again.

\* The call has its order's id in hand or in its row, unless it died.
Found(t) ==
    /\ pc[t] # "ack"
    /\ order[t] # "none" =>
          \/ InHand(t)
          \/ pc[t] = "killed"
          \/ pc[t] = "returned" /\ row[t].oid = orderId[t]

FoundInv == \A t \in Trades \ Bracket : Found(t)

LEMMA CallFound ==
    ASSUME TypeOK, TraceInv, NEW t \in Trades \ Bracket, Found(t),
           NEW c \in Trades, ExecuteTrade(c)
    PROVE  Found(t)'
<1> t \in Trades
  OBVIOUS
<1>1. CASE c # t
  <2>1. pc'[t] = pc[t] /\ order'[t] = order[t] /\ orderId'[t] = orderId[t]
    BY <1>1, CallStep DEF Place, TypeOK
  <2>2. row'[t].oid = row[t].oid
    <3>1. CASE WritesOwn(c)
      BY <1>1, <3>1 DEF WritesOwn, PersistTradeHistory, TypeOK
    <3> QED  BY <3>1, CallRow, HealFrame
  <2> QED  BY <2>1, <2>2 DEF Found, InHand
<1>2. CASE c = t /\ Place(t)
  <2>1. pc'[t] = "audit_id"
    BY <1>2 DEF Place, GoTo, AfterPlace, TypeOK
  <2> QED  BY <2>1 DEF Found, InHand
<1>3. CASE c = t /\ RecordAuditId(t)
  <2>1. pc'[t] = "history"
    BY <1>3 DEF RecordAuditId, GoTo, TypeOK
  <2> QED  BY <2>1 DEF Found, InHand
<1>4. CASE c = t /\ RecordSubmitted(t)
  <2>1. pc'[t] = "returned" /\ row'[t].oid = orderId'[t]
    BY <1>4 DEF RecordSubmitted, PersistTradeHistory, GoTo, TypeOK, brokerVars
  <2> QED  BY <2>1 DEF Found
<1>5. CASE c = t /\ ~Place(t) /\ ~RecordAuditId(t) /\ ~RecordSubmitted(t)
  <2>1. pc[t] \notin PastSend \cup {"returned", "killed"} /\ pc'[t] # "ack"
    BY <1>5 DEF ExecuteTrade, Resume, Begin, Screen, Price, Fund, Slippage, Possess,
                PlaceFails, Quote, AckFails, Certify, CommitIntent, Finish, GoTo, Found,
                PastSend, TypeOK
  <2>2. order'[t] = "none"
    BY <1>5, <2>1, CallStep DEF TraceInv, Progress
  <2> QED  BY <2>1, <2>2 DEF Found
<1> QED  BY <1>1, <1>2, <1>3, <1>4, <1>5

\* Nobody else takes an id out of a row.
LEMMA FoundFrame ==
    ASSUME FoundInv, UNCHANGED orderId,
           \A t \in Trades : /\ pc'[t] = pc[t] \/ pc'[t] = "killed"
                             /\ order[t] = "none" => order'[t] = "none"
                             /\ row'[t].oid = row[t].oid
    PROVE  FoundInv'
BY DEF FoundInv, Found, InHand

\* The comment at reconciliation.py:40 is right about plain orders whose call
\* returned, through every crash, disconnect and reconciliation.
THEOREM WrittenOffNeverSent == Spec => []WrittenOffUnsent
<1>1. Init => FoundInv
  BY DEF Init, FoundInv, Found
<1>2. TypeOK /\ TraceInv /\ FoundInv /\ [Next]_vars => FoundInv'
  <2>1. ASSUME TypeOK, TraceInv, FoundInv, Next
        PROVE  FoundInv'
    <3>1. CASE \E c \in Trades : ExecuteTrade(c)
      BY <2>1, <3>1, CallFound DEF FoundInv
    <3>2. ASSUME NEW c \in Trades, Broker(c)
          PROVE  FoundInv'
      <4>1. UNCHANGED <<pc, row, orderId>>
        BY <3>2 DEF Broker, Fill, Cancel, ChildExit, execVars
      <4>2. \A t \in Trades : order[t] = "none" => order'[t] = "none"
        BY <2>1, <3>2 DEF Broker, Fill, Cancel, ChildExit, TypeOK
      <4> QED  BY <2>1, <4>1, <4>2, FoundFrame
    <3>3. ASSUME NEW m \in tasks, DbUpdateOrderStatus(m)
          PROVE  FoundInv'
      <4>1. UNCHANGED <<pc, order, orderId>>
        BY <3>3 DEF DbUpdateOrderStatus, brokerVars
      <4>2. \A t \in Trades : row'[t].oid = row[t].oid
        BY <2>1, <3>3 DEF DbUpdateOrderStatus, WithState, TypeOK
      <4> QED  BY <2>1, <4>1, <4>2, FoundFrame
    <3>4. ASSUME NEW a \in Accounts, Link(a)
          PROVE  FoundInv'
      <4>1. UNCHANGED <<pc, order, orderId>>
        BY <3>4 DEF Link, Disconnect, LoopConnect, Reconnect, GiveUp, Reconcile, Alerted,
                    ReconcileRead, ReadPositions, ReconcileQuery, ReconcileCommit,
                    execVars, brokerVars
      <4>2. \A t \in Trades : row'[t].oid = row[t].oid
        BY <3>4 DEF Link, Disconnect, LoopConnect, Reconnect, GiveUp, Reconcile, Alerted,
                    ReconcileRead, ReadPositions, ReconcileQuery, ReconcileCommit,
                    WithState, execVars
      <4> QED  BY <2>1, <4>1, <4>2, FoundFrame
    <3>5. CASE (\E m \in inbox : OnOrderStatus(m)) \/ Crash \/ Boot
      <4>1. UNCHANGED <<row, order, orderId>>
        BY <3>5 DEF OnOrderStatus, Crash, Boot, execVars, brokerVars
      <4>2. \A t \in Trades : pc'[t] = pc[t] \/ pc'[t] = "killed"
        BY <3>5 DEF OnOrderStatus, Crash, Boot, execVars
      <4> QED  BY <2>1, <4>1, <4>2, FoundFrame
    <3> QED  BY <2>1, <3>1, <3>2, <3>3, <3>4, <3>5 DEF Next
  <2>2. ASSUME FoundInv, UNCHANGED vars
        PROVE  FoundInv'
    BY <2>2, FoundFrame DEF vars, execVars, brokerVars
  <2> QED  BY <2>1, <2>2
<1>3. TypeOK /\ TraceInv /\ FoundInv => WrittenOffUnsent
  BY DEF TraceInv, Ids, FoundInv, Found, InHand, WrittenOffUnsent
<1> QED  BY <1>1, <1>2, <1>3, TypeCorrect, TraceInvariant, PTL DEF Spec
==============================================================================
