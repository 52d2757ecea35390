------------------------------ MODULE Exits_proofs ------------------------------
(***************************************************************************)
(* Type correctness of the exit cycle, and that the exit rules sell        *)
(* nothing twice unless the position shrank under their eyes, for every    *)
(* number of shares, BUYs and interventions.                               *)
(***************************************************************************)
EXTENDS Exits, TLAPS

USE ExitsAssumption

----------------------------------------------------------------------------
\* The operators on numbers.
LEMMA LeastMost ==
    ASSUME NEW m \in Int, NEW n \in Int
    PROVE  /\ Least(m, n) \in Int /\ Least(m, n) <= m /\ Least(m, n) <= n
           /\ Least(m, n) \in {m, n}
           /\ Most(m, n) \in Int /\ Most(m, n) >= m /\ Most(m, n) >= n
           /\ Most(m, n) \in {m, n}
BY DEF Least, Most

LEMMA HalfBounded ==
    ASSUME NEW n \in Nat
    PROVE  Half(n) \in Nat /\ Half(n) <= n
BY DEF Half

\* What a partial or full exit asks for is within what the cycle saw.
LEMMA WantedBounded ==
    ASSUME ExitsTypeOK
    PROVE  Wanted \in Nat /\ Wanted <= view.qty
<1>1. view.qty \in Nat
  BY DEF ExitsTypeOK, Views
<1>2. QED
  BY <1>1, HalfBounded DEF Wanted

\* A SELL leaves a number of shares under working SELLs, no more than it was for.
LEMMA SellBounded ==
    ASSUME ExitsTypeOK, NEW n \in Nat, Sell(n)
    PROVE  working' \in Nat /\ working' <= working + n /\ working' <= working + answer
<1>1. answer \in Nat /\ working \in Nat
  BY DEF ExitsTypeOK, Sell
<1>2. Least(n, answer) \in Nat /\ Least(n, answer) <= n /\ Least(n, answer) <= answer
  BY <1>1 DEF Least
<1>3. working' = working + Least(n, answer)
  BY DEF Sell
<1>4. QED
  BY <1>1, <1>2, <1>3

LEMMA MarkTypes ==
    ASSUME ExitsTypeOK, Mark
    PROVE  /\ hwm' \in Prices \cup {NoMark} /\ partial' \in BOOLEAN
           /\ cooldown' \in BOOLEAN
BY DEF ExitsTypeOK, Mark

LEMMA BuyTypes ==
    ASSUME ExitsTypeOK, Buy
    PROVE  /\ buys' \in 0..MaxBuys /\ lot' \in Int /\ cost' \in Prices
           /\ working' \in Nat /\ firstBuy' \in {"none", "recent", "old"}
<1>1. cost' \in Prices
  <2>1. CASE lot > 0
    <3>1. cost' \in Least(cost, price)..Most(cost, price)
      BY <2>1 DEF Buy
    <3>2. Least(cost, price) \in {cost, price} /\ Most(cost, price) \in {cost, price}
      BY LeastMost DEF ExitsTypeOK, Prices
    <3>3. QED
      BY <3>1, <3>2 DEF ExitsTypeOK, Prices
  <2>2. CASE ~(lot > 0)
    BY <2>2 DEF Buy, ExitsTypeOK
  <2>3. QED
    BY <2>1, <2>2
<1>2. buys' \in 0..MaxBuys /\ lot' \in Int /\ working' \in Nat
  BY DEF Buy, ExitsTypeOK
<1>3. firstBuy' \in {"none", "recent", "old"}
  BY DEF Buy, FirstRow, ExitsTypeOK
<1>4. QED
  BY <1>1, <1>2, <1>3

----------------------------------------------------------------------------
LEMMA NoViewTypes == NoView \in Views
<1>1. 1 \in Prices
  BY DEF Prices
<1>2. QED
  BY <1>1 DEF NoView, Views

LEMMA TypesInit == Init => ExitsTypeOK
<1> SUFFICES ASSUME Init PROVE ExitsTypeOK
  OBVIOUS
<1>1. 1 \in Prices
  BY DEF Prices
<1>2. view \in Views
  BY NoViewTypes DEF Init
<1>3. price \in Prices /\ cost \in Prices /\ lot \in Int /\ working \in Nat /\ covering \in Nat
  BY <1>1 DEF Init
<1>4. buys \in 0..MaxBuys /\ outside \in 0..MaxOutside
  BY DEF Init
<1>5. QED
  BY <1>2, <1>3, <1>4 DEF Init, ExitsTypeOK, Places

LEMMA TypesStep == ExitsTypeOK /\ [Next]_vars => ExitsTypeOK'
<1> SUFFICES ASSUME ExitsTypeOK, [Next]_vars PROVE ExitsTypeOK'
  OBVIOUS
<1> USE DEF market, files, holding, bounds, history, GoTo
<1>1. CASE ReadPositions
  <2>1. Most(answer, 0) \in Nat
    BY LeastMost DEF ExitsTypeOK, Most
  <2>2. view' \in Views
    <3>1. PICK fx \in BOOLEAN :
             view' = [qty |-> Most(answer, 0), cost |-> cost, price |-> price,
                      selling |-> FALSE, fxOk |-> fx]
      BY <1>1 DEF ReadPositions
    <3>2. QED
      BY <2>1, <3>1 DEF ExitsTypeOK, Views
  <2>3. QED
    BY <1>1, <2>2 DEF ReadPositions, ExitsTypeOK, Places
<1>2. CASE ReadOrders
  <2>1. 1 \in Prices /\ SeesSelling \in BOOLEAN
    BY DEF Prices, SeesSelling
  <2>2. view' \in Views
    BY <1>2, <2>1 DEF ReadOrders, ExitsTypeOK, Views
  <2>3. outdated' \in BOOLEAN
    BY <1>2 DEF ReadOrders, ExitsTypeOK
  <2>4. pc' \in Places
    BY <1>2 DEF ReadOrders, Places
  <2>5. QED
    BY <1>2, <2>2, <2>3, <2>4 DEF ReadOrders, ExitsTypeOK
<1>3. CASE ReadHwm
  <2>1. mark' \in Prices \cup {NoMark}
    <3>1. view.price \in Prices
      BY DEF ExitsTypeOK, Views
    <3>2. hwm \in Int /\ view.price \in Int
      BY <3>1 DEF ExitsTypeOK, Prices, NoMark
    <3>3. Most(hwm, view.price) \in {hwm, view.price}
      BY <3>2, LeastMost
    <3>4. QED
      BY <1>3, <3>1, <3>3 DEF ReadHwm, ExitsTypeOK
  <2>2. QED
    BY <1>3, <2>1 DEF ReadHwm, ExitsTypeOK, Places
<1>4. CASE WriteHwm
  BY <1>4 DEF WriteHwm, ExitsTypeOK, Places
<1>5. CASE Judge
  <2>1. view' \in Views
    <3>1. view \in Views /\ 1 \in Prices
      BY DEF ExitsTypeOK, Prices
    <3>2. view' = [view EXCEPT !.cost = 1, !.price = 1]
      BY <1>5 DEF Judge
    <3>3. QED
      BY <3>1, <3>2 DEF Views
  <2>2. pc' \in Places /\ mark' \in Prices \cup {NoMark}
    BY <1>5 DEF Judge, Places
  <2>3. QED
    BY <1>5, <2>1, <2>2 DEF Judge, ExitsTypeOK, Places
<1>6. CASE ExitSent
  <2>1. working' \in Nat
    BY <1>6, WantedBounded, SellBounded DEF ExitSent
  <2>2. QED
    BY <1>6, <2>1, MarkTypes DEF ExitSent, ExitsTypeOK, Places
<1>7. CASE ExitUnsent
  BY <1>7, MarkTypes DEF ExitUnsent, ExitsTypeOK, Places
<1>8. CASE ExitRaises
  BY <1>8 DEF ExitRaises, ExitsTypeOK, Places
<1>9. CASE TrimSent
  <2>1. view.qty \in Nat
    BY DEF ExitsTypeOK, Views
  <2>2. working' \in Nat
    BY <1>9, <2>1, SellBounded DEF TrimSent
  <2>3. doubled' \in BOOLEAN
    BY <1>9 DEF TrimSent, Beside, ExitsTypeOK
  <2>4. QED
    BY <1>9, <2>2, <2>3 DEF TrimSent, ExitsTypeOK, Places
<1>10. CASE TrimSkipped
  <2>1. view' \in Views
    BY <1>10, NoViewTypes DEF TrimSkipped, Sleep, ExitsTypeOK
  <2>2. QED
    BY <1>10, <2>1 DEF TrimSkipped, Sleep, ExitsTypeOK, Places
<1>11. CASE ConsiderBuy
  BY <1>11 DEF ConsiderBuy, ExitsTypeOK, Places
<1>12. CASE Enter
  BY <1>12, BuyTypes DEF Enter, ExitsTypeOK, Places
<1>13. CASE EnterRefused
  BY <1>13 DEF EnterRefused, FirstRow, ExitsTypeOK, Places
<1>14. CASE NoBuy
  <2>1. view' \in Views
    BY <1>14, NoViewTypes DEF NoBuy, ExitsTypeOK, Views
  <2>2. QED
    BY <1>14, <2>1 DEF NoBuy, ExitsTypeOK, Places
<1>15. CASE RebalanceSent
  <2>1. answer \in Nat
    BY <1>15 DEF RebalanceSent, Sell, ExitsTypeOK
  <2>2. working' \in Nat
    BY <1>15, <2>1, SellBounded DEF RebalanceSent
  <2>3. doubled' \in BOOLEAN
    BY <1>15 DEF RebalanceSent, Beside, ExitsTypeOK
  <2>4. QED
    BY <1>15, <2>2, <2>3 DEF RebalanceSent, Sleep, NoView, Views, Prices, ExitsTypeOK, Places
<1>16. CASE RebalanceSkipped
  BY <1>16 DEF RebalanceSkipped, Sleep, NoView, Views, Prices, ExitsTypeOK, Places
<1>17. CASE ExitSentThenDies
  <2>1. working' \in Nat
    BY <1>17, WantedBounded, SellBounded DEF ExitSentThenDies, Sell
  <2>2. QED
    BY <1>17, <2>1 DEF ExitSentThenDies, NoView, Views, Prices, NoMark, ExitsTypeOK, Places
<1>18. ASSUME NEW n \in 1..working, Fill(n) PROVE ExitsTypeOK'
  <2>1. working \in Nat /\ lot \in Int /\ n \in Nat /\ n <= working
    BY <1>18 DEF ExitsTypeOK
  <2>2. working' \in Nat /\ lot' \in Int
    BY <1>18, <2>1 DEF Fill
  <2>3. QED
    BY <1>18, <2>2 DEF Fill, ExitsTypeOK
<1>19. ASSUME NEW n \in 1..working, CancelSell(n) PROVE ExitsTypeOK'
  <2>1. working' \in Nat
    BY <1>19 DEF CancelSell, ExitsTypeOK
  <2>2. QED
    BY <1>19, <2>1 DEF CancelSell, ExitsTypeOK
<1>20. CASE SweepBuys
  BY <1>20, BuyTypes DEF SweepBuys, ExitsTypeOK
<1>21. CASE ReratingSells
  <2>1. answer \in Nat
    BY <1>21 DEF ReratingSells, Sell, ExitsTypeOK
  <2>2. working' \in Nat
    BY <1>21, <2>1, SellBounded DEF ReratingSells
  <2>3. doubled' \in BOOLEAN /\ outside' \in 0..MaxOutside
    BY <1>21 DEF ReratingSells, Intrudes, ExitsTypeOK
  <2>4. QED
    BY <1>21, <2>2, <2>3 DEF ReratingSells, Intrudes, ExitsTypeOK
<1>22. CASE DeskSells
  <2>1. PICK n \in 1..(MaxBuys * Whole) : Sell(n)
    BY <1>22 DEF DeskSells
  <2>2. n \in Nat
    OBVIOUS
  <2>3. working' \in Nat
    BY <2>1, <2>2, SellBounded
  <2>4. doubled' \in BOOLEAN /\ outside' \in 0..MaxOutside
    BY <1>22 DEF DeskSells, Intrudes, ExitsTypeOK
  <2>5. QED
    BY <1>22, <2>3, <2>4 DEF DeskSells, Intrudes, ExitsTypeOK
<1>23. CASE FlattenShorts
  BY <1>23 DEF FlattenShorts, ExitsTypeOK
<1>24. CASE CoverFills
  BY <1>24 DEF CoverFills, ExitsTypeOK
<1>25. CASE OtherWritesHwm
  BY <1>25 DEF OtherWritesHwm, ExitsTypeOK
<1>26. CASE OtherSellsPart
  BY <1>26 DEF OtherSellsPart, ExitsTypeOK
<1>27. CASE OtherExits
  <2>1. cooldown' \in BOOLEAN
    BY <1>27 DEF OtherExits, ExitsTypeOK
  <2>2. outside' \in 0..MaxOutside
    BY <1>27 DEF OtherExits, ExitsTypeOK
  <2>3. partial' \in BOOLEAN /\ hwm' \in Prices \cup {NoMark}
    BY <1>27 DEF OtherExits
  <2>4. UNCHANGED <<market, holding, firstBuy, pc, view, mark, buys, history>>
    BY <1>27 DEF OtherExits
  <2>5. QED
    BY <2>1, <2>2, <2>3, <2>4 DEF ExitsTypeOK
<1>28. CASE MovePrice
  BY <1>28 DEF MovePrice, ExitsTypeOK
<1>29. CASE HaltOrResume
  BY <1>29 DEF HaltOrResume, ExitsTypeOK
<1>30. CASE Weeks
  BY <1>30 DEF Weeks, ExitsTypeOK
<1>31. CASE Months
  BY <1>31 DEF Months, ExitsTypeOK
<1>32. CASE Refresh
  BY <1>32 DEF Refresh, ExitsTypeOK, Prices
<1>33. CASE UNCHANGED vars
  BY <1>33 DEF vars, ExitsTypeOK
<1>34. QED
  BY <1>1, <1>2, <1>3, <1>4, <1>5, <1>6, <1>7, <1>8, <1>9, <1>10, <1>11, <1>12, <1>13, <1>14,
     <1>15, <1>16, <1>17, <1>18, <1>19, <1>20, <1>21, <1>22, <1>23, <1>24, <1>25, <1>26, <1>27,
     <1>28, <1>29, <1>30, <1>31, <1>32, <1>33
  DEF Next, LoopStep, DiscoveryBuys

\* Every variable of the exit cycle keeps its type, whatever the grid and the bounds.
THEOREM ExitsTypes == Spec => []ExitsTypeOK
<1>1. QED
  BY TypesInit, TypesStep, PTL DEF Spec

----------------------------------------------------------------------------
\* From the look at the open orders to the exit it leads to.
Judging == {"looked", "peak", "judge", "partial", "exit", "profit"}

\* The shares a cycle means to sell are apart from those under working SELLs: none worked
\* when it read the open orders, the position it had read was still held, and what others
\* did since bought or cancelled as much as it put to work.
Apart ==
    ~doubled /\ ~outdated =>
        /\ lot >= 0 /\ working <= lot
        /\ pc \in Judging => working + view.qty <= lot

LEMMA ApartStep ==
    ASSUME ~Foreign, ExitsTypeOK, Apart, [Next]_vars
    PROVE  Apart'
<1> USE DEF Apart, holding, history, GoTo
<1>1. /\ lot \in Int /\ answer \in Int /\ working \in Nat
      /\ view.qty \in Nat /\ covering \in Nat
  BY DEF ExitsTypeOK, Views
<1>2. CASE /\ UNCHANGED <<lot, working, doubled, outdated>>
           /\ pc' \in Judging => pc \in Judging /\ view'.qty = view.qty
  BY <1>2
<1>3. CASE ReadPositions
  BY <1>2, <1>3 DEF ReadPositions, Judging
<1>4. CASE ReadOrders
  <2>1. CASE view.qty = 0 \/ SeesSelling
    <3>1. pc' = "trim" /\ UNCHANGED <<lot, working, doubled, outdated>>
      BY <1>4, <2>1 DEF ReadOrders
    <3>2. QED
      BY <1>2, <3>1 DEF Judging
  <2>2. CASE ~(view.qty = 0 \/ SeesSelling)
    <3>1. working = 0
      BY <1>1, <2>2 DEF SeesSelling
    <3>2. UNCHANGED <<lot, working, doubled, view>>
      BY <1>4, <2>2 DEF ReadOrders
    <3>3. ~outdated' => ~outdated /\ ~(view.qty > lot)
      <4>1. outdated' = (outdated \/ view.qty > lot)
        BY <1>4, <2>2 DEF ReadOrders
      <4>2. QED
        BY <4>1, Zenon
    <3>4. QED
      BY <1>1, <3>1, <3>2, <3>3
  <2>3. QED
    BY <2>1, <2>2
<1>5. CASE ReadHwm \/ WriteHwm \/ Judge
  BY <1>1, <1>2, <1>5 DEF ReadHwm, WriteHwm, Judge, Judging, ExitsTypeOK, Views
<1>6. CASE ExitUnsent \/ ExitRaises
  BY <1>2, <1>6 DEF ExitUnsent, ExitRaises, Judging
<1>7. CASE ExitSent \/ ExitSentThenDies
  <2>1. Sell(Wanted) /\ pc \in Judging
    BY <1>7 DEF ExitSent, ExitSentThenDies, Sell, Exiting, Judging
  <2>2. working' \in Nat /\ working' <= working + view.qty
    BY <1>1, <2>1, WantedBounded, SellBounded
  <2>3. lot' = lot /\ UNCHANGED <<doubled, outdated>>
    BY <1>7 DEF ExitSent, ExitSentThenDies
  <2>4. pc' \notin Judging
    BY <1>7 DEF ExitSent, ExitSentThenDies, Judging
  <2>5. QED
    BY <1>1, <2>1, <2>2, <2>3, <2>4
<1>8. CASE TrimSent \/ RebalanceSent
  <2>1. PICK n \in Nat : Sell(n)
    BY <1>1, <1>8 DEF TrimSent, RebalanceSent, Sell
  <2>2. working' \in Nat /\ working' <= working + answer
    BY <2>1, SellBounded
  <2>3. ~doubled' => ~doubled /\ working = 0 /\ answer <= lot
    <3>1. doubled' = (doubled \/ working > 0 \/ answer > lot)
      BY <1>8 DEF TrimSent, RebalanceSent, Beside
    <3>2. ~doubled' => ~doubled /\ ~(working > 0) /\ ~(answer > lot)
      BY <3>1, Zenon
    <3>3. QED
      BY <1>1, <3>2
  <2>4. lot' = lot /\ outdated' = outdated /\ pc' \notin Judging
    BY <1>8 DEF TrimSent, RebalanceSent, Sleep, Judging
  <2>5. QED
    BY <1>1, <2>2, <2>3, <2>4
<1>9. CASE TrimSkipped \/ RebalanceSkipped
  BY <1>2, <1>9 DEF TrimSkipped, RebalanceSkipped, Sleep, Judging
<1>10. CASE ConsiderBuy \/ EnterRefused \/ NoBuy
  BY <1>2, <1>10 DEF ConsiderBuy, EnterRefused, NoBuy, Judging
<1>11. CASE Enter \/ SweepBuys
  <2>1. lot' = lot + Whole /\ (working' = working + Whole \/ working' = working)
    BY <1>1, <1>11 DEF Enter, SweepBuys, Buy
  <2>2. UNCHANGED <<doubled, outdated, view>> /\ (pc' \in Judging => pc \in Judging)
    BY <1>11 DEF Enter, SweepBuys, Judging
  <2>3. QED
    BY <1>1, <2>1, <2>2
<1>12. ASSUME NEW n \in 1..working, Fill(n) PROVE Apart'
  <2>1. lot' = lot - n /\ working' = working - n /\ UNCHANGED <<doubled, outdated, view, pc>>
    BY <1>12 DEF Fill
  <2>2. QED
    BY <1>1, <2>1
<1>13. ASSUME NEW n \in 1..working, CancelSell(n) PROVE Apart'
  <2>1. working' = working - n /\ UNCHANGED <<lot, doubled, outdated, view, pc>>
    BY <1>13 DEF CancelSell
  <2>2. QED
    BY <1>1, <2>1
<1>14. CASE ReratingSells \/ DeskSells
  <2>1. PICK n \in Nat : Sell(n)
    BY <1>1, <1>14 DEF ReratingSells, DeskSells, Sell
  <2>2. working' \in Nat /\ working' <= working + answer
    BY <2>1, SellBounded
  <2>3. ~doubled' => /\ ~doubled /\ working = 0 /\ answer <= lot
                     /\ pc \in {"sleep", "listed"}
    <3>1. doubled' = (doubled \/ working > 0 \/ answer > lot \/ pc \notin {"sleep", "listed"})
      BY <1>14 DEF ReratingSells, DeskSells, Intrudes
    <3>2. ~doubled' => /\ ~doubled /\ ~(working > 0) /\ ~(answer > lot)
                       /\ pc \in {"sleep", "listed"}
      BY <3>1, Zenon
    <3>3. QED
      BY <1>1, <3>2
  <2>4. lot' = lot /\ outdated' = outdated /\ pc' = pc
    BY <1>14 DEF ReratingSells, DeskSells, Intrudes
  <2>5. "sleep" \notin Judging /\ "listed" \notin Judging
    BY DEF Judging
  <2>6. QED
    BY <1>1, <2>2, <2>3, <2>4, <2>5
<1>15. CASE FlattenShorts
  BY <1>2, <1>15 DEF FlattenShorts
<1>16. CASE CoverFills
  <2>1. lot' = lot + covering /\ UNCHANGED <<working, doubled, outdated, view, pc>>
    BY <1>16 DEF CoverFills
  <2>2. QED
    BY <1>1, <2>1
<1>17. CASE OtherWritesHwm \/ OtherSellsPart \/ OtherExits
  BY <1>2, <1>17 DEF OtherWritesHwm, OtherSellsPart, OtherExits
<1>18. CASE MovePrice \/ HaltOrResume \/ Weeks \/ Months
  BY <1>2, <1>18 DEF MovePrice, HaltOrResume, Weeks, Months
<1>19. CASE Refresh
  BY <1>2, <1>19 DEF Refresh
<1>20. CASE UNCHANGED vars
  BY <1>2, <1>20 DEF vars
<1>21. QED
  BY <1>3, <1>5, <1>6, <1>7, <1>8, <1>9, <1>10, <1>11, <1>12, <1>13, <1>14, <1>15, <1>16, <1>17,
     <1>18, <1>20, <1>4, <1>19
  DEF Next, LoopStep, DiscoveryBuys

\* For a symbol without a suffix, however many loops buy it, whatever is filled or cancelled
\* between the readings and the order and however old the answer is it is clamped to, the
\* exit rules put no share under two SELLs, unless the position had shrunk when the open
\* orders were read.
THEOREM ExitsCovered ==
    ASSUME ~Foreign
    PROVE  Spec => []Covered
<1>1. Init => Apart
  <2>1. 0 \in Int /\ "sleep" \notin Judging
    BY DEF Judging
  <2>2. QED
    BY <2>1 DEF Init, Apart
<1>2. ExitsTypeOK /\ Apart /\ [Next]_vars => Apart'
  BY ApartStep
<1>3. ExitsTypeOK /\ Apart => Covered
  BY DEF ExitsTypeOK, Apart, Covered, Most
<1>4. QED
  BY <1>1, <1>2, <1>3, ExitsTypes, PTL DEF Spec
=============================================================================
