--------------------------- MODULE Cooldown_proofs ---------------------------
(***************************************************************************)
(* For all actors, symbols and windows: types, and no retry storms.        *)
(***************************************************************************)
EXTENDS Cooldown, TLAPS

\* A row only gets older, and never leaves the range of ages.
LEMMA OlderGrows ==
    ASSUME NEW n \in Ages
    PROVE  Older(n) \in Ages /\ Older(n) >= n
BY CooldownAssumption DEF Older, Ages, Old

\* A window is shorter than what Old stands for.
LEMMA WindowReach ==
    ASSUME NEW f, NEW side
    PROVE  Window(f, side) \in Int /\ Window(f, side) < Old
BY CooldownAssumption DEF Window, Old

LEMMA OldIsAge == Old \in Ages /\ 0 \in Ages
BY CooldownAssumption DEF Ages, Old

LEMMA NoOrderIsOrder == NoOrder \in Orders
BY CooldownAssumption DEF NoOrder, Orders, Sides

\* Writing one row leaves a table of ages.
LEMMA WriteFailure ==
    ASSUME CooldownTypeOK, NEW x \in Actors, NEW o \in Orders, NEW f \in Failures, NEW n \in Ages
    PROVE  [failed EXCEPT ![x][o][f] = n] \in [Actors -> [Orders -> [Failures -> Ages]]]
BY DEF CooldownTypeOK

\* Every variable keeps its type in every behaviour.
THEOREM CooldownTypes == CooldownSpec => []CooldownTypeOK
<1>1. CooldownInit => CooldownTypeOK
  BY OldIsAge, NoOrderIsOrder, CooldownAssumption DEF CooldownInit, CooldownTypeOK, Places
<1>2. CooldownTypeOK /\ [CooldownNext]_cooldownVars => CooldownTypeOK'
  <2> SUFFICES ASSUME CooldownTypeOK, [CooldownNext]_cooldownVars PROVE CooldownTypeOK'
    OBVIOUS
  <2> USE OldIsAge, NoOrderIsOrder DEF Places
  <2>1. ASSUME NEW x \in Actors, NEW o \in Deals[x], Dispatch(x, o) PROVE CooldownTypeOK'
    <3>1. o \in Orders
      BY CooldownAssumption DEF Orders, Sides
    <3> QED BY <2>1, <3>1 DEF Dispatch, Start, CooldownTypeOK
  <2>2. ASSUME NEW x \in Actors, NEW o \in Deals[x], DispatchUnchecked(x, o) \/ Approve(x, o)
        PROVE  CooldownTypeOK'
    <3>1. o \in Orders
      BY CooldownAssumption DEF Orders, Sides
    <3>2. Bypass(x, o)
      BY <2>2 DEF DispatchUnchecked, Approve
    <3>3. bypasses' \in 0..MaxBypasses
      BY <3>2, CooldownAssumption DEF Bypass, CooldownTypeOK
    <3> QED BY <3>1, <3>2, <3>3 DEF Bypass, Start, CooldownTypeOK
  <2>3. ASSUME NEW x \in Actors, NEW f \in Vetoes, Reject(x, f) PROVE CooldownTypeOK'
    <3>1. f \in Failures /\ order[x] \in Orders
      BY DEF Failures, CooldownTypeOK
    <3>2. failed' \in [Actors -> [Orders -> [Failures -> Ages]]]
      BY <2>3, <3>1, WriteFailure DEF Reject
    <3> QED BY <2>3, <3>2 DEF Reject, Return, CooldownTypeOK
  <2>4. ASSUME NEW x \in Actors, Refuse(x) PROVE CooldownTypeOK'
    BY <2>4 DEF Refuse, Return, CooldownTypeOK
  <2>5. ASSUME NEW x \in Actors, Place(x) PROVE CooldownTypeOK'
    BY <2>5 DEF Place, CooldownTypeOK
  <2>6. ASSUME NEW x \in Actors, Placed(x) PROVE CooldownTypeOK'
    BY <2>6 DEF Placed, Return, CooldownTypeOK
  <2>7. ASSUME NEW x \in Actors, PlaceFails(x) PROVE CooldownTypeOK'
    <3>1. "IBKR_ERROR" \in Failures /\ order[x] \in Orders /\ since[x] \in Ages
      BY DEF Failures, CooldownTypeOK
    <3>2. failed' \in [Actors -> [Orders -> [Failures -> Ages]]]
      BY <2>7, <3>1, WriteFailure DEF PlaceFails
    <3> QED BY <2>7, <3>2 DEF PlaceFails, Return, CooldownTypeOK
  <2>8. CASE Tick
    <3>1. since' \in [Actors -> Ages]
      BY <2>8, OlderGrows DEF Tick, CooldownTypeOK
    <3>2. failed' \in [Actors -> [Orders -> [Failures -> Ages]]]
      BY <2>8, OlderGrows DEF Tick, CooldownTypeOK
    <3> QED BY <2>8, <3>1, <3>2 DEF Tick, CooldownTypeOK
  <2>9. CASE Restart
    BY <2>9 DEF Restart, CooldownTypeOK
  <2>10. CASE UNCHANGED cooldownVars
    BY <2>10 DEF cooldownVars, CooldownTypeOK
  <2> QED BY <2>1, <2>2, <2>3, <2>4, <2>5, <2>6, <2>7, <2>8, <2>9, <2>10 DEF CooldownNext
<1> QED BY <1>1, <1>2, PTL DEF CooldownSpec

\* The part of BacksOff about one actor.
Backed(x) ==
    pc[x] # "idle" /\ ~blind[x] =>
        \A f \in Failures : failed[x][order[x]][f] > Window(f, order[x][2])

\* A step that leaves the actor's call and rows alone leaves it backed off.
LEMMA BackedFrame ==
    ASSUME NEW x \in Actors, Backed(x),
           UNCHANGED <<pc[x], order[x], blind[x], failed[x]>>
    PROVE  Backed(x)'
BY DEF Backed

\* The same, when the rows get older.
LEMMA BackedAges ==
    ASSUME CooldownTypeOK, NEW x \in Actors, Backed(x), Tick
    PROVE  Backed(x)'
<1> SUFFICES ASSUME pc[x] # "idle", ~blind[x], NEW f \in Failures
             PROVE  failed'[x][order[x]][f] > Window(f, order[x][2])
  BY DEF Backed, Tick
<1>1. failed[x][order[x]][f] > Window(f, order[x][2])
  BY DEF Backed
<1>2. order[x] \in Orders /\ failed[x][order[x]][f] \in Ages
  BY DEF CooldownTypeOK
<1>3. failed'[x][order[x]][f] = Older(failed[x][order[x]][f])
  BY <1>2 DEF Tick
<1>4. Older(failed[x][order[x]][f]) \in Ages
      /\ Older(failed[x][order[x]][f]) >= failed[x][order[x]][f]
  BY <1>2, OlderGrows
<1> QED BY <1>1, <1>2, <1>3, <1>4, WindowReach, CooldownAssumption DEF Ages, Old

\* No retry storm: a loop that respects the cooldown never has an order under way that
\* failed for it within the window, whatever the other actors, the clock and crashes do.
THEOREM BacksOffAlways == CooldownSpec => []BacksOff
<1>1. CooldownInit => BacksOff
  BY DEF CooldownInit, BacksOff
<1>2. CooldownTypeOK /\ BacksOff /\ [CooldownNext]_cooldownVars => BacksOff'
  <2> SUFFICES ASSUME CooldownTypeOK, BacksOff, [CooldownNext]_cooldownVars, NEW y \in Actors
               PROVE  Backed(y)'
    BY DEF BacksOff, Backed
  <2>0. Backed(y)
    BY DEF BacksOff, Backed
  <2>1. ASSUME NEW x \in Actors, NEW o \in Deals[x], Dispatch(x, o) PROVE Backed(y)'
    <3>1. CASE x = y
      <4>1. o \in Orders
        BY CooldownAssumption DEF Orders, Sides
      <4>2. order'[y] = o /\ failed' = failed
        BY <2>1, <3>1 DEF Dispatch, Start, CooldownTypeOK
      <4>3. \A f \in Failures : ~(failed[y][o][f] <= Window(f, o[2]))
        BY <2>1 DEF Dispatch, CoolingDown
      <4>4. \A f \in Failures : failed[y][o][f] \in Int
        BY <4>1, CooldownAssumption DEF CooldownTypeOK, Ages, Old
      <4>5. \A f \in Failures : failed[y][o][f] > Window(f, o[2])
        BY <4>3, <4>4, WindowReach
      <4> QED BY <4>2, <4>5 DEF Backed
    <3>2. CASE x # y
      BY <2>0, <2>1, <3>2, BackedFrame DEF Dispatch, Start, CooldownTypeOK
    <3> QED BY <3>1, <3>2
  <2>2. ASSUME NEW x \in Actors, NEW o \in Deals[x], DispatchUnchecked(x, o) \/ Approve(x, o)
        PROVE  Backed(y)'
    <3>0. Bypass(x, o)
      BY <2>2 DEF DispatchUnchecked, Approve
    <3>1. CASE x = y
      BY <3>0, <3>1 DEF Bypass, Start, CooldownTypeOK, Backed
    <3>2. CASE x # y
      BY <2>0, <3>0, <3>2, BackedFrame DEF Bypass, Start, CooldownTypeOK
    <3> QED BY <3>1, <3>2
  <2>3. ASSUME NEW x \in Actors,
               (\E f \in Vetoes : Reject(x, f)) \/ Refuse(x) \/ Placed(x) \/ PlaceFails(x)
        PROVE  Backed(y)'
    <3>1. CASE x = y
      BY <2>3, <3>1 DEF Reject, Refuse, Placed, PlaceFails, Return, CooldownTypeOK, Backed
    <3>2. CASE x # y
      BY <2>0, <2>3, <3>2, BackedFrame
         DEF Reject, Refuse, Placed, PlaceFails, Return, CooldownTypeOK
    <3> QED BY <3>1, <3>2
  <2>4. ASSUME NEW x \in Actors, Place(x) PROVE Backed(y)'
    <3>1. CASE x = y
      BY <2>0, <2>4, <3>1 DEF Place, CooldownTypeOK, Backed
    <3>2. CASE x # y
      BY <2>0, <2>4, <3>2, BackedFrame DEF Place, CooldownTypeOK
    <3> QED BY <3>1, <3>2
  <2>5. CASE Tick
    BY <2>0, <2>5, BackedAges
  <2>6. CASE Restart
    BY <2>6 DEF Restart, Backed
  <2>7. CASE UNCHANGED cooldownVars
    BY <2>0, <2>7, BackedFrame DEF cooldownVars
  <2> QED BY <2>1, <2>2, <2>3, <2>4, <2>5, <2>6, <2>7 DEF CooldownNext
<1> QED BY <1>1, <1>2, CooldownTypes, PTL DEF CooldownSpec
==============================================================================
