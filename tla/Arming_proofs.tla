---------------------------- MODULE Arming_proofs ----------------------------
(***************************************************************************)
(* For any set of accounts and any interleaving of requests: an armed live *)
(* account gets beside an active paper one only through an overtaken check *)
(* or a change of kind.                                                    *)
(*                                                                         *)
(* The argument is a property of what is pending: as long as nobody has    *)
(* committed since its check, a request that leaves the account's kind     *)
(* alone leads to the very table the check has judged (Judged).            *)
(***************************************************************************)
EXTENDS Arming, TLAPS

\* The table a pending request leads to.
After(a) == [rows EXCEPT ![a] = Merge(rows[a], asked[a].row, asked[a].fields)]

ChangesKind(q) == q.op = "patch" /\ q.fields \cap {"is_paper", "port"} # {}

Judged ==
    \A a \in Accounts :
        asked[a] # NoRequest /\ ~asked[a].stale /\ ~ChangesKind(asked[a]) => ~Coexist(After(a))

\* A stopped process serves nobody.
Quiet == ~up => \A a \in Accounts : asked[a] = NoRequest

ArmingInv == TypeOK /\ Judged /\ Quiet

-----------------------------------------------------------------------------
\* Rows and requests.

LEMMA NoRowIsRow == NoRow \in Row
BY DEF NoRow, Row, Port

LEMMA NoRequestIsRequest == NoRequest \in Request
BY NoRowIsRow DEF NoRequest, Request

LEMMA MergeIsRow ==
    ASSUME NEW r \in Row, NEW s \in Row, NEW F PROVE Merge(r, s, F) \in Row
BY DEF Merge, Row

LEMMA SeedIsRow == ASSUME NEW p \in Port PROVE SeedRow(p) \in Row
BY DEF SeedRow, Row

\* A request that is asked for is a request.
LEMMA AskType ==
    ASSUME TypeOK, NEW a \in Accounts, NEW op \in {"create", "patch"}, NEW r \in Row,
           NEW F \in SUBSET Field, Ask(a, op, r, F)
    PROVE  asked' \in [Accounts -> Request]
<1>1. Merge(NoRow, r, F) \in Row
  BY MergeIsRow, NoRowIsRow
<1>2. [op |-> op, row |-> Merge(NoRow, r, F), fields |-> F, stale |-> FALSE] \in Request
  BY <1>1 DEF Request
<1> QED  BY <1>2 DEF Ask, TypeOK

\* What goes through the table of pending requests when something is committed.
LEMMA StaleIsRequest ==
    ASSUME NEW q \in Request
    PROVE  [op |-> q.op, row |-> q.row, fields |-> q.fields, stale |-> TRUE] \in Request
BY DEF Request

LEMMA ChangedIsFields == ASSUME NEW r, NEW s PROVE Changed(r, s) \in SUBSET Field
BY DEF Changed

-----------------------------------------------------------------------------
\* Types.

LEMMA InitType == Init => TypeOK
<1> SUFFICES ASSUME Init PROVE TypeOK
  OBVIOUS
<1>1. rows \in [Accounts -> Row] /\ asked \in [Accounts -> Request]
  BY NoRowIsRow, NoRequestIsRequest DEF Init
<1> QED  BY <1>1 DEF Init, TypeOK, Port

LEMMA BootType == TypeOK /\ Boot => TypeOK'
<1> SUFFICES ASSUME TypeOK, NEW p \in Port,
                    IF \A a \in Accounts : ~rows[a].there
                    THEN \E a \in Accounts : rows' = [rows EXCEPT ![a] = SeedRow(p)]
                    ELSE UNCHANGED rows,
                    up' = ~BootRefuses(rows'),
                    \/ (\E a \in Accounts : primary' = a) /\ UNCHANGED envPort
                    \/ envPort' = p /\ UNCHANGED primary
                    \/ UNCHANGED <<primary, envPort>>,
                    UNCHANGED <<asked, leaked>>
             PROVE  TypeOK'
  BY DEF Boot
<1>1. rows' \in [Accounts -> Row]
  BY SeedIsRow DEF TypeOK
<1>2. up' \in BOOLEAN
  BY DEF BootRefuses, Coexist
<1>3. primary' \in Accounts \cup {Env} /\ envPort' \in Port
  BY DEF TypeOK
<1>4. UNCHANGED asked /\ UNCHANGED leaked
  OBVIOUS
<1> QED  BY <1>1, <1>2, <1>3, <1>4 DEF TypeOK

LEMMA StopType == TypeOK /\ Stop => TypeOK'
<1> SUFFICES ASSUME TypeOK, Stop PROVE TypeOK'
  OBVIOUS
<1>1. asked' \in [Accounts -> Request]
  BY NoRequestIsRequest DEF Stop
<1> QED  BY <1>1 DEF Stop, TypeOK, Port

LEMMA CreateCheckType ==
    ASSUME TypeOK, NEW a \in Accounts, CreateCheck(a) PROVE TypeOK'
<1>1. asked' \in [Accounts -> Request]
  BY AskType DEF CreateCheck
<1> QED  BY <1>1 DEF CreateCheck, TypeOK

LEMMA PatchCheckType ==
    ASSUME TypeOK, NEW a \in Accounts, PatchCheck(a) PROVE TypeOK'
<1>1. PICK r \in Row : Ask(a, "patch", r, Changed(rows[a], r))
  BY DEF PatchCheck
<1>2. asked' \in [Accounts -> Request]
  BY <1>1, AskType, ChangedIsFields
<1> QED  BY <1>2 DEF PatchCheck, TypeOK

LEMMA CommitType ==
    ASSUME TypeOK, NEW a \in Accounts, Commit(a) PROVE TypeOK'
<1>1. asked[a].row \in Row
  BY DEF TypeOK, Request
<1>2. rows' \in [Accounts -> Row]
  BY <1>1, MergeIsRow DEF Commit, TypeOK
<1>3. asked' \in [Accounts -> Request]
  BY StaleIsRequest, NoRequestIsRequest DEF Commit, Outdated, TypeOK
<1> QED  BY <1>2, <1>3 DEF Commit, TypeOK

LEMMA DeactivateType ==
    ASSUME TypeOK, NEW a \in Accounts, Deactivate(a) PROVE TypeOK'
<1>1. rows' \in [Accounts -> Row]
  BY NoRowIsRow, MergeIsRow DEF Deactivate, TypeOK
<1>2. asked' \in [Accounts -> Request]
  BY StaleIsRequest, NoRequestIsRequest DEF Deactivate, TypeOK
<1> QED  BY <1>1, <1>2 DEF Deactivate, TypeOK

LEMMA OrderType ==
    ASSUME TypeOK, NEW id, NEW w \in Accounts \cup {Env}, OrderOn(id, w) PROVE TypeOK'
<1>1. Disarmed(w) \in BOOLEAN
  BY DEF Disarmed, TypeOK, Row
<1>2. leaked' \in BOOLEAN
  BY <1>1 DEF OrderOn, TypeOK
<1> QED  BY <1>2 DEF OrderOn, TypeOK

\* Whoever trades, the worker is that of an account or of the environment.
LEMMA ResolveType ==
    ASSUME TypeOK, NEW id \in Accounts \cup {Env} PROVE Resolve(id) \in Accounts \cup {Env}
BY DEF Resolve, TypeOK

LEMMA NextType == TypeOK /\ [Next]_vars => TypeOK'
<1> SUFFICES ASSUME TypeOK, [Next]_vars PROVE TypeOK'
  OBVIOUS
<1>1. CASE Boot
  BY <1>1, BootType
<1>2. CASE Stop
  BY <1>2, StopType
<1>3. ASSUME NEW a \in Accounts, CreateCheck(a) \/ PatchCheck(a) \/ Commit(a) \/ Deactivate(a)
      PROVE  TypeOK'
  BY <1>3, CreateCheckType, PatchCheckType, CommitType, DeactivateType
<1>4. CASE LoopOrder
  BY <1>4, OrderType DEF LoopOrder, TypeOK
<1>5. ASSUME NEW id \in Accounts \cup {Env}, RequestOrder(id) PROVE TypeOK'
  BY <1>5, OrderType, ResolveType DEF RequestOrder
<1>6. CASE UNCHANGED vars
  BY <1>6 DEF vars, TypeOK
<1> QED  BY <1>1, <1>2, <1>3, <1>4, <1>5, <1>6 DEF Next

-----------------------------------------------------------------------------
\* Pending requests.

LEMMA InitInv == Init => ArmingInv
<1>1. Init => Judged /\ Quiet
  BY DEF Init, Judged, Quiet
<1> QED  BY <1>1, InitType DEF ArmingInv

\* Two tables that agree on what IsLive, the flags and presence are coexist alike.
LEMMA CoexistFields ==
    ASSUME NEW R, NEW S,
           \A b \in Accounts :
              /\ R[b].there = S[b].there /\ R[b].is_active = S[b].is_active
              /\ R[b].is_paper = S[b].is_paper /\ R[b].port = S[b].port
              /\ R[b].read_only = S[b].read_only,
           Coexist(R)
    PROVE  Coexist(S)
BY DEF Coexist, ArmedLive, ActivePaper, IsLive

\* A table whose other rows are as before and whose row for a is own.
LEMMA SafeMeansApart ==
    ASSUME NEW a \in Accounts, NEW r, NEW act, NEW ro, Safe(a, r, act, ro), NEW R,
           \A b \in Accounts \ {a} : R[b] = rows[b],
           R[a].there, R[a].is_paper = r.is_paper, R[a].port = r.port,
           R[a].is_active = act, R[a].read_only = ro
    PROVE  ~Coexist(R)
<1> DEFINE own == [there |-> TRUE, is_paper |-> r.is_paper, port |-> r.port,
                   is_active |-> act, read_only |-> ro]
           Would == [b \in Accounts |-> IF b = a THEN own ELSE rows[b]]
<1>1. ~((\E b \in Accounts : ArmedLive(Would[b])) /\ (\E b \in Accounts : ActivePaper(Would[b])))
  BY DEF Safe
<1>2. \A b \in Accounts : ArmedLive(R[b]) => ArmedLive(Would[b])
  BY DEF ArmedLive, IsLive
<1>3. \A b \in Accounts : ActivePaper(R[b]) => ActivePaper(Would[b])
  BY DEF ActivePaper, IsLive
<1> QED  BY <1>1, <1>2, <1>3 DEF Coexist

\* What create_account has checked is what it will commit.
LEMMA CreateJudged ==
    ASSUME TypeOK, NEW a \in Accounts, CreateCheck(a)
    PROVE  ~Coexist(After(a)')
<1>1. PICK r \in Row : /\ r.there /\ r.is_active
                       /\ Safe(a, r, TRUE, r.read_only)
                       /\ Ask(a, "create", r, Field)
  BY DEF CreateCheck
<1> DEFINE R == After(a)'
<1>2. asked'[a].row = Merge(NoRow, r, Field) /\ asked'[a].fields = Field
  BY <1>1 DEF Ask, TypeOK
<1>3. R = [rows EXCEPT ![a] = Merge(rows[a], Merge(NoRow, r, Field), Field)]
  BY <1>2 DEF After, CreateCheck
<1>4. R[a] = Merge(rows[a], Merge(NoRow, r, Field), Field)
  BY <1>3 DEF TypeOK
<1>5. /\ R[a].there /\ R[a].is_paper = r.is_paper /\ R[a].port = r.port
      /\ R[a].is_active = r.is_active /\ R[a].read_only = r.read_only
  BY <1>4 DEF Merge, Field
<1>6. \A b \in Accounts \ {a} : R[b] = rows[b]
  BY <1>3 DEF TypeOK
<1>7. r.is_active = TRUE
  BY <1>1 DEF Row
<1> HIDE DEF R
<1> QED  BY <1>1, <1>5, <1>6, <1>7, SafeMeansApart DEF R

\* So it is for patch_account, unless the patch changes the account's kind.
LEMMA PatchJudged ==
    ASSUME TypeOK, NEW a \in Accounts, PatchCheck(a), ~ChangesKind(asked'[a])
    PROVE  ~Coexist(After(a)')
<1>1. PICK r \in Row : /\ r.there
                       /\ Safe(a, rows[a], r.is_active, r.read_only)
                       /\ Ask(a, "patch", r, Changed(rows[a], r))
  BY DEF PatchCheck
<1> DEFINE R == After(a)'
           F == Changed(rows[a], r)
<1>2. /\ asked'[a].row = Merge(NoRow, r, F) /\ asked'[a].fields = F
      /\ asked'[a].op = "patch"
  BY <1>1 DEF Ask, TypeOK
<1>3. R = [rows EXCEPT ![a] = Merge(rows[a], Merge(NoRow, r, F), F)]
  BY <1>2 DEF After, PatchCheck
<1>4. R[a] = Merge(rows[a], Merge(NoRow, r, F), F)
  BY <1>3 DEF TypeOK
<1>5. "is_paper" \notin F /\ "port" \notin F
  BY <1>2 DEF ChangesKind
<1>6. R[a].there /\ R[a].is_paper = rows[a].is_paper /\ R[a].port = rows[a].port
  BY <1>4, <1>5 DEF Merge
<1>7. R[a].is_active = IF "is_active" \in F THEN r.is_active ELSE rows[a].is_active
  BY <1>4 DEF Merge
<1>8. R[a].read_only = IF "read_only" \in F THEN r.read_only ELSE rows[a].read_only
  BY <1>4 DEF Merge
<1>9. R[a].is_active = r.is_active /\ R[a].read_only = r.read_only
  BY <1>7, <1>8 DEF Changed, Field
<1>10. \A b \in Accounts \ {a} : R[b] = rows[b]
  BY <1>3 DEF TypeOK
<1> HIDE DEF R
<1> QED  BY <1>1, <1>6, <1>9, <1>10, SafeMeansApart DEF R

\* A check adds its own request and leaves the others as they were judged.
LEMMA AskKeepsJudged ==
    ASSUME ArmingInv, NEW a \in Accounts, UNCHANGED <<rows, up>>, up,
           \A b \in Accounts \ {a} : asked'[b] = asked[b],
           ~ChangesKind(asked'[a]) => ~Coexist(After(a)')
    PROVE  (Judged /\ Quiet)'
<1>1. ASSUME NEW b \in Accounts \ {a} PROVE After(b)' = After(b)
  BY <1>1 DEF After
<1>2. ASSUME NEW b \in Accounts, asked'[b] # NoRequest, ~asked'[b].stale, ~ChangesKind(asked'[b])
      PROVE  ~Coexist(After(b)')
  <2>1. CASE b = a
    BY <2>1, <1>2
  <2>2. CASE b # a
    BY <2>2, <1>1, <1>2 DEF ArmingInv, Judged
  <2> QED  BY <2>1, <2>2
<1>3. Judged'
  BY <1>2 DEF Judged, ChangesKind
<1> QED  BY <1>3 DEF Quiet

\* A commit leaves only overtaken requests behind.
LEMMA CommitKeepsJudged ==
    ASSUME ArmingInv, up, UNCHANGED up,
           \A b \in Accounts : asked'[b] = NoRequest \/ asked'[b].stale
    PROVE  (Judged /\ Quiet)'
BY DEF Judged, Quiet

LEMMA StepInv == ArmingInv /\ [Next]_vars => ArmingInv'
<1> SUFFICES ASSUME ArmingInv, [Next]_vars PROVE (Judged /\ Quiet)'
  BY NextType DEF ArmingInv
<1> USE DEF ArmingInv
<1>1. CASE Boot
  BY <1>1 DEF Boot, Quiet, Judged
<1>2. CASE Stop
  BY <1>2 DEF Stop, Quiet, Judged
<1>3. ASSUME NEW a \in Accounts, CreateCheck(a) PROVE (Judged /\ Quiet)'
  BY <1>3, CreateJudged, AskKeepsJudged DEF CreateCheck, Ask, TypeOK
<1>4. ASSUME NEW a \in Accounts, PatchCheck(a) PROVE (Judged /\ Quiet)'
  BY <1>4, PatchJudged, AskKeepsJudged DEF PatchCheck, Ask, TypeOK
<1>5. ASSUME NEW a \in Accounts, Commit(a) PROVE (Judged /\ Quiet)'
  BY <1>5, CommitKeepsJudged DEF Commit, Outdated
<1>6. ASSUME NEW a \in Accounts, Deactivate(a) PROVE (Judged /\ Quiet)'
  BY <1>6, CommitKeepsJudged DEF Deactivate
<1>7. ASSUME UNCHANGED <<rows, up, asked>> PROVE (Judged /\ Quiet)'
  BY <1>7 DEF Judged, Quiet, After
<1>8. CASE LoopOrder
  BY <1>7, <1>8 DEF LoopOrder, OrderOn
<1>9. ASSUME NEW id \in Accounts \cup {Env}, RequestOrder(id) PROVE (Judged /\ Quiet)'
  BY <1>7, <1>9 DEF RequestOrder, OrderOn
<1>10. CASE UNCHANGED vars
  BY <1>7, <1>10 DEF vars
<1> QED  BY <1>1, <1>2, <1>3, <1>4, <1>5, <1>6, <1>8, <1>9, <1>10 DEF Next

\* The invariant holds in every behaviour.
THEOREM ArmingInvariant == Spec => []ArmingInv
BY InitInv, StepInv, PTL DEF Spec

\* The table, the requests and the workers keep their types.
THEOREM TypeCorrect == Spec => []TypeOK
<1>1. ArmingInv => TypeOK
  BY DEF ArmingInv
<1> QED  BY <1>1, ArmingInvariant, PTL

-----------------------------------------------------------------------------
\* The steps that bring an armed live account beside an active paper one.

\* A seed is alone in its table.
LEMMA BootApart == ASSUME ~Coexist(rows), TypeOK, Boot PROVE ~Coexist(rows')
<1>1. CASE UNCHANGED rows
  BY <1>1
<1>2. ASSUME NEW p \in Port, NEW a \in Accounts, \A b \in Accounts : ~rows[b].there,
             rows' = [rows EXCEPT ![a] = SeedRow(p)]
      PROVE  ~Coexist(rows')
  <2>1. \A b \in Accounts : rows'[b].there => b = a
    BY <1>2 DEF TypeOK
  <2> QED  BY <2>1 DEF Coexist, ArmedLive, ActivePaper
<1> QED  BY <1>1, <1>2 DEF Boot

LEMMA DeactivateApart ==
    ASSUME ~Coexist(rows), TypeOK, NEW a \in Accounts, Deactivate(a) PROVE ~Coexist(rows')
<1>1. rows'[a].is_active = FALSE /\ \A b \in Accounts \ {a} : rows'[b] = rows[b]
  BY DEF Deactivate, Merge, NoRow, TypeOK
<1>2. \A b \in Accounts : ArmedLive(rows'[b]) => ArmedLive(rows[b])
  BY <1>1 DEF ArmedLive
<1>3. \A b \in Accounts : ActivePaper(rows'[b]) => ActivePaper(rows[b])
  BY <1>1 DEF ActivePaper
<1> QED  BY <1>2, <1>3 DEF Coexist

\* A commit that brings them together rests on an overtaken check, or is a patch of
\* is_paper or port.
LEMMA CommitApart ==
    ASSUME ArmingInv, ~Coexist(rows), NEW a \in Accounts, Commit(a), Coexist(rows')
    PROVE  /\ asked[a] # NoRequest /\ asked'[a] = NoRequest
           /\ asked[a].stale \/ ChangesKind(asked[a])
<1>1. rows' = After(a)
  BY DEF Commit, After
<1>2. asked[a].stale \/ ChangesKind(asked[a])
  BY <1>1 DEF ArmingInv, Judged, Commit
<1> QED  BY <1>2 DEF Commit, Outdated

\* _assert_no_armed_live_beside_paper keeps the runtime out of the state the boot
\* refuses, but for overtaken checks and changes of kind.
THEOREM AdminKeepsApart == Spec => ApartByAdmin
<1> DEFINE Culprit(a) ==
        /\ asked[a] # NoRequest /\ asked'[a] = NoRequest
        /\ \/ asked[a].stale
           \/ asked[a].op = "patch" /\ asked[a].fields \cap {"is_paper", "port"} # {}
<1>1. ASSUME ArmingInv, [Next]_vars, ~Coexist(rows), Coexist(rows')
      PROVE  \E a \in Accounts : Culprit(a)
  <2> USE <1>1 DEF ArmingInv
  <2>1. ~Boot
    BY BootApart
  <2>2. ~Stop /\ ~LoopOrder /\ vars' # vars
    BY DEF Stop, LoopOrder, OrderOn, vars
  <2>3. \A id \in Accounts \cup {Env} : ~RequestOrder(id)
    BY DEF RequestOrder, OrderOn
  <2>4. \A a \in Accounts : ~CreateCheck(a) /\ ~PatchCheck(a)
    BY DEF CreateCheck, PatchCheck
  <2>5. \A a \in Accounts : ~Deactivate(a)
    BY DeactivateApart
  <2>6. PICK a \in Accounts : Commit(a)
    BY <2>1, <2>2, <2>3, <2>4, <2>5 DEF Next
  <2>7. Culprit(a)
    BY <2>6, CommitApart DEF ChangesKind
  <2> QED  BY <2>7
<1>2. ArmingInv /\ [Next]_vars =>
        (~Coexist(rows) /\ Coexist(rows') => \E a \in Accounts : Culprit(a))
  BY <1>1
<1> QED  BY <1>2, ArmingInvariant, PTL DEF Spec, ApartByAdmin

\* No boot arms an account by itself unless its port proves paper.
THEOREM SeedsAreInert == Spec => SeedIsInert
<1> DEFINE Armed(r) == r.is_active /\ ~r.read_only
<1>1. ASSUME ArmingInv, [Next]_vars, NEW a \in Accounts,
             Armed(rows'[a]), ~Armed(rows[a]), asked[a] = NoRequest
      PROVE  rows'[a].port = "paper"
  <2> USE <1>1 DEF ArmingInv
  <2>1. CASE Boot
    <3>1. PICK p \in Port, b \in Accounts : rows' = [rows EXCEPT ![b] = SeedRow(p)]
      BY <2>1 DEF Boot
    <3>2. rows'[a] = SeedRow(p)
      BY <3>1 DEF TypeOK
    <3>3. SeedRow(p).is_active = (p = "paper") /\ SeedRow(p).port = p
      BY DEF SeedRow
    <3>4. p = "paper"
      BY <3>2, <3>3
    <3> QED  BY <3>2, <3>3, <3>4
  <2>2. ASSUME NEW b \in Accounts, Commit(b) PROVE FALSE
    BY <2>2 DEF Commit, TypeOK
  <2>3. ASSUME NEW b \in Accounts, Deactivate(b) PROVE FALSE
    BY <2>3 DEF Deactivate, Merge, NoRow, TypeOK
  <2>4. UNCHANGED rows => FALSE
    OBVIOUS
  <2>5. ~Stop /\ ~LoopOrder /\ vars' # vars
    BY <2>4 DEF Stop, LoopOrder, OrderOn, vars
  <2>6. \A id \in Accounts \cup {Env} : ~RequestOrder(id)
    BY <2>4 DEF RequestOrder, OrderOn
  <2>7. \A b \in Accounts : ~CreateCheck(b) /\ ~PatchCheck(b)
    BY <2>4 DEF CreateCheck, PatchCheck
  <2> QED  BY <2>1, <2>2, <2>3, <2>5, <2>6, <2>7 DEF Next
<1>2. ArmingInv /\ [Next]_vars =>
        \A a \in Accounts :
          /\ rows'[a].is_active /\ ~rows'[a].read_only
          /\ ~(rows[a].is_active /\ ~rows[a].read_only)
          => asked[a] # NoRequest \/ rows'[a].port = "paper"
  BY <1>1
<1> QED  BY <1>2, ArmingInvariant, PTL DEF Spec, SeedIsInert
==============================================================================
