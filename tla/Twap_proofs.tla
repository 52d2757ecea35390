---------------------------- MODULE Twap_proofs ----------------------------
(***************************************************************************)
(* For any number of executions, slices and crashes: no execution buys     *)
(* more than its plan, COMPLETED means whole, a cancellation stops it.     *)
(*                                                                         *)
(* The bounds are not inductive alone: what a coroutine may still send     *)
(* depends on where it is, so Counts ties the three counters to the place  *)
(* and Stopped ties what goes out after a cancellation to it.              *)
(***************************************************************************)
EXTENDS Twap, TLAPS

\* The slice number, the row's count and the broker's count, place by place.
Counts(x) ==
    /\ submitted[x] = slice[x]
    /\ task[x] \in {"none", "sleep", "send"} => sent[x] = slice[x] /\ slice[x] < NSlices
    /\ task[x] = "ack" => sent[x] = slice[x] + 1 /\ slice[x] < NSlices
    /\ task[x] \in {"ended", "killed"} =>
          sent[x] \in {slice[x], slice[x] + 1} /\ sent[x] <= NSlices

\* A row and its coroutine begin together; COMPLETED comes with the last slice.
Whole(x) ==
    /\ (status[x] = "none") <=> (task[x] = "none")
    /\ cancelling[x] => task[x] # "none"
    /\ status[x] = "COMPLETED" =>
          task[x] = "ended" /\ slice[x] = NSlices /\ sent[x] = NSlices

\* A cancelled execution is never RUNNING again, so a sleeping coroutine is at
\* its end; only one that was past the check may still send.
Stopped(x) ==
    cancelledAt[x] # Never =>
        /\ status[x] \in {"CANCELLED", "COMPLETED", "FAILED"}
        /\ sent[x] <= cancelledAt[x] + 1
        /\ task[x] = "send" => sent[x] <= cancelledAt[x]

TwapInv == TwapTypeOK /\ \A x \in Twaps : Counts(x) /\ Whole(x) /\ Stopped(x)

-----------------------------------------------------------------------------
LEMMA TwapBegins == TwapInit => TwapInv
BY TwapAssumption DEF TwapInit, TwapInv, TwapTypeOK, Counts, Whole, Stopped, Status, Task, Never

\* A step of one execution keeps its own invariant; the others are not touched.
LEMMA TwapKeeps == TwapInv /\ [TwapNext]_twapVars => TwapInv'
<1> SUFFICES ASSUME TwapInv, [TwapNext]_twapVars PROVE TwapInv'
    OBVIOUS
<1> USE TwapAssumption DEF TwapInv, TwapTypeOK, Status, Task, Never, GoTo
<1>1. ASSUME NEW x \in Twaps, Plan(x) PROVE TwapInv'
  BY <1>1 DEF Plan, Counts, Whole, Stopped
<1>2. ASSUME NEW x \in Twaps, Wake(x) PROVE TwapInv'
  BY <1>2 DEF Wake, Counts, Whole, Stopped
<1>3. ASSUME NEW x \in Twaps, Send(x) PROVE TwapInv'
  BY <1>3 DEF Send, Counts, Whole, Stopped
<1>4. ASSUME NEW x \in Twaps, Record(x) PROVE TwapInv'
  BY <1>4 DEF Record, Counts, Whole, Stopped
<1>5. ASSUME NEW x \in Twaps, Fail(x) PROVE TwapInv'
  BY <1>5 DEF Fail, Counts, Whole, Stopped
<1>6. ASSUME NEW x \in Twaps, CancelCheck(x) PROVE TwapInv'
  BY <1>6 DEF CancelCheck, Counts, Whole, Stopped
<1>7. ASSUME NEW x \in Twaps, CancelCommit(x) PROVE TwapInv'
  BY <1>7 DEF CancelCommit, Counts, Whole, Stopped
<1>8. CASE Crash
  <2>1. task' \in [Twaps -> Task]
    BY <1>8 DEF Crash
  <2>2. cancelling' \in [Twaps -> BOOLEAN]
    BY <1>8 DEF Crash
  <2>3. up' \in BOOLEAN
    BY <1>8 DEF Crash
  <2>4. crashes' \in Nat /\ UNCHANGED <<status, submitted, slice, sent, cancelledAt>>
    BY <1>8 DEF Crash
  <2>6. TwapTypeOK'
    BY <2>1, <2>2, <2>3, <2>4
  <2>5. ASSUME NEW x \in Twaps PROVE (Counts(x) /\ Whole(x) /\ Stopped(x))'
    BY <1>8 DEF Crash, Counts, Whole, Stopped
  <2> QED  BY <2>5, <2>6
<1>9. CASE Boot
  BY <1>9 DEF Boot, Counts, Whole, Stopped
<1>10. CASE UNCHANGED twapVars
  BY <1>10 DEF twapVars, Counts, Whole, Stopped
<1> QED
  BY <1>1, <1>2, <1>3, <1>4, <1>5, <1>6, <1>7, <1>8, <1>9, <1>10 DEF TwapNext, TwapStep

\* The invariant holds in every behaviour.
THEOREM TwapInvariant == TwapSpec => []TwapInv
BY TwapBegins, TwapKeeps, PTL DEF TwapSpec

\* Every row, coroutine and counter keeps its type, the status an enum value of
\* TwapExecution (core/models.py).
THEOREM TwapTypes == TwapSpec => []TwapTypeOK
<1>1. TwapInv => TwapTypeOK
  BY DEF TwapInv
<1> QED
  BY <1>1, TwapInvariant, PTL

\* execute_trade and _run_twap_slices never send more slices than planned, and the
\* row misses at most the slice whose acknowledgement never came.
THEOREM NeverMoreThanPlanned == TwapSpec => []SlicesBounded
<1>1. TwapInv => SlicesBounded
  <2> SUFFICES ASSUME TwapInv, NEW x \in Twaps
               PROVE  /\ sent[x] <= NSlices
                      /\ submitted[x] <= sent[x]
                      /\ sent[x] > submitted[x] =>
                            /\ sent[x] = submitted[x] + 1
                            /\ task[x] \in {"ack", "ended", "killed"}
    BY DEF SlicesBounded
  <2>1. /\ Counts(x) /\ task[x] \in Task
        /\ sent[x] \in Nat /\ slice[x] \in Nat /\ NSlices \in Nat
    BY TwapAssumption DEF TwapInv, TwapTypeOK
  <2> QED
    BY <2>1 DEF Counts, Task
<1> QED
  BY <1>1, TwapInvariant, PTL

\* _run_twap_slices writes COMPLETED only for an execution sent and counted whole.
THEOREM CompletedMeansWhole == TwapSpec => []CompletedIsWhole
<1>1. TwapInv => CompletedIsWhole
  BY DEF TwapInv, Counts, Whole, CompletedIsWhole
<1> QED
  BY <1>1, TwapInvariant, PTL

\* After cancel_twap at most the one slice past the status check goes out.
THEOREM CancellationStops == TwapSpec => []CancelStops
<1>1. TwapInv => CancelStops
  BY DEF TwapInv, Stopped, CancelStops
<1> QED
  BY <1>1, TwapInvariant, PTL

\* Only a slice in flight, the last one or a failing one, takes a row out of CANCELLED.
THEOREM CancelledRowsStay == TwapSpec => CancelledStays
<1>1. ASSUME TwapInv, [TwapNext]_twapVars, NEW x \in Twaps,
             status[x] = "CANCELLED", status'[x] # "CANCELLED"
      PROVE  /\ task[x] \in {"send", "ack"} /\ task'[x] = "ended"
             /\ status'[x] \in {"COMPLETED", "FAILED"}
  <2> USE <1>1, TwapAssumption DEF TwapInv, TwapTypeOK, Counts, GoTo
  <2>1. ASSUME NEW y \in Twaps, Plan(y) PROVE FALSE
    BY <2>1 DEF Plan, Status
  <2>2. ASSUME NEW y \in Twaps, CancelCommit(y) PROVE FALSE
    BY <2>2 DEF CancelCommit, Status
  <2>3. ASSUME NEW y \in Twaps, Wake(y) \/ Send(y) \/ CancelCheck(y) PROVE FALSE
    BY <2>3 DEF Wake, Send, CancelCheck
  <2>4. ~Crash /\ ~Boot /\ twapVars' # twapVars
    BY DEF Crash, Boot, twapVars
  <2>5. ASSUME NEW y \in Twaps, Record(y) PROVE /\ task[x] \in {"send", "ack"} /\ task'[x] = "ended" /\ status'[x] \in {"COMPLETED", "FAILED"}
    BY <2>5 DEF Record, Status, Task
  <2>6. ASSUME NEW y \in Twaps, Fail(y) PROVE /\ task[x] \in {"send", "ack"} /\ task'[x] = "ended" /\ status'[x] \in {"COMPLETED", "FAILED"}
    BY <2>6 DEF Fail, Status, Task
  <2> QED
    BY <2>1, <2>2, <2>3, <2>4, <2>5, <2>6 DEF TwapNext, TwapStep
<1>2. TwapInv /\ [TwapNext]_twapVars =>
        \A x \in Twaps :
          status[x] = "CANCELLED" /\ status'[x] # "CANCELLED" =>
              /\ task[x] \in {"send", "ack"} /\ task'[x] = "ended"
              /\ status'[x] \in {"COMPLETED", "FAILED"}
  BY <1>1
<1> QED
  BY <1>2, TwapInvariant, PTL DEF TwapSpec, CancelledStays
==============================================================================
