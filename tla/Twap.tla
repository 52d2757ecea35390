-------------------------------- MODULE Twap --------------------------------
(***************************************************************************)
(* A large BUY that execute_trade splits into NSlices bracket orders: the  *)
(* twap_executions row, the first slice sent by the call itself, the task  *)
(* _run_twap_slices that sends the others one interval apart, the cancel   *)
(* endpoint (which runs in a thread of its own) and the death of the       *)
(* process.  resume_pending_twap is not here: nothing calls it.            *)
(***************************************************************************)
EXTENDS Integers

CONSTANTS
    Twaps,       \* executions
    NSlices,     \* twap_slices
    MaxCrashes   \* bound on process deaths

ASSUME TwapAssumption == NSlices \in Nat \ {0} /\ MaxCrashes \in Nat

VARIABLES
    up,
    crashes,
    status,      \* the row's status
    submitted,   \* the row's slices_submitted
    task,        \* where the coroutine that sends the slices is
    slice,       \* the slice it is at, counted from 0
    sent,        \* slices the broker has
    cancelling,  \* the cancel endpoint has found the row RUNNING
    cancelledAt  \* slices sent when it committed CANCELLED, a history only

twapVars == <<up, crashes, status, submitted, task, slice, sent, cancelling, cancelledAt>>

Status == {"none", "RUNNING", "COMPLETED", "FAILED", "CANCELLED"}
Task == {"none", "sleep", "send", "ack", "ended", "killed"}
Never == -1

TwapInit ==
    /\ up = TRUE /\ crashes = 0
    /\ status = [x \in Twaps |-> "none"]
    /\ submitted = [x \in Twaps |-> 0]
    /\ task = [x \in Twaps |-> "none"]
    /\ slice = [x \in Twaps |-> 0]
    /\ sent = [x \in Twaps |-> 0]
    /\ cancelling = [x \in Twaps |-> FALSE]
    /\ cancelledAt = [x \in Twaps |-> Never]

GoTo(x, l) == task' = [task EXCEPT ![x] = l]

\* execute_trade commits the plan and turns to the first slice.
Plan(x) ==
    /\ up
    /\ status[x] = "none"
    /\ status' = [status EXCEPT ![x] = "RUNNING"]
    /\ GoTo(x, "send")
    /\ UNCHANGED <<up, crashes, submitted, slice, sent, cancelling, cancelledAt>>

\* Mutant: the interval ends and nobody looks at the row.
WakeBlind(x) ==
    /\ up
    /\ task[x] = "sleep"
    /\ GoTo(x, "send")
    /\ UNCHANGED <<up, crashes, status, submitted, slice, sent, cancelling, cancelledAt>>

\* The interval is over: the row is read again and anything but RUNNING ends it.
Wake(x) ==
    /\ up
    /\ task[x] = "sleep"
    /\ GoTo(x, IF status[x] = "RUNNING" THEN "send" ELSE "ended")
    /\ UNCHANGED <<up, crashes, status, submitted, slice, sent, cancelling, cancelledAt>>

\* place_bracket_order has handed the slice's orders to the broker and awaits
\* the acknowledgement.
Send(x) ==
    /\ up
    /\ task[x] = "send"
    /\ sent' = [sent EXCEPT ![x] = @ + 1]
    /\ GoTo(x, "ack")
    /\ UNCHANGED <<up, crashes, status, submitted, slice, cancelling, cancelledAt>>

\* Mutant: the last slice is taken to be the one numbered NSlices - 1.
RecordEarly(x) ==
    /\ up
    /\ task[x] = "ack"
    /\ submitted' = [submitted EXCEPT ![x] = @ + 1]
    /\ status' = [status EXCEPT ![x] =
                     IF slice[x] > 0 /\ submitted[x] + 1 >= NSlices - 1 THEN "COMPLETED" ELSE @]
    /\ slice' = [slice EXCEPT ![x] = @ + 1]
    /\ GoTo(x, IF slice[x] + 1 < NSlices THEN "sleep" ELSE "ended")
    /\ UNCHANGED <<up, crashes, sent, cancelling, cancelledAt>>

\* Mutant: the row is saved whole, with the status it was loaded with.
RecordWholeRow(x) ==
    /\ up
    /\ task[x] = "ack"
    /\ submitted' = [submitted EXCEPT ![x] = @ + 1]
    /\ status' = [status EXCEPT ![x] =
                     IF slice[x] > 0 /\ submitted[x] + 1 >= NSlices THEN "COMPLETED" ELSE "RUNNING"]
    /\ slice' = [slice EXCEPT ![x] = @ + 1]
    /\ GoTo(x, IF slice[x] + 1 < NSlices THEN "sleep" ELSE "ended")
    /\ UNCHANGED <<up, crashes, sent, cancelling, cancelledAt>>

\* The row counts the slice.  Only the task looks whether it was the last one,
\* and it does so on the row as it loaded it before the slice.
Record(x) ==
    /\ up
    /\ task[x] = "ack"
    /\ submitted' = [submitted EXCEPT ![x] = @ + 1]
    /\ status' = [status EXCEPT ![x] =
                     IF slice[x] > 0 /\ submitted[x] + 1 >= NSlices THEN "COMPLETED" ELSE @]
    /\ slice' = [slice EXCEPT ![x] = @ + 1]
    /\ GoTo(x, IF slice[x] + 1 < NSlices THEN "sleep" ELSE "ended")
    /\ UNCHANGED <<up, crashes, sent, cancelling, cancelledAt>>

\* Mutant: the task carries on with the slice that failed.
FailRetries(x) ==
    /\ up
    /\ task[x] \in {"send", "ack"}
    /\ GoTo(x, "sleep")
    /\ UNCHANGED <<status, up, crashes, submitted, slice, sent, cancelling, cancelledAt>>

\* Mutant: the row gets the trade's error state, not one of its own.
FailAsTrade(x) ==
    /\ up
    /\ task[x] \in {"send", "ack"}
    /\ status' = [status EXCEPT ![x] = IF slice[x] > 0 THEN "IBKR_ERROR" ELSE @]
    /\ GoTo(x, "ended")
    /\ UNCHANGED <<up, crashes, submitted, slice, sent, cancelling, cancelledAt>>

\* The placement raises, before or after the orders went out.  The task marks
\* the row FAILED; for the first slice the call ends and the row is left alone.
Fail(x) ==
    /\ up
    /\ task[x] \in {"send", "ack"}
    /\ status' = [status EXCEPT ![x] = IF slice[x] > 0 THEN "FAILED" ELSE @]
    /\ GoTo(x, "ended")
    /\ UNCHANGED <<up, crashes, submitted, slice, sent, cancelling, cancelledAt>>

\* cancel_twap finds the row RUNNING ...
CancelCheck(x) ==
    /\ up
    /\ status[x] = "RUNNING"
    /\ ~cancelling[x]
    /\ cancelling' = [cancelling EXCEPT ![x] = TRUE]
    /\ UNCHANGED <<up, crashes, status, submitted, task, slice, sent, cancelledAt>>

\* ... and commits CANCELLED.
CancelCommit(x) ==
    /\ up
    /\ cancelling[x]
    /\ status' = [status EXCEPT ![x] = "CANCELLED"]
    /\ cancelling' = [cancelling EXCEPT ![x] = FALSE]
    /\ cancelledAt' = [cancelledAt EXCEPT ![x] = IF @ = Never THEN sent[x] ELSE @]
    /\ UNCHANGED <<up, crashes, submitted, task, slice, sent>>

\* The process dies with its tasks; the row and the orders stay.
Crash ==
    /\ up
    /\ crashes < MaxCrashes
    /\ up' = FALSE
    /\ crashes' = crashes + 1
    /\ task' = [x \in Twaps |-> IF task[x] \in {"sleep", "send", "ack"} THEN "killed"
                                ELSE task[x]]
    /\ cancelling' = [x \in Twaps |-> FALSE]
    /\ UNCHANGED <<status, submitted, slice, sent, cancelledAt>>

\* The process starts again.  No unfinished execution is picked up.
Boot ==
    /\ ~up
    /\ up' = TRUE
    /\ UNCHANGED <<crashes, status, submitted, task, slice, sent, cancelling, cancelledAt>>

\* What the coroutine of x does next.
TwapStep(x) == Wake(x) \/ Send(x) \/ Record(x) \/ Fail(x)

TwapNext ==
    \/ \E x \in Twaps : Plan(x) \/ TwapStep(x) \/ CancelCheck(x) \/ CancelCommit(x)
    \/ Crash \/ Boot

TwapSpec == TwapInit /\ [][TwapNext]_twapVars

-----------------------------------------------------------------------------
\* Properties.

TwapTypeOK ==
    /\ up \in BOOLEAN /\ crashes \in Nat
    /\ status \in [Twaps -> Status]
    /\ submitted \in [Twaps -> Nat]
    /\ task \in [Twaps -> Task]
    /\ slice \in [Twaps -> Nat]
    /\ sent \in [Twaps -> Nat]
    /\ cancelling \in [Twaps -> BOOLEAN]
    /\ cancelledAt \in [Twaps -> Nat \cup {Never}]

\* No execution buys more than was planned, whatever fails, is cancelled or dies,
\* and the row misses at most the one slice whose acknowledgement never came.
SlicesBounded ==
    \A x \in Twaps :
        /\ sent[x] <= NSlices
        /\ submitted[x] <= sent[x]
        /\ sent[x] > submitted[x] =>
              sent[x] = submitted[x] + 1 /\ task[x] \in {"ack", "ended", "killed"}

\* COMPLETED stands for every slice, sent and counted.
CompletedIsWhole ==
    \A x \in Twaps :
        status[x] = "COMPLETED" => submitted[x] = NSlices /\ sent[x] = NSlices

\* After a cancellation only the slice that was past the status check goes out
\* (cancel_twap: "Stop future TWAP slices").
CancelStops ==
    \A x \in Twaps : cancelledAt[x] # Never => sent[x] <= cancelledAt[x] + 1

\* A row is taken out of CANCELLED only by a slice in flight, as the last one or as
\* one that fails; the row's status is never a reason to start another slice.
CancelledStays ==
    [][\A x \in Twaps :
          status[x] = "CANCELLED" /\ status'[x] # "CANCELLED" =>
              /\ task[x] \in {"send", "ack"} /\ task'[x] = "ended"
              /\ status'[x] \in {"COMPLETED", "FAILED"}]_twapVars

\* Without a crash the coroutine of an execution comes to its end.
TasksEnd ==
    \A x \in Twaps : (task[x] \in {"sleep", "send", "ack"}) ~> (task[x] \in {"ended", "killed"})
================================================================================
