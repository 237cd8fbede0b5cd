------------------------------ MODULE RefundJob ------------------------------
(****************************************************************************)
(* River's payment.refund jobs, one per payment because RefundArgs are      *)
(* unique by arguments and queue.  River itself is a library: its states    *)
(* and its retry, rescue and uniqueness rules are modelled from how         *)
(* payment/adapter/jobs and internal/worker configure and use it.           *)
(****************************************************************************)
EXTENDS Payment, Naturals

CONSTANT MaxAttempts  \* RefundArgs.InsertOpts().MaxAttempts

ASSUME AttemptsAssumption == MaxAttempts \in Nat \ {0}

VARIABLES
  job,      \* the state of the payment's refund job
  attempts  \* how often it was fetched

jobVars == <<job, attempts>>

\* "available" stands for available, scheduled, retryable and pending: waiting
\* for a worker.  A deleted completed job is "none" again.
JobStates == {"none", "available", "running", "completed", "cancelled", "discarded"}

\* The states whose row makes a second insert with the same arguments a no-op.
UniqueStates == {"available", "running", "completed"}

Enqueue(p) ==
  IF job[p] \in UniqueStates
  THEN UNCHANGED jobVars
  ELSE /\ job'      = [job EXCEPT ![p] = "available"]
       /\ attempts' = [attempts EXCEPT ![p] = 0]

Fetch(p) ==
  /\ job[p] = "available"
  /\ job'      = [job EXCEPT ![p] = "running"]
  /\ attempts' = [attempts EXCEPT ![p] = @ + 1]

\* An attempt that failed, or was rescued: retried until MaxAttempts.
RetryOrDiscard_Forever(p) ==
  /\ job' = [job EXCEPT ![p] = "available"]
  /\ attempts' = [attempts EXCEPT ![p] = 0]

RetryOrDiscard(p) ==
  /\ job' = [job EXCEPT ![p] = IF attempts[p] < MaxAttempts THEN "available"
                                                            ELSE "discarded"]
  /\ UNCHANGED attempts

EndJob(p, s) ==
  /\ job' = [job EXCEPT ![p] = s]
  /\ UNCHANGED attempts

\* CancelPendingForOrder: cancels the order's jobs that no worker has fetched.
CancelJobsOf(o) ==
  /\ job' = [p \in Payments |-> IF porder[p] = o /\ job[p] = "available"
                                THEN "cancelled" ELSE job[p]]
  /\ UNCHANGED attempts

JobInit ==
  /\ job      = [p \in Payments |-> "none"]
  /\ attempts = [p \in Payments |-> 0]

JobTypeOK ==
  /\ job      \in [Payments -> JobStates]
  /\ attempts \in [Payments -> Nat]
==============================================================================
