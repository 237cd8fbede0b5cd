------------------------------- MODULE Lifecycle ------------------------------
(****************************************************************************)
(* One process of the API (server.RunContext) or of the worker              *)
(* (worker.RunContext): what it opens, in order, the requests or jobs it    *)
(* runs, and how it ends after a signal.  Every deferred Close runs when    *)
(* RunContext returns, however it returns, in reverse order; closing a pool *)
(* of connections waits for those in use.  The orchestrator starts the      *)
(* process again.                                                           *)
(****************************************************************************)
EXTENDS Naturals, Sequences, SequencesExt

CONSTANTS
  Tasks,            \* requests or jobs under way at once
  ShutdownTimeout,  \* APP_SHUTDOWN_TIMEOUT, in ticks
  SoftStopDivisor   \* softStopDivisor

\* softStopDivisor is 2: with 1, jobs would be told only when they are given up.
ASSUME LifecycleAssumption == ShutdownTimeout \in Nat \ {0} /\ SoftStopDivisor \in Nat \ {0, 1}

VARIABLES
  kind,       \* which of the two programs this is
  phase,      \* where RunContext is
  opened,     \* what it has opened and has yet to close
  signalled,  \* SIGINT or SIGTERM has come
  waited,     \* ticks since Shutdown or Stop was called
  task,       \* what each request or job does
  told,       \* the jobs whose context is cancelled
  result      \* what RunContext returns

lifeVars == <<kind, phase, opened, signalled, waited, task, told, result>>

Kinds == {"api", "worker"}
Boot == [api    |-> <<"tracing", "primary", "replica", "cache", "limiter">>,
         worker |-> <<"tracing", "primary">>]

Booted == IF opened = <<>> THEN 0 ELSE CHOOSE i \in 1..Len(Boot[kind]) : Boot[kind][i] = Last(opened)
Unfinished == {t \in Tasks : task[t] # "none"}
Closing(resource) == phase = "closing" /\ opened # <<>> /\ Last(opened) = resource

(****************************************************************************)
(* Boot.                                                                    *)
(****************************************************************************)
\* The replica is left out when it is not configured or does not answer.
Open ==
  /\ phase = "booting"
  /\ \E i \in {Booted + 1, Booted + 2} :
       /\ i <= Len(Boot[kind])
       /\ i = Booted + 2 => Boot[kind][Booted + 1] = "replica"
       /\ opened' = Append(opened, Boot[kind][i])
  /\ UNCHANGED <<kind, phase, signalled, waited, task, told, result>>

Return(err) ==
  /\ phase' = "closing" /\ result' = err
  /\ UNCHANGED <<kind, opened, signalled, waited, task, told>>

\* The configuration, a connection or the wiring.
BootFails == phase = "booting" /\ Return("error")

Start ==
  /\ phase = "booting" /\ Booted = Len(Boot[kind])
  /\ phase' = "serving"
  /\ UNCHANGED <<kind, opened, signalled, waited, task, told, result>>

\* ListenAndServe returns: whatever runs is left alone.
ServeFails == phase = "serving" /\ kind = "api" /\ Return("error")

(****************************************************************************)
(* Requests and jobs.                                                       *)
(****************************************************************************)
\* A server accepts until Shutdown, a worker fetches until the signal.
Accepts == phase = "serving" /\ (kind = "worker" => ~signalled)

BeginTask(t) ==
  /\ Accepts /\ task[t] = "none"
  /\ task' = [task EXCEPT ![t] = "running"]
  /\ UNCHANGED <<kind, phase, opened, signalled, waited, told, result>>

\* A transaction, or a statement of its own, holds a connection of the primary, and a
\* read one of the replica, if there is one; a pool that is being closed hands out none.
Query(t) ==
  /\ task[t] = "running" /\ Contains(opened, "primary") /\ ~Closing("primary")
  /\ task' = [task EXCEPT ![t] = "querying"]
  /\ UNCHANGED <<kind, phase, opened, signalled, waited, told, result>>

Read(t) ==
  /\ task[t] = "running" /\ Contains(opened, "replica") /\ ~Closing("replica")
  /\ task' = [task EXCEPT ![t] = "reading"]
  /\ UNCHANGED <<kind, phase, opened, signalled, waited, told, result>>

\* Shutdown does not cancel it, and REPLICA_DATABASE_URL sets no timeout of its own.
EndRead(t) ==
  /\ task[t] = "reading" /\ phase # "exited"
  /\ task' = [task EXCEPT ![t] = "running"]
  /\ UNCHANGED <<kind, phase, opened, signalled, waited, told, result>>

\* It is committed, or ended by the timeouts of the database.
EndQuery(t) ==
  /\ task[t] = "querying" /\ phase # "exited"
  /\ task' = [task EXCEPT ![t] = "running"]
  /\ UNCHANGED <<kind, phase, opened, signalled, waited, told, result>>

Finish(t) ==
  /\ task[t] = "running" /\ phase # "exited"
  /\ task' = [task EXCEPT ![t] = "none"]
  /\ told' = told \ {t}
  /\ UNCHANGED <<kind, phase, opened, signalled, waited, result>>

(****************************************************************************)
(* Shutdown.                                                                *)
(****************************************************************************)
Signal ==
  /\ phase \in {"booting", "serving"} /\ ~signalled
  /\ signalled' = TRUE
  /\ UNCHANGED <<kind, phase, opened, waited, task, told, result>>

Shutdown ==
  /\ phase = "serving" /\ signalled
  /\ phase' = "stopping" /\ waited' = 0
  /\ UNCHANGED <<kind, opened, signalled, task, told, result>>

SoftStopAt == ShutdownTimeout \div SoftStopDivisor

ToBeTold == kind = "worker" /\ waited = SoftStopAt /\ ~(Unfinished \subseteq told)

WaitTick ==
  /\ phase = "stopping" /\ waited < ShutdownTimeout
  /\ ~ToBeTold
  /\ waited' = waited + 1
  /\ UNCHANGED <<kind, phase, opened, signalled, task, told, result>>

\* SoftStopTimeout: River cancels the contexts of the jobs that are still running.
SoftStop ==
  /\ phase = "stopping" /\ ToBeTold
  /\ told' = Unfinished
  /\ UNCHANGED <<kind, phase, opened, signalled, waited, task, result>>

Drained == phase = "stopping" /\ Unfinished = {} /\ Return("nil")

TimesOut_Never == FALSE /\ Return("error")
TimesOut == phase = "stopping" /\ waited = ShutdownTimeout /\ Unfinished # {} /\ Return("error")

CloseLast_Abrupt ==
  /\ phase = "closing" /\ opened # <<>>
  /\ opened' = Front(opened)
  /\ UNCHANGED <<kind, phase, signalled, waited, task, told, result>>

CloseLast ==
  /\ phase = "closing" /\ opened # <<>>
  /\ Closing("primary") => \A t \in Tasks : task[t] # "querying"
  /\ Closing("replica") => \A t \in Tasks : task[t] # "reading"
  /\ opened' = Front(opened)
  /\ UNCHANGED <<kind, phase, signalled, waited, task, told, result>>

Exit ==
  /\ phase = "closing" /\ opened = <<>>
  /\ phase' = "exited"
  /\ UNCHANGED <<kind, opened, signalled, waited, task, told, result>>

Restart ==
  /\ phase = "exited"
  /\ phase' = "booting" /\ signalled' = FALSE /\ waited' = 0 /\ result' = "none"
  /\ task' = [t \in Tasks |-> "none"] /\ told' = {}
  /\ UNCHANGED <<kind, opened>>

LifeInit ==
  /\ kind \in Kinds /\ phase = "booting" /\ opened = <<>>
  /\ signalled = FALSE /\ waited = 0 /\ result = "none"
  /\ task = [t \in Tasks |-> "none"] /\ told = {}

RunTask(t) == BeginTask(t) \/ Query(t) \/ EndQuery(t) \/ Read(t) \/ EndRead(t) \/ Finish(t)

LifeNext ==
  \/ Open \/ BootFails \/ Start \/ ServeFails
  \/ \E t \in Tasks : RunTask(t)
  \/ Signal \/ Shutdown \/ WaitTick \/ SoftStop \/ Drained \/ TimesOut \/ CloseLast \/ Exit \/ Restart

\* RunContext goes on, time passes, River cancels, and the primary ends what a task
\* has begun there (statement_timeout, idle_in_transaction_session_timeout).  A request
\* or a job may hang for ever, and so may a read of the replica.
LifeFairness ==
  /\ WF_lifeVars(Open) /\ WF_lifeVars(Start) /\ WF_lifeVars(Shutdown) /\ WF_lifeVars(WaitTick)
  /\ WF_lifeVars(SoftStop) /\ WF_lifeVars(Drained \/ TimesOut)
  /\ WF_lifeVars(CloseLast) /\ WF_lifeVars(Exit)
  /\ \A t \in Tasks : WF_lifeVars(EndQuery(t))

LifeSpec == LifeInit /\ [][LifeNext]_lifeVars /\ LifeFairness
-----------------------------------------------------------------------------
LifeTypeOK ==
  /\ kind \in Kinds
  /\ phase \in {"booting", "serving", "stopping", "closing", "exited"}
  /\ Range(opened) \subseteq Range(Boot[kind])
  /\ signalled \in BOOLEAN /\ waited \in 0..ShutdownTimeout
  /\ task \in [Tasks -> {"none", "running", "querying", "reading"}]
  /\ told \subseteq Tasks /\ result \in {"none", "nil", "error"}

\* A process that reports a graceful stop has finished every request and every job
\* it had begun (RunContext).
GracefulMeansIdle == result = "nil" => Unfinished = {}

\* However RunContext returns, also when it stops waiting for a request, the process
\* ends only after the transactions and the reads it had begun are over.
NoQueryCut == phase = "exited" => \A t \in Tasks : task[t] \notin {"querying", "reading"}

\* A worker that gives up on a job has cancelled its context before, so that the job
\* could end by itself (softStopDivisor).
ToldBeforeAbandoned == kind = "worker" /\ result = "error" => Unfinished \subseteq told

\* However a process ends, nothing is cut short behind its back.
OrderlyExit == GracefulMeansIdle /\ NoQueryCut /\ ToldBeforeAbandoned

\* A process that is signalled ends, though a request or a job hangs for ever between
\* its statements, if the replica, whose pool is closed before the primary's, answers
\* each read in the end: nothing here makes it (RunContext, ReplicaPoolOptions).
ReplicaAnswers == \A t \in Tasks : []<>(task[t] # "reading")
ExitsAfterSignal == ReplicaAnswers => (signalled ~> phase = "exited")
===============================================================================
