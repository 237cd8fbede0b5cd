------------------------------- MODULE MCPlatform ------------------------------
(****************************************************************************)
(* What the service keeps in Redis and in its own memory: the circuit       *)
(* breaker of the Redis client, the limiter that takes over when Redis is   *)
(* away, the read-through cache and the counter of unread notifications;    *)
(* and the life of one of its processes, from its start to its end after a  *)
(* signal.  They share no state, so each behaviour follows one of them,     *)
(* chosen at the start, while the others rest.                              *)
(****************************************************************************)
EXTENDS CircuitBreaker, RateLimit, ReadThrough, Notification, Lifecycle

CONSTANT v1  \* the value the row of an unfocused cache has

VARIABLE focus

platformVars == <<focus, vars, limitVars, cacheVars, noteVars, lifeVars>>

\* A process that has ended, after a boot that failed.
NotRunning ==
  /\ kind = "api" /\ phase = "exited" /\ opened = <<>>
  /\ signalled = FALSE /\ waited = 0 /\ result = "error"
  /\ task = [t \in Tasks |-> "none"] /\ told = {}

PlatformInit ==
  /\ focus \in {"breaker", "limiter", "cache", "notifications", "lifecycle"}
  /\ CacheInit /\ (focus # "cache" => row = v1)
  /\ Init /\ LimitInit /\ NoteInit
  /\ IF focus = "lifecycle" THEN LifeInit ELSE NotRunning

PlatformNext ==
  /\ UNCHANGED focus
  /\ \/ focus = "breaker" /\ Next /\ UNCHANGED <<limitVars, cacheVars, noteVars, lifeVars>>
     \/ focus = "limiter" /\ LimitNext /\ UNCHANGED <<vars, cacheVars, noteVars, lifeVars>>
     \/ focus = "cache" /\ CacheNext /\ UNCHANGED <<vars, limitVars, noteVars, lifeVars>>
     \/ focus = "notifications" /\ NoteNext /\ UNCHANGED <<vars, limitVars, cacheVars, lifeVars>>
     \/ focus = "lifecycle" /\ LifeNext /\ UNCHANGED <<vars, limitVars, cacheVars, noteVars>>

\* Commands end within their timeouts, the clock runs and the cache is used, as in
\* FairSpec; the worker works, as in NoteFairness; and RunContext goes on, as in
\* LifeFairness.  None of these actions is enabled in a part that rests.
PlatformSpec ==
  /\ PlatformInit /\ [][PlatformNext]_platformVars
  /\ WF_vars(Tick)
  /\ WF_vars(\E c \in Commands : AllowProbe(c))
  /\ \A c \in Commands : WF_vars(Report(c))
  /\ NoteFairness /\ LifeFairness

\* The types of every part's state, and the bounds of the breaker's streak and of the
\* limiter's map.
PlatformTypeOK == TypeOK /\ LimitTypeOK /\ CacheTypeOK /\ NoteTypeOK /\ LifeTypeOK
===============================================================================
