---------------------------- MODULE CircuitBreaker ----------------------------
(****************************************************************************)
(* The circuit breaker of the cache's Redis client                          *)
(* (platform/redis/circuit_breaker.go).  The client asks Allow before each  *)
(* command and calls ReportResult when an allowed command has ended; both   *)
(* hold the mutex, so each is one action.  The commands are the client's    *)
(* goroutines; openUntil is kept as the time that remains until it, and the *)
(* clock is the action Tick.                                                *)
(****************************************************************************)
EXTENDS Naturals

CONSTANTS
  Commands,   \* the commands that may be under way at once (the pool)
  Threshold,  \* circuitThreshold
  Cooldown,   \* circuitCooldown, in ticks
  Timeout     \* the longest a command takes from Allow to its report, in ticks

ASSUME ThresholdAssumption == Threshold \in Nat \ {0}
ASSUME CooldownAssumption  == Cooldown \in Nat \ {0}
ASSUME TimeoutAssumption   == Timeout \in Nat

VARIABLES
  failures,   \* consecutive failures
  probing,    \* the flag of that name
  open,       \* ~openUntil.IsZero()
  remaining,  \* while open: openUntil - now, and 0 once that has passed
  cmd,        \* what each command was allowed as
  age         \* how long ago it was allowed

breakerVars == <<failures, probing, open, remaining>>
vars == <<failures, probing, open, remaining, cmd, age>>

Underway(c) == cmd[c] # "idle"

Init ==
  /\ failures = 0 /\ probing = FALSE /\ open = FALSE /\ remaining = 0
  /\ cmd = [c \in Commands |-> "idle"]
  /\ age = [c \in Commands |-> 0]

Begin(c, kind) ==
  /\ ~Underway(c)
  /\ cmd' = [cmd EXCEPT ![c] = kind]
  /\ age' = [age EXCEPT ![c] = 0]

End(c) ==
  /\ Underway(c)
  /\ cmd' = [cmd EXCEPT ![c] = "idle"]
  /\ age' = [age EXCEPT ![c] = 0]

(****************************************************************************)
(* Allow: closed, everything passes; open, nothing does until the cooldown  *)
(* is over, and then the one command that re-arms it.                       *)
(****************************************************************************)
AllowClosed(c) ==
  /\ ~open
  /\ Begin(c, "normal")
  /\ UNCHANGED breakerVars

AllowProbe_Unarmed(c) ==
  /\ open /\ remaining = 0
  /\ Begin(c, "probe")
  /\ probing' = TRUE
  /\ UNCHANGED <<failures, open, remaining>>

AllowProbe_Unmarked(c) ==
  /\ open /\ remaining = 0
  /\ Begin(c, "probe")
  /\ remaining' = Cooldown
  /\ UNCHANGED <<failures, open, probing>>

AllowProbe(c) ==
  /\ open /\ remaining = 0
  /\ Begin(c, "probe")
  /\ remaining' = Cooldown
  /\ probing'   = TRUE
  /\ UNCHANGED <<failures, open>>

(****************************************************************************)
(* ReportResult.                                                            *)
(****************************************************************************)
Close == probing' = FALSE /\ open' = FALSE /\ remaining' = 0

Reply_AlwaysCloses(c) == End(c) /\ failures' = 0 /\ Close

\* The server answered, with a value or with an error of its own.  The code knows
\* that a probe was let through, not that this report is the probe's.
Reply(c) ==
  /\ End(c)
  /\ failures' = 0
  /\ IF probing THEN Close ELSE UNCHANGED <<probing, open, remaining>>

\* The caller hung up.  A probe that was cancelled leaves probing set.
Cancelled(c) == End(c) /\ UNCHANGED breakerVars

Failure_KeepsStreak(c) ==
  /\ End(c)
  /\ probing'  = FALSE
  /\ failures' = failures + 1
  /\ IF failures' >= Threshold
     THEN open' = TRUE /\ remaining' = Cooldown
     ELSE UNCHANGED <<open, remaining>>

\* No answer: a refused or a timed out connection, or no connection in the pool.
Failure(c) ==
  /\ End(c)
  /\ probing' = FALSE
  /\ IF failures + 1 >= Threshold
     THEN failures' = 0 /\ open' = TRUE /\ remaining' = Cooldown
     ELSE failures' = failures + 1 /\ UNCHANGED <<open, remaining>>

Report(c) == Reply(c) \/ Cancelled(c) \/ Failure(c)

\* Time passes, but no command outlives the client's timeouts.
Tick ==
  /\ \A c \in Commands : Underway(c) => age[c] < Timeout
  /\ remaining > 0 \/ \E c \in Commands : Underway(c)
  /\ remaining' = IF remaining > 0 THEN remaining - 1 ELSE 0
  /\ age' = [c \in Commands |-> IF Underway(c) THEN age[c] + 1 ELSE 0]
  /\ UNCHANGED <<failures, probing, open, cmd>>

Next ==
  \/ Tick
  \/ \E c \in Commands : AllowClosed(c) \/ AllowProbe(c) \/ Report(c)

Spec == Init /\ [][Next]_vars

\* Commands end within their timeouts, the clock runs, and the cache is used: the
\* caller after an expired cooldown does come.
FairSpec ==
  /\ Spec
  /\ WF_vars(Tick)
  /\ WF_vars(\E c \in Commands : AllowProbe(c))
  /\ \A c \in Commands : WF_vars(Report(c))

(****************************************************************************)
(* Properties.                                                              *)
(****************************************************************************)
\* The types; a streak that reached the threshold has tripped and starts again.
TypeOK ==
  /\ failures \in 0..(Threshold - 1)
  /\ probing \in BOOLEAN
  /\ open \in BOOLEAN
  /\ remaining \in 0..Cooldown
  /\ cmd \in [Commands -> {"idle", "normal", "probe"}]
  /\ age \in [Commands -> 0..Timeout]

\* An expired cooldown releases one request and not the herd behind it: nothing
\* else is under way while a probe is.
ProbeRunsAlone ==
  \A c, d \in Commands : cmd[c] = "probe" /\ Underway(d) => c = d

\* Only the report of a probe ends a cooldown, whatever other commands answer and
\* however late (the comment in ReportResult).
OnlyProbeCloses ==
  [][open /\ ~open' => \E c \in Commands : cmd[c] = "probe" /\ cmd'[c] = "idle"]_vars

\* A breaker does not stay open when the server is back: unless from some time on
\* every probe fails or is cancelled, an open breaker closes.  A probe that was
\* cancelled costs a cooldown and no more.
Recovers ==
  SF_vars(\E c \in Commands : cmd[c] = "probe" /\ Reply(c)) => (open ~> ~open)
===============================================================================
