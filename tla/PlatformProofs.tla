----------------------------- MODULE PlatformProofs ----------------------------
(****************************************************************************)
(* Theorems about the platform: Lifecycle, for any number of requests or    *)
(* jobs and any timeout, ReadThrough, for any number of processes, values   *)
(* and times to live, Notification, for any finite set of rows,             *)
(* CircuitBreaker, for any number of commands and any threshold, cooldown   *)
(* and timeout, RateLimit, for any finite set of callers, any limit, window *)
(* and size of the map, and MCPlatform, which composes them.                *)
(****************************************************************************)
EXTENDS MCPlatform, CountingTheorems, FiniteSetTheorems, TLAPS

-----------------------------------------------------------------------------
(****************************************************************************)
(* Lifecycle.  Three things carry OrderlyExit: who runs a query holds its   *)
(* pool open, nothing runs while the process boots, and past the soft    *)
(* stop every job that is left has been told.                               *)
(****************************************************************************)
Resources == {"tracing", "primary", "replica", "cache", "limiter"}

\* The types of a process.
LifeShape ==
  /\ kind \in Kinds /\ phase \in {"booting", "serving", "stopping", "closing", "exited"}
  /\ opened \in Seq(Resources)
  /\ waited \in 0..ShutdownTimeout
  /\ task \in [Tasks -> {"none", "running", "querying", "reading"}]
  /\ result \in {"none", "nil", "error"}

TasksHoldPools ==
  \A t \in Tasks : /\ task[t] = "querying" => Contains(opened, "primary")
                   /\ task[t] = "reading" => Contains(opened, "replica")

ShutdownOrder ==
  /\ phase = "booting" =>
       Unfinished = {} /\ (opened # <<>> => \E i \in 1..Len(Boot[kind]) : Boot[kind][i] = Last(opened))
  /\ result # "none" => phase \in {"closing", "exited"}
  /\ kind = "worker" /\ phase = "stopping" /\ waited > SoftStopAt => Unfinished \subseteq told
  /\ phase = "exited" => opened = <<>>

LifeInv == LifeShape /\ TasksHoldPools /\ ShutdownOrder /\ OrderlyExit

\* The soft stop comes before the end of the wait.
LEMMA SoftStopComesFirst == SoftStopAt \in Nat /\ SoftStopAt < ShutdownTimeout
<1> DEFINE q == ShutdownTimeout \div SoftStopDivisor
           r == ShutdownTimeout % SoftStopDivisor
<1>1. q \in Nat /\ r \in Nat /\ ShutdownTimeout = SoftStopDivisor * q + r
  BY LifecycleAssumption
<1>2. SoftStopDivisor * q >= 2 * q
  BY <1>1, LifecycleAssumption
<1>3. q < ShutdownTimeout
  BY <1>1, <1>2, LifecycleAssumption
<1>. QED  BY <1>1, <1>3 DEF SoftStopAt

\* What a process opens is one of its resources.
LEMMA BootResources == \A k \in Kinds : Len(Boot[k]) \in Nat /\ \A i \in 1..Len(Boot[k]) : Boot[k][i] \in Resources
<1>1. ASSUME NEW k \in Kinds PROVE Boot[k] \in Seq(Resources)
  <2>1. CASE k = "api"
    <3>1. Boot[k] = <<"tracing", "primary", "replica", "cache", "limiter">>
      BY <2>1 DEF Boot
    <3>. QED  BY <3>1 DEF Resources
  <2>2. CASE k = "worker"
    <3>1. Boot[k] = <<"tracing", "primary">>
      BY <2>2 DEF Boot
    <3>. QED  BY <3>1 DEF Resources
  <2>. QED  BY <1>1, <2>1, <2>2 DEF Kinds
<1>. QED  BY <1>1

\* Closing the last resource leaves a pool open, unless it is the last.
LEMMA CloseKeepsOthers ==
  ASSUME NEW s \in Seq(Resources), s # <<>>
  PROVE  /\ Front(s) \in Seq(Resources)
         /\ \A pool \in Resources : Contains(s, pool) => Contains(Front(s), pool) \/ Last(s) = pool
BY DEF Front, Last, Contains

\* What is opened joins what was.
LEMMA OpenKeepsOthers ==
  ASSUME NEW s \in Seq(Resources), NEW e \in Resources
  PROVE  /\ Append(s, e) \in Seq(Resources)
         /\ \A pool \in Resources : Contains(s, pool) => Contains(Append(s, e), pool)
BY DEF Contains

\* A process starts with nothing open and nothing to do.
LEMMA LifeInitInv == LifeInit => LifeInv
BY LifecycleAssumption
   DEF LifeInit, LifeInv, LifeShape, TasksHoldPools, ShutdownOrder, OrderlyExit, GracefulMeansIdle,
       NoQueryCut, ToldBeforeAbandoned, Unfinished

\* Opening and closing.
LEMMA ResourceSteps ==
  ASSUME LifeInv, Open \/ CloseLast
  PROVE  LifeInv'
<1> USE DEF LifeInv, LifeShape
<1>1. CASE Open
  <2>1. Booted \in Nat
    <3>1. CASE opened = <<>>
      BY <3>1 DEF Booted
    <3>2. CASE opened # <<>>
      <4>1. \E i \in 1..Len(Boot[kind]) : Boot[kind][i] = Last(opened)
        BY <1>1, <3>2 DEF Open, ShutdownOrder
      <4>2. Booted \in 1..Len(Boot[kind])
        BY <3>2, <4>1 DEF Booted
      <4>. QED  BY <4>2, BootResources
    <3>. QED  BY <3>1, <3>2
  <2>2. PICK i \in {Booted + 1, Booted + 2} : i <= Len(Boot[kind]) /\ opened' = Append(opened, Boot[kind][i])
    BY <1>1 DEF Open
  <2>3. i \in 1..Len(Boot[kind]) /\ Boot[kind][i] \in Resources
    BY <2>1, <2>2, BootResources
  <2>4. opened' \in Seq(Resources) /\ TasksHoldPools'
    BY <1>1, <2>2, <2>3, OpenKeepsOthers DEF Open, TasksHoldPools, Resources
  <2>5. Last(opened') = Boot[kind'][i] /\ i \in 1..Len(Boot[kind'])
    BY <1>1, <2>2, <2>3 DEF Open, Last
  <2>. QED  BY <1>1, <2>4, <2>5 DEF Open, ShutdownOrder, OrderlyExit, GracefulMeansIdle, NoQueryCut,
                ToldBeforeAbandoned, Unfinished, SoftStopAt
<1>2. CASE CloseLast
  <2>1. opened' \in Seq(Resources)
    BY <1>2, CloseKeepsOthers DEF CloseLast
  <2>2. TasksHoldPools'
    BY <1>2, CloseKeepsOthers DEF CloseLast, Closing, TasksHoldPools, Resources
  <2>. QED  BY <1>2, <2>1, <2>2 DEF CloseLast, ShutdownOrder, OrderlyExit, GracefulMeansIdle, NoQueryCut,
                ToldBeforeAbandoned, Unfinished, SoftStopAt
<1>. QED  BY <1>1, <1>2

\* Requests and jobs.
LEMMA TaskSteps ==
  ASSUME LifeInv, NEW t \in Tasks, RunTask(t)
  PROVE  LifeInv'
<1> USE DEF LifeInv, LifeShape, TasksHoldPools, ShutdownOrder, OrderlyExit, GracefulMeansIdle,
            NoQueryCut, ToldBeforeAbandoned, Unfinished, SoftStopAt
<1>1. CASE BeginTask(t)
  BY <1>1 DEF BeginTask, Accepts
<1>2. CASE Query(t)
  BY <1>2 DEF Query, Contains
<1>3. CASE EndQuery(t)
  BY <1>3 DEF EndQuery
<1>4. CASE Finish(t)
  BY <1>4 DEF Finish
<1>5. CASE Read(t)
  BY <1>5 DEF Read, Contains
<1>6. CASE EndRead(t)
  BY <1>6 DEF EndRead
<1>. QED  BY <1>1, <1>2, <1>3, <1>4, <1>5, <1>6 DEF RunTask

\* From the signal to the exit.
LEMMA ShutdownSteps ==
  ASSUME LifeInv,
         BootFails \/ Start \/ ServeFails \/ Signal \/ Shutdown \/ WaitTick \/ SoftStop \/ Drained \/ TimesOut
         \/ Exit \/ Restart
  PROVE  LifeInv'
<1> USE DEF LifeInv, LifeShape, TasksHoldPools, ShutdownOrder, OrderlyExit, GracefulMeansIdle,
            NoQueryCut, ToldBeforeAbandoned, Unfinished
<1>1. CASE BootFails \/ ServeFails \/ Start \/ Signal
  BY <1>1 DEF BootFails, ServeFails, Return, Start, Signal, SoftStopAt
<1>2. CASE Shutdown
  BY <1>2, SoftStopComesFirst, LifecycleAssumption DEF Shutdown
<1>3. CASE WaitTick
  <2>1. waited' = waited + 1 /\ waited < ShutdownTimeout
    BY <1>3 DEF WaitTick
  <2>2. kind = "worker" /\ waited' > SoftStopAt => Unfinished \subseteq told
    BY <1>3, <2>1, SoftStopComesFirst DEF WaitTick, ToBeTold
  <2>. QED  BY <1>3, <2>1, <2>2, LifecycleAssumption DEF WaitTick, SoftStopAt
<1>4. CASE SoftStop
  BY <1>4 DEF SoftStop
<1>5. CASE Drained
  BY <1>5 DEF Drained, Return
<1>6. CASE TimesOut
  BY <1>6, SoftStopComesFirst DEF TimesOut, Return
<1>7. CASE Exit
  BY <1>7 DEF Exit, Contains
<1>8. CASE Restart
  BY <1>8, LifecycleAssumption DEF Restart
<1>. QED  BY <1>1, <1>2, <1>3, <1>4, <1>5, <1>6, <1>7, <1>8

\* So does every step of a process.
LEMMA LifeStepInv == LifeInv /\ [LifeNext]_lifeVars => LifeInv'
<1>. SUFFICES ASSUME LifeInv, [LifeNext]_lifeVars  PROVE LifeInv'
  OBVIOUS
<1>1. CASE UNCHANGED lifeVars
  BY <1>1 DEF lifeVars, LifeInv, LifeShape, TasksHoldPools, ShutdownOrder, OrderlyExit, GracefulMeansIdle,
              NoQueryCut, ToldBeforeAbandoned, Unfinished, SoftStopAt
<1>. QED  BY <1>1, ResourceSteps, TaskSteps, ShutdownSteps DEF LifeNext

\* However a process of either kind ends, also one that stops waiting: a graceful end has
\* finished all it began, no transaction and no read is cut, and a job that is given up was told
\* before (server.RunContext, worker.RunContext).
THEOREM OrderlyExitHolds == LifeSpec => []OrderlyExit
<1>1. LifeInv => OrderlyExit
  BY DEF LifeInv
<1>. QED  BY <1>1, LifeInitInv, LifeStepInv, PTL DEF LifeSpec

-----------------------------------------------------------------------------
(****************************************************************************)
(* ReadThrough.  BoundedStaleness is inductive once the row itself is known *)
(* to be fresh: a flight reads what is true and ages with its answer, an    *)
(* entry ages with what it says, and a clock that stops at MaxFalse only    *)
(* errs on the safe side.                                                   *)
(****************************************************************************)
RowIsFresh == falseFor[row] = 0

\* There is one entry at most.
OneEntry == \A e, f \in entry : e = f

CacheInv == CacheTypeOK /\ RowIsFresh /\ OneEntry /\ BoundedStaleness

\* The inputs of the bounds are numbers.
LEMMA ClockFacts ==
  /\ FlightTime \in Nat /\ Jitter \in Nat /\ MaxFalse \in Nat /\ AbsentTtl \in Nat \ {0}
  /\ \A v : LongestTtl(v) \subseteq Nat
BY CacheAssumption DEF LongestTtl

\* Nothing is cached at first.
LEMMA CacheInitInv == CacheInit => CacheInv
<1> SUFFICES ASSUME CacheInit PROVE CacheInv
  OBVIOUS
<1>1. CacheTypeOK
  BY ClockFacts, CacheAssumption DEF CacheInit, CacheTypeOK, NoFlight, Facts, Clock
<1>2. RowIsFresh /\ OneEntry /\ BoundedStaleness
  BY DEF CacheInit, RowIsFresh, OneEntry, BoundedStaleness, InFlight, NoFlight
<1>. QED  BY <1>1, <1>2 DEF CacheInv

\* A flight that ends, or has yet to load, promises nothing; an entry that stays is as
\* bounded as before.
LEMMA FlightsOnly ==
  ASSUME CacheInv, UNCHANGED <<row, deleting, falseFor>>, entry' \in {entry, {}},
         flight' \in [Processes -> [step : {"none", "get", "load", "store"}, value : Facts, left : 0..FlightTime]],
         \A p \in Processes : InFlight(p, "store")' => flight'[p] = flight[p] \/ flight'[p].value = row
  PROVE  CacheInv'
<1> USE DEF CacheInv, CacheTypeOK
<1>1. RowIsFresh' /\ OneEntry' /\ CacheTypeOK'
  BY DEF RowIsFresh, OneEntry
<1>2. ASSUME NEW p \in Processes, InFlight(p, "store")'
      PROVE  falseFor'[flight'[p].value] + flight'[p].left <= FlightTime
  <2>1. flight'[p].left \in 0..FlightTime
    OBVIOUS
  <2>. QED  BY <1>2, <2>1, ClockFacts DEF BoundedStaleness, RowIsFresh, InFlight
<1>. QED  BY <1>1, <1>2 DEF BoundedStaleness

\* A flight that lands, or moves on, keeps its type.
LEMMA FlightTypes ==
  ASSUME CacheInv, NEW p \in Processes
  PROVE  LET F == [step : {"none", "get", "load", "store"}, value : Facts, left : 0..FlightTime] IN
         /\ NoFlight \in F /\ [step |-> "get", value |-> NoRowValue, left |-> FlightTime] \in F
         /\ [flight[p] EXCEPT !.step = "load"] \in F
         /\ [flight[p] EXCEPT !.step = "store", !.value = row] \in F
<1>1. flight[p] \in [step : {"none", "get", "load", "store"}, value : Facts, left : 0..FlightTime] /\ row \in Facts
  BY DEF CacheInv, CacheTypeOK
<1>2. NoRowValue \in Facts /\ FlightTime \in 0..FlightTime /\ 0 \in 0..FlightTime
  BY ClockFacts DEF Facts
<1>3. [flight[p] EXCEPT !.step = "load"] \in [step : {"none", "get", "load", "store"}, value : Facts, left : 0..FlightTime]
  BY <1>1
<1>4. [flight[p] EXCEPT !.step = "store", !.value = row] \in [step : {"none", "get", "load", "store"}, value : Facts, left : 0..FlightTime]
  BY <1>1
<1>. QED  BY <1>2, <1>3, <1>4 DEF NoFlight

\* What a flight stores is as old as its load, and lives for a time to live.
LEMMA Stores ==
  ASSUME CacheInv, NEW p \in Processes, InFlight(p, "store"), Land(p), UNCHANGED <<row, deleting, falseFor>>,
         NEW ttl \in LongestTtl(flight[p].value), NEW d \in Jittered(ttl), Put(flight[p].value, d)
  PROVE  CacheInv'
<1> USE DEF CacheInv, CacheTypeOK
<1>1. /\ flight[p].value \in Facts /\ flight[p].left \in Nat /\ falseFor[flight[p].value] \in Nat
      /\ ttl \in Nat /\ d \in Nat \ {0} /\ d <= ttl + Jitter
  BY ClockFacts DEF Jittered, Clock
<1>2. \A f \in entry' : f = [value |-> flight[p].value, left |-> d]
  BY DEF Put
<1>3. entry' \in SUBSET [value : Facts \cup {Garbage}, left : Nat \ {0}]
  BY <1>1, <1>2
<1>4. flight' \in [Processes -> [step : {"none", "get", "load", "store"}, value : Facts, left : 0..FlightTime]]
  BY FlightTypes DEF Land
<1>5. falseFor[flight[p].value] + flight[p].left <= FlightTime
  BY DEF BoundedStaleness
<1>6. ASSUME NEW f \in entry'
      PROVE  \E t \in LongestTtl(f.value) : falseFor'[f.value] + f.left <= FlightTime + t + Jitter
  <2>1. f.value = flight[p].value /\ f.left = d
    BY <1>2
  <2>2. falseFor[flight[p].value] + d <= FlightTime + ttl + Jitter
    BY <1>1, <1>5, ClockFacts
  <2>. QED  BY <2>1, <2>2
<1>7. ASSUME NEW q \in Processes, InFlight(q, "store")'
      PROVE  falseFor'[flight'[q].value] + flight'[q].left <= FlightTime
  <2>1. flight'[q] = flight[q]
    BY <1>7 DEF Land, InFlight, NoFlight
  <2>. QED  BY <1>7, <2>1 DEF BoundedStaleness, InFlight
<1>8. RowIsFresh' /\ OneEntry' /\ BoundedStaleness'
  BY <1>2, <1>6, <1>7 DEF RowIsFresh, OneEntry, BoundedStaleness
<1>. QED  BY <1>3, <1>4, <1>8

\* A reader's steps.
LEMMA ReaderSteps ==
  ASSUME CacheInv, NEW p \in Processes,
         Take(p) \/ Hit(p) \/ Miss(p) \/ Load(p) \/ FlightFails(p) \/ StoreAbsent(p)
         \/ \E ttl \in Ttls : StoreValue(p, ttl)
  PROVE  CacheInv'
<1> DEFINE F == [step : {"none", "get", "load", "store"}, value : Facts, left : 0..FlightTime]
<1>1. flight \in [Processes -> F]
  BY DEF CacheInv, CacheTypeOK
<1>2. ASSUME NEW f \in F, flight' = [flight EXCEPT ![p] = f], f.step = "store" => f.value = row,
             UNCHANGED <<row, deleting, falseFor>>, entry' \in {entry, {}}
      PROVE  CacheInv'
  <2>1. flight' \in [Processes -> F]
    BY <1>1, <1>2
  <2>2. \A q \in Processes : InFlight(q, "store")' => flight'[q] = flight[q] \/ flight'[q].value = row
    BY <1>1, <1>2 DEF InFlight
  <2>. QED  BY <1>2, <2>1, <2>2, FlightsOnly
<1>3. ASSUME Land(p), UNCHANGED <<row, deleting, falseFor>>, entry' \in {entry, {}} PROVE CacheInv'
  BY <1>2, <1>3, FlightTypes DEF Land, NoFlight
<1>4. CASE Take(p)
  BY <1>2, <1>4, FlightTypes DEF Take
<1>5. CASE Hit(p) \/ FlightFails(p)
  BY <1>3, <1>5 DEF Hit, FlightFails
<1>6. CASE Miss(p)
  <2>1. flight' = [flight EXCEPT ![p] = [flight[p] EXCEPT !.step = "load"]]
    BY <1>1, <1>6 DEF Miss
  <2>2. [flight[p] EXCEPT !.step = "load"].step # "store"
    BY <1>1
  <2>. QED  BY <1>2, <1>6, <2>1, <2>2, FlightTypes DEF Miss
<1>7. CASE Load(p)
  <2>1. flight' = [flight EXCEPT ![p] = [flight[p] EXCEPT !.step = "store", !.value = row]]
    BY <1>1, <1>7 DEF Load
  <2>2. [flight[p] EXCEPT !.step = "store", !.value = row].value = row
    BY <1>1
  <2>. QED  BY <1>2, <1>7, <2>1, <2>2, FlightTypes DEF Load
<1>8. CASE StoreAbsent(p)
  <2>1. CASE UNCHANGED entry
    BY <1>3, <1>8, <2>1 DEF StoreAbsent
  <2>2. ASSUME NEW d \in Jittered(AbsentTtl), Put(NoRowValue, d) PROVE CacheInv'
    BY <1>8, <2>2, Stores DEF StoreAbsent, LongestTtl
  <2>. QED  BY <1>8, <2>1, <2>2 DEF StoreAbsent
<1>9. ASSUME NEW ttl \in Ttls, StoreValue(p, ttl) PROVE CacheInv'
  <2>1. CASE UNCHANGED entry
    BY <1>3, <1>9, <2>1 DEF StoreValue
  <2>2. ASSUME NEW d \in Jittered(ttl), Put(flight[p].value, d) PROVE CacheInv'
    BY <1>9, <2>2, Stores DEF StoreValue, LongestTtl
  <2>. QED  BY <1>9, <2>1, <2>2 DEF StoreValue
<1>. QED  BY <1>4, <1>5, <1>6, <1>7, <1>8, <1>9

\* A commit makes one fact true, and none older.
LEMMA WriterSteps ==
  ASSUME CacheInv,
         (\E v \in Facts : WriteOnly(v) \/ WriteThrough(v)) \/ (\E fails \in BOOLEAN : Invalidate(fails))
         \/ Undecodable \/ Evict
  PROVE  CacheInv'
<1> USE DEF CacheInv, CacheTypeOK, RowIsFresh, OneEntry
<1>1. ASSUME NEW v \in Facts, Commit(v), UNCHANGED <<entry, flight>>, deleting' \in 0..MaxWriters
      PROVE  CacheInv'
  <2>1. \A f \in Facts : falseFor'[f] \in Clock /\ falseFor'[f] <= falseFor[f]
    BY <1>1, ClockFacts DEF Commit, Clock
  <2>2. row' \in Facts /\ falseFor' \in [Facts -> Clock] /\ falseFor'[row'] = 0
    BY <1>1, <2>1, ClockFacts DEF Commit, Clock
  <2>3. ASSUME NEW p \in Processes, InFlight(p, "store")
        PROVE  falseFor'[flight[p].value] + flight[p].left <= FlightTime
    <3>1. flight[p].value \in Facts /\ flight[p].left \in Nat
      BY ClockFacts
    <3>2. falseFor[flight[p].value] + flight[p].left <= FlightTime
      BY <2>3 DEF BoundedStaleness
    <3>. QED  BY <2>1, <3>1, <3>2, ClockFacts DEF Clock
  <2>4. ASSUME NEW e \in entry, e.value # Garbage
        PROVE  \E ttl \in LongestTtl(e.value) : falseFor'[e.value] + e.left <= FlightTime + ttl + Jitter
    <3>1. e.value \in Facts /\ e.left \in Nat
      BY <2>4
    <3>2. PICK ttl \in LongestTtl(e.value) : falseFor[e.value] + e.left <= FlightTime + ttl + Jitter
      BY <2>4 DEF BoundedStaleness
    <3>3. falseFor'[e.value] + e.left <= FlightTime + ttl + Jitter
      BY <2>1, <3>1, <3>2, ClockFacts DEF Clock
    <3>. QED  BY <3>3
  <2>5. BoundedStaleness'
    BY <1>1, <2>3, <2>4 DEF BoundedStaleness, InFlight
  <2>. QED  BY <1>1, <2>2, <2>5
<1>2. ASSUME NEW v \in Facts, WriteOnly(v) \/ WriteThrough(v) PROVE CacheInv'
  BY <1>1, <1>2, CacheAssumption DEF WriteOnly, WriteThrough
<1>3. ASSUME UNCHANGED <<row, flight, falseFor>>, entry' \in {entry, {}}, deleting' \in 0..MaxWriters PROVE CacheInv'
  BY <1>3 DEF BoundedStaleness, InFlight
<1>4. ASSUME NEW fails \in BOOLEAN, Invalidate(fails) PROVE CacheInv'
  BY <1>3, <1>4, CacheAssumption DEF Invalidate
<1>5. CASE Evict
  BY <1>3, <1>5 DEF Evict
<1>6. CASE Undecodable
  <2>1. \A f \in entry' : f.value = Garbage /\ \E e \in entry : f = [e EXCEPT !.value = Garbage]
    BY <1>6 DEF Undecodable
  <2>2. entry' \in SUBSET [value : Facts \cup {Garbage}, left : Nat \ {0}] /\ OneEntry'
    BY <2>1
  <2>. QED  BY <1>6, <2>1, <2>2 DEF Undecodable, BoundedStaleness, InFlight
<1>. QED  BY <1>2, <1>4, <1>5, <1>6

\* A tick ages a flight and its answer, an entry and what it says, alike.
LEMMA TickStep ==
  ASSUME CacheInv, CacheTick
  PROVE  CacheInv'
<1> USE DEF CacheInv, CacheTypeOK, RowIsFresh, OneEntry
<1>1. \A v \in Facts : falseFor'[v] \in Clock /\ falseFor'[v] <= falseFor[v] + 1
  BY ClockFacts DEF CacheTick, Aged, Clock
<1>2. row' = row /\ deleting' = deleting /\ falseFor' \in [Facts -> Clock] /\ falseFor'[row] = 0
  BY <1>1 DEF CacheTick, Aged
<1>3. ASSUME NEW p \in Processes
      PROVE  /\ flight'[p] \in [step : {"none", "get", "load", "store"}, value : Facts, left : 0..FlightTime]
             /\ flight'[p].step = flight[p].step /\ flight'[p].value = flight[p].value
             /\ flight[p].step # "none" => flight'[p].left = flight[p].left - 1
  <2>1. flight[p] \in [step : {"none", "get", "load", "store"}, value : Facts, left : 0..FlightTime]
    OBVIOUS
  <2>2. CASE InFlight(p, "none")
    BY <2>1, <2>2 DEF CacheTick, InFlight
  <2>3. CASE ~InFlight(p, "none")
    BY <2>1, <2>3, ClockFacts DEF CacheTick, InFlight
  <2>. QED  BY <2>2, <2>3
<1>4. flight' \in [Processes -> [step : {"none", "get", "load", "store"}, value : Facts, left : 0..FlightTime]]
  BY <1>3 DEF CacheTick
<1>5. \A f \in entry' : \E e \in entry : f = [e EXCEPT !.left = @ - 1] /\ e.left > 1
  BY DEF CacheTick
<1>6. ASSUME NEW f \in entry' PROVE \E e \in entry : f.value = e.value /\ f.left = e.left - 1 /\ f.left \in Nat \ {0}
                                                    /\ f \in [value : Facts \cup {Garbage}, left : Nat \ {0}]
  BY <1>5
<1>7. entry' \in SUBSET [value : Facts \cup {Garbage}, left : Nat \ {0}] /\ OneEntry'
  BY <1>5, <1>6
<1>8. ASSUME NEW p \in Processes, InFlight(p, "store")'
      PROVE  falseFor'[flight'[p].value] + flight'[p].left <= FlightTime
  <2>1. flight[p].value \in Facts /\ flight[p].left \in Nat /\ flight[p].step = "store"
    BY <1>3, <1>8, ClockFacts DEF InFlight
  <2>2. falseFor[flight[p].value] + flight[p].left <= FlightTime
    BY <2>1 DEF BoundedStaleness, InFlight
  <2>. QED  BY <1>1, <1>3, <2>1, <2>2, ClockFacts DEF Clock
<1>9. ASSUME NEW f \in entry', f.value # Garbage
      PROVE  \E ttl \in LongestTtl(f.value) : falseFor'[f.value] + f.left <= FlightTime + ttl + Jitter
  <2>1. PICK e \in entry : f.value = e.value /\ f.left = e.left - 1
    BY <1>6
  <2>2. e.value \in Facts /\ e.left \in Nat
    BY <1>9, <2>1
  <2>3. PICK ttl \in LongestTtl(e.value) : falseFor[e.value] + e.left <= FlightTime + ttl + Jitter
    BY <1>9, <2>1 DEF BoundedStaleness
  <2>4. falseFor'[f.value] + f.left <= FlightTime + ttl + Jitter
    BY <1>1, <2>1, <2>2, <2>3, ClockFacts DEF Clock
  <2>. QED  BY <2>1, <2>3, <2>4
<1>10. BoundedStaleness'
  BY <1>8, <1>9 DEF BoundedStaleness
<1>. QED  BY <1>2, <1>4, <1>7, <1>10

\* Readers, writers and the clock are all there is.
LEMMA CacheStepInv == CacheInv /\ [CacheNext]_cacheVars => CacheInv'
<1>. SUFFICES ASSUME CacheInv, [CacheNext]_cacheVars  PROVE CacheInv'
  OBVIOUS
<1>1. CASE UNCHANGED cacheVars
  BY <1>1 DEF cacheVars, CacheInv, CacheTypeOK, RowIsFresh, OneEntry, BoundedStaleness, InFlight
<1>. QED  BY <1>1, ReaderSteps, WriterSteps, TickStep DEF CacheNext

\* The inductive invariant of the cache.
LEMMA CacheInvariant == CacheSpec => []CacheInv
BY CacheInitInv, CacheStepInv, PTL DEF CacheSpec

\* However deletes are lost and loads overtake writes, no reader is served what stopped
\* being true longer ago than one flight and one time to live (ReadThrough.fill, the
\* invalidate of the decorators).
THEOREM BoundedStalenessHolds == CacheSpec => []BoundedStaleness
<1>1. CacheInv => BoundedStaleness
  BY DEF CacheInv
<1>. QED  BY <1>1, CacheInvariant, PTL

\* No step puts the placeholder in the place of a row.
Hides == \A e \in entry, f \in entry' : e.value \in RowValues => f.value # NoRowValue

\* No step does.
LEMMA StepHides ==
  ASSUME CacheInv, CacheNext  PROVE Hides
<1> USE DEF CacheInv, CacheTypeOK, Hides
<1>1. NoRowValue \notin RowValues /\ Garbage # NoRowValue
  BY CacheAssumption DEF Facts
<1>2. ASSUME entry' \in {entry, {}} PROVE Hides
  BY <1>1, <1>2 DEF OneEntry
<1>3. ASSUME NEW p \in Processes, StoreAbsent(p) PROVE Hides
  BY <1>2, <1>3 DEF StoreAbsent
<1>4. ASSUME NEW p \in Processes, NEW ttl \in Ttls, StoreValue(p, ttl) PROVE Hides
  <2>1. CASE UNCHANGED entry
    BY <1>2, <2>1
  <2>2. ASSUME NEW d, Put(flight[p].value, d) PROVE Hides
    BY <1>4, <2>2 DEF StoreValue, Put
  <2>. QED  BY <1>4, <2>1, <2>2 DEF StoreValue
<1>5. CASE Undecodable
  <2>1. \A f \in entry' : f.value = Garbage
    BY <1>5 DEF Undecodable
  <2>. QED  BY <1>1, <2>1
<1>6. CASE CacheTick
  <2>1. \A f \in entry' : \E e \in entry : f.value = e.value
    BY <1>6 DEF CacheTick
  <2>. QED  BY <1>1, <2>1 DEF OneEntry
<1>. QED  BY <1>1, <1>2, <1>3, <1>4, <1>5, <1>6
          DEF CacheNext, Take, Hit, Miss, Load, FlightFails, WriteOnly, WriteThrough, Invalidate, Evict

\* The placeholder of a load that found no row never replaces a row that is cached
\* (SetNX in ReadThrough.write).
THEOREM AbsentHidesNothingHolds == CacheSpec => AbsentHidesNothing
<1>1. CacheInv /\ [CacheNext]_cacheVars => [Hides]_cacheVars
  BY StepHides
<1>. QED  BY <1>1, CacheInvariant, PTL DEF CacheSpec, AbsentHidesNothing, Hides

(****************************************************************************)
(* The unread counter.                                                      *)
(****************************************************************************)
\* What a request holds is a count, and the counter never outlives its time to live.
NoteSteps == {"idle", "created", "marked", "cleared", "counted"}
NoteShape ==
  /\ noteReq \in [NoteRequests -> [step : NoteSteps, note : Notes, count : Nat]]
  /\ calm \in 0..UnreadTtl
  /\ counter \subseteq [value : Nat, left : 1..UnreadTtl]

NoteInv == NoteShape /\ CounterHeals

\* The rows are counted in natural numbers.
LEMMA CountType == CountUnread \in Nat
<1>1. {n \in Notes : note[n] = "unread"} \subseteq Notes
  OBVIOUS
<1>. QED  BY <1>1, FS_Subset, FS_CardinalityType, NotificationAssumption DEF CountUnread

\* A request at rest has the type of a request.
LEMMA NoteIdleType == NoteIdle \in [step : {"idle"}, note : Notes, count : {0}]
BY NotificationAssumption DEF NoteIdle

\* An adjustment keeps the time to live, and goes no lower than nothing.
LEMMA AdjustHeals ==
  ASSUME NoteInv, NEW delta \in {1, -1}, Adjust(delta)
  PROVE  counter' \subseteq [value : Nat, left : 1..UnreadTtl]
<1>1. CASE UNCHANGED counter
  BY <1>1 DEF NoteInv, NoteShape
<1>2. CASE counter' = Adjusted(delta)
  <2>. SUFFICES ASSUME NEW c \in counter  PROVE [c EXCEPT !.value = Floored(@ + delta)] \in [value : Nat, left : 1..UnreadTtl]
    BY <1>2 DEF Adjusted
  <2>1. c \in [value : Nat, left : 1..UnreadTtl]
    BY DEF NoteInv, NoteShape
  <2>2. Floored(c.value + delta) \in Nat
    BY <2>1 DEF Floored
  <2>. QED  BY <2>1, <2>2
<1>. QED  BY <1>1, <1>2 DEF Adjust

\* So does a count that is stored, with a new time to live.
LEMMA StoreHeals ==
  ASSUME NoteInv, NEW n \in Nat, StoreCount(n)
  PROVE  counter' \subseteq [value : Nat, left : 1..UnreadTtl]
BY NotificationAssumption DEF StoreCount, NoteInv, NoteShape

\* What moves the count starts the calm anew: the counter has not more than one time to live.
LEMMA DisturbedHeals ==
  ASSUME NoteShape', calm' = 0
  PROVE  NoteInv'
BY NotificationAssumption DEF NoteInv, NoteShape, CounterHeals

\* Requests keep their types.
LEMMA RequestShape ==
  ASSUME NoteInv, NEW r \in NoteRequests,
         \/ NoteDone(r)
         \/ \E step \in NoteSteps, n \in Notes : NoteGo(r, step, n, 0)
         \/ noteReq' = [noteReq EXCEPT ![r].step = "cleared"]
         \/ noteReq' = [noteReq EXCEPT ![r].step = "counted", ![r].count = CountUnread]
  PROVE  noteReq' \in [NoteRequests -> [step : NoteSteps, note : Notes, count : Nat]]
<1>1. CASE NoteDone(r)
  BY <1>1, NoteIdleType DEF NoteDone, NoteInv, NoteShape, NoteSteps
<1>2. CASE \E step \in NoteSteps, n \in Notes : NoteGo(r, step, n, 0)
  BY <1>2 DEF NoteGo, NoteInv, NoteShape
<1>3. CASE noteReq' = [noteReq EXCEPT ![r].step = "cleared"]
  BY <1>3 DEF NoteInv, NoteShape, NoteSteps
<1>4. CASE noteReq' = [noteReq EXCEPT ![r].step = "counted", ![r].count = CountUnread]
  <2>. DEFINE w == [[noteReq[r] EXCEPT !.step = "counted"] EXCEPT !.count = CountUnread]
  <2>1. w \in [step : NoteSteps, note : Notes, count : Nat]
    BY CountType DEF NoteInv, NoteShape, NoteSteps
  <2>2. noteReq' = [q \in NoteRequests |-> IF q = r THEN w ELSE noteReq[q]]
    BY <1>4 DEF NoteInv, NoteShape
  <2>. HIDE DEF w
  <2>. QED  BY <2>1, <2>2 DEF NoteInv, NoteShape
<1>. QED  BY <1>1, <1>2, <1>3, <1>4

\* No step breaks it: those that move the count start the calm anew.
LEMMA NoteStepInv == NoteInv /\ [NoteNext]_noteVars => NoteInv'
<1>. SUFFICES ASSUME NoteInv, [NoteNext]_noteVars  PROVE NoteInv'
  OBVIOUS
<1>1. ASSUME NEW r \in NoteRequests, NEW n \in Notes, CreateNote(r, n) \/ MarkRead(r, n)  PROVE NoteInv'
  <2>1. NoteShape' /\ calm' = 0
    <3>1. counter' \subseteq [value : Nat, left : 1..UnreadTtl] /\ calm' = 0
      BY <1>1, AdjustHeals DEF CreateNote, MarkRead, NoteInv, NoteShape
    <3>2. \E step \in NoteSteps, m \in Notes : NoteGo(r, step, m, 0)
      BY <1>1 DEF CreateNote, MarkRead, NoteSteps
    <3>3. noteReq' \in [NoteRequests -> [step : NoteSteps, note : Notes, count : Nat]]
      BY <3>2, RequestShape
    <3>. QED  BY <3>1, <3>3, NotificationAssumption DEF NoteShape
  <2>. QED  BY <2>1, DisturbedHeals
<1>2. ASSUME NEW r \in NoteRequests,
             CreateNoteCommit(r) \/ NoteFails(r) \/ MarkReadAdjust(r) \/ MarkAllRead(r) \/ MarkAllReadStore(r)
      PROVE  NoteInv'
  <2>1. counter' \subseteq [value : Nat, left : 1..UnreadTtl] /\ calm' = 0
    BY <1>2, AdjustHeals, StoreHeals
       DEF CreateNoteCommit, NoteFails, MarkReadAdjust, MarkAllRead, MarkAllReadStore, NoteInv, NoteShape
  <2>2. NoteDone(r) \/ noteReq' = [noteReq EXCEPT ![r].step = "cleared"]
    BY <1>2 DEF CreateNoteCommit, NoteFails, MarkReadAdjust, MarkAllRead, MarkAllReadStore
  <2>3. noteReq' \in [NoteRequests -> [step : NoteSteps, note : Notes, count : Nat]]
    BY <2>2, RequestShape
  <2>4. NoteShape'
    BY <2>1, <2>3, NotificationAssumption DEF NoteShape
  <2>. QED  BY <2>1, <2>4, DisturbedHeals
<1>3. ASSUME UNCHANGED <<note, calm>>, counter' \subseteq counter,
             noteReq' \in [NoteRequests -> [step : NoteSteps, note : Notes, count : Nat]]
      PROVE  NoteInv'
  BY <1>3 DEF NoteInv, NoteShape, CounterHeals, CountUnread
<1>4. ASSUME NEW r \in NoteRequests, CountRows(r)  PROVE NoteInv'
  BY <1>3, <1>4, RequestShape DEF CountRows
<1>5. ASSUME NEW r \in NoteRequests, CountStore(r)  PROVE NoteInv'
  <2>. DEFINE n == noteReq[r].count
  <2>1. n \in Nat /\ StoreCount(n) /\ note' = note /\ calm' = (IF n = CountUnread THEN calm ELSE 0)
    BY <1>5 DEF CountStore, NoteInv, NoteShape
  <2>2. NoteShape'
    <3>1. counter' \subseteq [value : Nat, left : 1..UnreadTtl]
      BY <2>1, StoreHeals
    <3>2. noteReq' \in [NoteRequests -> [step : NoteSteps, note : Notes, count : Nat]]
      BY <1>5, RequestShape DEF CountStore
    <3>. QED  BY <2>1, <3>1, <3>2, NotificationAssumption DEF NoteInv, NoteShape
  <2>3. CASE n = CountUnread
    BY <2>1, <2>2, <2>3 DEF NoteInv, CounterHeals, StoreCount, CountUnread
  <2>4. CASE n # CountUnread
    BY <2>1, <2>2, <2>4, DisturbedHeals
  <2>. QED  BY <2>3, <2>4
<1>6. CASE NoteTick
  <2>1. counter' = {[c EXCEPT !.left = @ - 1] : c \in {c \in counter : c.left > 1}}
        /\ calm' \in 0..UnreadTtl /\ calm' <= calm + 1 /\ note' = note /\ noteReq' = noteReq
    BY <1>6, NotificationAssumption DEF NoteTick, NoteInv, NoteShape
  <2>2. \A d \in counter' : \E c \in counter :
          c.left > 1 /\ d = [c EXCEPT !.left = c.left - 1] /\ c \in [value : Nat, left : 1..UnreadTtl]
    BY <2>1 DEF NoteInv, NoteShape
  <2>3. \A d \in counter' : \E c \in counter :
          /\ c.left \in Nat /\ d.left = c.left - 1 /\ d.value = c.value
          /\ d \in [value : Nat, left : 1..UnreadTtl]
    BY <2>2, NotificationAssumption
  <2>4. NoteShape'
    BY <2>1, <2>3 DEF NoteInv, NoteShape
  <2>5. CounterHeals'
    BY <2>1, <2>3, NotificationAssumption DEF NoteInv, NoteShape, CounterHeals, CountUnread
  <2>. QED  BY <2>4, <2>5 DEF NoteInv
<1>7. CASE LoseKey
  BY <1>3, <1>7 DEF LoseKey, NoteInv, NoteShape
<1>8. ASSUME NEW n \in Notes, Work(n)  PROVE NoteInv'
  BY <1>3, <1>8 DEF Work, FetchSend, Send, NoteInv, NoteShape
<1>9. CASE UNCHANGED noteVars
  BY <1>3, <1>9 DEF noteVars, NoteInv, NoteShape
<1>. QED  BY <1>1, <1>2, <1>4, <1>5, <1>6, <1>7, <1>8, <1>9 DEF NoteNext

\* At first no notification exists, and no key.
LEMMA NoteInitInv == NoteInit => NoteInv
BY NoteIdleType, NotificationAssumption DEF NoteInit, NoteInv, NoteShape, CounterHeals, NoteSteps

\* Once nothing that moves it has been under way for a time to live, the counter says what the
\* rows say, or is gone (adjustScript keeps the time to live and creates no key).
THEOREM CounterHealsHolds == NoteSpec => []CounterHeals
<1>1. NoteInv => CounterHeals
  BY DEF NoteInv
<1>. QED  BY <1>1, NoteInitInv, NoteStepInv, PTL DEF NoteSpec

-----------------------------------------------------------------------------
(****************************************************************************)
(* CircuitBreaker.  That probes are alone, and that only they end a         *)
(* cooldown, needs commands to be shorter than the cooldown: by the time a  *)
(* cooldown is over, whatever was allowed before it began has ended         *)
(* (AgedOut).                                                               *)
(****************************************************************************)
\* While the breaker is open, a command under way is at least as old as the
\* current cooldown.
AgedOut ==
  open => \A c \in Commands : Underway(c) => age[c] + remaining >= Cooldown

\* A probe finds the breaker open and itself alone, and while the flag is set
\* nothing but the probe is under way.
ProbeAlone ==
  /\ probing => open
  /\ \A c \in Commands : cmd[c] = "probe" => open
  /\ \A c \in Commands : probing /\ Underway(c) => cmd[c] = "probe"

BreakerInv == TypeOK /\ AgedOut /\ ProbeAlone /\ ProbeRunsAlone

\* The state the breaker starts in has the types.
LEMMA BreakerInitTypeOK == Init => TypeOK
<1> SUFFICES ASSUME Init PROVE TypeOK
  OBVIOUS
<1>1. 0 \in 0..(Threshold - 1) /\ 0 \in 0..Cooldown /\ 0 \in 0..Timeout
  BY ThresholdAssumption, CooldownAssumption, TimeoutAssumption
<1>. QED  BY <1>1 DEF Init, TypeOK

\* Each call and each tick keeps the types, and failures below the threshold.
LEMMA BreakerStepTypeOK == TypeOK /\ [Next]_vars => TypeOK'
<1> SUFFICES ASSUME TypeOK, [Next]_vars PROVE TypeOK'
  OBVIOUS
<1> USE ThresholdAssumption, CooldownAssumption, TimeoutAssumption
<1>1. CASE Tick
  BY <1>1 DEF Tick, TypeOK, Underway
<1>2. ASSUME NEW c \in Commands, AllowClosed(c) PROVE TypeOK'
  BY <1>2 DEF AllowClosed, Begin, TypeOK, breakerVars
<1>3. ASSUME NEW c \in Commands, AllowProbe(c) PROVE TypeOK'
  BY <1>3 DEF AllowProbe, Begin, TypeOK
<1>4. ASSUME NEW c \in Commands, Reply(c) PROVE TypeOK'
  <2>1. /\ failures' \in 0..(Threshold - 1)
        /\ cmd' \in [Commands -> {"idle", "normal", "probe"}]
        /\ age' \in [Commands -> 0..Timeout]
    BY <1>4 DEF Reply, End, TypeOK
  <2>2. remaining' \in 0..Cooldown
    BY <1>4 DEF Reply, Close, TypeOK
  <2>3. probing' \in BOOLEAN /\ open' \in BOOLEAN
    BY <1>4, Zenon DEF Reply, Close, TypeOK
  <2>. QED  BY <2>1, <2>2, <2>3 DEF TypeOK
<1>5. ASSUME NEW c \in Commands, Cancelled(c) PROVE TypeOK'
  BY <1>5 DEF Cancelled, End, TypeOK, breakerVars
<1>6. ASSUME NEW c \in Commands, Failure(c) PROVE TypeOK'
  <2>1. /\ cmd' \in [Commands -> {"idle", "normal", "probe"}]
        /\ age' \in [Commands -> 0..Timeout]
    BY <1>6 DEF Failure, End, TypeOK
  <2>2. failures' \in 0..(Threshold - 1)
    BY <1>6 DEF Failure, TypeOK
  <2>3. remaining' \in 0..Cooldown
    BY <1>6 DEF Failure, TypeOK
  <2>4. probing' \in BOOLEAN /\ open' \in BOOLEAN
    BY <1>6, Zenon DEF Failure, TypeOK
  <2>. QED  BY <2>1, <2>2, <2>3, <2>4 DEF TypeOK
<1>7. CASE UNCHANGED vars
  BY <1>7 DEF vars, TypeOK
<1>. QED  BY <1>1, <1>2, <1>3, <1>4, <1>5, <1>6, <1>7 DEF Next, Report

\* The types, and the bound on the streak, hold for any constants.
THEOREM BreakerTypeCorrect == Spec => []TypeOK
  BY BreakerInitTypeOK, BreakerStepTypeOK, PTL DEF Spec

\* The other conjuncts hold at the start, where nothing is under way.
LEMMA BreakerInitInv == Init => BreakerInv
<1> SUFFICES ASSUME Init PROVE AgedOut /\ ProbeAlone /\ ProbeRunsAlone
  BY BreakerInitTypeOK DEF BreakerInv
<1>. QED  BY DEF Init, AgedOut, ProbeAlone, ProbeRunsAlone, Underway

\* If commands are shorter than the cooldown, nothing is under way when a cooldown
\* has expired.
LEMMA ExpiredIsIdle ==
  ASSUME Timeout < Cooldown, BreakerInv, open, remaining = 0
  PROVE  \A c \in Commands : ~Underway(c)
<1> SUFFICES ASSUME NEW c \in Commands, Underway(c) PROVE FALSE
  OBVIOUS
<1>1. age[c] + remaining >= Cooldown
  BY DEF BreakerInv, AgedOut
<1>2. age[c] \in 0..Timeout
  BY DEF BreakerInv, TypeOK
<1>. QED  BY <1>1, <1>2, CooldownAssumption, TimeoutAssumption

\* If commands are shorter than the cooldown, each step keeps the invariant.
LEMMA BreakerStepInv ==
  ASSUME Timeout < Cooldown, BreakerInv, [Next]_vars
  PROVE  BreakerInv'
<1>1. TypeOK /\ TypeOK'
  BY BreakerStepTypeOK DEF BreakerInv
<1> USE CooldownAssumption, TimeoutAssumption
<1>2. CASE Tick
  <2>1. AgedOut'
    BY <1>1, <1>2 DEF BreakerInv, AgedOut, Tick, TypeOK, Underway
  <2>2. ProbeAlone' /\ ProbeRunsAlone'
    BY <1>2 DEF BreakerInv, ProbeAlone, ProbeRunsAlone, Tick, Underway
  <2>. QED  BY <1>1, <2>1, <2>2 DEF BreakerInv
<1>3. ASSUME NEW c \in Commands, AllowClosed(c) PROVE BreakerInv'
  <2>1. AgedOut'
    BY <1>3 DEF AllowClosed, AgedOut, breakerVars
  <2>2. ProbeAlone' /\ ProbeRunsAlone'
    BY <1>1, <1>3 DEF BreakerInv, ProbeAlone, ProbeRunsAlone, AllowClosed, Begin, TypeOK,
                      Underway, breakerVars
  <2>. QED  BY <1>1, <2>1, <2>2 DEF BreakerInv
<1>4. ASSUME NEW c \in Commands, AllowProbe(c) PROVE BreakerInv'
  <2>1. \A d \in Commands : ~Underway(d)
    BY <1>4, ExpiredIsIdle DEF AllowProbe
  <2>2. AgedOut'
    BY <1>1, <1>4, <2>1 DEF AllowProbe, Begin, AgedOut, TypeOK, Underway
  <2>3. ProbeAlone' /\ ProbeRunsAlone'
    BY <1>1, <1>4, <2>1 DEF ProbeAlone, ProbeRunsAlone, AllowProbe, Begin, TypeOK,
                            Underway
  <2>. QED  BY <1>1, <2>2, <2>3 DEF BreakerInv
<1>5. ASSUME NEW c \in Commands, Reply(c) PROVE BreakerInv'
  <2>1. CASE probing
    <3>1. \A d \in Commands : ~Underway(d)'
      BY <1>1, <1>5, <2>1 DEF BreakerInv, ProbeAlone, ProbeRunsAlone, Reply, End, TypeOK,
                              Underway
    <3>2. ~open' /\ ~probing'
      BY <1>5, <2>1 DEF Reply, Close
    <3>. QED  BY <1>1, <3>1, <3>2 DEF BreakerInv, AgedOut, ProbeAlone, ProbeRunsAlone,
                                      Underway
  <2>2. CASE ~probing
    <3>1. UNCHANGED <<probing, open, remaining>> /\ End(c)
      BY <1>5, <2>2 DEF Reply
    <3>. QED  BY <1>1, <3>1 DEF BreakerInv, AgedOut, ProbeAlone, ProbeRunsAlone, End,
                                TypeOK, Underway
  <2>. QED  BY <2>1, <2>2
<1>6. ASSUME NEW c \in Commands, Cancelled(c) PROVE BreakerInv'
  BY <1>1, <1>6 DEF BreakerInv, AgedOut, ProbeAlone, ProbeRunsAlone, Cancelled, End, TypeOK,
                    Underway, breakerVars
<1>7. ASSUME NEW c \in Commands, Failure(c) PROVE BreakerInv'
  <2>1. /\ End(c) /\ ~probing'
        /\ \/ UNCHANGED <<open, remaining>>
           \/ open' /\ remaining' = Cooldown
    BY <1>7 DEF Failure
  <2>2. AgedOut'
    <3>1. SUFFICES ASSUME NEW d \in Commands, Underway(d)', open'
                   PROVE  (age[d] + remaining >= Cooldown)'
      BY DEF AgedOut
    <3>2. Underway(d) /\ age'[d] = age[d] /\ age[d] \in Nat
      BY <1>1, <2>1, <3>1 DEF End, TypeOK, Underway
    <3>3. CASE UNCHANGED <<open, remaining>>
      BY <3>1, <3>2, <3>3 DEF BreakerInv, AgedOut
    <3>4. CASE remaining' = Cooldown
      BY <3>2, <3>4
    <3>. QED  BY <2>1, <3>3, <3>4
  <2>3. ProbeAlone' /\ ProbeRunsAlone'
    BY <1>1, <2>1 DEF BreakerInv, ProbeAlone, ProbeRunsAlone, End, TypeOK, Underway
  <2>. QED  BY <1>1, <2>2, <2>3 DEF BreakerInv
<1>8. CASE UNCHANGED vars
  BY <1>8 DEF vars, BreakerInv, TypeOK, AgedOut, ProbeAlone, ProbeRunsAlone, Underway
<1>. QED  BY <1>2, <1>3, <1>4, <1>5, <1>6, <1>7, <1>8 DEF Next, Report

\* If commands are shorter than the cooldown, the step that closes an open breaker
\* is the report of a probe: nothing else is under way while the flag is set.
LEMMA StepCloses ==
  ASSUME BreakerInv, [Next]_vars, open, ~open'
  PROVE  \E c \in Commands : cmd[c] = "probe" /\ cmd'[c] = "idle"
<1>1. PICK c \in Commands : Reply(c)
  BY DEF Next, vars, Tick, AllowClosed, AllowProbe, Report, Cancelled, Failure,
         breakerVars
<1>2. probing
  BY <1>1 DEF Reply
<1>3. cmd[c] = "probe"
  BY <1>1, <1>2 DEF BreakerInv, ProbeAlone, Reply, End
<1>4. cmd'[c] = "idle"
  BY <1>1 DEF Reply, End, BreakerInv, TypeOK
<1>. QED  BY <1>3, <1>4

\* The inductive invariant, for commands that are shorter than the cooldown.
THEOREM BreakerInvariant ==
  ASSUME Timeout < Cooldown
  PROVE  Spec => []BreakerInv
<1>1. BreakerInv /\ [Next]_vars => BreakerInv'
  BY BreakerStepInv
<1>. QED  BY BreakerInitInv, <1>1, PTL DEF Spec

\* If commands are shorter than the cooldown, a probe runs alone: an expired
\* cooldown releases one request, not the herd.
THEOREM ProbesRunAlone ==
  ASSUME Timeout < Cooldown
  PROVE  Spec => []ProbeRunsAlone
<1>1. BreakerInv => ProbeRunsAlone
  BY DEF BreakerInv
<1>. QED  BY BreakerInvariant, <1>1, PTL

\* If commands are shorter than the cooldown, only a probe ends a cooldown.
THEOREM OnlyProbesClose ==
  ASSUME Timeout < Cooldown
  PROVE  Spec => OnlyProbeCloses
<1>1. BreakerInv /\ [Next]_vars =>
        [open /\ ~open' => \E c \in Commands : cmd[c] = "probe" /\ cmd'[c] = "idle"]_vars
  BY StepCloses
<1>. QED  BY BreakerInvariant, <1>1, PTL DEF Spec, OnlyProbeCloses

-----------------------------------------------------------------------------
(****************************************************************************)
(* RateLimit.  What was let through in a stretch of ticks is shared out     *)
(* between the windows that began in it, which are all still there, and the *)
(* older ones, of which there were no more than the map has room for: the   *)
(* account (Accounted) is kept for every stretch that ends now.             *)
(****************************************************************************)
\* What the shared window lets through.
Room == Limit * MaxKeys

\* For the last j ticks and the present one, a window that began in them counts for what it
\* let through, and one that is older for what it may no longer let through; one that has
\* ended does not count.
Weight(j, k) ==
  IF Expired(left[k]) THEN 0 ELSE IF Window - left[k] <= j THEN count[k] ELSE count[k] - Limit

Weights(j) == [k \in Callers |-> Weight(j, k)]

SharedWeight(j) ==
  IF Expired(overflow.left) THEN 0
  ELSE IF Window - overflow.left <= j THEN overflow.count ELSE overflow.count - Room

\* What was let through in those ticks, and what the windows of the callers come to.
Through(j) == SumFunctionOnSet(admitted, 0..j)
Owned(j) == SumFunctionOnSet(Weights(j), Callers)

\* Older windows let no more through in those ticks than they had room for: what is over is
\* what they may still let through.
Accounted == \A j \in 0..Window : Through(j) <= 2 * Room + Owned(j) + SharedWeight(j)

\* A caller without an entry has no window that has not ended.
LimitShape ==
  /\ LimitTypeOK
  /\ overflow.count <= Room
  /\ \A k \in Callers \ tracked : Expired(left[k])

LimitInv == LimitShape /\ Accounted

\* The room is a number.
LEMMA RoomType == Room \in Nat
BY RateLimitAssumption DEF Room

\* What is added up are integers.
LEMMA WeightTypes ==
  ASSUME LimitShape, NEW j \in 0..Window
  PROVE  /\ \A k \in Callers : Weights(j)[k] = Weight(j, k) /\ Weight(j, k) \in Int
         /\ SharedWeight(j) \in Int /\ Owned(j) \in Int /\ Through(j) \in Int
<1>1. \A k \in Callers : Weights(j)[k] = Weight(j, k) /\ Weight(j, k) \in Int
  BY RateLimitAssumption DEF Weights, Weight, LimitShape, LimitTypeOK
<1>2. SharedWeight(j) \in Int
  BY RateLimitAssumption, RoomType DEF SharedWeight, LimitShape, LimitTypeOK
<1>3. Owned(j) \in Int
  BY <1>1, RateLimitAssumption, SumInt DEF Owned
<1>4. Through(j) \in Int
  <2>1. IsFiniteSet(0..j)
    BY FS_Interval, RateLimitAssumption
  <2>2. \A t \in 0..j : admitted[t] \in Int
    BY RateLimitAssumption DEF LimitShape, LimitTypeOK
  <2>. QED  BY <2>1, <2>2, SumInt DEF Through
<1>. QED  BY <1>1, <1>2, <1>3, <1>4

\* The map is finite.
LEMMA TrackedIsFinite == LimitShape => IsFiniteSet(tracked) /\ Cardinality(tracked) \in Nat
BY RateLimitAssumption, FS_Subset, FS_CardinalityType DEF LimitShape, LimitTypeOK

\* In the last Window ticks and the present one only windows that are there can have begun;
\* with the older ones, that is twice the room of the map and of the shared window.
LEMMA AccountedIsBounded == LimitInv => FloodBounded
<1>. SUFFICES ASSUME LimitInv  PROVE FloodBounded
  OBVIOUS
<1>. DEFINE W == Weights(Window)
<1>0. Window \in 0..Window /\ LimitShape
  BY RateLimitAssumption DEF LimitInv
<1>1. \A k \in Callers : W[k] \in Int /\ W[k] <= Limit /\ (k \notin tracked => W[k] = 0)
  BY RateLimitAssumption DEF Weights, Weight, LimitInv, LimitShape, LimitTypeOK
<1>2. SharedWeight(Window) <= Room
  BY RateLimitAssumption, RoomType DEF SharedWeight, LimitInv, LimitShape, LimitTypeOK
<1>3. Owned(Window) <= Room
  <2>1. tracked \in SUBSET Callers /\ IsFiniteSet(tracked) /\ Cardinality(tracked) \in Nat
    BY <1>0, TrackedIsFinite DEF LimitShape, LimitTypeOK
  <2>. HIDE DEF W
  <2>2. SumFunctionOnSet(W, Callers) = SumFunctionOnSet(W, tracked)
    BY <1>1, <2>1, RateLimitAssumption, SumOfPart
  <2>3. SumFunctionOnSet(W, tracked) <= Cardinality(tracked) * Limit
    BY <1>1, <2>1, RateLimitAssumption, SumBounded
  <2>4. Cardinality(tracked) * Limit <= MaxKeys * Limit /\ Cardinality(tracked) * Limit \in Nat
    BY <1>0, <2>1, RateLimitAssumption, ProductMonotone DEF LimitShape, LimitTypeOK
  <2>5. MaxKeys * Limit = Room
    BY RateLimitAssumption DEF Room
  <2>6. SumFunctionOnSet(W, tracked) \in Int
    BY <1>1, <2>1, SumInt
  <2>7. Owned(Window) = SumFunctionOnSet(W, Callers)
    BY DEF Owned, W
  <2>. QED  BY <2>2, <2>3, <2>4, <2>5, <2>6, <2>7, RoomType
<1>4. Through(Window) <= 2 * Room + Owned(Window) + SharedWeight(Window)
  BY <1>0 DEF LimitInv, Accounted
<1>5. 2 * Limit * (MaxKeys + MaxKeys) = 4 * Room
  BY RateLimitAssumption DEF Room
<1>6. Through(Window) <= 4 * Room
  BY <1>0, <1>2, <1>3, <1>4, WeightTypes, RoomType
<1>. QED  BY <1>5, <1>6 DEF FloodBounded, Through

\* A request let through counts in every stretch of ticks that ends now.
LEMMA AdmitOne ==
  ASSUME LimitShape, Admit, NEW j \in 0..Window
  PROVE  Through(j)' = Through(j) + 1
<1>1. IsFiniteSet(0..j) /\ 0 \in 0..j /\ 0..j \subseteq 0..Window
  BY FS_Interval, RateLimitAssumption
<1>2. \A t \in 0..j : admitted[t] \in Int /\ admitted'[t] \in Int
  BY <1>1 DEF Admit, LimitShape, LimitTypeOK
<1>3. \A t \in (0..j) \ {0} : admitted'[t] = admitted[t]
  BY <1>1 DEF Admit, LimitShape, LimitTypeOK
<1>4. admitted'[0] = admitted[0] + 1
  BY <1>1 DEF Admit, LimitShape, LimitTypeOK
<1>5. SumFunctionOnSet(admitted', 0..j) = SumFunctionOnSet(admitted, 0..j) - admitted[0] + admitted'[0]
  BY <1>1, <1>2, <1>3, SumUpdate
<1>6. SumFunctionOnSet(admitted, 0..j) \in Int
  BY <1>1, <1>2, SumInt
<1>. QED  BY <1>1, <1>2, <1>4, <1>5, <1>6 DEF Through

\* A caller's window that begins with the request, or goes on with it, weighs one more.
LEMMA OwnWindow ==
  ASSUME LimitInv, LimitShape', NEW k \in Callers, Admit, UNCHANGED overflow,
         \A i \in Callers \ {k} : left'[i] = left[i] /\ count'[i] = count[i],
         \/ Expired(left[k]) /\ left'[k] = Window /\ count'[k] = 1
         \/ ~Expired(left[k]) /\ left'[k] = left[k] /\ count'[k] = count[k] + 1
  PROVE  Accounted'
<1>. SUFFICES ASSUME NEW j \in 0..Window
              PROVE  Through(j)' <= 2 * Room + Owned(j)' + SharedWeight(j)'
  BY DEF Accounted, Room
<1>0. LimitShape
  BY DEF LimitInv
<1>1. PICK f : f = Weights(j)
  OBVIOUS
<1>2. PICK g : g = Weights(j)'
  OBVIOUS
<1>3. \A i \in Callers : f[i] \in Int /\ g[i] \in Int
  <2>1. \A i \in Callers : f[i] \in Int
    BY <1>0, <1>1, WeightTypes
  <2>2. \A i \in Callers : left'[i] \in Int /\ count'[i] \in Int
    BY DEF LimitShape, LimitTypeOK
  <2>3. \A i \in Callers : g[i] = IF Expired(left'[i]) THEN 0
                                  ELSE IF Window - left'[i] <= j THEN count'[i] ELSE count'[i] - Limit
    BY <1>2 DEF Weights, Weight
  <2>. QED  BY <2>1, <2>2, <2>3, RateLimitAssumption
<1>4. \A i \in Callers \ {k} : g[i] = f[i]
  BY <1>1, <1>2 DEF Weights, Weight
<1>5. g[k] = f[k] + 1
  <2>1. f[k] = IF Expired(left[k]) THEN 0 ELSE IF Window - left[k] <= j THEN count[k] ELSE count[k] - Limit
    BY <1>1 DEF Weights, Weight
  <2>2. g[k] = IF Expired(left'[k]) THEN 0 ELSE IF Window - left'[k] <= j THEN count'[k] ELSE count'[k] - Limit
    BY <1>2 DEF Weights, Weight
  <2>3. left[k] \in Int /\ count[k] \in Int /\ left'[k] \in Int /\ count'[k] \in Int
    BY <1>0 DEF LimitShape, LimitTypeOK
  <2>. QED  BY <2>1, <2>2, <2>3, RateLimitAssumption DEF Expired
<1>6. SumFunctionOnSet(g, Callers) = SumFunctionOnSet(f, Callers) - f[k] + g[k]
  BY <1>3, <1>4, RateLimitAssumption, SumUpdate
<1>7. SumFunctionOnSet(f, Callers) \in Int
  BY <1>3, RateLimitAssumption, SumInt
<1>8. Owned(j)' = Owned(j) + 1
  BY <1>1, <1>2, <1>3, <1>5, <1>6, <1>7 DEF Owned
<1>9. SharedWeight(j)' = SharedWeight(j)
  BY DEF SharedWeight, Room
<1>10. Through(j)' = Through(j) + 1
  BY <1>0, AdmitOne
<1>11. Through(j) <= 2 * Room + Owned(j) + SharedWeight(j)
  BY DEF LimitInv, Accounted
<1>. QED  BY <1>0, <1>8, <1>9, <1>10, <1>11, WeightTypes, RoomType

\* So does the shared window, if it lets the request through.
LEMMA SharedWindow ==
  ASSUME LimitInv, LimitShape', NEW k \in Callers, AllowOverflow(k)
  PROVE  Accounted'
<1>. SUFFICES ASSUME NEW j \in 0..Window
              PROVE  Through(j)' <= 2 * Room + Owned(j)' + SharedWeight(j)'
  BY DEF Accounted, Room
<1>0. LimitShape
  BY DEF LimitInv
<1>1. Owned(j)' = Owned(j)
  BY DEF AllowOverflow, Owned, Weights, Weight
<1>2. Through(j) <= 2 * Room + Owned(j) + SharedWeight(j)
  BY DEF LimitInv, Accounted
<1>3. CASE OverflowAdmits(OverflowWindow)
  <2>1. Admit /\ overflow' = [OverflowWindow EXCEPT !.count = @ + 1]
    BY <1>3 DEF AllowOverflow
  <2>0. overflow.left \in Int /\ overflow.count \in Int
    BY <1>0 DEF LimitShape, LimitTypeOK
  <2>2. SharedWeight(j)' = SharedWeight(j) + 1
    <3>1. CASE Expired(overflow.left)
      <4>1. overflow'.count = 1 /\ overflow'.left = Window
        BY <2>1, <3>1 DEF OverflowWindow
      <4>. QED  BY <3>1, <4>1, RateLimitAssumption DEF SharedWeight, Expired
    <3>2. CASE ~Expired(overflow.left)
      <4>1. overflow'.count = overflow.count + 1 /\ overflow'.left = overflow.left
        BY <1>0, <2>1, <3>2 DEF OverflowWindow, LimitShape, LimitTypeOK
      <4>. QED  BY <2>0, <3>2, <4>1, RateLimitAssumption, RoomType DEF SharedWeight, Room
    <3>. QED  BY <3>1, <3>2
  <2>. QED  BY <1>0, <1>1, <1>2, <2>1, <2>2, AdmitOne, WeightTypes, RoomType
<1>4. CASE ~OverflowAdmits(OverflowWindow)
  <2>1. UNCHANGED admitted /\ overflow' = OverflowWindow
    BY <1>4 DEF AllowOverflow
  <2>2. SharedWeight(j)' = SharedWeight(j)
    <3>1. CASE Expired(overflow.left)
      <4>1. overflow'.count = 0 /\ overflow'.left = Window
        BY <2>1, <3>1 DEF OverflowWindow
      <4>. QED  BY <3>1, <4>1, RateLimitAssumption DEF SharedWeight, Expired
    <3>2. CASE ~Expired(overflow.left)
      <4>1. overflow' = overflow
        BY <2>1, <3>2 DEF OverflowWindow
      <4>. QED  BY <4>1 DEF SharedWeight, Expired, Room
    <3>. QED  BY <3>1, <3>2
  <2>3. Through(j)' = Through(j)
    BY <2>1 DEF Through
  <2>. QED  BY <1>1, <1>2, <2>2, <2>3
<1>. QED  BY <1>3, <1>4

\* What the last ticks have seen, a tick later.
LEMMA ThroughShifts ==
  ASSUME LimitShape, LimitTick, NEW j \in 0..Window
  PROVE  Through(j)' = IF j = 0 THEN 0 ELSE Through(j - 1)
<1>0. admitted' = [t \in 0..Window |-> IF t = 0 THEN 0 ELSE admitted[t - 1]]
  BY DEF LimitTick
<1>1. PICK f : f = admitted /\ f \in [0..Window -> Nat]
  BY DEF LimitShape, LimitTypeOK
<1>2. PICK g : g = admitted' /\ g \in [0..Window -> Nat]
  <2>1. \A t \in 0..Window : t # 0 => t - 1 \in 0..Window
    BY RateLimitAssumption
  <2>2. \A t \in 0..Window : (IF t = 0 THEN 0 ELSE f[t - 1]) \in Nat
    BY <1>1, <2>1
  <2>3. admitted' = [t \in 0..Window |-> IF t = 0 THEN 0 ELSE f[t - 1]]
    BY <1>0, <1>1
  <2>. QED  BY <2>2, <2>3
<1>3. g[0] = 0 /\ \A t \in 0..Window : t # 0 => g[t] = f[t - 1]
  BY <1>0, <1>1, <1>2, RateLimitAssumption
<1>4. ASSUME NEW n \in Nat, n <= Window
      PROVE  IsFiniteSet(0..n) /\ SumFunctionOnSet(g, 0..n) \in Int /\ SumFunctionOnSet(f, 0..n) \in Int
  <2>1. IsFiniteSet(0..n) /\ 0..n \subseteq 0..Window
    BY <1>4, FS_Interval, RateLimitAssumption
  <2>2. \A t \in 0..n : f[t] \in Int /\ g[t] \in Int
    BY <1>1, <1>2, <2>1
  <2>. QED  BY <2>1, <2>2, SumInt
<1>5. ASSUME NEW n \in Nat, n + 1 <= Window, NEW h \in [0..Window -> Nat]
      PROVE  SumFunctionOnSet(h, 0..(n + 1)) = SumFunctionOnSet(h, 0..n) + h[n + 1]
  <2>1. IsFiniteSet(0..n) /\ n + 1 \notin 0..n
    BY FS_Interval
  <2>2. 0..(n + 1) = (0..n) \cup {n + 1}
    OBVIOUS
  <2>3. \A t \in (0..n) \cup {n + 1} : h[t] \in Int
    BY <1>5, RateLimitAssumption
  <2>4. SumFunctionOnSet(h, (0..n) \cup {n + 1}) = SumFunctionOnSet(h, 0..n) + h[n + 1]
    BY <2>1, <2>3, SumAdd
  <2>. QED  BY <2>2, <2>4
<1>6. SumFunctionOnSet(g, 0..0) = 0
  <2>1. 0..0 = {0}
    OBVIOUS
  <2>2. IsFiniteSet({}) /\ {} \cup {0} = {0} /\ 0 \notin {} /\ g[0] \in Int
    BY <1>3, FS_EmptySet
  <2>3. SumFunctionOnSet(g, {} \cup {0}) = SumFunctionOnSet(g, {}) + g[0]
    BY <2>2, SumAdd
  <2>. QED  BY <1>3, <2>1, <2>2, <2>3, SumEmpty
<1>. DEFINE T == {n \in Nat : n + 1 <= Window => SumFunctionOnSet(g, 0..(n + 1)) = SumFunctionOnSet(f, 0..n)}
<1>7. 0 \in T
  <2>. SUFFICES ASSUME 0 + 1 <= Window  PROVE SumFunctionOnSet(g, 0..(0 + 1)) = SumFunctionOnSet(f, 0..0)
    OBVIOUS
  <2>1. SumFunctionOnSet(g, 0..(0 + 1)) = SumFunctionOnSet(g, 0..0) + g[0 + 1]
    BY <1>2, <1>5
  <2>2. g[0 + 1] = f[0] /\ f[0] \in Int
    BY <1>1, <1>3, RateLimitAssumption
  <2>3. 0..0 = {} \cup {0} /\ IsFiniteSet({}) /\ 0 \notin {}
    BY FS_EmptySet
  <2>4. SumFunctionOnSet(f, {} \cup {0}) = SumFunctionOnSet(f, {}) + f[0]
    BY <2>2, <2>3, SumAdd
  <2>. QED  BY <1>6, <2>1, <2>2, <2>3, <2>4, SumEmpty
<1>8. ASSUME NEW n \in Nat, n \in T  PROVE n + 1 \in T
  <2>. SUFFICES ASSUME (n + 1) + 1 <= Window
                PROVE  SumFunctionOnSet(g, 0..((n + 1) + 1)) = SumFunctionOnSet(f, 0..(n + 1))
    OBVIOUS
  <2>1. SumFunctionOnSet(g, 0..(n + 1)) = SumFunctionOnSet(f, 0..n) /\ n + 1 \in Nat /\ n + 1 <= Window
    BY <1>8, RateLimitAssumption
  <2>2. SumFunctionOnSet(g, 0..((n + 1) + 1)) = SumFunctionOnSet(g, 0..(n + 1)) + g[(n + 1) + 1]
    BY <1>2, <1>5, <2>1
  <2>3. SumFunctionOnSet(f, 0..(n + 1)) = SumFunctionOnSet(f, 0..n) + f[n + 1]
    BY <1>1, <1>5, <2>1
  <2>4. g[(n + 1) + 1] = f[n + 1]
    <3>1. (n + 1) + 1 \in 0..Window /\ (n + 1) + 1 # 0 /\ ((n + 1) + 1) - 1 = n + 1
      BY RateLimitAssumption
    <3>. QED  BY <1>3, <3>1
  <2>. QED  BY <2>1, <2>2, <2>3, <2>4
<1>9. \A n \in Nat : n \in T
  <2>. HIDE DEF T
  <2>. QED  BY <1>7, <1>8, NumberInduction
<1>10. SumFunctionOnSet(g, 0..j) = IF j = 0 THEN 0 ELSE SumFunctionOnSet(f, 0..(j - 1))
  <2>1. CASE j = 0
    BY <1>6, <2>1
  <2>2. CASE j # 0
    <3>1. j - 1 \in Nat /\ (j - 1) + 1 = j /\ j <= Window
      BY <2>2, RateLimitAssumption
    <3>2. j - 1 \in T
      <4>. HIDE DEF T
      <4>. QED  BY <1>9, <3>1
    <3>. QED  BY <2>2, <3>1, <3>2
  <2>. QED  BY <2>1, <2>2
<1>. QED  BY <1>1, <1>2, <1>10 DEF Through

\* A tick: what was let through a tick ago is a tick older, and so are the windows; those
\* that were young stay, and those that end had nothing to gain.  The last tick begins with
\* nothing let through, and every window there is may still let through what it has room for.
LEMMA TickAccounted ==
  ASSUME LimitInv, LimitShape', LimitTick
  PROVE  Accounted'
<1>. SUFFICES ASSUME NEW j \in 0..Window
              PROVE  Through(j)' <= 2 * Room + Owned(j)' + SharedWeight(j)'
  BY DEF Accounted, Room
<1>0. LimitShape
  BY DEF LimitInv
<1>1. PICK g : g = Weights(j)'
  OBVIOUS
<1>2. \A k \in Callers : g[k] = IF Expired(left'[k]) THEN 0
                                ELSE IF Window - left'[k] <= j THEN count[k] ELSE count[k] - Limit
  BY <1>1 DEF Weights, Weight, LimitTick
<1>3. \A k \in Callers : /\ left'[k] = IF Expired(left[k]) THEN -1 ELSE left[k] - 1
                         /\ left[k] \in -1..Window /\ count[k] \in 0..Limit
  BY <1>0 DEF LimitTick, LimitShape, LimitTypeOK
<1>4. \A k \in Callers : g[k] \in Int
  BY <1>2, <1>3, RateLimitAssumption DEF Expired
<1>5. Owned(j)' = SumFunctionOnSet(g, Callers)
  BY <1>1 DEF Owned
<1>6. overflow' = [overflow EXCEPT !.left = IF Expired(@) THEN -1 ELSE @ - 1]
  BY DEF LimitTick
<1>7. /\ overflow'.left = (IF Expired(overflow.left) THEN -1 ELSE overflow.left - 1)
      /\ overflow'.count = overflow.count
      /\ overflow.left \in -1..Window /\ overflow.count \in 0..Room
  BY <1>0, <1>6, RoomType DEF LimitShape, LimitTypeOK
<1>8. CASE j = 0
  <2>1. Through(j)' = 0
    BY <1>0, <1>8, ThroughShifts
  <2>2. -Room <= Owned(j)'
    <3>1. \A k \in Callers : -Limit <= g[k] /\ (k \notin tracked => g[k] = 0)
      BY <1>0, <1>2, <1>3, RateLimitAssumption DEF Expired, LimitShape
    <3>2. tracked \in SUBSET Callers /\ IsFiniteSet(tracked) /\ Cardinality(tracked) \in Nat
      BY <1>0, TrackedIsFinite DEF LimitShape, LimitTypeOK
    <3>3. SumFunctionOnSet(g, Callers) = SumFunctionOnSet(g, tracked)
      BY <1>4, <3>1, <3>2, RateLimitAssumption, SumOfPart
    <3>4. Cardinality(tracked) * (-Limit) <= SumFunctionOnSet(g, tracked)
      <4>1. -Limit \in Int
        BY RateLimitAssumption
      <4>. QED  BY <1>4, <3>1, <3>2, <4>1, SumAtLeast
    <3>5. Cardinality(tracked) * Limit <= MaxKeys * Limit /\ Cardinality(tracked) * Limit \in Nat
      BY <1>0, <3>2, RateLimitAssumption, ProductMonotone DEF LimitShape, LimitTypeOK
    <3>6. MaxKeys * Limit = Room /\ Cardinality(tracked) * (-Limit) = -(Cardinality(tracked) * Limit)
      BY <3>2, RateLimitAssumption DEF Room
    <3>7. SumFunctionOnSet(g, tracked) \in Int
      BY <1>4, <3>2, SumInt
    <3>. QED  BY <1>5, <3>3, <3>4, <3>5, <3>6, <3>7, RoomType
  <2>3. -Room <= SharedWeight(j)' /\ SharedWeight(j)' \in Int
    BY <1>7, RateLimitAssumption, RoomType DEF SharedWeight, Expired, Room
  <2>4. Owned(j)' \in Int
    BY <1>4, <1>5, RateLimitAssumption, SumInt
  <2>. QED  BY <2>1, <2>2, <2>3, <2>4, RoomType
<1>9. CASE j # 0
  <2>0. PICK i \in 0..Window : i = j - 1
    BY <1>9, RateLimitAssumption
  <2>1. Through(j)' = Through(i)
    BY <1>0, <1>9, <2>0, ThroughShifts
  <2>2. PICK f : f = Weights(i)
    OBVIOUS
  <2>3. \A k \in Callers : f[k] = IF Expired(left[k]) THEN 0
                                  ELSE IF Window - left[k] <= i THEN count[k] ELSE count[k] - Limit
    BY <2>2 DEF Weights, Weight
  <2>4. \A k \in Callers : f[k] \in Int /\ f[k] <= g[k]
    BY <1>2, <1>3, <2>0, <2>3, RateLimitAssumption DEF Expired
  <2>5. SumFunctionOnSet(f, Callers) <= SumFunctionOnSet(g, Callers)
    BY <1>4, <2>4, RateLimitAssumption, SumMonotone
  <2>6. Owned(i) <= Owned(j)'
    BY <1>5, <2>2, <2>5 DEF Owned
  <2>7. SharedWeight(i) <= SharedWeight(j)' /\ SharedWeight(j)' \in Int
    BY <1>7, <2>0, RateLimitAssumption, RoomType DEF SharedWeight, Expired, Room
  <2>8. Through(i) <= 2 * Room + Owned(i) + SharedWeight(i)
    BY DEF LimitInv, Accounted
  <2>9. Owned(j)' \in Int
    BY <1>4, <1>5, RateLimitAssumption, SumInt
  <2>. QED  BY <1>0, <2>1, <2>6, <2>7, <2>8, <2>9, WeightTypes, RoomType
<1>. QED  BY <1>8, <1>9

\* At first nothing was let through, and no window has begun.
LEMMA LimitInitInv == LimitInit => LimitInv
<1>. SUFFICES ASSUME LimitInit  PROVE LimitInv
  OBVIOUS
<1>1. LimitShape
  BY RateLimitAssumption, RoomType, FS_EmptySet DEF LimitInit, LimitShape, LimitTypeOK, Expired
<1>2. ASSUME NEW j \in 0..Window  PROVE Through(j) = 0 /\ Owned(j) = 0 /\ SharedWeight(j) = 0
  <2>1. IsFiniteSet(0..j) /\ 0..j \subseteq 0..Window
    BY FS_Interval, RateLimitAssumption
  <2>2. \A t \in 0..j : admitted[t] = 0
    BY <2>1 DEF LimitInit
  <2>3. Through(j) = 0
    BY <2>1, <2>2, SumZero DEF Through
  <2>4. \A k \in Callers : Weights(j)[k] = 0
    BY DEF Weights, Weight, LimitInit, Expired
  <2>5. Owned(j) = 0
    BY <2>4, RateLimitAssumption, SumZero DEF Owned
  <2>6. SharedWeight(j) = 0
    BY DEF SharedWeight, LimitInit, Expired
  <2>. QED  BY <2>3, <2>5, <2>6
<1>3. Accounted
  BY <1>2, RoomType DEF Accounted
<1>. QED  BY <1>1, <1>3 DEF LimitInv

\* A request is let through, or not, in every stretch of ticks.
LEMMA AdmittedType ==
  ASSUME LimitShape, Admit \/ UNCHANGED admitted
  PROVE  admitted' \in [0..Window -> Nat]
<1>1. admitted \in [0..Window -> Nat]
  BY DEF LimitShape, LimitTypeOK
<1>2. CASE Admit
  <2>1. 0 \in 0..Window
    BY RateLimitAssumption
  <2>. QED  BY <1>1, <1>2, <2>1 DEF Admit
<1>3. CASE UNCHANGED admitted
  BY <1>1, <1>3
<1>. QED  BY <1>2, <1>3

\* Reclaiming drops expired windows only.
LEMMA KeptWindows ==
  ASSUME LimitShape
  PROVE  /\ Kept \subseteq tracked /\ IsFiniteSet(Kept)
         /\ Cardinality(Kept) \in Nat /\ Cardinality(Kept) <= MaxKeys
         /\ \A k \in tracked \ Kept : Expired(left[k])
<1>1. Kept \subseteq tracked /\ \A k \in tracked \ Kept : Expired(left[k])
  BY DEF Kept, Live
<1>2. IsFiniteSet(tracked) /\ Cardinality(tracked) \in Nat /\ Cardinality(tracked) <= MaxKeys
  BY TrackedIsFinite DEF LimitShape, LimitTypeOK
<1>3. IsFiniteSet(Kept) /\ Cardinality(Kept) <= Cardinality(tracked)
  BY <1>1, <1>2, FS_Subset
<1>4. Cardinality(Kept) \in Nat
  BY <1>3, FS_CardinalityType
<1>. QED  BY <1>1, <1>2, <1>3, <1>4, RateLimitAssumption

\* Each branch of allow, and a tick, keep the types, and the map within its bound.
LEMMA AllowTrackedShape ==
  ASSUME LimitShape, NEW k \in Callers, AllowTracked(k)
  PROVE  LimitShape'
<1>1. count' \in [Callers -> 0..Limit] /\ left' \in [Callers -> -1..Window]
  BY RateLimitAssumption DEF AllowTracked, LimitShape, LimitTypeOK
<1>2. admitted' \in [0..Window -> Nat]
  BY AdmittedType DEF AllowTracked
<1>3. \A i \in Callers \ tracked : Expired(left'[i])
  BY DEF AllowTracked, LimitShape, LimitTypeOK
<1>. QED  BY <1>1, <1>2, <1>3 DEF AllowTracked, LimitShape, LimitTypeOK, Room

\* A new caller finds room in the map, after reclaimExpired if that was due.
LEMMA AllowNewShape ==
  ASSUME LimitShape, NEW k \in Callers, AllowNew(k)
  PROVE  LimitShape'
<1>1. count' \in [Callers -> 0..Limit] /\ left' \in [Callers -> -1..Window]
  BY RateLimitAssumption DEF AllowNew, LimitShape, LimitTypeOK
<1>2. admitted' \in [0..Window -> Nat]
  BY AdmittedType DEF AllowNew
<1>3. \A i \in Callers \ tracked' : Expired(left'[i])
  BY KeptWindows DEF AllowNew, LimitShape, LimitTypeOK
<1>4. tracked' \subseteq Callers /\ Cardinality(tracked') <= MaxKeys
  <2>1. k \notin Kept /\ IsFiniteSet(Kept) /\ Kept \subseteq Callers /\ Cardinality(Kept) \in Nat
    BY KeptWindows DEF AllowNew, LimitShape, LimitTypeOK
  <2>2. PICK R : R = Kept
    OBVIOUS
  <2>3. Cardinality(R \cup {k}) = Cardinality(R) + 1
    BY <2>1, <2>2, FS_AddElement
  <2>. QED  BY <2>1, <2>2, <2>3, RateLimitAssumption DEF AllowNew
<1>5. sinceReclaim' \in 0..Window
  BY RateLimitAssumption DEF AllowNew, Reclaimed, LimitShape, LimitTypeOK
<1>. QED  BY <1>1, <1>2, <1>3, <1>4, <1>5 DEF AllowNew, LimitShape, LimitTypeOK, Room

\* The shared window lets no more through than its room.
LEMMA AllowOverflowShape ==
  ASSUME LimitShape, NEW k \in Callers, AllowOverflow(k)
  PROVE  LimitShape'
<1>1. admitted' \in [0..Window -> Nat]
  BY AdmittedType DEF AllowOverflow
<1>2. \A i \in Callers \ tracked' : Expired(left'[i])
  BY KeptWindows DEF AllowOverflow, LimitShape, LimitTypeOK
<1>3. tracked' \subseteq Callers /\ Cardinality(tracked') <= MaxKeys
  BY KeptWindows DEF AllowOverflow, LimitShape, LimitTypeOK
<1>4. sinceReclaim' \in 0..Window
  BY RateLimitAssumption DEF AllowOverflow, Reclaimed, LimitShape, LimitTypeOK
<1>5. overflow' \in [count : Nat, left : -1..Window] /\ overflow'.count <= Room
  <2>1. PICK w \in [count : Nat, left : -1..Window] : w = OverflowWindow
    <3>1. [count |-> 0, left |-> Window] \in [count : Nat, left : -1..Window]
      BY RateLimitAssumption
    <3>. QED  BY <3>1 DEF OverflowWindow, LimitShape, LimitTypeOK
  <2>2. w.count <= Room
    BY <2>1, RoomType DEF OverflowWindow, LimitShape
  <2>3. CASE OverflowAdmits(w)
    <3>1. overflow' = [w EXCEPT !.count = @ + 1]
      BY <2>1, <2>3 DEF AllowOverflow
    <3>. QED  BY <2>3, <3>1, RoomType DEF OverflowAdmits, Room
  <2>4. CASE ~OverflowAdmits(w)
    <3>1. overflow' = w
      BY <2>1, <2>4 DEF AllowOverflow
    <3>. QED  BY <2>2, <3>1
  <2>. QED  BY <2>3, <2>4
<1>. QED  BY <1>1, <1>2, <1>3, <1>4, <1>5 DEF AllowOverflow, LimitShape, LimitTypeOK, Room

\* A tick ends windows, and begins none.
LEMMA LimitTickShape ==
  ASSUME LimitShape, LimitTick
  PROVE  LimitShape'
<1>1. left' \in [Callers -> -1..Window] /\ \A k \in Callers \ tracked : Expired(left'[k])
  BY RateLimitAssumption DEF LimitTick, Expired, LimitShape, LimitTypeOK
<1>2. overflow' \in [count : Nat, left : -1..Window] /\ overflow'.count = overflow.count
  <2>1. overflow' = [overflow EXCEPT !.left = IF Expired(@) THEN -1 ELSE @ - 1]
    BY DEF LimitTick
  <2>2. PICK n \in -1..Window : n = IF Expired(overflow.left) THEN -1 ELSE overflow.left - 1
    BY RateLimitAssumption DEF Expired, LimitShape, LimitTypeOK
  <2>3. overflow' = [overflow EXCEPT !.left = n]
    BY <2>1, <2>2
  <2>. QED  BY <2>3 DEF LimitShape, LimitTypeOK
<1>3. sinceReclaim' \in 0..Window
  BY RateLimitAssumption DEF LimitTick, LimitShape, LimitTypeOK
<1>4. admitted' \in [0..Window -> Nat]
  <2>1. \A t \in 0..Window : t # 0 => t - 1 \in 0..Window
    BY RateLimitAssumption
  <2>2. \A t \in 0..Window : (IF t = 0 THEN 0 ELSE admitted[t - 1]) \in Nat
    BY <2>1 DEF LimitShape, LimitTypeOK
  <2>. QED  BY <2>2 DEF LimitTick
<1>. QED  BY <1>1, <1>2, <1>3, <1>4 DEF LimitTick, LimitShape, LimitTypeOK, Room

\* Every branch of allow, and every tick, keeps the account.
LEMMA LimitStepInv == LimitInv /\ [LimitNext]_limitVars => LimitInv'
<1>. SUFFICES ASSUME LimitInv, [LimitNext]_limitVars  PROVE LimitInv'
  OBVIOUS
<1>0. LimitShape
  BY DEF LimitInv
<1>1. ASSUME NEW k \in Callers, AllowTracked(k)  PROVE LimitInv'
  <2>1. LimitShape'
    BY <1>0, <1>1, AllowTrackedShape
  <2>2. /\ \A i \in Callers \ {k} : left'[i] = left[i] /\ count'[i] = count[i]
        /\ \/ Expired(left[k]) /\ left'[k] = Window /\ count'[k] = 1
           \/ ~Expired(left[k]) /\ left'[k] = left[k] /\ count'[k] = count[k] + 1
    BY <1>0, <1>1 DEF AllowTracked, LimitShape, LimitTypeOK
  <2>. QED  BY <1>1, <2>1, <2>2, OwnWindow DEF AllowTracked, LimitInv
<1>2. ASSUME NEW k \in Callers, AllowNew(k)  PROVE LimitInv'
  <2>1. LimitShape'
    BY <1>0, <1>2, AllowNewShape
  <2>2. /\ \A i \in Callers \ {k} : left'[i] = left[i] /\ count'[i] = count[i]
        /\ Expired(left[k]) /\ left'[k] = Window /\ count'[k] = 1
    BY <1>0, <1>2 DEF AllowNew, LimitShape, LimitTypeOK
  <2>. QED  BY <1>2, <2>1, <2>2, OwnWindow DEF AllowNew, LimitInv
<1>3. ASSUME NEW k \in Callers, AllowOverflow(k)  PROVE LimitInv'
  BY <1>0, <1>3, AllowOverflowShape, SharedWindow DEF LimitInv
<1>4. CASE LimitTick
  BY <1>0, <1>4, LimitTickShape, TickAccounted DEF LimitInv
<1>5. CASE UNCHANGED limitVars
  BY <1>5 DEF limitVars, LimitInv, LimitShape, LimitTypeOK, Accounted, Through, Owned, Weights, Weight,
              SharedWeight, Room
<1>. QED  BY <1>1, <1>2, <1>3, <1>4, <1>5 DEF LimitNext

\* The types of the limiter, and the bound of its map.
THEOREM LimitTypeOKHolds == LimitSpec => []LimitTypeOK
<1>1. LimitInv => LimitTypeOK
  BY DEF LimitInv, LimitShape
<1>. QED  BY <1>1, LimitInitInv, LimitStepInv, PTL DEF LimitSpec

\* However many callers come while Redis is away, they get no more through in a window than
\* two of every window the map has room for, and of the shared one, allow
\* (fallbackLimiter.allow, allowOverflow).
THEOREM FloodBoundedHolds == LimitSpec => []FloodBounded
<1>. QED  BY AccountedIsBounded, LimitInitInv, LimitStepInv, PTL DEF LimitSpec
-----------------------------------------------------------------------------
(****************************************************************************)
(* The composition.  Every step of it is a step of one part and stutters in *)
(* the others, so the conjunction of the invariants of the parts is         *)
(* inductive; what LifeTypeOK and NoteTypeOK say and those invariants do    *)
(* not need is added to them.                                               *)
(****************************************************************************)
LifeRest ==
  /\ signalled \in BOOLEAN /\ told \subseteq Tasks
  /\ Range(opened) \subseteq Range(Boot[kind])

\* A process opens what its boot list names, and nothing else.
LEMMA LifeStepTypes ==
  LifeInv /\ LifeRest /\ [LifeNext]_lifeVars => LifeRest'
<1>. SUFFICES ASSUME LifeInv, LifeRest, [LifeNext]_lifeVars  PROVE LifeRest'
  OBVIOUS
<1>0. kind \in Kinds /\ opened \in Seq(Resources)
  BY DEF LifeInv, LifeShape
<1>1. CASE Open
  <2>1. PICK i \in {Booted + 1, Booted + 2} : i <= Len(Boot[kind]) /\ opened' = Append(opened, Boot[kind][i])
    BY <1>1 DEF Open
  <2>2. Booted \in Nat
    <3>1. CASE opened = <<>>
      BY <3>1 DEF Booted
    <3>2. CASE opened # <<>>
      <4>1. \E n \in 1..Len(Boot[kind]) : Boot[kind][n] = Last(opened)
        BY <1>1, <3>2 DEF Open, LifeInv, ShutdownOrder
      <4>2. Booted \in 1..Len(Boot[kind])
        BY <3>2, <4>1 DEF Booted
      <4>. QED  BY <1>0, <4>2, BootResources
    <3>. QED  BY <3>1, <3>2
  <2>3. i \in 1..Len(Boot[kind])
    BY <1>0, <2>1, <2>2, BootResources
  <2>4. DOMAIN Boot[kind] = 1..Len(Boot[kind])
    BY <1>0 DEF Kinds, Boot
  <2>5. Boot[kind][i] \in Range(Boot[kind])
    BY <2>3, <2>4 DEF Range
  <2>6. Range(Append(opened, Boot[kind][i])) \subseteq Range(opened) \cup {Boot[kind][i]}
    BY <1>0 DEF Range
  <2>. QED  BY <1>1, <2>1, <2>5, <2>6 DEF Open, LifeRest
<1>2. CASE CloseLast
  <2>1. Range(Front(opened)) \subseteq Range(opened)
    BY <1>0, <1>2 DEF Range, Front, CloseLast
  <2>. QED  BY <1>2, <2>1 DEF CloseLast, LifeRest
<1>3. ASSUME NEW t \in Tasks, RunTask(t)  PROVE LifeRest'
  BY <1>3 DEF RunTask, BeginTask, Query, EndQuery, Read, EndRead, Finish, LifeRest
<1>4. CASE BootFails \/ Start \/ ServeFails \/ Signal \/ Shutdown \/ WaitTick \/ SoftStop \/ Drained \/ TimesOut
           \/ Exit \/ Restart
  BY <1>4 DEF BootFails, Start, ServeFails, Signal, Shutdown, WaitTick, SoftStop, Drained, TimesOut, Exit, Restart,
              Return, Unfinished, LifeRest
<1>5. CASE UNCHANGED lifeVars
  BY <1>5 DEF lifeVars, LifeRest
<1>. QED  BY <1>1, <1>2, <1>3, <1>4, <1>5 DEF LifeNext

\* Rows of notifications, and the jobs that send them.
SendStates == {"none", "available", "running", "completed", "discarded"}

NoteRows ==
  /\ note \in [Notes -> {"absent", "unread", "read"}]
  /\ sendJob \in [Notes -> [state : SendStates, attempt : 0..MaxAttempts]]
  /\ \A n \in Notes : sendJob[n].state = "available" => sendJob[n].attempt < MaxAttempts

\* A job that waits has an attempt left.
LEMMA NoteStepRows ==
  NoteInv /\ NoteRows /\ [NoteNext]_noteVars => NoteRows'
<1>. SUFFICES ASSUME NoteInv, NoteRows, [NoteNext]_noteVars  PROVE NoteRows'
  OBVIOUS
<1>0. \A r \in NoteRequests : noteReq[r].note \in Notes
  BY DEF NoteInv, NoteShape
<1>1. ASSUME NEW r \in NoteRequests, NEW n \in Notes, CreateNote(r, n) \/ MarkRead(r, n)  PROVE NoteRows'
  BY <1>1 DEF CreateNote, MarkRead, NoteRows
<1>2. ASSUME NEW r \in NoteRequests, CreateNoteCommit(r)  PROVE NoteRows'
  <2>1. PICK n \in Notes : n = noteReq[r].note
    BY <1>0
  <2>2. PICK job \in [state : SendStates, attempt : 0..MaxAttempts] :
          job = [state |-> "available", attempt |-> 0] /\ job.attempt < MaxAttempts
    <3>1. "available" \in SendStates /\ 0 \in 0..MaxAttempts /\ 0 < MaxAttempts
      BY NotificationAssumption DEF SendStates
    <3>2. [state |-> "available", attempt |-> 0] \in [state : SendStates, attempt : 0..MaxAttempts]
      BY <3>1
    <3>3. [state |-> "available", attempt |-> 0].attempt = 0
      OBVIOUS
    <3>. QED  BY <3>1, <3>2, <3>3
  <2>3. sendJob' = [sendJob EXCEPT ![n] = job] /\ note' = [note EXCEPT ![n] = "unread"]
    BY <1>2, <2>1, <2>2 DEF CreateNoteCommit
  <2>. QED  BY <2>2, <2>3 DEF NoteRows
<1>3. ASSUME NEW r \in NoteRequests,
             NoteFails(r) \/ MarkReadAdjust(r) \/ MarkAllRead(r) \/ MarkAllReadStore(r) \/ CountRows(r) \/ CountStore(r)
      PROVE  NoteRows'
  BY <1>3 DEF NoteFails, MarkReadAdjust, MarkAllRead, MarkAllReadStore, CountRows, CountStore, NoteRows
<1>4. CASE NoteTick \/ LoseKey
  BY <1>4 DEF NoteTick, LoseKey, NoteRows
<1>5. ASSUME NEW n \in Notes, FetchSend(n)  PROVE NoteRows'
  <2>1. PICK job \in [state : SendStates, attempt : 0..MaxAttempts] :
          job = [state |-> "running", attempt |-> sendJob[n].attempt + 1]
    BY <1>5, NotificationAssumption DEF FetchSend, NoteRows, SendStates
  <2>2. sendJob' = [sendJob EXCEPT ![n] = job] /\ job.state # "available" /\ UNCHANGED note
    BY <1>5, <2>1 DEF FetchSend
  <2>. QED  BY <2>2 DEF NoteRows
<1>6. ASSUME NEW n \in Notes, NEW state \in {"completed", "available", "discarded"}, Send(n, state)  PROVE NoteRows'
  <2>1. PICK job \in [state : SendStates, attempt : 0..MaxAttempts] : job = [sendJob[n] EXCEPT !.state = state]
    BY DEF NoteRows, SendStates
  <2>2. sendJob' = [sendJob EXCEPT ![n] = job] /\ UNCHANGED note
    BY <1>6, <2>1 DEF Send, NoteRows
  <2>3. job.state = "available" => job.attempt < MaxAttempts
    BY <1>6, <2>1 DEF Send, NoteRows
  <2>. QED  BY <2>2, <2>3 DEF NoteRows
<1>7. CASE UNCHANGED noteVars
  BY <1>7 DEF noteVars, NoteRows
<1>. QED  BY <1>1, <1>2, <1>3, <1>4, <1>5, <1>6, <1>7 DEF NoteNext, Work

\* Every part keeps its own invariant, whichever of them runs.
PlatformInv ==
  TypeOK /\ LimitInv /\ CacheInv /\ NoteInv /\ NoteRows /\ LifeInv /\ LifeRest

\* The parts start well, the process too, whether it boots or has ended.
LEMMA PlatformInitInv == PlatformInit => PlatformInv
<1>. SUFFICES ASSUME PlatformInit  PROVE PlatformInv
  OBVIOUS
<1>1. TypeOK /\ LimitInv /\ CacheInv /\ NoteInv
  BY BreakerInitTypeOK, LimitInitInv, CacheInitInv, NoteInitInv DEF PlatformInit
<1>2. NoteRows
  <2>1. NoJob \in [state : SendStates, attempt : 0..MaxAttempts] /\ NoJob.state # "available"
    BY NotificationAssumption DEF NoJob, SendStates
  <2>. QED  BY <2>1 DEF PlatformInit, NoteInit, NoteRows
<1>3. Range(<< >>) = {}
  BY DEF Range
<1>4. ASSUME LifeInit  PROVE LifeInv /\ LifeRest
  <2>1. opened = << >> /\ signalled = FALSE /\ told = {}
    BY <1>4 DEF LifeInit
  <2>. QED  BY <1>3, <1>4, <2>1, LifeInitInv DEF LifeRest
<1>5. ASSUME NotRunning  PROVE LifeInv /\ LifeRest
  <2>1. <<>> \in Seq(Resources)
    OBVIOUS
  <2>2. LifeShape
    BY <1>5, <2>1, LifecycleAssumption DEF NotRunning, LifeShape, Kinds
  <2>3. TasksHoldPools /\ ShutdownOrder /\ OrderlyExit /\ LifeRest
    BY <1>3, <1>5 DEF NotRunning, TasksHoldPools, ShutdownOrder, OrderlyExit, GracefulMeansIdle,
                      NoQueryCut, ToldBeforeAbandoned, LifeRest, Unfinished
  <2>. QED  BY <2>2, <2>3 DEF LifeInv
<1>6. LifeInit \/ NotRunning
  BY DEF PlatformInit
<1>. QED  BY <1>1, <1>2, <1>4, <1>5, <1>6 DEF PlatformInv

\* The step of the composition is a step, or none, of each part.
LEMMA PlatformStepInv == PlatformInv /\ [PlatformNext]_platformVars => PlatformInv'
<1>. SUFFICES ASSUME PlatformInv, [PlatformNext]_platformVars  PROVE PlatformInv'
  OBVIOUS
<1>1. /\ [Next]_vars /\ [LimitNext]_limitVars /\ [CacheNext]_cacheVars
      /\ [NoteNext]_noteVars /\ [LifeNext]_lifeVars
  BY DEF PlatformNext, platformVars
<1>. QED  BY <1>1, BreakerStepTypeOK, LimitStepInv, CacheStepInv, NoteStepInv, NoteStepRows, LifeStepInv,
             LifeStepTypes DEF PlatformInv

\* So every part keeps its invariant.
LEMMA PlatformInvariant == PlatformSpec => []PlatformInv
BY PlatformInitInv, PlatformStepInv, PTL DEF PlatformSpec

\* The invariants of the parts imply what the run checks.
LEMMA PlatformInvIsEnough ==
  PlatformInv => PlatformTypeOK /\ FloodBounded /\ BoundedStaleness /\ CounterHeals /\ OrderlyExit
<1>. SUFFICES ASSUME PlatformInv
              PROVE  PlatformTypeOK /\ FloodBounded /\ BoundedStaleness /\ CounterHeals /\ OrderlyExit
  OBVIOUS
<1>1. FloodBounded /\ BoundedStaleness /\ CounterHeals /\ OrderlyExit
  BY AccountedIsBounded DEF PlatformInv, CacheInv, NoteInv, LifeInv
<1>2. TypeOK /\ LimitTypeOK /\ CacheTypeOK
  BY DEF PlatformInv, LimitInv, LimitShape, CacheInv
<1>3. NoteTypeOK
  <2>1. counter \in SUBSET [value : Int, left : Nat \ {0}]
    BY NotificationAssumption DEF PlatformInv, NoteInv, NoteShape
  <2>. QED  BY <2>1 DEF PlatformInv, NoteInv, NoteShape, NoteRows, NoteTypeOK, NoteSteps, SendStates
<1>4. LifeTypeOK
  BY DEF PlatformInv, LifeInv, LifeShape, LifeRest, LifeTypeOK
<1>. QED  BY <1>1, <1>2, <1>3, <1>4 DEF PlatformTypeOK

\* The types of every part, and the bounds of the streak of failures and of the limiter's
\* map, in the composition (circuitBreaker, fallbackLimiter, readThrough, service.go of the
\* notifications, RunContext).
THEOREM PlatformTypeOKHolds == PlatformSpec => []PlatformTypeOK
<1>1. PlatformInv => PlatformTypeOK
  BY PlatformInvIsEnough
<1>. QED  BY <1>1, PlatformInvariant, PTL

\* What each part promises by itself it promises in the composition.
THEOREM PlatformKeepsItsParts ==
  PlatformSpec => [](FloodBounded /\ BoundedStaleness /\ CounterHeals /\ OrderlyExit)
<1>1. PlatformInv => FloodBounded /\ BoundedStaleness /\ CounterHeals /\ OrderlyExit
  BY PlatformInvIsEnough
<1>. QED  BY <1>1, PlatformInvariant, PTL

\* The properties of steps too: if commands are shorter than the cooldown, probes run
\* alone and only a probe ends a cooldown (circuitBreaker.ReportResult); and no placeholder
\* replaces a row (readThrough.write).
THEOREM PlatformKeepsItsSteps ==
  ASSUME Timeout < Cooldown
  PROVE  PlatformSpec => []ProbeRunsAlone /\ OnlyProbeCloses /\ AbsentHidesNothing
<1>1. PlatformInit => BreakerInv
  BY BreakerInitInv DEF PlatformInit
<1>2. BreakerInv /\ [PlatformNext]_platformVars => BreakerInv'
  BY BreakerStepInv DEF PlatformNext, platformVars
<1>3. BreakerInv => ProbeRunsAlone
  BY DEF BreakerInv
<1>4. BreakerInv /\ [PlatformNext]_platformVars =>
        [open /\ ~open' => \E c \in Commands : cmd[c] = "probe" /\ cmd'[c] = "idle"]_vars
  BY StepCloses DEF PlatformNext, platformVars
<1>5. PlatformInv /\ [PlatformNext]_platformVars => [Hides]_cacheVars
  BY StepHides DEF PlatformNext, platformVars, PlatformInv
<1>. QED  BY <1>1, <1>2, <1>3, <1>4, <1>5, PlatformInvariant, PTL
          DEF PlatformSpec, OnlyProbeCloses, AbsentHidesNothing, Hides
===============================================================================
