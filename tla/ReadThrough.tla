------------------------------ MODULE ReadThrough -----------------------------
(****************************************************************************)
(* The read-through cache (platform/cache) over one key of the Redis        *)
(* decorators of category, product and promotion: any number of API         *)
(* processes, each of which lets one load of the key be under way at a      *)
(* time, writers that commit to PostgreSQL and then delete the key, and     *)
(* time in ticks.                                                           *)
(*                                                                          *)
(* Readers that join a flight get what it returns when it returns, so that  *)
(* a flight stands for all of them; one that hangs up leaves it running.    *)
(****************************************************************************)
EXTENDS Integers, FiniteSets

CONSTANTS
  Processes,
  RowValues,   \* what the row of the key may say
  NoRowValue,  \* there is no row
  Garbage,     \* an entry that no longer decodes
  Ttls,        \* what a decorator passes as the time to live
  AbsentTtl,   \* absentTTL
  Jitter,      \* how far jitter moves a time to live, at most
  FlightTime,  \* loadTimeout, and the time the Redis client gives a command
  MaxWriters,  \* bound on writers between their commit and their DEL
  MaxFalse     \* bound on the clocks of falseFor

Facts == RowValues \cup {NoRowValue}

ASSUME CacheAssumption ==
  /\ NoRowValue \notin RowValues /\ Garbage \notin Facts
  /\ Ttls \subseteq Nat
  /\ AbsentTtl \in Nat \ {0} /\ Jitter \in Nat /\ FlightTime \in Nat
  /\ MaxWriters \in Nat /\ MaxFalse \in Nat

VARIABLES
  row,       \* what PostgreSQL says
  entry,     \* the key: its value and the ticks it has left; {} when missing
  flight,    \* the load of each process
  deleting,  \* writers that have committed and have yet to delete the key
  falseFor   \* history: the ticks since each fact was last true

cacheVars == <<row, entry, flight, deleting, falseFor>>

NoFlight == [step |-> "none", value |-> NoRowValue, left |-> 0]

InFlight(p, step) == flight[p].step = step
Land(p) == flight' = [flight EXCEPT ![p] = NoFlight]

\* SET and SET NX with a time to live.
Put(v, ttl) == entry' = {[value |-> v, left |-> ttl]}

\* jitter
Jittered(ttl) == {d \in (ttl - Jitter)..(ttl + Jitter) : d > 0}

(****************************************************************************)
(* Take and fill.                                                           *)
(****************************************************************************)
Take(p) ==
  /\ InFlight(p, "none")
  /\ flight' = [flight EXCEPT ![p] = [step |-> "get", value |-> NoRowValue, left |-> FlightTime]]
  /\ UNCHANGED <<row, entry, deleting, falseFor>>

\* GET: a hit, or the placeholder, is the answer.
Hit(p) ==
  /\ InFlight(p, "get")
  /\ \E e \in entry : e.value # Garbage
  /\ Land(p)
  /\ UNCHANGED <<row, entry, deleting, falseFor>>

\* A miss, an entry that does not decode and is dropped, or Redis failing.
Miss(p) ==
  /\ InFlight(p, "get")
  /\ flight' = [flight EXCEPT ![p].step = "load"]
  /\ \/ UNCHANGED entry
     \/ (\E e \in entry : e.value = Garbage) /\ entry' = {}
  /\ UNCHANGED <<row, deleting, falseFor>>

Load(p) ==
  /\ InFlight(p, "load")
  /\ flight' = [flight EXCEPT ![p].step = "store", ![p].value = row]
  /\ UNCHANGED <<row, entry, deleting, falseFor>>

\* The loader fails, panics or takes too long; the write to Redis fails.
FlightFails(p) ==
  /\ ~InFlight(p, "none")
  /\ Land(p)
  /\ UNCHANGED <<row, entry, deleting, falseFor>>

StoreAbsent_Overwrites(p) ==
  /\ InFlight(p, "store") /\ flight[p].value = NoRowValue
  /\ \E d \in Jittered(AbsentTtl) : Put(NoRowValue, d)
  /\ Land(p)
  /\ UNCHANGED <<row, deleting, falseFor>>

\* The placeholder never replaces an entry.
StoreAbsent(p) ==
  /\ InFlight(p, "store") /\ flight[p].value = NoRowValue
  /\ IF entry = {} THEN \E d \in Jittered(AbsentTtl) : Put(NoRowValue, d) ELSE UNCHANGED entry
  /\ Land(p)
  /\ UNCHANGED <<row, deleting, falseFor>>

StoreValue_NoExpiry(p, ttl) ==
  /\ InFlight(p, "store") /\ flight[p].value # NoRowValue
  /\ IF ttl > 0 THEN \E d \in Jittered(ttl) : Put(flight[p].value, d) ELSE Put(flight[p].value, 2 * MaxFalse)
  /\ Land(p)
  /\ UNCHANGED <<row, deleting, falseFor>>

\* A time to live that is not positive would be none at all: nothing is cached.
StoreValue(p, ttl) ==
  /\ InFlight(p, "store") /\ flight[p].value # NoRowValue
  /\ IF ttl > 0 THEN \E d \in Jittered(ttl) : Put(flight[p].value, d) ELSE UNCHANGED entry
  /\ Land(p)
  /\ UNCHANGED <<row, deleting, falseFor>>

(****************************************************************************)
(* The decorators: the key is deleted once the write has committed.         *)
(****************************************************************************)
Commit(v) == row' = v /\ falseFor' = [falseFor EXCEPT ![v] = 0]

\* A write that comes with no DEL: a new row, or a row that takes its key from
\* another, of two renames that read the same previous key.
WriteOnly(v) ==
  /\ v # row
  /\ Commit(v)
  /\ UNCHANGED <<entry, flight, deleting>>

WriteThrough(v) ==
  /\ v # row /\ deleting < MaxWriters
  /\ Commit(v)
  /\ deleting' = deleting + 1
  /\ UNCHANGED <<entry, flight>>

Invalidate(fails) ==
  /\ deleting > 0
  /\ deleting' = deleting - 1
  /\ entry' = IF fails THEN entry ELSE {}
  /\ UNCHANGED <<row, flight, falseFor>>

\* A release with another encoding finds what the previous one stored.
Undecodable ==
  /\ entry' = {[e EXCEPT !.value = Garbage] : e \in entry}
  /\ entry' # entry
  /\ UNCHANGED <<row, flight, deleting, falseFor>>

\* Redis loses the key (eviction, a restart).
Evict ==
  /\ entry # {} /\ entry' = {}
  /\ UNCHANGED <<row, flight, deleting, falseFor>>

Aged(v) == IF v = row THEN 0 ELSE IF falseFor[v] < MaxFalse THEN falseFor[v] + 1 ELSE MaxFalse

\* A tick: an entry at its end is gone, and no flight outlives its time.
CacheTick ==
  /\ \A p \in Processes : InFlight(p, "none") \/ flight[p].left > 0
  /\ flight' = [p \in Processes |-> IF InFlight(p, "none") THEN flight[p] ELSE [flight[p] EXCEPT !.left = @ - 1]]
  /\ entry' = {[e EXCEPT !.left = @ - 1] : e \in {e \in entry : e.left > 1}}
  /\ falseFor' = [v \in Facts |-> Aged(v)]
  /\ UNCHANGED <<row, deleting>>

CacheInit ==
  /\ row \in Facts
  /\ entry = {} /\ deleting = 0
  /\ flight = [p \in Processes |-> NoFlight]
  /\ falseFor = [v \in Facts |-> IF v = row THEN 0 ELSE MaxFalse]

CacheNext ==
  \/ \E p \in Processes :
       \/ Take(p) \/ Hit(p) \/ Miss(p) \/ Load(p) \/ FlightFails(p) \/ StoreAbsent(p)
       \/ \E ttl \in Ttls : StoreValue(p, ttl)
  \/ \E v \in Facts : WriteOnly(v) \/ WriteThrough(v)
  \/ \E fails \in BOOLEAN : Invalidate(fails)
  \/ Undecodable \/ Evict \/ CacheTick

CacheSpec == CacheInit /\ [][CacheNext]_cacheVars

-----------------------------------------------------------------------------
Clock == 0..MaxFalse

CacheTypeOK ==
  /\ row \in Facts
  /\ entry \in SUBSET [value : Facts \cup {Garbage}, left : Nat \ {0}]
  /\ flight \in [Processes -> [step : {"none", "get", "load", "store"}, value : Facts, left : 0..FlightTime]]
  /\ deleting \in 0..MaxWriters
  /\ falseFor \in [Facts -> Clock]

\* The longest an entry for v lives.
LongestTtl(v) == IF v = NoRowValue THEN {AbsentTtl} ELSE Ttls

\* What is cached was true when its load was made: however deletes are lost and
\* loads overtake writes, no reader is served what stopped being true longer ago
\* than one flight and one time to live (ReadThrough.fill, the invalidate of the
\* decorators), and for a row that was missing that is the short one.
BoundedStaleness ==
  /\ \A p \in Processes : InFlight(p, "store") =>
       falseFor[flight[p].value] + flight[p].left <= FlightTime
  /\ \A e \in entry : e.value # Garbage =>
       \E ttl \in LongestTtl(e.value) : falseFor[e.value] + e.left <= FlightTime + ttl + Jitter

\* A load that found no row does not hide what a later load of another process has
\* cached since: its placeholder gives way (SetNX in ReadThrough.write).
AbsentHidesNothing ==
  [][\A e \in entry, f \in entry' : e.value \in RowValues => f.value # NoRowValue]_cacheVars
===============================================================================
