----------------------------- MODULE ReloadGate ------------------------------
(***************************************************************************)
(* The per-group throttle of POST /reload: ReloadGate::admit in            *)
(* src/src/router.rs.  The whole of admit runs under one mutex, so a call  *)
(* is one step, and the clock moves between calls.                         *)
(*                                                                         *)
(* A clock tick is a fraction of a second because as_secs() rounds down.   *)
(***************************************************************************)
EXTENDS Integers, FiniteSets, Functions

CONSTANTS
  Groups,           \* the group names clients put in the URL
  Intervals,        \* values of security.reload_min_interval_secs
  TicksPerSec,      \* resolution of Instant
  StaleMultiplier,  \* EVICT_STALE_MULTIPLIER: 10 in the code
  MaxEntries,       \* MAX_ENTRIES: 1024 in the code
  MaxTime           \* bound: the last tick the model runs to

ASSUME GateAssumption ==
  /\ IsFiniteSet(Groups)
  /\ Intervals \subseteq Nat
  /\ TicksPerSec \in Nat \ {0}
  /\ StaleMultiplier \in Nat \ {0}
  /\ MaxEntries \in Nat \ {0}
  /\ MaxTime \in Nat

VARIABLES
  interval,  \* min_interval_secs; never changes
  now,       \* Instant::now()
  last,      \* the map: from the groups it holds to their last admission
  answer,    \* what the call made in this step returned
  granted,   \* history: when each group was last admitted, or Never
  promised   \* history: when the last 429 told the group to come back

vars == <<interval, now, last, answer, granted, promised>>

Never == -1

NoAnswer      == [group |-> "none", status |-> "none", wait |-> 0]
Admitted(g)   == [group |-> g, status |-> "Ok", wait |-> 0]
Refused(g, w) == [group |-> g, status |-> "Err", wait |-> w]

Init ==
  /\ interval \in Intervals
  /\ now = 0
  /\ last = [g \in {} |-> 0]
  /\ answer = NoAnswer
  /\ granted = [g \in Groups |-> Never]
  /\ promised = [g \in Groups |-> Never]

-----------------------------------------------------------------------------

(* now.duration_since(t).as_secs().                                        *)
Elapsed(t) == (now - t) \div TicksPerSec

InWindow(g) == g \in DOMAIN last /\ Elapsed(last[g]) < interval

(* Mutant: rounds the remaining time down instead of up.                   *)
RetryAfterShort(g) == interval - Elapsed(last[g]) - 1

RetryAfter(g) == interval - Elapsed(last[g])

(* retain: entries older than the stale threshold go.                      *)
Fresh == Restrict(last, {g \in DOMAIN last :
                           Elapsed(last[g]) < interval * StaleMultiplier})

(* Mutant: the cap is tested one entry too late.                           *)
EvictOldestLate(m, g) ==
  IF Cardinality(DOMAIN m) > MaxEntries /\ g \notin DOMAIN m
  THEN {Restrict(m, DOMAIN m \ {h}) :
          h \in {o \in DOMAIN m : \A p \in DOMAIN m : m[o] <= m[p]}}
  ELSE {m}

(* Mutant: evicts the newest entry.                                        *)
EvictNewest(m, g) ==
  IF Cardinality(DOMAIN m) >= MaxEntries /\ g \notin DOMAIN m
  THEN {Restrict(m, DOMAIN m \ {h}) :
          h \in {o \in DOMAIN m : \A p \in DOMAIN m : m[o] >= m[p]}}
  ELSE {m}

(* The maps the hard cap may leave: a full map without the group loses an  *)
(* oldest entry, any of them when several are equally old.                 *)
EvictOldest(m, g) ==
  IF Cardinality(DOMAIN m) >= MaxEntries /\ g \notin DOMAIN m
  THEN {Restrict(m, DOMAIN m \ {h}) :
          h \in {o \in DOMAIN m : \A p \in DOMAIN m : m[o] <= m[p]}}
  ELSE {m}

Insert(m, g) == [h \in DOMAIN m \cup {g} |-> IF h = g THEN now ELSE m[h]]

-----------------------------------------------------------------------------
(* admit(group, min_interval_secs), by the way it returns.                 *)

(* The throttle is off: Ok, and the map is not touched.                    *)
AdmitUnthrottled(g) ==
  /\ interval = 0
  /\ answer' = Admitted(g)
  /\ granted' = [granted EXCEPT ![g] = now]
  /\ UNCHANGED <<interval, now, last, promised>>

Refuse(g) ==
  /\ interval # 0
  /\ InWindow(g)
  /\ answer' = Refused(g, RetryAfter(g))
  /\ promised' = [promised EXCEPT ![g] = now + RetryAfter(g) * TicksPerSec]
  /\ UNCHANGED <<interval, now, last, granted>>

Admit(g) ==
  /\ interval # 0
  /\ ~ InWindow(g)
  /\ \E m \in EvictOldest(Fresh, g) : last' = Insert(m, g)
  /\ answer' = Admitted(g)
  /\ granted' = [granted EXCEPT ![g] = now]
  /\ promised' = [promised EXCEPT ![g] = Never]
  /\ UNCHANGED <<interval, now>>

Tick ==
  /\ now < MaxTime
  /\ now' = now + 1
  /\ answer' = NoAnswer
  /\ UNCHANGED <<interval, last, granted, promised>>

Next ==
  \/ \E g \in Groups : AdmitUnthrottled(g) \/ Refuse(g) \/ Admit(g)
  \/ Tick

Spec == Init /\ [][Next]_vars

-----------------------------------------------------------------------------
(* Properties.                                                             *)

Times == 0 .. MaxTime

(* Type invariant; no entry lies in the future, and a 429 asks for at      *)
(* least one second and at most the interval.                              *)
TypeOK ==
  /\ interval \in Intervals
  /\ now \in Times
  /\ DOMAIN last \subseteq Groups
  /\ \A g \in DOMAIN last : last[g] \in 0 .. now
  /\ \/ answer = NoAnswer
     \/ \E g \in Groups : answer = Admitted(g)
     \/ \E g \in Groups : \E w \in 1 .. interval : answer = Refused(g, w)
  /\ granted \in [Groups -> {Never} \cup Times]
  /\ promised \in [Groups -> {Never} \cup Nat]

(* The map never outgrows MAX_ENTRIES, however many group names come by.   *)
EntriesBounded == Cardinality(DOMAIN last) <= MaxEntries

(* A client that waits as long as the 429 told it is admitted, unless the  *)
(* group was admitted in between: whatever else was evicted or inserted    *)
(* meanwhile, the rounding of as_secs never costs it a second 429.         *)
RetryAfterSuffices ==
  \A g \in Groups : promised[g] # Never /\ now >= promised[g] => ~ InWindow(g)

Early(g) ==
  /\ interval # 0
  /\ granted[g] # Never
  /\ now - granted[g] < interval * TicksPerSec

Since(g) == {h \in Groups \ {g} : granted[h] # Never /\ granted[h] >= granted[g]}

(* The throttle lets a group through within its window only when the hard  *)
(* cap pushed its entry out, which takes MAX_ENTRIES other groups admitted *)
(* since: neither the stale eviction nor a tie between equally old entries *)
(* opens it earlier.                                                       *)
EarlyOnlyIfCrowded ==
  [][\A g \in Groups : answer' = Admitted(g) /\ Early(g) =>
       Cardinality(Since(g)) >= MaxEntries]_vars
=============================================================================
