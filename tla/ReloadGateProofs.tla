-------------------------- MODULE ReloadGateProofs ---------------------------
(***************************************************************************)
(* Proofs about ReloadGate for any groups, interval, cap and clock.        *)
(*                                                                         *)
(* None of the properties is inductive: each compares the map with what a  *)
(* client was told, or with what every group was granted, which the map    *)
(* itself forgets.  Kept ties the two: an entry is the last grant of its   *)
(* group, a promise outlasts the window of the entry it was made for, and  *)
(* a group whose window is open has its entry or was crowded out.          *)
(***************************************************************************)
EXTENDS ReloadGate, FiniteSetTheorems, TLAPS

Crowded(g) == Cardinality(Since(g)) >= MaxEntries

Kept ==
  /\ interval = 0 => DOMAIN last = {}
  /\ \A g \in Groups : granted[g] <= now
  /\ \A g \in DOMAIN last : granted[g] = last[g]
  /\ \A g \in DOMAIN last :
       promised[g] # Never => promised[g] >= last[g] + interval * TicksPerSec
  /\ \A g \in Groups : Early(g) => g \in DOMAIN last \/ Crowded(g)

IInv == TypeOK /\ EntriesBounded /\ Kept

-----------------------------------------------------------------------------
(* as_secs rounds down.                                                    *)

LEMMA DivRoundsDown ==
  ASSUME NEW a \in Nat, NEW t \in Nat \ {0}
  PROVE  /\ a \div t \in Nat
         /\ (a \div t) * t <= a
         /\ a < (a \div t) * t + t
OBVIOUS

LEMMA TimesMonotonic ==
  ASSUME NEW a \in Nat, NEW b \in Nat, NEW t \in Nat, a <= b
  PROVE  a * t <= b * t
OBVIOUS

(* So elapsed seconds reach k exactly when elapsed ticks reach k seconds.  *)
LEMMA SecondsReached ==
  ASSUME NEW a \in Nat, NEW k \in Nat, NEW t \in Nat \ {0}
  PROVE  k <= a \div t <=> k * t <= a
<1> DEFINE q == a \div t
<1>1. q \in Nat /\ q * t <= a /\ a < q * t + t
  BY DivRoundsDown
<1>2. k <= q => k * t <= q * t
  BY <1>1, TimesMonotonic
<1>3. q + 1 <= k => (q + 1) * t <= k * t
  BY <1>1, TimesMonotonic
<1>4. (q + 1) * t = q * t + t
  BY <1>1
<1>5. q * t \in Nat /\ k * t \in Nat
  BY <1>1
<1> HIDE DEF q
<1>6. k <= q <=> k * t <= a
  BY <1>1, <1>2, <1>3, <1>4, <1>5
<1> QED BY <1>6 DEF q

-----------------------------------------------------------------------------
(* Lemmas about the map.                                                   *)

LEMMA MapIsFinite ==
  ASSUME TypeOK
  PROVE  /\ IsFiniteSet(DOMAIN last)
         /\ \A g \in DOMAIN last : now - last[g] \in Nat /\ last[g] \in Nat
         /\ interval \in Nat /\ now \in Nat
<1>1. IsFiniteSet(DOMAIN last)
  BY FS_Subset, GateAssumption DEF TypeOK
<1>2. interval \in Nat /\ now \in Nat
  BY GateAssumption DEF TypeOK, Times
<1>3. \A g \in DOMAIN last : now - last[g] \in Nat /\ last[g] \in Nat
  BY <1>2 DEF TypeOK
<1> QED BY <1>1, <1>2, <1>3

(* The window of an entry is open while fewer ticks have passed than the   *)
(* interval has.                                                           *)
LEMMA WindowInTicks ==
  ASSUME TypeOK, NEW g \in DOMAIN last
  PROVE  InWindow(g) <=> now - last[g] < interval * TicksPerSec
<1>1. now - last[g] \in Nat /\ interval \in Nat /\ TicksPerSec \in Nat \ {0}
  BY MapIsFinite, GateAssumption
<1>2. interval <= (now - last[g]) \div TicksPerSec
        <=> interval * TicksPerSec <= now - last[g]
  BY <1>1, SecondsReached
<1>3. (now - last[g]) \div TicksPerSec \in Nat /\ interval * TicksPerSec \in Nat
  BY <1>1, DivRoundsDown
<1> QED BY <1>1, <1>2, <1>3 DEF InWindow, Elapsed

(* retain drops no entry whose window is open.                             *)
LEMMA FreshKeepsWindows ==
  ASSUME TypeOK
  PROVE  /\ DOMAIN Fresh \subseteq DOMAIN last
         /\ \A h \in DOMAIN Fresh : Fresh[h] = last[h]
         /\ \A h \in DOMAIN last : InWindow(h) => h \in DOMAIN Fresh
<1>1. DOMAIN Fresh = {h \in DOMAIN last : Elapsed(last[h]) < interval * StaleMultiplier}
  BY DEF Fresh, Restrict
<1>2. \A h \in DOMAIN Fresh : Fresh[h] = last[h]
  BY <1>1 DEF Fresh, Restrict
<1>3. ASSUME NEW h \in DOMAIN last, InWindow(h) PROVE h \in DOMAIN Fresh
  <2>1. Elapsed(last[h]) \in Nat /\ interval \in Nat /\ StaleMultiplier \in Nat \ {0}
    BY MapIsFinite, DivRoundsDown, GateAssumption DEF Elapsed
  <2>2. 1 * interval <= StaleMultiplier * interval
    BY <2>1, TimesMonotonic
  <2>3. interval <= interval * StaleMultiplier
    BY <2>1, <2>2
  <2>4. Elapsed(last[h]) < interval
    BY <1>3 DEF InWindow
  <2>5. interval * StaleMultiplier \in Nat
    BY <2>1
  <2>6. Elapsed(last[h]) < interval * StaleMultiplier
    BY <2>1, <2>3, <2>4, <2>5
  <2> QED BY <1>1, <2>6
<1> QED BY <1>1, <1>2, <1>3

(* The hard cap leaves room for the group, and an entry it pushes out is   *)
(* no newer than the MAX_ENTRIES - 1 that stay.                            *)
LEMMA EvictionMakesRoom ==
  ASSUME TypeOK, EntriesBounded, NEW g \in Groups, NEW m \in EvictOldest(Fresh, g)
  PROVE  /\ DOMAIN m \subseteq DOMAIN Fresh
         /\ \A h \in DOMAIN m : m[h] = Fresh[h]
         /\ Cardinality(DOMAIN m \cup {g}) <= MaxEntries
         /\ \A h \in DOMAIN Fresh \ DOMAIN m :
              /\ h # g
              /\ g \notin DOMAIN m
              /\ Cardinality(DOMAIN m \cup {g}) >= MaxEntries
              /\ \A p \in DOMAIN m : Fresh[h] <= Fresh[p]
<1> DEFINE F == DOMAIN Fresh
<1>1. IsFiniteSet(F) /\ Cardinality(F) \in Nat /\ Cardinality(F) <= MaxEntries
  <2>1. IsFiniteSet(DOMAIN last) /\ F \in SUBSET DOMAIN last
    BY MapIsFinite, FreshKeepsWindows
  <2>2. IsFiniteSet(F) /\ Cardinality(F) <= Cardinality(DOMAIN last)
    BY <2>1, FS_Subset
  <2>3. Cardinality(F) \in Nat /\ Cardinality(DOMAIN last) \in Nat
    BY <2>1, <2>2, FS_CardinalityType
  <2> QED BY <2>2, <2>3, GateAssumption DEF EntriesBounded
<1>2. CASE Cardinality(F) >= MaxEntries /\ g \notin F
  <2>1. PICK h \in F : (\A p \in F : Fresh[h] <= Fresh[p]) /\ m = Restrict(Fresh, F \ {h})
    BY <1>2 DEF EvictOldest
  <2>2. DOMAIN m = F \ {h} /\ (\A p \in DOMAIN m : m[p] = Fresh[p])
    BY <2>1 DEF Restrict
  <2>3. IsFiniteSet(DOMAIN m) /\ Cardinality(DOMAIN m) = Cardinality(F) - 1
    BY <1>1, <2>2, FS_RemoveElement
  <2>4. Cardinality(DOMAIN m \cup {g}) = Cardinality(F)
    <3>1. g \notin DOMAIN m
      BY <1>2, <2>2
    <3>2. Cardinality(DOMAIN m \cup {g}) = Cardinality(DOMAIN m) + 1
      BY <3>1, <2>3, FS_AddElement
    <3> QED BY <3>2, <2>3, <1>1
  <2> QED BY <1>1, <1>2, <2>1, <2>2, <2>4
<1>3. CASE ~ (Cardinality(F) >= MaxEntries /\ g \notin F)
  <2>1. m = Fresh
    BY <1>3 DEF EvictOldest
  <2>2. Cardinality(F \cup {g}) = IF g \in F THEN Cardinality(F) ELSE Cardinality(F) + 1
    BY <1>1, FS_AddElement
  <2>3. Cardinality(F \cup {g}) <= MaxEntries
    BY <1>1, <1>3, <2>2, GateAssumption
  <2> QED BY <2>1, <2>3
<1> QED BY <1>2, <1>3

-----------------------------------------------------------------------------
(* Each step keeps the invariant.                                          *)

(* A step that grants nobody anything but g, now, leaves every other group *)
(* with no fewer groups admitted since.                                    *)
LEMMA SinceGrows ==
  ASSUME TypeOK, Kept, NEW g \in Groups, NEW h \in Groups \ {g},
         granted' = [granted EXCEPT ![g] = now]
  PROVE  /\ granted'[h] = granted[h]
         /\ Since(h) \subseteq Since(h)'
         /\ granted[h] # Never => g \in Since(h)'
         /\ IsFiniteSet(Since(h)') /\ Cardinality(Since(h)') \in Nat
         /\ Crowded(h) => Crowded(h)'
<1>1. /\ granted'[h] = granted[h] /\ granted'[g] = now /\ now \in Nat
      /\ \A x \in Groups : granted'[x] = IF x = g THEN now ELSE granted[x]
      /\ \A x \in Groups : granted[x] \in Int /\ granted[x] <= now
  BY MapIsFinite DEF TypeOK, Kept, Never, Times
<1>2. Since(h) \subseteq Since(h)'
  BY <1>1 DEF Since, Never
<1>3. granted[h] # Never => g \in Since(h)'
  BY <1>1 DEF Since, Never
<1>4. IsFiniteSet(Since(h)') /\ Cardinality(Since(h)') \in Nat
  <2>1. Since(h)' \in SUBSET Groups
    BY DEF Since
  <2>2. IsFiniteSet(Since(h)')
    BY <2>1, GateAssumption, FS_Subset
  <2> QED BY <2>2, FS_CardinalityType
<1>5. Crowded(h) => Crowded(h)'
  <2>1. IsFiniteSet(Since(h)) /\ Cardinality(Since(h)) <= Cardinality(Since(h)')
    BY <1>2, <1>4, FS_Subset
  <2>2. Cardinality(Since(h)) \in Nat
    BY <2>1, FS_CardinalityType
  <2> QED BY <2>1, <2>2, <1>4, GateAssumption DEF Crowded
<1> QED BY <1>1, <1>2, <1>3, <1>4, <1>5

LEMMA UnthrottledKeeps ==
  ASSUME IInv, NEW g \in Groups, AdmitUnthrottled(g)
  PROVE  IInv'
<1>1. TypeOK'
  BY DEF IInv, TypeOK, AdmitUnthrottled
<1>2. EntriesBounded'
  BY DEF IInv, EntriesBounded, AdmitUnthrottled
<1>3. \A h \in Groups : granted'[h] <= now'
  BY MapIsFinite DEF IInv, TypeOK, Kept, AdmitUnthrottled
<1>4. Kept'
  BY <1>3 DEF IInv, Kept, AdmitUnthrottled, Early
<1> QED BY <1>1, <1>2, <1>4 DEF IInv

LEMMA RefuseKeeps ==
  ASSUME IInv, NEW g \in Groups, Refuse(g)
  PROVE  IInv'
<1> DEFINE e == Elapsed(last[g])
<1>1. /\ g \in DOMAIN last /\ e < interval /\ interval \in Nat /\ now \in Nat
      /\ e \in Nat /\ last[g] \in Nat /\ TicksPerSec \in Nat \ {0}
      /\ e * TicksPerSec <= now - last[g]
  BY MapIsFinite, DivRoundsDown, GateAssumption DEF IInv, Refuse, InWindow, Elapsed
<1>2. RetryAfter(g) = interval - e /\ interval - e \in 1 .. interval
  BY <1>1 DEF RetryAfter
<1>3. (interval - e) * TicksPerSec = interval * TicksPerSec - e * TicksPerSec
  BY <1>1
<1>4. interval * TicksPerSec \in Nat /\ e * TicksPerSec \in Nat
  BY <1>1
<1>5. /\ now + (interval - e) * TicksPerSec \in Nat
      /\ now + (interval - e) * TicksPerSec >= last[g] + interval * TicksPerSec
  <2> HIDE DEF e
  <2> DEFINE p == interval * TicksPerSec
             d == e * TicksPerSec
  <2>1. d <= now - last[g] /\ p \in Nat /\ d \in Nat /\ (interval - e) * TicksPerSec = p - d
    BY <1>1, <1>3, <1>4
  <2> HIDE DEF p, d
  <2>2. now + (p - d) \in Int /\ now + (p - d) >= last[g] + p
    BY <2>1, <1>1
  <2>3. now + (p - d) \in Nat
    BY <2>1, <2>2, <1>1
  <2> QED BY <2>1, <2>2, <2>3 DEF p
<1>6. promised' = [promised EXCEPT ![g] = now + (interval - e) * TicksPerSec]
  BY <1>2 DEF Refuse
<1>7. TypeOK'
  <2>1. promised' \in [Groups -> {Never} \cup Nat]
    BY <1>5, <1>6 DEF IInv, TypeOK
  <2>2. \E w \in 1 .. interval : answer' = Refused(g, w)
    BY <1>2 DEF Refuse
  <2> QED BY <2>1, <2>2 DEF IInv, TypeOK, Refuse
<1>8. EntriesBounded'
  BY DEF IInv, EntriesBounded, Refuse
<1>9. Kept'
  <2>1. \A h \in DOMAIN last : promised'[h] # Never =>
          promised'[h] >= last[h] + interval * TicksPerSec
    BY <1>5, <1>6 DEF IInv, Kept, TypeOK
  <2>2. \A h \in Groups : Since(h)' = Since(h)
    BY DEF Refuse, Since
  <2> QED BY <2>1, <2>2 DEF IInv, Kept, Refuse, Early, Crowded
<1> QED BY <1>7, <1>8, <1>9 DEF IInv

LEMMA AdmitKeeps ==
  ASSUME IInv, NEW g \in Groups, Admit(g)
  PROVE  IInv'
<1>1. PICK m \in EvictOldest(Fresh, g) : last' = Insert(m, g)
  BY DEF Admit
<1>2. /\ DOMAIN m \subseteq DOMAIN last /\ DOMAIN last \subseteq Groups
      /\ \A h \in DOMAIN m : m[h] = last[h]
  BY FreshKeepsWindows, EvictionMakesRoom DEF IInv, TypeOK
<1>3. /\ DOMAIN last' = DOMAIN m \cup {g}
      /\ last'[g] = now
      /\ \A h \in DOMAIN m \ {g} : last'[h] = last[h]
  BY <1>1, <1>2 DEF Insert
<1>4. /\ interval # 0 /\ interval' = interval /\ now' = now
      /\ granted' = [granted EXCEPT ![g] = now]
      /\ promised' = [promised EXCEPT ![g] = Never]
      /\ answer' = Admitted(g)
  BY DEF Admit
<1>5. now \in Nat /\ now \in Times
  BY MapIsFinite DEF IInv, TypeOK
<1>6. TypeOK'
  <2>1. \A h \in DOMAIN last' : last'[h] \in 0 .. now'
    BY <1>2, <1>3, <1>4, <1>5 DEF IInv, TypeOK
  <2>2. granted' \in [Groups -> {Never} \cup Times] /\ promised' \in [Groups -> {Never} \cup Nat]
    BY <1>4, <1>5 DEF IInv, TypeOK
  <2> QED BY <2>1, <2>2, <1>2, <1>3, <1>4 DEF IInv, TypeOK
<1>7. EntriesBounded'
  BY <1>3, EvictionMakesRoom DEF IInv, EntriesBounded
<1>8. Kept'
  <2>1. \A h \in Groups : granted'[h] = IF h = g THEN now ELSE granted[h]
    BY <1>4 DEF IInv, TypeOK
  <2>2. \A h \in Groups : granted'[h] <= now'
    BY <2>1, <1>4, <1>5 DEF IInv, Kept
  <2>3. \A h \in DOMAIN last' : granted'[h] = last'[h]
    BY <2>1, <1>2, <1>3 DEF IInv, Kept
  <2>4. \A h \in DOMAIN last' : promised'[h] # Never =>
          promised'[h] >= last'[h] + interval' * TicksPerSec
    <3>1. \A h \in Groups : promised'[h] = IF h = g THEN Never ELSE promised[h]
      BY <1>4 DEF IInv, TypeOK
    <3> QED BY <3>1, <1>2, <1>3, <1>4 DEF IInv, Kept
  <2>5. ASSUME NEW h \in Groups, Early(h)', h \notin DOMAIN last'
        PROVE  Crowded(h)'
    <3>1. h # g
      BY <2>5, <1>3
    <3>2. granted'[h] = granted[h] /\ Early(h)
      BY <2>5, <3>1, <2>1, <1>4 DEF Early
    <3>3. Crowded(h) => Crowded(h)'
      BY <3>1, <1>4, SinceGrows DEF IInv
    <3>4. CASE h \in DOMAIN last
      <4>1. granted[h] = last[h] /\ InWindow(h)
        BY <3>2, <3>4, WindowInTicks DEF IInv, Kept, Early
      <4>2. h \in DOMAIN Fresh \ DOMAIN m
        BY <4>1, <3>4, <2>5, <1>3, FreshKeepsWindows DEF IInv
      <4>3. /\ Cardinality(DOMAIN m \cup {g}) >= MaxEntries
            /\ \A p \in DOMAIN m : Fresh[h] <= Fresh[p]
        BY <4>2, EvictionMakesRoom DEF IInv
      <4>4. \A p \in DOMAIN m : granted[p] >= granted[h] /\ p # h /\ granted[p] # Never
        <5>1. \A p \in DOMAIN m : /\ p \in DOMAIN last /\ p \in DOMAIN Fresh
                                   /\ Fresh[p] = last[p] /\ granted[p] = last[p]
                                   /\ last[p] \in Nat
          BY FreshKeepsWindows, EvictionMakesRoom, MapIsFinite DEF IInv, Kept
        <5>2. Fresh[h] = last[h]
          BY <4>2, FreshKeepsWindows DEF IInv
        <5> QED BY <5>1, <5>2, <4>1, <4>2, <4>3 DEF Never
      <4>5. DOMAIN m \cup {g} \subseteq Since(h)'
        <5>1. g \in Since(h)'
          BY <3>1, <3>2, <1>4, SinceGrows DEF IInv, Early
        <5>2. DOMAIN m \subseteq Since(h)
          BY <4>4, <1>2 DEF Since
        <5>3. Since(h) \subseteq Since(h)'
          BY <3>1, <1>4, SinceGrows DEF IInv
        <5> QED BY <5>1, <5>2, <5>3
      <4>6. IsFiniteSet(Since(h)') /\ Cardinality(Since(h)') \in Nat
        BY <3>1, <1>4, SinceGrows DEF IInv
      <4>7. /\ IsFiniteSet(DOMAIN m \cup {g})
            /\ Cardinality(DOMAIN m \cup {g}) <= Cardinality(Since(h)')
        BY <4>5, <4>6, FS_Subset
      <4>8. Cardinality(DOMAIN m \cup {g}) \in Nat
        BY <4>7, FS_CardinalityType
      <4> QED BY <4>3, <4>6, <4>7, <4>8, GateAssumption DEF Crowded
    <3>5. CASE h \notin DOMAIN last
      BY <3>2, <3>3, <3>5 DEF IInv, Kept
    <3> QED BY <3>4, <3>5
  <2> QED BY <2>2, <2>3, <2>4, <2>5, <1>4 DEF Kept
<1> QED BY <1>6, <1>7, <1>8 DEF IInv

LEMMA TickKeeps ==
  ASSUME IInv, Tick
  PROVE  IInv'
<1>1. now \in Nat /\ now' = now + 1 /\ now' \in Times
  BY MapIsFinite, GateAssumption DEF IInv, Tick, Times
<1>2. TypeOK'
  <2>1. \A g \in DOMAIN last' : last'[g] \in 0 .. now'
    BY <1>1 DEF IInv, TypeOK, Tick
  <2> QED BY <1>1, <2>1 DEF IInv, TypeOK, Tick
<1>3. EntriesBounded'
  BY DEF IInv, EntriesBounded, Tick
<1>4. Kept'
  <2>1. \A g \in Groups : granted[g] \in Int /\ granted[g] <= now
    BY DEF IInv, TypeOK, Kept, Never, Times
  <2>2. \A g \in Groups : granted'[g] <= now'
    BY <1>1, <2>1 DEF Tick
  <2>3. interval * TicksPerSec \in Int
    BY MapIsFinite, GateAssumption DEF IInv
  <2>4. \A g \in Groups : Early(g)' => Early(g)
    <3> DEFINE p == interval * TicksPerSec
    <3>1. p \in Int
      BY <2>3
    <3>2. interval' = interval /\ granted' = granted
      BY DEF Tick
    <3> HIDE DEF p
    <3>3. \A g \in Groups : now' - granted[g] < p => now - granted[g] < p
      BY <1>1, <2>1, <3>1
    <3> QED BY <3>2, <3>3 DEF Early, p
  <2>5. \A g \in Groups : Crowded(g)' = Crowded(g)
    BY DEF Crowded, Since, Tick
  <2> QED BY <2>2, <2>4, <2>5 DEF IInv, Kept, Tick
<1> QED BY <1>2, <1>3, <1>4 DEF IInv

-----------------------------------------------------------------------------
(* The theorems.                                                           *)

LEMMA InductiveIInv == Spec => []IInv
<1>1. Init => IInv
  <2> SUFFICES ASSUME Init PROVE IInv
    OBVIOUS
  <2>1. DOMAIN last = {} /\ interval \in Nat /\ now = 0
    BY GateAssumption DEF Init
  <2>2. Cardinality(DOMAIN last) = 0
    BY <2>1, FS_EmptySet
  <2>3. TypeOK
    BY <2>1, GateAssumption DEF Init, TypeOK, Times, Never
  <2>4. EntriesBounded
    BY <2>2, GateAssumption DEF EntriesBounded
  <2>5. Kept
    BY <2>1 DEF Init, Kept, Early, Never
  <2> QED BY <2>3, <2>4, <2>5 DEF IInv
<1>2. IInv /\ [Next]_vars => IInv'
  <2> SUFFICES ASSUME IInv, [Next]_vars PROVE IInv'
    OBVIOUS
  <2>1. CASE UNCHANGED vars
    BY <2>1 DEF vars, IInv, TypeOK, EntriesBounded, Kept, Early, Crowded, Since
  <2> QED BY <2>1, UnthrottledKeeps, RefuseKeeps, AdmitKeeps, TickKeeps DEF Next
<1> QED BY <1>1, <1>2, PTL DEF Spec

(* Type correctness of the throttle, whatever the clock and the clients do *)
(* in admit: entries lie in the past, and a 429 asks for at least one      *)
(* second and no more than the interval.                                   *)
THEOREM TypeCorrect == Spec => []TypeOK
<1>1. IInv => TypeOK
  BY DEF IInv
<1> QED BY <1>1, InductiveIInv, PTL

(* The map of admit never outgrows MAX_ENTRIES.                            *)
THEOREM MapIsBounded == Spec => []EntriesBounded
<1>1. IInv => EntriesBounded
  BY DEF IInv
<1> QED BY <1>1, InductiveIInv, PTL

(* A client that waits for as long as the Retry-After of its 429 says is   *)
(* not refused again, whatever admit evicted or inserted meanwhile.        *)
THEOREM WaitingIsEnough == Spec => []RetryAfterSuffices
<1>1. IInv => RetryAfterSuffices
  <2> SUFFICES ASSUME IInv, NEW g \in Groups, promised[g] # Never, now >= promised[g],
                      g \in DOMAIN last
               PROVE  ~ InWindow(g)
    BY DEF RetryAfterSuffices, InWindow
  <2>1. promised[g] >= last[g] + interval * TicksPerSec
    BY DEF IInv, Kept
  <2>2. /\ promised[g] \in Nat /\ last[g] \in Nat /\ now \in Nat
        /\ interval * TicksPerSec \in Nat
    BY MapIsFinite, GateAssumption DEF IInv, TypeOK
  <2>3. ~ (now - last[g] < interval * TicksPerSec)
    BY <2>1, <2>2
  <2> QED BY <2>3, WindowInTicks DEF IInv
<1> QED BY <1>1, InductiveIInv, PTL

(* Within its window admit lets a group through only after MAX_ENTRIES     *)
(* other groups were admitted since.                                       *)
THEOREM EarlyMeansCrowded == Spec => EarlyOnlyIfCrowded
<1>1. IInv /\ [Next]_vars =>
        [\A g \in Groups : answer' = Admitted(g) /\ Early(g) =>
           Cardinality(Since(g)) >= MaxEntries]_vars
  <2> SUFFICES ASSUME IInv, Next, NEW g \in Groups, answer' = Admitted(g), Early(g)
               PROVE  Crowded(g)
    BY DEF Crowded
  <2>1. PICK h \in Groups : AdmitUnthrottled(h) \/ Admit(h)
    BY DEF Next, Refuse, Tick, Refused, Admitted, NoAnswer
  <2>2. h = g
    BY <2>1 DEF AdmitUnthrottled, Admit, Admitted
  <2>3. Admit(g)
    BY <2>1, <2>2 DEF AdmitUnthrottled, Early
  <2>4. g \in DOMAIN last => InWindow(g)
    BY WindowInTicks DEF IInv, Kept, Early
  <2>5. g \notin DOMAIN last
    BY <2>3, <2>4 DEF Admit
  <2> QED BY <2>5 DEF IInv, Kept
<1> QED BY <1>1, InductiveIInv, PTL DEF Spec, EarlyOnlyIfCrowded
=============================================================================
