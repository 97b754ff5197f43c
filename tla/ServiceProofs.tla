---------------------------- MODULE ServiceProofs ----------------------------
(***************************************************************************)
(* Proofs about Service for any requests, directory tree, jobs, edits and  *)
(* configurations: its types and the order in which it takes its mutexes.  *)
(*                                                                         *)
(* A mutex knows its holder and nothing of why, so LockDiscipline is not   *)
(* inductive.  Shaped says what every thread has still to go through, and  *)
(* Held which section the holder of each mutex is in.  Types need Shaped   *)
(* too: an insert takes the first of the jobs that are left, and only the  *)
(* shape of the plan says that there is one.                               *)
(***************************************************************************)
EXTENDS Service, SequenceTheorems, FiniteSetTheorems, WellFoundedInduction, TLAPS

(* The environments that a load may have seen: a variable that has never   *)
(* changed was as it is.                                                   *)
EarlierEnvs ==
  {e \in [EnvNames -> VarStates] : \A v \in EnvNames : rotated[v] = 0 => e[v] = environ[v]}

(* The specs that into_spec can have yielded under this configuration.     *)
GoodSpecs ==
  {JobSpec(raw) : raw \in {x \in RawJobs : \E e \in EarlierEnvs : Accepted(x, cfg, e)}}

LoadedJobs == [key : Keys, spec : GoodSpecs]

(* Whatever a load returns, a reload registers or the registry holds comes *)
(* from an accepted definition.                                            *)
Stocked ==
  /\ cfg \in Configs
  /\ disk \in [Files -> FileContents]
  /\ environ \in [EnvNames -> VarStates] /\ rotated \in [EnvNames -> Nat]
  /\ DOMAIN task = Loads
  /\ \A t \in Loads :
       /\ DOMAIN task[t] = {"pc", "todo", "out"}
       /\ task[t].out \in Seq(LoadedJobs)
       /\ task[t].pc = "read" => Head(task[t].todo) \in Files
  /\ loaded \in [Reqs -> Seq(LoadedJobs)]
  /\ DOMAIN jobs \subseteq Keys
  /\ \A k \in DOMAIN jobs : jobs[k] \in GoodSpecs

-----------------------------------------------------------------------------
(* Plans.                                                                  *)

(* A remove and an insert for each of n jobs, and the same once the first  *)
(* remove is done.                                                         *)
Pairs(n) == [i \in 1 .. 2 * n |-> IF i % 2 = 1 THEN "remove_job" ELSE "insert"]
Half(n)  == [i \in 1 .. 2 * n - 1 |-> IF i % 2 = 1 THEN "insert" ELSE "remove_job"]

BeforeClear(n) == {Rebuild(n), <<"clear">> \o Pairs(n)}
AfterClear(n)  == {Pairs(n)} \cup {Half(n)}

BeforeBegin == {<<"find", "begin", "get", "snapshot", "lookup">>,
                <<"begin", "get", "snapshot", "lookup">>}
AfterBegin  == {<<"get", "snapshot", "lookup">>, <<"snapshot", "lookup">>, <<"lookup">>}

StopPlans == {<<"find", "notify", "snapshot", "lookup">>,
              <<"notify", "snapshot", "lookup">>, <<"snapshot", "lookup">>, <<"lookup">>}

(* What a handler of this kind has to go through, n jobs being left.       *)
HandlerPlans(kind, n) ==
  {p \in BeforeClear(n) \cup (IF n = 0 THEN {} ELSE AfterClear(n)) : kind = "reload"}
    \cup {p \in BeforeBegin \cup AfterBegin : kind = "execute"}
    \cup {p \in StopPlans : kind = "stop"}
    \cup {p \in {<<"snapshot", "lookup">>, <<"lookup">>} : kind = "running"}
    \cup {p \in {<<"describe">>} : kind = "jobs"}

RunPlans == {<<>>, <<"dispatch", "record", "remove">>, <<"record", "remove">>, <<"remove">>}

Shaped ==
  /\ DOMAIN stage = Reqs
  /\ DOMAIN plan = Threads
  /\ \A r \in Reqs :
       /\ IF stage[r] = "sections"
          THEN plan[Handler(r)] \in HandlerPlans(Kind(r), Len(loaded[r]))
          ELSE plan[Handler(r)] = <<>>
       /\ stage[r] = "loading" => Kind(r) = "reload"
       /\ plan[Run(r)] \in RunPlans
       /\ plan[Run(r)] # <<>> =>
            /\ stage[r] \notin {"idle", "loading"}
            /\ plan[Handler(r)] \in {<<>>, <<"snapshot", "lookup">>, <<"lookup">>}

-----------------------------------------------------------------------------
(* Mutexes.                                                                *)

Held ==
  /\ \A t \in Threads : inside[t] => plan[t] # <<>> /\ Section(t) # "dispatch"
  /\ \A t \in Threads, l \in {"jobs", "running"} :
       mapLock[l] = t <=> inside[t] /\ Section(t) # "record" /\ Map(t) = l
  /\ \A t \in Threads, k \in Keys :
       stateLock[k] = t => /\ inside[t]
                           /\ \/ Section(t) = "record" /\ k = Key(t)
                              \/ Section(t) \in Reading /\ k \in visits[t]
  /\ \A t \in Threads : visits[t] # {} => inside[t] /\ Section(t) \in Reading

IInv == TypeOK /\ Stocked /\ Shaped /\ Held

-----------------------------------------------------------------------------
(* Induction over numbers.                                                 *)

(* A nonempty set of numbers has a least one.  Inductions over a text take *)
(* the first place where the claim would fail.                             *)
LEMMA LeastElement ==
  ASSUME NEW T \in SUBSET Nat, T # {}
  PROVE  \E m \in T : \A k \in T : m <= k
<1>1. IsWellFoundedOn(OpToRel(<, Nat), Nat)
  BY NatLessThanWellFounded
<1>2. \E x \in T : \A y \in T : ~ (<<y, x>> \in OpToRel(<, Nat))
  BY <1>1, WFMin
<1>3. PICK x \in T : \A y \in T : ~ (<<y, x>> \in OpToRel(<, Nat))
  BY <1>2
<1>4. ASSUME NEW y \in T
      PROVE  x <= y
  <2>1. <<y, x>> \notin OpToRel(<, Nat)
    BY <1>3
  <2>2. <<y, x>> \in Nat \X Nat
    OBVIOUS
  <2>3. ~ (y < x)
    BY <2>1, <2>2 DEF OpToRel
  <2> QED BY <2>3
<1> QED BY <1>4

(* What holds at first and is kept by every step holds all the way.        *)
LEMMA KeptAlong ==
  ASSUME NEW n \in Nat, NEW S, NEW f, f[0] \in S,
         \A i \in 1 .. n : f[i - 1] \in S => f[i] \in S
  PROVE  \A i \in 0 .. n : f[i] \in S
<1> DEFINE T == {i \in 0 .. n : f[i] \notin S}
<1>1. T \in SUBSET Nat
  OBVIOUS
<1>2. ASSUME T # {} PROVE FALSE
  <2> HIDE DEF T
  <2>1. PICK m \in T : \A k \in T : m <= k
    BY <1>1, <1>2, LeastElement
  <2> USE DEF T
  <2>2. m \in 1 .. n /\ m - 1 \in 0 .. n
    BY <2>1
  <2>3. f[m - 1] \in S
    BY <2>1, <2>2
  <2> QED BY <2>1, <2>2, <2>3
<1> QED BY <1>2

-----------------------------------------------------------------------------
(* The order of paths.                                                     *)

InOrder(s, n) == \A i, j \in 1 .. n : i < j => Rank[s[i]] < Rank[s[j]]

(* The empty sequence goes through no paths, and a set of paths is gone    *)
(* through from its first one on.                                          *)
LEMMA Sortable ==
  ASSUME NEW S \in SUBSET Paths
  PROVE  /\ IsFiniteSet(S) /\ Cardinality(S) \in Nat
         /\ \E s \in [1 .. Cardinality(S) -> S] : InOrder(s, Cardinality(S))
<1> DEFINE Fits(U) == \E s \in [1 .. Cardinality(U) -> U] : InOrder(s, Cardinality(U))
           T == {Cardinality(U) : U \in {V \in SUBSET Paths : ~ Fits(V)}}
<1>1. \A U \in SUBSET Paths : IsFiniteSet(U) /\ Cardinality(U) \in Nat
  BY TreeAssumption, FS_Subset, FS_CardinalityType
<1>2. ASSUME T # {} PROVE FALSE
  <2>1. T \in SUBSET Nat
    BY <1>1
  <2>2. PICK m \in T : \A k \in T : m <= k
    <3> HIDE DEF T
    <3> QED BY <1>2, <2>1, LeastElement
  <2>3. PICK U \in SUBSET Paths : m = Cardinality(U) /\ ~ Fits(U)
    BY <2>2
  <2>4. m \in Nat /\ IsFiniteSet(U)
    BY <1>1, <2>3
  <2>5. U # {}
    <3>1. ASSUME U = {} PROVE FALSE
      <4>1. m = 0
        BY <2>3, <3>1, FS_EmptySet
      <4>2. [i \in 1 .. 0 |-> 0] \in [1 .. 0 -> {}] /\ InOrder([i \in 1 .. 0 |-> 0], 0)
        BY DEF InOrder
      <4> QED BY <2>3, <3>1, <4>1, <4>2
    <3> QED BY <3>1
  <2>6. PICK x \in U : \A y \in U : Rank[x] <= Rank[y]
    <3> DEFINE R == {Rank[y] : y \in U}
    <3>1. R \in SUBSET Nat /\ R # {}
      BY <2>5, OrderAssumption
    <3>2. PICK low \in R : \A k \in R : low <= k
      <4> HIDE DEF R
      <4> QED BY <3>1, LeastElement
    <3>3. PICK x \in U : low = Rank[x]
      BY <3>2
    <3> QED BY <3>2, <3>3
  <2> DEFINE V == U \ {x}
  <2>7. V \in SUBSET Paths /\ Cardinality(V) = m - 1 /\ m - 1 \in Nat
    BY <1>1, <2>3, <2>4, FS_RemoveElement
  <2>8. Fits(V)
    <3>1. Cardinality(V) \notin T
      <4> HIDE DEF T, V
      <4> QED BY <2>2, <2>4, <2>7
    <3> HIDE DEF V, Fits
    <3> QED BY <2>7, <3>1
  <2>9. PICK s \in [1 .. m - 1 -> V] : InOrder(s, m - 1)
    BY <2>7, <2>8
  <2> DEFINE u == [i \in 1 .. m |-> IF i = 1 THEN x ELSE s[i - 1]]
  <2>10. \A i \in 1 .. m : i # 1 => i - 1 \in 1 .. m - 1 /\ s[i - 1] \in V
    BY <2>4, <2>7, <2>9
  <2>11. u \in [1 .. m -> U]
    BY <2>6, <2>10
  <2>12. InOrder(u, m)
    <3> SUFFICES ASSUME NEW i \in 1 .. m, NEW j \in 1 .. m, i < j
                 PROVE  Rank[u[i]] < Rank[u[j]]
      BY DEF InOrder
    <3>1. j # 1 /\ u[j] = s[j - 1] /\ s[j - 1] \in V /\ j - 1 \in 1 .. m - 1
      BY <2>4, <2>10
    <3>2. CASE i = 1
      <4>1. u[i] = x /\ x # s[j - 1] /\ s[j - 1] \in U
        BY <3>1, <3>2
      <4>2. Rank[x] <= Rank[s[j - 1]] /\ Rank[x] # Rank[s[j - 1]]
        BY <2>3, <2>6, <4>1, OrderAssumption
      <4>3. Rank[x] \in Nat /\ Rank[s[j - 1]] \in Nat
        BY <2>3, <4>1, OrderAssumption
      <4> QED BY <3>1, <4>1, <4>2, <4>3
    <3>3. CASE i # 1
      <4>1. u[i] = s[i - 1] /\ i - 1 \in 1 .. m - 1 /\ i - 1 < j - 1
        BY <2>4, <2>10, <3>3
      <4> QED BY <2>9, <3>1, <4>1 DEF InOrder
    <3> QED BY <3>2, <3>3
  <2> HIDE DEF u
  <2> QED BY <2>3, <2>11, <2>12
<1>3. Fits(S)
  <2> HIDE DEF Fits
  <2> QED BY <1>2
<1> QED BY <1>1, <1>3

(* Nothing is left out.                                                    *)
LEMMA SortedOnto ==
  ASSUME NEW S \in SUBSET Paths, NEW s \in [1 .. Cardinality(S) -> S], InOrder(s, Cardinality(S))
  PROVE  \A e \in S : \E i \in 1 .. Cardinality(S) : s[i] = e
<1> DEFINE n == Cardinality(S)
<1>1. n \in Nat /\ IsFiniteSet(S)
  BY Sortable
<1>2. \A i, j \in 1 .. n : s[i] = s[j] => i = j
  <2> SUFFICES ASSUME NEW i \in 1 .. n, NEW j \in 1 .. n, s[i] = s[j]
               PROVE  i = j
    OBVIOUS
  <2>1. Rank[s[i]] \in Nat
    BY OrderAssumption
  <2>2. ~ (i < j) /\ ~ (j < i)
    BY <2>1 DEF InOrder
  <2> QED BY <1>1, <2>2
<1>3. s \in Injection(1 .. n, S)
  BY <1>2 DEF Injection, IsInjective
<1>4. Cardinality(1 .. n) = n
  BY <1>1, FS_Interval
<1>5. s \in Surjection(1 .. n, S)
  BY <1>1, <1>3, <1>4, FS_Injection
<1> QED BY <1>5 DEF Surjection

(* Of some files one is the last.                                          *)
LEMMA LastOfFiles ==
  ASSUME NEW S \in SUBSET Files, S # {}
  PROVE  \E f \in S : \A g \in S : Rank[g] <= Rank[f]
<1> DEFINE n == Cardinality(S)
<1>1. S \in SUBSET Paths
  BY DEF Paths
<1>2. IsFiniteSet(S) /\ n \in Nat /\ n # 0
  BY <1>1, Sortable, FS_EmptySet
<1>3. PICK s \in [1 .. n -> S] : InOrder(s, n)
  BY <1>1, Sortable
<1>4. \A e \in S : \E i \in 1 .. n : s[i] = e
  BY <1>1, <1>3, SortedOnto
<1> HIDE DEF n
<1>5. n \in 1 .. n /\ s[n] \in S
  BY <1>2, <1>3
<1>6. ASSUME NEW g \in S PROVE Rank[g] <= Rank[s[n]]
  <2>1. PICK i \in 1 .. n : s[i] = g
    BY <1>4
  <2>2. Rank[g] \in Nat
    BY <1>1, OrderAssumption
  <2>3. i = n \/ i < n
    BY <1>2
  <2>4. CASE i = n
    BY <2>1, <2>2, <2>4
  <2>5. CASE i < n
    <3>1. Rank[s[i]] < Rank[s[n]]
      BY <1>3, <1>5, <2>5 DEF InOrder
    <3>2. Rank[s[n]] \in Nat
      BY <1>1, <1>5, OrderAssumption
    <3> QED BY <2>1, <2>2, <3>1, <3>2
  <2> QED BY <2>3, <2>4, <2>5
<1> QED BY <1>5, <1>6

-----------------------------------------------------------------------------
(* Lemmas about plans.                                                     *)

LEMMA RebuildTails ==
  ASSUME NEW n \in Nat
  PROVE  /\ Rebuild(n) \in Seq(Sections) /\ Rebuild(n) # <<>>
         /\ Head(Rebuild(n)) = "notify" /\ Tail(Rebuild(n)) = <<"clear">> \o Pairs(n)
         /\ <<"clear">> \o Pairs(n) \in Seq(Sections) /\ <<"clear">> \o Pairs(n) # <<>>
         /\ Head(<<"clear">> \o Pairs(n)) = "clear"
         /\ Tail(<<"clear">> \o Pairs(n)) = Pairs(n)
         /\ Pairs(n) \in Seq(Sections)
<1> USE DEF Sections, OnJobs, OnRunning
<1>1. Pairs(n) \in Seq(Sections) /\ Len(Pairs(n)) = 2 * n
  BY DEF Pairs
<1>2. <<"clear">> \o Pairs(n) \in Seq(Sections)
  BY <1>1
<1>3. /\ <<"clear">> \o Pairs(n) # <<>>
      /\ Head(<<"clear">> \o Pairs(n)) = "clear"
  BY <1>1
<1>4. Tail(<<"clear">> \o Pairs(n)) = Pairs(n)
  BY <1>1
<1>5. Rebuild(n) = <<"notify", "clear">> \o Pairs(n)
  BY DEF Rebuild, Pairs
<1>6. Rebuild(n) \in Seq(Sections) /\ Rebuild(n) # <<>> /\ Head(Rebuild(n)) = "notify"
  BY <1>1, <1>5
<1>7. Tail(Rebuild(n)) = <<"clear">> \o Pairs(n)
  BY <1>1, <1>5
<1> QED BY <1>1, <1>2, <1>3, <1>4, <1>6, <1>7

LEMMA PairsTails ==
  ASSUME NEW n \in Nat \ {0}
  PROVE  /\ Pairs(n) \in Seq(Sections) /\ Pairs(n) # <<>>
         /\ Head(Pairs(n)) = "remove_job" /\ Tail(Pairs(n)) = Half(n)
         /\ Half(n) \in Seq(Sections) /\ Half(n) # <<>>
         /\ Head(Half(n)) = "insert" /\ Tail(Half(n)) = Pairs(n - 1)
<1> USE DEF Sections, OnJobs, OnRunning
<1>1. Pairs(n) \in Seq(Sections) /\ Len(Pairs(n)) = 2 * n
  BY DEF Pairs
<1>2. Half(n) \in Seq(Sections) /\ Len(Half(n)) = 2 * n - 1
  BY DEF Half
<1>3. Pairs(n - 1) \in Seq(Sections) /\ Len(Pairs(n - 1)) = 2 * n - 2
  BY DEF Pairs
<1>4. Pairs(n) # <<>> /\ Half(n) # <<>>
  BY <1>1, <1>2
<1>5. Head(Pairs(n)) = "remove_job" /\ Head(Half(n)) = "insert"
  BY <1>1, <1>2, <1>4 DEF Pairs, Half
<1>6. Tail(Pairs(n)) = Half(n)
  <2>1. /\ Tail(Pairs(n)) \in Seq(Sections) /\ Len(Tail(Pairs(n))) = 2 * n - 1
        /\ \A i \in 1 .. 2 * n - 1 : Tail(Pairs(n))[i] = Pairs(n)[i + 1]
    BY <1>1, <1>4, HeadTailProperties
  <2>2. \A i \in 1 .. 2 * n - 1 : Pairs(n)[i + 1] = Half(n)[i]
    BY DEF Pairs, Half
  <2> QED BY <1>2, <2>1, <2>2, SeqEqual
<1>7. Tail(Half(n)) = Pairs(n - 1)
  <2>1. /\ Tail(Half(n)) \in Seq(Sections) /\ Len(Tail(Half(n))) = 2 * n - 2
        /\ \A i \in 1 .. 2 * n - 2 : Tail(Half(n))[i] = Half(n)[i + 1]
    BY <1>2, <1>4, HeadTailProperties
  <2>2. \A i \in 1 .. 2 * n - 2 : Half(n)[i + 1] = Pairs(n - 1)[i]
    BY DEF Pairs, Half
  <2> QED BY <1>3, <2>1, <2>2, SeqEqual
<1> QED BY <1>1, <1>2, <1>4, <1>5, <1>6, <1>7

(* The heads and tails of the plans that are written out.                  *)
LEMMA ShortTails ==
  /\ Head(<<"lookup">>) = "lookup" /\ Tail(<<"lookup">>) = <<>>
  /\ Head(<<"describe">>) = "describe" /\ Tail(<<"describe">>) = <<>>
  /\ Head(<<"remove">>) = "remove" /\ Tail(<<"remove">>) = <<>>
  /\ Head(<<"snapshot", "lookup">>) = "snapshot"
  /\ Tail(<<"snapshot", "lookup">>) = <<"lookup">>
  /\ Head(<<"record", "remove">>) = "record" /\ Tail(<<"record", "remove">>) = <<"remove">>
  /\ Head(<<"get", "snapshot", "lookup">>) = "get"
  /\ Tail(<<"get", "snapshot", "lookup">>) = <<"snapshot", "lookup">>
  /\ Head(<<"notify", "snapshot", "lookup">>) = "notify"
  /\ Tail(<<"notify", "snapshot", "lookup">>) = <<"snapshot", "lookup">>
  /\ Head(<<"dispatch", "record", "remove">>) = "dispatch"
  /\ Tail(<<"dispatch", "record", "remove">>) = <<"record", "remove">>
  /\ Head(<<"begin", "get", "snapshot", "lookup">>) = "begin"
  /\ Tail(<<"begin", "get", "snapshot", "lookup">>) = <<"get", "snapshot", "lookup">>
  /\ Head(<<"find", "notify", "snapshot", "lookup">>) = "find"
  /\ Tail(<<"find", "notify", "snapshot", "lookup">>) = <<"notify", "snapshot", "lookup">>
  /\ Head(<<"find", "begin", "get", "snapshot", "lookup">>) = "find"
  /\ Tail(<<"find", "begin", "get", "snapshot", "lookup">>)
       = <<"begin", "get", "snapshot", "lookup">>
OBVIOUS
LEMMA ShortPlans ==
  /\ <<"lookup">> \in Seq(Sections) /\ <<"lookup">> # <<>>
  /\ <<"describe">> \in Seq(Sections) /\ <<"describe">> # <<>>
  /\ <<"remove">> \in Seq(Sections) /\ <<"remove">> # <<>>
  /\ <<"snapshot", "lookup">> \in Seq(Sections) /\ <<"snapshot", "lookup">> # <<>>
  /\ <<"record", "remove">> \in Seq(Sections) /\ <<"record", "remove">> # <<>>
  /\ <<"get", "snapshot", "lookup">> \in Seq(Sections) /\ <<"get", "snapshot", "lookup">> # <<>>
  /\ <<"notify", "snapshot", "lookup">> \in Seq(Sections)
  /\ <<"notify", "snapshot", "lookup">> # <<>>
  /\ <<"dispatch", "record", "remove">> \in Seq(Sections)
  /\ <<"dispatch", "record", "remove">> # <<>>
  /\ <<"begin", "get", "snapshot", "lookup">> \in Seq(Sections)
  /\ <<"begin", "get", "snapshot", "lookup">> # <<>>
  /\ <<"find", "notify", "snapshot", "lookup">> \in Seq(Sections)
  /\ <<"find", "notify", "snapshot", "lookup">> # <<>>
  /\ <<"find", "begin", "get", "snapshot", "lookup">> \in Seq(Sections)
  /\ <<"find", "begin", "get", "snapshot", "lookup">> # <<>>
BY DEF Sections, OnJobs, OnRunning

(* What is left of a handler's plan after its first section.               *)
Follows(p, kind, n) ==
  /\ p \in Seq(Sections) /\ p # <<>>
  /\ Head(p) \in (OnJobs \cup OnRunning) \ {"remove"}
  /\ Head(p) = "insert" => n # 0
  /\ \/ Tail(p) = <<>>
     \/ Tail(p) \in HandlerPlans(kind, IF Head(p) = "insert" THEN n - 1 ELSE n)
  /\ Head(p) = "get" => Tail(p) = <<"snapshot", "lookup">>
  /\ p \in {<<"snapshot", "lookup">>, <<"lookup">>} =>
       Tail(p) \in {<<>>, <<"lookup">>} /\ Head(p) \in {"snapshot", "lookup"}

LEMMA ExecuteTails ==
  ASSUME NEW n \in Nat, NEW p \in BeforeBegin \cup AfterBegin
  PROVE  Follows(p, "execute", n)
<1> DEFINE H == HandlerPlans("execute", n)
<1>1. (BeforeBegin \cup AfterBegin) \subseteq H
  BY DEF HandlerPlans
<1> USE DEF Follows, OnJobs, OnRunning
<1>2. CASE p = <<"find", "begin", "get", "snapshot", "lookup">>
  <2>1. Tail(p) \in H
    BY <1>1, <1>2, ShortTails DEF BeforeBegin
  <2> QED BY <1>2, <2>1, ShortTails, ShortPlans
<1>3. CASE p = <<"begin", "get", "snapshot", "lookup">>
  <2>1. Tail(p) \in H
    BY <1>1, <1>3, ShortTails DEF AfterBegin
  <2> QED BY <1>3, <2>1, ShortTails, ShortPlans
<1>4. CASE p = <<"get", "snapshot", "lookup">>
  <2>1. Tail(p) \in H
    BY <1>1, <1>4, ShortTails DEF AfterBegin
  <2> QED BY <1>4, <2>1, ShortTails, ShortPlans
<1>5. CASE p = <<"snapshot", "lookup">>
  <2>1. Tail(p) \in H
    BY <1>1, <1>5, ShortTails DEF AfterBegin
  <2> QED BY <1>5, <2>1, ShortTails, ShortPlans
<1>6. CASE p = <<"lookup">>
  BY <1>6, ShortTails, ShortPlans
<1> QED BY <1>2, <1>3, <1>4, <1>5, <1>6 DEF BeforeBegin, AfterBegin

LEMMA StopTails ==
  ASSUME NEW n \in Nat, NEW p \in StopPlans
  PROVE  Follows(p, "stop", n)
<1> DEFINE H == HandlerPlans("stop", n)
<1>1. StopPlans \subseteq H
  BY DEF HandlerPlans
<1> USE DEF Follows, OnJobs, OnRunning
<1>2. CASE p = <<"find", "notify", "snapshot", "lookup">>
  <2>1. Tail(p) \in H
    BY <1>1, <1>2, ShortTails DEF StopPlans
  <2> QED BY <1>2, <2>1, ShortTails, ShortPlans
<1>3. CASE p = <<"notify", "snapshot", "lookup">>
  <2>1. Tail(p) \in H
    BY <1>1, <1>3, ShortTails DEF StopPlans
  <2> QED BY <1>3, <2>1, ShortTails, ShortPlans
<1>4. CASE p = <<"snapshot", "lookup">>
  <2>1. Tail(p) \in H
    BY <1>1, <1>4, ShortTails DEF StopPlans
  <2> QED BY <1>4, <2>1, ShortTails, ShortPlans
<1>5. CASE p = <<"lookup">>
  BY <1>5, ShortTails, ShortPlans
<1> QED BY <1>2, <1>3, <1>4, <1>5 DEF StopPlans

LEMMA ReadingTails ==
  ASSUME NEW n \in Nat
  PROVE  /\ Follows(<<"snapshot", "lookup">>, "running", n)
         /\ Follows(<<"lookup">>, "running", n)
         /\ Follows(<<"describe">>, "jobs", n)
<1> USE DEF Follows, OnJobs, OnRunning
<1>1. <<"lookup">> \in HandlerPlans("running", n)
  BY DEF HandlerPlans
<1>2. Follows(<<"snapshot", "lookup">>, "running", n)
  BY <1>1, ShortTails, ShortPlans
<1>3. Follows(<<"lookup">>, "running", n)
  BY ShortTails, ShortPlans
<1>4. Follows(<<"describe">>, "jobs", n)
  <2>1. <<"describe">> # <<"lookup">> /\ <<"describe">> # <<"snapshot", "lookup">>
    BY ShortTails
  <2> QED BY <2>1, ShortTails, ShortPlans
<1> QED BY <1>2, <1>3, <1>4

LEMMA ReloadTails ==
  ASSUME NEW n \in Nat,
         NEW p \in BeforeClear(n) \cup (IF n = 0 THEN {} ELSE AfterClear(n))
  PROVE  Follows(p, "reload", n)
<1> USE DEF Follows, OnJobs, OnRunning
<1>1. \A m \in Nat : BeforeClear(m) \subseteq HandlerPlans("reload", m)
  BY DEF HandlerPlans
<1>2. \A m \in Nat : m # 0 => AfterClear(m) \subseteq HandlerPlans("reload", m)
  BY DEF HandlerPlans
<1>3. Pairs(0) = <<>>
  BY DEF Pairs
<1>4. CASE p = Rebuild(n)
  <2>1. Head(p) = "notify" /\ Tail(p) \in HandlerPlans("reload", n)
    BY <1>1, <1>4, RebuildTails DEF BeforeClear
  <2>2. p # <<"snapshot", "lookup">> /\ p # <<"lookup">>
    BY <2>1, ShortTails
  <2> QED BY <1>4, <2>1, <2>2, RebuildTails
<1>5. CASE p = <<"clear">> \o Pairs(n)
  <2>1. Head(p) = "clear" /\ Tail(p) = Pairs(n)
    BY <1>5, RebuildTails
  <2>2. Tail(p) = <<>> \/ Tail(p) \in HandlerPlans("reload", n)
    BY <1>2, <1>3, <2>1 DEF AfterClear
  <2>3. p # <<"snapshot", "lookup">> /\ p # <<"lookup">>
    BY <2>1, ShortTails
  <2> QED BY <1>5, <2>1, <2>2, <2>3, RebuildTails
<1>6. CASE n # 0 /\ p = Pairs(n)
  <2>1. Head(p) = "remove_job" /\ Tail(p) = Half(n) /\ p \in Seq(Sections) /\ p # <<>>
    BY <1>6, PairsTails
  <2>2. Tail(p) \in HandlerPlans("reload", n)
    BY <1>2, <1>6, <2>1 DEF AfterClear
  <2>3. p # <<"snapshot", "lookup">> /\ p # <<"lookup">>
    BY <2>1, ShortTails
  <2> QED BY <2>1, <2>2, <2>3
<1>7. CASE n # 0 /\ p = Half(n)
  <2>1. Head(p) = "insert" /\ Tail(p) = Pairs(n - 1) /\ p \in Seq(Sections) /\ p # <<>>
    BY <1>7, PairsTails
  <2>2. Tail(p) = <<>> \/ Tail(p) \in HandlerPlans("reload", n - 1)
    <3>1. CASE n = 1
      BY <1>3, <2>1, <3>1
    <3>2. CASE n # 1
      <4>1. n - 1 \in Nat /\ n - 1 # 0
        BY <1>7, <3>2
      <4>2. Pairs(n - 1) \in AfterClear(n - 1)
        BY DEF AfterClear
      <4> QED BY <1>2, <2>1, <4>1, <4>2
    <3> QED BY <3>1, <3>2
  <2>3. p # <<"snapshot", "lookup">> /\ p # <<"lookup">>
    BY <2>1, ShortTails
  <2> QED BY <1>7, <2>1, <2>2, <2>3
<1> QED BY <1>4, <1>5, <1>6, <1>7 DEF BeforeClear, AfterClear

LEMMA HandlerTails ==
  ASSUME NEW kind, NEW n \in Nat, NEW p \in HandlerPlans(kind, n)
  PROVE  Follows(p, kind, n)
<1>1. \/ kind = "reload" /\ p \in BeforeClear(n) \cup (IF n = 0 THEN {} ELSE AfterClear(n))
      \/ kind = "execute" /\ p \in BeforeBegin \cup AfterBegin
      \/ kind = "stop" /\ p \in StopPlans
      \/ kind = "running" /\ p \in {<<"snapshot", "lookup">>, <<"lookup">>}
      \/ kind = "jobs" /\ p = <<"describe">>
  BY DEF HandlerPlans
<1> QED BY <1>1, ReloadTails, ExecuteTails, StopTails, ReadingTails

LEMMA RunTails ==
  ASSUME NEW p \in RunPlans
  PROVE  /\ p \in Seq(Sections)
         /\ p # <<>> => /\ Tail(p) \in RunPlans
                        /\ Head(p) \in {"dispatch", "record", "remove"}
<1>1. CASE p = <<"dispatch", "record", "remove">>
  BY <1>1, ShortTails, ShortPlans DEF RunPlans
<1>2. CASE p = <<"record", "remove">>
  BY <1>2, ShortTails, ShortPlans DEF RunPlans
<1>3. CASE p = <<"remove">>
  BY <1>3, ShortTails, ShortPlans DEF RunPlans
<1>4. CASE p = <<>>
  BY <1>4
<1> QED BY <1>1, <1>2, <1>3, <1>4 DEF RunPlans

-----------------------------------------------------------------------------
(* Threads, and the requests they work for.                                *)

LEMMA ThreadPairs ==
  /\ \A r \in Reqs : /\ Handler(r) \in Threads /\ Handler(r)[1] = r /\ Handler(r)[2] = "handler"
                     /\ Run(r) \in Threads /\ Run(r)[1] = r /\ Run(r)[2] = "run"
  /\ \A r, s \in Reqs : Handler(r) # Run(s)
  /\ \A t \in Threads : t[1] \in Reqs /\ (t = Handler(t[1]) \/ t = Run(t[1]))
  /\ Nobody \notin Threads
BY ApiAssumption DEF Threads, Handler, Run

LEMMA RequestTypes ==
  ASSUME cfg \in Configs
  PROVE  /\ \A r \in Reqs : Kind(r) \in RequestKinds
         /\ \A t \in Threads : Key(t) \in Keys
BY ApiAssumption, ThreadPairs DEF Kind, Key

(* What a thread with something left to do is.                             *)
LEMMA Working ==
  ASSUME Stocked, Shaped, NEW t \in Threads, plan[t] # <<>>
  PROVE  /\ Len(loaded[t[1]]) \in Nat
         /\ t[2] = "handler" =>
              /\ t = Handler(t[1])
              /\ stage[t[1]] = "sections"
              /\ Follows(plan[t], Kind(t[1]), Len(loaded[t[1]]))
         /\ t[2] # "handler" =>
              /\ t = Run(t[1])
              /\ Tail(plan[t]) \in RunPlans
              /\ Section(t) \in {"dispatch", "record", "remove"}
<1> DEFINE r == t[1]
<1>1. r \in Reqs /\ (t = Handler(r) \/ t = Run(r))
  BY ThreadPairs
<1>2. Len(loaded[r]) \in Nat
  BY <1>1 DEF Stocked
<1>3. CASE t = Handler(r)
  <2>1. stage[r] = "sections" /\ plan[t] \in HandlerPlans(Kind(r), Len(loaded[r]))
    BY <1>1, <1>3 DEF Shaped
  <2>2. Follows(plan[t], Kind(r), Len(loaded[r]))
    BY <1>2, <2>1, HandlerTails
  <2>3. t[2] = "handler"
    BY <1>1, <1>3, ThreadPairs
  <2> QED BY <1>2, <1>3, <2>1, <2>2, <2>3
<1>4. CASE t = Run(r)
  <2>1. plan[t] \in RunPlans
    BY <1>1, <1>4 DEF Shaped
  <2>2. t[2] # "handler"
    BY <1>1, <1>4, ThreadPairs
  <2> QED BY <1>2, <1>4, <2>1, <2>2, RunTails DEF Section
<1> QED BY <1>1, <1>3, <1>4

-----------------------------------------------------------------------------
(* Taking and releasing the mutexes.                                       *)

LockTypes ==
  /\ inside \in [Threads -> BOOLEAN]
  /\ visits \in [Threads -> SUBSET Keys]
  /\ mapLock \in [{"jobs", "running"} -> Threads \cup {Nobody}]
  /\ stateLock \in [Keys -> Threads \cup {Nobody}]

LEMMA ReleaseKeepsHeld ==
  ASSUME LockTypes, Held, NEW t \in Threads, Key(t) \in Keys, cfg' = cfg,
         inside[t], Section(t) \in Reading => visits[t] = {}, Release(t),
         \A u \in Threads : u # t /\ inside[u] => plan'[u] = plan[u]
  PROVE  LockTypes' /\ Held'
<1>1. LockTypes'
  BY DEF LockTypes, Release, ReleaseMap, Map
<1>2. \A u \in Threads : inside'[u] <=> u # t /\ inside[u]
  BY DEF LockTypes, Release
<1>3. \A u \in Threads : inside'[u] => /\ u # t /\ inside[u] /\ plan'[u] = plan[u]
                                       /\ Section(u)' = Section(u) /\ Map(u)' = Map(u)
  BY <1>2 DEF Section, Map
<1>4. \A u \in Threads : Key(u)' = Key(u)
  BY DEF Key
<1>5. \A u \in Threads : inside'[u] => plan'[u] # <<>> /\ Section(u)' # "dispatch"
  BY <1>3 DEF Held
<1>6. \A u \in Threads, l \in {"jobs", "running"} :
        mapLock'[l] = u <=> inside'[u] /\ Section(u)' # "record" /\ Map(u)' = l
  <2> SUFFICES ASSUME NEW u \in Threads, NEW l \in {"jobs", "running"}
               PROVE  mapLock'[l] = u <=> inside'[u] /\ Section(u)' # "record" /\ Map(u)' = l
    OBVIOUS
  <2>1. mapLock[l] = u <=> inside[u] /\ Section(u) # "record" /\ Map(u) = l
    BY DEF Held
  <2>2. mapLock[l] = t <=> Section(t) # "record" /\ Map(t) = l
    BY DEF Held
  <2>3. mapLock'[l] = IF Section(t) # "record" /\ Map(t) = l THEN Nobody ELSE mapLock[l]
    BY DEF LockTypes, Release, ReleaseMap
  <2>4. CASE u = t
    BY <1>2, <2>2, <2>3, <2>4, ThreadPairs
  <2>5. CASE u # t /\ inside[u]
    BY <1>2, <1>3, <2>1, <2>2, <2>3, <2>5, ThreadPairs
  <2>6. CASE u # t /\ ~ inside[u]
    BY <1>2, <2>1, <2>2, <2>3, <2>6, ThreadPairs
  <2> QED BY <2>4, <2>5, <2>6
<1>7. \A u \in Threads, k \in Keys :
        stateLock'[k] = u => /\ inside'[u]
                             /\ \/ Section(u)' = "record" /\ k = Key(u)'
                                \/ Section(u)' \in Reading /\ k \in visits'[u]
  <2> SUFFICES ASSUME NEW u \in Threads, NEW k \in Keys, stateLock'[k] = u
               PROVE  /\ inside'[u]
                      /\ \/ Section(u)' = "record" /\ k = Key(u)'
                         \/ Section(u)' \in Reading /\ k \in visits'[u]
    OBVIOUS
  <2>1. stateLock[k] = u /\ visits' = visits /\ ~ (Section(t) = "record" /\ k = Key(t))
    BY ThreadPairs DEF LockTypes, Release
  <2>2. /\ inside[u]
        /\ \/ Section(u) = "record" /\ k = Key(u)
           \/ Section(u) \in Reading /\ k \in visits[u]
    BY <2>1 DEF Held
  <2>3. u # t
    BY <2>1, <2>2
  <2> QED BY <1>2, <1>3, <1>4, <2>1, <2>2, <2>3
<1>8. \A u \in Threads : visits'[u] # {} => inside'[u] /\ Section(u)' \in Reading
  <2> SUFFICES ASSUME NEW u \in Threads, visits'[u] # {}
               PROVE  inside'[u] /\ Section(u)' \in Reading
    OBVIOUS
  <2>1. visits[u] # {}
    BY DEF Release
  <2>2. inside[u] /\ Section(u) \in Reading
    BY <2>1 DEF Held
  <2> QED BY <1>2, <1>3, <2>1, <2>2
<1> QED BY <1>1, <1>5, <1>6, <1>7, <1>8 DEF Held

LEMMA UntouchedKeepsHeld ==
  ASSUME LockTypes, Held, cfg' = cfg, UNCHANGED <<inside, visits, mapLock, stateLock>>,
         \A u \in Threads : inside[u] => plan'[u] = plan[u]
  PROVE  LockTypes' /\ Held'
<1>1. LockTypes'
  BY DEF LockTypes
<1>2. \A u \in Threads : inside[u] => Section(u)' = Section(u) /\ Map(u)' = Map(u)
  BY DEF Section, Map
<1>3. \A u \in Threads : Key(u)' = Key(u)
  BY DEF Key
<1>4. \A u \in Threads : inside'[u] => plan'[u] # <<>> /\ Section(u)' # "dispatch"
  BY <1>2 DEF Held
<1>5. \A u \in Threads, l \in {"jobs", "running"} :
        mapLock'[l] = u <=> inside'[u] /\ Section(u)' # "record" /\ Map(u)' = l
  BY <1>2 DEF Held
<1>6. \A u \in Threads, k \in Keys :
        stateLock'[k] = u => /\ inside'[u]
                             /\ \/ Section(u)' = "record" /\ k = Key(u)'
                                \/ Section(u)' \in Reading /\ k \in visits'[u]
  BY <1>2, <1>3 DEF Held
<1>7. \A u \in Threads : visits'[u] # {} => inside'[u] /\ Section(u)' \in Reading
  BY <1>2 DEF Held
<1> QED BY <1>1, <1>4, <1>5, <1>6, <1>7 DEF Held

LEMMA EnterKeepsHeld ==
  ASSUME LockTypes, Held, NEW t \in Threads, Key(t) \in Keys, cfg' = cfg, Enter(t),
         DOMAIN jobs \subseteq Keys, seen \in [Threads -> SUBSET Keys]
  PROVE  LockTypes' /\ Held'
<1> DEFINE V == IF Section(t) = "describe" THEN Shown(t, DOMAIN jobs)
                ELSE IF Section(t) = "lookup" THEN seen[t] \cap DOMAIN jobs ELSE {}
<1>1. V \subseteq Keys /\ (V # {} => Section(t) \in Reading)
  BY DEF Shown, Reading
<1>2. /\ inside' = [inside EXCEPT ![t] = TRUE]
      /\ visits' = [visits EXCEPT ![t] = V]
      /\ plan' = plan
      /\ ~ inside[t] /\ plan[t] # <<>> /\ Section(t) # "dispatch"
  BY Zenon DEF Enter
<1> HIDE DEF V
<1>3. /\ Map(t) \in {"jobs", "running"}
      /\ \/ /\ Section(t) = "record"
            /\ stateLock[Key(t)] = Nobody
            /\ stateLock' = [stateLock EXCEPT ![Key(t)] = t]
            /\ mapLock' = mapLock
         \/ /\ Section(t) # "record"
            /\ mapLock[Map(t)] = Nobody
            /\ mapLock' = [mapLock EXCEPT ![Map(t)] = t]
            /\ stateLock' = stateLock
  BY DEF Enter, Map
<1>4. LockTypes'
  <2>1. inside' \in [Threads -> BOOLEAN] /\ visits' \in [Threads -> SUBSET Keys]
    BY <1>1, <1>2 DEF LockTypes
  <2> QED BY <1>3, <2>1 DEF LockTypes
<1>5. \A u \in Threads : inside'[u] <=> u = t \/ inside[u]
  BY <1>2 DEF LockTypes
<1>6. \A u \in Threads : Section(u)' = Section(u) /\ Map(u)' = Map(u) /\ Key(u)' = Key(u)
  BY <1>2 DEF Section, Map, Key
<1>7. \A u \in Threads : inside'[u] => plan'[u] # <<>> /\ Section(u)' # "dispatch"
  BY <1>2, <1>5, <1>6 DEF Held
<1>8. \A u \in Threads, l \in {"jobs", "running"} :
        mapLock'[l] = u <=> inside'[u] /\ Section(u)' # "record" /\ Map(u)' = l
  <2> SUFFICES ASSUME NEW u \in Threads, NEW l \in {"jobs", "running"}
               PROVE  mapLock'[l] = u <=> inside'[u] /\ Section(u) # "record" /\ Map(u) = l
    BY <1>6
  <2>1. mapLock[l] = u <=> inside[u] /\ Section(u) # "record" /\ Map(u) = l
    BY DEF Held
  <2>2. mapLock'[l] = IF Section(t) # "record" /\ Map(t) = l THEN t ELSE mapLock[l]
    BY <1>3 DEF LockTypes
  <2>3. Section(t) # "record" /\ Map(t) = l => mapLock[l] = Nobody
    BY <1>3
  <2> QED BY <1>2, <1>5, <2>1, <2>2, <2>3, ThreadPairs
<1>9. \A u \in Threads, k \in Keys :
        stateLock'[k] = u => /\ inside'[u]
                             /\ \/ Section(u)' = "record" /\ k = Key(u)'
                                \/ Section(u)' \in Reading /\ k \in visits'[u]
  <2> SUFFICES ASSUME NEW u \in Threads, NEW k \in Keys, stateLock'[k] = u
               PROVE  /\ inside'[u]
                      /\ \/ Section(u) = "record" /\ k = Key(u)
                         \/ Section(u) \in Reading /\ k \in visits'[u]
    BY <1>6
  <2>1. CASE Section(t) = "record" /\ k = Key(t)
    BY <1>3, <1>5, <2>1 DEF LockTypes
  <2>2. CASE ~ (Section(t) = "record" /\ k = Key(t))
    <3>1. stateLock[k] = u
      BY <1>3, <2>2 DEF LockTypes
    <3>2. /\ inside[u]
          /\ \/ Section(u) = "record" /\ k = Key(u)
             \/ Section(u) \in Reading /\ k \in visits[u]
      BY <3>1 DEF Held
    <3>3. u # t /\ visits'[u] = visits[u]
      BY <1>2, <3>2 DEF LockTypes
    <3> QED BY <1>5, <3>2, <3>3
  <2> QED BY <2>1, <2>2
<1>10. \A u \in Threads : visits'[u] # {} => inside'[u] /\ Section(u)' \in Reading
  <2> SUFFICES ASSUME NEW u \in Threads, visits'[u] # {}
               PROVE  inside'[u] /\ Section(u) \in Reading
    BY <1>6
  <2>1. CASE u = t
    BY <1>1, <1>2, <1>5, <2>1 DEF LockTypes
  <2>2. CASE u # t
    <3>1. visits[u] # {}
      BY <1>2, <2>2 DEF LockTypes
    <3> QED BY <1>5, <3>1 DEF Held
  <2> QED BY <2>1, <2>2
<1> QED BY <1>4, <1>7, <1>8, <1>9, <1>10 DEF Held

LEMMA StateKeepsHeld ==
  ASSUME LockTypes, Held, NEW t \in Threads, NEW k \in Keys, cfg' = cfg,
         TakeState(t, k) \/ DropState(t, k)
  PROVE  LockTypes' /\ Held'
<1>1. /\ UNCHANGED <<plan, inside, mapLock>>
      /\ inside[t] /\ Section(t) \in Reading
  BY DEF TakeState, DropState
<1>2. \/ /\ k \in visits[t] /\ stateLock' = [stateLock EXCEPT ![k] = t]
         /\ visits' = visits
      \/ /\ stateLock' = [stateLock EXCEPT ![k] = Nobody]
         /\ visits' = [visits EXCEPT ![t] = visits[t] \ {k}]
  BY DEF TakeState, DropState
<1>3. LockTypes'
  BY <1>1, <1>2 DEF LockTypes
<1>4. \A u \in Threads : Section(u)' = Section(u) /\ Map(u)' = Map(u) /\ Key(u)' = Key(u)
  BY <1>1 DEF Section, Map, Key
<1>5. \A u \in Threads : inside'[u] => plan'[u] # <<>> /\ Section(u)' # "dispatch"
  BY <1>1, <1>4 DEF Held
<1>6. \A u \in Threads, l \in {"jobs", "running"} :
        mapLock'[l] = u <=> inside'[u] /\ Section(u)' # "record" /\ Map(u)' = l
  BY <1>1, <1>4 DEF Held
<1>7. \A u \in Threads, j \in Keys :
        stateLock'[j] = u => /\ inside'[u]
                             /\ \/ Section(u)' = "record" /\ j = Key(u)'
                                \/ Section(u)' \in Reading /\ j \in visits'[u]
  <2> SUFFICES ASSUME NEW u \in Threads, NEW j \in Keys, stateLock'[j] = u
               PROVE  /\ inside[u]
                      /\ \/ Section(u) = "record" /\ j = Key(u)
                         \/ Section(u) \in Reading /\ j \in visits'[u]
    BY <1>1, <1>4
  <2>1. CASE j = k
    <3>1. u = t /\ k \in visits'[t]
      BY <1>2, <2>1, ThreadPairs DEF LockTypes
    <3> QED BY <1>1, <2>1, <3>1
  <2>2. CASE j # k
    <3>1. stateLock[j] = u
      BY <1>2, <2>2 DEF LockTypes
    <3>2. /\ inside[u]
          /\ \/ Section(u) = "record" /\ j = Key(u)
             \/ Section(u) \in Reading /\ j \in visits[u]
      BY <3>1 DEF Held
    <3>3. j \in visits[u] => j \in visits'[u]
      BY <1>2, <2>2 DEF LockTypes
    <3> QED BY <3>2, <3>3
  <2> QED BY <2>1, <2>2
<1>8. \A u \in Threads : visits'[u] # {} => inside'[u] /\ Section(u)' \in Reading
  <2> SUFFICES ASSUME NEW u \in Threads, visits'[u] # {}
               PROVE  inside[u] /\ Section(u) \in Reading
    BY <1>1, <1>4
  <2>1. visits[u] # {}
    BY <1>2 DEF LockTypes
  <2> QED BY <2>1 DEF Held
<1> QED BY <1>3, <1>5, <1>6, <1>7, <1>8 DEF Held

-----------------------------------------------------------------------------
(* The end of a section: what every thread has still to do.                *)

PlanTypes ==
  /\ stage \in [Reqs -> {"idle", "loading", "sections", "done", "gone"}]
  /\ plan \in [Threads -> Seq(Sections)]

LEMMA TypeParts == TypeOK => LockTypes /\ PlanTypes
BY DEF TypeOK, LockTypes, PlanTypes

(* A step moves one request on and leaves the others.                      *)
LEMMA ShapedByRequest ==
  ASSUME Stocked, Shaped, PlanTypes', cfg' = cfg, NEW r \in Reqs,
         /\ IF stage'[r] = "sections"
            THEN plan'[Handler(r)] \in HandlerPlans(Kind(r), Len(loaded'[r]))
            ELSE plan'[Handler(r)] = <<>>
         /\ stage'[r] = "loading" => Kind(r) = "reload"
         /\ plan'[Run(r)] \in RunPlans
         /\ plan'[Run(r)] # <<>> =>
              /\ stage'[r] \notin {"idle", "loading"}
              /\ plan'[Handler(r)] \in {<<>>, <<"snapshot", "lookup">>, <<"lookup">>},
         \A s \in Reqs : s # r => /\ stage'[s] = stage[s]
                                  /\ plan'[Handler(s)] = plan[Handler(s)]
                                  /\ plan'[Run(s)] = plan[Run(s)]
                                  /\ loaded'[s] = loaded[s]
  PROVE  Shaped'
<1>1. \A s \in Reqs : Kind(s)' = Kind(s)
  BY DEF Kind
<1>2. DOMAIN stage' = Reqs /\ DOMAIN plan' = Threads
  BY DEF PlanTypes
<1>3. ASSUME NEW s \in Reqs
      PROVE  /\ IF stage'[s] = "sections"
                THEN plan'[Handler(s)] \in HandlerPlans(Kind(s)', Len(loaded'[s]))
                ELSE plan'[Handler(s)] = <<>>
             /\ stage'[s] = "loading" => Kind(s)' = "reload"
             /\ plan'[Run(s)] \in RunPlans
             /\ plan'[Run(s)] # <<>> =>
                  /\ stage'[s] \notin {"idle", "loading"}
                  /\ plan'[Handler(s)] \in {<<>>, <<"snapshot", "lookup">>, <<"lookup">>}
  <2>1. CASE s = r
    BY <1>1, <2>1
  <2>2. CASE s # r
    BY <1>1, <2>2 DEF Shaped
  <2> QED BY <2>1, <2>2
<1> QED BY <1>2, <1>3 DEF Shaped

LEMMA ProceedKeeps ==
  ASSUME TypeOK, Stocked, Shaped, Held, cfg' = cfg, NEW t \in Threads,
         inside[t], Section(t) \in Reading => visits[t] = {}, Proceed(t),
         loaded' = IF Section(t) = "insert" THEN [loaded EXCEPT ![t[1]] = Tail(loaded[t[1]])]
                   ELSE loaded
  PROVE  PlanTypes' /\ LockTypes' /\ Shaped' /\ Held'
<1> DEFINE r == t[1]
           p == plan[t]
           n == Len(loaded[r])
<1>1. /\ r \in Reqs /\ p # <<>> /\ Section(t) = Head(p) /\ Head(p) # "dispatch"
      /\ Key(t) \in Keys /\ loaded[r] \in Seq(LoadedJobs) /\ p \in Seq(Sections)
      /\ LockTypes /\ PlanTypes
  BY ThreadPairs, RequestTypes, TypeParts DEF Held, Section, Stocked, PlanTypes
<1>2. Release(t)
  BY DEF Proceed
<1>3. RunTask \in RunPlans /\ RunTask \in Seq(Sections)
  BY ShortPlans DEF RunTask, RunPlans
<1>4. CASE t[2] = "handler"
  <2>1. /\ t = Handler(r) /\ stage[r] = "sections" /\ Follows(p, Kind(r), n)
        /\ p \in HandlerPlans(Kind(r), n)
    BY <1>1, <1>4, Working DEF Shaped
  <2>2. /\ Tail(p) \in Seq(Sections)
        /\ Head(p) = "insert" => loaded[r] # <<>>
        /\ Head(p) = "get" => Tail(p) # <<>>
    <3>1. Tail(p) \in Seq(Sections)
      BY <1>1
    <3>2. Head(p) = "insert" => loaded[r] # <<>>
      BY <2>1 DEF Follows
    <3>3. Head(p) = "get" => Tail(p) # <<>>
      BY <2>1, ShortPlans DEF Follows
    <3> QED BY <3>1, <3>2, <3>3
  <2>3. /\ plan' \in [Threads -> Seq(Sections)]
        /\ plan'[t] = Tail(p)
        /\ plan'[Run(r)] = IF Head(p) = "get" THEN RunTask ELSE plan[Run(r)]
        /\ \A s \in Reqs : s # r => /\ plan'[Handler(s)] = plan[Handler(s)]
                                    /\ plan'[Run(s)] = plan[Run(s)]
    <3>1. CASE Head(p) = "get"
      <4>1. plan' = [plan EXCEPT ![t] = Tail(p), ![Run(r)] = RunTask]
        BY <1>1, <3>1 DEF Proceed
      <4>2. t # Run(r) /\ Run(r) \in Threads
        BY <1>1, <2>1, ThreadPairs
      <4>3. /\ plan' \in [Threads -> Seq(Sections)] /\ plan'[t] = Tail(p)
            /\ plan'[Run(r)] = RunTask
            /\ \A u \in Threads : u # t /\ u # Run(r) => plan'[u] = plan[u]
        BY <1>1, <1>3, <2>2, <4>1, <4>2 DEF PlanTypes
      <4>4. \A s \in Reqs : s # r => Handler(s) # t /\ Run(s) # Run(r)
        BY <1>1, <2>1, ThreadPairs
      <4> QED BY <1>1, <2>1, <3>1, <4>3, <4>4, ThreadPairs
    <3>2. CASE Head(p) # "get"
      <4>1. plan' = [plan EXCEPT ![t] = Tail(p)]
        BY <1>1, <3>2 DEF Proceed
      <4> QED BY <1>1, <2>1, <2>2, <3>2, <4>1, ThreadPairs DEF PlanTypes
    <3> QED BY <3>1, <3>2
  <2>4. stage' = IF Tail(p) = <<>> THEN [stage EXCEPT ![r] = "done"] ELSE stage
    BY <1>4 DEF Proceed, Respond, answerVars
  <2>5. PlanTypes'
    BY <1>1, <2>3, <2>4 DEF PlanTypes
  <2>6. /\ Len(loaded'[r]) = IF Head(p) = "insert" THEN n - 1 ELSE n
        /\ \A s \in Reqs : s # r => loaded'[s] = loaded[s]
    BY <1>1, <2>2 DEF Stocked
  <2>7. /\ stage'[r] = IF Tail(p) = <<>> THEN "done" ELSE "sections"
        /\ \A s \in Reqs : s # r => stage'[s] = stage[s]
    BY <1>1, <2>1, <2>4 DEF PlanTypes
  <2>8. Tail(p) # <<>> => plan'[t] \in HandlerPlans(Kind(r), Len(loaded'[r]))
    BY <2>1, <2>3, <2>6 DEF Follows
  <2>9. plan'[Run(r)] \in RunPlans
    BY <1>1, <1>3, <2>3 DEF Shaped
  <2>10. plan'[Run(r)] # <<>> => plan'[t] \in {<<>>, <<"snapshot", "lookup">>, <<"lookup">>}
    <3>1. CASE Head(p) = "get"
      BY <2>1, <2>3, <3>1 DEF Follows
    <3>2. CASE Head(p) # "get" /\ plan[Run(r)] # <<>>
      <4>1. p \in {<<"snapshot", "lookup">>, <<"lookup">>}
        BY <1>1, <2>1, <3>2 DEF Shaped
      <4> QED BY <2>1, <2>3, <4>1 DEF Follows
    <3> QED BY <2>3, <3>1, <3>2
  <2>11. Shaped'
    BY <1>1, <2>1, <2>3, <2>5, <2>6, <2>7, <2>8, <2>9, <2>10, ShapedByRequest
  <2>12. \A u \in Threads : u # t /\ inside[u] => plan'[u] = plan[u]
    <3> SUFFICES ASSUME NEW u \in Threads, u # t, inside[u]
                 PROVE  plan'[u] = plan[u]
      OBVIOUS
    <3>1. CASE u = Run(r)
      <4>1. plan[Run(r)] # <<>>
        BY <3>1 DEF Held
      <4>2. p \in {<<"snapshot", "lookup">>, <<"lookup">>}
        BY <1>1, <2>1, <4>1 DEF Shaped
      <4> QED BY <2>3, <3>1, <4>2, ShortTails
    <3>2. CASE u # Run(r)
      <4>1. u[1] \in Reqs /\ (u = Handler(u[1]) \/ u = Run(u[1])) /\ u[1] # r
        BY <2>1, <3>2, ThreadPairs
      <4> QED BY <2>3, <4>1
    <3> QED BY <3>1, <3>2
  <2>13. LockTypes' /\ Held'
    BY <1>1, <1>2, <2>12, ReleaseKeepsHeld
  <2> QED BY <2>5, <2>11, <2>13
<1>5. CASE t[2] # "handler"
  <2>1. /\ t = Run(r) /\ Tail(p) \in RunPlans /\ Head(p) \in {"dispatch", "record", "remove"}
        /\ Tail(p) \in Seq(Sections)
    BY <1>1, <1>5, Working, RunTails
  <2>2. plan' = [plan EXCEPT ![t] = Tail(p)] /\ stage' = stage /\ loaded' = loaded
    BY <1>1, <1>5, <2>1 DEF Proceed, answerVars
  <2>3. /\ plan'[t] = Tail(p) /\ plan'[Handler(r)] = plan[Handler(r)]
        /\ \A s \in Reqs : s # r => /\ plan'[Handler(s)] = plan[Handler(s)]
                                    /\ plan'[Run(s)] = plan[Run(s)]
        /\ \A u \in Threads : u # t => plan'[u] = plan[u]
    BY <1>1, <2>1, <2>2, ThreadPairs DEF PlanTypes
  <2>4. PlanTypes'
    BY <1>1, <2>1, <2>2 DEF PlanTypes
  <2>5. /\ IF stage[r] = "sections"
           THEN plan[Handler(r)] \in HandlerPlans(Kind(r), Len(loaded[r]))
           ELSE plan[Handler(r)] = <<>>
        /\ stage[r] \notin {"idle", "loading"}
        /\ plan[Handler(r)] \in {<<>>, <<"snapshot", "lookup">>, <<"lookup">>}
    BY <1>1, <2>1 DEF Shaped
  <2>6. Shaped'
    BY <1>1, <2>1, <2>2, <2>3, <2>4, <2>5, ShapedByRequest
  <2>7. LockTypes' /\ Held'
    BY <1>1, <1>2, <2>3, ReleaseKeepsHeld
  <2> QED BY <2>4, <2>6, <2>7
<1> QED BY <1>4, <1>5

LEMMA BailKeeps ==
  ASSUME TypeOK, Stocked, Shaped, Held, cfg' = cfg, loaded' = loaded, NEW t \in Threads,
         inside[t], Section(t) \in {"find", "begin"}, NEW error, Bail(t, error)
  PROVE  PlanTypes' /\ LockTypes' /\ Shaped' /\ Held'
<1> DEFINE r == t[1]
<1>1. /\ r \in Reqs /\ plan[t] # <<>> /\ Key(t) \in Keys
      /\ LockTypes /\ PlanTypes
  BY ThreadPairs, RequestTypes, TypeParts DEF Held, Stocked
<1>2. t = Handler(r) /\ stage[r] = "sections" /\ t # Run(r)
  BY <1>1, Working, ThreadPairs
<1>3. Release(t) /\ plan' = [plan EXCEPT ![t] = <<>>] /\ stage' = [stage EXCEPT ![r] = "done"]
  BY DEF Bail, Fail, Respond
<1>4. PlanTypes'
  BY <1>1, <1>3 DEF PlanTypes
<1>5. /\ \A u \in Threads : u # t => plan'[u] = plan[u]
      /\ plan'[t] = <<>> /\ stage'[r] = "done"
      /\ \A s \in Reqs : s # r => /\ plan'[Handler(s)] = plan[Handler(s)]
                                  /\ plan'[Run(s)] = plan[Run(s)]
                                  /\ stage'[s] = stage[s]
  BY <1>1, <1>2, <1>3, ThreadPairs DEF PlanTypes
<1>6. Shaped'
  <2>1. plan'[Run(r)] \in RunPlans
    BY <1>1, <1>2, <1>5, ThreadPairs DEF Shaped
  <2> QED BY <1>1, <1>2, <1>4, <1>5, <2>1, ShapedByRequest
<1>7. LockTypes' /\ Held'
  <2>1. Section(t) \notin Reading
    BY DEF Reading
  <2> QED BY <1>1, <1>3, <1>5, <2>1, ReleaseKeepsHeld
<1> QED BY <1>4, <1>6, <1>7

-----------------------------------------------------------------------------
(* The rest of the invariant.                                              *)

Phases == {"serving", "draining", "stopped", "exited", "killed"}

RestTypes ==
  /\ running \subseteq Keys
  /\ seen \in [Threads -> SUBSET Keys]
  /\ phase \in Phases
  /\ changed \subseteq Reqs

Registry(j) == DOMAIN j \subseteq Keys /\ \A k \in DOMAIN j : j[k] \in GoodSpecs

LEMMA Assembled ==
  IInv => /\ TypeOK /\ PlanTypes /\ LockTypes /\ RestTypes /\ Stocked /\ Shaped /\ Held
          /\ Registry(jobs)
BY DEF Registry, IInv, TypeOK, PlanTypes, LockTypes, RestTypes, Stocked, Held, Phases

LEMMA Reassembled ==
  PlanTypes' /\ LockTypes' /\ RestTypes' /\ Stocked' /\ Shaped' /\ Held' => IInv'
BY DEF IInv, TypeOK, PlanTypes, LockTypes, RestTypes, Stocked, Held, Phases

LEMMA SpecsKept ==
  ASSUME UNCHANGED <<cfg, environ, rotated>>
  PROVE  GoodSpecs' = GoodSpecs /\ LoadedJobs' = LoadedJobs
BY DEF GoodSpecs, LoadedJobs, EarlierEnvs

LEMMA StockedKept ==
  ASSUME Stocked, UNCHANGED loadVars, loaded' \in [Reqs -> Seq(LoadedJobs)], Registry(jobs')
  PROVE  Stocked'
<1>1. UNCHANGED <<cfg, disk, edits, environ, rotated, task, dirty>>
  BY DEF loadVars
<1>2. GoodSpecs' = GoodSpecs /\ LoadedJobs' = LoadedJobs
  BY <1>1, SpecsKept
<1>3. \A t \in Loads : /\ DOMAIN task'[t] = {"pc", "todo", "out"}
                       /\ task'[t].out \in Seq(LoadedJobs)
                       /\ task'[t].pc = "read" => Head(task'[t].todo) \in Files
  BY <1>1 DEF Stocked
<1> QED BY <1>1, <1>2, <1>3 DEF Stocked, Registry

LEMMA EmptyRegistry == Registry(NoJobs)
BY DEF Registry, NoJobs

LEMMA FewerJobs ==
  ASSUME Registry(jobs), NEW S \in SUBSET (DOMAIN jobs)
  PROVE  Registry(Restrict(jobs, S))
BY DEF Registry, Restrict

LEMMA OneMoreJob ==
  ASSUME Registry(jobs), NEW j \in LoadedJobs
  PROVE  Registry([k \in DOMAIN jobs \cup {j.key} |-> IF k = j.key THEN j.spec ELSE jobs[k]])
BY DEF Registry, LoadedJobs

-----------------------------------------------------------------------------
(* One lemma per action.                                                   *)

LEMMA LeaveStep ==
  ASSUME IInv, NEW t \in Threads, Leave(t), UNCHANGED loadVars
  PROVE  IInv'
<1> DEFINE r == t[1]
           s == Section(t)
<1>1. /\ cfg' = cfg /\ phase' = phase /\ r \in Reqs
      /\ Key(t) \in Keys /\ TypeOK /\ RestTypes /\ Stocked /\ Shaped /\ Held
      /\ loaded[r] \in Seq(LoadedJobs) /\ loaded \in [Reqs -> Seq(LoadedJobs)]
      /\ Registry(jobs)
  BY Assembled, ThreadPairs, RequestTypes DEF IInv, loadVars, Stocked, Leave, Registry
<1>2. ASSUME PlanTypes' /\ LockTypes' /\ Shaped' /\ Held',
             loaded' \in [Reqs -> Seq(LoadedJobs)], Registry(jobs'), RestTypes'
      PROVE  IInv'
  <2>1. Stocked'
    BY <1>1, <1>2, StockedKept
  <2> QED BY <1>2, <2>1, Reassembled
<1>3. ASSUME inside[t], s \in Reading => visits[t] = {}, s # "insert", Proceed(t), loaded' = loaded
      PROVE  PlanTypes' /\ LockTypes' /\ Shaped' /\ Held'
  BY <1>1, <1>3, ProceedKeeps
<1>4. CASE Find(t)
  <2>1. inside[t] /\ s = "find" /\ UNCHANGED mapVars
    BY <1>4 DEF Find, In
  <2>2. UNCHANGED <<jobs, running, seen, loaded, changed>>
    BY <2>1 DEF mapVars
  <2>3. Proceed(t) \/ Bail(t, "JobNotFound")
    BY <1>4 DEF Find
  <2>4. PlanTypes' /\ LockTypes' /\ Shaped' /\ Held'
    BY <1>1, <1>3, <2>1, <2>2, <2>3, BailKeeps DEF Reading
  <2> QED BY <1>1, <1>2, <2>2, <2>4 DEF RestTypes
<1>5. CASE Begin(t)
  <2>1. inside[t] /\ s = "begin" /\ UNCHANGED <<jobs, seen, loaded>>
    BY <1>5 DEF Begin, In
  <2>2. Proceed(t) \/ Bail(t, "JobAlreadyRunning")
    BY <1>5 DEF Begin
  <2>3. PlanTypes' /\ LockTypes' /\ Shaped' /\ Held'
    BY <1>1, <1>3, <2>1, <2>2, BailKeeps DEF Reading
  <2>4. running' \subseteq running \cup {Key(t)} /\ changed' \subseteq changed \cup {r}
    BY <1>5 DEF Begin
  <2> QED BY <1>1, <1>2, <2>1, <2>3, <2>4 DEF RestTypes
<1>6. CASE Pass(t)
  <2>1. /\ inside[t] /\ s # "insert" /\ (s \in Reading => visits[t] = {}) /\ Proceed(t)
        /\ UNCHANGED mapVars
    BY <1>6 DEF Pass, Reading
  <2>2. UNCHANGED <<jobs, running, seen, loaded, changed>>
    BY <2>1 DEF mapVars
  <2> QED BY <1>1, <1>2, <1>3, <2>1, <2>2 DEF RestTypes
<1>7. CASE Snapshot(t)
  <2>1. /\ inside[t] /\ s = "snapshot" /\ Proceed(t)
        /\ UNCHANGED <<jobs, running, loaded, changed>>
        /\ seen' = [seen EXCEPT ![t] = Shown(t, running)]
    BY <1>7 DEF Snapshot, In
  <2>2. seen' \in [Threads -> SUBSET Keys]
    BY <1>1, <2>1 DEF RestTypes, Shown
  <2> QED BY <1>1, <1>2, <1>3, <2>1, <2>2 DEF RestTypes, Reading
<1>8. CASE Clear(t)
  <2>1. /\ inside[t] /\ s = "clear" /\ Proceed(t) /\ jobs' = NoJobs
        /\ changed' = changed \cup {r} /\ UNCHANGED <<running, seen, loaded>>
    BY <1>8 DEF Clear, In
  <2> QED BY <1>1, <1>2, <1>3, <2>1, EmptyRegistry DEF RestTypes, Reading
<1>9. CASE RemoveJob(t)
  <2>1. /\ inside[t] /\ s = "remove_job" /\ Proceed(t)
        /\ jobs' = Restrict(jobs, DOMAIN jobs \ {Head(loaded[r]).key})
        /\ UNCHANGED <<running, seen, loaded, changed>>
    BY <1>9 DEF RemoveJob, In
  <2>2. Registry(jobs')
    BY <1>1, <2>1, FewerJobs
  <2> QED BY <1>1, <1>2, <1>3, <2>1, <2>2 DEF RestTypes, Reading
<1>10. CASE Insert(t)
  <2>1. /\ inside[t] /\ s = "insert" /\ Proceed(t) /\ UNCHANGED <<running, seen, changed>>
        /\ jobs' = [k \in DOMAIN jobs \cup {Head(loaded[r]).key} |->
                      IF k = Head(loaded[r]).key THEN Head(loaded[r]).spec ELSE jobs[k]]
        /\ loaded' = [loaded EXCEPT ![r] = Tail(loaded[r])]
    BY <1>10 DEF Insert, In
  <2>2. loaded[r] # <<>>
    <3>1. plan[t] # <<>>
      BY <1>1, <2>1 DEF Held
    <3>2. t[2] = "handler" /\ Follows(plan[t], Kind(r), Len(loaded[r]))
      BY <1>1, <2>1, <3>1, Working
    <3> QED BY <2>1, <3>2 DEF Follows, Section
  <2>3. Head(loaded[r]) \in LoadedJobs /\ Tail(loaded[r]) \in Seq(LoadedJobs)
    BY <1>1, <2>2
  <2>4. Registry(jobs')
    BY <1>1, <2>1, <2>3, OneMoreJob
  <2>5. loaded' \in [Reqs -> Seq(LoadedJobs)]
    BY <1>1, <2>1, <2>3
  <2>6. PlanTypes' /\ LockTypes' /\ Shaped' /\ Held'
    BY <1>1, <2>1, ProceedKeeps DEF Reading
  <2> QED BY <1>1, <1>2, <2>1, <2>4, <2>5, <2>6 DEF RestTypes
<1>11. CASE RemoveRunning(t)
  <2>1. /\ inside[t] /\ s = "remove" /\ Proceed(t) /\ UNCHANGED <<jobs, seen, loaded, changed>>
        /\ running' \subseteq running
    BY <1>11 DEF RemoveRunning, In
  <2> QED BY <1>1, <1>2, <1>3, <2>1 DEF RestTypes, Reading
<1> QED BY <1>4, <1>5, <1>6, <1>7, <1>8, <1>9, <1>10, <1>11 DEF Leave

LEMMA SectionStepKeeps ==
  ASSUME IInv, NEW t \in Threads, SectionStep(t)
  PROVE  IInv'
<1>1. UNCHANGED loadVars
  BY DEF SectionStep
<1>2. ASSUME LockTypes' /\ Held', UNCHANGED <<plan, mapVars, answerVars, phase>>
      PROVE  IInv'
  <2>1. UNCHANGED <<plan, jobs, running, seen, loaded, changed, stage, phase, cfg>>
    BY <1>1, <1>2 DEF mapVars, answerVars, loadVars
  <2>2. PlanTypes' /\ RestTypes'
    BY <2>1, Assembled DEF PlanTypes, RestTypes
  <2>3. Stocked'
    BY <1>1, <2>1, StockedKept, Assembled DEF Stocked, Registry
  <2>4. Shaped'
    <3>1. \A r \in Reqs : Kind(r)' = Kind(r)
      BY <2>1 DEF Kind
    <3> QED BY <2>1, <3>1, Assembled DEF Shaped
  <2> QED BY <1>2, <2>2, <2>3, <2>4, Reassembled
<1>3. cfg' = cfg /\ Key(t) \in Keys
  BY <1>1, Assembled, RequestTypes DEF loadVars, Stocked
<1>4. CASE Enter(t)
  <2>1. LockTypes' /\ Held'
    BY <1>3, <1>4, EnterKeepsHeld, Assembled DEF RestTypes, Registry
  <2> QED BY <1>2, <1>4, <2>1 DEF Enter
<1>5. CASE Leave(t)
  BY <1>1, <1>5, LeaveStep
<1>6. ASSUME NEW k \in Keys, TakeState(t, k) \/ DropState(t, k)
      PROVE  IInv'
  <2>1. LockTypes' /\ Held'
    BY <1>3, <1>6, StateKeepsHeld, Assembled
  <2>2. UNCHANGED <<plan, mapVars, answerVars, phase>>
    BY <1>6 DEF TakeState, DropState
  <2> QED BY <1>2, <2>1, <2>2
<1> QED BY <1>4, <1>5, <1>6 DEF SectionStep

LEMMA DispatchEndsKeeps ==
  ASSUME IInv, NEW t \in Threads, DispatchEnds(t)
  PROVE  IInv'
<1> DEFINE r == t[1]
           p == plan[t]
<1>1. /\ UNCHANGED loadVars /\ cfg' = cfg
      /\ UNCHANGED <<inside, visits, mapLock, stateLock, jobs, running, seen, loaded, changed,
                     stage, phase>>
      /\ p # <<>> /\ Section(t) = "dispatch" /\ plan' = [plan EXCEPT ![t] = Tail(p)]
  BY DEF DispatchEnds, loadVars, mapVars, answerVars
<1>2. /\ r \in Reqs /\ t = Run(r) /\ Tail(p) \in RunPlans /\ Tail(p) \in Seq(Sections)
  <2>1. t[2] # "handler"
    BY <1>1, Assembled, Working DEF Follows, OnJobs, OnRunning, Section
  <2> QED BY <1>1, <2>1, Assembled, Working, RunTails, ThreadPairs
<1>3. PlanTypes' /\ RestTypes'
  BY <1>1, <1>2, Assembled DEF PlanTypes, RestTypes
<1>4. /\ plan'[t] = Tail(p) /\ plan'[Handler(r)] = plan[Handler(r)]
      /\ \A s \in Reqs : s # r => /\ plan'[Handler(s)] = plan[Handler(s)]
                                  /\ plan'[Run(s)] = plan[Run(s)]
      /\ \A u \in Threads : u # t => plan'[u] = plan[u]
  BY <1>1, <1>2, ThreadPairs, Assembled DEF PlanTypes
<1>5. Shaped'
  <2>1. /\ IF stage[r] = "sections"
           THEN plan[Handler(r)] \in HandlerPlans(Kind(r), Len(loaded[r]))
           ELSE plan[Handler(r)] = <<>>
        /\ stage[r] \notin {"idle", "loading"}
        /\ plan[Handler(r)] \in {<<>>, <<"snapshot", "lookup">>, <<"lookup">>}
    BY <1>1, <1>2, Assembled DEF Shaped
  <2> QED BY <1>1, <1>2, <1>3, <1>4, <2>1, Assembled, ShapedByRequest
<1>6. LockTypes' /\ Held'
  <2>1. ~ inside[t]
    BY <1>1, Assembled DEF Held
  <2> QED BY <1>1, <1>4, <2>1, Assembled, UntouchedKeepsHeld
<1>7. Stocked'
  BY <1>1, Assembled, StockedKept DEF Stocked, Registry
<1> QED BY <1>3, <1>5, <1>6, <1>7, Reassembled

(* Only the phase of the process changes, or the attempt that is fired.    *)
LEMMA QuietStep ==
  ASSUME IInv, phase' \in Phases, UNCHANGED <<lockVars, mapVars, answerVars, loadVars>>
  PROVE  IInv'
<1>1. UNCHANGED <<plan, inside, visits, mapLock, stateLock, jobs, running, seen, loaded,
                  changed, stage, cfg>>
  BY DEF lockVars, mapVars, answerVars, loadVars
<1>2. PlanTypes' /\ RestTypes'
  BY <1>1, Assembled DEF PlanTypes, RestTypes
<1>3. LockTypes' /\ Held'
  BY <1>1, Assembled, UntouchedKeepsHeld
<1>4. Stocked'
  BY <1>1, Assembled, StockedKept DEF Stocked, Registry
<1>5. Shaped'
  <2>1. \A r \in Reqs : Kind(r)' = Kind(r)
    BY <1>1 DEF Kind
  <2> QED BY <1>1, <2>1, Assembled DEF Shaped
<1> QED BY <1>2, <1>3, <1>4, <1>5, Reassembled

(* A request without a thread at work moves on, and may get a handler.     *)
LEMMA RequestMoves ==
  ASSUME IInv, NEW r \in Reqs, stage[r] \in {"idle", "loading"}, cfg' = cfg,
         UNCHANGED <<inside, visits, mapLock, stateLock, running, seen, changed, phase>>,
         NEW st \in {"loading", "sections", "done", "gone"}, stage' = [stage EXCEPT ![r] = st],
         NEW p \in Seq(Sections), plan' = [plan EXCEPT ![Handler(r)] = p],
         IF st = "sections" THEN p \in HandlerPlans(Kind(r), Len(loaded'[r])) ELSE p = <<>>,
         st = "loading" => Kind(r) = "reload",
         \A s \in Reqs : s # r => loaded'[s] = loaded[s],
         Stocked'
  PROVE  IInv'
<1>1. plan[Handler(r)] = <<>> /\ plan[Run(r)] = <<>>
  BY Assembled DEF Shaped
<1>2. PlanTypes' /\ RestTypes'
  BY Assembled, ThreadPairs DEF PlanTypes, RestTypes
<1>3. /\ plan'[Handler(r)] = p /\ plan'[Run(r)] = <<>> /\ stage'[r] = st
      /\ \A s \in Reqs : s # r => /\ plan'[Handler(s)] = plan[Handler(s)]
                                  /\ plan'[Run(s)] = plan[Run(s)]
                                  /\ stage'[s] = stage[s]
      /\ \A u \in Threads : u # Handler(r) => plan'[u] = plan[u]
  BY <1>1, Assembled, ThreadPairs DEF PlanTypes
<1>4. Shaped'
  <2>1. <<>> \in RunPlans
    BY DEF RunPlans
  <2> QED BY <1>2, <1>3, <2>1, Assembled, ShapedByRequest
<1>5. LockTypes' /\ Held'
  <2>1. ~ inside[Handler(r)]
    BY <1>1, Assembled, ThreadPairs DEF Held
  <2> QED BY <1>3, <2>1, Assembled, UntouchedKeepsHeld
<1> QED BY <1>2, <1>4, <1>5, Reassembled

LEMMA RequestEnds ==
  ASSUME IInv, NEW r \in Reqs, stage[r] \in {"idle", "loading"},
         UNCHANGED <<plan, inside, visits, mapLock, stateLock, running, seen, changed, phase>>,
         NEW st \in {"loading", "done", "gone"}, stage' = [stage EXCEPT ![r] = st],
         st = "loading" => Kind(r) = "reload", UNCHANGED <<loaded, cfg>>, Stocked'
  PROVE  IInv'
<1>1. plan' = [plan EXCEPT ![Handler(r)] = <<>>]
  <2>1. plan[Handler(r)] = <<>>
    BY Assembled DEF Shaped
  <2> QED BY <2>1, Assembled DEF PlanTypes
<1>2. <<>> \in Seq(Sections) /\ (st = "sections" => FALSE)
  OBVIOUS
<1>3. \A s \in Reqs : s # r => loaded'[s] = loaded[s]
  OBVIOUS
<1>4. IF st = "sections" THEN <<>> \in HandlerPlans(Kind(r), Len(loaded'[r])) ELSE <<>> = <<>>
  BY <1>2
<1> QED BY <1>1, <1>2, <1>3, <1>4, RequestMoves

LEMMA Programs ==
  /\ Program("jobs") = <<"describe">>
  /\ Program("running") = <<"snapshot", "lookup">>
  /\ Program("stop") = <<"find", "notify", "snapshot", "lookup">>
  /\ Program("execute") = <<"find", "begin", "get", "snapshot", "lookup">>
BY Zenon DEF Program

LEMMA ProgramFits ==
  ASSUME NEW kind \in {"jobs", "running", "stop", "execute"}, NEW n \in Nat
  PROVE  Program(kind) \in HandlerPlans(kind, n) /\ Program(kind) \in Seq(Sections)
<1>1. CASE kind = "jobs"
  BY <1>1, Programs, ShortPlans DEF HandlerPlans
<1>2. CASE kind = "running"
  BY <1>2, Programs, ShortPlans DEF HandlerPlans
<1>3. CASE kind = "stop"
  BY <1>3, Programs, ShortPlans DEF HandlerPlans, StopPlans
<1>4. CASE kind = "execute"
  BY <1>4, Programs, ShortPlans DEF HandlerPlans, BeforeBegin
<1> QED BY <1>1, <1>2, <1>3, <1>4

LEMMA TaskKept ==
  ASSUME Stocked, UNCHANGED <<cfg, disk, environ, rotated, loaded, jobs>>, NEW t \in Loads, NEW new,
         DOMAIN new = {"pc", "todo", "out"}, new.out \in Seq(LoadedJobs),
         new.pc = "read" => Head(new.todo) \in Files, Goes(t, new)
  PROVE  Stocked'
<1>1. GoodSpecs' = GoodSpecs /\ LoadedJobs' = LoadedJobs
  BY SpecsKept
<1>2. DOMAIN task' = Loads /\ \A u \in Loads : task'[u] = IF u = t THEN new ELSE task[u]
  BY DEF Goes, Stocked
<1>3. \A u \in Loads : /\ DOMAIN task'[u] = {"pc", "todo", "out"}
                       /\ task'[u].out \in Seq(LoadedJobs)
                       /\ task'[u].pc = "read" => Head(task'[u].todo) \in Files
  BY <1>2 DEF Stocked
<1> QED BY <1>1, <1>2, <1>3 DEF Stocked

LEMMA ArriveKeeps ==
  ASSUME IInv, NEW r \in Reqs, Arrive(r)
  PROVE  IInv'
<1>1. /\ stage[r] = "idle" /\ r \in Loads
      /\ UNCHANGED <<jobs, running, seen, loaded, changed, phase, cfg, disk, edits, environ,
                     rotated, dirty>>
  BY ApiAssumption DEF Arrive, mapVars
<1>2. Stocked /\ Len(loaded[r]) \in Nat /\ Registry(jobs)
  BY Assembled DEF Stocked
<1>3. ASSUME UNCHANGED task
      PROVE  Stocked'
  BY <1>1, <1>2, <1>3, StockedKept DEF Stocked, loadVars, Registry
<1>4. CASE AnswerAtOnce(r)
  <2>1. UNCHANGED <<plan, inside, visits, mapLock, stateLock, task>>
    BY <1>4 DEF AnswerAtOnce, lockVars
  <2>2. stage' = [stage EXCEPT ![r] = "done"]
    BY <1>4 DEF AnswerAtOnce, Respond, Fail
  <2> QED BY <1>1, <1>3, <2>1, <2>2, RequestEnds
<1>5. CASE Kind(r) \in {"jobs", "running", "stop", "execute"} /\ StartHandler(r)
  <2>1. /\ UNCHANGED <<inside, visits, mapLock, stateLock, task>>
        /\ stage' = [stage EXCEPT ![r] = "sections"]
        /\ plan' = [plan EXCEPT ![Handler(r)] = Program(Kind(r))]
    BY <1>5 DEF StartHandler
  <2>2. /\ Program(Kind(r)) \in HandlerPlans(Kind(r), Len(loaded'[r]))
        /\ Program(Kind(r)) \in Seq(Sections)
    BY <1>1, <1>2, <1>5, ProgramFits
  <2> QED BY <1>1, <1>3, <2>1, <2>2, RequestMoves
<1>6. CASE Kind(r) = "reload" /\ StartReload(r)
  <2>1. /\ UNCHANGED <<plan, inside, visits, mapLock, stateLock>>
        /\ stage' = [stage EXCEPT ![r] = "loading"]
        /\ SpawnLoad(r)
    BY <1>6 DEF StartReload, lockVars
  <2>2. Stocked'
    <3> DEFINE new == [NotStarted EXCEPT !.pc = "walk", !.todo = <<Root>>]
    <3>1. /\ DOMAIN new = {"pc", "todo", "out"} /\ new.pc = "walk"
          /\ new.out \in Seq(LoadedJobs)
      BY DEF NotStarted
    <3>2. Goes(r, new)
      BY <2>1 DEF SpawnLoad
    <3> HIDE DEF new
    <3> QED BY <1>1, <1>2, <3>1, <3>2, TaskKept
  <2> QED BY <1>1, <1>6, <2>1, <2>2, RequestEnds
<1> QED BY <1>4, <1>5, <1>6 DEF Arrive

LEMMA AwaitKeeps ==
  ASSUME IInv, NEW r \in Reqs, Await(r)
  PROVE  IInv'
<1>1. /\ stage[r] = "loading" /\ r \in Loads
      /\ UNCHANGED <<inside, visits, mapLock, stateLock, jobs, running, seen, changed, phase,
                     cfg, disk, environ, rotated, task>>
  BY ApiAssumption DEF Await, LoadReturns, LoadTimesOut, Deadline, ClientLeaves, Awaiting,
                       lockVars, mapVars, loadVars
<1>2. ASSUME loaded' \in [Reqs -> Seq(LoadedJobs)]
      PROVE  Stocked'
  <2>1. GoodSpecs' = GoodSpecs /\ LoadedJobs' = LoadedJobs
    BY <1>1, SpecsKept
  <2>2. \A t \in Loads : /\ DOMAIN task'[t] = {"pc", "todo", "out"}
                         /\ task'[t].out \in Seq(LoadedJobs)
                         /\ task'[t].pc = "read" => Head(task'[t].todo) \in Files
    BY <1>1, Assembled DEF Stocked
  <2> QED BY <1>1, <1>2, <2>1, <2>2, Assembled DEF Stocked
<1>3. CASE /\ task[r].pc = "ok"
           /\ stage' = [stage EXCEPT ![r] = "sections"]
           /\ plan' = [plan EXCEPT ![Handler(r)] = Rebuild(Len(task[r].out))]
           /\ loaded' = [loaded EXCEPT ![r] = task[r].out]
  <2> DEFINE n == Len(task[r].out)
  <2>1. /\ n \in Nat /\ loaded' \in [Reqs -> Seq(LoadedJobs)] /\ loaded'[r] = task[r].out
        /\ \A s \in Reqs : s # r => loaded'[s] = loaded[s]
    BY <1>1, <1>3, Assembled DEF Stocked
  <2>2. Rebuild(n) \in Seq(Sections)
    BY <2>1, RebuildTails
  <2>3. Kind(r) = "reload"
    BY <1>1, Assembled DEF Shaped
  <2>4. Rebuild(n) \in HandlerPlans(Kind(r), Len(loaded'[r]))
    BY <2>1, <2>3 DEF HandlerPlans, BeforeClear
  <2> QED BY <1>1, <1>2, <1>3, <2>1, <2>2, <2>4, RequestMoves
<1>4. CASE stage' \in {[stage EXCEPT ![r] = "done"], [stage EXCEPT ![r] = "gone"]}
             /\ UNCHANGED <<plan, loaded>>
  <2>1. Stocked'
    BY <1>2, <1>4, Assembled DEF Stocked
  <2> QED BY <1>1, <1>4, <2>1, RequestEnds
<1> QED BY <1>3, <1>4 DEF Await, LoadReturns, LoadTimesOut, Deadline, ClientLeaves, Fail,
                         Respond, Cut, lockVars, mapVars

-----------------------------------------------------------------------------
(* The load, the operator and the first registry.                          *)

LEMMA JobTypes ==
  ASSUME NEW content \in FileContents, NEW i \in DOMAIN content.jobs
  PROVE  content.jobs[i].name \in JobNames /\ content.jobs[i].raw \in RawJobs
<1>1. content.jobs \in Seq([name : JobNames, raw : RawJobs])
  BY DEF FileContents
<1>2. \A S : \A s \in Seq(S) : \A j \in DOMAIN s : s[j] \in S
  OBVIOUS
<1>3. content.jobs[i] \in [name : JobNames, raw : RawJobs]
  BY <1>1, <1>2, Zenon
<1> QED BY <1>3

LEMMA JobOfFile ==
  ASSUME environ \in [EnvNames -> VarStates], NEW f \in Files, NEW content \in FileContents,
         FileAccepted(content), NEW i \in DOMAIN content.jobs
  PROVE  /\ <<Group[f], content.jobs[i].name>> \in Keys
         /\ JobSpec(content.jobs[i].raw) \in GoodSpecs
<1>1. content.jobs[i].name \in JobNames /\ content.jobs[i].raw \in RawJobs
  BY JobTypes
<1>2. Accepted(content.jobs[i].raw, cfg, environ) /\ environ \in EarlierEnvs
  BY DEF FileAccepted, EarlierEnvs
<1> QED BY <1>1, <1>2 DEF Keys, GoodSpecs

LEMMA LoadedType ==
  ASSUME environ \in [EnvNames -> VarStates], NEW f \in Files, NEW content \in FileContents
  PROVE  Loaded(f, content) \in Seq(LoadedJobs)
<1>1. CASE FileAccepted(content)
  <2> DEFINE Job(i) == [key |-> <<Group[f], content.jobs[i].name>>,
                        spec |-> JobSpec(content.jobs[i].raw)]
  <2>1. \A i \in DOMAIN content.jobs : Job(i) \in LoadedJobs
    BY <1>1, JobOfFile DEF LoadedJobs
  <2>2. content.jobs \in Seq([name : JobNames, raw : RawJobs])
    BY DEF FileContents
  <2>3. PICK n \in Nat : DOMAIN content.jobs = 1 .. n
    BY <2>2
  <2>4. Loaded(f, content) = [i \in 1 .. n |-> Job(i)]
    BY <1>1, <2>3 DEF Loaded
  <2> HIDE DEF Job
  <2> QED BY <2>1, <2>3, <2>4
<1>2. CASE ~ FileAccepted(content)
  BY <1>2 DEF Loaded
<1> QED BY <1>1, <1>2

LEMMA LoadStepKeeps ==
  ASSUME Stocked, NEW t \in Loads, LoadStep(t) \/ LoadMisses(t), UNCHANGED <<loaded, jobs>>
  PROVE  Stocked'
<1>1. UNCHANGED <<cfg, disk, environ, rotated>>
  BY DEF LoadStep, LoadMisses
<1>2. /\ DOMAIN task[t] = {"pc", "todo", "out"} /\ task[t].out \in Seq(LoadedJobs)
      /\ task[t].pc = "read" => Head(task[t].todo) \in Files
  BY DEF Stocked
<1>3. ASSUME NEW pc, pc # "read", Ends(t, pc)
      PROVE  Stocked'
  <2> DEFINE new == [task[t] EXCEPT !.pc = pc, !.todo = <<>>]
  <2>1. DOMAIN new = {"pc", "todo", "out"} /\ new.out \in Seq(LoadedJobs) /\ new.pc # "read"
    BY <1>2, <1>3
  <2>2. Goes(t, new)
    BY <1>3 DEF Ends
  <2> HIDE DEF new
  <2> QED BY <1>1, <2>1, <2>2, TaskKept
<1>4. ASSUME NEW todo, task[t].pc = "walk", Goes(t, [task[t] EXCEPT !.todo = todo])
      PROVE  Stocked'
  <2> DEFINE new == [task[t] EXCEPT !.todo = todo]
  <2>1. DOMAIN new = {"pc", "todo", "out"} /\ new.out \in Seq(LoadedJobs) /\ new.pc # "read"
    BY <1>2, <1>4
  <2>2. Goes(t, new)
    BY <1>4
  <2> HIDE DEF new
  <2> QED BY <1>1, <2>1, <2>2, TaskKept
<1>5. CASE WalkDir(t)
  <2>1. PICK d \in Dirs :
          /\ At(t, d)
          /\ \/ Ends(t, "ok")
             \/ Ends(t, "io")
             \/ Goes(t, [task[t] EXCEPT !.todo = Entries(d) \o Tail(task[t].todo)])
    BY <1>2, <1>5 DEF WalkDir
  <2> QED BY <1>3, <1>4, <2>1 DEF At
<1>6. CASE WalkOther(t)
  <2>1. task[t].pc = "walk" /\ Goes(t, [task[t] EXCEPT !.todo = Tail(task[t].todo)])
    BY <1>2, <1>6 DEF WalkOther, At
  <2> QED BY <1>4, <2>1
<1>7. CASE WalkFixture(t)
  BY <1>3, <1>7 DEF WalkFixture
<1>8. CASE StatFile(t)
  <2>1. PICK f \in Yaml :
          /\ At(t, f)
          /\ \/ Goes(t, [task[t] EXCEPT !.todo = Tail(task[t].todo)])
             \/ Goes(t, [task[t] EXCEPT !.pc = "read"])
    BY <1>2, <1>8 DEF StatFile
  <2>2. CASE Goes(t, [task[t] EXCEPT !.todo = Tail(task[t].todo)])
    BY <1>4, <2>1, <2>2 DEF At
  <2>3. CASE Goes(t, [task[t] EXCEPT !.pc = "read"])
    <3> DEFINE new == [task[t] EXCEPT !.pc = "read"]
    <3>1. DOMAIN new = {"pc", "todo", "out"} /\ new.out \in Seq(LoadedJobs)
          /\ new.todo = task[t].todo
      BY <1>2
    <3>2. Head(task[t].todo) \in Files
      BY <2>1, TreeAssumption DEF At
    <3>3. Goes(t, new)
      BY <2>3
    <3> HIDE DEF new
    <3> QED BY <1>1, <3>1, <3>2, <3>3, TaskKept
  <2> QED BY <2>1, <2>2, <2>3
<1>9. CASE ReadFile(t)
  <2> DEFINE f == Head(task[t].todo)
             c == IF disk[f].kind = "big" THEN [disk[f] EXCEPT !.kind = "jobs"] ELSE disk[f]
             new == [pc |-> "walk", todo |-> Tail(task[t].todo),
                     out |-> task[t].out \o Loaded(f, c)]
  <2>1. f \in Files /\ Goes(t, new)
    BY <1>2, <1>9 DEF ReadFile
  <2>2. disk[f] \in FileContents
    BY <2>1 DEF Stocked
  <2>3. c \in FileContents
    BY <2>2 DEF FileContents
  <2>4. Loaded(f, c) \in Seq(LoadedJobs)
    BY <2>1, <2>3, LoadedType DEF Stocked
  <2> HIDE DEF f, c
  <2>5. DOMAIN new = {"pc", "todo", "out"} /\ new.out \in Seq(LoadedJobs) /\ new.pc # "read"
    BY <1>2, <2>4
  <2> HIDE DEF new
  <2> QED BY <1>1, <2>1, <2>5, TaskKept
<1>10. CASE WalkEnds(t)
  BY <1>3, <1>10 DEF WalkEnds
<1>11. CASE LoadPanics(t)
  BY <1>3, <1>11 DEF LoadPanics
<1>12. CASE LoadMisses(t)
  <2>1. \E todo : task[t].pc = "walk" /\ Goes(t, [task[t] EXCEPT !.todo = todo])
    BY <1>2, <1>12 DEF LoadMisses, At
  <2> QED BY <1>4, <2>1
<1> QED BY <1>5, <1>6, <1>7, <1>8, <1>9, <1>10, <1>11, <1>12 DEF LoadStep

LEMMA LoadGoesOnKeeps ==
  ASSUME IInv, LoadGoesOn
  PROVE  IInv'
<1>1. UNCHANGED <<plan, inside, visits, mapLock, stateLock, jobs, running, seen, loaded,
                  changed, stage, phase>>
  BY DEF LoadGoesOn, apiVars, lockVars, mapVars, answerVars
<1>2. PICK r \in Reqs : LoadStep(r) \/ LoadMisses(r)
  BY DEF LoadGoesOn
<1>3. Stocked' /\ cfg' = cfg
  BY <1>1, <1>2, ApiAssumption, Assembled, LoadStepKeeps DEF LoadStep, LoadMisses
<1>4. PlanTypes' /\ RestTypes'
  BY <1>1, Assembled DEF PlanTypes, RestTypes
<1>5. LockTypes' /\ Held'
  BY <1>1, <1>3, Assembled, UntouchedKeepsHeld
<1>6. Shaped'
  <2>1. \A s \in Reqs : Kind(s)' = Kind(s)
    BY <1>3 DEF Kind
  <2> QED BY <1>1, <2>1, Assembled DEF Shaped
<1> QED BY <1>3, <1>4, <1>5, <1>6, Reassembled

LEMMA OperatorEditsKeeps ==
  ASSUME IInv, OperatorEdits
  PROVE  IInv'
<1>1. UNCHANGED <<plan, inside, visits, mapLock, stateLock, jobs, running, seen, loaded,
                  changed, stage, phase>>
  BY DEF OperatorEdits, lockVars, answerVars
<1>2. PICK f \in Files, content \in Contents : Edit(f, content)
  BY DEF OperatorEdits
<1>3. UNCHANGED <<cfg, environ, rotated, task>> /\ disk' \in [Files -> FileContents]
  BY <1>2, EditsAssumption, Assembled DEF Edit, Stocked
<1>4. Stocked'
  <2>1. GoodSpecs' = GoodSpecs /\ LoadedJobs' = LoadedJobs
    BY <1>3, SpecsKept
  <2>2. \A t \in Loads : /\ DOMAIN task'[t] = {"pc", "todo", "out"}
                         /\ task'[t].out \in Seq(LoadedJobs)
                         /\ task'[t].pc = "read" => Head(task'[t].todo) \in Files
    BY <1>3, Assembled DEF Stocked
  <2> QED BY <1>1, <1>3, <2>1, <2>2, Assembled DEF Stocked
<1>5. PlanTypes' /\ RestTypes'
  BY <1>1, Assembled DEF PlanTypes, RestTypes
<1>6. LockTypes' /\ Held'
  BY <1>1, <1>3, Assembled, UntouchedKeepsHeld
<1>7. Shaped'
  <2>1. \A s \in Reqs : Kind(s)' = Kind(s)
    BY <1>3 DEF Kind
  <2> QED BY <1>1, <2>1, Assembled DEF Shaped
<1> QED BY <1>4, <1>5, <1>6, <1>7, Reassembled

(* A change of the environment makes no good spec bad: the environment     *)
(* that the load has seen stays an earlier one.                            *)
LEMMA SpecsGrow ==
  ASSUME Stocked, NEW v \in EnvNames, NEW s \in VarStates, Rotate(v, s)
  PROVE  GoodSpecs \subseteq GoodSpecs' /\ LoadedJobs \subseteq LoadedJobs'
<1>1. /\ cfg' = cfg
      /\ \A w \in EnvNames : rotated'[w] = 0 => rotated[w] = 0 /\ environ'[w] = environ[w]
  BY DEF Rotate, Stocked
<1>2. EarlierEnvs \subseteq EarlierEnvs'
  BY <1>1 DEF EarlierEnvs
<1>3. GoodSpecs \subseteq GoodSpecs'
  BY <1>1, <1>2 DEF GoodSpecs
<1> QED BY <1>3 DEF LoadedJobs

LEMMA SeqGrows ==
  ASSUME NEW S, NEW T, S \subseteq T
  PROVE  Seq(S) \subseteq Seq(T)
OBVIOUS

LEMMA OperatorRotatesKeeps ==
  ASSUME IInv, OperatorRotates
  PROVE  IInv'
<1>1. UNCHANGED <<plan, inside, visits, mapLock, stateLock, jobs, running, seen, loaded,
                  changed, stage, phase>>
  BY DEF OperatorRotates, lockVars, answerVars
<1>2. PICK v \in EnvNames, s \in VarStates : Rotate(v, s)
  BY DEF OperatorRotates
<1>3. /\ UNCHANGED <<cfg, disk, task>>
      /\ environ' \in [EnvNames -> VarStates] /\ rotated' \in [EnvNames -> Nat]
  BY <1>2, Assembled DEF Rotate, Stocked
<1>4. Stocked'
  <2>1. GoodSpecs \subseteq GoodSpecs' /\ Seq(LoadedJobs) \subseteq Seq(LoadedJobs')
    BY <1>2, SpecsGrow, SeqGrows, Assembled
  <2>2. \A t \in Loads : /\ DOMAIN task'[t] = {"pc", "todo", "out"}
                         /\ task'[t].out \in Seq(LoadedJobs')
                         /\ task'[t].pc = "read" => Head(task'[t].todo) \in Files
    BY <1>3, <2>1, Assembled DEF Stocked
  <2>3. loaded' \in [Reqs -> Seq(LoadedJobs')]
    BY <1>1, <2>1, Assembled DEF Stocked
  <2> QED BY <1>1, <1>3, <2>1, <2>2, <2>3, Assembled DEF Stocked
<1>5. PlanTypes' /\ RestTypes'
  BY <1>1, Assembled DEF PlanTypes, RestTypes
<1>6. LockTypes' /\ Held'
  BY <1>1, <1>3, Assembled, UntouchedKeepsHeld
<1>7. Shaped'
  <2>1. \A q \in Reqs : Kind(q)' = Kind(q)
    BY <1>3 DEF Kind
  <2> QED BY <1>1, <2>1, Assembled DEF Shaped
<1> QED BY <1>4, <1>5, <1>6, <1>7, Reassembled

(* The last of the files that define a key is one that does, and so is the *)
(* job of the key in it.                                                   *)
LEMMA OnDisk ==
  ASSUME disk \in [Files -> FileContents], environ \in [EnvNames -> VarStates]
  PROVE  Registry(JobsOnDisk)
<1> DEFINE LastFile(k) == CHOOSE g \in Files :
                            Defines(g, k) /\ \A h \in Files : Defines(h, k) => Rank[h] <= Rank[g]
           Index(k, f) == CHOOSE j \in DOMAIN disk[f].jobs : disk[f].jobs[j].name = k[2]
<1>1. /\ DOMAIN JobsOnDisk = {x \in DefinedKeys : \E f \in Files : Defines(f, x)}
      /\ \A k \in DOMAIN JobsOnDisk :
           JobsOnDisk[k] = JobSpec(disk[LastFile(k)].jobs[Index(k, LastFile(k))].raw)
  BY DEF JobsOnDisk
<1>2. DefinedKeys \subseteq Keys
  BY JobTypes DEF DefinedKeys, Keys
<1>3. ASSUME NEW k \in DOMAIN JobsOnDisk
      PROVE  JobsOnDisk[k] \in GoodSpecs
  <2> DEFINE S == {f \in Files : Defines(f, k)}
             f == LastFile(k)
             i == Index(k, f)
  <2>1. S \in SUBSET Files /\ S # {}
    BY <1>1
  <2>2. \E g \in S : \A h \in S : Rank[h] <= Rank[g]
    <3> HIDE DEF S
    <3> QED BY <2>1, LastOfFiles
  <2>3. f \in Files /\ Defines(f, k)
    <3>1. \E g \in Files : Defines(g, k) /\ \A h \in Files : Defines(h, k) => Rank[h] <= Rank[g]
      BY <2>2
    <3> QED BY <3>1
  <2> HIDE DEF f
  <2>4. FileAccepted(disk[f]) /\ \E j \in DOMAIN disk[f].jobs : disk[f].jobs[j].name = k[2]
    BY <2>3 DEF Defines
  <2>5. i \in DOMAIN disk[f].jobs
    BY <2>4
  <2> HIDE DEF i
  <2>6. JobSpec(disk[f].jobs[i].raw) \in GoodSpecs
    BY <2>3, <2>4, <2>5, JobOfFile
  <2> QED BY <1>1, <2>6 DEF f, i
<1> QED BY <1>1, <1>2, <1>3 DEF Registry

LEMMA InitHolds == Init => IInv
<1> SUFFICES ASSUME Init
             PROVE  IInv
  OBVIOUS
<1> USE DEF Init, LoadInit, ApiInit
<1>1. PlanTypes /\ LockTypes /\ RestTypes
  BY DEF PlanTypes, LockTypes, RestTypes, Phases
<1>2. /\ cfg \in Configs /\ disk \in [Files -> FileContents]
      /\ environ \in [EnvNames -> VarStates] /\ rotated \in [EnvNames -> Nat]
  BY ContentAssumption
<1>3. Registry(jobs)
  BY <1>2, OnDisk, EmptyRegistry
<1>4. Stocked
  <2>1. DOMAIN task = Loads
    OBVIOUS
  <2>2. \A t \in Loads : /\ DOMAIN task[t] = {"pc", "todo", "out"}
                         /\ task[t].out \in Seq(LoadedJobs)
                         /\ task[t].pc # "read"
    <3>1. /\ DOMAIN NotStarted = {"pc", "todo", "out"} /\ NotStarted.pc # "read"
          /\ NotStarted.out \in Seq(LoadedJobs)
      BY DEF NotStarted
    <3>2. \A t \in Loads : task[t] = NotStarted
      OBVIOUS
    <3> HIDE DEF Init, LoadInit, ApiInit
    <3> QED BY <3>1, <3>2
  <2>3. loaded \in [Reqs -> Seq(LoadedJobs)]
    OBVIOUS
  <2> QED BY <1>2, <1>3, <2>1, <2>2, <2>3 DEF Stocked, Registry
<1>5. Shaped
  <2>1. \A t \in Threads : plan[t] = <<>>
    OBVIOUS
  <2>2. <<>> \in RunPlans
    BY DEF RunPlans
  <2> QED BY <2>1, <2>2, ThreadPairs DEF Shaped
<1>6. Held
  BY ThreadPairs DEF Held
<1>7. \A t \in Threads : ~ inside[t]
  OBVIOUS
<1> HIDE DEF Init, LoadInit, ApiInit
<1> QED BY <1>1, <1>3, <1>4, <1>5, <1>6, <1>7
        DEF IInv, TypeOK, PlanTypes, LockTypes, RestTypes, Phases, Registry

LEMMA NextKeeps == IInv /\ [Next]_vars => IInv'
<1> SUFFICES ASSUME IInv, [Next]_vars
             PROVE  IInv'
  OBVIOUS
<1>1. ASSUME NEW r \in Reqs, Arrive(r) \/ Await(r)
      PROVE  IInv'
  BY <1>1, ArriveKeeps, AwaitKeeps
<1>2. ASSUME NEW t \in Threads, SectionStep(t) \/ DispatchEnds(t)
      PROVE  IInv'
  BY <1>2, SectionStepKeeps, DispatchEndsKeeps
<1>3. CASE (\E s \in {"TERM", "INT"} : Signal(s)) \/ Drained \/ Exit
  <2>1. phase' \in Phases /\ UNCHANGED <<lockVars, mapVars, answerVars, loadVars>>
    BY <1>3 DEF Signal, Drained, Exit, Phases
  <2> QED BY <2>1, QuietStep
<1>4. CASE OperatorEdits
  BY <1>4, OperatorEditsKeeps
<1>5. CASE LoadGoesOn
  BY <1>5, LoadGoesOnKeeps
<1>6. CASE JobFires \/ UNCHANGED vars
  <2>1. phase' = phase /\ UNCHANGED <<lockVars, mapVars, answerVars, loadVars>>
    BY <1>6 DEF JobFires, apiVars, vars
  <2> QED BY <2>1, QuietStep, Assembled DEF RestTypes
<1>7. CASE OperatorRotates
  BY <1>7, OperatorRotatesKeeps
<1> QED BY <1>1, <1>2, <1>3, <1>4, <1>5, <1>6, <1>7 DEF Next, ApiStep

LEMMA Invariant == Spec => []IInv
BY InitHolds, NextKeeps, PTL DEF Spec

(* The service keeps its types, whatever requests arrive in whatever order *)
(* and whatever is in the directory: an insert always has a job to insert, *)
(* and a thread inside a section has one to leave.                         *)
THEOREM TypeCorrect == Spec => []TypeOK
<1>1. IInv => TypeOK
  BY DEF IInv
<1> QED BY <1>1, Invariant, PTL

-----------------------------------------------------------------------------
(* The lock order.                                                         *)

LEMMA AtMostOne ==
  ASSUME NEW S, NEW x, S \subseteq {x}
  PROVE  Cardinality(S) <= 1
<1>1. S = {} \/ S = {x}
  OBVIOUS
<1>2. Cardinality({}) = 0 /\ Cardinality({x}) = 1
  BY FS_EmptySet, FS_Singleton
<1> QED BY <1>1, <1>2

LEMMA HeldInOrder == IInv => LockDiscipline
<1> SUFFICES ASSUME IInv, NEW t \in Threads
             PROVE  /\ Cardinality({l \in {"jobs", "running"} : mapLock[l] = t}) <= 1
                    /\ ~ inside[t] => Holds(t) = {}
                    /\ inside[t] /\ visits[t] # {} =>
                         mapLock["jobs"] = t /\ mapLock["running"] # t
  BY DEF LockDiscipline
<1>1. /\ \A l \in {"jobs", "running"} :
           mapLock[l] = t <=> inside[t] /\ Section(t) # "record" /\ Map(t) = l
      /\ \A k \in Keys : stateLock[k] = t => inside[t]
      /\ visits[t] # {} => Section(t) \in Reading
  BY Assembled DEF Held
<1>2. Cardinality({l \in {"jobs", "running"} : mapLock[l] = t}) <= 1
  <2>1. {l \in {"jobs", "running"} : mapLock[l] = t} \subseteq {Map(t)}
    BY <1>1
  <2> QED BY <2>1, AtMostOne
<1>3. ~ inside[t] => Holds(t) = {}
  BY <1>1 DEF Holds
<1>4. inside[t] /\ visits[t] # {} => mapLock["jobs"] = t /\ mapLock["running"] # t
  BY <1>1 DEF Reading, Map, OnJobs
<1> QED BY <1>2, <1>3, <1>4

(* No thread ever holds the mutexes of the jobs and the running map at the *)
(* same time, none holds anything while it waits for one of them, and a    *)
(* job's state is only ever waited for under the jobs mutex: for any       *)
(* number of requests of any kind, so no circle of threads can wait for    *)
(* one another.                                                            *)
THEOREM LocksInOrder == Spec => []LockDiscipline
BY HeldInOrder, Invariant, PTL
=============================================================================
