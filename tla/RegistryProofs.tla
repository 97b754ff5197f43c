---------------------------- MODULE RegistryProofs ---------------------------
(***************************************************************************)
(* Proofs about what a reload registers: a walk of the directory tree,     *)
(* entry by entry, and an insert per job, one after the other, come to the *)
(* map that the tree says, for any tree and any files.                     *)
(*                                                                         *)
(* The invariant, Tuned, has a part for every stage of a reload that       *)
(* nothing overlapped.  While it walks, what it has read so far agrees     *)
(* with the files it has behind it, and all of these come before the ones  *)
(* it has still before it (Walked).  When its load is over, what is to be  *)
(* registered has for every key of the tree the right job as the last one  *)
(* (Complete), and while it registers them, a key is either right already  *)
(* or has the right job still to come (Registered).                        *)
(***************************************************************************)
EXTENDS ServiceProofs

Pending(todo) == UNION {Below(todo[i]) : i \in DOMAIN todo}

(* The job that a file has under a key.                                    *)
SpecIn(f, k) ==
  JobSpec(disk[f].jobs[CHOOSE j \in DOMAIN disk[f].jobs : disk[f].jobs[j].name = k[2]].raw)

(* Of the entries with this key the last one.                              *)
LastEntry(out, k, i) ==
  i \in DOMAIN out /\ out[i].key = k /\ \A j \in DOMAIN out : out[j].key = k => j <= i

(* Of the files that define this key the last one.                         *)
LastFile(S, k, f) ==
  f \in S /\ Defines(f, k) /\ \A g \in S : Defines(g, k) => Rank[g] <= Rank[f]

(* What is to be registered under a key is the job of the last file of S,  *)
(* or nothing if none has one.                                             *)
Agrees(out, S) ==
  \A k \in Keys :
    \/ (\A f \in S : ~ Defines(f, k)) /\ (\A i \in DOMAIN out : out[i].key # k)
    \/ \E f \in S, i \in DOMAIN out :
         LastFile(S, k, f) /\ LastEntry(out, k, i) /\ out[i].spec = SpecIn(f, k)

(* The same, of all files.                                                 *)
Tells(out, k) ==
  k \in DOMAIN JobsOnDisk /\ \E i \in DOMAIN out : LastEntry(out, k, i) /\ out[i].spec = JobsOnDisk[k]

NoEntry(out, k) == \A i \in DOMAIN out : out[i].key # k

Complete(out) ==
  \A k \in Keys : (k \notin DOMAIN JobsOnDisk /\ NoEntry(out, k)) \/ Tells(out, k)

(* The registry has what is no longer to be registered.                    *)
InTune(registry, k) ==
  /\ k \in DOMAIN registry <=> k \in DOMAIN JobsOnDisk
  /\ k \in DOMAIN JobsOnDisk => registry[k] = JobsOnDisk[k]

Registered(out) == \A k \in Keys : (NoEntry(out, k) /\ InTune(jobs, k)) \/ Tells(out, k)

(* How far a walk is.                                                      *)
Ordered(todo) ==
  \A i, j \in DOMAIN todo : i < j =>
    \A x \in Below(todo[i]), y \in Below(todo[j]) : Rank[x] < Rank[y]

Walked(w) ==
  /\ w.todo \in Seq(Paths) /\ Ordered(w.todo)
  /\ \A f \in Files \ Pending(w.todo) : disk[f].kind # "absent" =>
       \A y \in Pending(w.todo) : Rank[f] < Rank[y]
  /\ Agrees(w.out, Files \ Pending(w.todo))
  /\ cfg.root = "absent" => w.pc = "walk" /\ w.todo = <<Root>>

Statted(w) ==
  /\ w.todo # <<>> /\ Head(w.todo) \in Yaml
  /\ disk[Head(w.todo)].kind \notin {"absent", "big"}

Sought(w) ==
  /\ w.pc \in {"walk", "read"} => Walked(w)
  /\ w.pc = "read" => Statted(w)
  /\ w.pc = "ok" => Complete(w.out)

(* The rebuilds under way.                                                 *)
Cleared(r) == Section(Handler(r)) \notin {"notify", "clear"}

Alone(r) ==
  /\ Rebuilding = {r}
  /\ IF Cleared(r) THEN Registered(loaded[r]) ELSE Complete(loaded[r])

Tuned ==
  /\ synced => jobs = JobsOnDisk /\ \A r \in Rebuilding : ~ Cleared(r)
  /\ \A r \in Rebuilding : task[r].pc = "ok"
  /\ \A r \in Rebuilding \ dirty : Alone(r)
  /\ \A t \in Loads \ dirty : Sought(task[t])

-----------------------------------------------------------------------------
(* The tree.                                                               *)

Closed(S) == S \in SUBSET Paths /\ \A d \in S \cap Dirs : Children[d] \subseteq S

LEMMA BelowLeast ==
  ASSUME NEW S, Closed(S), NEW p \in S
  PROVE  Below(p) \subseteq S
BY DEF Below, Closed

LEMMA BelowClosed ==
  ASSUME NEW p \in Paths
  PROVE  Closed(Below(p)) /\ p \in Below(p)
<1>1. p \in Below(p) /\ Below(p) \in SUBSET Paths
  BY DEF Below
<1>2. ASSUME NEW d \in Below(p) \cap Dirs, NEW e \in Children[d]
      PROVE  e \in Below(p)
  <2>1. e \in Paths
    BY TreeAssumption
  <2>2. ASSUME NEW S \in SUBSET Paths, p \in S, \A x \in S \cap Dirs : Children[x] \subseteq S
        PROVE  e \in S
    <3>1. d \in S
      BY <2>2 DEF Below
    <3> QED BY <2>2, <3>1
  <2> QED BY <2>1, <2>2 DEF Below
<1> QED BY <1>1, <1>2 DEF Closed

LEMMA BelowFile ==
  ASSUME NEW f \in Files
  PROVE  Below(f) = {f}
<1>1. Closed({f})
  BY TreeAssumption DEF Closed, Paths
<1> QED BY <1>1, BelowLeast, BelowClosed DEF Paths

LEMMA BelowDir ==
  ASSUME NEW d \in Dirs
  PROVE  /\ Below(d) \subseteq {d} \cup UNION {Below(e) : e \in Children[d]}
         /\ \A e \in Children[d] : Below(e) \subseteq Below(d)
<1> DEFINE S == {d} \cup UNION {Below(e) : e \in Children[d]}
<1>1. d \in Paths /\ \A e \in Children[d] : e \in Paths
  BY TreeAssumption DEF Paths
<1>2. \A e \in Children[d] : Below(e) \in SUBSET Paths /\ e \in Below(e)
  BY <1>1, BelowClosed DEF Closed
<1>3. S \in SUBSET Paths
  BY <1>1, <1>2
<1>4. ASSUME NEW x \in S \cap Dirs PROVE Children[x] \subseteq S
  <2>1. CASE x = d
    BY <1>2, <2>1
  <2>2. ASSUME NEW e \in Children[d], x \in Below(e)
        PROVE  Children[x] \subseteq S
    <3>1. Children[x] \subseteq Below(e)
      BY <1>1, <2>2, BelowClosed DEF Closed
    <3> QED BY <3>1
  <2> QED BY <2>1, <2>2
<1>5. Below(d) \subseteq S
  <2>1. Closed(S) /\ d \in S
    BY <1>3, <1>4 DEF Closed
  <2> HIDE DEF S
  <2> QED BY <2>1, BelowLeast
<1>6. ASSUME NEW e \in Children[d] PROVE Below(e) \subseteq Below(d)
  <2>1. Closed(Below(d)) /\ d \in Below(d)
    BY <1>1, BelowClosed
  <2>2. e \in Below(d)
    BY <2>1 DEF Closed
  <2> QED BY <2>1, <2>2, BelowLeast
<1> QED BY <1>5, <1>6

(* A directory is listed in order, with all that is in it.                 *)
LEMMA EntriesAre ==
  ASSUME NEW d \in Dirs
  PROVE  /\ Entries(d) \in Seq(Paths)
         /\ \A i \in DOMAIN Entries(d) : Entries(d)[i] \in Present(d)
         /\ \A e \in Present(d) : \E i \in DOMAIN Entries(d) : Entries(d)[i] = e
         /\ \A i, j \in DOMAIN Entries(d) : i < j => Rank[Entries(d)[i]] < Rank[Entries(d)[j]]
<1> DEFINE P == Present(d)
           n == Cardinality(P)
           s == Entries(d)
<1>1. P \in SUBSET Paths
  BY TreeAssumption DEF Present
<1>2. n \in Nat /\ \E u \in [1 .. n -> P] : InOrder(u, n)
  <2> HIDE DEF P
  <2> QED BY <1>1, Sortable
<1>3. s = CHOOSE u \in [1 .. n -> P] : InOrder(u, n)
  BY DEF Entries, Sorted, InOrder
<1>4. s \in [1 .. n -> P] /\ InOrder(s, n)
  <2> HIDE DEF s, n, P
  <2> QED BY <1>2, <1>3
<1>5. \A e \in P : \E i \in 1 .. n : s[i] = e
  <2> HIDE DEF s, P
  <2> QED BY <1>1, <1>4, SortedOnto
<1>6. DOMAIN s = 1 .. n
  BY <1>4
<1>7. s \in Seq(Paths)
  <2> HIDE DEF s, n, P
  <2> QED BY <1>1, <1>2, <1>4
<1> HIDE DEF s, n, P
<1>8. \A i \in 1 .. n : s[i] \in P
  BY <1>4
<1> QED BY <1>4, <1>5, <1>6, <1>7, <1>8 DEF InOrder, s, P

-----------------------------------------------------------------------------
(* What a walk has still before it.                                        *)

LEMMA PendingSplit ==
  ASSUME NEW todo \in Seq(Paths), todo # <<>>
  PROVE  /\ Head(todo) \in Paths /\ Tail(todo) \in Seq(Paths)
         /\ Pending(todo) = Below(Head(todo)) \cup Pending(Tail(todo))
<1> DEFINE u == Tail(todo)
<1>1. /\ Len(todo) \in Nat /\ Len(todo) > 0 /\ u \in Seq(Paths) /\ Head(todo) = todo[1]
      /\ DOMAIN todo = 1 .. Len(todo) /\ DOMAIN u = 1 .. Len(todo) - 1
      /\ \A i \in 1 .. Len(todo) - 1 : u[i] = todo[i + 1]
  OBVIOUS
<1>2. todo[1] \in Paths
  BY <1>1
<1> HIDE DEF u
<1>3. \A i \in DOMAIN todo : i = 1 \/ (i - 1 \in DOMAIN u /\ u[i - 1] = todo[i])
  BY <1>1
<1>4. 1 \in DOMAIN todo /\ \A i \in DOMAIN u : i + 1 \in DOMAIN todo /\ u[i] = todo[i + 1]
  BY <1>1
<1>5. \A x : x \in Pending(todo) <=> x \in Below(todo[1]) \/ x \in Pending(u)
  BY <1>3, <1>4 DEF Pending
<1> QED BY <1>1, <1>2, <1>5 DEF u

LEMMA OrderedSplit ==
  ASSUME NEW todo \in Seq(Paths), todo # <<>>, Ordered(todo)
  PROVE  /\ Ordered(Tail(todo))
         /\ \A x \in Below(Head(todo)), y \in Pending(Tail(todo)) : Rank[x] < Rank[y]
<1> DEFINE u == Tail(todo)
<1>1. /\ Len(todo) \in Nat /\ Len(todo) > 0 /\ Head(todo) = todo[1]
      /\ DOMAIN todo = 1 .. Len(todo) /\ DOMAIN u = 1 .. Len(todo) - 1
      /\ \A i \in 1 .. Len(todo) - 1 : u[i] = todo[i + 1]
  OBVIOUS
<1> HIDE DEF u
<1>2. \A i \in DOMAIN u : i + 1 \in DOMAIN todo /\ 1 < i + 1 /\ u[i] = todo[i + 1]
  BY <1>1
<1>3. 1 \in DOMAIN todo
  BY <1>1
<1>4. Ordered(u)
  <2>1. \A i, j \in DOMAIN u : i < j => i + 1 < j + 1
    BY <1>1
  <2> QED BY <1>2, <2>1 DEF Ordered
<1>5. ASSUME NEW x \in Below(Head(todo)), NEW y \in Pending(u)
      PROVE  Rank[x] < Rank[y]
  <2>1. PICK i \in DOMAIN u : y \in Below(u[i])
    BY DEF Pending
  <2> QED BY <1>1, <1>2, <1>3, <2>1 DEF Ordered
<1> QED BY <1>4, <1>5 DEF u

LEMMA Joined ==
  ASSUME NEW s \in Seq(Paths), NEW u \in Seq(Paths)
  PROVE  /\ s \o u \in Seq(Paths)
         /\ Pending(s \o u) = Pending(s) \cup Pending(u)
         /\ /\ Ordered(s) /\ Ordered(u)
            /\ \A x \in Pending(s), y \in Pending(u) : Rank[x] < Rank[y]
            => Ordered(s \o u)
<1> DEFINE v == s \o u
           n == Len(s)
           m == Len(u)
<1>1. /\ n \in Nat /\ m \in Nat /\ v \in Seq(Paths)
      /\ DOMAIN s = 1 .. n /\ DOMAIN u = 1 .. m /\ DOMAIN v = 1 .. n + m
      /\ \A i \in 1 .. n : v[i] = s[i]
      /\ \A i \in 1 .. m : v[n + i] = u[i]
  OBVIOUS
<1> HIDE DEF v, n, m
<1>2. \A i \in DOMAIN v : \/ i \in DOMAIN s /\ v[i] = s[i]
                          \/ i > n /\ i - n \in DOMAIN u /\ v[i] = u[i - n]
  <2> SUFFICES ASSUME NEW i \in 1 .. n + m
               PROVE  \/ i \in 1 .. n /\ v[i] = s[i]
                      \/ i > n /\ i - n \in 1 .. m /\ v[i] = u[i - n]
    BY <1>1
  <2>1. CASE i <= n
    BY <1>1, <2>1
  <2>2. CASE i > n
    <3>1. i - n \in 1 .. m /\ n + (i - n) = i
      BY <1>1, <2>2
    <3> QED BY <1>1, <2>2, <3>1
  <2> QED BY <1>1, <2>1, <2>2
<1>3. /\ \A i \in DOMAIN s : i \in DOMAIN v /\ v[i] = s[i]
      /\ \A i \in DOMAIN u : n + i \in DOMAIN v /\ v[n + i] = u[i]
  BY <1>1
<1>4. \A x : x \in Pending(v) <=> x \in Pending(s) \/ x \in Pending(u)
  BY <1>2, <1>3 DEF Pending
<1>5. ASSUME Ordered(s), Ordered(u), \A x \in Pending(s), y \in Pending(u) : Rank[x] < Rank[y]
      PROVE  Ordered(v)
  <2> SUFFICES ASSUME NEW i \in DOMAIN v, NEW j \in DOMAIN v, i < j,
                      NEW x \in Below(v[i]), NEW y \in Below(v[j])
               PROVE  Rank[x] < Rank[y]
    BY DEF Ordered
  <2>1. CASE i \in DOMAIN s /\ v[i] = s[i] /\ j \in DOMAIN s /\ v[j] = s[j]
    BY <1>5, <2>1 DEF Ordered
  <2>2. CASE i \in DOMAIN s /\ v[i] = s[i] /\ j - n \in DOMAIN u /\ v[j] = u[j - n]
    <3>1. x \in Pending(s) /\ y \in Pending(u)
      BY <2>2 DEF Pending
    <3> QED BY <1>5, <3>1
  <2>3. CASE /\ i - n \in DOMAIN u /\ v[i] = u[i - n]
             /\ j - n \in DOMAIN u /\ v[j] = u[j - n]
    <3>1. i - n < j - n
      BY <1>1
    <3> QED BY <1>5, <2>3, <3>1 DEF Ordered
  <2>4. ~ (i > n /\ j \in DOMAIN s)
    BY <1>1
  <2> QED BY <1>2, <2>1, <2>2, <2>3, <2>4
<1> QED BY <1>1, <1>4, <1>5 DEF v

-----------------------------------------------------------------------------
(* A step of a walk that nothing overlaps.                                 *)

LEMMA KeyPairs ==
  ASSUME NEW k \in Keys
  PROVE  k = <<k[1], k[2]>>
BY DEF Keys

(* Files without a definition make no difference.                          *)
LEMMA AgreesWith ==
  ASSUME NEW out, NEW S, NEW U, Agrees(out, S), S \subseteq U,
         \A f \in U \ S : \A k \in Keys : ~ Defines(f, k)
  PROVE  Agrees(out, U)
<1> SUFFICES ASSUME NEW k \in Keys
             PROVE  \/ (\A f \in U : ~ Defines(f, k)) /\ (\A i \in DOMAIN out : out[i].key # k)
                    \/ \E f \in U, i \in DOMAIN out :
                         LastFile(U, k, f) /\ LastEntry(out, k, i) /\ out[i].spec = SpecIn(f, k)
  BY DEF Agrees
<1>1. \A f \in U : Defines(f, k) => f \in S
  OBVIOUS
<1>2. \A f : LastFile(S, k, f) => LastFile(U, k, f)
  BY <1>1 DEF LastFile
<1> QED BY <1>1, <1>2 DEF Agrees

(* What is not accepted defines nothing.                                   *)
LEMMA DefinesNothing ==
  ASSUME NEW f, NEW k, f \notin Yaml \/ disk[f].kind # "jobs"
  PROVE  ~ Defines(f, k)
BY DEF Defines, FileAccepted

(* The walk leaves a file behind.                                          *)
LEMMA FilePassed ==
  ASSUME NEW w, Walked(w), w.todo # <<>>, Head(w.todo) \in Files
  PROVE  LET f == Head(w.todo)
             S == Files \ Pending(w.todo)
             U == Files \ Pending(Tail(w.todo))
         IN  /\ U = S \cup {f} /\ Tail(w.todo) \in Seq(Paths) /\ Ordered(Tail(w.todo))
             /\ \A g \in S : disk[g].kind # "absent" => Rank[g] < Rank[f]
             /\ \A g \in U : disk[g].kind # "absent" =>
                  \A y \in Pending(Tail(w.todo)) : Rank[g] < Rank[y]
<1> DEFINE todo == w.todo
           f == Head(todo)
           u == Tail(todo)
           S == Files \ Pending(todo)
           U == Files \ Pending(u)
<1>1. todo \in Seq(Paths) /\ Ordered(todo)
  BY DEF Walked
<1>2. \A g \in S : disk[g].kind # "absent" => \A y \in Pending(todo) : Rank[g] < Rank[y]
  BY DEF Walked
<1>3. u \in Seq(Paths) /\ Pending(todo) = Below(f) \cup Pending(u)
  BY <1>1, PendingSplit
<1>4. Below(f) = {f}
  BY BelowFile
<1>5. Ordered(u) /\ \A y \in Pending(u) : Rank[f] < Rank[y]
  BY <1>1, <1>4, OrderedSplit
<1>6. f \notin Pending(u)
  <2>1. Rank[f] \in Nat
    BY OrderAssumption DEF Paths
  <2> HIDE DEF u
  <2> QED BY <1>5, <2>1
<1> HIDE DEF todo, f, u
<1>7. U = S \cup {f}
  BY <1>3, <1>4, <1>6 DEF f, todo
<1>8. \A g \in S : disk[g].kind # "absent" => Rank[g] < Rank[f]
  BY <1>2, <1>3, <1>4
<1>9. \A g \in U : disk[g].kind # "absent" => \A y \in Pending(u) : Rank[g] < Rank[y]
  BY <1>2, <1>3, <1>5, <1>7
<1> QED BY <1>3, <1>5, <1>7, <1>8, <1>9 DEF todo, f, u

(* What the walk is at when it goes on with the rest.                      *)
LEMMA RestWalked ==
  ASSUME NEW w, Walked(w), w.todo # <<>>, Head(w.todo) \in Files,
         NEW out, Agrees(out, Files \ Pending(Tail(w.todo)))
  PROVE  Walked([pc |-> "walk", todo |-> Tail(w.todo), out |-> out])
<1> DEFINE new == [pc |-> "walk", todo |-> Tail(w.todo), out |-> out]
<1>1. new.pc = "walk" /\ new.todo = Tail(w.todo) /\ new.out = out
  OBVIOUS
<1>2. cfg.root # "absent"
  <2>1. Head(<<Root>>) = Root
    OBVIOUS
  <2> QED BY <2>1, TreeAssumption DEF Walked
<1> HIDE DEF new
<1>3. /\ Tail(w.todo) \in Seq(Paths) /\ Ordered(Tail(w.todo))
      /\ \A g \in Files \ Pending(Tail(w.todo)) : disk[g].kind # "absent" =>
           \A y \in Pending(Tail(w.todo)) : Rank[g] < Rank[y]
  BY FilePassed
<1> QED BY <1>1, <1>2, <1>3 DEF Walked, new

LEMMA SkipKeeps ==
  ASSUME NEW w, Walked(w), w.todo # <<>>, Head(w.todo) \in Files,
         \A k \in Keys : ~ Defines(Head(w.todo), k)
  PROVE  Walked([pc |-> "walk", todo |-> Tail(w.todo), out |-> w.out])
<1> DEFINE S == Files \ Pending(w.todo)
           U == Files \ Pending(Tail(w.todo))
<1>1. U = S \cup {Head(w.todo)}
  BY FilePassed
<1>2. Agrees(w.out, S)
  BY DEF Walked
<1> HIDE DEF S, U
<1>3. Agrees(w.out, U)
  BY <1>1, <1>2, AgreesWith
<1> QED BY <1>3, RestWalked DEF U

(* The jobs of an accepted file, with their keys.                          *)
LEMMA LoadedAre ==
  ASSUME NEW f \in Files, disk[f] \in FileContents
  PROVE  LET new == Loaded(f, disk[f])
         IN  /\ FileAccepted(disk[f]) =>
                  /\ DOMAIN new = DOMAIN disk[f].jobs
                  /\ \A i \in DOMAIN new :
                       /\ new[i].key = <<Group[f], disk[f].jobs[i].name>>
                       /\ new[i].spec = JobSpec(disk[f].jobs[i].raw)
             /\ ~ FileAccepted(disk[f]) => new = <<>>
BY DEF Loaded

LEMMA UniqueName ==
  ASSUME NEW f \in Files, disk[f] \in FileContents, NEW k,
         NEW i \in DOMAIN disk[f].jobs, disk[f].jobs[i].name = k[2]
  PROVE  /\ \A j \in DOMAIN disk[f].jobs : disk[f].jobs[j].name = k[2] => j = i
         /\ SpecIn(f, k) = JobSpec(disk[f].jobs[i].raw)
<1>1. \A j \in DOMAIN disk[f].jobs : disk[f].jobs[j].name = k[2] => j = i
  BY DEF FileContents
<1>2. (CHOOSE j \in DOMAIN disk[f].jobs : disk[f].jobs[j].name = k[2]) = i
  BY <1>1
<1> QED BY <1>1, <1>2 DEF SpecIn

(* Appended entries.                                                       *)
LEMMA Appended ==
  ASSUME NEW X, NEW s \in Seq(X), NEW u \in Seq(X)
  PROVE  /\ DOMAIN s = 1 .. Len(s) /\ Len(s) \in Nat /\ DOMAIN u \subseteq Nat \ {0}
         /\ \A i \in DOMAIN s : i \in DOMAIN (s \o u) /\ (s \o u)[i] = s[i] /\ i <= Len(s)
         /\ \A i \in DOMAIN u : Len(s) + i \in DOMAIN (s \o u) /\ (s \o u)[Len(s) + i] = u[i]
         /\ \A i \in DOMAIN (s \o u) :
              \/ i \in DOMAIN s
              \/ i \in Nat /\ i > Len(s) /\ i - Len(s) \in DOMAIN u /\ (s \o u)[i] = u[i - Len(s)]
<1> DEFINE v == s \o u
           n == Len(s)
           m == Len(u)
<1>1. /\ n \in Nat /\ m \in Nat
      /\ DOMAIN s = 1 .. n /\ DOMAIN u = 1 .. m /\ DOMAIN v = 1 .. n + m
      /\ \A i \in 1 .. n : v[i] = s[i]
      /\ \A i \in 1 .. m : v[n + i] = u[i]
  OBVIOUS
<1> HIDE DEF v, n, m
<1>2. ASSUME NEW i \in 1 .. n + m, ~ (i \in 1 .. n)
      PROVE  i \in Nat /\ i > n /\ i - n \in 1 .. m /\ v[i] = u[i - n]
  <2>1. i > n /\ i - n \in 1 .. m /\ n + (i - n) = i
    BY <1>1, <1>2
  <2> QED BY <1>1, <2>1
<1>3. \A i \in 1 .. n : i \in 1 .. n + m /\ i <= n
  BY <1>1
<1>4. \A i \in 1 .. m : n + i \in 1 .. n + m
  BY <1>1
<1> QED BY <1>1, <1>2, <1>3, <1>4 DEF v, n

(* The jobs of a file come after those of all files before it.             *)
LEMMA ReadAgrees ==
  ASSUME NEW w, Walked(w), w.pc = "read", Statted(w), w.out \in Seq(LoadedJobs),
         disk \in [Files -> FileContents], environ \in [EnvNames -> VarStates]
  PROVE  Agrees(w.out \o Loaded(Head(w.todo), disk[Head(w.todo)]),
                Files \ Pending(Tail(w.todo)))
<1> DEFINE f == Head(w.todo)
           S == Files \ Pending(w.todo)
           U == Files \ Pending(Tail(w.todo))
           new == Loaded(f, disk[f])
           out == w.out
           all == out \o new
           n == Len(out)
<1>1. /\ f \in Yaml /\ f \in Files /\ w.todo # <<>> /\ disk[f] \in FileContents
      /\ cfg.root # "absent"
  BY TreeAssumption DEF Statted, Walked
<1>2. /\ U = S \cup {f}
      /\ \A g \in S : disk[g].kind # "absent" => Rank[g] < Rank[f]
  BY <1>1, FilePassed
<1>3. Agrees(out, S)
  BY DEF Walked
<1>4. new \in Seq(LoadedJobs)
  BY <1>1, LoadedType
<1>5. /\ DOMAIN out = 1 .. n /\ n \in Nat /\ DOMAIN new \subseteq Nat \ {0}
      /\ \A i \in DOMAIN out : i \in DOMAIN all /\ all[i] = out[i] /\ i <= n
      /\ \A i \in DOMAIN new : n + i \in DOMAIN all /\ all[n + i] = new[i]
      /\ \A i \in DOMAIN all :
           \/ i \in DOMAIN out
           \/ i \in Nat /\ i > n /\ i - n \in DOMAIN new /\ all[i] = new[i - n]
  <2> HIDE DEF new, out
  <2> QED BY <1>4, Appended DEF out
<1>6. FileAccepted(disk[f]) =>
        /\ DOMAIN new = DOMAIN disk[f].jobs
        /\ \A i \in DOMAIN new : /\ new[i].key = <<Group[f], disk[f].jobs[i].name>>
                                 /\ new[i].spec = JobSpec(disk[f].jobs[i].raw)
  BY <1>1, LoadedAre
<1>7. ~ FileAccepted(disk[f]) => new = <<>>
  BY <1>1, LoadedAre
<1> HIDE DEF f, S, U, new, out, all, n
<1> SUFFICES ASSUME NEW k \in Keys
             PROVE  \/ (\A g \in U : ~ Defines(g, k)) /\ (\A i \in DOMAIN all : all[i].key # k)
                    \/ \E g \in U, i \in DOMAIN all :
                         LastFile(U, k, g) /\ LastEntry(all, k, i) /\ all[i].spec = SpecIn(g, k)
  BY DEF Agrees, f, U, new, out, all
<1>8. k = <<k[1], k[2]>>
  BY KeyPairs
<1>9. CASE Defines(f, k)
  <2>1. FileAccepted(disk[f]) /\ Group[f] = k[1]
    BY <1>9 DEF Defines
  <2>2. PICK i \in DOMAIN disk[f].jobs : disk[f].jobs[i].name = k[2]
    BY <1>9 DEF Defines
  <2>3. /\ \A j \in DOMAIN disk[f].jobs : disk[f].jobs[j].name = k[2] => j = i
        /\ SpecIn(f, k) = JobSpec(disk[f].jobs[i].raw)
    BY <1>1, <2>2, UniqueName
  <2>4. i \in DOMAIN new /\ new[i].key = k /\ new[i].spec = SpecIn(f, k)
    BY <1>6, <1>8, <2>1, <2>2, <2>3
  <2>5. \A j \in DOMAIN new : new[j].key = k => j = i
    BY <1>6, <1>8, <2>1, <2>3
  <2>6. LastEntry(all, k, n + i)
    <3>1. n + i \in DOMAIN all /\ all[n + i] = new[i] /\ i \in Nat /\ i > 0
      BY <1>5, <2>4
    <3>2. ASSUME NEW j \in DOMAIN all, all[j].key = k PROVE j <= n + i
      <4>1. CASE j \in DOMAIN out
        BY <1>5, <3>1, <4>1
      <4>2. CASE j \in Nat /\ j > n /\ j - n \in DOMAIN new /\ all[j] = new[j - n]
        BY <1>5, <2>5, <3>1, <3>2, <4>2
      <4> QED BY <1>5, <4>1, <4>2
    <3> QED BY <2>4, <3>1, <3>2 DEF LastEntry
  <2>7. LastFile(U, k, f)
    <3>1. ASSUME NEW g \in U, Defines(g, k) PROVE Rank[g] <= Rank[f]
      <4>1. disk[g].kind # "absent"
        BY <3>1 DEF Defines, FileAccepted
      <4>2. Rank[f] \in Nat /\ Rank[g] \in Nat
        BY <1>1, OrderAssumption DEF U, Paths
      <4> QED BY <1>2, <4>1, <4>2
    <3> QED BY <1>2, <1>9, <3>1 DEF LastFile
  <2>8. all[n + i].spec = SpecIn(f, k)
    BY <1>5, <2>4
  <2> QED BY <1>2, <2>6, <2>7, <2>8 DEF LastEntry
<1>10. CASE ~ Defines(f, k)
  <2>1. \A j \in DOMAIN new : new[j].key # k
    <3>1. CASE FileAccepted(disk[f])
      BY <1>1, <1>6, <1>8, <1>10, <3>1 DEF Defines
    <3>2. CASE ~ FileAccepted(disk[f])
      BY <1>7, <3>2
    <3> QED BY <3>1, <3>2
  <2>2. \A j \in DOMAIN all : all[j].key = k => j \in DOMAIN out
    BY <1>5, <2>1
  <2>3. CASE (\A g \in S : ~ Defines(g, k)) /\ (\A i \in DOMAIN out : out[i].key # k)
    BY <1>2, <1>5, <1>10, <2>2, <2>3
  <2>4. ASSUME NEW g \in S, NEW i \in DOMAIN out, LastFile(S, k, g), LastEntry(out, k, i),
               out[i].spec = SpecIn(g, k)
        PROVE  g \in U /\ i \in DOMAIN all /\ LastFile(U, k, g) /\ LastEntry(all, k, i)
               /\ all[i].spec = SpecIn(g, k)
    <3>1. LastFile(U, k, g)
      BY <1>2, <1>10, <2>4 DEF LastFile
    <3>2. LastEntry(all, k, i)
      BY <1>5, <2>2, <2>4 DEF LastEntry
    <3> QED BY <1>2, <1>5, <2>4, <3>1, <3>2
  <2> QED BY <1>3, <2>3, <2>4 DEF Agrees
<1> QED BY <1>9, <1>10

(* A directory gives way to what is in it.                                 *)
LEMMA EnterKeeps ==
  ASSUME NEW w, Walked(w), w.todo # <<>>, NEW d \in Dirs, Head(w.todo) = d,
         cfg.root # "absent"
  PROVE  Walked([pc |-> "walk", todo |-> Entries(d) \o Tail(w.todo), out |-> w.out])
<1> DEFINE todo == w.todo
           u == Tail(todo)
           s == Entries(d)
           v == s \o u
           new == [pc |-> "walk", todo |-> v, out |-> w.out]
           S == Files \ Pending(todo)
           U == Files \ Pending(v)
<1>1. /\ todo \in Seq(Paths) /\ Ordered(todo) /\ Agrees(w.out, S)
      /\ \A g \in S : disk[g].kind # "absent" => \A y \in Pending(todo) : Rank[g] < Rank[y]
  BY DEF Walked
<1>2. u \in Seq(Paths) /\ Pending(todo) = Below(d) \cup Pending(u)
  BY <1>1, PendingSplit
<1>3. Ordered(u) /\ \A x \in Below(d), y \in Pending(u) : Rank[x] < Rank[y]
  BY <1>1, OrderedSplit
<1>4. /\ s \in Seq(Paths)
      /\ \A i \in DOMAIN s : s[i] \in Present(d)
      /\ \A e \in Present(d) : \E i \in DOMAIN s : s[i] = e
      /\ \A i, j \in DOMAIN s : i < j => Rank[s[i]] < Rank[s[j]]
  BY EntriesAre
<1> HIDE DEF s, u
<1>5. Present(d) \subseteq Children[d]
  BY DEF Present
<1>6. Pending(s) \subseteq Below(d)
  <2>1. \A i \in DOMAIN s : Below(s[i]) \subseteq Below(d)
    BY <1>4, <1>5, BelowDir
  <2> QED BY <2>1 DEF Pending
<1>7. Ordered(s)
  BY <1>4, <1>5, OrderAssumption DEF Ordered
<1>8. v \in Seq(Paths) /\ Pending(v) = Pending(s) \cup Pending(u) /\ Ordered(v)
  BY <1>2, <1>3, <1>4, <1>6, <1>7, Joined
<1> HIDE DEF v
<1>9. ASSUME NEW g \in U \ S PROVE disk[g].kind = "absent"
  <2>1. g \in Below(d) /\ g \notin Pending(s) /\ g \in Files
    BY <1>2, <1>8, <1>9
  <2>2. g # d
    BY <2>1, TreeAssumption
  <2>3. PICK e \in Children[d] : g \in Below(e)
    BY <2>1, <2>2, BelowDir
  <2>4. e \notin Present(d)
    BY <1>4, <2>1, <2>3 DEF Pending
  <2>5. e \in Files /\ disk[e].kind = "absent"
    BY <2>4, TreeAssumption DEF Present, Paths
  <2>6. g = e
    BY <2>3, <2>5, BelowFile
  <2> QED BY <2>5, <2>6
<1>10. S \subseteq U
  BY <1>2, <1>6, <1>8
<1>11. Agrees(w.out, U)
  <2>1. \A g \in U \ S : \A k \in Keys : ~ Defines(g, k)
    BY <1>9, DefinesNothing
  <2> HIDE DEF S, U
  <2> QED BY <1>1, <1>10, <2>1, AgreesWith
<1>12. \A g \in U : disk[g].kind # "absent" => \A y \in Pending(v) : Rank[g] < Rank[y]
  BY <1>1, <1>2, <1>6, <1>8, <1>9
<1>13. new.pc = "walk" /\ new.todo = v /\ new.out = w.out
  OBVIOUS
<1> HIDE DEF new
<1>14. Walked(new)
  BY <1>8, <1>11, <1>12, <1>13 DEF Walked
<1> QED BY <1>14 DEF new, v, u, s

-----------------------------------------------------------------------------
(* The map that the tree says.                                             *)

LEMMA OnDiskIs ==
  ASSUME NEW k \in Keys
  PROVE  /\ k \in DOMAIN JobsOnDisk <=> \E f \in Files : Defines(f, k)
         /\ \A f : LastFile(Files, k, f) => JobsOnDisk[k] = SpecIn(f, k)
<1> DEFINE D == {x \in DefinedKeys : \E f \in Files : Defines(f, x)}
           Last1 == CHOOSE g \in Files :
                      Defines(g, k) /\ \A h \in Files : Defines(h, k) => Rank[h] <= Rank[g]
<1>1. DOMAIN JobsOnDisk = D /\ (k \in D => JobsOnDisk[k] = SpecIn(Last1, k))
  BY DEF JobsOnDisk, SpecIn
<1>2. ASSUME NEW f \in Files, Defines(f, k) PROVE k \in DefinedKeys
  <2>1. PICK i \in DOMAIN disk[f].jobs : disk[f].jobs[i].name = k[2]
    BY <1>2 DEF Defines
  <2>2. k = <<Group[f], disk[f].jobs[i].name>>
    BY <1>2, <2>1, KeyPairs DEF Defines
  <2> QED BY <2>2 DEF DefinedKeys
<1>3. ASSUME NEW f, LastFile(Files, k, f) PROVE JobsOnDisk[k] = SpecIn(f, k)
  <2>1. f \in Files /\ Defines(f, k) /\ \A h \in Files : Defines(h, k) => Rank[h] <= Rank[f]
    BY <1>3 DEF LastFile
  <2>2. /\ Last1 \in Files /\ Defines(Last1, k)
        /\ \A h \in Files : Defines(h, k) => Rank[h] <= Rank[Last1]
    BY <2>1
  <2> HIDE DEF Last1
  <2>3. Rank[f] <= Rank[Last1] /\ Rank[Last1] <= Rank[f] /\ f \in Paths /\ Last1 \in Paths
    BY <2>1, <2>2 DEF Paths
  <2>4. Rank[f] = Rank[Last1]
    BY <2>3, OrderAssumption
  <2>5. f = Last1
    BY <2>3, <2>4, OrderAssumption
  <2> QED BY <1>1, <1>2, <2>1, <2>5
<1> HIDE DEF Last1
<1>4. k \in DOMAIN JobsOnDisk <=> \E f \in Files : Defines(f, k)
  BY <1>1, <1>2
<1> QED BY <1>3, <1>4

(* A walk that has come to its end has it all.                             *)
LEMMA AllAgree ==
  ASSUME NEW out, Agrees(out, Files)
  PROVE  Complete(out)
<1> SUFFICES ASSUME NEW k \in Keys
             PROVE  (k \notin DOMAIN JobsOnDisk /\ NoEntry(out, k)) \/ Tells(out, k)
  BY DEF Complete
<1>1. CASE (\A f \in Files : ~ Defines(f, k)) /\ (\A i \in DOMAIN out : out[i].key # k)
  BY <1>1, OnDiskIs DEF NoEntry
<1>2. ASSUME NEW f \in Files, NEW i \in DOMAIN out, LastFile(Files, k, f), LastEntry(out, k, i),
             out[i].spec = SpecIn(f, k)
      PROVE  Tells(out, k)
  <2>1. k \in DOMAIN JobsOnDisk
    BY <1>2, OnDiskIs DEF LastFile
  <2>2. JobsOnDisk[k] = SpecIn(f, k)
    BY <1>2, OnDiskIs
  <2> QED BY <1>2, <2>1, <2>2 DEF Tells
<1> QED BY <1>1, <1>2 DEF Agrees

LEMMA WalkedToTheEnd ==
  ASSUME NEW w, Walked(w), w.todo = <<>>
  PROVE  Complete(w.out)
<1>1. Pending(w.todo) = {}
  BY DEF Pending
<1>2. Agrees(w.out, Files)
  BY <1>1 DEF Walked
<1> QED BY <1>2, AllAgree

(* Without a directory there are no jobs.                                  *)
LEMMA NoDirectory ==
  ASSUME NEW w, Walked(w), cfg.root = "absent"
  PROVE  Complete(w.out)
<1>1. \A f, k : ~ Defines(f, k)
  BY DEF Defines
<1>2. Agrees(w.out, Files \ Pending(w.todo))
  BY DEF Walked
<1>3. Agrees(w.out, Files)
  BY <1>1, <1>2 DEF Agrees, LastFile
<1> QED BY <1>3, AllAgree

-----------------------------------------------------------------------------
(* The tasks.                                                              *)

LEMMA LoadStepSeeks ==
  ASSUME Stocked, NEW t \in Loads, LoadStep(t), Sought(task[t])
  PROVE  Sought(task'[t])
<1> DEFINE w == task[t]
<1>1. /\ DOMAIN task = Loads /\ w.out \in Seq(LoadedJobs) /\ disk \in [Files -> FileContents]
      /\ w.pc \in {"walk", "read"} => Walked(w)
      /\ w.pc = "read" => Statted(w)
  BY DEF Stocked, Sought
<1>2. ASSUME NEW new, Goes(t, new) PROVE task'[t] = new
  BY <1>1, <1>2 DEF Goes
<1>3. ASSUME NEW pc, Ends(t, pc), pc \notin {"walk", "read", "ok"}
      PROVE  Sought(task'[t])
  <2>1. DOMAIN w = {"pc", "todo", "out"}
    BY DEF Stocked
  <2>2. task'[t].pc = pc
    BY <1>2, <1>3, <2>1 DEF Ends
  <2> QED BY <1>3, <2>2 DEF Sought
<1>4. ASSUME Ends(t, "ok"), Complete(w.out)
      PROVE  Sought(task'[t])
  <2>1. DOMAIN w = {"pc", "todo", "out"}
    BY DEF Stocked
  <2>2. task'[t].pc = "ok" /\ task'[t].out = w.out
    BY <1>2, <1>4, <2>1 DEF Ends
  <2> QED BY <1>4, <2>2 DEF Sought
<1>5. ASSUME NEW todo, w.pc = "walk", Goes(t, [w EXCEPT !.todo = todo]),
             Walked([pc |-> "walk", todo |-> todo, out |-> w.out])
      PROVE  Sought(task'[t])
  <2> DEFINE new == [pc |-> "walk", todo |-> todo, out |-> w.out]
  <2>1. DOMAIN w = {"pc", "todo", "out"}
    BY DEF Stocked
  <2>2. task'[t].pc = "walk" /\ task'[t].todo = todo /\ task'[t].out = w.out
    BY <1>2, <1>5, <2>1
  <2>3. new.pc = "walk" /\ new.todo = todo /\ new.out = w.out
    OBVIOUS
  <2> HIDE DEF new
  <2>4. Walked(new)
    BY <1>5 DEF new
  <2>5. Walked(task'[t])
    BY <2>2, <2>3, <2>4 DEF Walked
  <2> QED BY <2>2, <2>5 DEF Sought
<1>6. CASE WalkDir(t)
  <2>1. PICK d \in Dirs :
          /\ At(t, d)
          /\ \/ d = Root /\ cfg.root = "absent" /\ Ends(t, "ok")
             \/ d = cfg.unreadable /\ ~ (d = Root /\ cfg.root = "absent") /\ Ends(t, "io")
             \/ /\ d # cfg.unreadable /\ ~ (d = Root /\ cfg.root = "absent")
                /\ Goes(t, [w EXCEPT !.todo = Entries(d) \o Tail(w.todo)])
    BY <1>6 DEF WalkDir, NoRoot
  <2>2. w.pc = "walk" /\ w.todo # <<>> /\ Head(w.todo) = d /\ Walked(w)
    BY <1>1, <2>1 DEF At
  <2>3. CASE d = Root /\ cfg.root = "absent" /\ Ends(t, "ok")
    BY <1>4, <2>2, <2>3, NoDirectory
  <2>4. CASE Ends(t, "io")
    BY <1>3, <2>4
  <2>5. CASE /\ ~ (d = Root /\ cfg.root = "absent")
             /\ Goes(t, [w EXCEPT !.todo = Entries(d) \o Tail(w.todo)])
    <3>1. cfg.root # "absent"
      <4>1. Head(<<Root>>) = Root
        OBVIOUS
      <4> QED BY <2>2, <2>5, <4>1 DEF Walked
    <3>2. Walked([pc |-> "walk", todo |-> Entries(d) \o Tail(w.todo), out |-> w.out])
      BY <2>2, <3>1, EnterKeeps
    <3> QED BY <1>5, <2>2, <2>5, <3>2
  <2> QED BY <2>1, <2>3, <2>4, <2>5
<1>7. ASSUME NEW f \in Files, At(t, f), disk[f].kind \in {"absent", "big"} \/ f \notin Yaml,
             Goes(t, [w EXCEPT !.todo = Tail(w.todo)])
      PROVE  Sought(task'[t])
  <2>1. w.pc = "walk" /\ w.todo # <<>> /\ Head(w.todo) = f /\ Walked(w)
    BY <1>1, <1>7 DEF At
  <2>2. \A k \in Keys : ~ Defines(f, k)
    BY <1>7, DefinesNothing
  <2>3. Walked([pc |-> "walk", todo |-> Tail(w.todo), out |-> w.out])
    BY <2>1, <2>2, SkipKeeps
  <2> QED BY <1>5, <1>7, <2>1, <2>3
<1>8. CASE WalkOther(t)
  BY <1>7, <1>8 DEF WalkOther
<1>9. CASE WalkFixture(t)
  BY <1>3, <1>9 DEF WalkFixture
<1>10. CASE StatFile(t)
  <2>1. PICK f \in Yaml : /\ At(t, f)
                          /\ IF disk[f].kind \in {"absent", "big"}
                             THEN Goes(t, [w EXCEPT !.todo = Tail(w.todo)])
                             ELSE Goes(t, [w EXCEPT !.pc = "read"])
    BY <1>10 DEF StatFile
  <2>2. f \in Files
    BY TreeAssumption
  <2>3. CASE disk[f].kind \in {"absent", "big"}
    BY <1>7, <2>1, <2>2, <2>3
  <2>4. CASE ~ (disk[f].kind \in {"absent", "big"})
    <3>1. w.pc = "walk" /\ w.todo # <<>> /\ Head(w.todo) = f /\ Walked(w)
      BY <1>1, <2>1 DEF At
    <3>2. DOMAIN w = {"pc", "todo", "out"} /\ Goes(t, [w EXCEPT !.pc = "read"])
      BY <2>1, <2>4 DEF Stocked
    <3>3. task'[t].pc = "read" /\ task'[t].todo = w.todo /\ task'[t].out = w.out
      BY <1>2, <3>2
    <3>4. cfg.root # "absent"
      <4>1. Head(<<Root>>) = Root
        OBVIOUS
      <4> QED BY <2>2, <3>1, <4>1, TreeAssumption DEF Walked
    <3>5. Walked(task'[t])
      BY <3>1, <3>3, <3>4 DEF Walked
    <3>6. Statted(task'[t])
      BY <2>4, <3>1, <3>3 DEF Statted
    <3> QED BY <3>3, <3>5, <3>6 DEF Sought
  <2> QED BY <2>3, <2>4
<1>11. CASE ReadFile(t)
  <2> DEFINE f == Head(w.todo)
             out == w.out \o Loaded(f, disk[f])
  <2>1. w.pc = "read" /\ Walked(w) /\ Statted(w)
    BY <1>1, <1>11 DEF ReadFile
  <2>2. disk[f].kind # "big" /\ w.todo # <<>> /\ f \in Files
    BY <2>1, TreeAssumption DEF Statted
  <2>3. Goes(t, [pc |-> "walk", todo |-> Tail(w.todo), out |-> out])
    BY <1>11, <2>2 DEF ReadFile
  <2>4. Agrees(out, Files \ Pending(Tail(w.todo)))
    BY <1>1, <2>1, ReadAgrees DEF Stocked
  <2> HIDE DEF out
  <2>5. Walked([pc |-> "walk", todo |-> Tail(w.todo), out |-> out])
    BY <2>1, <2>2, <2>4, RestWalked
  <2> DEFINE new == [pc |-> "walk", todo |-> Tail(w.todo), out |-> out]
  <2>6. task'[t] = new /\ new.pc = "walk"
    BY <1>2, <2>3
  <2> HIDE DEF new
  <2> QED BY <2>5, <2>6 DEF Sought, new
<1>12. CASE WalkEnds(t)
  <2>1. w.pc = "walk" /\ w.todo = <<>> /\ Walked(w) /\ Ends(t, "ok")
    BY <1>1, <1>12 DEF WalkEnds
  <2> QED BY <1>4, <2>1, WalkedToTheEnd
<1>13. CASE LoadPanics(t)
  BY <1>3, <1>13 DEF LoadPanics
<1> QED BY <1>6, <1>8, <1>9, <1>10, <1>11, <1>12, <1>13 DEF LoadStep

LEMMA StartSought == Sought([NotStarted EXCEPT !.pc = "walk", !.todo = <<Root>>])
<1> DEFINE w == [NotStarted EXCEPT !.pc = "walk", !.todo = <<Root>>]
           todo == <<Root>>
<1>1. w.pc = "walk" /\ w.todo = todo /\ w.out = <<>>
  BY DEF NotStarted
<1>2. todo \in Seq(Paths) /\ DOMAIN todo = {1} /\ todo[1] = Root
  BY TreeAssumption DEF Paths
<1> HIDE DEF w, todo
<1>3. Ordered(todo)
  BY <1>2 DEF Ordered
<1>4. Files \ Pending(todo) = {}
  BY <1>2, TreeAssumption DEF Pending
<1>5. Agrees(<<>>, {})
  BY DEF Agrees
<1>6. Walked(w)
  <2>1. w.todo = <<Root>>
    BY <1>1 DEF todo
  <2> QED BY <1>1, <1>2, <1>3, <1>4, <1>5, <2>1 DEF Walked
<1> QED BY <1>1, <1>6 DEF Sought, w

-----------------------------------------------------------------------------
(* Steps that leave the disk alone.                                        *)

LEMMA DiskKept ==
  ASSUME UNCHANGED <<cfg, disk, environ>>
  PROVE  /\ JobsOnDisk' = JobsOnDisk
         /\ \A f, k : Defines(f, k)' <=> Defines(f, k)
         /\ \A f, k : SpecIn(f, k)' = SpecIn(f, k)
<1>1. \A c : FileAccepted(c)' <=> FileAccepted(c)
  BY DEF FileAccepted
<1>2. \A f, k : Defines(f, k)' <=> Defines(f, k)
  BY <1>1 DEF Defines
<1>3. \A f, k : SpecIn(f, k)' = SpecIn(f, k)
  BY DEF SpecIn
<1>4. JobsOnDisk' = JobsOnDisk
  BY DEF JobsOnDisk, DefinedKeys, Defines, FileAccepted
<1> QED BY <1>2, <1>3, <1>4

LEMMA ClaimsKept ==
  ASSUME UNCHANGED <<cfg, disk, environ>>
  PROVE  /\ \A w : Sought(w)' <=> Sought(w)
         /\ \A out : Complete(out)' <=> Complete(out)
         /\ \A out, k : Tells(out, k)' <=> Tells(out, k)
         /\ jobs' = jobs => \A out : Registered(out)' <=> Registered(out)
<1>1. /\ JobsOnDisk' = JobsOnDisk
      /\ \A f, k : Defines(f, k)' <=> Defines(f, k)
      /\ \A f, k : SpecIn(f, k)' = SpecIn(f, k)
  BY DiskKept
<1>2. \A S, k, f : LastFile(S, k, f)' <=> LastFile(S, k, f)
  BY <1>1 DEF LastFile
<1>3. \A out, S : Agrees(out, S)' <=> Agrees(out, S)
  BY <1>1, <1>2 DEF Agrees
<1>4. \A out, k : Tells(out, k)' <=> Tells(out, k)
  BY <1>1 DEF Tells
<1>5. \A out : Complete(out)' <=> Complete(out)
  BY <1>1, <1>4 DEF Complete
<1>6. jobs' = jobs => \A out : Registered(out)' <=> Registered(out)
  <2>1. \A j, k : InTune(j, k)' <=> InTune(j, k)
    BY <1>1 DEF InTune
  <2> QED BY <1>4, <2>1 DEF Registered
<1>7. \A w : Walked(w)' <=> Walked(w)
  BY <1>3 DEF Walked
<1>8. \A w : Statted(w)' <=> Statted(w)
  BY DEF Statted
<1>9. \A w : Sought(w)' <=> Sought(w)
  BY <1>5, <1>7, <1>8 DEF Sought
<1> QED BY <1>4, <1>5, <1>6, <1>9

(* Steps that neither load nor rebuild.                                    *)
LEMMA QuietKeeps ==
  ASSUME Tuned, UNCHANGED <<cfg, disk, environ, task, dirty, jobs, synced, loaded>>,
         Rebuilding' = Rebuilding, \A r \in Rebuilding : Cleared(r)' <=> Cleared(r)
  PROVE  Tuned'
<1>1. JobsOnDisk' = JobsOnDisk
  BY DiskKept
<1>2. \A r \in Rebuilding \ dirty : Alone(r)'
  BY ClaimsKept DEF Tuned, Alone
<1>3. \A t \in Loads \ dirty : Sought(task[t])'
  BY ClaimsKept DEF Tuned
<1> QED BY <1>1, <1>2, <1>3 DEF Tuned

-----------------------------------------------------------------------------
(* The rebuild.                                                            *)

(* The sections that a reload has left, after the one it is in.            *)
LEMMA ReloadPlan ==
  ASSUME NEW n \in Nat, NEW p \in HandlerPlans("reload", n)
  PROVE  \/ Head(p) = "notify" /\ Tail(p) # <<>> /\ Head(Tail(p)) = "clear"
         \/ Head(p) = "clear" /\ Tail(p) = Pairs(n)
         \/ Head(p) = "remove_job" /\ n # 0 /\ Tail(p) # <<>> /\ Head(Tail(p)) = "insert"
         \/ Head(p) = "insert" /\ n # 0 /\ Tail(p) = Pairs(n - 1)
<1>1. p \in BeforeClear(n) \cup (IF n = 0 THEN {} ELSE AfterClear(n))
  BY DEF HandlerPlans
<1>2. CASE p = Rebuild(n)
  BY <1>2, RebuildTails
<1>3. CASE p = <<"clear">> \o Pairs(n)
  BY <1>3, RebuildTails
<1>4. CASE n # 0 /\ p = Pairs(n)
  BY <1>4, PairsTails
<1>5. CASE n # 0 /\ p = Half(n)
  BY <1>5, PairsTails
<1> QED BY <1>1, <1>2, <1>3, <1>4, <1>5 DEF BeforeClear, AfterClear

LEMMA PairsHead ==
  ASSUME NEW n \in Nat
  PROVE  /\ Pairs(n) = <<>> <=> n = 0
         /\ n # 0 => Head(Pairs(n)) = "remove_job"
<1>1. n = 0 => Pairs(n) = <<>>
  BY DEF Pairs
<1> QED BY <1>1, PairsTails

(* A handler that rebuilds does nothing else, and no other thread touches  *)
(* the registry.                                                           *)
LEMMA ReloadSection ==
  ASSUME IInv, NEW r \in Rebuilding
  PROVE  LET t == Handler(r)
             n == Len(loaded[r])
         IN  /\ n \in Nat /\ t \in Threads /\ plan[t] # <<>> /\ r \in Reqs
             /\ plan[t] \in HandlerPlans("reload", n)
             /\ Section(t) \in {"notify", "clear", "remove_job", "insert"}
<1> DEFINE t == Handler(r)
           n == Len(loaded[r])
<1>1. r \in Reqs /\ Kind(r) = "reload" /\ stage[r] = "sections"
  BY DEF Rebuilding
<1>2. Stocked /\ Shaped
  BY Assembled
<1>3. n \in Nat
  BY <1>1, <1>2 DEF Stocked
<1>4. plan[t] \in HandlerPlans("reload", n)
  BY <1>1, <1>2 DEF Shaped
<1>5. t \in Threads
  BY <1>1, ThreadPairs
<1> HIDE DEF t, n
<1>6. plan[t] # <<>>
  BY <1>3, <1>4, HandlerTails DEF Follows
<1>7. Section(t) \in {"notify", "clear", "remove_job", "insert"}
  BY <1>3, <1>4, ReloadPlan DEF Section
<1> QED BY <1>1, <1>3, <1>4, <1>5, <1>6, <1>7 DEF t, n

LEMMA OtherPlans ==
  ASSUME NEW kind, kind # "reload", NEW n \in Nat, NEW p \in HandlerPlans(kind, n)
  PROVE  Head(p) \notin {"clear", "remove_job", "insert"}
<1>1. \/ p \in BeforeBegin \cup AfterBegin
      \/ p \in StopPlans
      \/ p \in {<<"snapshot", "lookup">>, <<"lookup">>}
      \/ p = <<"describe">>
  BY DEF HandlerPlans
<1>2. /\ Head(<<"find", "begin", "get", "snapshot", "lookup">>) = "find"
      /\ Head(<<"begin", "get", "snapshot", "lookup">>) = "begin"
      /\ Head(<<"find", "notify", "snapshot", "lookup">>) = "find"
  OBVIOUS
<1> QED BY <1>1, <1>2, ShortTails DEF BeforeBegin, AfterBegin, StopPlans

LEMMA TouchesRegistry ==
  ASSUME IInv, NEW t \in Threads, inside[t], Section(t) \in {"clear", "remove_job", "insert"}
  PROVE  t[1] \in Rebuilding /\ t = Handler(t[1])
<1> DEFINE r == t[1]
<1>1. Stocked /\ Shaped /\ plan[t] # <<>>
  BY Assembled DEF IInv, Held
<1>2. r \in Reqs /\ (t = Handler(r) \/ t = Run(r))
  BY ThreadPairs
<1>3. t[2] = "handler"
  BY <1>1, Working
<1>4. t = Handler(r) /\ stage[r] = "sections" /\ Len(loaded[r]) \in Nat
  BY <1>1, <1>3, Working
<1>5. plan[t] \in HandlerPlans(Kind(r), Len(loaded[r]))
  BY <1>1, <1>2, <1>4 DEF Shaped
<1>6. Kind(r) = "reload"
  BY <1>4, <1>5, OtherPlans DEF Section
<1> QED BY <1>2, <1>4, <1>6 DEF Rebuilding

(* One thread goes on, the others stay where they are.                     *)
LEMMA ProceedMoves ==
  ASSUME IInv, NEW t \in Threads, Proceed(t)
  PROVE  /\ \A s \in Reqs : Handler(s) # t => plan'[Handler(s)] = plan[Handler(s)]
         /\ Section(t) # "get" => plan'[t] = Tail(plan[t])
         /\ \A s \in Reqs : s # t[1] \/ t[2] # "handler" => stage'[s] = stage[s]
         /\ t[2] = "handler" => stage'[t[1]] = IF Tail(plan[t]) = <<>> THEN "done" ELSE stage[t[1]]
<1>1. DOMAIN plan = Threads /\ DOMAIN stage = Reqs
  BY Assembled DEF Shaped
<1>2. t[1] \in Reqs /\ \A s \in Reqs : Handler(s) \in Threads /\ Handler(s) # Run(t[1])
  BY ThreadPairs
<1>3. /\ \A s \in Reqs : Handler(s) # t => plan'[Handler(s)] = plan[Handler(s)]
      /\ Section(t) # "get" => plan'[t] = Tail(plan[t])
  BY <1>1, <1>2 DEF Proceed
<1>4. CASE Tail(plan[t]) = <<>> /\ t[2] = "handler"
  <2>1. stage' = [stage EXCEPT ![t[1]] = "done"]
    BY <1>4 DEF Proceed, Respond
  <2> QED BY <1>1, <1>2, <1>3, <1>4, <2>1
<1>5. CASE ~ (Tail(plan[t]) = <<>> /\ t[2] = "handler")
  <2>1. stage' = stage
    BY <1>5 DEF Proceed, answerVars
  <2> QED BY <1>3, <1>5, <2>1
<1> QED BY <1>4, <1>5

LEMMA BailMoves ==
  ASSUME IInv, NEW t \in Threads, NEW error, Bail(t, error)
  PROVE  /\ \A s \in Reqs : Handler(s) # t => plan'[Handler(s)] = plan[Handler(s)]
         /\ \A s \in Reqs : s # t[1] => stage'[s] = stage[s]
<1>1. DOMAIN plan = Threads /\ DOMAIN stage = Reqs
  BY Assembled DEF Shaped
<1>2. t[1] \in Reqs /\ \A s \in Reqs : Handler(s) \in Threads
  BY ThreadPairs
<1> QED BY <1>1, <1>2 DEF Bail, Fail, Respond

LEMMA SameRebuilds ==
  ASSUME cfg' = cfg, \A r \in Reqs : Kind(r) = "reload" =>
                       (stage'[r] = "sections" <=> stage[r] = "sections"),
         \A r \in Rebuilding : plan'[Handler(r)] = plan[Handler(r)]
  PROVE  Rebuilding' = Rebuilding /\ \A r \in Rebuilding : Cleared(r)' <=> Cleared(r)
<1>1. \A r \in Reqs : Kind(r)' = Kind(r)
  BY DEF Kind
<1>2. Rebuilding' = Rebuilding
  BY <1>1 DEF Rebuilding
<1>3. \A r \in Rebuilding : Cleared(r)' <=> Cleared(r)
  BY DEF Cleared, Section, Handler
<1> QED BY <1>2, <1>3

(* Another thread than those of the rebuilds leaves its section.           *)
LEMMA LeaveOther ==
  ASSUME IInv, Tuned, NEW t \in Threads, Leave(t), UNCHANGED loadVars,
         ~ (t[1] \in Rebuilding /\ t = Handler(t[1]))
  PROVE  Tuned'
<1> DEFINE r == t[1]
<1>1. UNCHANGED <<cfg, disk, environ, task, dirty>>
  BY DEF loadVars
<1>2. UNCHANGED <<jobs, synced, loaded>>
  <2>1. ~ Clear(t) /\ ~ RemoveJob(t) /\ ~ Insert(t)
    BY TouchesRegistry DEF Clear, RemoveJob, Insert, In
  <2> QED BY <2>1 DEF Leave, Find, Begin, Pass, Snapshot, RemoveRunning, mapVars
<1>3. r \in Reqs /\ (t = Handler(r) \/ t = Run(r)) /\ Run(r)[2] = "run"
  BY ThreadPairs
<1>4. /\ \A s \in Reqs : Handler(s) # t => plan'[Handler(s)] = plan[Handler(s)]
      /\ \A s \in Reqs : s # r \/ t[2] # "handler" => stage'[s] = stage[s]
  <2>1. CASE Proceed(t)
    BY <2>1, ProceedMoves
  <2>2. ASSUME NEW error, Bail(t, error), Section(t) \in {"find", "begin"}, inside[t]
        PROVE  /\ \A s \in Reqs : Handler(s) # t => plan'[Handler(s)] = plan[Handler(s)]
               /\ \A s \in Reqs : s # r \/ t[2] # "handler" => stage'[s] = stage[s]
    <3>1. Stocked /\ Shaped /\ plan[t] # <<>>
      BY <2>2, Assembled DEF IInv, Held
    <3>2. t[2] = "handler"
      BY <2>2, <3>1, Working
    <3> QED BY <2>2, <3>2, BailMoves
  <2> QED BY <2>1, <2>2 DEF Leave, Find, Begin, Pass, Snapshot, Clear, RemoveJob, Insert,
                            RemoveRunning, In
<1>5. ASSUME t = Handler(r), Kind(r) = "reload" PROVE FALSE
  <2>1. Shaped /\ Stocked /\ plan[t] # <<>>
    BY Assembled DEF IInv, Held, Leave, Find, Begin, Pass, Snapshot, Clear, RemoveJob, Insert,
                     RemoveRunning, In
  <2>2. stage[r] = "sections"
    BY <1>3, <1>5, <2>1 DEF Shaped
  <2> QED BY <1>3, <1>5, <2>2 DEF Rebuilding
<1>6. \A s \in Reqs : Kind(s) = "reload" => stage'[s] = stage[s]
  BY <1>3, <1>4, <1>5
<1>7. \A s \in Rebuilding : plan'[Handler(s)] = plan[Handler(s)]
  <2>1. ASSUME NEW s \in Rebuilding PROVE Handler(s) # t
    <3>1. s \in Reqs /\ Handler(s)[1] = s
      BY ThreadPairs DEF Rebuilding
    <3> QED BY <3>1
  <2> QED BY <1>4, <2>1 DEF Rebuilding
<1>8. Rebuilding' = Rebuilding /\ \A s \in Rebuilding : Cleared(s)' <=> Cleared(s)
  BY <1>1, <1>6, <1>7, SameRebuilds
<1> QED BY <1>1, <1>2, <1>8, QuietKeeps

(* A rebuild goes on to its next section, or has answered.                 *)
LEMMA RebuildMoves ==
  ASSUME IInv, NEW r \in Rebuilding, Proceed(Handler(r)), cfg' = cfg
  PROVE  LET next == Tail(plan[Handler(r)])
         IN  /\ Rebuilding' = IF next = <<>> THEN Rebuilding \ {r} ELSE Rebuilding
             /\ Section(Handler(r))' = Head(next)
             /\ \A s \in Rebuilding : s # r => (Cleared(s)' <=> Cleared(s))
<1> DEFINE t == Handler(r)
           next == Tail(plan[t])
<1>1. r \in Reqs /\ t \in Threads /\ t[1] = r /\ t[2] = "handler" /\ stage[r] = "sections"
      /\ Kind(r) = "reload"
  BY ThreadPairs DEF Rebuilding
<1>2. Section(t) # "get"
  BY ReloadSection
<1>3. /\ \A s \in Reqs : Handler(s) # t => plan'[Handler(s)] = plan[Handler(s)]
      /\ plan'[t] = next
      /\ \A s \in Reqs : s # r => stage'[s] = stage[s]
      /\ stage'[r] = IF next = <<>> THEN "done" ELSE stage[r]
  BY <1>1, <1>2, ProceedMoves
<1>4. \A s \in Reqs : Kind(s)' = Kind(s)
  BY DEF Kind
<1>5. Rebuilding' = IF next = <<>> THEN Rebuilding \ {r} ELSE Rebuilding
  <2>1. \A s \in Reqs : s \in Rebuilding' <=> s \in Rebuilding /\ (s = r => next # <<>>)
    BY <1>1, <1>3, <1>4 DEF Rebuilding
  <2>2. Rebuilding' \subseteq Reqs /\ Rebuilding \subseteq Reqs
    BY DEF Rebuilding
  <2> HIDE DEF next
  <2> QED BY <1>1, <2>1, <2>2
<1>6. Section(t)' = Head(next)
  BY <1>3 DEF Section, Handler
<1>7. ASSUME NEW s \in Rebuilding, s # r PROVE Cleared(s)' <=> Cleared(s)
  <2>1. s \in Reqs /\ Handler(s) # t
    BY <1>1, <1>7, ThreadPairs DEF Rebuilding
  <2>2. plan'[Handler(s)] = plan[Handler(s)]
    BY <1>3, <2>1
  <2> QED BY <2>2 DEF Cleared, Section, Handler
<1> QED BY <1>5, <1>6, <1>7

(* The last entry of a key, taken from the front.                          *)
LEMMA TailEntries ==
  ASSUME NEW X, NEW l \in Seq(X), l # <<>>, NEW k
  PROVE  /\ Head(l) = l[1] /\ 1 \in DOMAIN l
         /\ NoEntry(l, k) => Head(l).key # k /\ NoEntry(Tail(l), k)
         /\ \A i : LastEntry(l, k, i) /\ i # 1 =>
              LastEntry(Tail(l), k, i - 1) /\ Tail(l)[i - 1] = l[i]
         /\ LastEntry(l, k, 1) => NoEntry(Tail(l), k)
<1> DEFINE u == Tail(l)
           n == Len(l)
<1>1. /\ n \in Nat /\ n > 0 /\ Head(l) = l[1]
      /\ DOMAIN l = 1 .. n /\ DOMAIN u = 1 .. n - 1
      /\ \A i \in 1 .. n - 1 : u[i] = l[i + 1]
  OBVIOUS
<1> HIDE DEF u, n
<1>2. /\ 1 \in DOMAIN l
      /\ \A i \in DOMAIN u : i + 1 \in DOMAIN l /\ i + 1 > 1 /\ u[i] = l[i + 1]
      /\ \A i \in DOMAIN l : i # 1 => i - 1 \in DOMAIN u /\ u[i - 1] = l[i]
  BY <1>1
<1>3. NoEntry(l, k) => Head(l).key # k /\ NoEntry(u, k)
  BY <1>1, <1>2 DEF NoEntry
<1>4. ASSUME NEW i, LastEntry(l, k, i), i # 1
      PROVE  LastEntry(u, k, i - 1) /\ u[i - 1] = l[i]
  <2>1. i \in DOMAIN l /\ l[i].key = k /\ \A j \in DOMAIN l : l[j].key = k => j <= i
    BY <1>4 DEF LastEntry
  <2>2. \A j \in DOMAIN u : u[j].key = k => j <= i - 1
    <3>1. \A j \in DOMAIN u : u[j].key = k => j + 1 <= i
      BY <1>2, <2>1
    <3> QED BY <1>1, <2>1, <3>1
  <2> QED BY <1>2, <1>4, <2>1, <2>2 DEF LastEntry
<1>5. ASSUME LastEntry(l, k, 1) PROVE NoEntry(u, k)
  <2>1. ASSUME NEW j \in DOMAIN u, u[j].key = k PROVE FALSE
    <3>1. j + 1 <= 1
      BY <1>2, <1>5, <2>1 DEF LastEntry
    <3> QED BY <1>1, <3>1
  <2> QED BY <2>1 DEF NoEntry
<1> QED BY <1>1, <1>2, <1>3, <1>4, <1>5 DEF u

LEMMA NothingLeft ==
  /\ \A k : NoEntry(<<>>, k) /\ ~ Tells(<<>>, k)
  /\ \A k : Tells(<<>>, k)' <=> FALSE
<1>1. \A k : NoEntry(<<>>, k) /\ ~ Tells(<<>>, k)
  BY DEF NoEntry, Tells
<1>2. \A k : Tells(<<>>, k)' <=> FALSE
  BY DEF Tells
<1> QED BY <1>1, <1>2

(* The rebuild r has cleared the registry and has l still to register.     *)
LEMMA AloneNow ==
  ASSUME UNCHANGED <<cfg, disk, environ>>, NEW r, Rebuilding' = {r}, Cleared(r)',
         NEW j, jobs' = j, NEW l, loaded'[r] = l,
         \A k \in Keys : (NoEntry(l, k) /\ InTune(j, k)) \/ Tells(l, k)
  PROVE  Alone(r)'
<1>1. JobsOnDisk' = JobsOnDisk /\ \A k : Tells(l, k)' <=> Tells(l, k)
  BY DiskKept, ClaimsKept
<1>2. \A k : InTune(jobs, k)' <=> InTune(j, k)
  BY <1>1 DEF InTune
<1>3. Registered(l)'
  BY <1>1, <1>2 DEF Registered, NoEntry
<1>4. Registered(loaded[r])'
  BY <1>3
<1> QED BY <1>4 DEF Alone

(* A section of a rebuild: what is to be shown.                            *)
LEMMA RebuildKeeps ==
  ASSUME Tuned, UNCHANGED <<cfg, disk, environ, task, dirty>>, Rebuilding' \subseteq Rebuilding,
         synced' => jobs' = JobsOnDisk /\ \A s \in Rebuilding' : ~ Cleared(s)',
         \A s \in Rebuilding' \ dirty : Alone(s)'
  PROVE  Tuned'
<1>1. JobsOnDisk' = JobsOnDisk
  BY DiskKept
<1>2. \A u \in Loads \ dirty : Sought(task[u])'
  BY ClaimsKept DEF Tuned
<1> QED BY <1>1, <1>2 DEF Tuned

LEMMA ClearKeeps ==
  ASSUME IInv, Tuned, NEW r \in Rebuilding, Clear(Handler(r)), UNCHANGED loadVars
  PROVE  Tuned'
<1> DEFINE t == Handler(r)
           l == loaded[r]
           n == Len(l)
           next == Tail(plan[t])
<1>1. UNCHANGED <<cfg, disk, environ, task, dirty>>
  BY DEF loadVars
<1>2. /\ Section(t) = "clear" /\ Proceed(t) /\ loaded' = loaded /\ jobs' = NoJobs
      /\ synced' = (l = <<>> /\ r \notin dirty)
  BY ThreadPairs DEF Clear, In, Rebuilding
<1>3. n \in Nat /\ plan[t] \in HandlerPlans("reload", n) /\ r \in Reqs
  BY ReloadSection
<1>4. next = Pairs(n)
  <2> HIDE DEF n
  <2> QED BY <1>2, <1>3, ReloadPlan DEF Section
<1>5. (next = <<>> <=> n = 0) /\ (n # 0 => Head(next) = "remove_job")
  <2> HIDE DEF n, next
  <2> QED BY <1>3, <1>4, PairsHead
<1>6. /\ Rebuilding' = IF next = <<>> THEN Rebuilding \ {r} ELSE Rebuilding
      /\ Section(t)' = Head(next)
  BY <1>1, <1>2, RebuildMoves
<1>7. l = <<>> <=> n = 0
  BY <1>3, Assembled DEF Stocked
<1> HIDE DEF n, next
<1>8. r \notin dirty => Rebuilding = {r} /\ Complete(l)
  <2>1. ~ Cleared(r)
    BY <1>2 DEF Cleared
  <2> QED BY <2>1 DEF Tuned, Alone
<1>9. DOMAIN JobsOnDisk \subseteq Keys
  BY Assembled, OnDisk DEF Stocked, Registry
<1>10. ASSUME synced' PROVE jobs' = JobsOnDisk /\ Rebuilding' = {}
  <2>1. l = <<>> /\ r \notin dirty /\ next = <<>>
    BY <1>2, <1>5, <1>7, <1>10
  <2>2. \A k \in Keys : k \notin DOMAIN JobsOnDisk
    BY <1>8, <2>1, NothingLeft DEF Complete
  <2>3. DOMAIN JobsOnDisk = {}
    BY <1>9, <2>2
  <2>4. JobsOnDisk = NoJobs
    BY <2>3 DEF JobsOnDisk, NoJobs
  <2> QED BY <1>2, <1>6, <1>8, <2>1, <2>4
<1>11. ASSUME NEW s \in Rebuilding' \ dirty PROVE Alone(s)'
  <2>1. s \in Rebuilding \ dirty
    BY <1>6
  <2>2. Rebuilding = {s} /\ s = r
    BY <2>1 DEF Tuned, Alone
  <2>3. next # <<>> /\ Rebuilding' = {r}
    BY <1>6, <2>2
  <2>4. Cleared(r)'
    BY <1>5, <1>6, <2>3 DEF Cleared, Handler
  <2>5. \A k \in Keys : (NoEntry(l, k) /\ InTune(NoJobs, k)) \/ Tells(l, k)
    BY <1>8, <2>1, <2>2 DEF Complete, InTune, NoJobs
  <2>6. loaded'[r] = l
    BY <1>2
  <2> HIDE DEF l
  <2> QED BY <1>1, <1>2, <2>2, <2>3, <2>4, <2>5, <2>6, AloneNow
<1> QED BY <1>1, <1>6, <1>10, <1>11, RebuildKeeps

(* Nothing is registered or forgotten before the registry is cleared.      *)
LEMMA NotifyKeeps ==
  ASSUME IInv, Tuned, NEW r \in Rebuilding, Pass(Handler(r)), UNCHANGED loadVars
  PROVE  Tuned'
<1> DEFINE t == Handler(r)
           n == Len(loaded[r])
           next == Tail(plan[t])
<1>1. UNCHANGED <<cfg, disk, environ, task, dirty, jobs, synced, loaded>>
  BY DEF loadVars, Pass, mapVars
<1>2. Section(t) \in {"get", "notify", "record", "describe", "lookup"} /\ Proceed(t)
  BY DEF Pass, Reading
<1>3. /\ n \in Nat /\ plan[t] \in HandlerPlans("reload", n)
      /\ Section(t) \in {"notify", "clear", "remove_job", "insert"}
  BY ReloadSection
<1>4. Section(t) = "notify"
  BY <1>2, <1>3
<1>5. next # <<>> /\ Head(next) = "clear"
  <2> HIDE DEF n
  <2> QED BY <1>3, <1>4, ReloadPlan DEF Section
<1>6. /\ Rebuilding' = IF next = <<>> THEN Rebuilding \ {r} ELSE Rebuilding
      /\ Section(t)' = Head(next)
      /\ \A s \in Rebuilding : s # r => (Cleared(s)' <=> Cleared(s))
  BY <1>1, <1>2, RebuildMoves
<1> HIDE DEF n, next
<1>7. ~ Cleared(r) /\ ~ Cleared(r)'
  BY <1>4, <1>5, <1>6 DEF Cleared, Handler
<1>8. Rebuilding' = Rebuilding /\ \A s \in Rebuilding : Cleared(s)' <=> Cleared(s)
  BY <1>5, <1>6, <1>7
<1> QED BY <1>1, <1>8, QuietKeeps

(* The job that is to be registered next is looked for first.              *)
LEMMA RemoveJobKeeps ==
  ASSUME IInv, Tuned, NEW r \in Rebuilding, RemoveJob(Handler(r)), UNCHANGED loadVars
  PROVE  Tuned'
<1> DEFINE t == Handler(r)
           l == loaded[r]
           n == Len(l)
           next == Tail(plan[t])
           k0 == Head(l).key
           j == Restrict(jobs, DOMAIN jobs \ {k0})
<1>1. UNCHANGED <<cfg, disk, environ, task, dirty>>
  BY DEF loadVars
<1>2. /\ Section(t) = "remove_job" /\ Proceed(t) /\ loaded' = loaded /\ synced' = synced
      /\ jobs' = j
  BY ThreadPairs DEF RemoveJob, In, Rebuilding
<1>3. n \in Nat /\ plan[t] \in HandlerPlans("reload", n) /\ r \in Reqs
  BY ReloadSection
<1>4. n # 0 /\ next # <<>> /\ Head(next) = "insert"
  <2> HIDE DEF n
  <2> QED BY <1>2, <1>3, ReloadPlan DEF Section
<1>5. Rebuilding' = Rebuilding /\ Section(t)' = Head(next)
  BY <1>1, <1>2, <1>4, RebuildMoves
<1>6. l \in Seq(LoadedJobs) /\ l # <<>>
  BY <1>3, <1>4, Assembled DEF Stocked
<1> HIDE DEF n, next
<1>7. Cleared(r) /\ Cleared(r)'
  BY <1>2, <1>4, <1>5 DEF Cleared, Handler
<1>8. ~ synced'
  BY <1>2, <1>7 DEF Tuned
<1>9. ASSUME NEW s \in Rebuilding' \ dirty PROVE Alone(s)'
  <2>1. s \in Rebuilding \ dirty
    BY <1>5
  <2>2. Rebuilding = {s} /\ s = r /\ Registered(l)
    BY <1>7, <2>1 DEF Tuned, Alone
  <2> HIDE DEF l
  <2>3. ASSUME NEW k \in Keys, NoEntry(l, k), InTune(jobs, k) PROVE InTune(j, k)
    <3>1. k # k0
      BY <1>6, <2>3, TailEntries
    <3>2. DOMAIN j = DOMAIN jobs \ {k0} /\ (k \in DOMAIN j => j[k] = jobs[k])
      BY DEF Restrict
    <3> QED BY <2>3, <3>1, <3>2 DEF InTune
  <2> HIDE DEF j
  <2>4. \A k \in Keys : (NoEntry(l, k) /\ InTune(j, k)) \/ Tells(l, k)
    BY <2>2, <2>3 DEF Registered
  <2>5. loaded'[r] = l
    BY <1>2 DEF l
  <2> QED BY <1>1, <1>2, <1>5, <1>7, <2>2, <2>4, <2>5, AloneNow
<1> QED BY <1>1, <1>5, <1>8, <1>9, RebuildKeeps

(* One more job is registered: what is registered, and what is still to    *)
(* be, come to the same.                                                   *)
LEMMA InsertTunes ==
  ASSUME NEW l \in Seq(LoadedJobs), l # <<>>, Registered(l), NEW k \in Keys
  PROVE  LET k0 == Head(l).key
             j == [x \in DOMAIN jobs \cup {k0} |-> IF x = k0 THEN Head(l).spec ELSE jobs[x]]
         IN  (NoEntry(Tail(l), k) /\ InTune(j, k)) \/ Tells(Tail(l), k)
<1> DEFINE k0 == Head(l).key
           j == [x \in DOMAIN jobs \cup {k0} |-> IF x = k0 THEN Head(l).spec ELSE jobs[x]]
           u == Tail(l)
<1>1. /\ DOMAIN j = DOMAIN jobs \cup {k0} /\ j[k0] = Head(l).spec
      /\ \A x \in DOMAIN jobs : x # k0 => j[x] = jobs[x]
  OBVIOUS
<1> HIDE DEF j
<1>2. CASE NoEntry(l, k) /\ InTune(jobs, k)
  <2>1. k # k0 /\ NoEntry(u, k)
    BY <1>2, TailEntries
  <2>2. InTune(j, k)
    BY <1>1, <1>2, <2>1 DEF InTune
  <2> QED BY <2>1, <2>2 DEF j
<1>3. CASE Tells(l, k)
  <2>1. PICK i \in DOMAIN l : LastEntry(l, k, i) /\ l[i].spec = JobsOnDisk[k]
    BY <1>3 DEF Tells
  <2>2. k \in DOMAIN JobsOnDisk
    BY <1>3 DEF Tells
  <2>3. CASE i = 1
    <3>1. Head(l) = l[1] /\ NoEntry(u, k)
      BY <2>1, <2>3, TailEntries
    <3>2. k = k0 /\ Head(l).spec = JobsOnDisk[k]
      BY <2>1, <2>3, <3>1 DEF LastEntry
    <3>3. InTune(j, k)
      BY <1>1, <2>2, <3>2 DEF InTune
    <3> QED BY <3>1, <3>3 DEF j
  <2>4. CASE i # 1
    <3>1. LastEntry(u, k, i - 1) /\ u[i - 1] = l[i]
      BY <2>1, <2>4, TailEntries
    <3>2. Tells(u, k)
      BY <2>1, <2>2, <3>1 DEF Tells, LastEntry
    <3> QED BY <3>2
  <2> QED BY <2>3, <2>4
<1> QED BY <1>2, <1>3 DEF Registered

LEMMA EmptyIsShort ==
  ASSUME NEW X, NEW u \in Seq(X)
  PROVE  u = <<>> <=> Len(u) = 0
OBVIOUS

LEMMA InsertKeeps ==
  ASSUME IInv, Tuned, NEW r \in Rebuilding, Insert(Handler(r)), UNCHANGED loadVars
  PROVE  Tuned'
<1> DEFINE t == Handler(r)
           l == loaded[r]
           n == Len(l)
           next == Tail(plan[t])
           k0 == Head(l).key
           j == [x \in DOMAIN jobs \cup {k0} |-> IF x = k0 THEN Head(l).spec ELSE jobs[x]]
<1>1. UNCHANGED <<cfg, disk, environ, task, dirty>>
  BY DEF loadVars
<1>2. /\ Section(t) = "insert" /\ Proceed(t) /\ loaded' = [loaded EXCEPT ![r] = Tail(l)]
      /\ synced' = (Tail(l) = <<>> /\ r \notin dirty) /\ jobs' = j
  <2>1. t[1] = r
    BY ThreadPairs DEF Rebuilding
  <2>2. Section(t) = "insert" /\ Proceed(t)
    BY DEF Insert, In
  <2>3. loaded' = [loaded EXCEPT ![r] = Tail(l)]
    BY <2>1 DEF Insert
  <2>4. synced' = (Tail(l) = <<>> /\ r \notin dirty) /\ jobs' = j
    BY <2>1 DEF Insert
  <2> QED BY <2>2, <2>3, <2>4
<1>3. n \in Nat /\ plan[t] \in HandlerPlans("reload", n) /\ r \in Reqs
  BY ReloadSection
<1>4. n # 0 /\ next = Pairs(n - 1)
  <2> HIDE DEF n
  <2> QED BY <1>2, <1>3, ReloadPlan DEF Section
<1>5. (next = <<>> <=> n = 1) /\ (n # 1 => Head(next) = "remove_job")
  <2>1. n - 1 \in Nat /\ (n - 1 = 0 <=> n = 1)
    BY <1>3, <1>4
  <2> HIDE DEF n, next
  <2> QED BY <1>4, <2>1, PairsHead
<1>6. /\ Rebuilding' = IF next = <<>> THEN Rebuilding \ {r} ELSE Rebuilding
      /\ Section(t)' = Head(next)
  BY <1>1, <1>2, RebuildMoves
<1>7. l \in Seq(LoadedJobs) /\ l # <<>> /\ (Tail(l) = <<>> <=> n = 1) /\ loaded'[r] = Tail(l)
  <2>1. loaded \in [Reqs -> Seq(LoadedJobs)]
    BY Assembled DEF Stocked
  <2>2. l \in Seq(LoadedJobs) /\ loaded'[r] = Tail(l)
    BY <1>2, <1>3, <2>1
  <2>3. l # <<>> /\ (Tail(l) = <<>> <=> n = 1)
    <3> HIDE DEF l
    <3>1. Len(l) # 0
      BY <1>4
    <3>2. l # <<>>
      BY <3>1, <2>2
    <3>3. Tail(l) = <<>> <=> Len(l) = 1
      <4> DEFINE u == Tail(l)
      <4>1. u \in Seq(LoadedJobs) /\ Len(u) = Len(l) - 1 /\ Len(l) \in Nat
        BY <3>2, <2>2
      <4> HIDE DEF u
      <4>2. u = <<>> <=> Len(u) = 0
        BY <4>1, EmptyIsShort
      <4>3. u = <<>> <=> Len(l) = 1
        BY <4>1, <4>2
      <4> QED BY <4>3 DEF u
    <3> QED BY <3>2, <3>3
  <2> QED BY <2>2, <2>3
<1>8. k0 \in Keys
  <2>1. Head(l) \in LoadedJobs
    BY <1>7
  <2> QED BY <2>1 DEF LoadedJobs
<1> HIDE DEF n, next
<1>9. Cleared(r)
  BY <1>2 DEF Cleared
<1>10. ASSUME r \notin dirty
       PROVE  /\ Rebuilding = {r}
              /\ \A k \in Keys : (NoEntry(Tail(l), k) /\ InTune(j, k)) \/ Tells(Tail(l), k)
  <2>1. Rebuilding = {r} /\ Registered(l)
    BY <1>9, <1>10 DEF Tuned, Alone
  <2> HIDE DEF l
  <2> QED BY <1>7, <2>1, InsertTunes
<1>11. DOMAIN JobsOnDisk \subseteq Keys /\ DOMAIN jobs \subseteq Keys
  BY Assembled, OnDisk DEF Stocked, Registry
<1>12. ASSUME synced' PROVE jobs' = JobsOnDisk /\ Rebuilding' = {}
  <2>1. Tail(l) = <<>> /\ r \notin dirty /\ next = <<>>
    BY <1>2, <1>5, <1>7, <1>12
  <2>2. \A k \in Keys : InTune(j, k)
    BY <1>10, <2>1, NothingLeft
  <2>3. DOMAIN j \subseteq Keys
    BY <1>8, <1>11
  <2>4. DOMAIN j = DOMAIN JobsOnDisk /\ \A k \in DOMAIN j : j[k] = JobsOnDisk[k]
    BY <1>11, <2>2, <2>3 DEF InTune
  <2>5. j = JobsOnDisk
    <3>1. j = [k \in DOMAIN j |-> j[k]] /\ JobsOnDisk = [k \in DOMAIN JobsOnDisk |-> JobsOnDisk[k]]
      BY DEF JobsOnDisk
    <3> HIDE DEF j
    <3> QED BY <2>4, <3>1
  <2> QED BY <1>2, <1>6, <1>10, <2>1, <2>5
<1>13. ASSUME NEW s \in Rebuilding' \ dirty PROVE Alone(s)'
  <2>1. s \in Rebuilding \ dirty
    BY <1>6
  <2>2. Rebuilding = {s} /\ s = r
    BY <2>1 DEF Tuned, Alone
  <2>3. next # <<>> /\ Rebuilding' = {r}
    BY <1>6, <2>2
  <2>4. Cleared(r)'
    BY <1>5, <1>6, <2>3 DEF Cleared, Handler
  <2>5. \A k \in Keys : (NoEntry(Tail(l), k) /\ InTune(j, k)) \/ Tells(Tail(l), k)
    BY <1>10, <2>1, <2>2
  <2> DEFINE u == Tail(l)
  <2>6. loaded'[r] = u
    BY <1>7
  <2> HIDE DEF u, j
  <2> QED BY <1>1, <1>2, <2>2, <2>3, <2>4, <2>5, <2>6, AloneNow DEF u
<1> QED BY <1>1, <1>6, <1>12, <1>13, RebuildKeeps

-----------------------------------------------------------------------------
(* The steps.                                                              *)

LEMMA LeaveTuned ==
  ASSUME IInv, Tuned, NEW t \in Threads, Leave(t), UNCHANGED loadVars
  PROVE  Tuned'
<1> DEFINE r == t[1]
<1>1. CASE ~ (r \in Rebuilding /\ t = Handler(r))
  BY <1>1, LeaveOther
<1>2. CASE r \in Rebuilding /\ t = Handler(r)
  <2>1. Section(t) \in {"notify", "clear", "remove_job", "insert"}
    BY <1>2, ReloadSection
  <2>2. Pass(t) \/ Clear(t) \/ RemoveJob(t) \/ Insert(t)
    BY <2>1 DEF Leave, Find, Begin, Snapshot, RemoveRunning, In
  <2> HIDE DEF r
  <2> QED BY <1>2, <2>2, NotifyKeeps, ClearKeeps, RemoveJobKeeps, InsertKeeps
<1> QED BY <1>1, <1>2

LEMMA SectionTuned ==
  ASSUME IInv, Tuned, NEW t \in Threads, SectionStep(t)
  PROVE  Tuned'
<1>1. UNCHANGED loadVars
  BY DEF SectionStep
<1>2. CASE Leave(t)
  BY <1>1, <1>2, LeaveTuned
<1>3. ASSUME UNCHANGED <<plan, mapVars, answerVars>> PROVE Tuned'
  <2>1. UNCHANGED <<cfg, disk, environ, task, dirty, jobs, synced, loaded, plan, stage>>
    BY <1>1, <1>3 DEF loadVars, mapVars, answerVars
  <2>2. Rebuilding' = Rebuilding /\ \A s \in Rebuilding : Cleared(s)' <=> Cleared(s)
    BY <2>1, SameRebuilds
  <2> QED BY <2>1, <2>2, QuietKeeps
<1>4. CASE Enter(t)
  BY <1>3, <1>4 DEF Enter
<1>5. ASSUME NEW k \in Keys, TakeState(t, k) \/ DropState(t, k) PROVE Tuned'
  BY <1>3, <1>5 DEF TakeState, DropState
<1> QED BY <1>2, <1>4, <1>5 DEF SectionStep

LEMMA DispatchTuned ==
  ASSUME IInv, Tuned, NEW t \in Threads, DispatchEnds(t)
  PROVE  Tuned'
<1>1. UNCHANGED <<cfg, disk, environ, task, dirty, jobs, synced, loaded, stage>>
  BY DEF DispatchEnds, loadVars, mapVars, answerVars
<1>2. ASSUME NEW s \in Rebuilding PROVE plan'[Handler(s)] = plan[Handler(s)]
  <2>1. Handler(s) # t /\ Handler(s) \in Threads
    BY ReloadSection DEF DispatchEnds
  <2> QED BY <2>1, Assembled DEF DispatchEnds, Shaped
<1>3. Rebuilding' = Rebuilding /\ \A s \in Rebuilding : Cleared(s)' <=> Cleared(s)
  BY <1>1, <1>2, SameRebuilds
<1> QED BY <1>1, <1>3, QuietKeeps

(* The loads go on and the rebuilds do not.                                *)
LEMMA TasksKeep ==
  ASSUME Tuned, UNCHANGED <<cfg, disk, environ, jobs, synced, loaded>>, dirty \subseteq dirty',
         Rebuilding' = Rebuilding, \A r \in Rebuilding : Cleared(r)' <=> Cleared(r),
         \A r \in Rebuilding : task'[r].pc = "ok",
         \A u \in Loads \ dirty' : Sought(task'[u])
  PROVE  Tuned'
<1>1. JobsOnDisk' = JobsOnDisk
  BY DiskKept
<1>2. \A r \in Rebuilding \ dirty : Alone(r)'
  BY ClaimsKept DEF Tuned, Alone
<1>3. \A u \in Loads \ dirty' : Sought(task[u])'
  BY ClaimsKept
<1> QED BY <1>1, <1>2, <1>3 DEF Tuned

LEMMA ArriveTuned ==
  ASSUME IInv, Tuned, NEW r \in Reqs, Arrive(r)
  PROVE  Tuned'
<1>1. UNCHANGED <<cfg, disk, environ, dirty, jobs, synced, loaded>> /\ stage[r] = "idle"
  BY DEF Arrive, mapVars
<1>2. DOMAIN stage = Reqs /\ DOMAIN plan = Threads /\ DOMAIN task = Loads /\ Loads = Reqs
  BY Assembled, ApiAssumption DEF Shaped, Stocked
<1>3. r \notin Rebuilding
  BY <1>1 DEF Rebuilding
<1>4. CASE AnswerAtOnce(r)
  <2>1. UNCHANGED <<plan, task>>
    BY <1>4 DEF AnswerAtOnce, lockVars
  <2>2. stage' = [stage EXCEPT ![r] = "done"]
    BY <1>4 DEF AnswerAtOnce, Respond, Fail
  <2>3. \A s \in Reqs : stage'[s] = "sections" <=> stage[s] = "sections"
    BY <1>1, <1>2, <2>2
  <2>4. Rebuilding' = Rebuilding /\ \A s \in Rebuilding : Cleared(s)' <=> Cleared(s)
    BY <1>1, <2>1, <2>3, SameRebuilds
  <2> QED BY <1>1, <2>1, <2>4, QuietKeeps
<1>5. CASE Kind(r) # "reload" /\ StartHandler(r)
  <2>1. task' = task /\ stage' = [stage EXCEPT ![r] = "sections"]
    BY <1>5 DEF StartHandler
  <2>2. \A s \in Reqs : Kind(s) = "reload" => (stage'[s] = "sections" <=> stage[s] = "sections")
    BY <1>1, <1>2, <1>5, <2>1
  <2>3. ASSUME NEW s \in Rebuilding PROVE plan'[Handler(s)] = plan[Handler(s)]
    <3>1. s \in Reqs /\ s # r
      BY <1>3 DEF Rebuilding
    <3>2. Handler(s) \in Threads /\ Handler(s) # Handler(r)
      BY <3>1, ThreadPairs
    <3> QED BY <1>2, <1>5, <3>2 DEF StartHandler
  <2>4. Rebuilding' = Rebuilding /\ \A s \in Rebuilding : Cleared(s)' <=> Cleared(s)
    BY <1>1, <2>2, <2>3, SameRebuilds
  <2> QED BY <1>1, <2>1, <2>4, QuietKeeps
<1>6. CASE StartReload(r)
  <2> DEFINE new == [NotStarted EXCEPT !.pc = "walk", !.todo = <<Root>>]
  <2>1. plan' = plan /\ stage' = [stage EXCEPT ![r] = "loading"] /\ task' = [task EXCEPT ![r] = new]
    BY <1>6 DEF StartReload, lockVars, SpawnLoad, Goes
  <2>2. \A s \in Reqs : stage'[s] = "sections" <=> stage[s] = "sections"
    BY <1>1, <1>2, <2>1
  <2>3. Rebuilding' = Rebuilding /\ \A s \in Rebuilding : Cleared(s)' <=> Cleared(s)
    BY <1>1, <2>1, <2>2, SameRebuilds
  <2>4. Sought(new)
    BY StartSought
  <2> HIDE DEF new
  <2>5. \A s \in Rebuilding : task'[s].pc = "ok"
    BY <1>2, <1>3, <2>1 DEF Tuned, Rebuilding
  <2>6. \A u \in Loads \ dirty : Sought(task'[u])
    BY <1>2, <2>1, <2>4 DEF Tuned
  <2> QED BY <1>1, <2>3, <2>5, <2>6, TasksKeep
<1> QED BY <1>4, <1>5, <1>6 DEF Arrive

(* A load has returned: its rebuild is the only one, or it is dirty and so *)
(* are the others.                                                         *)
LEMMA ReturnTuned ==
  ASSUME IInv, Tuned, NEW r \in Reqs, stage[r] = "loading", task[r].pc = "ok",
         stage' = [stage EXCEPT ![r] = "sections"],
         plan' = [plan EXCEPT ![Handler(r)] = Rebuild(Len(task[r].out))],
         loaded' = [loaded EXCEPT ![r] = task[r].out],
         dirty' = IF Rebuilding = {} THEN dirty ELSE dirty \cup Rebuilding \cup {r},
         UNCHANGED <<cfg, disk, environ, task, jobs, synced>>
  PROVE  Tuned'
<1> DEFINE l == task[r].out
<1>1. /\ DOMAIN stage = Reqs /\ DOMAIN plan = Threads /\ DOMAIN loaded = Reqs /\ Loads = Reqs
      /\ Kind(r) = "reload" /\ l \in Seq(LoadedJobs)
  BY Assembled, ApiAssumption DEF Shaped, Stocked
<1>2. r \notin Rebuilding
  BY DEF Rebuilding
<1>3. \A s \in Reqs : Kind(s)' = Kind(s)
  BY DEF Kind
<1>4. Rebuilding' = Rebuilding \cup {r}
  <2>1. \A s \in Reqs : s \in Rebuilding' <=> s \in Rebuilding \/ s = r
    BY <1>1, <1>3 DEF Rebuilding
  <2>2. Rebuilding' \subseteq Reqs /\ Rebuilding \subseteq Reqs
    BY DEF Rebuilding
  <2> QED BY <2>1, <2>2
<1>5. ~ Cleared(r)'
  <2>1. plan'[Handler(r)] = Rebuild(Len(l)) /\ Len(l) \in Nat
    BY <1>1, ThreadPairs
  <2>2. Section(Handler(r))' = "notify"
    <3>1. Head(Rebuild(Len(l))) = "notify"
      BY <2>1, RebuildTails
    <3> QED BY <2>1, <3>1 DEF Section, Handler
  <2> QED BY <2>2 DEF Cleared, Handler
<1>6. ASSUME NEW s \in Rebuilding PROVE Cleared(s)' <=> Cleared(s)
  <2>1. s \in Reqs /\ s # r
    BY <1>2 DEF Rebuilding
  <2>2. plan'[Handler(s)] = plan[Handler(s)]
    BY <1>1, <2>1, ThreadPairs
  <2> QED BY <2>2 DEF Cleared, Section, Handler
<1>7. synced' => jobs' = JobsOnDisk' /\ \A s \in Rebuilding' : ~ Cleared(s)'
  <2>1. JobsOnDisk' = JobsOnDisk
    BY DiskKept
  <2> QED BY <1>4, <1>5, <1>6, <2>1 DEF Tuned
<1>8. \A s \in Rebuilding' \ dirty' : Alone(s)'
  <2> SUFFICES ASSUME NEW s \in Rebuilding' \ dirty' PROVE Alone(s)'
    OBVIOUS
  <2>1. Rebuilding = {} /\ s = r /\ r \notin dirty /\ Rebuilding' = {r}
    BY <1>4
  <2>2. Complete(l)
    BY <1>1, <2>1 DEF Tuned, Sought
  <2>3. loaded'[r] = l
    BY <1>1
  <2>4. PICK m : m = l
    OBVIOUS
  <2>5. Complete(m)' /\ m = loaded'[r]
    BY <2>2, <2>3, <2>4, ClaimsKept
  <2>6. Complete(loaded[r])'
    BY <2>5
  <2> QED BY <1>5, <2>1, <2>6 DEF Alone
<1>9. \A s \in Rebuilding' : task'[s].pc = "ok"
  BY <1>4 DEF Tuned
<1>10. \A u \in Loads \ dirty' : Sought(task[u])'
  <2>1. \A u \in Loads \ dirty : Sought(task[u])'
    BY ClaimsKept DEF Tuned
  <2> QED BY <2>1
<1> QED BY <1>7, <1>8, <1>9, <1>10 DEF Tuned

LEMMA AwaitTuned ==
  ASSUME IInv, Tuned, NEW r \in Reqs, Await(r)
  PROVE  Tuned'
<1>1. stage[r] = "loading" /\ UNCHANGED <<cfg, disk, environ, task, jobs, synced>>
  BY DEF Await, LoadReturns, LoadTimesOut, Deadline, ClientLeaves, Awaiting, mapVars, loadVars
<1>2. ASSUME NEW new, stage' = [stage EXCEPT ![r] = new], new # "sections",
             UNCHANGED <<plan, loaded, dirty>>
      PROVE  Tuned'
  <2>1. \A s \in Reqs : stage'[s] = "sections" <=> stage[s] = "sections"
    BY <1>1, <1>2, Assembled DEF Shaped
  <2>2. Rebuilding' = Rebuilding /\ \A s \in Rebuilding : Cleared(s)' <=> Cleared(s)
    BY <1>1, <1>2, <2>1, SameRebuilds
  <2> QED BY <1>1, <1>2, <2>2, QuietKeeps
<1>3. ASSUME NEW error, Fail(r, error), UNCHANGED <<plan, loaded, dirty>> PROVE Tuned'
  BY <1>2, <1>3 DEF Fail, Respond
<1>4. CASE LoadReturns(r)
  <2>1. CASE /\ task[r].pc = "ok"
             /\ stage' = [stage EXCEPT ![r] = "sections"]
             /\ plan' = [plan EXCEPT ![Handler(r)] = Rebuild(Len(task[r].out))]
             /\ loaded' = [loaded EXCEPT ![r] = task[r].out]
             /\ dirty' = IF Rebuilding = {} THEN dirty ELSE dirty \cup Rebuilding \cup {r}
    BY <1>1, <2>1, ReturnTuned
  <2> QED BY <1>3, <1>4, <2>1 DEF LoadReturns
<1>5. CASE LoadTimesOut(r)
  BY <1>3, <1>5 DEF LoadTimesOut, lockVars, mapVars, loadVars
<1>6. CASE Deadline(r)
  BY <1>2, <1>6 DEF Deadline, Cut, lockVars, mapVars, loadVars
<1>7. CASE ClientLeaves(r)
  BY <1>2, <1>7 DEF ClientLeaves, lockVars, mapVars, loadVars
<1> QED BY <1>4, <1>5, <1>6, <1>7 DEF Await

(* An edit, or a change of the environment, makes every load and every     *)
(* rebuild dirty.                                                          *)
LEMMA EditTuned ==
  ASSUME IInv, Tuned, OperatorEdits \/ OperatorRotates
  PROVE  Tuned'
<1>1. /\ ~ synced' /\ UNCHANGED <<cfg, task, plan, stage>>
      /\ dirty' = dirty \cup {t \in Loads : task[t].pc # "none"}
  BY DEF OperatorEdits, Edit, OperatorRotates, Rotate, lockVars, answerVars
<1>2. \A s \in Reqs : Kind(s)' = Kind(s)
  BY <1>1 DEF Kind
<1>3. Rebuilding' = Rebuilding /\ Rebuilding \subseteq Loads
  BY <1>1, <1>2, ApiAssumption DEF Rebuilding
<1>4. Rebuilding' \ dirty' = {}
  BY <1>1, <1>3 DEF Tuned
<1>5. \A u \in Loads \ dirty' : Sought(task[u])'
  <2>1. \A w : w.pc = "none" => Sought(w)'
    BY DEF Sought
  <2>2. \A u \in Loads \ dirty' : task'[u].pc = "none"
    BY <1>1
  <2> QED BY <2>1, <2>2
<1> QED BY <1>1, <1>3, <1>4, <1>5 DEF Tuned

LEMMA LoadTuned ==
  ASSUME IInv, Tuned, LoadGoesOn
  PROVE  Tuned'
<1>1. PICK t \in Reqs : LoadStep(t) \/ LoadMisses(t)
  BY DEF LoadGoesOn
<1>2. /\ UNCHANGED <<cfg, disk, environ, jobs, synced, loaded, plan, stage>>
      /\ dirty \subseteq dirty' /\ (LoadMisses(t) => t \in dirty')
  BY <1>1 DEF LoadGoesOn, LoadStep, LoadMisses, apiVars, lockVars, mapVars, answerVars
<1>3. Stocked /\ t \in Loads
  BY <1>1, Assembled, ApiAssumption
<1>4. task[t].pc \in {"walk", "read"} /\ \E new : Goes(t, new)
  BY <1>1 DEF LoadStep, WalkDir, WalkOther, WalkFixture, StatFile, ReadFile, WalkEnds, LoadPanics,
              LoadMisses, Ends, At
<1>5. \A s \in Loads : s # t => task'[s] = task[s]
  BY <1>3, <1>4 DEF Goes, Stocked
<1>6. \A s \in Rebuilding : s \in Loads /\ s # t
  BY <1>4, ApiAssumption DEF Tuned, Rebuilding
<1>7. t \notin dirty' => Sought(task'[t])
  BY <1>1, <1>2, <1>3, LoadStepSeeks DEF Tuned
<1>8. \A u \in Loads \ dirty' : Sought(task'[u])
  BY <1>2, <1>5, <1>7 DEF Tuned
<1>9. \A s \in Rebuilding : task'[s].pc = "ok"
  BY <1>5, <1>6 DEF Tuned
<1>10. Rebuilding' = Rebuilding /\ \A s \in Rebuilding : Cleared(s)' <=> Cleared(s)
  BY <1>2, SameRebuilds
<1> QED BY <1>2, <1>8, <1>9, <1>10, TasksKeep

LEMMA TunedInit == Init => Tuned
<1> SUFFICES ASSUME Init PROVE Tuned
  OBVIOUS
<1>1. Rebuilding = {}
  BY DEF Init, ApiInit, Rebuilding
<1>2. synced => jobs = JobsOnDisk
  BY DEF Init, ApiInit
<1>3. \A u \in Loads : task[u].pc = "none"
  BY DEF Init, LoadInit, NotStarted
<1>4. \A u \in Loads : Sought(task[u])
  BY <1>3 DEF Sought
<1> QED BY <1>1, <1>2, <1>4 DEF Tuned

LEMMA TunedKept == IInv /\ Tuned /\ [Next]_vars => Tuned'
<1> SUFFICES ASSUME IInv, Tuned, [Next]_vars PROVE Tuned'
  OBVIOUS
<1>1. ASSUME UNCHANGED <<lockVars, mapVars, answerVars, loadVars>> PROVE Tuned'
  <2>1. UNCHANGED <<cfg, disk, environ, task, dirty, jobs, synced, loaded, plan, stage>>
    BY <1>1 DEF loadVars, mapVars, answerVars, lockVars
  <2>2. Rebuilding' = Rebuilding /\ \A s \in Rebuilding : Cleared(s)' <=> Cleared(s)
    BY <2>1, SameRebuilds
  <2> QED BY <2>1, <2>2, QuietKeeps
<1>2. ASSUME NEW r \in Reqs, Arrive(r) \/ Await(r) PROVE Tuned'
  BY <1>2, ArriveTuned, AwaitTuned
<1>3. ASSUME NEW t \in Threads, SectionStep(t) \/ DispatchEnds(t) PROVE Tuned'
  BY <1>3, SectionTuned, DispatchTuned
<1>4. CASE (\E s \in {"TERM", "INT"} : Signal(s)) \/ Drained \/ Exit
  BY <1>1, <1>4 DEF Signal, Drained, Exit
<1>5. CASE OperatorEdits \/ OperatorRotates
  BY <1>5, EditTuned
<1>6. CASE LoadGoesOn
  BY <1>6, LoadTuned
<1>7. CASE JobFires
  BY <1>1, <1>7 DEF JobFires, apiVars
<1>8. CASE UNCHANGED vars
  BY <1>1, <1>8 DEF vars, apiVars
<1> QED BY <1>2, <1>3, <1>4, <1>5, <1>6, <1>7, <1>8 DEF Next, ApiStep

(* A finished reload that nothing disturbed (no edit, no change of the     *)
(* environment, no lost entry, no other rebuild) leaves in the registry    *)
(* what the directory says, for any tree of directories and files, any     *)
(* contents and any number of requests: the walk of load_all_bounded in    *)
(* sorted order, the register of reload_from per job and its overwriting   *)
(* of a key come to the last file by path, and a file with a fault in it   *)
(* leaves nothing.                                                         *)
THEOREM ReloadMatchesDisk == Spec => []RegistryMatchesDisk
<1>1. Spec => []IInv
  BY Invariant
<1>2. Tuned => RegistryMatchesDisk
  BY DEF Tuned, RegistryMatchesDisk
<1>3. Init /\ [][Next]_vars /\ []IInv => []Tuned
  BY TunedInit, TunedKept, PTL
<1> QED BY <1>1, <1>2, <1>3, PTL DEF Spec
=============================================================================
