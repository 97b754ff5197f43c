------------------------------- MODULE Loader --------------------------------
(***************************************************************************)
(* load_all_bounded of src/src/dsl/loader.rs: a blocking task walks the    *)
(* DSL directory, entry by entry and in sorted order, while an operator    *)
(* may be editing it and the environment may change.  Whoever started the  *)
(* task may have given up waiting; the task does not know and goes on.     *)
(***************************************************************************)
EXTENDS JobFile, SequencesExt

CONSTANTS
  Loads,        \* the calls of load_all_bounded
  Root, Dirs,   \* the directories, Root among them
  Files,        \* the paths of files, present or not
  Children,     \* for every directory the entries it can hold
  Rank,         \* the place of every path in the order of paths.sort()
  Yaml,         \* the files that is_yaml takes
  Fixtures,     \* the files that dev_fixture_pattern matches
  Group,        \* group_from_path: two files may share a group
  JobNames,     \* the names of jobs
  Configs       \* the configurations to start with

Paths == Dirs \cup Files

(* A path and everything below it: what is in every set that has the path  *)
(* and the entries of all of its directories.                              *)
Below(p) ==
  {x \in Paths : \A S \in SUBSET Paths :
     p \in S /\ (\A d \in S \cap Dirs : Children[d] \subseteq S) => x \in S}

ASSUME TreeAssumption ==
  /\ IsFiniteSet(Paths) /\ Dirs \cap Files = {}
  /\ Root \in Dirs
  /\ Yaml \subseteq Files /\ Fixtures \subseteq Files
  /\ \A d \in Dirs : Children[d] \subseteq Paths \ {Root}
  /\ Files \subseteq Below(Root)

(* Path::cmp compares component by component: of two entries the first one *)
(* comes with all that is below it before the other.                       *)
ASSUME OrderAssumption ==
  /\ Rank \in [Paths -> Nat]
  /\ \A p, q \in Paths : Rank[p] = Rank[q] => p = q
  /\ \A d \in Dirs : \A p, q \in Children[d] : Rank[p] < Rank[q] =>
       \A x \in Below(p), y \in Below(q) : Rank[x] < Rank[y]

(* What a file holds: nothing that parses as job definitions, something    *)
(* larger than max_dsl_file_bytes, or jobs, in the order of their names,   *)
(* which are the keys of a BTreeMap.                                       *)
Absent    == [kind |-> "absent", jobs |-> <<>>]
Malformed == [kind |-> "malformed", jobs |-> <<>>]
Holding(kind, jobs) == [kind |-> kind, jobs |-> jobs]

FileContents ==
  {c \in [kind : {"absent", "malformed", "big", "jobs"},
          jobs : Seq([name : JobNames, raw : RawJobs])] :
     \A i, j \in DOMAIN c.jobs : c.jobs[i].name = c.jobs[j].name => i = j}

ASSUME ContentAssumption ==
  \A c \in Configs : c.disk \in [Files -> FileContents] /\ c.env \in [EnvNames -> VarStates]

(* JobKey: the group and the name.                                         *)
Keys == {<<Group[f], n>> : f \in Files, n \in JobNames}

VARIABLES
  cfg,      \* the configuration; never changes
  disk,     \* what every file holds
  edits,    \* the edits made so far
  environ,  \* the environment of the process
  rotated,  \* how often each variable of it has changed
  task,     \* the blocking tasks
  dirty     \* history: the loads that something disturbed: an edit, a change
            \* of the environment, a lost entry, another rebuild

loadVars == <<cfg, disk, edits, environ, rotated, task, dirty>>

NotStarted == [pc |-> "none", todo |-> <<>>, out |-> <<>>]

LoadInit ==
  /\ cfg \in Configs
  /\ disk = cfg.disk
  /\ edits = 0
  /\ environ = cfg.env
  /\ rotated = [v \in EnvNames |-> 0]
  /\ task = [t \in Loads |-> NotStarted]
  /\ dirty = {}

-----------------------------------------------------------------------------

(* The jobs of one file, or nothing at all if one of them is rejected.     *)
FileAccepted(content) ==
  /\ content.kind = "jobs"
  /\ \A i \in DOMAIN content.jobs : Accepted(content.jobs[i].raw, cfg, environ)

(* Mutant: a rejected job is left out of its file.                         *)
LoadedLenient(f, content) ==
  LET good == SelectSeq(content.jobs, LAMBDA j : Accepted(j.raw, cfg, environ))
  IN  [i \in DOMAIN good |->
         [key |-> <<Group[f], good[i].name>>, spec |-> JobSpec(good[i].raw)]]

Loaded(f, content) ==
  IF FileAccepted(content)
  THEN [i \in DOMAIN content.jobs |->
          [key |-> <<Group[f], content.jobs[i].name>>, spec |-> JobSpec(content.jobs[i].raw)]]
  ELSE <<>>

(* read_dir and sort: what is there when the directory is entered.         *)
Present(d) == {e \in Children[d] : e \in Dirs \/ disk[e].kind # "absent"}

Sorted(S) ==
  LET n == Cardinality(S)
  IN  CHOOSE s \in [1 .. n -> S] : \A i, j \in 1 .. n : i < j => Rank[s[i]] < Rank[s[j]]

Entries(d) == Sorted(Present(d))

At(t, e) == task[t].pc = "walk" /\ task[t].todo # <<>> /\ Head(task[t].todo) = e

Refused(f) == f \in Fixtures /\ cfg.fixtures = "Refuse"

Goes(t, changes) == task' = [task EXCEPT ![t] = changes]

Ends(t, pc) == Goes(t, [task[t] EXCEPT !.pc = pc, !.todo = <<>>])

(* spawn_blocking.                                                         *)
SpawnLoad(t) == Goes(t, [NotStarted EXCEPT !.pc = "walk", !.todo = <<Root>>])

(* walk enters a directory.  A root that does not exist is no jobs, a      *)
(* directory that cannot be read is the error of the whole load.           *)
NoRoot(d) == d = Root /\ cfg.root = "absent"

WalkDir(t) == \E d \in Dirs :
  /\ At(t, d)
  /\ \/ NoRoot(d) /\ Ends(t, "ok")
     \/ d = cfg.unreadable /\ ~ NoRoot(d) /\ Ends(t, "io")
     \/ /\ d # cfg.unreadable /\ ~ NoRoot(d)
        /\ Goes(t, [task[t] EXCEPT !.todo = Entries(d) \o Tail(@)])

(* A file that is no YAML is passed over.                                  *)
WalkOther(t) == \E f \in Files \ Yaml :
  /\ At(t, f)
  /\ Goes(t, [task[t] EXCEPT !.todo = Tail(@)])

(* A fixture is refused before it is read, and with it the load.           *)
WalkFixture(t) == \E f \in Yaml :
  At(t, f) /\ Refused(f) /\ Ends(t, "refused")

(* metadata: gone or too large, and the file is skipped.                   *)
StatFile(t) == \E f \in Yaml :
  /\ At(t, f)
  /\ ~ Refused(f)
  /\ IF disk[f].kind \in {"absent", "big"}
     THEN Goes(t, [task[t] EXCEPT !.todo = Tail(@)])
     ELSE Goes(t, [task[t] EXCEPT !.pc = "read"])

(* read_to_string, from_str and into_spec: a file that cannot be read, be  *)
(* parsed or be accepted is skipped.  Its size is not looked at again, and *)
(* a file on a disk that does not answer is never read.                    *)
ReadFile(t) ==
  /\ task[t].pc = "read"
  /\ LET f == Head(task[t].todo)
         c == IF disk[f].kind = "big" THEN [disk[f] EXCEPT !.kind = "jobs"] ELSE disk[f]
     IN  /\ f # cfg.hang
         /\ Goes(t, [pc |-> "walk", todo |-> Tail(task[t].todo),
                     out |-> task[t].out \o Loaded(f, c)])

WalkEnds(t) == task[t].pc = "walk" /\ task[t].todo = <<>> /\ Ends(t, "ok")

(* The parser panics.                                                      *)
LoadPanics(t) ==
  /\ cfg.panics
  /\ task[t].pc = "read"
  /\ Ends(t, "panic")

LoadStep(t) ==
  /\ \/ WalkDir(t) \/ WalkOther(t) \/ WalkFixture(t) \/ StatFile(t)
     \/ ReadFile(t) \/ WalkEnds(t) \/ LoadPanics(t)
  /\ UNCHANGED <<cfg, disk, edits, environ, rotated, dirty>>

(* An entry that read_dir itself fails to give is passed over: filter_map  *)
(* drops the error, and the load comes to an end without a part of the     *)
(* tree.                                                                   *)
LoadMisses(t) == \E d \in Dirs : \E lost \in SUBSET (Present(d) \cap cfg.flaky) \ {{}} :
  /\ At(t, d)
  /\ d # cfg.unreadable /\ ~ NoRoot(d)
  /\ Goes(t, [task[t] EXCEPT !.todo = Sorted(Present(d) \ lost) \o Tail(@)])
  /\ dirty' = dirty \cup {t}
  /\ UNCHANGED <<cfg, disk, edits, environ, rotated>>

Walking(t) == task[t].pc \in {"walk", "read"}

(* The operator writes, replaces or deletes a file.                        *)
Edit(f, content) ==
  /\ edits < cfg.edits
  /\ disk[f] # content
  /\ disk' = [disk EXCEPT ![f] = content]
  /\ edits' = edits + 1
  /\ dirty' = dirty \cup {t \in Loads : task[t].pc # "none"}
  /\ UNCHANGED <<cfg, environ, rotated, task>>

(* A secret is rotated, or lost: the process sees another value of the     *)
(* variable from now on.                                                   *)
Rotate(v, s) ==
  /\ rotated[v] < cfg.rotations[v]
  /\ environ[v] # s
  /\ environ' = [environ EXCEPT ![v] = s]
  /\ rotated' = [rotated EXCEPT ![v] = @ + 1]
  /\ dirty' = dirty \cup {t \in Loads : task[t].pc # "none"}
  /\ UNCHANGED <<cfg, disk, edits, task>>

-----------------------------------------------------------------------------
(* The reference: what the tree says, without a walk.                      *)

Defines(f, k) ==
  /\ f \in Yaml
  /\ cfg.root # "absent"
  /\ FileAccepted(disk[f])
  /\ Group[f] = k[1]
  /\ \E i \in DOMAIN disk[f].jobs : disk[f].jobs[i].name = k[2]

DefinedKeys ==
  UNION {{<<Group[f], disk[f].jobs[i].name>> : i \in DOMAIN disk[f].jobs} : f \in Files}

(* The registry a load of the tree stands for: a key has the job that the  *)
(* last of the files defining it, by their paths, defines.                 *)
JobsOnDisk ==
  [k \in {x \in DefinedKeys : \E f \in Files : Defines(f, x)} |->
     LET f == CHOOSE g \in Files :
                Defines(g, k) /\ \A h \in Files : Defines(h, k) => Rank[h] <= Rank[g]
         i == CHOOSE j \in DOMAIN disk[f].jobs : disk[f].jobs[j].name = k[2]
     IN  JobSpec(disk[f].jobs[i].raw)]
=============================================================================
