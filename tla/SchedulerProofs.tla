--------------------------- MODULE SchedulerProofs ---------------------------
(***************************************************************************)
(* Proofs about Scheduler for any set of keys, any number of loads,        *)
(* requests and stops, and any contents of the DSL directory.              *)
(*                                                                         *)
(* The inductive invariant has three parts besides TypeOK:                 *)
(*  Wired   - a live actor, and an entry of the jobs map, refers to a spec *)
(*            its load really returned and has got to (Spawned), and such  *)
(*            a spec never changes;                                        *)
(*  Guarded - the running map and the actors inside a run agree in both    *)
(*            directions, which is why a check of the map keeps runs       *)
(*            apart;                                                       *)
(*  Handled - what a run has got hold of by each of its steps: its own     *)
(*            Notify, then a recorded result.                              *)
(* Kept, proved from them at the end, says where a job is while loads      *)
(* overlap: in the map, or ahead of one of them.                           *)
(***************************************************************************)
EXTENDS Scheduler, TLAPS

Valid(r) ==
  /\ r \in Regs
  /\ loadPc[r[1]] # "idle"
  /\ r[2] \in DOMAIN loadSpecs[r[1]]

Spawned(r) ==
  \/ r[2] < loadPos[r[1]]
  \/ r[2] = loadPos[r[1]] /\ loadPc[r[1]] \in {"insert", "done"}

Wired ==
  /\ \A n \in Loads :
       loadPc[n] \in {"idle", "loaded", "signalled"} => loadPos[n] = 1
  /\ \A k \in Keys, q \in Regs : jobs[k] = q => Valid(q)
  /\ \A q \in Regs : pc[q] # "unborn" => Valid(q)
  /\ \A q \in Regs : pc[q] # "unborn" => Spawned(q)
  /\ \A e \in Execs, q \in Regs : reg[e] = q => Valid(q)
  /\ \A e \in Execs : pc[e] # "idle" => reg[e] \in Regs

Guarded ==
  /\ \A a \in Actors : InRun(a) => running[KeyOf(a)] = a
  /\ NoLeakedEntry

Handled ==
  \A a \in Actors :
    /\ pc[a] = "dispatch" => cancel[a] = a
    /\ pc[a] = "remove" => last[RegOf(a)] # "none"

IInv == TypeOK /\ Wired /\ Guarded /\ Handled

-----------------------------------------------------------------------------
(* Facts about the identities and the specs they stand for.                *)

(* A registration is a pair of a load and a position in it.                *)
LEMMA RegShape ==
  /\ \A r \in Regs : /\ r[1] \in Loads
                     /\ r[2] \in 1 .. MaxJobs
                     /\ r = <<r[1], r[2]>>
  /\ \A n \in Loads, i \in 1 .. MaxJobs :
       <<n, i>> \in Regs /\ <<n, i>>[1] = n /\ <<n, i>>[2] = i
BY DEF Regs

(* A load that is registering got a real directory, and a non-empty one    *)
(* starts at position 1.                                                   *)
LEMMA DiskShape ==
  ASSUME NEW d \in Disks \cup {<<>>}
  PROVE  /\ d \in Seq(Specs)
         /\ DOMAIN d = 1 .. Len(d)
         /\ Len(d) \in Nat /\ Len(d) <= MaxJobs
         /\ d # <<>> => 1 \in DOMAIN d
<1>1. d \in Seq(Specs)
  <2>1. CASE d \in Disks
    BY <2>1, DisksAssumption
  <2>2. CASE d = <<>>
    BY <2>2
  <2> QED BY <2>1, <2>2
<1>2. Len(d) <= MaxJobs
  BY DisksAssumption
<1>3. DOMAIN d = 1 .. Len(d) /\ Len(d) \in Nat
  BY <1>1
<1>4. ASSUME d # <<>> PROVE 1 \in DOMAIN d
  BY <1>1, <1>3, <1>4
<1> QED BY <1>1, <1>2, <1>3, <1>4

(* A live registration stands for a spec of the DSL.                       *)
LEMMA SpecTyped ==
  ASSUME TypeOK, NEW r, Valid(r)
  PROVE  SpecOf(r) \in Specs /\ SpecOf(r).key \in Keys
<1>1. loadSpecs[r[1]] \in Disks \cup {<<>>}
  BY RegShape DEF Valid, TypeOK, LoadTypeOK
<1>2. SpecOf(r) \in Specs
  BY <1>1, DiskShape DEF Valid, SpecOf
<1> QED BY <1>2 DEF Specs

(* The spec a load is about to register is one it returned.                *)
LEMMA LoadedIsValid ==
  ASSUME TypeOK, NEW n \in Loads, loadPc[n] \in {"register", "insert"}
  PROVE  /\ Valid(<<n, loadPos[n]>>)
         /\ <<n, loadPos[n]>> \in Regs
         /\ SpecOf(<<n, loadPos[n]>>).key \in Keys
<1>1. loadPos[n] \in DOMAIN loadSpecs[n] /\ loadSpecs[n] \in Disks \cup {<<>>}
  BY DEF TypeOK, LoadTypeOK
<1>2. loadPos[n] \in 1 .. MaxJobs
  BY <1>1, DiskShape, DisksAssumption
<1>3. Valid(<<n, loadPos[n]>>)
  BY <1>1, <1>2, RegShape DEF Valid
<1> QED BY <1>3, SpecTyped DEF Valid

(* An actor past its first step has a registration and a job.              *)
LEMMA ActorTyped ==
  ASSUME TypeOK, Wired, NEW a \in Actors, pc[a] \notin {"unborn", "idle"}
  PROVE  /\ Valid(RegOf(a))
         /\ RegOf(a) \in Regs
         /\ KeyOf(a) \in Keys
<1>1. Valid(RegOf(a))
  <2>1. CASE a \in Regs
    BY <2>1 DEF Wired, RegOf
  <2>2. CASE a \in Execs /\ a \notin Regs
    BY <2>2 DEF Wired, RegOf
  <2> QED BY <2>1, <2>2 DEF Actors
<1>2. KeyOf(a) \in Keys
  BY <1>1, SpecTyped DEF KeyOf
<1> QED BY <1>1, <1>2 DEF Valid

-----------------------------------------------------------------------------
(* The invariant is preserved, part by part.                               *)

(* Every step keeps the types of the registry.                             *)
LEMMA LoadTypeStep ==
  ASSUME TypeOK, Wired, [Next]_vars
  PROVE  LoadTypeOK'
<1> USE DEF TypeOK, LoadTypeOK, LoadSteps, loadVars
<1>1. ASSUME NEW n \in Loads, NEW d \in Disks, LoadDsl(n, d)
      PROVE  LoadTypeOK'
  <2>1. loadPos[n] = 1 /\ (d # <<>> => 1 \in DOMAIN d)
    BY <1>1, DiskShape DEF LoadDsl, Wired
  <2> QED BY <1>1, <2>1 DEF LoadDsl
<1>2. ASSUME NEW n \in Loads, ReloadSignal(n)
      PROVE  LoadTypeOK'
  BY <1>2 DEF ReloadSignal
<1>3. ASSUME NEW n \in Loads, ReloadClear(n)
      PROVE  LoadTypeOK'
  <2>1. loadPos[n] = 1 /\ (loadSpecs[n] # <<>> => 1 \in DOMAIN loadSpecs[n])
    BY <1>3, DiskShape DEF ReloadClear, Wired
  <2>2. \A m \in Loads : loadPc'[m] \in {"register", "insert"} =>
                            loadPos'[m] \in DOMAIN loadSpecs'[m]
    BY <1>3, <2>1 DEF ReloadClear
  <2> QED BY <1>3, <2>2 DEF ReloadClear
<1>4. ASSUME NEW n \in Loads, RegisterRemove(n)
      PROVE  LoadTypeOK'
  BY <1>4 DEF RegisterRemove
<1>5. ASSUME NEW n \in Loads, RegisterInsert(n)
      PROVE  LoadTypeOK'
  <2>1. <<n, loadPos[n]>> \in Regs
    BY <1>5, LoadedIsValid DEF RegisterInsert
  <2>2. /\ loadPos[n] \in Nat
        /\ loadSpecs[n] \in Disks \cup {<<>>}
    OBVIOUS
  <2>3. loadPos[n] < Len(loadSpecs[n]) => loadPos[n] + 1 \in DOMAIN loadSpecs[n]
    BY <2>2, DiskShape
  <2>4. jobs' \in [Keys -> Regs \cup {NoReg}] /\ UNCHANGED loadSpecs
    BY <1>5, <2>1 DEF RegisterInsert, runVars
  <2>5. CASE loadPos[n] < Len(loadSpecs[n])
    <3>1. /\ loadPc' = [loadPc EXCEPT ![n] = "register"]
          /\ loadPos' = [loadPos EXCEPT ![n] = @ + 1]
      BY <1>5, <2>5 DEF RegisterInsert
    <3>2. \A m \in Loads : loadPc'[m] \in {"register", "insert"} =>
                              loadPos'[m] \in DOMAIN loadSpecs[m]
      BY <2>3, <2>5, <3>1
    <3> QED BY <2>2, <2>4, <3>1, <3>2
  <2>6. CASE ~ (loadPos[n] < Len(loadSpecs[n]))
    BY <1>5, <2>4, <2>6 DEF RegisterInsert
  <2> QED BY <2>5, <2>6
<1>6. ASSUME NEW r \in Regs, Loop(r)
      PROVE  LoadTypeOK'
  BY <1>6 DEF Loop, LoopSleep, LoopExhausted, LoopFire, LoopBusy, LoopOutside,
              LoopRecordSkip
<1>7. ASSUME NEW e \in Execs, Exec(e)
      PROVE  LoadTypeOK'
  BY <1>7 DEF Exec, ExecLookup, ExecBegin, ExecBusy
<1>8. ASSUME NEW a \in Actors, Run(a)
      PROVE  LoadTypeOK'
  BY <1>8 DEF Run, GetCancel, RecordOutcome, RemoveRunning,
              DispatchListen, DispatchResume
<1>9. ASSUME NEW t \in Stoppers, Stop(t)
      PROVE  LoadTypeOK'
  BY <1>9 DEF Stop, StopCheck, StopSignal
<1>10. CASE UNCHANGED vars
  BY <1>10 DEF vars
<1> QED
  BY <1>1, <1>2, <1>3, <1>4, <1>5, <1>6, <1>7, <1>8, <1>9, <1>10 DEF Next, Load

(* Every step keeps the types of the running map and of the actors;        *)
(* GetCancel needs Wired for the key it looks up in the running map.       *)
LEMMA RunTypeStep ==
  ASSUME TypeOK, Wired, [Next]_vars
  PROVE  RunTypeOK'
<1> USE DEF TypeOK, RunTypeOK, RunSteps, LoopSteps, ExecSteps, runVars, Actors
<1>1. ASSUME NEW n \in Loads, NEW d \in Disks, LoadDsl(n, d)
      PROVE  RunTypeOK'
  BY <1>1 DEF LoadDsl
<1>2. ASSUME NEW n \in Loads, ReloadSignal(n)
      PROVE  RunTypeOK'
  BY <1>2 DEF ReloadSignal, NotifyWaiters
<1>3. ASSUME NEW n \in Loads, ReloadClear(n)
      PROVE  RunTypeOK'
  BY <1>3 DEF ReloadClear
<1>4. ASSUME NEW n \in Loads, RegisterRemove(n)
      PROVE  RunTypeOK'
  <2>1. <<n, loadPos[n]>> \in Regs \ Execs
    BY <1>4, LoadedIsValid, IdentityAssumption DEF RegisterRemove
  <2> QED BY <1>4, <2>1 DEF RegisterRemove, SpawnLoop
<1>5. ASSUME NEW n \in Loads, RegisterInsert(n)
      PROVE  RunTypeOK'
  BY <1>5 DEF RegisterInsert
<1>6. ASSUME NEW r \in Regs, Loop(r)
      PROVE  RunTypeOK'
  <2>1. r \notin Execs
    BY IdentityAssumption
  <2>2. CASE LoopSleep(r) \/ LoopExhausted(r) \/ LoopBusy(r) \/ LoopOutside(r)
    BY <2>1, <2>2 DEF LoopSleep, LoopExhausted, LoopBusy, LoopOutside
  <2>3. CASE LoopFire(r)
    BY <2>1, <2>3 DEF LoopFire, BeginRunning
  <2>4. CASE LoopRecordSkip(r)
    BY <2>1, <2>4 DEF LoopRecordSkip
  <2> QED BY <1>6, <2>2, <2>3, <2>4 DEF Loop
<1>7. ASSUME NEW e \in Execs, Exec(e)
      PROVE  RunTypeOK'
  <2>1. e \notin Regs
    BY IdentityAssumption
  <2>2. ASSUME NEW k \in Keys, ExecLookup(e, k)
        PROVE  RunTypeOK'
    BY <2>1, <2>2 DEF ExecLookup, LoadTypeOK
  <2>3. CASE ExecBegin(e)
    BY <2>1, <2>3 DEF ExecBegin, BeginRunning
  <2>4. CASE ExecBusy(e)
    BY <2>1, <2>4 DEF ExecBusy
  <2> QED BY <1>7, <2>2, <2>3, <2>4 DEF Exec
<1>8. ASSUME NEW a \in Actors, Run(a)
      PROVE  RunTypeOK'
  <2>1. CASE GetCancel(a)
    BY <2>1, ActorTyped DEF GetCancel
  <2>2. ASSUME NEW o \in Outcomes, RecordOutcome(a, o)
        PROVE  RunTypeOK'
    BY <2>2, ActorTyped DEF RecordOutcome
  <2>3. CASE RemoveRunning(a)
    BY <2>3, IdentityAssumption DEF RemoveRunning
  <2>4. CASE DispatchListen(a) \/ DispatchResume(a)
    BY <2>4 DEF DispatchListen, DispatchResume
  <2> QED BY <1>8, <2>1, <2>2, <2>3, <2>4 DEF Run
<1>9. ASSUME NEW t \in Stoppers, Stop(t)
      PROVE  RunTypeOK'
  <2>1. ASSUME NEW k \in Keys, StopCheck(t, k)
        PROVE  RunTypeOK'
    BY <2>1 DEF StopCheck
  <2>2. CASE StopSignal(t)
    BY <2>2 DEF StopSignal, NotifyWaiters
  <2> QED BY <1>9, <2>1, <2>2 DEF Stop
<1>10. CASE UNCHANGED vars
  BY <1>10 DEF vars
<1> QED
  BY <1>1, <1>2, <1>3, <1>4, <1>5, <1>6, <1>7, <1>8, <1>9, <1>10 DEF Next, Load

(* register()'s first section touches one loop only.                       *)
LEMMA RemoveTouchesOne ==
  ASSUME TypeOK, NEW n \in Loads, RegisterRemove(n)
  PROVE  \A a \in Actors : a # <<n, loadPos[n]>> => pc'[a] = pc[a]
<1> DEFINE r == <<n, loadPos[n]>>
<1>1. pc' = [pc EXCEPT ![r] = IF SpecOf(r).trigger = "cron" THEN "next" ELSE @]
  BY DEF RegisterRemove, SpawnLoop
<1> HIDE DEF r
<1>2. \A a \in Actors : a # r => pc'[a] = pc[a]
  BY <1>1 DEF TypeOK, RunTypeOK
<1> QED BY <1>2 DEF r

(* Only a load changes what the loads hold.                                *)
LEMMA OthersKeepLoads ==
  ASSUME [Next]_vars
  PROVE  \/ \E n \in Loads : Load(n)
         \/ UNCHANGED <<loadPc, loadSpecs, loadPos, jobs>>
<1> USE DEF loadVars
<1>1. ASSUME NEW r \in Regs, Loop(r)
      PROVE  UNCHANGED <<loadPc, loadSpecs, loadPos, jobs>>
  BY <1>1 DEF Loop, LoopSleep, LoopExhausted, LoopFire, LoopBusy, LoopOutside,
              LoopRecordSkip
<1>2. ASSUME NEW e \in Execs, Exec(e)
      PROVE  UNCHANGED <<loadPc, loadSpecs, loadPos, jobs>>
  BY <1>2 DEF Exec, ExecLookup, ExecBegin, ExecBusy
<1>3. ASSUME NEW a \in Actors, Run(a)
      PROVE  UNCHANGED <<loadPc, loadSpecs, loadPos, jobs>>
  BY <1>3 DEF Run, GetCancel, RecordOutcome, RemoveRunning,
              DispatchListen, DispatchResume
<1>4. ASSUME NEW t \in Stoppers, Stop(t)
      PROVE  UNCHANGED <<loadPc, loadSpecs, loadPos, jobs>>
  BY <1>4 DEF Stop, StopCheck, StopSignal
<1> QED BY <1>1, <1>2, <1>3, <1>4 DEF Next, vars

(* A load that has started never starts again, so a live registration      *)
(* keeps its spec for ever: this is what makes KeyOf a name of the job.    *)
LEMMA ValidStable ==
  ASSUME TypeOK, [Next]_vars, NEW r, Valid(r)
  PROVE  Valid(r)' /\ SpecOf(r)' = SpecOf(r)
<1> USE DEF Valid, SpecOf
<1>1. r[1] \in Loads
  BY RegShape
<1>2. CASE UNCHANGED <<loadPc, loadSpecs, loadPos, jobs>>
  BY <1>2
<1>3. ASSUME NEW n \in Loads, Load(n)
      PROVE  Valid(r)' /\ SpecOf(r)' = SpecOf(r)
  <2> USE <1>1 DEF TypeOK, LoadTypeOK
  <2>1. ASSUME NEW d \in Disks, LoadDsl(n, d)
        PROVE  Valid(r)' /\ SpecOf(r)' = SpecOf(r)
    BY <2>1 DEF LoadDsl
  <2>2. CASE ReloadSignal(n)
    BY <2>2 DEF ReloadSignal
  <2>3. CASE ReloadClear(n)
    BY <2>3 DEF ReloadClear
  <2>4. CASE RegisterRemove(n)
    BY <2>4 DEF RegisterRemove
  <2>5. CASE RegisterInsert(n)
    BY <2>5 DEF RegisterInsert
  <2> QED BY <1>3, <2>1, <2>2, <2>3, <2>4, <2>5 DEF Load
<1> QED BY <1>2, <1>3, OthersKeepLoads

(* A load never goes back over a spec whose loop it has spawned.           *)
LEMMA SpawnedStable ==
  ASSUME TypeOK, Wired, [Next]_vars, NEW r \in Regs, Valid(r), Spawned(r)
  PROVE  Spawned(r)'
<1> USE DEF Valid, Spawned
<1>1. r[1] \in Loads /\ r[2] \in Nat
  BY RegShape, DisksAssumption
<1>2. CASE UNCHANGED <<loadPc, loadSpecs, loadPos, jobs>>
  BY <1>2
<1>3. ASSUME NEW n \in Loads, Load(n)
      PROVE  Spawned(r)'
  <2> USE <1>1 DEF TypeOK, LoadTypeOK
  <2>1. ASSUME NEW d \in Disks, LoadDsl(n, d)
        PROVE  Spawned(r)'
    BY <2>1 DEF LoadDsl
  <2>2. CASE ReloadSignal(n)
    BY <2>2 DEF ReloadSignal
  <2>3. CASE ReloadClear(n)
    BY <2>3 DEF ReloadClear
  <2>4. CASE RegisterRemove(n)
    BY <2>4 DEF RegisterRemove
  <2>5. CASE RegisterInsert(n)
    <3>1. CASE r[1] = n
      <4>1. /\ loadPos[n] \in Nat
            /\ \/ loadPos'[n] = loadPos[n] + 1
               \/ (loadPos'[n] = loadPos[n] /\ loadPc'[n] = "done")
        BY <2>5 DEF RegisterInsert
      <4>2. r[2] <= loadPos[n]
        BY <3>1, <4>1
      <4> QED BY <3>1, <4>1, <4>2
    <3>2. CASE r[1] # n
      BY <2>5, <3>2 DEF RegisterInsert
    <3> QED BY <3>1, <3>2
  <2> QED BY <1>3, <2>1, <2>2, <2>3, <2>4, <2>5 DEF Load
<1> QED BY <1>2, <1>3, OthersKeepLoads

(* A loop comes to life in register() only.                                *)
LEMMA Births ==
  ASSUME TypeOK, [Next]_vars, NEW q \in Regs, pc[q] = "unborn", pc'[q] # "unborn"
  PROVE  \E n \in Loads : RegisterRemove(n) /\ q = <<n, loadPos[n]>>
<1>1. ASSUME NEW n \in Loads, Load(n)
      PROVE  RegisterRemove(n) /\ q = <<n, loadPos[n]>>
  <2>1. RegisterRemove(n)
    BY <1>1 DEF Load, LoadDsl, ReloadSignal, ReloadClear, RegisterInsert, runVars
  <2>2. q = <<n, loadPos[n]>>
    BY <2>1, RemoveTouchesOne DEF Actors
  <2> QED BY <2>1, <2>2
<1>2. ASSUME NEW r \in Regs, Loop(r)
      PROVE  pc'[q] = "unborn"
  BY <1>2 DEF Loop, LoopSleep, LoopExhausted, LoopFire, LoopBusy,
     LoopOutside, LoopRecordSkip, BeginRunning, TypeOK, RunTypeOK, Actors
<1>3. ASSUME NEW e \in Execs, Exec(e)
      PROVE  pc'[q] = "unborn"
  BY <1>3, IdentityAssumption DEF Exec, ExecLookup, ExecBegin, ExecBusy,
     BeginRunning, TypeOK, RunTypeOK, Actors
<1>4. ASSUME NEW a \in Actors, Run(a)
      PROVE  pc'[q] = "unborn"
  BY <1>4 DEF Run, GetCancel, RecordOutcome, RemoveRunning,
     DispatchListen, DispatchResume, TypeOK, RunTypeOK, Actors
<1>5. ASSUME NEW t \in Stoppers, Stop(t)
      PROVE  UNCHANGED pc
  BY <1>5 DEF Stop, StopCheck, StopSignal, runVars
<1> QED BY <1>1, <1>2, <1>3, <1>4, <1>5 DEF Next, vars, runVars

(* Live actors and registered jobs refer to specs their loads returned.    *)
LEMMA WiredStep ==
  ASSUME TypeOK, Wired, [Next]_vars
  PROVE  Wired'
<1> DEFINE Pos  == \A n \in Loads :
                     loadPc[n] \in {"idle", "loaded", "signalled"} => loadPos[n] = 1
           Jobs == \A k \in Keys, q \in Regs : jobs[k] = q => Valid(q)
           Born == \A q \in Regs : pc[q] # "unborn" => Valid(q)
           Gone == \A q \in Regs : pc[q] # "unborn" => Spawned(q)
           Held == \A e \in Execs, q \in Regs : reg[e] = q => Valid(q)
           Reqs == \A e \in Execs : pc[e] # "idle" => reg[e] \in Regs
<1>0. \A q \in Regs : Valid(q) => Valid(q)'
  BY ValidStable
<1>1. Pos'
  <2>1. ASSUME NEW n \in Loads, Load(n)
        PROVE  Pos'
    BY <2>1 DEF Load, LoadDsl, ReloadSignal, ReloadClear, RegisterRemove,
                RegisterInsert, Wired, TypeOK, LoadTypeOK, LoadSteps
  <2> QED BY <2>1, OthersKeepLoads DEF Wired
<1>2. Jobs'
  <2>1. ASSUME NEW n \in Loads, Load(n)
        PROVE  \A k \in Keys, q \in Regs :
                 jobs'[k] = q => jobs[k] = q \/ Valid(q)
    <3>1. CASE RegisterInsert(n)
      <4>1. Valid(<<n, loadPos[n]>>)
        BY <3>1, LoadedIsValid DEF RegisterInsert
      <4>2. \A k \in Keys : jobs'[k] = jobs[k] \/ jobs'[k] = <<n, loadPos[n]>>
        BY <3>1 DEF RegisterInsert, TypeOK, LoadTypeOK
      <4> QED BY <4>1, <4>2
    <3>2. CASE ~ RegisterInsert(n)
      BY <2>1, <3>2, IdentityAssumption DEF Load, LoadDsl, ReloadSignal,
         ReloadClear, RegisterRemove, TypeOK, LoadTypeOK
    <3> QED BY <3>1, <3>2
  <2>2. \A k \in Keys, q \in Regs : jobs'[k] = q => jobs[k] = q \/ Valid(q)
    BY <2>1, OthersKeepLoads
  <2> QED BY <1>0, <2>2 DEF Wired
<1>3. Born' /\ Gone'
  <2> SUFFICES ASSUME NEW q \in Regs, pc'[q] # "unborn"
               PROVE  Valid(q)' /\ Spawned(q)'
    OBVIOUS
  <2>1. CASE pc[q] # "unborn"
    BY <2>1, ValidStable, SpawnedStable DEF Wired
  <2>2. CASE pc[q] = "unborn"
    <3>1. PICK n \in Loads : RegisterRemove(n) /\ q = <<n, loadPos[n]>>
      BY <2>2, Births
    <3>2. Valid(q)
      BY <3>1, LoadedIsValid DEF RegisterRemove
    <3>3. Spawned(q)'
      BY <3>1 DEF RegisterRemove, Spawned, TypeOK, LoadTypeOK
    <3> QED BY <1>0, <3>2, <3>3
  <2> QED BY <2>1, <2>2
<1>4. Held' /\ Reqs'
  <2>1. CASE UNCHANGED <<reg, pc>>
    BY <1>0, <2>1 DEF Wired
  <2>2. ASSUME NEW n \in Loads, RegisterRemove(n)
        PROVE  Held' /\ Reqs'
    <3>1. <<n, loadPos[n]>> \in Regs \ Execs
      BY <2>2, LoadedIsValid, IdentityAssumption DEF RegisterRemove
    <3>2. UNCHANGED reg /\ \A e \in Execs : pc'[e] = pc[e]
      BY <2>2, <3>1, RemoveTouchesOne DEF RegisterRemove, Actors
    <3> QED BY <1>0, <3>2 DEF Wired
  <2>3. ASSUME NEW r \in Regs, Loop(r)
        PROVE  Held' /\ Reqs'
    <3>1. UNCHANGED reg /\ \A e \in Execs : pc'[e] = pc[e]
      BY <2>3, IdentityAssumption DEF Loop, LoopSleep, LoopExhausted, LoopFire,
         LoopBusy, LoopOutside, LoopRecordSkip, BeginRunning, TypeOK, RunTypeOK,
         Actors
    <3> QED BY <1>0, <3>1 DEF Wired
  <2>4. ASSUME NEW e \in Execs, Exec(e)
        PROVE  Held' /\ Reqs'
    <3>1. ASSUME NEW k \in Keys, ExecLookup(e, k)
          PROVE  Held' /\ Reqs'
      <4>1. jobs[k] \in Regs /\ Valid(jobs[k])
        BY <3>1 DEF ExecLookup, TypeOK, LoadTypeOK, Wired
      <4>2. \A f \in Execs, q \in Regs : reg'[f] = q => Valid(q)
        BY <3>1, <4>1 DEF ExecLookup, TypeOK, RunTypeOK, Wired
      <4>3. \A f \in Execs : pc'[f] # "idle" => reg'[f] \in Regs
        BY <3>1, <4>1 DEF ExecLookup, TypeOK, RunTypeOK, Wired, Actors
      <4> QED BY <1>0, <4>2, <4>3
    <3>2. CASE ExecBegin(e)
      <4>1. UNCHANGED reg /\ \A f \in Execs : pc'[f] # "idle" => pc[f] # "idle"
        BY <3>2 DEF ExecBegin, BeginRunning, TypeOK, RunTypeOK, Actors
      <4> QED BY <1>0, <4>1 DEF Wired
    <3>3. CASE ExecBusy(e)
      <4>1. \A f \in Execs, q \in Regs : reg'[f] = q => Valid(q)
        BY <3>3, IdentityAssumption DEF ExecBusy, TypeOK, RunTypeOK, Wired
      <4>2. \A f \in Execs : pc'[f] # "idle" => reg'[f] \in Regs
        BY <3>3 DEF ExecBusy, TypeOK, RunTypeOK, Wired, Actors
      <4> QED BY <1>0, <4>1, <4>2
    <3> QED BY <2>4, <3>1, <3>2, <3>3 DEF Exec
  <2>5. ASSUME NEW a \in Actors, Run(a)
        PROVE  Held' /\ Reqs'
    <3>1. CASE RemoveRunning(a)
      <4>1. \A f \in Execs, q \in Regs : reg'[f] = q => Valid(q)
        BY <3>1, IdentityAssumption DEF RemoveRunning, TypeOK, RunTypeOK, Wired
      <4>2. \A f \in Execs : pc'[f] # "idle" => reg'[f] \in Regs
        BY <3>1, IdentityAssumption
           DEF RemoveRunning, TypeOK, RunTypeOK, Wired, Actors
      <4> QED BY <1>0, <4>1, <4>2
    <3>2. CASE ~ RemoveRunning(a)
      <4>1. UNCHANGED reg /\ \A f \in Execs : pc'[f] # "idle" => pc[f] # "idle"
        BY <2>5, <3>2 DEF Run, GetCancel, RecordOutcome,
           DispatchListen, DispatchResume, TypeOK, RunTypeOK, Actors
      <4> QED BY <1>0, <4>1 DEF Wired
    <3> QED BY <3>1, <3>2
  <2>6. ASSUME NEW n \in Loads, Load(n), ~ RegisterRemove(n)
        PROVE  UNCHANGED <<reg, pc>>
    BY <2>6 DEF Load, LoadDsl, ReloadSignal, ReloadClear, RegisterInsert, runVars
  <2>7. ASSUME NEW t \in Stoppers, Stop(t)
        PROVE  UNCHANGED <<reg, pc>>
    BY <2>7 DEF Stop, StopCheck, StopSignal, runVars
  <2>8. CASE UNCHANGED vars
    BY <2>1, <2>8 DEF vars, runVars
  <2> QED BY <2>1, <2>2, <2>3, <2>4, <2>5, <2>6, <2>7, <2>8 DEF Next
<1> QED BY <1>1, <1>2, <1>3, <1>4 DEF Wired

(* A run keeps its job from step to step.                                  *)
LEMMA RunKeyStable ==
  ASSUME TypeOK, Wired, [Next]_vars, NEW a \in Actors, InRun(a),
         RegOf(a)' = RegOf(a)
  PROVE  KeyOf(a)' = KeyOf(a) /\ KeyOf(a) \in Keys
<1>1. PICK r \in Regs : RegOf(a) = r
  BY ActorTyped DEF InRun, RunSteps
<1>2. Valid(r) /\ KeyOf(a) \in Keys
  BY <1>1, ActorTyped DEF InRun, RunSteps
<1>3. SpecOf(r)' = SpecOf(r)
  BY <1>2, ValidStable
<1>4. KeyOf(a) = SpecOf(r).key
  BY <1>1 DEF KeyOf
<1>5. KeyOf(a)' = SpecOf(r)'.key
  BY <1>1 DEF KeyOf
<1> QED BY <1>2, <1>3, <1>4, <1>5

(* A step that neither touches the running map nor moves anybody into or   *)
(* out of a run keeps the guard.                                           *)
LEMMA GuardedFrame ==
  ASSUME TypeOK, Wired, Guarded, [Next]_vars,
         UNCHANGED running,
         \A a \in Actors :
           /\ pc'[a] \in RunSteps <=> pc[a] \in RunSteps
           /\ pc[a] \in RunSteps => a \in Regs \/ reg'[a] = reg[a]
  PROVE  Guarded'
<1>1. \A a \in Actors : InRun(a) => KeyOf(a)' = KeyOf(a)
  BY RunKeyStable DEF InRun, RegOf
<1>2. ASSUME NEW a \in Actors, InRun(a)'
      PROVE  (running[KeyOf(a)] = a)'
  <2>1. InRun(a)
    BY <1>2 DEF InRun
  <2> QED BY <1>1, <2>1 DEF Guarded
<1>3. ASSUME NEW k \in Keys, running'[k] # Nobody
      PROVE  (InRun(running[k]) /\ KeyOf(running[k]) = k)'
  <2>1. PICK a \in Actors : running[k] = a
    BY <1>3 DEF TypeOK, RunTypeOK
  <2>2. InRun(a) /\ KeyOf(a) = k
    BY <1>3, <2>1 DEF Guarded, NoLeakedEntry
  <2>3. InRun(a)' /\ KeyOf(a)' = k
    BY <1>1, <2>2 DEF InRun
  <2> QED BY <2>1, <2>3
<1> QED BY <1>2, <1>3 DEF Guarded, NoLeakedEntry

(* begin_running adds exactly one run, of a key that was free.             *)
LEMMA GuardedBegin ==
  ASSUME TypeOK, Wired, Guarded, [Next]_vars,
         NEW b \in Actors, pc[b] \in {"sleep", "found"},
         BeginRunning(b, KeyOf(b)), UNCHANGED reg
  PROVE  Guarded'
<1>1. KeyOf(b) \in Keys /\ ~ InRun(b)
  BY ActorTyped DEF InRun, RunSteps
<1>2. RegOf(b)' = RegOf(b) /\ \A a \in Actors : RegOf(a)' = RegOf(a)
  BY DEF RegOf
<1>3. PICK r \in Regs : RegOf(b) = r /\ Valid(r)
  BY ActorTyped
<1>4. KeyOf(b)' = KeyOf(b)
  <2>1. SpecOf(r)' = SpecOf(r)
    BY <1>3, ValidStable
  <2>2. KeyOf(b) = SpecOf(r).key
    BY <1>3 DEF KeyOf
  <2>3. KeyOf(b)' = SpecOf(r)'.key
    BY <1>2, <1>3 DEF KeyOf
  <2> QED BY <2>1, <2>2, <2>3
<1>5. /\ pc'[b] = "began"
      /\ \A a \in Actors : a # b => pc'[a] = pc[a]
      /\ running'[KeyOf(b)] = b
      /\ \A k \in Keys : k # KeyOf(b) => running'[k] = running[k]
      /\ running[KeyOf(b)] = Nobody
  BY <1>1 DEF BeginRunning, TypeOK, RunTypeOK
<1>6. \A a \in Actors : InRun(a) => KeyOf(a)' = KeyOf(a) /\ KeyOf(a) \in Keys
  BY <1>2, RunKeyStable
<1>7. ASSUME NEW a \in Actors, InRun(a)'
      PROVE  (running[KeyOf(a)] = a)'
  <2>1. CASE a = b
    BY <1>4, <1>5, <2>1
  <2>2. CASE a # b
    <3>1. InRun(a)
      BY <1>5, <1>7, <2>2 DEF InRun
    <3>2. running[KeyOf(a)] = a /\ KeyOf(a) # KeyOf(b)
      BY <1>5, <3>1, IdentityAssumption DEF Guarded
    <3> QED BY <1>5, <1>6, <3>1, <3>2
  <2> QED BY <2>1, <2>2
<1>8. ASSUME NEW k \in Keys, running'[k] # Nobody
      PROVE  (InRun(running[k]) /\ KeyOf(running[k]) = k)'
  <2>1. CASE k = KeyOf(b)
    BY <1>4, <1>5, <2>1 DEF InRun, RunSteps
  <2>2. CASE k # KeyOf(b)
    <3>1. PICK a \in Actors : running[k] = a
      BY <1>5, <1>8, <2>2 DEF TypeOK, RunTypeOK
    <3>2. InRun(a) /\ KeyOf(a) = k /\ a # b
      BY <1>1, <1>5, <1>8, <2>2, <3>1 DEF Guarded, NoLeakedEntry
    <3>3. InRun(a)' /\ KeyOf(a)' = k /\ running'[k] = a
      BY <1>5, <1>6, <2>2, <3>1, <3>2 DEF InRun
    <3> QED BY <3>3
  <2> QED BY <2>1, <2>2
<1> QED BY <1>7, <1>8 DEF Guarded, NoLeakedEntry

(* running.remove takes out exactly the run that executes it.              *)
LEMMA GuardedRemove ==
  ASSUME TypeOK, Wired, Guarded, [Next]_vars, NEW b \in Actors, RemoveRunning(b)
  PROVE  Guarded'
<1>1. KeyOf(b) \in Keys /\ InRun(b) /\ running[KeyOf(b)] = b
  BY ActorTyped DEF RemoveRunning, InRun, RunSteps, Guarded
<1>2. \A a \in Actors : a # b => RegOf(a)' = RegOf(a)
  BY DEF RegOf, RemoveRunning, Actors
<1>3. /\ pc'[b] \notin RunSteps
      /\ \A a \in Actors : a # b => pc'[a] = pc[a]
      /\ running'[KeyOf(b)] = Nobody
      /\ \A k \in Keys : k # KeyOf(b) => running'[k] = running[k]
  BY <1>1 DEF RemoveRunning, TypeOK, RunTypeOK, RunSteps
<1>4. \A a \in Actors : a # b /\ InRun(a) =>
                           KeyOf(a)' = KeyOf(a) /\ KeyOf(a) \in Keys
  BY <1>2, RunKeyStable
<1>5. ASSUME NEW a \in Actors, InRun(a)'
      PROVE  (running[KeyOf(a)] = a)'
  <2>1. a # b /\ InRun(a)
    BY <1>3, <1>5 DEF InRun
  <2>2. running[KeyOf(a)] = a /\ KeyOf(a) # KeyOf(b)
    BY <1>1, <2>1 DEF Guarded
  <2> QED BY <1>3, <1>4, <2>1, <2>2
<1>6. ASSUME NEW k \in Keys, running'[k] # Nobody
      PROVE  (InRun(running[k]) /\ KeyOf(running[k]) = k)'
  <2>1. k # KeyOf(b)
    BY <1>3, <1>6
  <2>2. PICK a \in Actors : running[k] = a
    BY <1>3, <1>6, <2>1 DEF TypeOK, RunTypeOK
  <2>3. InRun(a) /\ KeyOf(a) = k /\ a # b
    BY <1>1, <1>3, <1>6, <2>1, <2>2 DEF Guarded, NoLeakedEntry
  <2>4. InRun(a)' /\ KeyOf(a)' = k /\ running'[k] = a
    BY <1>3, <1>4, <2>1, <2>2, <2>3 DEF InRun
  <2> QED BY <2>4
<1> QED BY <1>5, <1>6 DEF Guarded, NoLeakedEntry

(* register() spawns a loop that was not there before and touches no other *)
(* actor: a load visits each position of its Vec once.                     *)
LEMMA SpawnIsFresh ==
  ASSUME TypeOK, Wired, NEW n \in Loads, RegisterRemove(n)
  PROVE  \A a \in Actors : \/ pc'[a] = pc[a]
                          \/ (pc[a] = "unborn" /\ pc'[a] \in {"unborn", "next"})
<1>1. PICK r \in Regs : r = <<n, loadPos[n]>>
  BY LoadedIsValid DEF RegisterRemove
<1>2. ~ Spawned(r)
  BY <1>1 DEF RegisterRemove, Spawned, TypeOK, LoadTypeOK
<1>3. pc[r] = "unborn"
  BY <1>2 DEF Wired
<1>4. pc'[r] \in {"unborn", "next"}
  BY <1>1, <1>3 DEF RegisterRemove, SpawnLoop, TypeOK, RunTypeOK, Actors
<1>5. \A a \in Actors : a # r => pc'[a] = pc[a]
  BY <1>1, RemoveTouchesOne
<1> QED BY <1>3, <1>4, <1>5

(* The running map and the runs agree after every step.                    *)
LEMMA GuardedStep ==
  ASSUME TypeOK, Wired, Guarded, [Next]_vars
  PROVE  Guarded'
<1> DEFINE Frame == /\ UNCHANGED running
                    /\ \A a \in Actors :
                         /\ pc'[a] \in RunSteps <=> pc[a] \in RunSteps
                         /\ pc[a] \in RunSteps => a \in Regs \/ reg'[a] = reg[a]
<1>1. ASSUME Frame PROVE Guarded'
  BY <1>1, GuardedFrame
<1>2. UNCHANGED <<running, pc, reg>> => Frame
  OBVIOUS
<1>3. ASSUME NEW n \in Loads, Load(n)
      PROVE  Frame
  <2>1. CASE RegisterRemove(n)
    <3>1. UNCHANGED <<running, reg>>
      BY <2>1 DEF RegisterRemove
    <3> QED BY <2>1, <3>1, SpawnIsFresh DEF RunSteps
  <2>2. CASE ~ RegisterRemove(n)
    BY <1>2, <1>3, <2>2 DEF Load, LoadDsl, ReloadSignal, ReloadClear,
       RegisterInsert, runVars
  <2> QED BY <2>1, <2>2
<1>4. ASSUME NEW r \in Regs, Loop(r)
      PROVE  Guarded'
  <2>1. CASE LoopFire(r)
    BY <2>1, GuardedBegin DEF LoopFire, Actors
  <2>2. CASE ~ LoopFire(r)
    <3>1. Frame
      BY <1>4, <2>2 DEF Loop, LoopSleep, LoopExhausted, LoopBusy, LoopOutside,
         LoopRecordSkip, InRun, RunSteps, RegOf, TypeOK, RunTypeOK
    <3> QED BY <1>1, <3>1
  <2> QED BY <2>1, <2>2
<1>5. ASSUME NEW e \in Execs, Exec(e)
      PROVE  Guarded'
  <2>1. CASE ExecBegin(e)
    BY <2>1, GuardedBegin DEF ExecBegin, Actors
  <2>2. CASE ~ ExecBegin(e)
    <3>1. Frame
      BY <1>5, <2>2 DEF Exec, ExecLookup, ExecBusy, InRun, RunSteps, RegOf,
         TypeOK, RunTypeOK, Actors
    <3> QED BY <1>1, <3>1
  <2> QED BY <2>1, <2>2
<1>6. ASSUME NEW a \in Actors, Run(a)
      PROVE  Guarded'
  <2>1. CASE RemoveRunning(a)
    BY <2>1, GuardedRemove
  <2>2. CASE ~ RemoveRunning(a)
    <3>1. Frame
      BY <1>6, <2>2 DEF Run, GetCancel, RecordOutcome, DispatchListen,
         DispatchResume, InRun, RunSteps, RegOf, TypeOK, RunTypeOK
    <3> QED BY <1>1, <3>1
  <2> QED BY <2>1, <2>2
<1>7. ASSUME NEW t \in Stoppers, Stop(t)
      PROVE  Frame
  BY <1>2, <1>7 DEF Stop, StopCheck, StopSignal, runVars
<1>8. CASE UNCHANGED vars
  BY <1>1, <1>2, <1>8 DEF vars, runVars
<1> QED
  BY <1>1, <1>3, <1>4, <1>5, <1>6, <1>7, <1>8 DEF Next

(* Results are never taken back: last_result is empty only at first.       *)
LEMMA LastStays ==
  ASSUME TypeOK, [Next]_vars, NEW r \in Regs, last[r] # "none"
  PROVE  last'[r] # "none"
<1> USE OutcomeAssumption DEF TypeOK, RunTypeOK, runVars
<1>1. ASSUME NEW n \in Loads, Load(n)
      PROVE  UNCHANGED last
  BY <1>1 DEF Load, LoadDsl, ReloadSignal, ReloadClear, RegisterRemove,
     RegisterInsert
<1>2. ASSUME NEW q \in Regs, Loop(q)
      PROVE  last'[r] # "none"
  BY <1>2 DEF Loop, LoopSleep, LoopExhausted, LoopFire, LoopBusy, LoopOutside,
     LoopRecordSkip
<1>3. ASSUME NEW e \in Execs, Exec(e)
      PROVE  UNCHANGED last
  BY <1>3 DEF Exec, ExecLookup, ExecBegin, ExecBusy
<1>4. ASSUME NEW a \in Actors, Run(a)
      PROVE  last'[r] # "none"
  BY <1>4 DEF Run, GetCancel, RecordOutcome, RemoveRunning,
     DispatchListen, DispatchResume
<1>5. ASSUME NEW t \in Stoppers, Stop(t)
      PROVE  UNCHANGED last
  BY <1>5 DEF Stop, StopCheck, StopSignal
<1> QED BY <1>1, <1>2, <1>3, <1>4, <1>5 DEF Next, vars

(* A run that stays where it is keeps what it has got hold of.             *)
LEMMA HandledFrame ==
  ASSUME IInv, [Next]_vars, NEW b \in Actors,
         pc'[b] = pc[b], cancel'[b] = cancel[b], b \in Regs \/ reg'[b] = reg[b]
  PROVE  /\ pc'[b] = "dispatch" => cancel'[b] = b
         /\ pc'[b] = "remove" => last'[RegOf(b)'] # "none"
<1>1. pc'[b] = "dispatch" => cancel'[b] = b
  BY DEF IInv, Handled
<1>2. ASSUME pc'[b] = "remove"
      PROVE  last'[RegOf(b)'] # "none"
  <2>1. PICK r \in Regs : RegOf(b) = r
    BY <1>2, ActorTyped DEF IInv
  <2>2. last[r] # "none"
    BY <1>2, <2>1 DEF IInv, Handled
  <2>3. last'[r] # "none"
    BY <2>2, LastStays DEF IInv
  <2>4. RegOf(b)' = r
    BY <2>1 DEF RegOf
  <2> QED BY <2>3, <2>4
<1> QED BY <1>1, <1>2

(* A run owns its Notify while it dispatches and has left a result by the  *)
(* time it removes its entry.                                              *)
LEMMA HandledStep ==
  ASSUME IInv, [Next]_vars
  PROVE  Handled'
<1> SUFFICES ASSUME NEW b \in Actors
             PROVE  /\ pc'[b] = "dispatch" => cancel'[b] = b
                    /\ pc'[b] = "remove" => last'[RegOf(b)'] # "none"
  BY DEF Handled
<1> DEFINE Frame ==
      pc'[b] \in {"dispatch", "remove"} =>
        /\ pc'[b] = pc[b]
        /\ cancel'[b] = cancel[b]
        /\ b \in Regs \/ reg'[b] = reg[b]
<1>1. CASE Frame
  BY <1>1, HandledFrame
<1> USE DEF IInv, TypeOK, RunTypeOK
<1>2. ASSUME NEW n \in Loads, Load(n)
      PROVE  Frame
  BY <1>2 DEF Load, LoadDsl, ReloadSignal, ReloadClear, RegisterRemove,
     RegisterInsert, SpawnLoop, runVars
<1>3. ASSUME NEW r \in Regs, Loop(r)
      PROVE  Frame
  BY <1>3 DEF Loop, LoopSleep, LoopExhausted, LoopFire, LoopBusy, LoopOutside,
     LoopRecordSkip, BeginRunning
<1>4. ASSUME NEW e \in Execs, Exec(e)
      PROVE  Frame
  BY <1>4 DEF Exec, ExecLookup, ExecBegin, ExecBusy, BeginRunning, Actors
<1>5. ASSUME NEW a \in Actors, GetCancel(a), a = b
      PROVE  cancel'[b] = b /\ pc'[b] = "dispatch"
  <2>1. running[KeyOf(b)] = b
    BY <1>5 DEF GetCancel, Guarded, InRun, RunSteps
  <2> QED BY <1>5, <2>1 DEF GetCancel
<1>6. ASSUME NEW a \in Actors, NEW o \in Outcomes, RecordOutcome(a, o), a = b
      PROVE  last'[RegOf(b)'] # "none" /\ pc'[b] = "remove"
  <2>1. PICK r \in Regs : RegOf(b) = r
    BY <1>6, ActorTyped DEF RecordOutcome
  <2>2. last'[r] = o /\ pc'[b] = "remove"
    BY <1>6, <2>1 DEF RecordOutcome
  <2>3. RegOf(b)' = r
    BY <1>6, <2>1 DEF RegOf, RecordOutcome
  <2> QED BY <2>2, <2>3, OutcomeAssumption
<1>7. ASSUME NEW a \in Actors, GetCancel(a), a # b
      PROVE  Frame
  BY <1>7 DEF GetCancel
<1>8. ASSUME NEW a \in Actors, NEW o \in Outcomes, RecordOutcome(a, o), a # b
      PROVE  Frame
  BY <1>8 DEF RecordOutcome
<1>9. ASSUME NEW a \in Actors,
             RemoveRunning(a) \/ DispatchListen(a) \/ DispatchResume(a)
      PROVE  Frame
  BY <1>9 DEF RemoveRunning, DispatchListen, DispatchResume, Actors
<1>10. ASSUME NEW t \in Stoppers, Stop(t)
      PROVE  Frame
  BY <1>10 DEF Stop, StopCheck, StopSignal, runVars
<1>11. CASE UNCHANGED vars
  BY <1>1, <1>11 DEF vars, runVars
<1> HIDE DEF Frame
<1> QED
  BY <1>1, <1>2, <1>3, <1>4, <1>5, <1>6, <1>7, <1>8, <1>9, <1>10, <1>11
  DEF Next, Run

-----------------------------------------------------------------------------
(* The theorems.                                                           *)

(* The initial state satisfies the inductive invariant ...                 *)
LEMMA InitIInv == Init => IInv
<1> SUFFICES ASSUME Init PROVE IInv
  OBVIOUS
<1>1. LoadTypeOK
  BY DEF Init, LoadTypeOK, LoadSteps
<1>2. RunTypeOK
  BY IdentityAssumption DEF Init, RunTypeOK, RunSteps, LoopSteps, ExecSteps, Actors
<1>3. Wired
  BY IdentityAssumption DEF Init, Wired, Actors
<1>4. Guarded /\ Handled
  BY DEF Init, Guarded, NoLeakedEntry, Handled, InRun, RunSteps, Actors
<1> QED BY <1>1, <1>2, <1>3, <1>4 DEF IInv, TypeOK

(* ... and every step of the code preserves it.                            *)
LEMMA InductiveIInv == Spec => []IInv
<1>1. IInv /\ [Next]_vars => IInv'
  BY LoadTypeStep, RunTypeStep, WiredStep, GuardedStep, HandledStep DEF IInv, TypeOK
<1> QED BY InitIInv, <1>1, PTL DEF Spec

(* Type correctness of the scheduler's state.                              *)
THEOREM TypeCorrect == Spec => []TypeOK
<1>1. IInv => TypeOK
  BY DEF IInv
<1> QED BY <1>1, InductiveIInv, PTL

(* No two runs of a job overlap between begin_running and running.remove,  *)
(* with any number of dropped loops, requests and concurrent reloads.      *)
THEOREM RunsDoNotOverlap == Spec => []OneRunPerKey
<1>1. IInv => OneRunPerKey
  <2> SUFFICES ASSUME IInv, NEW a \in Actors, NEW b \in Actors,
                      InRun(a), InRun(b), KeyOf(a) = KeyOf(b)
               PROVE  a = b
    BY DEF OneRunPerKey
  <2> QED BY DEF IInv, Guarded
<1> QED BY <1>1, InductiveIInv, PTL

(* No entry of the running map outlives its run.                           *)
THEOREM EntriesAreOwned == Spec => []NoLeakedEntry
<1>1. IInv => NoLeakedEntry
  BY DEF IInv, Guarded
<1> QED BY <1>1, InductiveIInv, PTL

(* expect("just inserted") cannot panic, and the Notify a dispatch waits   *)
(* on is the one /stop finds.                                              *)
THEOREM StopFindsTheRun == Spec => []StopReachesRun
<1>1. IInv => StopReachesRun
  BY DEF IInv, Guarded, Handled, StopReachesRun, InRun, RunSteps
<1> QED BY <1>1, InductiveIInv, PTL

-----------------------------------------------------------------------------
(* What a step may do to an entry of the running map.                      *)

(* An entry that is there can only be removed, by the run that owns it.    *)
LEMMA OnlyRemoveTakesOut ==
  ASSUME IInv, [Next]_vars, NEW k \in Keys,
         running[k] # Nobody, running'[k] # running[k]
  PROVE  \E a \in Actors : /\ RemoveRunning(a)
                           /\ running[k] = a
                           /\ running'[k] = Nobody
<1> USE DEF IInv, TypeOK, RunTypeOK, runVars
<1>1. ASSUME NEW n \in Loads, Load(n)
      PROVE  FALSE
  BY <1>1 DEF Load, LoadDsl, ReloadSignal, ReloadClear, RegisterRemove,
     RegisterInsert
<1>2. ASSUME NEW r \in Regs, Loop(r)
      PROVE  FALSE
  BY <1>2 DEF Loop, LoopSleep, LoopExhausted, LoopFire, LoopBusy, LoopOutside,
     LoopRecordSkip, BeginRunning
<1>3. ASSUME NEW e \in Execs, Exec(e)
      PROVE  FALSE
  BY <1>3 DEF Exec, ExecLookup, ExecBegin, ExecBusy, BeginRunning
<1>4. ASSUME NEW t \in Stoppers, Stop(t)
      PROVE  FALSE
  BY <1>4 DEF Stop, StopCheck, StopSignal
<1>5. ASSUME NEW a \in Actors, Run(a)
      PROVE  RemoveRunning(a) /\ running[k] = a /\ running'[k] = Nobody
  <2>1. RemoveRunning(a)
    BY <1>5 DEF Run, GetCancel, RecordOutcome, DispatchListen,
       DispatchResume
  <2>2. running[KeyOf(a)] = a
    BY <2>1 DEF RemoveRunning, Guarded, InRun, RunSteps
  <2> QED BY <2>1, <2>2 DEF RemoveRunning
<1> QED BY <1>1, <1>2, <1>3, <1>4, <1>5 DEF Next, vars

(* An entry leaves the running map in its owner's last step, after the     *)
(* owner's registration got a result.                                      *)
THEOREM EntriesReleasedByOwner == Spec => ReleasedByOwner
<1> DEFINE A == \A k \in Keys :
                  running[k] # Nobody /\ running'[k] # running[k] =>
                    /\ running'[k] = Nobody
                    /\ pc[running[k]] = "remove" /\ pc'[running[k]] # "remove"
                    /\ last[RegOf(running[k])] # "none"
<1>1. IInv /\ [Next]_vars => A
  <2> SUFFICES ASSUME IInv, [Next]_vars, NEW k \in Keys,
                      running[k] # Nobody, running'[k] # running[k]
               PROVE  /\ running'[k] = Nobody
                      /\ pc[running[k]] = "remove" /\ pc'[running[k]] # "remove"
                      /\ last[RegOf(running[k])] # "none"
    OBVIOUS
  <2>1. PICK a \in Actors : RemoveRunning(a) /\ running[k] = a /\ running'[k] = Nobody
    BY OnlyRemoveTakesOut
  <2>2. pc[a] = "remove" /\ pc'[a] # "remove"
    BY <2>1 DEF RemoveRunning, IInv, TypeOK, RunTypeOK
  <2> QED BY <2>1, <2>2 DEF IInv, Handled
<1> QED BY <1>1, InductiveIInv, PTL DEF Spec, ReleasedByOwner

-----------------------------------------------------------------------------
(* Scheduler implements JobSlots.                                          *)

(* The slot of a key holds the one actor that dispatches for it.           *)
SlotsHold ==
  \A k \in Keys : /\ \A a \in Dispatching(k) : active[k] = a
                  /\ Dispatching(k) = {} => active[k] = Nobody

(* ... which is well defined because a dispatching actor owns the entry of *)
(* its key.                                                                *)
LEMMA ActiveIs == IInv => SlotsHold
<1> SUFFICES ASSUME IInv, NEW k \in Keys
             PROVE  /\ \A a \in Dispatching(k) : active[k] = a
                    /\ Dispatching(k) = {} => active[k] = Nobody
  BY DEF SlotsHold
<1>1. \A a \in Dispatching(k) : running[k] = a
  BY DEF IInv, Guarded, InRun, RunSteps, Dispatching
<1>2. ASSUME NEW a \in Dispatching(k)
      PROVE  active[k] = a
  <2>1. Dispatching(k) = {a}
    BY <1>1, <1>2
  <2> QED BY <2>1 DEF active
<1> QED BY <1>2 DEF active

(* The only steps that change who is inside dispatch are the two ends of a *)
(* dispatch; no step changes the registration of an actor inside one.      *)
LEMMA DispatchEnds ==
  ASSUME IInv, [Next]_vars
  PROVE  /\ \A b \in Actors : pc[b] \in {"began", "dispatch"} =>
                               b \in Regs \/ reg'[b] = reg[b]
         /\ \/ \A b \in Actors : pc'[b] = "dispatch" <=> pc[b] = "dispatch"
            \/ \E a \in Actors : GetCancel(a)
            \/ \E a \in Actors, o \in Outcomes : RecordOutcome(a, o)
<1> DEFINE KeepsReg == \A b \in Actors : pc[b] \in {"began", "dispatch"} =>
                                          b \in Regs \/ reg'[b] = reg[b]
           Same == \A b \in Actors : pc'[b] = "dispatch" <=> pc[b] = "dispatch"
<1> USE DEF IInv, TypeOK, RunTypeOK, runVars
<1>1. ASSUME NEW n \in Loads, Load(n)
      PROVE  KeepsReg /\ Same
  <2>1. CASE RegisterRemove(n)
    <3>1. UNCHANGED reg
      BY <2>1 DEF RegisterRemove
    <3> QED BY <2>1, <3>1, SpawnIsFresh
  <2>2. CASE ~ RegisterRemove(n)
    BY <1>1, <2>2 DEF Load, LoadDsl, ReloadSignal, ReloadClear, RegisterInsert
  <2> QED BY <1>1, <2>1, <2>2
<1>2. ASSUME NEW r \in Regs, Loop(r)
      PROVE  KeepsReg /\ Same
  BY <1>2 DEF Loop, LoopSleep, LoopExhausted, LoopFire, LoopBusy, LoopOutside,
     LoopRecordSkip, BeginRunning
<1>3. ASSUME NEW e \in Execs, Exec(e)
      PROVE  KeepsReg /\ Same
  BY <1>3 DEF Exec, ExecLookup, ExecBegin, ExecBusy, BeginRunning, Actors
<1>4. ASSUME NEW a \in Actors, GetCancel(a)
      PROVE  KeepsReg
  BY <1>4 DEF GetCancel
<1>5. ASSUME NEW a \in Actors, NEW o \in Outcomes, RecordOutcome(a, o)
      PROVE  KeepsReg
  BY <1>5 DEF RecordOutcome
<1>6. ASSUME NEW a \in Actors,
             RemoveRunning(a) \/ DispatchListen(a) \/ DispatchResume(a)
      PROVE  KeepsReg /\ Same
  BY <1>6 DEF RemoveRunning, DispatchListen, DispatchResume, Actors
<1>7. ASSUME NEW t \in Stoppers, Stop(t)
      PROVE  KeepsReg /\ Same
  BY <1>7 DEF Stop, StopCheck, StopSignal
<1>8. UNCHANGED vars => KeepsReg /\ Same
  BY DEF vars
<1> HIDE DEF KeepsReg, Same
<1>9. KeepsReg /\ (Same \/ (\E a \in Actors : GetCancel(a))
                       \/ (\E a \in Actors, o \in Outcomes : RecordOutcome(a, o)))
  BY <1>1, <1>2, <1>3, <1>4, <1>5, <1>6, <1>7, <1>8, Zenon DEF Next, Run
<1> QED BY <1>9 DEF KeepsReg, Same

(* An actor that is about to dispatch, or dispatches, keeps its key.       *)
LEMMA DispatchKeyStable ==
  ASSUME IInv, [Next]_vars, NEW a \in Actors, pc[a] \in {"began", "dispatch"}
  PROVE  KeyOf(a)' = KeyOf(a) /\ KeyOf(a) \in Keys
<1>1. RegOf(a)' = RegOf(a)
  BY DispatchEnds DEF RegOf
<1> QED BY <1>1, RunKeyStable DEF IInv, InRun, RunSteps

(* Every step of the scheduler is a step of the slots, or none.            *)
LEMMA SlotStep ==
  ASSUME IInv, SlotsHold, SlotsHold', [Next]_vars
  PROVE  [Slots!Next]_active
<1>1. active = [k \in Keys |-> active[k]] /\ active' = [k \in Keys |-> active'[k]]
  BY DEF active
<1>2. \A k \in Keys : /\ \A a \in Dispatching(k) : active[k] = a
                      /\ Dispatching(k) = {} => active[k] = Nobody
  BY DEF SlotsHold
<1>3. \A k \in Keys : /\ \A a \in Dispatching(k)' : active'[k] = a
                      /\ Dispatching(k)' = {} => active'[k] = Nobody
  BY DEF SlotsHold
<1>4. ASSUME NEW k \in Keys, Dispatching(k)' = Dispatching(k)
      PROVE  active'[k] = active[k]
  BY <1>2, <1>3, <1>4
<1>5. CASE \A b \in Actors : pc'[b] = "dispatch" <=> pc[b] = "dispatch"
  <2>1. ASSUME NEW k \in Keys
        PROVE  Dispatching(k)' = Dispatching(k)
    BY <1>5, DispatchKeyStable DEF Dispatching
  <2> QED BY <1>1, <1>4, <2>1
<1>6. ASSUME NEW a \in Actors, GetCancel(a)
      PROVE  Slots!Next
  <2>1. PICK j \in Keys : KeyOf(a) = j /\ KeyOf(a)' = j
    BY <1>6, DispatchKeyStable DEF GetCancel
  <2>2. pc[a] = "began" /\ pc'[a] = "dispatch"
    BY <1>6 DEF GetCancel, IInv, TypeOK, RunTypeOK
  <2>3. \A b \in Actors \ {a} : pc'[b] = pc[b]
    BY <1>6 DEF GetCancel, IInv, TypeOK, RunTypeOK
  <2>4. Dispatching(j) = {}
    BY <2>1, <2>2 DEF IInv, Guarded, InRun, RunSteps, Dispatching
  <2>5. a \in Dispatching(j)'
    BY <2>1, <2>2 DEF Dispatching
  <2>6. ASSUME NEW k \in Keys \ {j}
        PROVE  Dispatching(k)' = Dispatching(k)
    BY <2>1, <2>2, <2>3, DispatchKeyStable DEF Dispatching
  <2>7. active[j] = Nobody /\ active'[j] = a
    BY <1>2, <1>3, <2>4, <2>5
  <2>8. active' = [active EXCEPT ![j] = a]
    BY <1>1, <1>4, <2>6, <2>7
  <2> QED BY <2>7, <2>8 DEF Slots!Next, Slots!Start
<1>7. ASSUME NEW a \in Actors, NEW o \in Outcomes, RecordOutcome(a, o)
      PROVE  Slots!Next
  <2>1. PICK j \in Keys : KeyOf(a) = j /\ KeyOf(a)' = j
    BY <1>7, DispatchKeyStable DEF RecordOutcome
  <2>2. pc[a] = "dispatch" /\ pc'[a] = "remove"
    BY <1>7 DEF RecordOutcome, IInv, TypeOK, RunTypeOK
  <2>3. \A b \in Actors \ {a} : pc'[b] = pc[b]
    BY <1>7 DEF RecordOutcome, IInv, TypeOK, RunTypeOK
  <2>4. Dispatching(j) = {a}
    BY <2>1, <2>2 DEF IInv, Guarded, InRun, RunSteps, Dispatching
  <2>5. Dispatching(j)' = {}
    BY <2>1, <2>2, <2>3, <2>4, DispatchKeyStable DEF Dispatching
  <2>6. ASSUME NEW k \in Keys \ {j}
        PROVE  Dispatching(k)' = Dispatching(k)
    BY <2>1, <2>2, <2>3, DispatchKeyStable DEF Dispatching
  <2>7. active[j] = a /\ active'[j] = Nobody /\ a # Nobody
    BY <1>2, <1>3, <2>4, <2>5, IdentityAssumption
  <2>8. active' = [active EXCEPT ![j] = Nobody]
    BY <1>1, <1>4, <2>6, <2>7
  <2> QED BY <2>7, <2>8 DEF Slots!Next, Slots!Finish
<1> QED BY <1>5, <1>6, <1>7, DispatchEnds

(* The invocations of one job are serial: Scheduler implements JobSlots.   *)
THEOREM ImplementsSlots == Spec => SerialRuns
<1>1. Init => Slots!Init
  <2> SUFFICES ASSUME Init PROVE Slots!Init
    OBVIOUS
  <2>1. ASSUME NEW k \in Keys
        PROVE  Dispatching(k) = {}
    BY DEF Init, Dispatching, Actors
  <2> QED BY <2>1 DEF Slots!Init, active
<1>2. IInv /\ SlotsHold /\ SlotsHold' /\ [Next]_vars => [Slots!Next]_active
  BY SlotStep
<1> QED BY <1>1, <1>2, ActiveIs, InductiveIInv, PTL DEF Spec, Slots!Spec, SerialRuns

-----------------------------------------------------------------------------
(* No job is lost between the sections of overlapping loads.               *)

(* The job is in the directory whenever it is read.                        *)
AlwaysThere(k) == \A d \in Disks : \E i \in DOMAIN d : d[i].key = k

(* Load n has still to insert it.                                          *)
Coming(n, k) ==
  /\ loadPc[n] \in {"register", "insert"}
  /\ \E i \in DOMAIN loadSpecs[n] : loadPos[n] <= i /\ loadSpecs[n][i].key = k

(* NoLostJob speaks of moments without a load; in between, whoever took    *)
(* the entry away has still to come to it, or another load has.            *)
Kept ==
  /\ \A n \in Loads : loadPc[n] # "idle" => loadSpecs[n] \in Disks
  /\ \A k \in Keys : AlwaysThere(k) =>
       \/ loadPc[Boot] = "idle"
       \/ jobs[k] # NoReg
       \/ \E n \in Loads : Coming(n, k)

(* A load that begins to register has everything before it.                *)
LEMMA AllComing ==
  ASSUME NEW n \in Loads, NEW k \in Keys, AlwaysThere(k),
         loadPc'[n] = "register", loadPos'[n] = 1, loadSpecs'[n] \in Disks
  PROVE  Coming(n, k)'
<1>1. PICK i \in DOMAIN loadSpecs'[n] : loadSpecs'[n][i].key = k
  BY DEF AlwaysThere
<1>2. 1 <= i
  BY <1>1, DiskShape
<1> QED BY <1>1, <1>2 DEF Coming

(* The other loads are where they were.                                    *)
LEMMA StillComing ==
  ASSUME NEW m \in Loads, NEW k \in Keys, Coming(m, k), loadPc'[m] \in {"register", "insert"},
         loadSpecs'[m] = loadSpecs[m], loadPos'[m] = loadPos[m]
  PROVE  Coming(m, k)'
BY DEF Coming

LEMMA KeptStep == IInv /\ Kept /\ [Next]_vars => Kept'
<1> SUFFICES ASSUME IInv, Kept, [Next]_vars
             PROVE  Kept'
  OBVIOUS
<1> USE DEF IInv, TypeOK, LoadTypeOK
<1>1. ASSUME UNCHANGED <<loadVars, jobs>>
      PROVE  Kept'
  BY <1>1 DEF Kept, Coming, loadVars
<1>2. ASSUME NEW n \in Loads, NEW d \in Disks, LoadDsl(n, d)
      PROVE  Kept'
  <2>1. /\ loadPc[n] = "idle" /\ loadSpecs' = [loadSpecs EXCEPT ![n] = d]
        /\ n # Boot => loadPc[Boot] # "idle"
        /\ loadPc' = [loadPc EXCEPT ![n] = IF n # Boot THEN "loaded"
                                           ELSE IF d = <<>> THEN "done" ELSE "register"]
        /\ loadPos' = loadPos /\ jobs' = jobs
    BY <1>2 DEF LoadDsl, Serving
  <2>2. \A m \in Loads : loadPc'[m] # "idle" => loadSpecs'[m] \in Disks
    BY <2>1 DEF Kept
  <2>3. ASSUME NEW k \in Keys, AlwaysThere(k)
        PROVE  loadPc'[Boot] = "idle" \/ jobs'[k] # NoReg \/ \E m \in Loads : Coming(m, k)'
    <3>1. CASE n = Boot
      <4>1. d # <<>>
        BY <2>3 DEF AlwaysThere
      <4>2. loadPc'[n] = "register" /\ loadPos'[n] = 1 /\ loadSpecs'[n] \in Disks
        BY <2>1, <3>1, <4>1 DEF Wired
      <4> QED BY <2>3, <4>2, AllComing
    <3>2. CASE n # Boot
      <4>1. jobs[k] # NoReg \/ \E m \in Loads : Coming(m, k)
        BY <2>1, <2>3, <3>2 DEF Kept
      <4>2. ASSUME NEW m \in Loads, Coming(m, k)
            PROVE  Coming(m, k)'
        <5>1. m # n /\ loadPc[m] \in {"register", "insert"}
          BY <2>1, <4>2 DEF Coming
        <5>2. /\ loadPc'[m] = loadPc[m] /\ loadSpecs'[m] = loadSpecs[m]
              /\ loadPos'[m] = loadPos[m]
          BY <2>1, <5>1
        <5> QED BY <4>2, <5>1, <5>2, StillComing
      <4> QED BY <2>1, <4>1, <4>2
    <3> QED BY <3>1, <3>2
  <2> QED BY <2>2, <2>3 DEF Kept
<1>3. ASSUME NEW n \in Loads, ReloadSignal(n)
      PROVE  Kept'
  <2>1. /\ loadPc[n] = "loaded" /\ loadPc' = [loadPc EXCEPT ![n] = "signalled"]
        /\ UNCHANGED <<loadSpecs, loadPos, jobs>>
    BY <1>3 DEF ReloadSignal
  <2>2. \A m \in Loads : loadPc'[m] # "idle" => loadSpecs'[m] \in Disks
    BY <2>1 DEF Kept
  <2>3. loadPc'[Boot] = "idle" <=> loadPc[Boot] = "idle"
    BY <2>1, IdentityAssumption
  <2>4. \A m \in Loads, k \in Keys : Coming(m, k) => Coming(m, k)'
    BY <2>1 DEF Coming
  <2> QED BY <2>1, <2>2, <2>3, <2>4 DEF Kept
<1>4. ASSUME NEW n \in Loads, ReloadClear(n)
      PROVE  Kept'
  <2>1. /\ loadPc[n] = "signalled" /\ UNCHANGED <<loadSpecs, loadPos>>
        /\ loadPc' = [loadPc EXCEPT ![n] = IF loadSpecs[n] = <<>> THEN "done" ELSE "register"]
    BY <1>4 DEF ReloadClear
  <2>2. \A m \in Loads : loadPc'[m] # "idle" => loadSpecs'[m] \in Disks
    BY <2>1 DEF Kept
  <2>3. ASSUME NEW k \in Keys, AlwaysThere(k)
        PROVE  Coming(n, k)'
    <3>1. loadSpecs[n] \in Disks /\ loadPos[n] = 1
      BY <2>1 DEF Kept, Wired
    <3>2. loadSpecs[n] # <<>>
      BY <2>3, <3>1 DEF AlwaysThere
    <3> QED BY <2>1, <2>3, <3>1, <3>2, AllComing
  <2> QED BY <2>2, <2>3 DEF Kept
<1>5. ASSUME NEW n \in Loads, RegisterRemove(n)
      PROVE  Kept'
  <2> DEFINE r == <<n, loadPos[n]>>
  <2>1. /\ loadPc[n] = "register" /\ UNCHANGED <<loadSpecs, loadPos>>
        /\ loadPc' = [loadPc EXCEPT ![n] = "insert"]
        /\ jobs' = [jobs EXCEPT ![SpecOf(r).key] = NoReg]
    BY <1>5 DEF RegisterRemove
  <2>2. \A m \in Loads : loadPc'[m] # "idle" => loadSpecs'[m] \in Disks
    BY <2>1 DEF Kept
  <2>3. loadPc'[Boot] = "idle" <=> loadPc[Boot] = "idle"
    BY <2>1, IdentityAssumption
  <2>4. \A m \in Loads, k \in Keys : Coming(m, k) => Coming(m, k)'
    BY <2>1 DEF Coming
  <2>5. /\ loadPos[n] \in DOMAIN loadSpecs[n] /\ SpecOf(r) = loadSpecs[n][loadPos[n]]
        /\ loadPos[n] <= loadPos[n]
    BY <2>1 DEF SpecOf
  <2>6. \A k \in Keys : SpecOf(r).key = k => Coming(n, k)'
    BY <2>1, <2>5 DEF Coming
  <2>7. \A k \in Keys : SpecOf(r).key # k => jobs'[k] = jobs[k]
    BY <2>1
  <2> QED BY <2>2, <2>3, <2>4, <2>6, <2>7 DEF Kept
<1>6. ASSUME NEW n \in Loads, RegisterInsert(n)
      PROVE  Kept'
  <2> DEFINE r == <<n, loadPos[n]>>
             more == loadPos[n] < Len(loadSpecs[n])
  <2>1. /\ loadPc[n] = "insert" /\ UNCHANGED loadSpecs
        /\ loadPc' = [loadPc EXCEPT ![n] = IF more THEN "register" ELSE "done"]
        /\ loadPos' = IF more THEN [loadPos EXCEPT ![n] = loadPos[n] + 1] ELSE loadPos
        /\ jobs' = [jobs EXCEPT ![SpecOf(r).key] = r]
    BY <1>6 DEF RegisterInsert
  <2>2. r \in Regs /\ r # NoReg /\ SpecOf(r).key \in Keys
    BY <2>1, LoadedIsValid, IdentityAssumption
  <2>3. \A m \in Loads : loadPc'[m] # "idle" => loadSpecs'[m] \in Disks
    BY <2>1 DEF Kept
  <2>4. loadPc'[Boot] = "idle" <=> loadPc[Boot] = "idle"
    BY <2>1, IdentityAssumption
  <2>5. ASSUME NEW k \in Keys, SpecOf(r).key # k, NEW m \in Loads, Coming(m, k)
        PROVE  Coming(m, k)'
    <3>1. CASE m # n
      BY <2>1, <2>5, <3>1, StillComing DEF Coming
    <3>2. CASE m = n
      <4>1. PICK i \in DOMAIN loadSpecs[n] : loadPos[n] <= i /\ loadSpecs[n][i].key = k
        BY <2>5, <3>2 DEF Coming
      <4>2. i # loadPos[n]
        BY <2>5, <4>1 DEF SpecOf
      <4>3. DOMAIN loadSpecs[n] = 1 .. Len(loadSpecs[n]) /\ Len(loadSpecs[n]) \in Nat
        BY DiskShape
      <4>4. more /\ loadPos[n] + 1 <= i
        BY <4>1, <4>2, <4>3
      <4>5. loadPc'[n] = "register" /\ loadPos'[n] = loadPos[n] + 1 /\ loadSpecs'[n] = loadSpecs[n]
        BY <2>1, <4>4
      <4> QED BY <3>2, <4>1, <4>4, <4>5 DEF Coming
    <3> QED BY <3>1, <3>2
  <2>6. \A k \in Keys : jobs'[k] = IF SpecOf(r).key = k THEN r ELSE jobs[k]
    BY <2>1
  <2> HIDE DEF r
  <2> QED BY <2>2, <2>3, <2>4, <2>5, <2>6 DEF Kept
<1>7. ASSUME NEW q \in Regs, Loop(q)
      PROVE  UNCHANGED <<loadVars, jobs>>
  BY <1>7 DEF Loop, LoopSleep, LoopExhausted, LoopFire, LoopBusy, LoopOutside, LoopRecordSkip
<1>8. ASSUME NEW e \in Execs, Exec(e)
      PROVE  UNCHANGED <<loadVars, jobs>>
  BY <1>8 DEF Exec, ExecLookup, ExecBegin, ExecBusy
<1>9. ASSUME NEW a \in Actors, Run(a)
      PROVE  UNCHANGED <<loadVars, jobs>>
  BY <1>9 DEF Run, GetCancel, RecordOutcome, RemoveRunning, DispatchListen,
              DispatchResume
<1>10. ASSUME NEW s \in Stoppers, Stop(s)
       PROVE  UNCHANGED <<loadVars, jobs>>
  BY <1>10 DEF Stop, StopCheck, StopSignal
<1>11. CASE UNCHANGED vars
  BY <1>1, <1>11 DEF vars
<1> QED BY <1>1, <1>2, <1>3, <1>4, <1>5, <1>6, <1>7, <1>8, <1>9, <1>10, <1>11 DEF Next, Load

(* A job that is in the directory at every load is registered whenever no  *)
(* load is under way, for any number of reloads whose remove, insert and   *)
(* clear sections interleave in any order, and any other jobs that come    *)
(* and go.                                                                 *)
THEOREM JobsAreKept == Spec => []NoLostJob
<1>1. Init => Kept
  BY IdentityAssumption DEF Init, Kept
<1>2. IInv /\ Kept => NoLostJob
  <2> SUFFICES ASSUME Kept, loadPc[Boot] = "done", Quiescent, NEW k \in Keys, AlwaysThere(k)
               PROVE  jobs[k] # NoReg
    BY DEF NoLostJob, AlwaysThere, Serving
  <2>1. \A n \in Loads : ~ Coming(n, k)
    BY DEF Quiescent, Coming
  <2> QED BY <2>1 DEF Kept
<1> QED BY <1>1, <1>2, KeptStep, InductiveIInv, PTL DEF Spec
=============================================================================
