------------------------------ MODULE Scheduler ------------------------------
(***************************************************************************)
(* The job registry, the scheduling loops and the running-instance guard   *)
(* of src/src/scheduler.rs.                                                *)
(*                                                                         *)
(* Every operation of the code takes at most one of the two mutexes at a   *)
(* time and releases it before it takes the next one, so the atomic steps  *)
(* here are the lock-protected sections of the code; everything between    *)
(* two sections can interleave with every other thread and task.           *)
(*                                                                         *)
(* A load is one call of register_all (at boot) or of reload_from (one per *)
(* POST /reload that passes the throttle).  The registration made for the  *)
(* i-th job of load n is named <<n, i>>; a cron registration also owns one *)
(* scheduling loop, which is named by the same pair.  An element of Execs  *)
(* stands for one POST /execute together with the task it spawns.          *)
(***************************************************************************)
EXTENDS Naturals, Sequences

CONSTANTS
  Keys,      \* the JobKeys (group, name)
  Loads,     \* identities of register_all / reload_from calls
  Boot,      \* the load main() performs before it serves requests
  Execs,     \* POST /execute requests in flight at the same time
  Stoppers,  \* POST /stop requests in flight at the same time
  MaxJobs,   \* bound: the most jobs one load may return
  Disks,     \* the contents the DSL directory may have: sequences of specs
  Outcomes,  \* the statuses a dispatch may return
  NoReg,     \* "no entry" in the jobs map
  Nobody     \* "no entry" in the running map

Specs == [key : Keys, trigger : {"cron", "manual"}]

Regs   == Loads \X (1 .. MaxJobs)
Actors == Regs \cup Execs

(* The identities are distinct and the sentinels are nobody's identity.    *)
ASSUME IdentityAssumption ==
  /\ Boot \in Loads
  /\ NoReg \notin Regs
  /\ Nobody \notin Actors
  /\ Nobody \notin Keys
  /\ Regs \cap Execs = {}

(* A load returns at most MaxJobs jobs: a bound of the model, not of the   *)
(* code.                                                                   *)
ASSUME DisksAssumption ==
  /\ MaxJobs \in Nat
  /\ Disks \subseteq Seq(Specs)
  /\ \A d \in Disks : Len(d) <= MaxJobs

(* "none" is the empty last_result a JobRuntimeState starts with; no       *)
(* status is empty.                                                        *)
ASSUME OutcomeAssumption == "none" \notin Outcomes

VARIABLES
  loadPc,     \* [Loads -> step of register_all / reload_from]
  loadSpecs,  \* [Loads -> the Vec of specs that load got from the loader]
  loadPos,    \* [Loads -> index of the spec being registered]
  jobs,       \* the jobs map: [Keys -> registration or NoReg]
  running,    \* the running map: [Keys -> the actor that inserted, or Nobody]
  pc,         \* [Actors -> step of the loop / of the trigger_now task]
  reg,        \* [Execs -> the registration trigger_now cloned]
  cancel,     \* [Actors -> whose Notify the actor passes to dispatch]
  ear,        \* [Actors -> is the dispatch waiting on its Notify?]
  last,       \* [Regs -> JobRuntimeState.last_result]
  stopKey     \* [Stoppers -> key found registered, running not yet looked at]

loadVars == <<loadPc, loadSpecs, loadPos>>
runVars  == <<running, pc, reg, cancel, ear, last>>
vars     == <<loadVars, jobs, runVars, stopKey>>

-----------------------------------------------------------------------------
(* Which registration, job and kind of actor a step is about.              *)

RegOf(a) == IF a \in Regs THEN a ELSE reg[a]

SpecOf(r) == loadSpecs[r[1]][r[2]]

KeyOf(a) == SpecOf(RegOf(a)).key

Serving == loadPc[Boot] = "done"

RunSteps == {"began", "dispatch", "remove"}

InRun(a) == pc[a] \in RunSteps

Init ==
  /\ loadPc = [n \in Loads |-> "idle"]
  /\ loadSpecs = [n \in Loads |-> <<>>]
  /\ loadPos = [n \in Loads |-> 1]
  /\ jobs = [k \in Keys |-> NoReg]
  /\ running = [k \in Keys |-> Nobody]
  /\ pc = [a \in Actors |-> IF a \in Regs THEN "unborn" ELSE "idle"]
  /\ reg = [e \in Execs |-> NoReg]
  /\ cancel = [a \in Actors |-> Nobody]
  /\ ear = [a \in Actors |-> "deaf"]
  /\ last = [r \in Regs |-> "none"]
  /\ stopKey = [s \in Stoppers |-> Nobody]

-----------------------------------------------------------------------------
(* Loading and registering.                                                *)

(* load_all: the Vec a load works from is a snapshot of the directory,     *)
(* which may have been edited since the last load.                         *)
LoadDsl(n, d) ==
  /\ loadPc[n] = "idle"
  /\ n # Boot => Serving
  /\ loadSpecs' = [loadSpecs EXCEPT ![n] = d]
  /\ loadPc' = [loadPc EXCEPT ![n] = IF n # Boot THEN "loaded"
                                     ELSE IF d = <<>> THEN "done"
                                     ELSE "register"]
  /\ UNCHANGED <<loadPos, jobs, runVars, stopKey>>

(* Notify::notify_waiters wakes the tasks waiting at this moment and keeps *)
(* no permit for later ones: a dispatch that is not waiting never hears.   *)
NotifyWaiters(hearers) ==
  ear' = [a \in Actors |-> IF a \in hearers /\ ear[a] = "listening"
                           THEN "woken" ELSE ear[a]]

(* Mutant: a reload that also drains the running map.                      *)
ReloadSignalDrains(n) ==
  /\ loadPc[n] = "loaded"
  /\ loadPc' = [loadPc EXCEPT ![n] = "signalled"]
  /\ NotifyWaiters({running[k] : k \in Keys})
  /\ running' = [k \in Keys |-> Nobody]
  /\ UNCHANGED <<loadSpecs, loadPos, jobs, pc, reg, cancel, last, stopKey>>

(* reload_from, first section: signal every instance in the running map.   *)
ReloadSignal(n) ==
  /\ loadPc[n] = "loaded"
  /\ loadPc' = [loadPc EXCEPT ![n] = "signalled"]
  /\ NotifyWaiters({running[k] : k \in Keys})
  /\ UNCHANGED <<loadSpecs, loadPos, jobs, running, pc, reg, cancel,
                 last, stopKey>>

(* reload_from, second section: empty the jobs map.  Dropping the          *)
(* RegisteredJobs drops their JoinHandles, and a dropped JoinHandle        *)
(* detaches its task: every scheduling loop stays where it is.             *)
ReloadClear(n) ==
  /\ loadPc[n] = "signalled"
  /\ loadPc' = [loadPc EXCEPT ![n] = IF loadSpecs[n] = <<>> THEN "done"
                                     ELSE "register"]
  /\ jobs' = [k \in Keys |-> NoReg]
  /\ UNCHANGED <<loadSpecs, loadPos, runVars, stopKey>>

(* The step register() takes without a lock: tokio::spawn of the loop.     *)
SpawnLoop(r) ==
  pc' = [pc EXCEPT ![r] = IF SpecOf(r).trigger = "cron" THEN "next" ELSE @]

(* register, first section, and the spawn after it: the old entry goes     *)
(* (its loop is detached, as above) and the new loop is already running    *)
(* before the new entry is in the map.                                     *)
RegisterRemove(n) ==
  LET r == <<n, loadPos[n]>> IN
  /\ loadPc[n] = "register"
  /\ loadPc' = [loadPc EXCEPT ![n] = "insert"]
  /\ jobs' = [jobs EXCEPT ![SpecOf(r).key] = NoReg]
  /\ SpawnLoop(r)
  /\ UNCHANGED <<loadSpecs, loadPos, running, reg, cancel, ear, last,
                 stopKey>>

(* Mutant: an off-by-one that goes on past the last spec.                  *)
RegisterInsertPastEnd(n) ==
  /\ loadPc[n] = "insert"
  /\ jobs' = [jobs EXCEPT ![SpecOf(<<n, loadPos[n]>>).key] = <<n, loadPos[n]>>]
  /\ loadPc' = [loadPc EXCEPT ![n] = "register"]
  /\ loadPos' = [loadPos EXCEPT ![n] = @ + 1]
  /\ UNCHANGED <<loadSpecs, runVars, stopKey>>

(* Mutant: an off-by-one that leaves the last spec of a load out.          *)
RegisterInsertAllButLast(n) ==
  /\ loadPc[n] = "insert"
  /\ jobs' = [jobs EXCEPT ![SpecOf(<<n, loadPos[n]>>).key] = <<n, loadPos[n]>>]
  /\ IF loadPos[n] + 1 < Len(loadSpecs[n])
     THEN /\ loadPc' = [loadPc EXCEPT ![n] = "register"]
          /\ loadPos' = [loadPos EXCEPT ![n] = @ + 1]
     ELSE /\ loadPc' = [loadPc EXCEPT ![n] = "done"]
          /\ UNCHANGED loadPos
  /\ UNCHANGED <<loadSpecs, runVars, stopKey>>

(* register, second section: insert, and on to the next spec of the load.  *)
RegisterInsert(n) ==
  LET r == <<n, loadPos[n]>> IN
  /\ loadPc[n] = "insert"
  /\ jobs' = [jobs EXCEPT ![SpecOf(r).key] = r]
  /\ IF loadPos[n] < Len(loadSpecs[n])
     THEN /\ loadPc' = [loadPc EXCEPT ![n] = "register"]
          /\ loadPos' = [loadPos EXCEPT ![n] = @ + 1]
     ELSE /\ loadPc' = [loadPc EXCEPT ![n] = "done"]
          /\ UNCHANGED loadPos
  /\ UNCHANGED <<loadSpecs, runVars, stopKey>>

-----------------------------------------------------------------------------
(* The running-instance guard and the run that follows it.                 *)

(* Mutant: insert without the contains_key check.                          *)
BeginRunningUnchecked(a, k) ==
  /\ running' = [running EXCEPT ![k] = a]
  /\ pc' = [pc EXCEPT ![a] = "began"]

(* begin_running: check and insert in one section of the running lock.     *)
BeginRunning(a, k) ==
  /\ running[k] = Nobody
  /\ running' = [running EXCEPT ![k] = a]
  /\ pc' = [pc EXCEPT ![a] = "began"]

(* running.get(key).expect("just inserted").cancel.clone(): the Notify     *)
(* found under the key, whoever inserted it; Nobody would be a panic with  *)
(* the running mutex held.                                                 *)
GetCancel(a) ==
  /\ pc[a] = "began"
  /\ pc' = [pc EXCEPT ![a] = "dispatch"]
  /\ cancel' = [cancel EXCEPT ![a] = running[KeyOf(a)]]
  /\ UNCHANGED <<loadVars, jobs, running, reg, ear, last, stopKey>>

(* Inside dispatch: it waits on the Notify in some selects and is deaf to  *)
(* it elsewhere (spawn, body read, pipe drain, history write).             *)
DispatchListen(a) ==
  /\ pc[a] = "dispatch"
  /\ ear[a] = "deaf"
  /\ ear' = [ear EXCEPT ![a] = "listening"]
  /\ UNCHANGED <<loadVars, jobs, running, pc, reg, cancel, last, stopKey>>

DispatchResume(a) ==
  /\ pc[a] = "dispatch"
  /\ ear[a] # "deaf"
  /\ ear' = [ear EXCEPT ![a] = "deaf"]
  /\ UNCHANGED <<loadVars, jobs, running, pc, reg, cancel, last, stopKey>>

(* Mutant: the outcome is not recorded.                                    *)
RecordOutcomeForgets(a, o) ==
  /\ pc[a] = "dispatch"
  /\ pc' = [pc EXCEPT ![a] = "remove"]
  /\ ear' = [ear EXCEPT ![a] = "deaf"]
  /\ UNCHANGED <<loadVars, jobs, running, reg, cancel, last, stopKey>>

(* dispatch returns and record_outcome writes the registration's state.    *)
RecordOutcome(a, o) ==
  /\ pc[a] = "dispatch"
  /\ pc' = [pc EXCEPT ![a] = "remove"]
  /\ ear' = [ear EXCEPT ![a] = "deaf"]
  /\ last' = [last EXCEPT ![RegOf(a)] = o]
  /\ UNCHANGED <<loadVars, jobs, running, reg, cancel, stopKey>>

(* Mutant: the entry stays in the running map.                             *)
RemoveRunningForgets(a) ==
  /\ pc[a] = "remove"
  /\ pc' = [pc EXCEPT ![a] = IF a \in Regs THEN "next" ELSE "idle"]
  /\ cancel' = [cancel EXCEPT ![a] = Nobody]
  /\ reg' = [e \in Execs |-> IF e = a THEN NoReg ELSE reg[e]]
  /\ UNCHANGED <<loadVars, jobs, running, ear, last, stopKey>>

(* running.remove(key), and the Arc<Notify> goes with the run.             *)
RemoveRunning(a) ==
  /\ pc[a] = "remove"
  /\ running' = [running EXCEPT ![KeyOf(a)] = Nobody]
  /\ pc' = [pc EXCEPT ![a] = IF a \in Regs THEN "next" ELSE "idle"]
  /\ cancel' = [cancel EXCEPT ![a] = Nobody]
  /\ reg' = [e \in Execs |-> IF e = a THEN NoReg ELSE reg[e]]
  /\ UNCHANGED <<loadVars, jobs, ear, last, stopKey>>

-----------------------------------------------------------------------------
(* scheduling_loop of registration r.                                      *)

LoopSleep(r) ==
  /\ pc[r] = "next"
  /\ pc' = [pc EXCEPT ![r] = "sleep"]
  /\ UNCHANGED <<loadVars, jobs, running, reg, cancel, ear, last, stopKey>>

(* The schedule has no further fire time: the loop returns.                *)
LoopExhausted(r) ==
  /\ pc[r] = "next"
  /\ pc' = [pc EXCEPT ![r] = "ended"]
  /\ UNCHANGED <<loadVars, jobs, running, reg, cancel, ear, last, stopKey>>

(* Fire time, inside the window, nothing running: start a run.             *)
LoopFire(r) ==
  /\ pc[r] = "sleep"
  /\ BeginRunning(r, KeyOf(r))
  /\ UNCHANGED <<loadVars, jobs, reg, cancel, ear, last, stopKey>>

(* Fire time, inside the window, the key is busy: the fire is dropped.     *)
LoopBusy(r) ==
  /\ pc[r] = "sleep"
  /\ running[KeyOf(r)] # Nobody
  /\ pc' = [pc EXCEPT ![r] = "next"]
  /\ UNCHANGED <<loadVars, jobs, running, reg, cancel, ear, last, stopKey>>

(* Fire time outside the window (whether it is, is the clock's choice):    *)
(* the loop awaits the SKIPPED history row ...                             *)
LoopOutside(r) ==
  /\ pc[r] = "sleep"
  /\ pc' = [pc EXCEPT ![r] = "skip"]
  /\ UNCHANGED <<loadVars, jobs, running, reg, cancel, ear, last, stopKey>>

(* ... and then record_skip writes the state, run or no run in progress.   *)
LoopRecordSkip(r) ==
  /\ pc[r] = "skip"
  /\ pc' = [pc EXCEPT ![r] = "next"]
  /\ last' = [last EXCEPT ![r] = "SKIPPED"]
  /\ UNCHANGED <<loadVars, jobs, running, reg, cancel, ear, stopKey>>

-----------------------------------------------------------------------------
(* The admin endpoints.                                                    *)

(* trigger_now, first section.  An unregistered key is JobNotFound and     *)
(* changes nothing.                                                        *)
ExecLookup(e, k) ==
  /\ Serving
  /\ pc[e] = "idle"
  /\ jobs[k] # NoReg
  /\ pc' = [pc EXCEPT ![e] = "found"]
  /\ reg' = [reg EXCEPT ![e] = jobs[k]]
  /\ UNCHANGED <<loadVars, jobs, running, cancel, ear, last, stopKey>>

ExecBegin(e) ==
  /\ pc[e] = "found"
  /\ BeginRunning(e, KeyOf(e))
  /\ UNCHANGED <<loadVars, jobs, reg, cancel, ear, last, stopKey>>

(* JobAlreadyRunning.                                                      *)
ExecBusy(e) ==
  /\ pc[e] = "found"
  /\ running[KeyOf(e)] # Nobody
  /\ pc' = [pc EXCEPT ![e] = "idle"]
  /\ reg' = [reg EXCEPT ![e] = NoReg]
  /\ UNCHANGED <<loadVars, jobs, running, cancel, ear, last, stopKey>>

(* stop, first section: the key must be registered (else JobNotFound).     *)
StopCheck(s, k) ==
  /\ Serving
  /\ stopKey[s] = Nobody
  /\ jobs[k] # NoReg
  /\ stopKey' = [stopKey EXCEPT ![s] = k]
  /\ UNCHANGED <<loadVars, jobs, runVars>>

(* stop, second section: signal the instance under the key, if any.        *)
StopSignal(s) ==
  /\ stopKey[s] # Nobody
  /\ NotifyWaiters({running[stopKey[s]]})
  /\ stopKey' = [stopKey EXCEPT ![s] = Nobody]
  /\ UNCHANGED <<loadVars, jobs, running, pc, reg, cancel, last>>

-----------------------------------------------------------------------------

Load(n) ==
  \/ \E d \in Disks : LoadDsl(n, d)
  \/ ReloadSignal(n)
  \/ ReloadClear(n)
  \/ RegisterRemove(n)
  \/ RegisterInsert(n)

Loop(r) ==
  \/ LoopSleep(r)
  \/ LoopExhausted(r)
  \/ LoopFire(r)
  \/ LoopBusy(r)
  \/ LoopOutside(r)
  \/ LoopRecordSkip(r)

Exec(e) ==
  \/ \E k \in Keys : ExecLookup(e, k)
  \/ ExecBegin(e)
  \/ ExecBusy(e)

Run(a) ==
  \/ GetCancel(a)
  \/ \E o \in Outcomes : RecordOutcome(a, o)
  \/ RemoveRunning(a)
  \/ DispatchListen(a)
  \/ DispatchResume(a)

Stop(s) ==
  \/ \E k \in Keys : StopCheck(s, k)
  \/ StopSignal(s)

Next ==
  \/ \E n \in Loads : Load(n)
  \/ \E r \in Regs : Loop(r)
  \/ \E e \in Execs : Exec(e)
  \/ \E a \in Actors : Run(a)
  \/ \E s \in Stoppers : Stop(s)

Spec == Init /\ [][Next]_vars

(* The runtime polls a ready task, so a run goes on from the sections      *)
(* before and after its dispatch.  That the dispatch returns is not        *)
(* assumed, and nothing obliges a client to call.                          *)
Fairness == \A a \in Actors : WF_vars(GetCancel(a) \/ RemoveRunning(a))

FairSpec == Spec /\ Fairness

-----------------------------------------------------------------------------
(* Properties.                                                             *)

LoadSteps == {"idle", "loaded", "signalled", "register", "insert", "done"}
LoopSteps == {"unborn", "next", "sleep", "skip", "ended"}
ExecSteps == {"idle", "found"}

LoadTypeOK ==
  /\ loadPc \in [Loads -> LoadSteps]
  /\ loadSpecs \in [Loads -> Disks \cup {<<>>}]
  /\ loadPos \in [Loads -> Nat]
  /\ \A n \in Loads : loadPc[n] \in {"register", "insert"} =>
                        loadPos[n] \in DOMAIN loadSpecs[n]
  /\ jobs \in [Keys -> Regs \cup {NoReg}]

RunTypeOK ==
  /\ running \in [Keys -> Actors \cup {Nobody}]
  /\ pc \in [Actors -> RunSteps \cup LoopSteps \cup ExecSteps]
  /\ \A r \in Regs : pc[r] \notin ExecSteps
  /\ \A e \in Execs : pc[e] \notin LoopSteps
  /\ reg \in [Execs -> Regs \cup {NoReg}]
  /\ cancel \in [Actors -> Actors \cup {Nobody}]
  /\ ear \in [Actors -> {"deaf", "listening", "woken"}]
  /\ last \in [Regs -> Outcomes \cup {"none", "SKIPPED"}]
  /\ stopKey \in [Stoppers -> Keys \cup {Nobody}]

(* Type invariant: every map holds what its Rust type holds, only a loop   *)
(* sits in the loop's own steps and only a request in a request's, and the *)
(* loop of register_all / reload_from stays inside its Vec.                *)
TypeOK == LoadTypeOK /\ RunTypeOK

(* begin_running's guard: however many loops (those of dropped             *)
(* registrations included), /execute requests and reloads interleave, no   *)
(* job has two runs between begin_running and running.remove.              *)
OneRunPerKey ==
  \A a, b \in Actors :
    InRun(a) /\ InRun(b) /\ KeyOf(a) = KeyOf(b) => a = b

(* An entry of the running map always belongs to a run that will remove    *)
(* it: a reload, a stop or a refused trigger never leaves a key busy with  *)
(* nothing running, which would refuse every later fire of the job.        *)
NoLeakedEntry ==
  \A k \in Keys :
    running[k] # Nobody => /\ InRun(running[k])
                           /\ KeyOf(running[k]) = k

(* expect("just inserted") never panics, and the Notify a dispatch waits   *)
(* on is its own and the one /stop on its key finds in the running map.    *)
StopReachesRun ==
  \A a \in Actors :
    pc[a] = "dispatch" => cancel[a] = a /\ running[KeyOf(a)] = a

Quiescent == \A n \in Loads : loadPc[n] \in {"idle", "done"}

(* A job whose file was in the directory at every load is registered       *)
(* whenever no load is in progress, however the remove, insert and clear   *)
(* sections of overlapping reloads interleaved.                            *)
NoLostJob ==
  Serving /\ Quiescent =>
    \A k \in Keys :
      (\A d \in Disks : \E i \in DOMAIN d : d[i].key = k) => jobs[k] # NoReg

(* A running entry is never overwritten and never removed on behalf of     *)
(* another run: it goes away in its owner's own last step, after the       *)
(* owner's registration got a result for /jobs to show.                    *)
ReleasedByOwner ==
  [][\A k \in Keys :
       running[k] # Nobody /\ running'[k] # running[k] =>
         /\ running'[k] = Nobody
         /\ pc[running[k]] = "remove" /\ pc'[running[k]] # "remove"
         /\ last[RegOf(running[k])] # "none"]_vars

Dispatching(k) == {a \in Actors : pc[a] = "dispatch" /\ KeyOf(a) = k}

active ==
  [k \in Keys |-> IF Dispatching(k) = {} THEN Nobody
                  ELSE CHOOSE a \in Dispatching(k) : TRUE]

Slots == INSTANCE JobSlots

(* The runs of one job are serial: Scheduler implements JobSlots, a slot   *)
(* being held by the actor that is inside dispatch for the key.            *)
SerialRuns == Slots!Spec

(* A busy key becomes free again, always, or else one run of that very job *)
(* has it for good because its dispatch never returns: no stop, reload,    *)
(* refused trigger or hung run of another job leaves a job that can never  *)
(* be started any more.                                                    *)
RunReleased ==
  \A k \in Keys :
    \/ []<>(running[k] = Nobody)
    \/ \E a \in Actors : <>[](running[k] = a /\ pc[a] = "dispatch")

(* The entry of r is not, or no longer, in the jobs map, and r is not on   *)
(* its way there either.                                                   *)
Dropped(r) ==
  /\ jobs[SpecOf(r).key] # r
  /\ ~ (loadPc[r[1]] = "insert" /\ loadPos[r[1]] = r[2])

(* What register() says of itself: "Drop any existing registration first   *)
(* so its scheduling task ends and we don't leak a duplicate loop".  A     *)
(* loop that sleeps when its registration has left the jobs map would not  *)
(* wake up to fire again.                                                  *)
DroppedLoopNeverWakes ==
  [][\A r \in Regs :
       pc[r] = "sleep" /\ Dropped(r) => pc'[r] \in {"sleep", "ended"}]_vars
=============================================================================
