------------------------------ MODULE AdminApi -------------------------------
(***************************************************************************)
(* The handlers of src/src/router.rs from the arrival of a request to its  *)
(* answer, with the sections of src/src/scheduler.rs they go through lock  *)
(* by lock, the DSL load a reload waits for, the deadline of the           *)
(* TimeoutLayer, the layers that log and decorate an answer, and the       *)
(* shutdown that drains the requests.                                      *)
(*                                                                         *)
(* A handler has one await, the one on the load: only there can the        *)
(* deadline or a client that goes away drop it.  The mutexes are those of  *)
(* std::sync, so a handler that waits for one blocks its thread.  Who may  *)
(* call what is AdminGate's subject, when a reload is let through is       *)
(* ReloadGate's, and the scheduling loops are Scheduler's.                 *)
(***************************************************************************)
EXTENDS Loader, Functions

CONSTANTS
  Reqs,      \* the requests; each has its own load
  Nobody     \* no holder of a lock

RequestKinds == {"none", "index", "health", "jobs", "running", "stop", "execute", "reload"}

ASSUME ApiAssumption ==
  /\ Loads = Reqs
  /\ Nobody \notin Reqs \X {"handler", "run"}
  /\ \A c \in Configs : \A r \in Reqs : c.reqs[r].kind \in RequestKinds /\ c.reqs[r].key \in Keys

VARIABLES
  stage,      \* how far every request is
  plan,       \* the sections every thread has still to go through
  inside,     \* whether it is inside the first of them
  visits,     \* the jobs whose state it has still to look at there
  mapLock,    \* who holds the mutex of the jobs and of the running map
  stateLock,  \* who holds the mutex of a job's state
  jobs,       \* the registry: from keys to specs
  running,    \* the keys of the running map
  seen,       \* the keys a handler found in the running map
  loaded,     \* the jobs a reload has still to register
  answer,     \* what every client got
  log,        \* the access log
  phase,      \* of the process
  changed,    \* history: the requests that rebuilt the registry or began a run
  synced      \* history: the registry is to agree with the directory

lockVars    == <<plan, inside, visits, mapLock, stateLock>>
mapVars     == <<jobs, running, seen, loaded, changed, synced>>
answerVars  == <<stage, answer, log>>
apiVars     == <<lockVars, mapVars, answerVars, phase>>

Threads == Reqs \X {"handler", "run"}

Handler(r) == <<r, "handler">>
Run(r)     == <<r, "run">>

Kind(r) == cfg.reqs[r].kind
Key(t)  == cfg.reqs[t[1]].key

(* group_filter: the group in the path, if there is one.                   *)
Shown(t, keys) == {k \in keys : cfg.reqs[t[1]].filter \in {"all", k[1]}}

NoJobs == [k \in {} |-> 0]

NoAnswer == [status |-> 0, json |-> FALSE, traceId |-> "none", decorated |-> FALSE]

ApiInit ==
  /\ stage = [r \in Reqs |-> "idle"]
  /\ plan = [t \in Threads |-> <<>>]
  /\ inside = [t \in Threads |-> FALSE]
  /\ visits = [t \in Threads |-> {}]
  /\ mapLock = [l \in {"jobs", "running"} |-> Nobody]
  /\ stateLock = [k \in Keys |-> Nobody]
  /\ jobs = IF cfg.booted THEN JobsOnDisk ELSE NoJobs
  /\ running = {}
  /\ seen = [t \in Threads |-> {}]
  /\ loaded = [r \in Reqs |-> <<>>]
  /\ answer = [r \in Reqs |-> NoAnswer]
  /\ log = {}
  /\ phase = "serving"
  /\ changed = {}
  /\ synced = cfg.booted

-----------------------------------------------------------------------------
(* Answers.                                                                *)

(* CronManagerError::status.                                               *)
StatusOf(error) ==
  CASE error = "JobNotFound"          -> 404
    [] error = "JobAlreadyRunning"    -> 409
    [] error = "InvalidJobDefinition" -> 400
    [] error = "TooManyRequests"      -> 429
    [] error = "RequestTooLarge"      -> 413
    [] error \in {"Io", "Internal"}   -> 500

(* The traceparent header of a request: none, a well-formed one, one of    *)
(* all zeros, one of another version, or none of these.  The access log    *)
(* and the response read it each in its own way.                           *)
Traceparents == {"absent", "w3c", "zeros", "otherversion", "garbled"}

LoggedTraceId(tp)   == IF tp \in {"w3c", "zeros", "otherversion"} THEN tp ELSE "own"
ResponseTraceId(tp) == IF tp = "w3c" THEN tp ELSE "fresh"

(* Mutant: the 413 of the body-limit layer goes out as it is.              *)
BodyPlain(status, json) == json

(* structured_error_body_middleware: a 413 that is no JSON becomes one.    *)
Body(status, json) == json \/ status = 413

(* security_headers_middleware and traceparent_middleware.                 *)
SecurityHeaders(response) == [response EXCEPT !.decorated = TRUE]

TraceHeaders(r, response) ==
  [response EXCEPT !.traceId = ResponseTraceId(cfg.reqs[r].traceparent)]

(* access_log_middleware.                                                  *)
LogLine(r, status) ==
  [req |-> r, status |-> status, traceId |-> LoggedTraceId(cfg.reqs[r].traceparent)]

(* The layers around the handler, from the inside out.                     *)
Respond(r, status, json) ==
  /\ stage' = [stage EXCEPT ![r] = "done"]
  /\ answer' = [answer EXCEPT ![r] =
       TraceHeaders(r, SecurityHeaders(
         [NoAnswer EXCEPT !.status = status, !.json = Body(status, json)]))]
  /\ log' = log \cup {LogLine(r, status)}

Fail(r, error) == Respond(r, StatusOf(error), TRUE)

(* The deadline lies outside all of these layers.                          *)
Cut(r) ==
  /\ stage' = [stage EXCEPT ![r] = "done"]
  /\ answer' = [answer EXCEPT ![r] = [NoAnswer EXCEPT !.status = 408]]
  /\ UNCHANGED log

-----------------------------------------------------------------------------
(* The sections, in the order in which the scheduler's methods have them.  *)

Program(kind) ==
  CASE kind = "jobs"    -> <<"describe">>
    [] kind = "running" -> <<"snapshot", "lookup">>
    [] kind = "stop"    -> <<"find", "notify", "snapshot", "lookup">>
    [] kind = "execute" -> <<"find", "begin", "get", "snapshot", "lookup">>

(* reload_from and a register per job.                                     *)
Rebuild(n) ==
  <<"notify", "clear">>
    \o [i \in 1 .. 2 * n |-> IF i % 2 = 1 THEN "remove_job" ELSE "insert"]

(* The task that trigger_now spawns: record_outcome, then running.remove.  *)
RunTask == <<"dispatch", "record", "remove">>

OnRunning == {"snapshot", "notify", "begin", "get", "remove"}
OnJobs    == {"describe", "lookup", "find", "clear", "remove_job", "insert"}
Reading   == {"describe", "lookup"}

Section(t) == Head(plan[t])
Map(t)     == IF Section(t) \in OnJobs THEN "jobs" ELSE "running"

Up == phase \in {"serving", "draining", "stopped"}

(* lock().unwrap().  Under the jobs mutex describe goes through the jobs   *)
(* it shows, describe_running through those it saw running.  A key that is *)
(* registered again gets a new state; the model keeps one mutex per key,   *)
(* which makes threads wait more, never less.                              *)
Enter(t) ==
  /\ Up
  /\ plan[t] # <<>> /\ ~ inside[t] /\ Section(t) # "dispatch"
  /\ \/ /\ Section(t) = "record"
        /\ stateLock[Key(t)] = Nobody
        /\ stateLock' = [stateLock EXCEPT ![Key(t)] = t]
        /\ UNCHANGED mapLock
     \/ /\ Section(t) # "record"
        /\ mapLock[Map(t)] = Nobody
        /\ mapLock' = [mapLock EXCEPT ![Map(t)] = t]
        /\ UNCHANGED stateLock
  /\ inside' = [inside EXCEPT ![t] = TRUE]
  /\ visits' = [visits EXCEPT ![t] = IF Section(t) = "describe" THEN Shown(t, DOMAIN jobs)
                                     ELSE IF Section(t) = "lookup" THEN seen[t] \cap DOMAIN jobs
                                     ELSE {}]
  /\ UNCHANGED <<plan, mapVars, answerVars, phase>>

(* The state mutex of one job, taken while the jobs mutex is held.         *)
TakeState(t, k) ==
  /\ inside[t] /\ Section(t) \in Reading
  /\ k \in visits[t]
  /\ \A j \in Keys : stateLock[j] # t
  /\ stateLock[k] = Nobody
  /\ stateLock' = [stateLock EXCEPT ![k] = t]
  /\ UNCHANGED <<plan, inside, visits, mapLock, mapVars, answerVars, phase>>

DropState(t, k) ==
  /\ inside[t] /\ Section(t) \in Reading
  /\ stateLock[k] = t
  /\ stateLock' = [stateLock EXCEPT ![k] = Nobody]
  /\ visits' = [visits EXCEPT ![t] = @ \ {k}]
  /\ UNCHANGED <<plan, inside, mapLock, mapVars, answerVars, phase>>

(* Mutant: the guard of the running map lives on while jobs is locked.     *)
ReleaseMapLate(t) ==
  mapLock' = IF Section(t) = "snapshot" THEN mapLock
             ELSE [l \in DOMAIN mapLock |-> IF mapLock[l] = t THEN Nobody ELSE mapLock[l]]

ReleaseMap(t) == mapLock' = [mapLock EXCEPT ![Map(t)] = Nobody]

Release(t) ==
  /\ inside' = [inside EXCEPT ![t] = FALSE]
  /\ IF Section(t) = "record"
     THEN stateLock' = [stateLock EXCEPT ![Key(t)] = Nobody] /\ UNCHANGED mapLock
     ELSE ReleaseMap(t) /\ UNCHANGED stateLock
  /\ UNCHANGED visits

(* On to the next section; after the last one a handler answers.           *)
Proceed(t) ==
  /\ Release(t)
  /\ plan' = IF Section(t) = "get"
             THEN [plan EXCEPT ![t] = Tail(@), ![Run(t[1])] = RunTask]
             ELSE [plan EXCEPT ![t] = Tail(@)]
  /\ IF Tail(plan[t]) = <<>> /\ t[2] = "handler"
     THEN Respond(t[1], 200, TRUE)
     ELSE UNCHANGED answerVars

(* Mutant: an error return that does not drop the guard.                   *)
BailHolding(t, error) ==
  /\ plan' = [plan EXCEPT ![t] = <<>>]
  /\ Fail(t[1], error)
  /\ UNCHANGED <<inside, visits, mapLock, stateLock>>

(* An error return of a handler.                                           *)
Bail(t, error) ==
  /\ Release(t)
  /\ plan' = [plan EXCEPT ![t] = <<>>]
  /\ Fail(t[1], error)

In(t, section) == inside[t] /\ Section(t) = section

(* The first section of trigger_now and of stop.                           *)
Find(t) ==
  /\ In(t, "find")
  /\ IF Key(t) \in DOMAIN jobs THEN Proceed(t) ELSE Bail(t, "JobNotFound")
  /\ UNCHANGED mapVars

(* begin_running.                                                          *)
Begin(t) ==
  /\ In(t, "begin")
  /\ \/ /\ Key(t) \in running
        /\ Bail(t, "JobAlreadyRunning")
        /\ UNCHANGED <<running, changed>>
     \/ /\ Key(t) \notin running
        /\ running' = running \cup {Key(t)}
        /\ changed' = changed \cup {t[1]}
        /\ Proceed(t)
  /\ UNCHANGED <<jobs, seen, loaded, synced>>

(* get(key).expect(..), with the spawn of the run; the notifications of    *)
(* stop and reload_from; the end of a reading.                             *)
Pass(t) ==
  /\ inside[t]
  /\ \/ Section(t) \in {"get", "notify", "record"}
     \/ Section(t) \in Reading /\ visits[t] = {}
  /\ Proceed(t)
  /\ UNCHANGED mapVars

Snapshot(t) ==
  /\ In(t, "snapshot")
  /\ seen' = [seen EXCEPT ![t] = Shown(t, running)]
  /\ Proceed(t)
  /\ UNCHANGED <<jobs, running, loaded, changed, synced>>

Clear(t) ==
  /\ In(t, "clear")
  /\ jobs' = NoJobs
  /\ changed' = changed \cup {t[1]}
  /\ synced' = (loaded[t[1]] = <<>> /\ t[1] \notin dirty)
  /\ Proceed(t)
  /\ UNCHANGED <<running, seen, loaded>>

RemoveJob(t) ==
  /\ In(t, "remove_job")
  /\ jobs' = Restrict(jobs, DOMAIN jobs \ {Head(loaded[t[1]]).key})
  /\ Proceed(t)
  /\ UNCHANGED <<running, seen, loaded, changed, synced>>

Insert(t) ==
  /\ In(t, "insert")
  /\ LET r == t[1]
         j == Head(loaded[r])
     IN  /\ jobs' = [k \in DOMAIN jobs \cup {j.key} |-> IF k = j.key THEN j.spec ELSE jobs[k]]
         /\ loaded' = [loaded EXCEPT ![r] = Tail(@)]
         /\ synced' = (Tail(loaded[r]) = <<>> /\ r \notin dirty)
  /\ Proceed(t)
  /\ UNCHANGED <<running, seen, changed>>

RemoveRunning(t) ==
  /\ In(t, "remove")
  /\ running' = running \ {Key(t)}
  /\ Proceed(t)
  /\ UNCHANGED <<jobs, seen, loaded, changed, synced>>

Leave(t) ==
  /\ Up
  /\ \/ Find(t) \/ Begin(t) \/ Pass(t) \/ Snapshot(t)
     \/ Clear(t) \/ RemoveJob(t) \/ Insert(t) \/ RemoveRunning(t)
  /\ UNCHANGED phase

(* dispatch returns; Dispatch says what it does and when.                  *)
DispatchEnds(t) ==
  /\ phase \in {"serving", "draining"}
  /\ plan[t] # <<>> /\ Section(t) = "dispatch"
  /\ plan' = [plan EXCEPT ![t] = Tail(@)]
  /\ UNCHANGED <<inside, visits, mapLock, stateLock, mapVars, answerVars, phase, loadVars>>

SectionStep(t) ==
  /\ \/ Enter(t) \/ Leave(t)
     \/ Up /\ (\E k \in Keys : TakeState(t, k) \/ DropState(t, k))
  /\ UNCHANGED loadVars

-----------------------------------------------------------------------------
(* The handlers around the sections.                                       *)

StartHandler(r) ==
  /\ stage' = [stage EXCEPT ![r] = "sections"]
  /\ plan' = [plan EXCEPT ![Handler(r)] = Program(Kind(r))]
  /\ UNCHANGED <<inside, visits, mapLock, stateLock, answer, log, task>>

(* reload_jobs: throttled, or a load is spawned and awaited.               *)
StartReload(r) ==
  /\ stage' = [stage EXCEPT ![r] = "loading"]
  /\ SpawnLoad(r)
  /\ UNCHANGED <<lockVars, answer, log>>

AnswerAtOnce(r) ==
  /\ \/ cfg.reqs[r].big /\ Respond(r, StatusOf("RequestTooLarge"), FALSE)
     \/ ~ cfg.reqs[r].big /\ Kind(r) = "index" /\ Respond(r, 200, FALSE)
     \/ ~ cfg.reqs[r].big /\ Kind(r) = "health" /\ Respond(r, 200, TRUE)
     \/ ~ cfg.reqs[r].big /\ Kind(r) = "reload" /\ Fail(r, "TooManyRequests")
  /\ UNCHANGED <<lockVars, task>>

Arrive(r) ==
  /\ phase = "serving"
  /\ stage[r] = "idle" /\ Kind(r) # "none"
  /\ \/ AnswerAtOnce(r)
     \/ ~ cfg.reqs[r].big /\ Kind(r) \in {"jobs", "running", "stop", "execute"} /\ StartHandler(r)
     \/ ~ cfg.reqs[r].big /\ Kind(r) = "reload" /\ StartReload(r)
  /\ UNCHANGED <<mapVars, phase, cfg, disk, edits, environ, rotated, dirty>>

Rebuilding == {r \in Reqs : Kind(r) = "reload" /\ stage[r] = "sections"}

Awaiting(r) == phase \in {"serving", "draining"} /\ stage[r] = "loading"

(* The load came back in time.                                             *)
LoadReturns(r) ==
  /\ Awaiting(r)
  /\ \/ /\ task[r].pc = "ok"
        /\ stage' = [stage EXCEPT ![r] = "sections"]
        /\ plan' = [plan EXCEPT ![Handler(r)] = Rebuild(Len(task[r].out))]
        /\ loaded' = [loaded EXCEPT ![r] = task[r].out]
        /\ dirty' = IF Rebuilding = {} THEN dirty ELSE dirty \cup Rebuilding \cup {r}
        /\ UNCHANGED <<answer, log>>
     \/ /\ \/ task[r].pc = "io" /\ Fail(r, "Io")
           \/ task[r].pc = "refused" /\ Fail(r, "InvalidJobDefinition")
           \/ task[r].pc = "panic" /\ Fail(r, "Internal")
        /\ UNCHANGED <<plan, loaded, dirty>>
  /\ UNCHANGED <<inside, visits, mapLock, stateLock, jobs, running, seen, changed,
                 synced, phase, cfg, disk, edits, environ, rotated, task>>

(* Mutant: the timeout is only noticed once the task is over.              *)
LoadTimesOutLate(r) ==
  /\ Awaiting(r) /\ ~ Walking(r)
  /\ Fail(r, "Internal")
  /\ UNCHANGED <<lockVars, mapVars, phase, loadVars>>

(* dsl_load_timeout_secs: the handler gives up, the task does not.         *)
LoadTimesOut(r) ==
  /\ Awaiting(r)
  /\ Fail(r, "Internal")
  /\ UNCHANGED <<lockVars, mapVars, phase, loadVars>>

(* Mutant: the deadline also strikes in the middle of the rebuild.         *)
DeadlineAnywhere(r) ==
  /\ cfg.deadline
  /\ Awaiting(r) \/ (r \in Rebuilding /\ ~ inside[Handler(r)])
  /\ Cut(r)
  /\ plan' = [plan EXCEPT ![Handler(r)] = <<>>]
  /\ UNCHANGED <<inside, visits, mapLock, stateLock, mapVars, phase, loadVars>>

(* limits.request_timeout_secs, unless it is 0.                            *)
Deadline(r) ==
  /\ cfg.deadline
  /\ Awaiting(r)
  /\ Cut(r)
  /\ UNCHANGED <<lockVars, mapVars, phase, loadVars>>

(* The client closes the connection and the handler is dropped.            *)
ClientLeaves(r) ==
  /\ cfg.leaves
  /\ Awaiting(r)
  /\ stage' = [stage EXCEPT ![r] = "gone"]
  /\ UNCHANGED <<lockVars, mapVars, answer, log, phase, loadVars>>

-----------------------------------------------------------------------------
(* main() and signal.rs.                                                   *)

(* shutdown_signal resolves on a signal whose handler could be installed;  *)
(* the others keep what the system does by default.                        *)
Signal(s) ==
  /\ cfg.signals
  /\ phase = "serving"
  /\ phase' = IF s \in cfg.handlers THEN "draining" ELSE "killed"
  /\ UNCHANGED <<lockVars, mapVars, answerVars, loadVars>>

(* Mutant: the drain waits for the runs as well.                           *)
DrainedOfRuns ==
  /\ phase = "draining"
  /\ ~ cfg.lingers
  /\ \A r \in Reqs : stage[r] \notin {"loading", "sections"}
  /\ \A t \in Threads : plan[t] = <<>>
  /\ phase' = "stopped"
  /\ UNCHANGED <<lockVars, mapVars, answerVars, loadVars>>

(* with_graceful_shutdown: every connection has ended, those with an open  *)
(* request once it has been answered; main() returns and the runtime drops *)
(* what is awaiting something.  The wait has no limit, and a client that   *)
(* lingers, with half a request sent, is waited for.                       *)
Drained ==
  /\ phase = "draining"
  /\ ~ cfg.lingers
  /\ \A r \in Reqs : stage[r] \notin {"loading", "sections"}
  /\ phase' = "stopped"
  /\ UNCHANGED <<lockVars, mapVars, answerVars, loadVars>>

(* The runtime waits for its worker threads and for every blocking task,   *)
(* the abandoned loads included.                                           *)
Exit ==
  /\ phase = "stopped"
  /\ \A t \in Threads : plan[t] # <<>> => Section(t) = "dispatch"
  /\ \A r \in Reqs : ~ Walking(r)
  /\ phase' = "exited"
  /\ UNCHANGED <<lockVars, mapVars, answerVars, loadVars>>

Await(r) == LoadReturns(r) \/ LoadTimesOut(r) \/ Deadline(r) \/ ClientLeaves(r)

ApiStep ==
  \/ \E r \in Reqs : Arrive(r) \/ Await(r)
  \/ \E t \in Threads : SectionStep(t) \/ DispatchEnds(t)
  \/ \E s \in {"TERM", "INT"} : Signal(s)
  \/ Drained \/ Exit
=============================================================================
