# CronManager: a TLA+ verification project

TLA+ modules that model the core of CronManager, the TLC configurations that
check them on small instances, and TLAPS proofs that establish the main results
for every value of the constants. The Rust source under `src/src/` is the
reference: a definition is a translation of the lines `PROJECT.json` maps it
to, and a disagreement between a document and the code is settled in favour of
the code and listed as a finding.

## 1. The system

CronManager loads job definitions from a directory of YAML files, fires each on
its cron schedule (or on request), runs it as an HTTP call or a child process
with retries, and writes one row per attempt to PostgreSQL. An HTTP server
offers `/jobs`, `/running`, `/execute/{group}/{job}`, `/stop/{group}/{job}` and
`/reload/{group}`.

| Component | State | Operations | Talks to |
|---|---|---|---|
| Scheduler (`scheduler.rs`) | `jobs` map (registration, loop handle, last result), `running` map (one `Notify` per busy key), each behind its own mutex; a tokio task per cron job | `register`, `register_all`, `reload_from`, `trigger_now`, `stop`, `begin_running`, `scheduling_loop`, `record_outcome`, `record_skip` | calls dispatch; called by the router and `main` |
| Dispatch (`executor/mod.rs`) | attempt counter, last error | `dispatch`, `offline_stub` | calls the two executors and the recorder; hears the `Notify` |
| Shell executor (`executor/shell.rs`) | child process, two pipe-reading tasks | spawn with ETXTBSY retries, select on exit / timeout / cancel, drain | the operating system |
| HTTP executor (`executor/http.rs`) | none | pre-flight (DNS, address policy), headers, send, bounded body | the network, the process environment |
| History (`history/`) | a connection pool | `record`, which absorbs its errors | PostgreSQL |
| Reload throttle (`router.rs`, `ReloadGate`) | group -> last admission, bounded | `admit` | called by `reload_jobs` |
| Admin gate, router (`router.rs`) | none | token check per group, query bounds, the handlers | scheduler, loader, throttle |
| Layers (`router.rs`, `access_log.rs`, `traceparent.rs`, `security_headers.rs`, `error.rs`) | none | body limit, rewriting of a 413, headers, trace id, access log, request deadline | wrap every handler |
| Shutdown (`signal.rs`, `main.rs`) | none | SIGTERM and SIGINT, the drain of open requests, the end of the runtime | the HTTP server, blocking tasks |
| DSL loader (`dsl/`) | a blocking task per load | walk, stat, read, parse, validate, under a timeout | the file system |
| Boot and posture (`main.rs`, `env_safety.rs`, `config.rs`, `doctor.rs`) | configuration | ordered checks that may refuse to start | everything |
| Address policy, sanitising (`security.rs`) | none | pure functions | HTTP executor, loader, logging |

How they interact. The scheduler calls dispatch with the key's `Notify`. A stop
or a reload calls `notify_waiters` on it, which wakes only a waiter that is
waiting at that moment and leaves no permit. Dispatch hands rows to history
while its key is still in the running map, so a slow insert keeps the job busy.
A reload runs on the request's task and interleaves with every loop, with
every `/execute` and with another group's reload: the throttle is per group,
the reload is of everything.

What is hard here:

- the jobs map and the running map have separate locks, so `trigger_now`,
  `stop`, `register` and `reload_from` each consist of several atomic sections;
- a dropped `JoinHandle` detaches its task, so loops outlive their registration;
- `begin_running` and the lookup of the `Notify` are two sections joined by
  `expect("just inserted")`;
- a stop can arrive while the dispatch is deaf, or be taken for an ordinary
  failure and retried;
- an attempt can end by exit, error, timeout or stop, with the insert of its
  row failing or being cut off by shutdown;
- the timeout does not cover the drain of the output pipes;
- time is compared after rounding down to seconds, in a map with a hard cap;
- the gate on requests lets everything pass without a token and relies on checks
  made at boot, which `doctor` replays by hand;
- a load is a blocking task that nothing cancels: its timeout, the request's
  deadline and the client's departure leave it running, and the directory may be
  edited under it;
- the loader screens literal addresses and the executor names, each relying on
  the other, and the header variables are checked at one time and read at another,
  with a rotation in between;
- the gate looks a group's token up by the undecoded segment of the URL, and the
  handler acts on the decoded one;
- three tiers of mutexes (running, jobs, a job's state) are taken by five methods
  on the threads of the runtime.

`PROJECT.json` lists these as hazards, each at its line, with the property
that covers it or the reason why none does.

What makes each component correct: the scheduler never overlaps two runs of a
job, never leaks or steals a running entry, never loses a job in a reload, and
lets a stop reach the run it is for; a dispatch returns if what it waits
for does, writes one row per attempt in order, reports the outcome those rows tell, and leaves no process
beside which a retry would run; the throttle bounds its map, keeps its promise
to a client that waits, and opens early only when the cap forces it; a service
that came up lets only those reach a state-changing handler whom its
configuration allows, and what `doctor` says of a configuration is what `main()`
does with it; a reload leaves what the directory says or changes nothing, and
the client is told which; no request waits for a disk or a lock for ever, and a
shutdown ends; a fire talks only to addresses that were screened, finds the
headers its job was accepted with at the values they have now, and leaves texts of
bounded size.

## 2. The modules

| Module | Models | Role |
|---|---|---|
| `Scheduler` | `scheduler.rs`, the reload, execute and stop handlers | component |
| `JobSlots` | what the running guard promises: serial invocations per job | abstract specification of `Scheduler` |
| `Dispatch` | `dispatch`, both executors, the recorder's answer | component |
| `RunContract` | what the scheduler relies on when it calls dispatch | abstract specification of `Dispatch` |
| `ReloadGate` | `ReloadGate::admit` | component |
| `Boot` | `main()` up to the bind, `env_safety.rs`, the settings those read, `doctor.rs` | component |
| `AdminGate` | routes, `admin_gate`, the query checks of `/execute`; extends `Boot` | composition of the boot checks with the gate |
| `AddressPolicy` | the address rules of `security.rs`, the allowlist, `ssrf_refuses`; a list of networks as their reference | operators |
| `TextCaps` | the escapes and the truncations of `security.rs` and `http.rs` | operators |
| `JobFile` | `RawJob::into_spec` and what it calls | operators; extends `AddressPolicy` |
| `Loader` | `load_all_bounded`, the walk, `load_file_with_policy`; what the tree says without a walk | component; extends `JobFile` |
| `HttpFire` | what `HttpExecutor::execute` decides on | component; extends `JobFile`, `TextCaps` |
| `AdminApi` | the handlers, lock by lock, the layers around them, the shutdown | component; extends `Loader` |
| `Service` | the above side by side, with an operator who edits the directory and rotates variables | composition |
| `SchedulerProofs`, `DispatchProofs`, `ReloadGateProofs`, `AdminGateProofs` | | theorems and proofs about the module of that name |
| `ServiceProofs` | | the inductive invariant of `Service`: its types and its mutexes |
| `RegistryProofs`, `FireProofs`, `AnswerProofs` | | what `Service` registers, what it fires (with `AddressPolicy` and `TextCaps`), what it answers; all extend `ServiceProofs` |
| `MCScheduler`, `MCDispatch`, `MCReloadGate`, `MCAdminGate`, `MCService` | | instances for TLC |

### Scheduler

The atomic steps are the lock-protected sections. `loadPc`, `loadSpecs`,
`loadPos` are the program counters of `register_all` and `reload_from`, with
the Vec the loader returned and the index in it; `jobs` and `running` are the
two maps; `pc` places each scheduling loop and each `/execute` task; `cancel`
is whose `Notify` a run got hold of, and `ear` whether its dispatch waits on
it; `last` is the `last_result` of each registration.

A registration is the pair of its load and its index, so a registration that a
reload dropped and its loop, which lives on, keep their identity. `register`
becomes two steps: the removal of the old entry with the spawn of the loop
after it, and the insertion. `begin_running` is one step; the lookup of the
`Notify`, the outcome and `running.remove` are one each. Inside dispatch an
actor may listen, stop listening and return, as `RunContract` says; what
happens there in detail is `Dispatch`. The window check is the clock's choice.
When the loader fails, `reload_jobs` returns before it touches the scheduler,
which is a stutter.

### Dispatch

One call of `dispatch`. The steps are the stretches between awaits. The cancel
`Notify` is raced in two of them only: the wait for the response or the child
(`"wait"`), and the delay between attempts (`"delay"`). In the others
(`"prepare"`, `"kill"`, `"finish"`, `"record"`) a notification is lost. A timeout or
an abort of a shell attempt first awaits `kill()`; its result is ignored in the
code, so the child is then reaped or, like one whose `wait()` failed, `"stray"`:
nothing is known of it. An attempt comes to `ok`, `error`, `aborted` or `timeout`; what an error says is left out. Rows
are recorded in the order they are handed to the recorder, with whether the
database stored them. `count + 1` wraps as u32 does in a release build.
`Drop` is the runtime being dropped at shutdown at any await.

### ReloadGate

`admit` runs under one mutex, so a call is one step. A tick is a fraction of a
second, because `as_secs` rounds down. `granted` and `promised` are history
variables: when a group was last let through, and when the last 429 told it to
come back.

### Boot and AdminGate

`cfg` is the configuration together with its surroundings (the environment
variables, what `dsl_path` points at), chosen in the initial state. `pc` walks
through `main()`, one step per check in its order; a check that fails leaves
`pc = "refused"` and its name in `why`. What may fail without the configuration's
fault (the HTTP client, a slow load, a port in use, a database that does not
answer) is a choice of the step. A secret is the class of values the checks tell
apart. `CredsPanic` is the slice in `redact`. The doctor has no state: `Fatal`,
`Break` and `ExitCode` are its report on `cfg`.

Once `pc = "serving"`, `AdminGate` answers a request in one step: the gate's
verdict, then the checks on the query, then `"next"`, the handler, which is an
action of `Scheduler` or `ReloadGate`. A header names whose token is sent; the
tokens are assumed to be different. A request names a segment of a URL, and
`Decode` gives the name it decodes to, which is what the handler acts on.
`extract_group_from_path` looks up the undecoded segment. So the token of a group
whose name needs an escape never opens that group, and the token of a group named
`a%20b` opens the group `a b`: `HandledOnlyIfAllowed` says what the code does, that
the name of the token's group decodes to the group acted on, and for groups without
a `%` in their names this is the group itself. (A segment that does not decode is
refused by the framework before any handler.)

### AddressPolicy, JobFile and TextCaps

Operators without state. `AddressPolicy` has octets and segments in their full
range; the `std::net` predicates are external and defined by the bits they test.
Beside the code's rules stand lists of networks, which the code does not have,
and the two are proved equal. The lists follow the code: they are the networks that
the comments of `security.rs` name without the documentation ranges, which the
comment calls included and the code lets through. Those have a list of their own
(`DocumentationNets4`) and a theorem that says so. In `JobFile` a raw job is a record of what the
checks tell apart: a YAML value, a cron expression, a method or a URL is the class
of inputs a check accepts or rejects. `TextCaps` takes a text as a sequence of
characters of which only the length in bytes and the escape count. A sanitised
text is the set of the offsets at which a character begins or the text ends, built
character by character as in the code's loops; offsets, boundaries and the
saturating subtraction are the code's.

### Loader

`task` holds the blocking tasks: `todo` is the stack of the recursive walk (a
directory is replaced by its sorted entries), `out` the jobs so far. `Entries` says
what a sorted listing is instead of sorting, because the prover has no definition
of the library's sort; there is exactly one such listing, as the proofs show. A file is
looked at in two steps, `metadata` and then `read_to_string`, between which it may
change. `disk` is what every path holds and `Edit` changes it at any moment.
`environ` is the environment of the process and `Rotate` changes a variable of it;
`rotated` counts how often. `LoadMisses` is an entry (of `cfg.flaky`) that `read_dir`
fails to give, which `filter_map` drops without a word. `JobsOnDisk` is the reference:
the registry that the tree stands for, without a walk. `dirty` records the loads that
an edit, a rotation or another rebuild overlapped, or that lost an entry.

### AdminApi

A request is a thread with a `plan`, the lock sections of the methods its handler
calls, in order; `inside`, `mapLock` and `stateLock` are the mutexes, `visits` the
jobs whose state a reading section has still to lock while it holds `jobs`. A run
that `/execute` spawns is a second thread. The only await of a handler is the one
on the load, so only there (`Awaiting`) can the load's timeout, the deadline or
the client end it. `Respond` passes an answer through the layers, `Cut` is the
deadline's answer, which lies outside all of them. A mutex is kept per key, though
a key that is registered again gets a new state: threads wait more in the model
than in the code. `phase` is the process: serving, draining, stopped (the runtime
waits for its blocking tasks), exited, or killed by a signal without a handler.
`Drained` needs every request that arrived to be answered and no connection to
linger: axum waits for connections, and a client that has sent half a request head
(`cfg.lingers`) keeps one open for as long as it likes.

### HttpFire

One attempt: `"preflight"`, `"headers"`, `"sent"` and how it ended. `vetted` is the
set of addresses the pre-flight looked at; `read` the environment as the headers
were built from it, and `began` how often each variable had been rotated when the
fire began; `kept` is what is stored of the answer. The variables of one attempt are
read in one step: there is no await between them.
An IPv6 literal arrives in brackets and goes through the lookup, as in the code.

### How they compose

`RunContract` is the seam: its actions are those `Scheduler` gives an actor
between `GetCancel` and `RecordOutcome`, and `Dispatch` implements it, so what
is shown of `Scheduler` holds with the real dispatch in place. Neither module
assumes that a dispatch returns. `RunReleased` says that a key is freed again and
again, or else one run of that very job is inside dispatch for good;
`HangsOnlyUntimed` says of such a dispatch that it is stuck in one of the awaits
that no timer covers.

`AdminGate` extends `Boot`, so its properties are of a service that `main()`
has let start and not of the gate alone. Its `"next"` is where `ReloadGate`
(for `/reload`) and then `Scheduler` take over.

`Service` puts `AdminApi`, `Loader` and `HttpFire` side by side over one
configuration: a reload of `AdminApi` waits for a task of `Loader`, the specs that
`JobFile` accepted get into the registry, and `JobFires` fires one of them, so
`FiresOnlyScreened` and `HeadersFresh` are about what loader and executor do
together. `Scheduler` and `AdminApi` overlap on purpose: the former has the cron
loops, the identities of runs and dropped registrations, the latter the mutexes
and the answers.

## 3. The runs

Passing runs:

| Run | Instance | Shows |
|---|---|---|
| `scheduler_reload` | 1 key, manual or yielded twice as a cron job, boot and 1 reload: up to 4 loops, 1 execute, 1 stop | `TypeOK`; `OneRunPerKey`; `NoLeakedEntry`; `StopReachesRun`; `ReleasedByOwner`; `SerialRuns` (implements `JobSlots`) |
| `scheduler_registry` | 2 manual keys, one of which comes and goes; boot and 2 overlapping reloads; 2 executes; fair, but no dispatch has to return | `NoLostJob`; `RunReleased` |
| `dispatch_all` | both kinds, 0 to 2 retries and the wrapping count, ignoreFailures or not, offline or not; fair | `TypeOK`; `HistoryInOrder`; `OutcomeTold`; `OneChild`; `KeepsContract` (implements `RunContract`); `HangsOnlyUntimed` |
| `gate_all` | 3 groups, a map of 2, intervals 0, 1, 2 s, half-second ticks | `TypeOK`; `EntriesBounded`; `RetryAfterSuffices`; `EarlyOnlyIfCrowded` |
| `boot_all` | 3 groups, one whose name needs an escape and one whose name is that escape; 1990 configurations; every route, header and query | `TypeOK`; `DoctorAgrees`; `HandledOnlyIfAllowed`; `OverridesOnlyInDev` |
| `service_all` | configurations in five families (jobs of every kind loaded and fired; variables rotated or lost around load and fire; every short answer against every cap; every tree, two edits or a lost entry under way; up to 3 requests with deadline, lost client, hung disk, lingering connection and shutdown); fair | `TypeOK`; `LockDiscipline`; `AnswerTruthful`; `RegistryMatchesDisk`; `FiresOnlyScreened`; `HeadersFresh`; `KeptTextFits`; `AnswersLogged`; `EveryRequestAnswered`; `ShutdownEnds` |

Runs that end in a counterexample, because the code does something else than
one of its documents or comments says:

| Run | Statement | What the code does |
|---|---|---|
| `scheduler_dropped` | `register`: "Drop any existing registration first so its scheduling task ends" | dropping a tokio `JoinHandle` detaches the task: the old loop goes on firing its old spec after every reload |
| `dispatch_pipe` | SECURITY.md: "Never unbounded" | after the child exits the pipe readers are awaited without timeout or cancel |
| `dispatch_stop` | `stop`: "Signal the currently-running instance of a job (if any) to abort" | an aborted attempt counts as a failure and is retried |
| `dispatch_nocap` | configuration: "`0` disables the cap" | a timeout of 0 s is ready at once, and the child is killed |
| `boot_doctor` | doctor: "`FATAL`: refuse-to-start conditions ... exits 1 if any are present" | an unset database password, a `dsl_path` that is no readable directory and a refused fixture stop `main()`, and `doctor` exits 0 |
| `boot_weak` | `enforce_creds`: "In dev, all failures are emitted as WARN and the function returns Ok" | `redact` slices at byte offsets and panics within a multi-byte character |

`scheduler_dropped` is why the safety of the running guard is not a formality:
after a reload the loops of every earlier load compete for the key with the new
one, and it is `begin_running` alone that keeps their runs apart. It does not
keep them from taking turns.

Smaller disagreements show in the definitions and have no run of their own:

- `book/src/failure-modes.md:41-49` says of the status column: FAILED only if
  `ignoreFailures` was false, SKIPPED if `ignoreFailures` swallowed a failure,
  RETRYING if another retry is queued. The code writes FAILED in the last row
  also of a job with `ignoreFailures` (only the outcome on `/jobs` is SKIPPED), and
  a stop in the retry delay leaves RETRYING as the last row of a dispatch that has
  ended (`RowStatus`, `Exhausted`, `DelayAborted`). `OutcomeTold` takes no side: it
  compares what both agree on and leaves open with which word a row tells a failure;
- `security.rs:70-73` names the documentation ranges among what
  `is_private_or_local` covers ("included"); the code refuses none of them
  (`DocumentationPasses`, proved);
- `book/src/configuration.md:65` has a request accepted with the master token "OR the
  group-specific token": the gate looks the undecoded segment up and the handler acts
  on the decoded one, so the token of a group literally named `a%20b` opens the group
  `a b`, and that of `a b` opens nothing (`PathGroup`, `HandledOnlyIfAllowed`);
- `loader.rs:574-577` "an empty `Authorization:` [...] must fail LOUDLY at load, never
  silently at fire": a variable that is emptied after the load is sent as an empty
  header (`AttachHeaders`, `HeadersFresh`);
- `config.rs:209` "Second request within the window → 429": the hard cap of the
  throttle may evict an entry whose window is open. `EarlyOnlyIfCrowded` says
  exactly when;
- `env_safety.rs:18-20` "Missing or unknown values fail-safe to `Production`":
  with none of the variables set the environment is Dev (`RawEnv`);
- `bearer_token_bytes` trims the presented token while the configured one is
  compared as it is, and `is_weak` trims too: a token with white space around it
  passes the boot checks and then matches nobody (`SentIntact`);
- `access_log.rs:8` ("exactly one INFO line per completed request"),
  `traceparent.rs:3`, `security_headers.rs:4` and `router.rs:449-461` ("on every
  response"): the `TimeoutLayer` is added last and lies outside these layers, so its
  408 has neither line nor headers (`Cut`). `AnswersLogged` says nothing of the 408;
- `sanitize_for_log` caps its text before it appends the marker, so what is
  "capped" at 4 KiB may be 14 bytes longer (`KeptTextFits`);
- a request whose `traceparent` is missing, all zeros or of another version gets
  one trace id in the response and another in the access log (`LoggedTraceId`,
  `ResponseTraceId`);
- `{"reloaded": N}` counts the jobs the load returned; two files that define the
  same key make it larger than the registry (`Rebuild`, `RegistryMatchesDisk`);
- `main.rs:161-165` gives the rows of runs in flight as a reason for the graceful
  shutdown, which waits for requests and not for runs (`Drained`, `Exit`).

### Bounds

- `Loads`, `MaxJobs`: how many loads and jobs per load. Two reloads are the
  fewest that can overlap, which is what the registry run is about; one reload
  of a key that two files yield already leaves four loops on one key.
- `Keys`: one where the question is about one key (keys share only the
  reload's sweep of the maps), two where it is about a load with several jobs.
- `Execs`, `Stoppers`: requests in flight at once; an element is reused after
  its request ends, so their number in a behaviour is not bounded.
- `Outcomes`: the scheduler stores the status and never tests it, so one value
  stands for all.
- `U32 = 4`: the width of u32, so that a retry count of 3 is the one that wraps.
- `StaleMultiplier = 2`, `MaxEntries = 2`, `TicksPerSec = 2`, `MaxTime = 8`:
  small enough that stale eviction, the hard cap, ties and the rounding all
  occur within four seconds.
- `FirstRequest`: one request per behaviour. A request changes nothing in
  `AdminGate`, so a second one meets the same state.
- `Decode`: three segments, one that is its own name, one that is the name of a
  group and decodes to another group, and one that decodes to that name.
- `Configs`: one member per class of secret and of environment word. Each part
  of a configuration varies against the parts some check reads together with
  it (environment, token and flags; environment, password, directory and
  fixture flag; group tokens and public routes), not against all others.

- `Reqs`: three requests, the fewest with two writers and a reader, and two that
  overlap for reloads; each has one load. Kinds of requests are combined where
  they meet at a lock or at the registry, not in every way.
- `Files`, `Dirs`: two paths of one group (`a.yaml`, `a.yml`), one that is no YAML,
  and a fixture in a subdirectory; every content in every place. `edits <= 2`
  changes, during or between the loads. `rotations`: up to two changes of a variable,
  so that one can come between load and fire and another between the start of the
  fire and the headers.
- `Literals`: both sides of every border of the address rules. The proofs cover
  all addresses, so these serve the seam between loader and executor.
- `Bodies`: all texts of up to three characters of eight classes, against caps
  from 0 to 7: every alignment of a cap with characters of up to four bytes and
  escapes of two and six.

No run uses symmetry or a state constraint.

### Deadlock

`CHECK_DEADLOCK FALSE` where the system may stop: a dispatch ends, and with
bounded loads a registry of manual jobs, or one whose schedules are exhausted,
comes to rest; a start that was refused, or a service that has answered its
one request, does too; so does a process that has exited, or whose clients are
all answered (`service_all`). `scheduler_reload` and `gate_all` check it: once the
service is up a request can always be made.

### Fairness

`Scheduler!Fairness`: the runtime polls a task that is ready, so a run goes on from
the sections before and after its dispatch (`GetCancel`, `RemoveRunning`). That the
dispatch returns is not assumed. Nothing obliges a client to call, a schedule to have
a next fire, or a loop to win a race.

`Dispatch`: weak fairness of `Forced`, the steps that a timer or the runtime
brings about: the HTTP client's timeout (of the request and of its body), the
shell timeout, the back-off and the delay. It leaves out an answer of the upstream
and the exit of the child, and every await that races no timer (`Untimed`): the
pre-flight's `lookup_host`, `kill()`, the output pipes, whose end a descendant of the
child decides on, and both inserts into history, of which the pool bounds only the
wait for a connection.

`Service`: weak fairness of `RuntimeStep` (a thread that can go on does, a load
that came back or timed out is noticed, a drain that is done ends) and of
`LoadGoesOn`, the steps of a load that the disk answers; a file named by
`cfg.hang` is never read. One condition over all threads is enough, because the
requests are finitely many and each has finitely many steps. Clients, signals,
the operator and the end of a dispatch are not obliged to come. `ShutdownEnds`
excepts a hung disk: the runtime waits for a blocking task for ever, and an
abandoned load on a dead mount keeps the process from exiting. It also excepts a
connection that lingers, which holds the drain.

## 4. What is proved

TLAPS checks these for every value of the constants that satisfies the named
assumptions, which say no more than that the constants have their types and that
identities differ:

| Assumption | Says |
|---|---|
| `IdentityAssumption` | the actors and registrations of `Scheduler` are distinct and the sentinels are nobody's identity |
| `DisksAssumption` | a load has at most `MaxJobs` jobs, which have keys |
| `OutcomeAssumption` | no status is the empty one |
| `JobsAssumption` | the specs a dispatch is given have their types |
| `GateAssumption` | the groups that ask are finitely many; window, cap and clock are natural numbers, the cap at least 1 |
| `ConfigsAssumption` | the configurations of `Boot` have their types; nothing is assumed of groups, segments and `Decode` |
| `TreeAssumption` | there are finitely many paths, files are no directories, and every file is below the root |
| `OrderAssumption` | paths are ordered as `Path::cmp` orders them: no two are equal, and of two entries of a directory the first comes with all that is below it before the other |
| `ContentAssumption`, `EditsAssumption` | variables have a value or none; files hold contents, in which no job name occurs twice (the file is a `BTreeMap`) |
| `CapsAssumption` | the caps of texts are natural numbers |
| `RawJobsAssumption`, `LookupsAssumption` | a literal host is an address, a lookup returns addresses |
| `ApiAssumption` | a request has one load, a known kind and a key, and nobody is not a thread |

Every invariant and every action property a run checks is proved, and so are both
refinements; what is left to TLC is liveness.

Some of these are facts about all sequences or all trees. The prover cannot
instantiate the induction theorems of the library, which take a predicate as a
parameter. The proofs take the least counterexample instead: `LeastElement` says that
a set of natural numbers has a least element, `KeptAlong` that a set which the first
value of a function is in, and every next one if the last was, has them all, and
`Iterated` that a function defined along the numbers exists.

### SchedulerProofs

`TypeCorrect`, `RunsDoNotOverlap`, `EntriesAreOwned`, `StopFindsTheRun`,
`EntriesReleasedByOwner`, `ImplementsSlots`, `JobsAreKept`. The inductive
invariant is `TypeOK /\ Wired /\ Guarded /\ Handled`, and `Kept` for the last.

- `OneRunPerKey` is not inductive: from a state with a run in progress and no
  entry in the map, the next `begin_running` breaks it. `Guarded` adds that an
  actor inside a run is the one its key's entry names, and that an entry names
  an actor inside a run on that key; `begin_running` finds the key free only if
  no run is in progress.
- A run finds its key through its registration, so the key must not change
  under it. `Wired` says that whoever is alive refers to a spec its load has
  returned and has got to; a load writes its specs once, before anyone refers
  to them, and never reaches an index again.
- `Handled` carries what a run has got hold of: its own `Notify` while it
  dispatches, a recorded result when it removes its entry.
- `NoLostJob` speaks of moments without a load. `Kept` says what holds in
  between: a job that every version of the directory has is in the map, or some
  load, not necessarily the one that took it away, has still to insert it. A
  reload that clears the map has the job before it, and one that removes the
  entry inserts it next.

`ImplementsSlots` maps a slot to the actor that dispatches for the key; by
`OneRunPerKey` there is at most one, and a step changes at most one slot.

### DispatchProofs

`TypeCorrect`, `HistoryIsOrdered`, `OutcomeAgrees`, `ChildrenDoNotOverlap`,
`ImplementsContract`, for any number of retries and any width. The inductive
invariant adds `Progress` to the properties: inside the loop every row so far
says RETRYING, and no outcome exists before the dispatch is done. Without it a
row could follow a final one.

### ReloadGateProofs

`TypeCorrect`, `MapIsBounded`, `WaitingIsEnough` and the action property
`EarlyMeansCrowded`, for any interval, cap, tick and finite set of groups. The
properties compare the map with what clients were told and granted, which the
map forgets when it evicts. `Kept` ties the two together: an entry is the last
grant of its group; a promise outlasts the window of the entry it was made for;
and a group whose window is open has its entry, or as many others as the cap
were granted since. The steps rest on `SecondsReached` (rounding down to seconds
never changes which side of the window a moment is on), and on counting: what
the hard cap evicts is as old as any entry, so all that stay are newer grants.

### AdminGateProofs

`TypeCorrect`, `HandlersAreGuarded`, `OverridesStayInDev`, `DoctorIsRight`,
for any groups, any segments and what they decode to, and any set of configurations
of the right type (`ConfigsAssumption`), so the choice of configurations in `MCAdminGate` does not
limit them. What a running service guarantees was decided by checks that lie
behind it; the inductive invariant remembers them. `Passed` says what `main()`
has established by each of its steps, `Blamed` that the check a refusal names is
one that refuses this configuration. With `Passed`, a service without a token
can only be one in Dev with `trust_network` (`PastTheGates`).

### ServiceProofs

`TypeCorrect`, `LocksInOrder`, for any number of requests of any kinds, any tree,
edits and configurations. The inductive invariant is
`TypeOK /\ Stocked /\ Shaped /\ Held`.

- A mutex knows its holder and not why it is held, so `LockDiscipline` is not
  inductive. `Held` says in which section the holder of each mutex is, in both
  directions for the two maps.
- `Shaped` says what a thread has still to go through: the remaining plan of a
  handler is one of a fixed list for its kind, and for a reload it has a remove
  and an insert for each job that is left. So an insert always finds a job to
  insert, which type correctness needs.
- `Stocked`: what a load has collected, a reload has still to register, and the
  registry holds, all come from definitions that `into_spec` accepted under this
  configuration, whatever the operator did to the files meanwhile. The environment
  they were accepted in may be gone; `EarlierEnvs` is what is known of it, that a
  variable which never changed had the value it has now. A rotation only adds to
  these, so what was accepted stays accepted in one of them (`SpecsGrow`).

### RegistryProofs

`ReloadMatchesDisk`: `RegistryMatchesDisk` for any tree, any contents, any edits and
any number of requests. It equates a walk and a series of inserts, interleaved with
everything else, with a definition that does neither. The invariant is `Tuned`, on top
of that of `ServiceProofs`; it has a part for each stage of a reload that no edit, no
rotation and no other rebuild overlapped and that lost no entry.

- The walk (`Walked`): the files are those still before it (`Pending`) and those it
  has left behind. For every key, the last entry of `out` is the job of the last file
  behind it that defines the key (`Agrees`). A file read later has to come later by
  path, so the stack has to be in order (`Ordered`), and what is behind has to come
  before what is still to come. That entering a directory keeps this is where the
  order of paths is used: the entries are sorted, and all that is below an entry
  comes before the next one (`EntriesAre`, `EnterKeeps`).
- Between `metadata` and the read (`Statted`) the file does not change, since an edit
  would make the load dirty; so what was small enough then is read now.
- The end of the walk (`Complete`): every key of the tree has its job as the last
  entry, and no other key has one (`AllAgree`).
- The rebuild (`Alone`, `Registered`): once the registry is cleared, a key either is
  in the registry as the tree says and has no entry left, or has the right one still
  to come. An insert moves one key from the second group to the first, or overwrites
  a job of an earlier file; with the last insert nothing is left.
- `synced` is given up at a `clear`, and a rebuild that has not cleared leaves the
  registry of the reload before it alone.

### FireProofs

`ScreenedBeforeSent`, `HeadersAreFresh`. Neither the loader nor the executor
looks at everything; `Fired` carries into the attempt what `Stocked` says of the
job. `HttpJob` is what acceptance has made sure of; a literal IPv4 host, which the
pre-flight skips, was then screened by the loader, and everything else by the
pre-flight. `AlwaysBlockedExact` and `PrivateExact` turn the code's predicates
into the reference networks, so the result is about all addresses where TLC
looks at those on the borders. It is a result about the addresses the pre-flight saw,
not about what the client resolves when it connects. For the headers `Fired` adds
that no variable has been rotated less often than when the fire began, so that an
equal count means an unchanged value; and `HttpJob` that a variable which was never
rotated has a header value, because some load accepted it.

`AlwaysBlockedExact`, `PrivateExact`, `DocumentationPasses`, `AllowlistOnlyWidens`, for
every IPv4 address and every IPv6 address. The code tests masks, shifts and octets, and
unwraps mapped addresses; the theorems say that this comes to membership in the
listed networks, no more and no less. There is no state: the lemmas spell out
each network and each predicate, and the cases are the version and whether the
address is mapped.

`StoredBodyFits`, `ErrorTextFits`, for texts of any length and any caps, and
`KeptTextsFit`, which carries them into the service. A text is built character by
character; `IsText` is what every prefix satisfies (0 is a boundary, the largest
offset is the length, and from one boundary to the next it is at most four bytes), and
`LogTexts` adds that what stands before the marker is within the cap. The rest is
arithmetic on the boundaries that floor and ceil find: the head ends at or before half
the cap, the tail is at most as long, so they cannot meet in a text that is longer
than the cap.

### AnswerProofs

`StatusIsTrue`, `EveryAnswerLogged`. Whether a request changes anything is decided
sections before it is answered, and other threads go on in between. `Settled`
follows it through the plan: a reload has changed something exactly once it is
past its `clear`, an execute past its `begin`, and the only await, where a
deadline or a lost client may cut it, lies before both. `Noted` says that a
request that is not done has no answer, and that the log has exactly the line of
an answer that went through the layers.

### Only model-checked

Liveness (`RunReleased`, `HangsOnlyUntimed`, `EveryRequestAnswered`,
`ShutdownEnds`): TLAPS does not reason about fairness or ENABLED. And the six
properties that the code violates, each of which TLC refutes with a behaviour.

## 5. What is not modelled

- The SQL, the migrations, the connection pool: pure I/O. `record` is a write
  that may fail and whose failure is absorbed.
- Panics below dispatch, which would leave a running entry behind (listed as a
  hazard).
- Text: log lines, header values, error wording, YAML, cron and URL syntax. A
  check on text is the classes of input it tells apart.
- CORS, and what the read-only routes put into their bodies.
- The second resolution of a host name, which the HTTP client makes when it
  connects: it happens in a library, and nothing in the service sees its result.
- Which settings exist and their defaults (`config.rs` apart from what the boot
  checks, the loader and the executor read): data. `boot_diagnostics` only logs.
- Tests, the container files and the documentation site.

## 6. Plan

Done: `Scheduler` with `JobSlots`; `Dispatch` with `RunContract`; `ReloadGate`;
`Boot` and `AdminGate`; `AddressPolicy`, `TextCaps`, `JobFile`, `Loader`,
`HttpFire`, `AdminApi` and their composition `Service`; the proofs of section 4.

What could come next: the panic below dispatch that leaves a running entry behind,
and the signal of `stop` that may reach a later run than the one it was looked up for,
both listed as hazards without a property.

## 7. Running it

```
tlc -workers 2 -config MCScheduler_reload.cfg MCScheduler
tlapm SchedulerProofs.tla
```
