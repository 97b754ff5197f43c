------------------------------- MODULE Service -------------------------------
(***************************************************************************)
(* The running service: the administrative requests (AdminApi), the loads  *)
(* they wait for (Loader), the operator who edits the DSL directory and    *)
(* rotates secrets, and an HTTP job of the registry being fired            *)
(* (HttpFire).                                                             *)
(***************************************************************************)
EXTENDS AdminApi, HttpFire

CONSTANT Contents  \* what the operator may write into a file

ASSUME EditsAssumption == Contents \subseteq FileContents

(* The caps are of type usize.                                             *)
ASSUME CapsAssumption ==
  \A c \in Configs : c.maxStored \in Nat /\ c.maxLog \in Nat /\ c.maxError \in Nat

vars == <<loadVars, apiVars, fire>>

Init ==
  /\ LoadInit
  /\ ApiInit
  /\ FireInit

OperatorEdits ==
  /\ \E f \in Files : \E content \in Contents : Edit(f, content)
  /\ synced' = FALSE
  /\ UNCHANGED <<lockVars, jobs, running, seen, loaded, changed, answerVars, phase, fire>>

OperatorRotates ==
  /\ \E v \in EnvNames, s \in VarStates : Rotate(v, s)
  /\ synced' = FALSE
  /\ UNCHANGED <<lockVars, jobs, running, seen, loaded, changed, answerVars, phase, fire>>

LoadGoesOn ==
  /\ phase \notin {"exited", "killed"}
  /\ \E r \in Reqs : LoadStep(r) \/ LoadMisses(r)
  /\ UNCHANGED <<apiVars, fire>>

JobFires ==
  /\ phase \in {"serving", "draining"}
  /\ \/ cfg.fires /\ (\E k \in DOMAIN jobs : FireBegins(jobs[k], rotated))
     \/ FireStep(cfg, environ)
  /\ UNCHANGED <<loadVars, apiVars>>

Next ==
  \/ ApiStep /\ UNCHANGED fire
  \/ OperatorEdits
  \/ OperatorRotates
  \/ LoadGoesOn
  \/ JobFires

(* What the runtime does by itself: it polls what is ready and its timers  *)
(* fire.                                                                   *)
RuntimeStep ==
  \/ \E t \in Threads : SectionStep(t)
  \/ \E r \in Reqs : LoadReturns(r) \/ LoadTimesOut(r)
  \/ Drained \/ Exit

(* The runtime goes on while anything is ready, and so do the loads that   *)
(* the disk answers.  As there are finitely many requests, each with       *)
(* finitely many steps, no more is needed.  Nothing is assumed of clients, *)
(* signals, dispatches, fires or the operator.                             *)
Fairness == WF_vars(RuntimeStep /\ UNCHANGED fire) /\ WF_vars(LoadGoesOn)

Spec == Init /\ [][Next]_vars /\ Fairness

-----------------------------------------------------------------------------
(* Properties.                                                             *)

Sections == OnJobs \cup OnRunning \cup {"dispatch", "record"}

(* Type invariant; a thread is inside a section it still has to go         *)
(* through, and only a handler that reads visits states.                   *)
TypeOK ==
  /\ stage \in [Reqs -> {"idle", "loading", "sections", "done", "gone"}]
  /\ plan \in [Threads -> Seq(Sections)]
  /\ inside \in [Threads -> BOOLEAN]
  /\ visits \in [Threads -> SUBSET Keys]
  /\ mapLock \in [{"jobs", "running"} -> Threads \cup {Nobody}]
  /\ stateLock \in [Keys -> Threads \cup {Nobody}]
  /\ DOMAIN jobs \subseteq Keys
  /\ running \subseteq Keys
  /\ seen \in [Threads -> SUBSET Keys]
  /\ phase \in {"serving", "draining", "stopped", "exited", "killed"}
  /\ changed \subseteq Reqs
  /\ \A t \in Threads : inside[t] => plan[t] # <<>>

Holds(t) ==
  {l \in {"jobs", "running"} : mapLock[l] = t} \cup {k \in Keys : stateLock[k] = t}

(* "No method in this file may hold running and jobs simultaneously", and  *)
(* a job's state is a tier below both: a thread that has a mutex still to  *)
(* take holds nothing, or holds jobs alone and wants a state.  So no       *)
(* circle of threads waits for one another, whatever the requests are.     *)
LockDiscipline ==
  \A t \in Threads :
    /\ Cardinality({l \in {"jobs", "running"} : mapLock[l] = t}) <= 1
    /\ ~ inside[t] => Holds(t) = {}
    /\ inside[t] /\ visits[t] # {} => mapLock["jobs"] = t /\ mapLock["running"] # t

(* The status a client reads is true: a reload or an execute it got a 200  *)
(* for rebuilt the registry or began a run, and one that failed, was cut   *)
(* by the deadline, timed out or lost its client changed nothing, however  *)
(* late its load came to an end.                                           *)
AnswerTruthful ==
  \A r \in Reqs :
    /\ answer[r].status # 0 /\ Kind(r) \in {"reload", "execute"} =>
         (answer[r].status = 200 <=> r \in changed)
    /\ stage[r] = "gone" => r \notin changed

(* A finished reload that nothing disturbed (no edit, no change of the     *)
(* environment, no other rebuild, no entry that read_dir failed to give)   *)
(* leaves what the directory says: every job of every acceptable file,     *)
(* nothing of a file with a fault in it, and under a key that two files    *)
(* define the job of the later path.                                       *)
RegistryMatchesDisk == synced => jobs = JobsOnDisk

(* The loader and the executor together: with block_private_networks no    *)
(* request goes out whose literal host, or one of the addresses its host   *)
(* resolved to in the pre-flight, is in a network of the reference lists,  *)
(* whichever of the two was to look at it; a listed host may be local and  *)
(* nothing worse.  Nothing is said of the address the client finds when it *)
(* resolves the name again to connect, nor of the documentation ranges,    *)
(* which are in neither list.                                              *)
FiresOnlyScreened ==
  cfg.block /\ fire.stage \in {"headers", "sent", "success", "failure", "toolarge"} =>
    \A ip \in fire.vetted :
      /\ ~ InNeverNet(ip)
      /\ InLocalNet(ip) => IsAllowlisted(cfg, fire.spec.url)

(* "Resolved here (not at load) so rotating the env var needs no reload":  *)
(* a request that goes out carries the values its variables have, not      *)
(* those of the load or of the boot, unless they changed after the fire    *)
(* had begun; never one that is no header value, and none of the headers   *)
(* that the service owns.  A fire fails for want of a variable, or sends   *)
(* an empty value, only if the variable has changed at some time: the load *)
(* vouches for what it saw.                                                *)
HeadersFresh ==
  /\ fire.stage = "header" => \E v \in fire.spec.vars : rotated[v] > 0
  /\ fire.stage \in {"sent", "success", "failure", "toolarge"} =>
       /\ fire.spec.names \cap FORBIDDEN_HEADERS = {}
       /\ \A v \in fire.spec.vars :
            /\ fire.read[v] \in HeaderValues \/ (fire.read[v] = "empty" /\ rotated[v] > 0)
            /\ rotated[v] = fire.began[v] => fire.read[v] = environ[v]

(* What a run leaves behind is bounded and honest: the stored body keeps   *)
(* at most stored_body_max_bytes, its head and tail do not overlap, and    *)
(* the marker tells exactly the bytes that are missing; the text in the    *)
(* error message stays within both of its caps and the markers' lengths,   *)
(* and loses fewer than four bytes to a character's boundary.              *)
KeptTextFits ==
  /\ fire.stage = "success" =>
       LET s == fire.kept
       IN  /\ s.head <= s.tail
           /\ s.head + (s.all - s.tail) <= cfg.maxStored
           /\ s.told = s.tail - s.head
           /\ s.all <= cfg.maxStored <=> s.told = 0
  /\ fire.stage = "failure" =>
       LET t == fire.kept
       IN  /\ t.all <= cfg.maxLog + LogMarkerBytes
           /\ ErrorLength(t) <= cfg.maxError + ErrorMarker
           /\ t.cut < t.all => cfg.maxError - t.cut < 4

(* A request never has two lines in the access log, and none before it is  *)
(* answered; the line has the status the client got, and the trace id the  *)
(* client got unless that is a fresh one.  Every answer of a handler or of *)
(* the body limit has its line and its headers, and is JSON if it tells of *)
(* an error.  Nothing is said of the deadline's 408, which is made outside *)
(* these layers.                                                           *)
AnswersLogged ==
  \A r \in Reqs :
    LET lines == {l \in log : l.req = r}
    IN  /\ \A l, m \in lines : l = m
        /\ \A l \in lines :
             /\ answer[r].status = l.status
             /\ answer[r].traceId \in {"fresh", l.traceId}
        /\ answer[r].status \notin {0, 408} => lines # {} /\ answer[r].decorated
        /\ answer[r].status \notin {0, 200, 408} => answer[r].json

(* A request whose handler runs is answered, even if the disk never does.  *)
EveryRequestAnswered ==
  \A r \in Reqs : (stage[r] \in {"loading", "sections"} /\ phase # "killed")
                    ~> (stage[r] \in {"done", "gone"} \/ phase = "killed")

(* A shutdown ends, with requests open, runs under way and loads           *)
(* abandoned, if the disk answers those loads and no client lingers with   *)
(* half a request sent.                                                    *)
ShutdownEnds ==
  (phase = "draining" /\ cfg.hang = "none" /\ ~ cfg.lingers) ~> (phase = "exited")
=============================================================================
