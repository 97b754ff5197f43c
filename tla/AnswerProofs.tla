----------------------------- MODULE AnswerProofs ----------------------------
(***************************************************************************)
(* Proofs about what Service tells its clients: that the status of an      *)
(* answer is true, and that the access log has a line for it.              *)
(*                                                                         *)
(* Whether a request has changed anything is decided sections before it is *)
(* answered, and other requests go on in between, so the truth of a status *)
(* is not inductive.  Settled follows it back through the plan: a reload   *)
(* or an execute has changed something once it is past its clear or its    *)
(* begin, and not before.                                                  *)
(***************************************************************************)
EXTENDS ServiceProofs

(* The sections up to the one that changes something.                      *)
Before == {"notify", "clear", "find", "begin"}

Settled(r) ==
  /\ stage[r] \in {"idle", "loading", "gone"} => r \notin changed
  /\ Kind(r) \in {"reload", "execute"} =>
       /\ stage[r] = "sections" => (r \in changed <=> Section(Handler(r)) \notin Before)
       /\ stage[r] = "done" => (answer[r].status = 200 <=> r \in changed)

Lines(r) == {l \in log : l.req = r}

Noted(r) ==
  /\ stage[r] # "done" => answer[r] = NoAnswer
  /\ IF answer[r].decorated
     THEN /\ Lines(r) = {LogLine(r, answer[r].status)}
          /\ answer[r].status # 200 => answer[r].json
          /\ answer[r].traceId = ResponseTraceId(cfg.reqs[r].traceparent)
     ELSE Lines(r) = {} /\ answer[r].status \in {0, 408}

Told ==
  /\ DOMAIN answer = Reqs
  /\ \A r \in Reqs : Settled(r) /\ Noted(r)

AInv == IInv /\ Told

-----------------------------------------------------------------------------
(* Lemmas about plans and answers.                                         *)

(* Where the sections after the first one stand.                           *)
LEMMA PastBefore ==
  ASSUME NEW kind \in {"reload", "execute"}, NEW n \in Nat, NEW p \in HandlerPlans(kind, n)
  PROVE  IF Tail(p) = <<>>
         THEN Head(p) \notin {"notify", "find", "begin"}
         ELSE Head(Tail(p)) \in Before <=> Head(p) \in {"notify", "find"}
<1> USE DEF Before
<1>1. CASE kind = "reload"
  <2>1. \/ p = Rebuild(n) \/ p = <<"clear">> \o Pairs(n)
        \/ n # 0 /\ p = Pairs(n)
        \/ n # 0 /\ p = Half(n)
    BY <1>1 DEF HandlerPlans, BeforeClear, AfterClear
  <2>2. CASE p = Rebuild(n)
    BY <2>2, RebuildTails
  <2>3. Pairs(0) = <<>> /\ \A m \in Nat \ {0} : Head(Pairs(m)) = "remove_job"
    BY PairsTails DEF Pairs
  <2>4. CASE p = <<"clear">> \o Pairs(n)
    BY <2>3, <2>4, RebuildTails
  <2>5. CASE n # 0 /\ p = Pairs(n)
    BY <2>5, PairsTails
  <2>6. CASE n # 0 /\ p = Half(n)
    <3>1. Head(p) = "insert" /\ Tail(p) = Pairs(n - 1)
      BY <2>6, PairsTails
    <3>2. n - 1 = 0 \/ n - 1 \in Nat \ {0}
      BY <2>6
    <3> QED BY <2>3, <3>1, <3>2
  <2> QED BY <2>1, <2>2, <2>4, <2>5, <2>6
<1>2. CASE kind = "execute"
  <2>1. p \in BeforeBegin \cup AfterBegin
    BY <1>2 DEF HandlerPlans
  <2>2. CASE p = <<"find", "begin", "get", "snapshot", "lookup">>
    BY <2>2, ShortTails, ShortPlans
  <2>3. CASE p = <<"begin", "get", "snapshot", "lookup">>
    BY <2>3, ShortTails, ShortPlans
  <2>4. CASE p = <<"get", "snapshot", "lookup">>
    BY <2>4, ShortTails, ShortPlans
  <2>5. CASE p = <<"snapshot", "lookup">>
    BY <2>5, ShortTails, ShortPlans
  <2>6. CASE p = <<"lookup">>
    BY <2>6, ShortTails, ShortPlans
  <2> QED BY <2>1, <2>2, <2>3, <2>4, <2>5, <2>6 DEF BeforeBegin, AfterBegin
<1> QED BY <1>1, <1>2

Errors == {"JobNotFound", "JobAlreadyRunning", "InvalidJobDefinition", "TooManyRequests",
           "RequestTooLarge", "Io", "Internal"}

LEMMA Statuses ==
  /\ \A e \in Errors : StatusOf(e) # 200
  /\ StatusOf("RequestTooLarge") = 413
<1>1. StatusOf("JobNotFound") = 404
  BY Zenon DEF StatusOf
<1>2. StatusOf("RequestTooLarge") = 413
  BY Zenon DEF StatusOf
<1>3. StatusOf("JobAlreadyRunning") = 409
  BY Zenon DEF StatusOf
<1>4. StatusOf("InvalidJobDefinition") = 400
  BY Zenon DEF StatusOf
<1>5. StatusOf("TooManyRequests") = 429
  BY Zenon DEF StatusOf
<1>6. StatusOf("Io") = 500 /\ StatusOf("Internal") = 500
  BY Zenon DEF StatusOf
<1> QED BY <1>1, <1>2, <1>3, <1>4, <1>5, <1>6 DEF Errors

-----------------------------------------------------------------------------
(* Steps, request by request.                                              *)

(* A step moves one request on and says nothing to the others.             *)
LEMMA ToldByRequest ==
  ASSUME Told, cfg' = cfg, NEW r \in Reqs, DOMAIN answer' = Reqs, Settled(r)', Noted(r)',
         \A s \in Reqs : s # r => /\ stage'[s] = stage[s]
                                  /\ plan'[Handler(s)] = plan[Handler(s)]
                                  /\ answer'[s] = answer[s]
                                  /\ s \in changed' <=> s \in changed
                                  /\ Lines(s)' = Lines(s)
  PROVE  Told'
<1>1. ASSUME NEW s \in Reqs, s # r
      PROVE  Settled(s)' /\ Noted(s)'
  <2>1. Settled(s) /\ Noted(s) /\ Kind(s)' = Kind(s) /\ Section(Handler(s))' = Section(Handler(s))
    BY <1>1 DEF Told, Kind, Section
  <2>2. LogLine(s, answer[s].status)' = LogLine(s, answer[s].status)
    BY <1>1 DEF LogLine
  <2>3. Settled(s)'
    BY <1>1, <2>1 DEF Settled
  <2>4. Noted(s)'
    BY <1>1, <2>1, <2>2 DEF Noted
  <2> QED BY <2>3, <2>4
<1>2. \A s \in Reqs : Settled(s)' /\ Noted(s)'
  BY <1>1
<1> QED BY <1>2 DEF Told

(* The handlers' own sections say nothing.                                 *)
LEMMA SilentStep ==
  ASSUME Told, UNCHANGED <<cfg, stage, answer, log, changed>>,
         \A r \in Reqs : plan'[Handler(r)] = plan[Handler(r)]
  PROVE  Told'
<1>1. ASSUME NEW s \in Reqs
      PROVE  Settled(s)' /\ Noted(s)'
  <2>1. Settled(s) /\ Noted(s) /\ Kind(s)' = Kind(s) /\ Section(Handler(s))' = Section(Handler(s))
    BY <1>1 DEF Told, Kind, Section
  <2>2. /\ LogLine(s, answer[s].status)' = LogLine(s, answer[s].status)
        /\ Lines(s)' = Lines(s)
    BY DEF LogLine, Lines
  <2>3. Settled(s)'
    BY <2>1 DEF Settled
  <2>4. Noted(s)'
    BY <2>1, <2>2 DEF Noted
  <2> QED BY <2>3, <2>4
<1>2. \A s \in Reqs : Settled(s)' /\ Noted(s)'
  BY <1>1
<1> QED BY <1>2 DEF Told

(* An answer of the handlers and the layers is logged and decorated.       *)
LEMMA RespondNotes ==
  ASSUME Told, cfg' = cfg, NEW r \in Reqs, stage[r] # "done", DOMAIN stage = Reqs,
         NEW status, NEW json, status # 200 => Body(status, json), Respond(r, status, json)
  PROVE  /\ Noted(r)' /\ DOMAIN answer' = Reqs /\ stage'[r] = "done"
         /\ answer'[r].status = status
         /\ \A s \in Reqs : s # r => /\ stage'[s] = stage[s] /\ answer'[s] = answer[s]
                                     /\ Lines(s)' = Lines(s)
<1> DEFINE a == TraceHeaders(r, SecurityHeaders(
                  [NoAnswer EXCEPT !.status = status, !.json = Body(status, json)]))
<1>1. /\ stage' = [stage EXCEPT ![r] = "done"]
      /\ answer' = [answer EXCEPT ![r] = a]
      /\ log' = log \cup {LogLine(r, status)}
  BY DEF Respond
<1>2. /\ a.status = status /\ a.json = Body(status, json) /\ a.decorated = TRUE
      /\ a.traceId = ResponseTraceId(cfg.reqs[r].traceparent)
  BY DEF TraceHeaders, SecurityHeaders, NoAnswer
<1> HIDE DEF a
<1>3. /\ DOMAIN answer' = Reqs /\ answer'[r] = a /\ stage'[r] = "done"
      /\ \A s \in Reqs : s # r => stage'[s] = stage[s] /\ answer'[s] = answer[s]
  BY <1>1 DEF Told
<1>4. Lines(r) = {}
  <2>1. answer[r] = NoAnswer /\ Noted(r)
    BY DEF Told, Noted
  <2>2. ~ NoAnswer.decorated
    BY DEF NoAnswer
  <2> QED BY <2>1, <2>2 DEF Noted
<1>5. LogLine(r, status).req = r /\ LogLine(r, status)' = LogLine(r, status)
  BY DEF LogLine
<1>6. Lines(r)' = {LogLine(r, status)}
  BY <1>1, <1>4, <1>5 DEF Lines
<1>7. \A s \in Reqs : s # r => Lines(s)' = Lines(s)
  BY <1>1, <1>5 DEF Lines
<1>8. Noted(r)'
  <2>1. /\ Lines(r)' = {LogLine(r, answer[r].status)'}
        /\ answer'[r].status # 200 => answer'[r].json
        /\ answer'[r].decorated
        /\ answer'[r].traceId = ResponseTraceId(cfg'.reqs[r].traceparent)
    BY <1>2, <1>3, <1>6 DEF LogLine
  <2> QED BY <1>3, <2>1 DEF Noted
<1> QED BY <1>2, <1>3, <1>7, <1>8

(* The deadline's answer is neither.                                       *)
LEMMA CutNotes ==
  ASSUME Told, cfg' = cfg, NEW r \in Reqs, stage[r] # "done", DOMAIN stage = Reqs, Cut(r)
  PROVE  /\ Noted(r)' /\ DOMAIN answer' = Reqs /\ stage'[r] = "done"
         /\ answer'[r].status = 408
         /\ \A s \in Reqs : s # r => /\ stage'[s] = stage[s] /\ answer'[s] = answer[s]
                                     /\ Lines(s)' = Lines(s)
<1> DEFINE a == [NoAnswer EXCEPT !.status = 408]
<1>1. /\ stage' = [stage EXCEPT ![r] = "done"]
      /\ answer' = [answer EXCEPT ![r] = a]
      /\ log' = log
  BY DEF Cut
<1>2. a.status = 408 /\ a.decorated = FALSE
  BY DEF NoAnswer
<1> HIDE DEF a
<1>3. /\ DOMAIN answer' = Reqs /\ answer'[r] = a /\ stage'[r] = "done"
      /\ \A s \in Reqs : s # r => stage'[s] = stage[s] /\ answer'[s] = answer[s]
  BY <1>1 DEF Told
<1>4. Lines(r) = {}
  <2>1. answer[r] = NoAnswer /\ Noted(r)
    BY DEF Told, Noted
  <2>2. ~ NoAnswer.decorated
    BY DEF NoAnswer
  <2> QED BY <2>1, <2>2 DEF Noted
<1>5. \A s \in Reqs : Lines(s)' = Lines(s)
  BY <1>1 DEF Lines
<1>6. Noted(r)'
  BY <1>2, <1>3, <1>4, <1>5 DEF Noted
<1> QED BY <1>2, <1>3, <1>5, <1>6

(* The request is on its way and nothing was said.                         *)
LEMMA UnsaidNotes ==
  ASSUME Told, cfg' = cfg, NEW r \in Reqs, stage[r] # "done", stage'[r] # "done",
         UNCHANGED <<answer, log>>
  PROVE  Noted(r)' /\ DOMAIN answer' = Reqs /\ \A s \in Reqs : Lines(s)' = Lines(s)
<1>1. \A s \in Reqs : Lines(s)' = Lines(s)
  BY DEF Lines
<1>2. LogLine(r, answer[r].status)' = LogLine(r, answer[r].status)
  BY DEF LogLine
<1> QED BY <1>1, <1>2 DEF Told, Noted

(* A section ends: what the request has changed is what its plan says.     *)
LEMMA ProceedTells ==
  ASSUME IInv, Told, cfg' = cfg, NEW t \in Threads, inside[t], Proceed(t),
         changed' = IF Section(t) \in {"clear", "begin"} THEN changed \cup {t[1]} ELSE changed
  PROVE  Told'
<1> DEFINE r == t[1]
           p == plan[t]
           n == Len(loaded[r])
<1>1. r \in Reqs /\ p # <<>> /\ Section(t) = Head(p) /\ DOMAIN stage = Reqs /\ DOMAIN plan = Threads
  BY ThreadPairs, Assembled DEF Held, Section, Shaped
<1>2. CASE t[2] = "handler"
  <2>1. /\ t = Handler(r) /\ stage[r] = "sections" /\ n \in Nat
        /\ p \in HandlerPlans(Kind(r), n)
    BY <1>1, <1>2, Working, Assembled DEF Shaped
  <2>2. t # Run(r) /\ Run(r) \in Threads
    BY <1>1, <2>1, ThreadPairs
  <2>3. plan'[t] = Tail(p) /\ \A u \in Threads : u # t /\ u # Run(r) => plan'[u] = plan[u]
    BY <1>1, <2>2 DEF Proceed
  <2>4. \A s \in Reqs : s # r => /\ plan'[Handler(s)] = plan[Handler(s)]
                                 /\ s \in changed' <=> s \in changed
    BY <1>1, <2>1, <2>3, ThreadPairs
  <2>5. Kind(r) \in {"reload", "execute"} =>
          /\ r \in changed <=> Head(p) \notin Before
          /\ IF Tail(p) = <<>>
             THEN Head(p) \notin {"notify", "find", "begin"}
             ELSE Head(Tail(p)) \in Before <=> Head(p) \in {"notify", "find"}
    <3> SUFFICES ASSUME Kind(r) \in {"reload", "execute"}
                 PROVE  /\ r \in changed <=> Head(p) \notin Before
                        /\ IF Tail(p) = <<>>
                           THEN Head(p) \notin {"notify", "find", "begin"}
                           ELSE Head(Tail(p)) \in Before <=> Head(p) \in {"notify", "find"}
      OBVIOUS
    <3>1. r \in changed <=> Head(p) \notin Before
      BY <1>1, <2>1 DEF Told, Settled
    <3>2. IF Tail(p) = <<>>
          THEN Head(p) \notin {"notify", "find", "begin"}
          ELSE Head(Tail(p)) \in Before <=> Head(p) \in {"notify", "find"}
      BY <2>1, PastBefore
    <3> QED BY <3>1, <3>2
  <2>6. Kind(r)' = Kind(r) /\ Section(Handler(r))' = Head(Tail(p))
    BY <2>1, <2>3 DEF Kind, Section
  <2>7. CASE Tail(p) = <<>>
    <3>1. Respond(r, 200, TRUE) /\ Body(200, TRUE)
      BY <1>2, <2>7 DEF Proceed, Body
    <3>2. /\ Noted(r)' /\ DOMAIN answer' = Reqs /\ stage'[r] = "done"
          /\ answer'[r].status = 200
          /\ \A s \in Reqs : s # r => /\ stage'[s] = stage[s] /\ answer'[s] = answer[s]
                                      /\ Lines(s)' = Lines(s)
      BY <1>1, <2>1, <3>1, RespondNotes
    <3>3. Kind(r) \in {"reload", "execute"} => r \in changed'
      BY <1>1, <2>5, <2>7 DEF Before
    <3>4. Settled(r)'
      BY <2>6, <3>2, <3>3 DEF Settled
    <3> QED BY <1>1, <2>4, <3>2, <3>4, ToldByRequest
  <2>8. CASE Tail(p) # <<>>
    <3>1. UNCHANGED <<stage, answer, log>>
      BY <2>8 DEF Proceed, answerVars
    <3>2. Noted(r)' /\ DOMAIN answer' = Reqs /\ \A s \in Reqs : Lines(s)' = Lines(s)
      BY <1>1, <2>1, <3>1, UnsaidNotes
    <3>3. Kind(r) \in {"reload", "execute"} =>
            (r \in changed' <=> Section(Handler(r))' \notin Before)
      BY <1>1, <2>5, <2>6, <2>8 DEF Before
    <3>4. Settled(r)'
      BY <2>1, <2>6, <3>1, <3>3 DEF Settled
    <3> QED BY <1>1, <2>4, <3>1, <3>2, <3>4, ToldByRequest
  <2> QED BY <2>7, <2>8
<1>3. CASE t[2] # "handler"
  <2>1. t = Run(r) /\ Section(t) \in {"dispatch", "record", "remove"}
    BY <1>1, <1>3, Working, Assembled
  <2>2. plan' = [plan EXCEPT ![t] = Tail(p)] /\ UNCHANGED <<stage, answer, log, changed>>
    BY <1>3, <2>1 DEF Proceed, answerVars
  <2>3. \A s \in Reqs : plan'[Handler(s)] = plan[Handler(s)]
    BY <1>1, <2>1, <2>2, ThreadPairs
  <2> QED BY <2>2, <2>3, SilentStep
<1> QED BY <1>2, <1>3

(* A handler that gives up has changed nothing and says so.                *)
LEMMA BailTells ==
  ASSUME IInv, Told, cfg' = cfg, changed' = changed, NEW t \in Threads, inside[t],
         Section(t) \in {"find", "begin"}, NEW error \in Errors, Bail(t, error)
  PROVE  Told'
<1> DEFINE r == t[1]
<1>1. r \in Reqs /\ plan[t] # <<>> /\ DOMAIN stage = Reqs /\ DOMAIN plan = Threads
  BY ThreadPairs, Assembled DEF Held, Shaped
<1>2. t = Handler(r) /\ stage[r] = "sections"
  BY <1>1, Working, Assembled
<1>3. Respond(r, StatusOf(error), TRUE) /\ Body(StatusOf(error), TRUE)
  BY DEF Bail, Fail, Body
<1>4. /\ Noted(r)' /\ DOMAIN answer' = Reqs /\ stage'[r] = "done"
      /\ answer'[r].status = StatusOf(error)
      /\ \A s \in Reqs : s # r => /\ stage'[s] = stage[s] /\ answer'[s] = answer[s]
                                  /\ Lines(s)' = Lines(s)
  BY <1>1, <1>2, <1>3, RespondNotes
<1>5. Kind(r)' = Kind(r) /\ (Kind(r) \in {"reload", "execute"} => r \notin changed)
  BY <1>1, <1>2 DEF Kind, Told, Settled, Before
<1>6. Settled(r)'
  BY <1>4, <1>5, Statuses DEF Settled
<1>7. \A s \in Reqs : s # r => plan'[Handler(s)] = plan[Handler(s)]
  BY <1>1, <1>2, ThreadPairs DEF Bail
<1> QED BY <1>1, <1>4, <1>6, <1>7, ToldByRequest

LEMMA SectionTells ==
  ASSUME IInv, Told, NEW t \in Threads, SectionStep(t)
  PROVE  Told'
<1>1. cfg' = cfg
  BY DEF SectionStep, loadVars
<1>2. ASSUME UNCHANGED <<plan, mapVars, answerVars>>
      PROVE  Told'
  BY <1>1, <1>2, SilentStep DEF mapVars, answerVars
<1>3. CASE Enter(t) \/ \E k \in Keys : TakeState(t, k) \/ DropState(t, k)
  <2>1. UNCHANGED <<plan, mapVars, answerVars>>
    BY <1>3 DEF Enter, TakeState, DropState
  <2> QED BY <1>2, <2>1
<1>4. CASE Find(t)
  <2>1. inside[t] /\ Section(t) = "find" /\ changed' = changed
    BY <1>4 DEF Find, In, mapVars
  <2>2. Proceed(t) \/ Bail(t, "JobNotFound")
    BY <1>4 DEF Find
  <2> QED BY <1>1, <2>1, <2>2, ProceedTells, BailTells DEF Errors
<1>5. CASE Begin(t)
  <2>1. inside[t] /\ Section(t) = "begin"
    BY <1>5 DEF Begin, In
  <2>2. \/ Proceed(t) /\ changed' = changed \cup {t[1]}
        \/ Bail(t, "JobAlreadyRunning") /\ changed' = changed
    BY <1>5 DEF Begin
  <2> QED BY <1>1, <2>1, <2>2, ProceedTells, BailTells DEF Errors
<1>6. CASE Pass(t)
  <2>1. /\ inside[t] /\ Section(t) \notin {"clear", "begin"} /\ Proceed(t) /\ changed' = changed
    BY <1>6 DEF Pass, Reading, mapVars
  <2> QED BY <1>1, <2>1, ProceedTells
<1>7. CASE Snapshot(t) \/ RemoveJob(t) \/ Insert(t) \/ RemoveRunning(t)
  <2>1. /\ inside[t] /\ Section(t) \notin {"clear", "begin"} /\ Proceed(t) /\ changed' = changed
    BY <1>7 DEF Snapshot, RemoveJob, Insert, RemoveRunning, In
  <2> QED BY <1>1, <2>1, ProceedTells
<1>8. CASE Clear(t)
  <2>1. inside[t] /\ Section(t) = "clear" /\ Proceed(t) /\ changed' = changed \cup {t[1]}
    BY <1>8 DEF Clear, In
  <2> QED BY <1>1, <2>1, ProceedTells
<1> QED BY <1>3, <1>4, <1>5, <1>6, <1>7, <1>8 DEF SectionStep, Leave

LEMMA ArriveTells ==
  ASSUME IInv, Told, NEW r \in Reqs, Arrive(r)
  PROVE  Told'
<1>1. /\ stage[r] = "idle" /\ cfg' = cfg /\ changed' = changed
      /\ DOMAIN stage = Reqs /\ DOMAIN plan = Threads
  BY Assembled DEF Arrive, mapVars, Shaped
<1>2. r \notin changed /\ Kind(r)' = Kind(r)
  BY <1>1 DEF Told, Settled, Kind
<1>3. CASE AnswerAtOnce(r)
  <2>1. plan' = plan
    BY <1>3 DEF AnswerAtOnce, lockVars
  <2>2. ASSUME NEW status, NEW json, Respond(r, status, json),
               status # 200 => Body(status, json),
               Kind(r) \in {"reload", "execute"} => status # 200
        PROVE  Told'
    <3>1. /\ Noted(r)' /\ DOMAIN answer' = Reqs /\ stage'[r] = "done"
          /\ answer'[r].status = status
          /\ \A s \in Reqs : s # r => /\ stage'[s] = stage[s] /\ answer'[s] = answer[s]
                                      /\ Lines(s)' = Lines(s)
      BY <1>1, <2>2, RespondNotes
    <3>2. Settled(r)'
      BY <1>1, <1>2, <2>2, <3>1 DEF Settled
    <3> QED BY <1>1, <2>1, <3>1, <3>2, ToldByRequest
  <2>3. CASE Respond(r, StatusOf("RequestTooLarge"), FALSE)
    <3>1. Body(StatusOf("RequestTooLarge"), FALSE) /\ StatusOf("RequestTooLarge") # 200
      BY Statuses DEF Body
    <3> QED BY <2>2, <2>3, <3>1, Zenon
  <2>4. CASE Kind(r) \in {"index", "health"} /\ \E json \in BOOLEAN : Respond(r, 200, json)
    BY <2>2, <2>4
  <2>5. CASE Respond(r, StatusOf("TooManyRequests"), TRUE)
    <3>1. Body(StatusOf("TooManyRequests"), TRUE) /\ StatusOf("TooManyRequests") # 200
      BY Statuses DEF Body, Errors
    <3> QED BY <2>2, <2>5, <3>1
  <2> QED BY <1>3, <2>3, <2>4, <2>5 DEF AnswerAtOnce, Fail
<1>4. CASE Kind(r) \in {"jobs", "running", "stop", "execute"} /\ StartHandler(r)
  <2>1. /\ UNCHANGED <<answer, log>>
        /\ stage' = [stage EXCEPT ![r] = "sections"]
        /\ plan' = [plan EXCEPT ![Handler(r)] = Program(Kind(r))]
    BY <1>4 DEF StartHandler
  <2>2. /\ stage'[r] = "sections" /\ plan'[Handler(r)] = Program(Kind(r))
        /\ \A s \in Reqs : s # r => /\ stage'[s] = stage[s]
                                    /\ plan'[Handler(s)] = plan[Handler(s)]
    BY <1>1, <2>1, ThreadPairs
  <2>3. Kind(r) \in {"reload", "execute"} => Section(Handler(r))' \in Before
    BY <1>4, <2>2, Programs, ShortTails DEF Section, Before
  <2>4. Settled(r)'
    BY <1>1, <1>2, <2>2, <2>3 DEF Settled
  <2>5. Noted(r)' /\ DOMAIN answer' = Reqs /\ \A s \in Reqs : Lines(s)' = Lines(s)
    BY <1>1, <2>1, <2>2, UnsaidNotes
  <2> QED BY <1>1, <2>1, <2>2, <2>4, <2>5, ToldByRequest
<1>5. CASE StartReload(r)
  <2>1. /\ UNCHANGED <<answer, log, plan>>
        /\ stage'[r] = "loading" /\ \A s \in Reqs : s # r => stage'[s] = stage[s]
    BY <1>1, <1>5 DEF StartReload, lockVars
  <2>2. Settled(r)'
    BY <1>1, <1>2, <2>1 DEF Settled
  <2>3. Noted(r)' /\ DOMAIN answer' = Reqs /\ \A s \in Reqs : Lines(s)' = Lines(s)
    BY <1>1, <2>1, UnsaidNotes
  <2> QED BY <1>1, <2>1, <2>2, <2>3, ToldByRequest
<1> QED BY <1>3, <1>4, <1>5 DEF Arrive

LEMMA AwaitTells ==
  ASSUME IInv, Told, NEW r \in Reqs, Await(r)
  PROVE  Told'
<1>1. /\ stage[r] = "loading" /\ cfg' = cfg /\ changed' = changed
      /\ DOMAIN stage = Reqs /\ DOMAIN plan = Threads
  BY Assembled DEF Await, LoadReturns, LoadTimesOut, Deadline, ClientLeaves, Awaiting,
                   mapVars, loadVars, Shaped
<1>2. r \notin changed /\ Kind(r)' = Kind(r)
  BY <1>1 DEF Told, Settled, Kind
<1>3. ASSUME NEW error \in Errors, Fail(r, error), plan' = plan
      PROVE  Told'
  <2>1. Respond(r, StatusOf(error), TRUE) /\ Body(StatusOf(error), TRUE)
    BY <1>3 DEF Fail, Body
  <2>2. /\ Noted(r)' /\ DOMAIN answer' = Reqs /\ stage'[r] = "done"
        /\ answer'[r].status = StatusOf(error)
        /\ \A s \in Reqs : s # r => /\ stage'[s] = stage[s] /\ answer'[s] = answer[s]
                                    /\ Lines(s)' = Lines(s)
    BY <1>1, <2>1, RespondNotes
  <2>3. Settled(r)'
    BY <1>1, <1>2, <2>2, Statuses DEF Settled
  <2> QED BY <1>1, <1>3, <2>2, <2>3, ToldByRequest
<1>4. CASE LoadTimesOut(r)
  BY <1>3, <1>4 DEF LoadTimesOut, lockVars, Errors
<1>5. CASE Deadline(r)
  <2>1. Cut(r) /\ plan' = plan
    BY <1>5 DEF Deadline, lockVars
  <2>2. /\ Noted(r)' /\ DOMAIN answer' = Reqs /\ stage'[r] = "done"
        /\ answer'[r].status = 408
        /\ \A s \in Reqs : s # r => /\ stage'[s] = stage[s] /\ answer'[s] = answer[s]
                                    /\ Lines(s)' = Lines(s)
    BY <1>1, <2>1, CutNotes
  <2>3. Settled(r)'
    BY <1>1, <1>2, <2>2 DEF Settled
  <2> QED BY <1>1, <2>1, <2>2, <2>3, ToldByRequest
<1>6. CASE ClientLeaves(r)
  <2>1. /\ UNCHANGED <<answer, log, plan>>
        /\ stage'[r] = "gone" /\ \A s \in Reqs : s # r => stage'[s] = stage[s]
    BY <1>1, <1>6 DEF ClientLeaves, lockVars
  <2>2. Settled(r)'
    BY <1>1, <1>2, <2>1 DEF Settled
  <2>3. Noted(r)' /\ DOMAIN answer' = Reqs /\ \A s \in Reqs : Lines(s)' = Lines(s)
    BY <1>1, <2>1, UnsaidNotes
  <2> QED BY <1>1, <2>1, <2>2, <2>3, ToldByRequest
<1>7. CASE LoadReturns(r)
  <2> DEFINE n == Len(task[r].out)
  <2>1. CASE /\ stage' = [stage EXCEPT ![r] = "sections"]
             /\ plan' = [plan EXCEPT ![Handler(r)] = Rebuild(n)]
             /\ UNCHANGED <<answer, log>>
    <3>1. n \in Nat
      BY Assembled, ApiAssumption DEF Stocked
    <3>2. /\ stage'[r] = "sections" /\ plan'[Handler(r)] = Rebuild(n)
          /\ \A s \in Reqs : s # r => /\ stage'[s] = stage[s]
                                      /\ plan'[Handler(s)] = plan[Handler(s)]
      BY <1>1, <2>1, ThreadPairs
    <3>3. Section(Handler(r))' \in Before
      BY <3>1, <3>2, RebuildTails DEF Section, Before
    <3>4. Settled(r)'
      BY <1>1, <1>2, <3>2, <3>3 DEF Settled
    <3>5. Noted(r)' /\ DOMAIN answer' = Reqs /\ \A s \in Reqs : Lines(s)' = Lines(s)
      BY <1>1, <2>1, <3>2, UnsaidNotes
    <3> QED BY <1>1, <2>1, <3>2, <3>4, <3>5, ToldByRequest
  <2>2. CASE (\E error \in Errors : Fail(r, error)) /\ plan' = plan
    BY <1>3, <2>2
  <2> QED BY <1>7, <2>1, <2>2 DEF LoadReturns, Errors
<1> QED BY <1>4, <1>5, <1>6, <1>7 DEF Await

-----------------------------------------------------------------------------

LEMMA ToldAtFirst == Init => Told
<1> SUFFICES ASSUME Init
             PROVE  Told
  OBVIOUS
<1>1. /\ stage = [r \in Reqs |-> "idle"] /\ answer = [r \in Reqs |-> NoAnswer]
      /\ log = {} /\ changed = {}
  BY DEF Init, ApiInit
<1>2. NoAnswer.decorated = FALSE /\ NoAnswer.status = 0
  BY DEF NoAnswer
<1>3. \A r \in Reqs : Settled(r)
  BY <1>1 DEF Settled
<1>4. \A r \in Reqs : Noted(r)
  BY <1>1, <1>2 DEF Noted, Lines
<1> QED BY <1>1, <1>3, <1>4 DEF Told

LEMMA NextTells == AInv /\ [Next]_vars => AInv'
<1> SUFFICES ASSUME IInv, Told, [Next]_vars
             PROVE  Told'
  BY NextKeeps DEF AInv
<1>1. ASSUME UNCHANGED <<cfg, plan, stage, answer, log, changed>>
      PROVE  Told'
  BY <1>1, SilentStep
<1>2. ASSUME NEW t \in Threads, DispatchEnds(t)
      PROVE  Told'
  <2>1. /\ UNCHANGED <<cfg, stage, answer, log, changed>> /\ plan[t] # <<>>
        /\ Section(t) = "dispatch" /\ plan' = [plan EXCEPT ![t] = Tail(plan[t])]
    BY <1>2 DEF DispatchEnds, loadVars, answerVars, mapVars
  <2>2. t[2] # "handler"
    BY <2>1, Assembled, Working DEF Follows, OnJobs, OnRunning, Section
  <2>3. \A r \in Reqs : plan'[Handler(r)] = plan[Handler(r)]
    BY <2>1, <2>2, Assembled, ThreadPairs DEF PlanTypes
  <2> QED BY <2>1, <2>3, SilentStep
<1>3. CASE (\E s \in {"TERM", "INT"} : Signal(s)) \/ Drained \/ Exit
  <2>1. UNCHANGED <<lockVars, mapVars, answerVars, loadVars>>
    BY <1>3 DEF Signal, Drained, Exit
  <2> QED BY <1>1, <2>1 DEF lockVars, mapVars, answerVars, loadVars
<1>4. CASE OperatorEdits
  BY <1>1, <1>4 DEF OperatorEdits, Edit, lockVars, answerVars
<1>5. CASE LoadGoesOn
  BY <1>1, <1>5 DEF LoadGoesOn, LoadStep, LoadMisses, apiVars, lockVars, mapVars, answerVars
<1>6. CASE JobFires \/ UNCHANGED vars
  <2>1. UNCHANGED <<lockVars, mapVars, answerVars, loadVars>>
    BY <1>6 DEF JobFires, apiVars, vars
  <2> QED BY <1>1, <2>1 DEF lockVars, mapVars, answerVars, loadVars
<1>7. CASE OperatorRotates
  BY <1>1, <1>7 DEF OperatorRotates, Rotate, apiVars, lockVars, mapVars, answerVars
<1> QED BY <1>2, <1>3, <1>4, <1>5, <1>6, <1>7, ArriveTells, AwaitTells, SectionTells
        DEF Next, ApiStep

LEMMA AnswerInvariant == Spec => []AInv
<1>1. Init => AInv
  BY InitHolds, ToldAtFirst DEF AInv
<1> QED BY <1>1, NextTells, PTL DEF Spec

(* A client that reads 200 for a reload or an execute can rely on it, and  *)
(* one that reads anything else, or left, can rely on nothing having been  *)
(* changed for it: whatever the other requests, the load and the signals   *)
(* do between the change and the answer.                                   *)
THEOREM StatusIsTrue == Spec => []AnswerTruthful
<1>1. AInv => AnswerTruthful
  <2> SUFFICES ASSUME AInv, NEW r \in Reqs
               PROVE  /\ answer[r].status # 0 /\ Kind(r) \in {"reload", "execute"} =>
                           (answer[r].status = 200 <=> r \in changed)
                      /\ stage[r] = "gone" => r \notin changed
    BY DEF AnswerTruthful
  <2>1. Settled(r) /\ Noted(r)
    BY DEF AInv, Told
  <2>2. NoAnswer.status = 0
    BY DEF NoAnswer
  <2> QED BY <2>1, <2>2 DEF Settled, Noted
<1> QED BY <1>1, AnswerInvariant, PTL

(* Whatever the other requests do, the access log has one line for every   *)
(* answer of a handler or of the body limit, with the status the client    *)
(* got and the trace id it got unless that is a fresh one; those answers   *)
(* have their headers, and a body that is JSON if they tell of an error.   *)
(* Nothing is said of the deadline's 408.                                  *)
THEOREM EveryAnswerLogged == Spec => []AnswersLogged
<1>1. AInv => AnswersLogged
  <2> SUFFICES ASSUME AInv, NEW r \in Reqs
               PROVE  /\ \A l, m \in Lines(r) : l = m
                      /\ \A l \in Lines(r) :
                           /\ answer[r].status = l.status
                           /\ answer[r].traceId \in {"fresh", l.traceId}
                      /\ answer[r].status \notin {0, 408} => Lines(r) # {} /\ answer[r].decorated
                      /\ answer[r].status \notin {0, 200, 408} => answer[r].json
    BY DEF AnswersLogged, Lines
  <2> DEFINE line == LogLine(r, answer[r].status)
  <2>1. Noted(r)
    BY DEF AInv, Told
  <2>2. /\ line.status = answer[r].status
        /\ line.traceId = LoggedTraceId(cfg.reqs[r].traceparent)
    BY DEF LogLine
  <2>3. \A tp : ResponseTraceId(tp) \in {"fresh", LoggedTraceId(tp)}
    BY DEF LoggedTraceId, ResponseTraceId
  <2> HIDE DEF line
  <2>4. CASE answer[r].decorated
    <3>1. /\ Lines(r) = {line}
          /\ answer[r].status # 200 => answer[r].json
          /\ answer[r].traceId = ResponseTraceId(cfg.reqs[r].traceparent)
      BY <2>1, <2>4 DEF Noted, line
    <3> QED BY <2>2, <2>3, <2>4, <3>1
  <2>5. CASE ~ answer[r].decorated
    BY <2>1, <2>5 DEF Noted
  <2> QED BY <2>4, <2>5
<1> QED BY <1>1, AnswerInvariant, PTL
=============================================================================
