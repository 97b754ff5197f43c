------------------------------ MODULE AdminGate ------------------------------
(***************************************************************************)
(* The routes, the admin_gate middleware and the checks on the query of    *)
(* /execute in src/src/router.rs, in front of a service that Boot brought  *)
(* up.  A request is answered in one step: nothing here keeps state.       *)
(***************************************************************************)
EXTENDS Boot

CONSTANTS
  Decode  \* the segments of URLs, each with the name that it decodes to

VARIABLE answer  \* the last request and what became of it

vars == <<bootVars, answer>>

(* The routes that name a group for the gate, and the others.              *)
GroupRoutes == {"execute", "stop", "reload"}
Routes      == GroupRoutes \cup {"jobs", "running", "health"}

(* The Authorization header: none, one that is no Bearer credential, the   *)
(* configured admin token, a group's token, or some other token; the       *)
(* tokens are all different.                                               *)
Header == [kind : {"absent", "malformed", "admin", "other"}, of : {"-"}]
            \cup [kind : {"group"}, of : Groups]

(* The query: few harmless pairs, one that overrides a variable of the     *)
(* dangerous-env list, or more than security.max_query_params.             *)
Queries == {"plain", "dangerous", "toomany"}

(* A group's name may be a segment too, and may then decode to another     *)
(* name: the one of a%20b is "a b".                                        *)
Segments == DOMAIN Decode

NoRequest == [route |-> "none", group |-> "none", verdict |-> "none"]

-----------------------------------------------------------------------------

(* build: which routes sit behind the gate.                                *)
Gated(route) == route \in GroupRoutes \cup ({"jobs", "running"} \ cfg.public)

(* bearer_token_bytes trims: of a secret with white space around it only   *)
(* the rest is presented, and of a blank one nothing.  A header with       *)
(* characters beyond ASCII is read as no header.                           *)
Presents(h) == h.kind \in {"admin", "group", "other"}

SentIntact(secret) == secret \notin {"blank", "accented", "padded"}

(* ct_token_matches on the presented bytes and the configured value, which *)
(* is not trimmed.                                                         *)
AdminMatches(h) == h.kind = "admin" /\ SentIntact(adminToken)

(* extract_group_from_path looks the undecoded segment up.                 *)
PathGroup(route, s) == IF route \in GroupRoutes THEN {s} ELSE {}

(* Mutant: any group's token opens any group.                              *)
GroupMatchesAny(route, s, h) ==
  /\ h.kind = "group"
  /\ route \in GroupRoutes
  /\ h.of \in DOMAIN groupTokens /\ SentIntact(groupTokens[h.of])

GroupMatches(route, s, h) ==
  /\ h.kind = "group"
  /\ h.of \in PathGroup(route, s) \cap DOMAIN groupTokens
  /\ SentIntact(groupTokens[h.of])

(* admin_gate: without an admin token everything passes.                   *)
Passes(route, s, h) ==
  \/ ~ Gated(route)
  \/ adminToken = "none"
  \/ Presents(h) /\ (AdminMatches(h) \/ GroupMatches(route, s, h))

(* Mutant: the dangerous-env list is not consulted.                        *)
QueryVerdictTrusting(route, q) ==
  IF route = "execute" /\ q = "toomany" THEN "413" ELSE "next"

(* execute_job: the query is extracted after the gate, and its keys are    *)
(* looked at before the job is triggered.  The other routes ignore it.     *)
QueryVerdict(route, q) ==
  IF route # "execute" \/ q = "plain" THEN "next"
  ELSE IF q = "toomany" THEN "413"
  ELSE IF "security.allow_dangerous_env_overrides" \in cfg.unsafe THEN "next"
  ELSE "403"

(* Bound: one request per behaviour.  No request changes anything that     *)
(* another one could see.                                                  *)
FirstRequest == answer = NoRequest

(* The handler's Path is decoded.                                          *)
Request(route, s, h, q) ==
  /\ pc = "serving"
  /\ FirstRequest
  /\ answer' = [route |-> route, group |-> Decode[s], header |-> h, query |-> q,
                verdict |-> IF Passes(route, s, h) THEN QueryVerdict(route, q)
                            ELSE "401"]
  /\ UNCHANGED bootVars

Init ==
  /\ BootInit
  /\ answer = NoRequest

Next ==
  \/ BootStep /\ UNCHANGED answer
  \/ \E route \in Routes, s \in Segments, h \in Header, q \in Queries :
       Request(route, s, h, q)

Spec == Init /\ [][Next]_vars

-----------------------------------------------------------------------------
(* Properties.                                                             *)

Steps == {"config", "creds", "posture", "token", "history", "executors",
          "load", "listen", "serving", "refused"}

(* Type invariant; only what is present is ever installed as a token, and  *)
(* a process that serves has a recorder.                                   *)
TypeOK ==
  /\ cfg \in ConfigType
  /\ pc \in Steps
  /\ why \in {"none", "config", "panic", "creds", "posture", "token", "dsn",
              "client", "slow", "dsl", "listen"}
  /\ pc = "refused" <=> why # "none"
  /\ recorder \in {"none", "noop", "postgres"}
  /\ pc = "serving" => recorder # "none"
  /\ adminToken \in (Secrets \ {"unset", "empty"}) \cup {"none"}
  /\ DOMAIN groupTokens \subseteq Groups
  /\ \A g \in DOMAIN groupTokens : groupTokens[g] \in Secrets \ {"unset", "empty"}

(* What `cronmanager doctor` says before the start and what main() then    *)
(* does agree: a configuration it does not exit 0 on never gets to serve,  *)
(* one that a gate refuses it exits 1 on, one that a gate panics on it     *)
(* does not exit 0 on, and one whose password is missing it at least       *)
(* reports as BREAK.                                                       *)
DoctorAgrees ==
  /\ pc = "serving" => ExitCode(cfg) = 0
  /\ why \in {"config", "creds", "posture", "token"} => ExitCode(cfg) = 1
  /\ why = "panic" => ExitCode(cfg) # 0
  /\ why = "dsn" => "database.password_env" \in Break(cfg)

(* The boot checks and the gate together: a request to run, stop or reload *)
(* reaches its handler on the admin token, on the token of a group whose   *)
(* name, as a segment of a URL, decodes to the group that is acted on (of  *)
(* a group without escapes in its name: on that group's), or because the   *)
(* operator set trust_network in Dev and no token; nothing else that       *)
(* main() lets start does that.                                            *)
HandledOnlyIfAllowed ==
  answer.verdict = "next" /\ answer.route \in GroupRoutes =>
    \/ answer.header.kind = "admin"
    \/ /\ answer.header.kind = "group" /\ answer.header.of \in Segments
       /\ Decode[answer.header.of] = answer.group
    \/ /\ Environment(cfg) = "Dev"
       /\ "admin.trust_network" \in cfg.unsafe
       /\ ~ Present(cfg.token)

(* An override of a dangerous variable reaches the scheduler only in Dev:  *)
(* the handler lets it through on a flag that main() refuses to start with *)
(* anywhere else, whichever variable named the environment.                *)
OverridesOnlyInDev ==
  answer.verdict = "next" /\ answer.route = "execute" /\ answer.query = "dangerous" =>
    Environment(cfg) = "Dev"

-----------------------------------------------------------------------------
(* What the documentation says and the code does not do.                   *)

(* "FATAL: refuse-to-start conditions in the target env. cronmanager       *)
(* doctor exits 1 if any are present."  Only a failure of the surroundings *)
(* (the client library, a slow disk, a port in use) would go unforetold.   *)
DoctorExitForetells ==
  pc = "refused" /\ why \notin {"panic", "client", "slow", "listen"} =>
    ExitCode(cfg) = 1

(* "In dev, all failures are emitted as WARN and the function returns Ok": *)
(* in Dev main() gets past enforce_creds whatever the credentials are.     *)
WeakCredsPassInDev ==
  Environment(cfg) = "Dev" => why \notin {"panic", "creds"}
=============================================================================
