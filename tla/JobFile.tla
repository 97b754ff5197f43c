------------------------------- MODULE JobFile -------------------------------
(***************************************************************************)
(* What makes one job of a DSL file acceptable: RawJob::into_spec and what *)
(* it calls, in src/src/dsl/loader.rs.  Nothing here keeps state.          *)
(*                                                                         *)
(* A raw job is a record of what the checks look at.  Every rejection ends *)
(* the load of the whole file, and nothing but a log line tells one from   *)
(* another, so a job is either accepted or not.                            *)
(***************************************************************************)
EXTENDS AddressPolicy, FiniteSets

CONSTANT RawJobs  \* the job definitions that files may hold

ASSUME RawJobsAssumption ==
  \A raw \in RawJobs : raw.url.kind = "address" => raw.url.host \in Addresses

(* A header name as written, and as HeaderName gives it back.  A spelling  *)
(* that is not listed is no header name.                                   *)
LowerCase ==
  [n \in {"X-Token", "x-token", "X-Trace", "Host"} |->
     IF n \in {"X-Token", "x-token"} THEN "x-token"
     ELSE IF n = "X-Trace" THEN "x-trace" ELSE "host"]

FORBIDDEN_HEADERS == {"host", "content-length", "transfer-encoding",
                      "connection", "upgrade", "te", "trailer"}

(* The states of an environment variable: unset, set to the empty string,  *)
(* to something no header value may be, or to one of two header values.    *)
HeaderValues == {"old", "new"}
VarStates    == {"unset", "empty", "garbled"} \cup HeaderValues

(* The environment variables that DSL files name; any other name is none   *)
(* that is_ascii_alphanumeric and the digit rule let through.              *)
EnvNames == {"TOKEN_A", "TOKEN_B"}

-----------------------------------------------------------------------------

(* normalise_trigger: `false` and the off words are manual, `true` is an   *)
(* error, any other string is a cron expression, parsed at once.           *)
TriggerAccepted(raw) == raw.trigger \in {"false", "off", "cron"}

Trigger(raw) == IF raw.trigger = "cron" THEN "Cron" ELSE "Manual"

RetryAccepted(raw, policy) == raw.retry <= policy.maxRetry

(* Mutant: literal IPv4 hosts are left to the executor.                    *)
UrlAcceptedUnscreened(raw, policy) == raw.url.kind \in {"name", "address"}

(* validate_http_url: parses, http or https, has a host, and a literal     *)
(* address is no private one.  Names wait for the fire.                    *)
UrlAccepted(raw, policy) ==
  /\ raw.url.kind \in {"name", "address"}
  /\ raw.url.kind = "address" /\ policy.block => ~ is_private_or_local(raw.url.host)

NameAccepted(h) ==
  h.name \in DOMAIN LowerCase /\ LowerCase[h.name] \notin FORBIDDEN_HEADERS

SameName(h, g) == LowerCase[h.name] = LowerCase[g.name]

(* The second loop of build_http_headers: the name is new, whatever its    *)
(* spelling, and the variable is set, not empty and a header value.        *)
HeaderEnvsAccepted(raw, env) ==
  \A h \in raw.headerEnvs :
    /\ NameAccepted(h)
    /\ \A g \in raw.headers \cup raw.headerEnvs : g # h => ~ SameName(g, h)
    /\ h.var \in EnvNames
    /\ env[h.var] \in HeaderValues

(* The first loop does not compare the names.                              *)
HeadersAccepted(raw, env) ==
  /\ \A h \in raw.headers : NameAccepted(h) /\ h.valid
  /\ HeaderEnvsAccepted(raw, env)

(* The known methods, in any case.                                         *)
MethodAccepted(raw) == raw.method \in {"GET", "get"}

(* into_argv: an empty string, a blank one, an empty list and an empty     *)
(* program name are no command.                                            *)
CommandAccepted(raw) == raw.command \notin {"none", "blank", "noprogram"}

(* into_spec.                                                              *)
Accepted(raw, policy, env) ==
  /\ TriggerAccepted(raw)
  /\ RetryAccepted(raw, policy)
  /\ \/ /\ raw.type = "http"
        /\ MethodAccepted(raw)
        /\ UrlAccepted(raw, policy)
        /\ HeadersAccepted(raw, env)
     \/ /\ raw.type = "exec"
        /\ CommandAccepted(raw)

(* JobSpec: of the headers the names and where the values come from.       *)
JobSpec(raw) ==
  LET http == raw.type = "http"
  IN  [trigger |-> Trigger(raw), retry |-> raw.retry, type |-> raw.type,
       url   |-> IF http THEN raw.url ELSE [kind |-> "none"],
       vars  |-> IF http THEN {h.var : h \in raw.headerEnvs} ELSE {},
       names |-> IF http THEN {LowerCase[h.name] : h \in raw.headers \cup raw.headerEnvs}
                 ELSE {}]
=============================================================================
