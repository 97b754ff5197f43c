------------------------------ MODULE HttpFire -------------------------------
(***************************************************************************)
(* One attempt of an HTTP job, HttpExecutor::execute in                    *)
(* src/src/executor/http.rs, for what it decides on: whether it may talk   *)
(* to the host, which headers it sends, and what it keeps of the answer.   *)
(* When it ends otherwise (a timeout, a stop, a refused connection) is     *)
(* Dispatch's subject.  The operators take the configuration c, the        *)
(* environment e and, with n, how often each variable of it has changed.   *)
(***************************************************************************)
EXTENDS JobFile, TextCaps

CONSTANT Lookups  \* the sets of addresses a name may resolve to

ASSUME LookupsAssumption == Lookups \subseteq SUBSET Addresses

VARIABLE fire  \* the attempt

(* began: the changes of the environment when the attempt began; read: the *)
(* environment as the attempt saw it.                                      *)
NoFire == [stage |-> "none", spec |-> 0, vetted |-> {}, kept |-> 0,
           began |-> [v \in EnvNames |-> 0], read |-> [v \in EnvNames |-> "unset"]]

FireInit == fire = NoFire

FireEnds(how) == fire' = [fire EXCEPT !.stage = how]

FireBegins(spec, n) ==
  /\ fire.stage = "none"
  /\ spec.type = "http"
  /\ fire' = [fire EXCEPT !.stage = "preflight", !.spec = spec, !.began = n]

(* host_str parses as an address only for IPv4: an IPv6 host comes in      *)
(* brackets, and the lookup gives its own address back.                    *)
Trusted(url) == url.kind = "address" /\ url.host.version = 4

IsAllowlisted(c, url) == url.kind = "name" /\ url.host \in AllowedHosts(c.allowed)

(* reject_private_dns: nothing is looked up for an IPv4 host or without    *)
(* the policy.  One refused address is enough.  vetted is what the lookup  *)
(* here gave; the client resolves the name once more when it connects, and *)
(* what it gets then no code of the service sees.                          *)
Preflight(c) ==
  /\ fire.stage = "preflight"
  /\ LET url == fire.spec.url
     IN  IF ~ c.block \/ Trusted(url)
         THEN fire' = [fire EXCEPT !.stage = "headers",
                         !.vetted = IF url.kind = "address" THEN {url.host} ELSE {}]
         ELSE \E ips \in IF url.kind = "address" THEN {{url.host}} ELSE Lookups :
                IF \E ip \in ips : ssrf_refuses(ip, IsAllowlisted(c, url))
                THEN FireEnds("refused")
                ELSE fire' = [fire EXCEPT !.stage = "headers", !.vetted = ips]

LookupFails(c) ==
  /\ fire.stage = "preflight"
  /\ c.block /\ fire.spec.url.kind = "name"
  /\ FireEnds("unresolved")

(* Mutant: the values that the service started with are kept and sent.     *)
AttachCached(c, e) ==
  /\ fire.stage = "headers"
  /\ fire' = [fire EXCEPT !.stage = "sent", !.read = c.env]

(* Every fire reads the variables anew, without an await in between; an    *)
(* empty value, which no load accepts, passes here.                        *)
AttachHeaders(c, e) ==
  /\ fire.stage = "headers"
  /\ IF \E v \in fire.spec.vars : v \notin EnvNames \/ e[v] \in {"unset", "garbled"}
     THEN FireEnds("header")
     ELSE fire' = [fire EXCEPT !.stage = "sent", !.read = e]

(* Redirects are not followed: any status but a 2xx is an error, of which  *)
(* the sanitised and cut body goes into the message.  The body of a 2xx is *)
(* cut when its row is written.                                            *)
Answered(c, body, ok) ==
  /\ fire.stage = "sent"
  /\ IF WireLength(body) > c.maxResponse THEN FireEnds("toolarge")
     ELSE IF ok
     THEN fire' = [fire EXCEPT !.stage = "success",
                               !.kept = truncate_response_body(body, c.maxStored)]
     ELSE fire' = [fire EXCEPT !.stage = "failure",
                               !.kept = truncate(sanitize_for_log(body, c.maxLog), c.maxError)]

(* Bound: the characters of an answer.                                     *)
Bodies(c) == SeqOf(Chars, c.maxChars)

FireStep(c, e) ==
  \/ Preflight(c) \/ LookupFails(c) \/ AttachHeaders(c, e)
  \/ \E body \in Bodies(c), ok \in BOOLEAN : Answered(c, body, ok)
=============================================================================
