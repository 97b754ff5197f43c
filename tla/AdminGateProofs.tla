--------------------------- MODULE AdminGateProofs ---------------------------
(***************************************************************************)
(* Proofs about Boot and AdminGate for any groups and any configurations.  *)
(*                                                                         *)
(* What a running service guarantees was decided by checks that lie behind *)
(* it, so the inductive invariant remembers them: Passed says what main()  *)
(* has established by each of its steps, Blamed that the check a refusal   *)
(* names is one that refuses this configuration.                           *)
(***************************************************************************)
EXTENDS AdminGate, TLAPS

AfterToken   == {"history", "executors", "load", "listen", "serving"}
AfterPosture == {"token"} \cup AfterToken
AfterCreds   == {"posture"} \cup AfterPosture
AfterConfig  == {"creds"} \cup AfterCreds

Passed ==
  /\ pc \in AfterConfig => cfg.file \notin {"wrapped", "invalid"}
  /\ pc \in AfterCreds => ~ CredsPanic(cfg) /\ ~ CredsRefused(cfg)
  /\ pc \in AfterPosture => ~ PostureRefused(cfg)
  /\ pc \in AfterToken =>
       /\ ~ TokenRefused(cfg)
       /\ adminToken = IF Present(cfg.token) THEN cfg.token ELSE "none"

Blamed ==
  /\ why = "config" => cfg.file \in {"wrapped", "invalid"}
  /\ why \in {"panic", "creds", "posture", "token"} =>
       cfg.file \notin {"wrapped", "invalid"}
  /\ why = "panic" => CredsPanic(cfg)
  /\ why \in {"creds", "posture", "token"} => ~ CredsPanic(cfg)
  /\ why = "creds" => CredsRefused(cfg)
  /\ why = "posture" => PostureRefused(cfg)
  /\ why = "token" => TokenRefused(cfg)
  /\ why = "dsn" => cfg.database /\ cfg.password = "unset"

IInv ==
  /\ cfg \in ConfigType
  /\ Passed
  /\ Blamed
  /\ HandledOnlyIfAllowed
  /\ OverridesOnlyInDev

USE DEF AfterToken, AfterPosture, AfterCreds, AfterConfig

-----------------------------------------------------------------------------

(* A service that got past the gates either has an admin token or trusts   *)
(* its network in Dev, and overrides dangerous variables only in Dev.      *)
LEMMA PastTheGates ==
  ASSUME cfg \in ConfigType, Passed, pc = "serving"
  PROVE  /\ adminToken = "none" =>
              /\ Environment(cfg) = "Dev"
              /\ "admin.trust_network" \in cfg.unsafe
              /\ ~ Present(cfg.token)
         /\ "security.allow_dangerous_env_overrides" \in cfg.unsafe =>
              Environment(cfg) = "Dev"
<1>1. cfg.token \in Secrets
  BY DEF ConfigType
<1>2. adminToken = "none" => ~ Present(cfg.token)
  BY <1>1 DEF Passed, Secrets, Present
<1>3. adminToken = "none" => "admin.trust_network" \in cfg.unsafe
  BY <1>2 DEF Passed, TokenRefused, BindIsLoopback, BindHost
<1>4. cfg.unsafe # {} => Environment(cfg) = "Dev"
  BY DEF Passed, PostureRefused, RequiresProdCreds
<1> QED BY <1>2, <1>3, <1>4

(* Every step of main() keeps the record of what it has checked.           *)
LEMMA BootKeeps ==
  ASSUME IInv, BootStep
  PROVE  cfg' = cfg /\ Passed' /\ Blamed'
<1> USE DEF IInv, Passed, Blamed, Check, Refuse
<1>1. CASE LoadConfig
  BY <1>1 DEF LoadConfig
<1>2. CASE EnforceCreds
  BY <1>2 DEF EnforceCreds
<1>3. CASE EnforcePosture
  BY <1>3 DEF EnforcePosture
<1>4. CASE ResolveToken
  BY <1>4 DEF ResolveToken
<1>5. CASE OpenHistory
  BY <1>5 DEF OpenHistory
<1>6. CASE \E fails \in BOOLEAN : BuildExecutors(fails)
  BY <1>6 DEF BuildExecutors
<1>7. CASE \E slow \in BOOLEAN : LoadJobs(slow)
  BY <1>7 DEF LoadJobs
<1>8. CASE \E taken \in BOOLEAN : Listen(taken)
  BY <1>8 DEF Listen
<1> QED BY <1>1, <1>2, <1>3, <1>4, <1>5, <1>6, <1>7, <1>8 DEF BootStep

(* A request that reaches a state-changing handler was allowed to.         *)
LEMMA RequestAllowed ==
  ASSUME IInv,
         NEW route \in Routes, NEW s \in Segments, NEW h \in Header, NEW q \in Queries,
         Request(route, s, h, q)
  PROVE  HandledOnlyIfAllowed' /\ OverridesOnlyInDev'
<1>1. /\ adminToken = "none" =>
           /\ Environment(cfg) = "Dev"
           /\ "admin.trust_network" \in cfg.unsafe
           /\ ~ Present(cfg.token)
      /\ "security.allow_dangerous_env_overrides" \in cfg.unsafe =>
           Environment(cfg) = "Dev"
  BY PastTheGates DEF IInv, Request
<1>2. /\ answer'.route = route /\ answer'.group = Decode[s] /\ answer'.header = h
      /\ answer'.query = q
      /\ answer'.verdict = IF Passes(route, s, h) THEN QueryVerdict(route, q) ELSE "401"
      /\ cfg' = cfg
  BY DEF Request, bootVars
<1>3. HandledOnlyIfAllowed'
  <2> SUFFICES ASSUME Passes(route, s, h), route \in GroupRoutes
               PROVE  \/ h.kind = "admin"
                      \/ h.kind = "group" /\ h.of \in Segments /\ Decode[h.of] = Decode[s]
                      \/ /\ Environment(cfg) = "Dev"
                         /\ "admin.trust_network" \in cfg.unsafe
                         /\ ~ Present(cfg.token)
    BY <1>2 DEF HandledOnlyIfAllowed
  <2>1. CASE adminToken = "none"
    BY <2>1, <1>1
  <2>2. CASE AdminMatches(h)
    BY <2>2 DEF AdminMatches
  <2>3. CASE GroupMatches(route, s, h)
    BY <2>3 DEF GroupMatches, PathGroup
  <2> QED BY <2>1, <2>2, <2>3 DEF Passes, Gated
<1>4. OverridesOnlyInDev'
  BY <1>1, <1>2 DEF OverridesOnlyInDev, QueryVerdict
<1> QED BY <1>3, <1>4

-----------------------------------------------------------------------------
(* Type correctness; the recorder is chosen before what needs it.          *)

AfterHistory == {"executors", "load", "listen", "serving"}

TypedInv == TypeOK /\ (pc \in AfterHistory => recorder # "none")

LEMMA BootTyped ==
  ASSUME TypedInv, BootStep
  PROVE  TypedInv'
<1> USE DEF TypedInv, TypeOK, Steps, Check, Refuse, AfterHistory
<1>1. CASE LoadConfig
  BY <1>1 DEF LoadConfig
<1>2. CASE EnforceCreds
  BY <1>2 DEF EnforceCreds
<1>3. CASE EnforcePosture
  BY <1>3 DEF EnforcePosture
<1>4. CASE ResolveToken
  <2>1. adminToken' \in (Secrets \ {"unset", "empty"}) \cup {"none"}
    BY <1>4 DEF ResolveToken, Present, ConfigType
  <2> QED BY <1>4, <2>1 DEF ResolveToken
<1>5. CASE OpenHistory
  BY <1>5 DEF OpenHistory
<1>6. CASE \E fails \in BOOLEAN : BuildExecutors(fails)
  BY <1>6 DEF BuildExecutors
<1>7. CASE \E slow \in BOOLEAN : LoadJobs(slow)
  BY <1>7 DEF LoadJobs
<1>8. CASE \E taken \in BOOLEAN : Listen(taken)
  <2>1. /\ DOMAIN groupTokens' \subseteq Groups
        /\ \A g \in DOMAIN groupTokens' : groupTokens'[g] \in Secrets \ {"unset", "empty"}
    BY <1>8 DEF Listen, Present, ConfigType
  <2> QED BY <1>8, <2>1 DEF Listen
<1> QED BY <1>1, <1>2, <1>3, <1>4, <1>5, <1>6, <1>7, <1>8 DEF BootStep

-----------------------------------------------------------------------------
(* The theorems.                                                           *)

(* The inductive invariant holds throughout.                               *)
LEMMA InductiveIInv == Spec => []IInv
<1>1. Init => IInv
  <2> SUFFICES ASSUME Init PROVE IInv
    OBVIOUS
  <2>1. cfg \in ConfigType /\ Passed /\ Blamed
    BY ConfigsAssumption DEF Init, BootInit, Passed, Blamed
  <2>2. answer.verdict # "next"
    BY DEF Init, NoRequest
  <2> QED BY <2>1, <2>2 DEF IInv, HandledOnlyIfAllowed, OverridesOnlyInDev
<1>2. IInv /\ [Next]_vars => IInv'
  <2> SUFFICES ASSUME IInv, [Next]_vars PROVE IInv'
    OBVIOUS
  <2>1. CASE BootStep /\ UNCHANGED answer
    <3>1. cfg' = cfg /\ answer' = answer /\ Passed' /\ Blamed'
      BY <2>1, BootKeeps
    <3> QED BY <3>1 DEF IInv, HandledOnlyIfAllowed, OverridesOnlyInDev
  <2>2. CASE \E route \in Routes, s \in Segments, h \in Header, q \in Queries :
               Request(route, s, h, q)
    <3>1. HandledOnlyIfAllowed' /\ OverridesOnlyInDev'
      BY <2>2, RequestAllowed
    <3>2. UNCHANGED bootVars
      BY <2>2 DEF Request
    <3> QED BY <3>1, <3>2 DEF IInv, bootVars, Passed, Blamed
  <2>3. CASE UNCHANGED vars
    BY <2>3 DEF vars, bootVars, IInv, Passed, Blamed, HandledOnlyIfAllowed,
                OverridesOnlyInDev
  <2> QED BY <2>1, <2>2, <2>3 DEF Next
<1> QED BY <1>1, <1>2, PTL DEF Spec

(* Type correctness: main() blames a check exactly when it refuses, never  *)
(* installs an absent token, and does not serve without a recorder.        *)
THEOREM TypeCorrect == Spec => []TypeOK
<1>1. Init => TypedInv
  BY ConfigsAssumption DEF Init, BootInit, TypedInv, TypeOK, Steps, AfterHistory
<1>2. TypedInv /\ [Next]_vars => TypedInv'
  <2> SUFFICES ASSUME TypedInv, [Next]_vars PROVE TypedInv'
    OBVIOUS
  <2>1. CASE BootStep
    BY <2>1, BootTyped
  <2>2. CASE UNCHANGED bootVars
    BY <2>2 DEF bootVars, TypedInv, TypeOK
  <2> QED BY <2>1, <2>2 DEF Next, vars, Request
<1>3. TypedInv => TypeOK
  BY DEF TypedInv
<1> QED BY <1>1, <1>2, <1>3, PTL DEF Spec

(* A request to run, stop or reload reaches its handler only on the admin  *)
(* token, on that of a group whose name decodes to the group acted on, or  *)
(* in Dev on a trusted network: for any groups, and any names for them.    *)
THEOREM HandlersAreGuarded == Spec => []HandledOnlyIfAllowed
<1>1. IInv => HandledOnlyIfAllowed
  BY DEF IInv
<1> QED BY <1>1, InductiveIInv, PTL

(* An override of a dangerous variable reaches the scheduler only in Dev.  *)
THEOREM OverridesStayInDev == Spec => []OverridesOnlyInDev
<1>1. IInv => OverridesOnlyInDev
  BY DEF IInv
<1> QED BY <1>1, InductiveIInv, PTL

(* `cronmanager doctor` and main() agree on every configuration.           *)
THEOREM DoctorIsRight == Spec => []DoctorAgrees
<1>1. IInv => DoctorAgrees
  <2> SUFFICES ASSUME IInv PROVE DoctorAgrees
    OBVIOUS
  <2>1. pc = "serving" => ExitCode(cfg) = 0
    <3>1. "security.allow_dangerous_env_overrides" \in cfg.unsafe
            /\ RequiresProdCreds(cfg) => PostureRefused(cfg)
      BY DEF PostureRefused
    <3> QED BY <3>1 DEF IInv, Passed, ExitCode, Fatal
  <2>2. why = "config" => ExitCode(cfg) = 1
    BY DEF IInv, Blamed, ExitCode
  <2>3. why \in {"creds", "posture", "token"} => ExitCode(cfg) = 1
    <3>1. why \in {"creds", "posture", "token"} => Fatal(cfg) # {}
      BY DEF IInv, Blamed, Fatal
    <3> QED BY <3>1 DEF IInv, Blamed, ExitCode
  <2>4. why = "panic" => ExitCode(cfg) # 0
    BY DEF IInv, Blamed, ExitCode
  <2>5. why = "dsn" => "database.password_env" \in Break(cfg)
    BY DEF IInv, Blamed, Break
  <2> QED BY <2>1, <2>2, <2>3, <2>4, <2>5 DEF DoctorAgrees
<1> QED BY <1>1, InductiveIInv, PTL
=============================================================================
