-------------------------------- MODULE Boot ---------------------------------
(***************************************************************************)
(* main() from the configuration to the listening socket                   *)
(* (src/src/main.rs), the environment-aware gates it runs on the way       *)
(* (src/src/env_safety.rs, router.rs), the settings they read (config.rs), *)
(* and `cronmanager doctor` (doctor.rs), which replays the gates without   *)
(* starting.                                                               *)
(*                                                                         *)
(* A secret is what the checks tell apart about its value.  A "blank" one  *)
(* is only white space; a "padded" one is strong once trimmed but carries  *)
(* white space around it; an "accented" one is weak, more than four bytes  *)
(* long, and has a character of several bytes across its second byte from  *)
(* either end.                                                             *)
(***************************************************************************)
EXTENDS Naturals, Sequences

CONSTANTS
  Groups,  \* groups that may have a token of their own
  Configs  \* the configurations and surroundings to start under

Secrets == {"unset", "empty", "blank", "short", "pattern", "accented", "padded",
            "strong"}

(* Values of the environment variables: a member of each class the         *)
(* classifier knows, and a misspelt one.                                   *)
EnvWords == {"unset", "dev", "ci", "preprod", "live", "prroduction"}

EnvVars == {"APP_ENV", "ENVIRONMENT", "DEPLOY_ENV"}

(* The posture flags, each named for the setting that is unsafe when it    *)
(* has not its default.                                                    *)
Flags == {"admin.trust_network", "security.block_private_networks",
          "security.allow_dangerous_env_overrides",
          "security.allow_dev_fixture_dsls"}

(* What dsl_path is: nothing, a file, a directory that cannot be read, or  *)
(* one with good files, with malformed ones too, or with a dev fixture.    *)
DslTrees == {"absent", "file", "unreadable", "good", "malformed", "fixture"}

ConfigFiles == {"none", "good", "wrapped", "invalid"}

ConfigType ==
  [file : ConfigFiles,             \* the first file on the search path
   env : [EnvVars -> EnvWords],
   token : Secrets,                \* admin.bearer_token_env
   groupTokens : [Groups -> Secrets],
   database : BOOLEAN,             \* is there a database block?
   password : Secrets,             \* database.password_env
   unsafe : SUBSET Flags,          \* posture flags away from their default
   public : SUBSET {"jobs", "running"},  \* expose_jobs_publicly, ...
   dsl : DslTrees]

ASSUME ConfigsAssumption == Configs \subseteq ConfigType

VARIABLES
  cfg,          \* the configuration; never changes
  pc,           \* how far main() is
  why,          \* the check that refused to start
  recorder,     \* which HistoryRecorder main() chose
  adminToken,   \* AppState.admin_token
  groupTokens   \* AppState.per_group_tokens: a function on the groups it holds

bootVars == <<cfg, pc, why, recorder, adminToken, groupTokens>>

BootInit ==
  /\ cfg \in Configs
  /\ pc = "config"
  /\ why = "none"
  /\ recorder = "none"
  /\ adminToken = "none"
  /\ groupTokens = [g \in {} |-> "none"]

-----------------------------------------------------------------------------
(* env_safety.rs.                                                          *)

(* from_env: the first variable that is set, and "dev" if none is.         *)
RawEnv(c) ==
  LET found == SelectSeq(<<c.env["APP_ENV"], c.env["ENVIRONMENT"], c.env["DEPLOY_ENV"]>>,
                         LAMBDA w : w # "unset")
  IN  IF found = <<>> THEN "dev" ELSE Head(found)

(* from_env_str: an unknown word is Production.                            *)
Environment(c) ==
  CASE RawEnv(c) = "dev"     -> "Dev"
    [] RawEnv(c) = "ci"      -> "Test"
    [] RawEnv(c) = "preprod" -> "Staging"
    [] OTHER                 -> "Production"

RequiresProdCreds(c) == Environment(c) # "Dev"

(* is_weak looks at the trimmed value.                                     *)
IsWeak(s) == s \notin {"padded", "strong"}

WeakCreds(c) ==
  {x \in {"admin", "database"} :
     \/ x = "admin" /\ IsWeak(c.token)
     \/ x = "database" /\ c.database /\ IsWeak(c.password)}

(* enforce_creds formats every weak credential before it looks at the      *)
(* environment, and redact cuts the value at byte offsets: a cut within a  *)
(* character is a panic.                                                   *)
CredsPanic(c) ==
  \E x \in WeakCreds(c) : (IF x = "admin" THEN c.token ELSE c.password) = "accented"

CredsRefused(c) == RequiresProdCreds(c) /\ WeakCreds(c) # {}

PostureRefused(c) == RequiresProdCreds(c) /\ c.unsafe # {}

(* DevFixtureAction::from_env = Refuse.                                    *)
FixturesRefused(c) ==
  RequiresProdCreds(c) /\ "security.allow_dev_fixture_dsls" \notin c.unsafe

-----------------------------------------------------------------------------
(* config.rs and the token check of router.rs.                             *)

(* Mutant: an empty variable counts as a token.                            *)
PresentEvenEmpty(s) == s # "unset"

(* resolve_admin_token, resolve_per_group_tokens: set and not empty.       *)
Present(s) == s \notin {"unset", "empty"}

(* main binds 0.0.0.0 whatever the configuration says.                     *)
BindHost == "0.0.0.0"

BindIsLoopback(host) == host \in {"127.0.0.1", "::1", "localhost"}

(* refuse_to_start_without_token.                                          *)
TokenRefused(c) ==
  /\ ~ Present(c.token)
  /\ "admin.trust_network" \notin c.unsafe
  /\ ~ BindIsLoopback(BindHost)

(* load_all_bounded: a missing directory is no jobs and a malformed file   *)
(* is skipped, but a walk error or a refused fixture is the whole load's.  *)
DslRefused(c) ==
  \/ c.dsl \in {"file", "unreadable"}
  \/ c.dsl = "fixture" /\ FixturesRefused(c)

-----------------------------------------------------------------------------
(* main(), check by check: each returns an error or goes on.               *)

Refuse(reason) ==
  /\ pc' = "refused"
  /\ why' = reason

Check(step, refused, reason, next) ==
  /\ pc = step
  /\ \/ refused /\ Refuse(reason)
     \/ ~ refused /\ pc' = next /\ UNCHANGED why

(* load_or_default: the first file found is the configuration, and has to  *)
(* be one; without a file the defaults apply.                              *)
LoadConfig ==
  /\ Check("config", cfg.file \in {"wrapped", "invalid"}, "config", "creds")
  /\ UNCHANGED <<cfg, recorder, adminToken, groupTokens>>

EnforceCreds ==
  /\ Check("creds", CredsPanic(cfg) \/ CredsRefused(cfg),
           IF CredsPanic(cfg) THEN "panic" ELSE "creds", "posture")
  /\ UNCHANGED <<cfg, recorder, adminToken, groupTokens>>

EnforcePosture ==
  /\ Check("posture", PostureRefused(cfg), "posture", "token")
  /\ UNCHANGED <<cfg, recorder, adminToken, groupTokens>>

ResolveToken ==
  /\ Check("token", TokenRefused(cfg), "token", "history")
  /\ adminToken' = IF Present(cfg.token) THEN cfg.token ELSE "none"
  /\ UNCHANGED <<cfg, recorder, groupTokens>>

(* database_dsn fails only on an unset variable; a database that does not  *)
(* answer is replaced by the no-op recorder.                               *)
OpenHistory ==
  /\ Check("history", cfg.database /\ cfg.password = "unset", "dsn", "executors")
  /\ recorder' \in IF pc' = "refused" THEN {recorder}
                   ELSE IF cfg.database THEN {"postgres", "noop"} ELSE {"noop"}
  /\ UNCHANGED <<cfg, adminToken, groupTokens>>

(* The HTTP client may fail to build.                                      *)
BuildExecutors(fails) ==
  /\ Check("executors", fails, "client", "load")
  /\ UNCHANGED <<cfg, recorder, adminToken, groupTokens>>

(* The load, which may also run into dsl_load_timeout_secs; registering    *)
(* what it returns is Scheduler's boot load.                               *)
LoadJobs(slow) ==
  /\ Check("load", slow \/ DslRefused(cfg), IF slow THEN "slow" ELSE "dsl", "listen")
  /\ UNCHANGED <<cfg, recorder, adminToken, groupTokens>>

(* resolve_per_group_tokens, the router, and the bind, which may fail.     *)
Listen(taken) ==
  /\ Check("listen", taken, "listen", "serving")
  /\ groupTokens' = [g \in {h \in Groups : Present(cfg.groupTokens[h])} |->
                       cfg.groupTokens[g]]
  /\ UNCHANGED <<cfg, recorder, adminToken>>

BootStep ==
  \/ LoadConfig
  \/ EnforceCreds
  \/ EnforcePosture
  \/ ResolveToken
  \/ OpenHistory
  \/ \E fails \in BOOLEAN : BuildExecutors(fails)
  \/ \E slow \in BOOLEAN : LoadJobs(slow)
  \/ \E taken \in BOOLEAN : Listen(taken)

-----------------------------------------------------------------------------
(* doctor::run on the same configuration: the names under each severity    *)
(* that decides something.  WEAK and INFO lines decide nothing.            *)

(* Mutant: the replay of the token check is missing.                       *)
FatalNoReplay(c) ==
  {x \in {"env_safety.creds", "env_safety.posture"} :
     \/ x = "env_safety.creds" /\ CredsRefused(c)
     \/ x = "env_safety.posture" /\ PostureRefused(c)}

Fatal(c) ==
  {x \in {"refuse_to_start", "env_safety.creds", "env_safety.posture",
          "security.allow_dangerous_env_overrides"} :
     \/ x = "refuse_to_start" /\ TokenRefused(c)
     \/ x = "env_safety.creds" /\ CredsRefused(c)
     \/ x = "env_safety.posture" /\ PostureRefused(c)
     \/ x = "security.allow_dangerous_env_overrides"
          /\ x \in c.unsafe /\ RequiresProdCreds(c)}

Break(c) ==
  {x \in {"dsl_path", "database.password_env"} :
     \/ x = "dsl_path" /\ c.dsl \in {"absent", "file"}
     \/ x = "database.password_env"
          /\ c.database /\ c.password \in {"unset", "empty"}}

(* cli_entry fails like main() on a file that is no configuration, and     *)
(* panics in the same check.                                               *)
ExitCode(c) ==
  IF c.file \in {"wrapped", "invalid"} THEN 1
  ELSE IF CredsPanic(c) THEN 101
  ELSE IF Fatal(c) # {} THEN 1 ELSE 0
=============================================================================
