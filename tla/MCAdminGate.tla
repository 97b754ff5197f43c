----------------------------- MODULE MCAdminGate -----------------------------
(* Configurations for TLC: each part of a configuration varies against the *)
(* parts a check reads together with it.                                   *)
EXTENDS AdminGate

CONSTANTS g1, g2, g3, s4

SomeGroups == {g1, g2, g3}

(* As for groups "ab", "a b" and "a%20b": the second is in no URL as it    *)
(* is, the third decodes to the second, and a%2520b decodes to the third.  *)
SomeSegments == [s \in {g1, g3, s4} |-> CASE s = g1 -> g1 [] s = g3 -> g2 [] OTHER -> g3]

Env(a, e, d) ==
  [v \in EnvVars |-> CASE v = "APP_ENV" -> a [] v = "ENVIRONMENT" -> e [] OTHER -> d]

(* Nothing set, each class in some variable, and one hiding another.       *)
SomeEnvs ==
  {Env("unset", "unset", "unset"), Env("unset", "unset", "ci"),
   Env("unset", "preprod", "dev"), Env("live", "dev", "dev"),
   Env("dev", "live", "unset"), Env("prroduction", "unset", "unset")}

Good ==
  [file |-> "good", env |-> Env("live", "unset", "unset"), token |-> "strong",
   groupTokens |-> [g \in Groups |-> "strong"], database |-> TRUE,
   password |-> "strong", unsafe |-> {}, public |-> {}, dsl |-> "good"]

(* No file: every setting has its default, only the environment differs.   *)
Defaults ==
  {[Good EXCEPT !.file = "none", !.env = e, !.token = t, !.database = FALSE,
                !.public = {"jobs", "running"}, !.dsl = "absent"] :
     e \in SomeEnvs, t \in Secrets}

(* What the gates read: environment, credentials and posture.              *)
Postures ==
  {[Good EXCEPT !.env = e, !.token = t, !.unsafe = u] :
     e \in SomeEnvs, t \in Secrets, u \in SUBSET Flags}

(* What the steps after the gates read, where the gates let them be        *)
(* reached and where they do not.                                          *)
Surroundings ==
  {[Good EXCEPT !.env = e, !.password = p, !.database = b, !.dsl = d, !.unsafe = u] :
     e \in SomeEnvs, p \in Secrets, b \in BOOLEAN, d \in DslTrees,
     u \in {{}, {"security.allow_dev_fixture_dsls"}}}

(* Files that are no configuration, and group tokens of every kind.        *)
Others ==
  {[Good EXCEPT !.file = f] : f \in {"wrapped", "invalid"}} \cup
  {[Good EXCEPT !.groupTokens = [g \in Groups |-> IF g = g1 THEN s ELSE "strong"],
                !.public = p] : s \in Secrets, p \in SUBSET {"jobs", "running"}}

EveryConfig == Defaults \cup Postures \cup Surroundings \cup Others

(* In Dev, with every password.                                            *)
DevConfigs ==
  {[Good EXCEPT !.env = Env("dev", "unset", "unset"), !.password = p, !.dsl = d] :
     p \in Secrets, d \in DslTrees}

(* In Dev, with every token and every password.                            *)
DevCreds ==
  {[Good EXCEPT !.env = Env("dev", "unset", "unset"), !.token = t, !.password = p] :
     t \in Secrets, p \in Secrets}
=============================================================================
