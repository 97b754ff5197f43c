------------------------------ MODULE MCService ------------------------------
(* Configurations for TLC: a small DSL tree, and sets of configurations    *)
(* that vary what a part of the service reads together.                    *)
EXTENDS Service

CONSTANTS r1, r2, r3

ThreeReqs == {r1, r2, r3}

(* a.yaml and a.yml share a group, and a path below sub is a fixture's.    *)
SomeDirs  == {"dsl", "sub"}
SomeFiles == {"a.yaml", "a.yml", "notes.txt", "sub/mock-b.yaml"}
SomeYaml  == SomeFiles \ {"notes.txt"}

Tree == [d \in SomeDirs |-> IF d = "dsl" THEN {"a.yaml", "a.yml", "notes.txt", "sub"}
                            ELSE {"sub/mock-b.yaml"}]

PathRank == [p \in SomeDirs \cup SomeFiles |->
               CASE p = "dsl" -> 0 [] p = "a.yaml" -> 1 [] p = "a.yml" -> 2
                 [] p = "notes.txt" -> 3 [] p = "sub" -> 4 [] OTHER -> 5]

GroupFromPath == [f \in SomeFiles |->
                    CASE f \in {"a.yaml", "a.yml"} -> "a" [] f = "notes.txt" -> "notes"
                      [] OTHER -> "sub-mock-b"]

-----------------------------------------------------------------------------
(* Jobs.                                                                   *)

Host(kind, host) == [kind |-> kind, host |-> host]

Http == [trigger |-> "off", retry |-> 0, type |-> "http", method |-> "GET",
         url |-> Host("name", "svc"), headers |-> {}, headerEnvs |-> {}, command |-> "none"]
Exec == [Http EXCEPT !.type = "exec", !.command = "argv", !.trigger = "cron"]

(* Both sides of every border of the address rules.                        *)
SomeAddresses ==
  {IPv4(o) : o \in {<<8, 8, 8, 8>>, <<127, 0, 0, 1>>, <<169, 254, 169, 254>>,
                    <<169, 253, 0, 0>>, <<10, 0, 0, 5>>, <<172, 15, 0, 1>>,
                    <<172, 16, 0, 1>>, <<172, 31, 0, 1>>, <<172, 32, 0, 1>>,
                    <<192, 168, 0, 1>>, <<100, 63, 0, 1>>, <<100, 64, 0, 1>>,
                    <<100, 128, 0, 1>>, <<0, 0, 0, 0>>, <<0, 0, 0, 1>>,
                    <<192, 0, 2, 1>>, <<198, 51, 100, 1>>, <<203, 0, 113, 1>>,
                    <<223, 0, 0, 1>>, <<224, 0, 0, 1>>, <<240, 0, 0, 1>>,
                    <<255, 255, 255, 255>>}}
  \cup
  {IPv6(s) : s \in {<<0, 0, 0, 0, 0, 0, 0, 0>>, <<0, 0, 0, 0, 0, 0, 0, 1>>,
                    <<0, 0, 0, 0, 0, 65535, 2560, 5>>, <<0, 0, 0, 0, 0, 65535, 2056, 2056>>,
                    <<65152, 0, 0, 0, 0, 0, 0, 1>>, <<65216, 0, 0, 0, 0, 0, 0, 1>>,
                    <<64512, 0, 0, 0, 0, 0, 0, 1>>, <<64511, 0, 0, 0, 0, 0, 0, 1>>,
                    <<64768, 3778, 0, 0, 0, 0, 0, 596>>, <<65280, 0, 0, 0, 0, 0, 0, 1>>,
                    <<8193, 3512, 0, 0, 0, 0, 0, 1>>}}

Literals == {[Http EXCEPT !.url = Host("address", ip)] : ip \in SomeAddresses}

OneSecret  == {[name |-> "x-token", var |-> "TOKEN_A"]}
TwoSecrets == {[name |-> "X-Trace", var |-> "TOKEN_B"], [name |-> "X-Token", var |-> "TOKEN_A"]}

SomeHeaders ==
  {[Http EXCEPT !.headers = h, !.headerEnvs = v] :
     h \in {{}, {[name |-> "X-Token", valid |-> TRUE]}, {[name |-> "X-Trace", valid |-> FALSE]},
            {[name |-> "X-Token", valid |-> TRUE], [name |-> "x-token", valid |-> TRUE]},
            {[name |-> "Host", valid |-> TRUE]}, {[name |-> "no name", valid |-> TRUE]}},
     v \in {{}, OneSecret, TwoSecrets, {[name |-> "X-Trace", var |-> "9BAD"]},
            {[name |-> "Host", var |-> "TOKEN_A"]},
            {[name |-> "X-Token", var |-> "TOKEN_B"], [name |-> "x-token", var |-> "TOKEN_A"]}}}

Faults ==
  {[Http EXCEPT !.trigger = t] : t \in {"false", "true", "cron", "badcron"}}
  \cup {[Http EXCEPT !.retry = n] : n \in {2, 3}}
  \cup {[Http EXCEPT !.method = m] : m \in {"none", "get", "FLOOP"}}
  \cup {[Http EXCEPT !.url = Host(k, "svc")] : k \in {"none", "unparsable", "scheme", "nohost"}}
  \cup {[Exec EXCEPT !.command = c] : c \in {"none", "blank", "noprogram", "argv"}}
  \cup {[Exec EXCEPT !.type = "mail"], [Http EXCEPT !.type = "mail"]}

Job(n, raw) == [name |-> n, raw |-> raw]

Bad == [Http EXCEPT !.trigger = "true"]

SomeRawJobs == Literals \cup SomeHeaders \cup Faults \cup {Http, Exec, Bad}

GoodFile  == Holding("jobs", <<Job("j", Http), Job("k", Exec)>>)
OtherFile == Holding("jobs", <<Job("j", Exec)>>)
MixedFile == Holding("jobs", <<Job("j", Http), Job("k", Bad)>>)
BigFile   == Holding("big", <<Job("k", Exec)>>)

SomeContents == {Absent, Malformed, OtherFile, MixedFile, BigFile}
EditContents == {Absent, OtherFile, BigFile}

SomeLookups == {{}, {IPv4(<<8, 8, 8, 8>>)}, {IPv4(<<8, 8, 8, 8>>), IPv4(<<10, 0, 0, 5>>)},
                {IPv4(<<169, 254, 169, 254>>)},
                {IPv6(<<0, 0, 0, 0, 0, 65535, 2560, 5>>)}}

-----------------------------------------------------------------------------
(* Configurations.                                                         *)

Req(kind, big, tp) ==
  [kind |-> kind, key |-> <<"a", "j">>, big |-> big, traceparent |-> tp,
   filter |-> IF kind \in {"execute", "stop"} THEN "a" ELSE "all"]
None   == Req("none", FALSE, "absent")
Only(q) == [r \in ThreeReqs |-> IF r = r1 THEN q ELSE None]
Reload == Req("reload", FALSE, "absent")

Disk(a, b, n, s) ==
  [f \in SomeFiles |-> CASE f = "a.yaml" -> a [] f = "a.yml" -> b
                         [] f = "notes.txt" -> n [] OTHER -> s]

Base ==
  [disk |-> Disk(GoodFile, Absent, Absent, Absent), root |-> "present", unreadable |-> "none",
   hang |-> "none", panics |-> FALSE, fixtures |-> "Refuse", block |-> TRUE, maxRetry |-> 2,
   allowed |-> {}, env |-> [v \in EnvNames |-> "old"], rotations |-> [v \in EnvNames |-> 0],
   flaky |-> {}, lingers |-> FALSE, maxResponse |-> 12, maxStored |-> 4,
   maxLog |-> 12, maxError |-> 8, maxChars |-> 0, reqs |-> Only(Reload), edits |-> 0, booted |-> FALSE,
   fires |-> FALSE, deadline |-> FALSE, leaves |-> FALSE, signals |-> FALSE,
   handlers |-> {"TERM", "INT"}]

(* One job of every kind, loaded and fired.                                *)
Holds1(raw) == Disk(Holding("jobs", <<Job("j", raw)>>), Absent, Absent, Absent)

Fired == [Base EXCEPT !.fires = TRUE]

Entry(h, f) == [host |-> h, form |-> f]

JobConfigs ==
  {[Fired EXCEPT !.disk = Holds1(raw), !.block = b] : raw \in Literals \cup Faults, b \in BOOLEAN}
  \cup {[Fired EXCEPT !.disk = Holds1(raw), !.env = [v \in EnvNames |->
                                               IF v = "TOKEN_A" THEN a ELSE "old"]] :
          raw \in SomeHeaders, a \in VarStates}
  \cup {[Fired EXCEPT !.disk = Holds1(Http), !.allowed = {Entry(h, f)}] :
          h \in {"svc", "other"}, f \in HostForms}

(* Secrets that are rotated between a load and a fire, during either.      *)
Rotations(a, b) == [v \in EnvNames |-> IF v = "TOKEN_A" THEN a ELSE b]

SecretConfigs ==
  {[Fired EXCEPT !.disk = Holds1([Http EXCEPT !.headerEnvs = v]), !.block = FALSE,
                 !.rotations = n, !.booted = b, !.reqs = Only(IF b THEN None ELSE Reload)] :
     v \in {OneSecret, TwoSecrets}, n \in {Rotations(2, 0), Rotations(1, 1)}, b \in BOOLEAN}

(* Every short answer against every cap.                                   *)
TextConfigs ==
  {[Fired EXCEPT !.disk = Holds1(Http), !.block = FALSE, !.booted = TRUE, !.maxChars = 3,
                 !.maxStored = m, !.maxLog = 2 * m, !.maxError = m, !.reqs = Only(None)] : m \in 0 .. 7}

(* Every tree, and some that are edited under way.                         *)
TreeConfigs ==
  {[Base EXCEPT !.disk = Disk(a, b, n, s), !.fixtures = x] :
     a \in SomeContents \cup {GoodFile}, b \in SomeContents, n \in {Absent, GoodFile},
     s \in {Absent, OtherFile, Malformed}, x \in {"Warn", "Refuse"}}
  \cup {[Base EXCEPT !.disk = Disk(GoodFile, Absent, Absent, OtherFile), !.fixtures = "Warn",
                     !.edits = 2, !.booted = TRUE],
        [Base EXCEPT !.root = "absent"], [Base EXCEPT !.unreadable = "dsl"],
        [Base EXCEPT !.unreadable = "sub"], [Base EXCEPT !.panics = TRUE],
        [Base EXCEPT !.disk = Disk(GoodFile, OtherFile, Absent, OtherFile), !.fixtures = "Warn",
                     !.flaky = {"a.yml", "sub"}]}

(* Requests side by side, with everything that can go wrong around them.   *)
Kinds(a, b, c) ==
  [r \in ThreeReqs |-> Req(IF r = r1 THEN a ELSE IF r = r2 THEN b ELSE c, FALSE, "w3c")]

Live == [Base EXCEPT !.disk = Holds1(Exec), !.booted = TRUE, !.deadline = TRUE, !.leaves = TRUE,
                     !.signals = TRUE]

ApiConfigs ==
  {[Live EXCEPT !.reqs = q] :
     q \in {Kinds("reload", "running", "jobs"), Kinds("execute", "stop", "jobs"),
            Kinds("execute", "reload", "none"), Kinds("execute", "execute", "running"),
            Kinds("reload", "reload", "none")}}
  \cup {[Live EXCEPT !.reqs = Kinds("reload", "reload", "none"), !.hang = "a.yaml"],
        [Live EXCEPT !.reqs = Kinds("reload", "jobs", "none"), !.handlers = {"INT"}],
        [Live EXCEPT !.reqs = Kinds("reload", "none", "none"), !.lingers = TRUE],
        [Live EXCEPT !.reqs = Kinds("reload", "reload", "none"), !.edits = 1, !.signals = FALSE,
                     !.deadline = FALSE, !.leaves = FALSE]}
  \cup {[Live EXCEPT !.reqs = Only([Req("jobs", FALSE, "absent") EXCEPT !.filter = g])] :
          g \in {"a", "b"}}
  \cup {[Base EXCEPT !.reqs = Only(Req(k, b, tp))] :
          k \in {"index", "health"}, b \in BOOLEAN, tp \in Traceparents}

EveryConfig == JobConfigs \cup SecretConfigs \cup TextConfigs \cup TreeConfigs \cup ApiConfigs
=============================================================================
