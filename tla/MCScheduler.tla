----------------------------- MODULE MCScheduler -----------------------------
(* Finite instances of Scheduler for TLC.                                  *)
EXTENDS Scheduler

CONSTANTS k1, k2

Cron(k)   == [key |-> k, trigger |-> "cron"]
Manual(k) == [key |-> k, trigger |-> "manual"]

(* One job: manual, or a cron job that two files yield at once (a/b.yaml   *)
(* and a-b.yaml).                                                          *)
DisksOneJob == {<<Manual(k1)>>, <<Cron(k1), Cron(k1)>>}

(* A job that is always there and one that comes and goes; manual, so that *)
(* loads and requests are all there is to interleave.                      *)
DisksTwoJobs == {<<Manual(k2), Manual(k1)>>, <<Manual(k1)>>}
=============================================================================
