----------------------------- MODULE MCDispatch ------------------------------
(* Dispatches for TLC.  U32 is 4 in the configurations, so a retry count   *)
(* of 3 is u32::MAX.                                                       *)
EXTENDS Dispatch

(* The record a DSL file and the configuration give for one job.           *)
Job(kind, retries, ignore, secs, off) ==
  [kind |-> kind, retries |-> retries, ignoreFailures |-> ignore,
   shellTimeoutSecs |-> secs, offline |-> off]

(* Both kinds, no retry to two retries and the wrapping count, with and    *)
(* without ignoreFailures, online and offline.                             *)
EveryJob ==
  {Job(kind, retries, ignore, 300, off) :
     kind \in {"http", "exec"}, retries \in 0 .. 3,
     ignore \in BOOLEAN, off \in BOOLEAN}

(* A shell job without retries, for the questions that need no more.       *)
OneShotShell == {Job("exec", 0, FALSE, 300, FALSE)}

(* One retry, with ignoreFailures or not.                                  *)
OneRetry == {Job("http", 1, ignore, 300, FALSE) : ignore \in BOOLEAN}

(* The shell cap set to 0.                                                 *)
NoCap == {Job("exec", 0, FALSE, 0, FALSE)}
=============================================================================
