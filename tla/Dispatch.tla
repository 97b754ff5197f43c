------------------------------ MODULE Dispatch -------------------------------
(***************************************************************************)
(* One call of Dispatcher::dispatch (src/src/executor/mod.rs): the retry   *)
(* loop, the two executors it drives (http.rs, shell.rs), the history rows *)
(* it hands to the recorder and the outcome it returns to the scheduler.   *)
(*                                                                         *)
(* The atomic steps are the stretches of code between two awaits.  Of the  *)
(* awaits of an attempt, only two race the cancel Notify: the one on the   *)
(* request / the child ("wait") and the one between attempts ("delay").    *)
(* During the others ("prepare": DNS pre-flight, ETXTBSY back-off; "kill": *)
(* the end of a killed child; "finish": response body, output pipes;       *)
(* "record": history insert) the dispatch is deaf and a notify_waiters is  *)
(* lost.                                                                   *)
(***************************************************************************)
EXTENDS Naturals, Sequences

CONSTANTS
  Jobs,  \* the specs and settings a dispatch may run under, see JobSpecs
  U32    \* the width of u32: retry counts live in 0 .. U32 - 1

JobSpecs ==
  [kind : {"http", "exec"},
   retries : 0 .. U32 - 1,       \* RetryPolicy.count
   ignoreFailures : BOOLEAN,     \* RetryPolicy.ignore_failures
   shellTimeoutSecs : Nat,       \* limits.shell_timeout_secs
   offline : BOOLEAN]            \* CRONMANAGER_OFFLINE

ASSUME JobsAssumption == U32 \in Nat \ {0} /\ Jobs \subseteq JobSpecs

VARIABLES
  job,        \* the spec and settings; never changes
  pc,         \* where the dispatch is
  attempt,    \* the loop variable; 0 before the loop
  tries,      \* ETXTBSY retries of this attempt's spawn
  woken,      \* has the Notify fired since the current select was entered?
  result,     \* what the attempt came to
  child,      \* the attempt's OS process
  lastError,  \* last_error
  rows,       \* the entries handed to HistoryRecorder::record, in order
  outcome     \* the DispatchOutcome

vars == <<job, pc, attempt, tries, woken, result, child, lastError, rows,
          outcome>>

NoOutcome == [status |-> "none", attempts |-> 0, error |-> "none"]

Ended == {"done", "dropped"}

(* retry.count + 1 in u32 arithmetic, which wraps in a release build.      *)
MaxAttempts == IF job.retries + 1 = U32 THEN 0 ELSE job.retries + 1

Init ==
  /\ job \in Jobs
  /\ pc = "start"
  /\ attempt = 0
  /\ tries = 0
  /\ woken = FALSE
  /\ result = "none"
  /\ child = "none"
  /\ lastError = "none"
  /\ rows = <<>>
  /\ outcome = NoOutcome

-----------------------------------------------------------------------------
(* Entering and leaving the loop.                                          *)

Return(status, attempts, error) ==
  /\ pc' = "done"
  /\ outcome' = [status |-> status, attempts |-> attempts, error |-> error]

(* Mutant: attempts are exhausted, and ignoreFailures reports a success.   *)
ExhaustedSucceeds(error) ==
  Return(IF job.ignoreFailures THEN "SUCCESS" ELSE "FAILED", MaxAttempts, error)

(* After the loop: ignoreFailures turns FAILED into SKIPPED.               *)
Exhausted(error) ==
  Return(IF job.ignoreFailures THEN "SKIPPED" ELSE "FAILED", MaxAttempts, error)

Enter ==
  /\ pc = "start"
  /\ ~ job.offline
  /\ \/ /\ MaxAttempts > 0
        /\ pc' = "prepare"
        /\ attempt' = 1
        /\ UNCHANGED outcome
     \/ /\ MaxAttempts = 0
        /\ Exhausted(lastError)
        /\ UNCHANGED attempt
  /\ UNCHANGED <<job, tries, woken, result, child, lastError, rows>>

OfflineRow(stored) == [attempt |-> 1, status |-> "OFFLINE", stored |-> stored]

(* offline_stub: one row, whether or not the insert succeeds, no executor. *)
OfflineStub(stored) ==
  /\ pc = "start"
  /\ job.offline
  /\ rows' = Append(rows, OfflineRow(stored))
  /\ Return("OFFLINE", 1, "none")
  /\ UNCHANGED <<job, attempt, tries, woken, result, child, lastError>>

-----------------------------------------------------------------------------
(* One attempt.  Each executor prepares, waits and finishes; an error on   *)
(* the way ends the attempt early.                                         *)

Attempted(r) ==
  /\ pc' = "record"
  /\ result' = r
  /\ woken' = FALSE

(* Bad method, DNS failure or private address, unset header variable;      *)
(* empty argv, spawn error.                                                *)
PrepareFails ==
  /\ pc = "prepare"
  /\ Attempted("error")
  /\ UNCHANGED <<job, attempt, tries, child, lastError, rows, outcome>>

(* ETXTBSY: sleep 20 ms and spawn again, at most four times.               *)
SpawnBusy ==
  /\ pc = "prepare"
  /\ job.kind = "exec"
  /\ tries < 4
  /\ tries' = tries + 1
  /\ UNCHANGED <<job, pc, attempt, woken, result, child, lastError, rows,
                 outcome>>

(* The request is on its way, or the child runs: enter the select.         *)
Launch ==
  /\ pc = "prepare"
  /\ pc' = "wait"
  /\ woken' = FALSE
  /\ child' = IF job.kind = "exec" THEN "alive" ELSE child
  /\ UNCHANGED <<job, attempt, tries, result, lastError, rows, outcome>>

(* The response head arrived or the child exited: r is what the status     *)
(* code / exit status says; the body or the pipes are still to be read.    *)
Answered(r) ==
  /\ pc = "wait"
  /\ pc' = "finish"
  /\ woken' = FALSE
  /\ result' = r
  /\ child' = IF job.kind = "exec" THEN "reaped" ELSE child
  /\ UNCHANGED <<job, attempt, tries, lastError, rows, outcome>>

(* Send error, HTTP timeouts included, or an I/O error of wait(), which    *)
(* returns without killing the child.                                      *)
WaitFails ==
  /\ pc = "wait"
  /\ Attempted("error")
  /\ child' = IF job.kind = "exec" THEN "stray" ELSE child
  /\ UNCHANGED <<job, attempt, tries, lastError, rows, outcome>>

(* Mutant: the timeout branch forgets to kill.                             *)
ShellTimeoutNoKill ==
  /\ pc = "wait"
  /\ job.kind = "exec"
  /\ Attempted("timeout")
  /\ UNCHANGED <<job, attempt, tries, child, lastError, rows, outcome>>

(* Mutant: the timeout branch kills and goes on waiting.                   *)
ShellTimeoutKeepsWaiting ==
  /\ pc = "wait"
  /\ job.kind = "exec"
  /\ child = "alive"
  /\ child' = "reaped"
  /\ UNCHANGED <<job, pc, attempt, tries, woken, result, lastError, rows,
                 outcome>>

(* sleep(timeout) wins the select, for every value of the setting, and     *)
(* kill() awaits the end of the child.                                     *)
ShellTimeout ==
  /\ pc = "wait"
  /\ job.kind = "exec"
  /\ pc' = "kill"
  /\ woken' = FALSE
  /\ result' = "timeout"
  /\ UNCHANGED <<job, attempt, tries, child, lastError, rows, outcome>>

(* The Notify wins the select.  It need not: select! picks any branch that *)
(* is ready.                                                               *)
AttemptAborted ==
  /\ pc = "wait"
  /\ woken
  /\ pc' = IF job.kind = "exec" THEN "kill" ELSE "record"
  /\ woken' = FALSE
  /\ result' = "aborted"
  /\ UNCHANGED <<job, attempt, tries, child, lastError, rows, outcome>>

(* kill() comes back.  Its result is ignored: a child that could not be    *)
(* signalled or waited for is left to itself.                              *)
ChildKilled(c) ==
  /\ pc = "kill"
  /\ Attempted(result)
  /\ child' = c
  /\ UNCHANGED <<job, attempt, tries, lastError, rows, outcome>>

(* The response body is read, or fails to be, or is too large, within the  *)
(* client's timeout.                                                       *)
HttpFinish(r) ==
  /\ pc = "finish"
  /\ job.kind = "http"
  /\ r \in {result, "error"}
  /\ Attempted(r)
  /\ UNCHANGED <<job, attempt, tries, child, lastError, rows, outcome>>

(* Both output pipes reach their end: the child is gone, and so is every   *)
(* descendant that inherited them.                                         *)
PipesClose(r) ==
  /\ pc = "finish"
  /\ job.kind = "exec"
  /\ r \in {result, "error"}
  /\ Attempted(r)
  /\ UNCHANGED <<job, attempt, tries, child, lastError, rows, outcome>>

-----------------------------------------------------------------------------
(* After an attempt: the history row, then the verdict.                    *)

RowStatus ==
  CASE result = "ok"      -> "SUCCESS"
    [] result = "timeout" -> "TIMEOUT"
    [] result \in {"error", "aborted"} /\ attempt < MaxAttempts -> "RETRYING"
    [] OTHER -> "FAILED"

Row(stored) == [attempt |-> attempt, status |-> RowStatus, stored |-> stored]

(* Mutant: a Notify that keeps the permit of an earlier notify_waiters.    *)
StartDelayStale ==
  /\ pc' = "delay"
  /\ woken' = TRUE
  /\ UNCHANGED outcome

StartDelay ==
  /\ pc' = "delay"
  /\ woken' = FALSE
  /\ UNCHANGED outcome

(* Mutant: a timeout is retried like any other failure.                    *)
VerdictRetriesTimeout ==
  \/ /\ result = "ok"
     /\ Return("SUCCESS", attempt, "none")
     /\ UNCHANGED <<woken, lastError>>
  \/ /\ result # "ok" /\ attempt < MaxAttempts
     /\ lastError' = result
     /\ StartDelay
  \/ /\ result # "ok" /\ attempt >= MaxAttempts
     /\ lastError' = result
     /\ Exhausted(result)
     /\ UNCHANGED woken

Verdict ==
  \/ /\ result = "ok"
     /\ Return("SUCCESS", attempt, "none")
     /\ UNCHANGED <<woken, lastError>>
  \/ /\ result = "timeout"
     /\ lastError' = result
     /\ Return("TIMEOUT", attempt, result)
     /\ UNCHANGED woken
  \/ /\ result \in {"error", "aborted"}
     /\ attempt < MaxAttempts
     /\ lastError' = result
     /\ StartDelay
  \/ /\ result \in {"error", "aborted"}
     /\ attempt >= MaxAttempts
     /\ lastError' = result
     /\ Exhausted(result)
     /\ UNCHANGED woken

(* record() returns, with the row stored or the database error absorbed.   *)
RecordRow(stored) ==
  /\ pc = "record"
  /\ rows' = Append(rows, Row(stored))
  /\ Verdict
  /\ UNCHANGED <<job, attempt, tries, result, child>>

(* Mutant: the next attempt skips a number.                                *)
DelayElapsesTwice ==
  /\ pc = "delay"
  /\ pc' = "prepare"
  /\ attempt' = attempt + 2
  /\ tries' = 0
  /\ woken' = FALSE
  /\ UNCHANGED <<job, result, child, lastError, rows, outcome>>

DelayElapses ==
  /\ pc = "delay"
  /\ pc' = "prepare"
  /\ attempt' = attempt + 1
  /\ tries' = 0
  /\ woken' = FALSE
  /\ UNCHANGED <<job, result, child, lastError, rows, outcome>>

DelayAborted ==
  /\ pc = "delay"
  /\ woken
  /\ woken' = FALSE
  /\ Return("FAILED", attempt, "aborted")
  /\ UNCHANGED <<job, attempt, tries, result, child, lastError, rows>>

-----------------------------------------------------------------------------
(* The environment.                                                        *)

(* notify_waiters, from /stop or from a reload, while a select waits.      *)
Notify ==
  /\ pc \in {"wait", "delay"}
  /\ ~ woken
  /\ woken' = TRUE
  /\ UNCHANGED <<job, pc, attempt, tries, result, child, lastError, rows,
                 outcome>>

(* Shutdown drops the runtime, and with it the task at whatever await it   *)
(* is in.  An insert under way may have reached the database; a child is   *)
(* not killed.                                                             *)
Drop ==
  /\ pc \notin Ended
  /\ pc' = "dropped"
  /\ woken' = FALSE
  /\ \/ UNCHANGED rows
     \/ pc = "record" /\ rows' = Append(rows, Row(TRUE))
     \/ pc = "start" /\ job.offline /\ rows' = Append(rows, OfflineRow(TRUE))
  /\ UNCHANGED <<job, attempt, tries, result, child, lastError, outcome>>

-----------------------------------------------------------------------------

(* What the code of dispatch and of the executors does.                    *)
Advance ==
  \/ Enter
  \/ \E stored \in BOOLEAN : OfflineStub(stored)
  \/ PrepareFails
  \/ SpawnBusy
  \/ Launch
  \/ \E r \in {"ok", "error"} : Answered(r)
  \/ WaitFails
  \/ ShellTimeout
  \/ AttemptAborted
  \/ \E c \in {"reaped", "stray"} : ChildKilled(c)
  \/ \E r \in {"ok", "error"} : HttpFinish(r)
  \/ \E r \in {"ok", "error"} : PipesClose(r)
  \/ \E stored \in BOOLEAN : RecordRow(stored)
  \/ DelayElapses
  \/ DelayAborted

Next ==
  \/ Advance
  \/ Notify
  \/ Drop

Spec == Init /\ [][Next]_vars

(* The steps that something forces: the runtime, the client's timeout on   *)
(* the request and its body, the shell timeout, the back-off and the       *)
(* delay.  No upstream has to answer, no child to exit and nobody to call  *)
(* /stop; and the awaits of Untimed race no timer at all.                  *)
Forced ==
  \/ Enter
  \/ job.kind = "exec" /\ (PrepareFails \/ SpawnBusy \/ Launch)
  \/ job.kind = "http" /\ WaitFails
  \/ ShellTimeout
  \/ \E r \in {"ok", "error"} : HttpFinish(r)
  \/ DelayElapses

(* The awaits without a timeout: the pre-flight's lookup_host, kill(), the *)
(* output pipes, and both inserts into history.                            *)
Untimed ==
  \/ pc = "prepare" /\ job.kind = "http"
  \/ pc = "kill"
  \/ pc = "finish" /\ job.kind = "exec"
  \/ pc = "record"
  \/ pc = "start" /\ job.offline

FairSpec == Spec /\ WF_vars(Forced)

-----------------------------------------------------------------------------
(* Properties.                                                             *)

Steps ==
  {"start", "prepare", "wait", "kill", "finish", "record", "delay"} \cup Ended

RowStatuses == {"SUCCESS", "TIMEOUT", "RETRYING", "FAILED", "OFFLINE"}

Statuses == {"SUCCESS", "TIMEOUT", "FAILED", "SKIPPED", "OFFLINE"}

Errors == {"none", "error", "aborted", "timeout"}

Rows == [attempt : Nat, status : RowStatuses, stored : BOOLEAN]

(* Type invariant; an attempt that is under way is one of the MaxAttempts, *)
(* one that is over has a result, and only a select can be woken.          *)
TypeOK ==
  /\ job \in Jobs
  /\ pc \in Steps
  /\ attempt \in 0 .. MaxAttempts
  /\ pc \in {"prepare", "wait", "kill", "finish", "record", "delay"} =>
       attempt > 0
  /\ pc = "delay" => attempt < MaxAttempts
  /\ tries \in 0 .. 4
  /\ woken \in BOOLEAN
  /\ woken => pc \in {"wait", "delay"}
  /\ result \in Errors \cup {"ok"}
  /\ pc \in {"kill", "finish", "record"} => result # "none"
  /\ child \in {"none", "alive", "reaped", "stray"}
  /\ lastError \in Errors
  /\ rows \in Seq(Rows)
  /\ outcome \in [status : Statuses \cup {"none"}, attempts : Nat, error : Errors]

(* History tells the attempts apart and in order: the i-th row handed to   *)
(* the recorder is attempt i, none is handed over twice or left out, and   *)
(* every row but the last says RETRYING, so nothing follows a SUCCESS, a   *)
(* TIMEOUT or a FAILED.                                                    *)
HistoryInOrder ==
  /\ \A i \in 1 .. Len(rows) :
       /\ rows[i].attempt = i
       /\ i < Len(rows) => rows[i].status = "RETRYING"
  /\ Len(rows) <= IF job.offline THEN 1 ELSE attempt
  /\ pc # "dropped" /\ ~ job.offline =>
       Len(rows) = IF pc \in {"prepare", "wait", "kill", "finish", "record"}
                   THEN attempt - 1 ELSE attempt

LastRow == rows[Len(rows)].status

Final == {"SUCCESS", "TIMEOUT", "OFFLINE"}

(* The outcome the scheduler shows on /jobs and the rows in history tell   *)
(* one story: as many attempts as rows; a success, a timeout or an offline *)
(* fire in both or in neither; any other end is an error, after all count  *)
(* + 1 attempts unless a stop cut them short, and SKIPPED only for a job   *)
(* that ignores its failures.  (When count + 1 wraps to 0 there is no row. *)
(* With which word a row tells a failure is left open: see the README.)    *)
OutcomeTold ==
  pc = "done" /\ MaxAttempts # 0 =>
    /\ outcome.attempts = Len(rows) /\ Len(rows) > 0
    /\ outcome.status \in Final <=> LastRow \in Final
    /\ outcome.status \in Final => outcome.status = LastRow
    /\ outcome.status \notin Final =>
         /\ outcome.error # "none"
         /\ outcome.attempts = job.retries + 1 \/ outcome.error = "aborted"
    /\ outcome.status = "SKIPPED" =>
         job.ignoreFailures /\ outcome.attempts = job.retries + 1

(* No two processes of one run: while the dispatch lives, a child is alive *)
(* only until its own attempt has waited for it or killed it, so neither a *)
(* retry nor the next run of the job starts a second one beside it.  (A    *)
(* child whose wait() or kill() failed is "stray": nothing is known of it.)*)
OneChild ==
  child = "alive" => pc \in {"wait", "kill", "dropped"} /\ job.kind = "exec"

phase == IF pc \in Ended THEN (IF pc = "done" THEN "returned" ELSE "dropped")
         ELSE "dispatch"

ear == IF pc \notin {"wait", "delay"} THEN "deaf"
       ELSE IF woken THEN "woken" ELSE "listening"

Contract == INSTANCE RunContract
              WITH Outcomes <- Statuses, returned <- outcome.status

(* Dispatch behaves as Scheduler's DispatchListen, DispatchResume,         *)
(* NotifyWaiters and RecordOutcome say: it hears a notification only while *)
(* it waits, forgets it when it stops waiting, and returns once.           *)
KeepsContract == Contract!Spec

(* Every dispatch returns (or is dropped by shutdown), whatever fails and  *)
(* however often it is stopped, or else it is left for good in an await    *)
(* that no timeout covers.                                                 *)
HangsOnlyUntimed == <>(pc \in Ended) \/ <>[]Untimed

-----------------------------------------------------------------------------
(* What the documentation says and the code does not do.                   *)

(* "Explicit timeouts on every outbound HTTP call and shell command        *)
(* (limits.shell_timeout_secs). Never unbounded.": the wait for a command  *)
(* and for its output would come to an end.                                *)
NeverUnbounded == []<>(pc \notin {"wait", "finish"})

(* "Signal the currently-running instance of a job (if any) to abort": an  *)
(* attempt that /stop aborted would not be followed by another.            *)
StopAborts == [][result = "aborted" => attempt' = attempt]_vars

(* "0 disables the cap (a WARN is emitted at boot)."                       *)
ZeroDisablesCap ==
  job.kind = "exec" /\ job.shellTimeoutSecs = 0 => result # "timeout"
=============================================================================
