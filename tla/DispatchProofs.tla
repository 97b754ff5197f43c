--------------------------- MODULE DispatchProofs ----------------------------
(***************************************************************************)
(* Proofs about Dispatch for every job, every number of retries (the       *)
(* wrapping one included) and every sequence of failures, stops and lost   *)
(* inserts.                                                                *)
(*                                                                         *)
(* HistoryInOrder is not inductive: it says nothing of the last row while  *)
(* the loop goes on, and the next row must not follow a final one.         *)
(* Progress adds that a dispatch still in its loop has only RETRYING rows, *)
(* and that an offline one never enters the loop.                          *)
(***************************************************************************)
EXTENDS Dispatch, TLAPS

LoopSteps == {"prepare", "wait", "kill", "finish", "record", "delay"}

Progress ==
  /\ pc = "start" => rows = <<>> /\ attempt = 0 /\ child = "none"
  /\ job.offline => pc \notin LoopSteps /\ attempt = 0
  /\ pc \in LoopSteps => \A i \in 1 .. Len(rows) : rows[i].status = "RETRYING"
  /\ pc # "done" => outcome = NoOutcome

IInv == TypeOK /\ Progress /\ HistoryInOrder /\ OutcomeTold /\ OneChild

-----------------------------------------------------------------------------

(* The number of attempts is a natural number, 0 only if count + 1 wraps.  *)
LEMMA MaxAttemptsType ==
  ASSUME job \in Jobs
  PROVE  /\ MaxAttempts \in Nat
         /\ MaxAttempts # 0 => MaxAttempts = job.retries + 1
         /\ job.kind \in {"http", "exec"}
         /\ job.offline \in BOOLEAN
         /\ job.ignoreFailures \in BOOLEAN
BY JobsAssumption DEF JobSpecs, MaxAttempts

(* What Append does to a sequence of rows.                                 *)
LEMMA AppendRow ==
  ASSUME NEW s \in Seq(Rows), NEW r \in Rows
  PROVE  /\ Append(s, r) \in Seq(Rows)
         /\ Len(Append(s, r)) = Len(s) + 1
         /\ Len(s) \in Nat
         /\ \A i \in 1 .. Len(s) : Append(s, r)[i] = s[i]
         /\ Append(s, r)[Len(s) + 1] = r
OBVIOUS

(* The rows the two writers of history build.                              *)
LEMMA RowTyped ==
  ASSUME TypeOK, NEW b \in BOOLEAN
  PROVE  /\ Row(b) \in Rows /\ OfflineRow(b) \in Rows
         /\ Row(b).attempt = attempt /\ Row(b).status = RowStatus
         /\ OfflineRow(b).attempt = 1 /\ OfflineRow(b).status = "OFFLINE"
         /\ result = "ok" <=> RowStatus = "SUCCESS"
         /\ result = "timeout" <=> RowStatus = "TIMEOUT"
         /\ result \in {"error", "aborted"} /\ attempt < MaxAttempts =>
              RowStatus = "RETRYING"
         /\ result \in {"error", "aborted"} /\ attempt >= MaxAttempts =>
              RowStatus = "FAILED"
<1>1. attempt \in Nat /\ MaxAttempts \in Nat /\ result \in Errors \cup {"ok"}
  BY MaxAttemptsType DEF TypeOK
<1>2. RowStatus \in {"SUCCESS", "TIMEOUT", "RETRYING", "FAILED"}
  BY <1>1 DEF RowStatus, Errors
<1> QED BY <1>1, <1>2 DEF Row, OfflineRow, Rows, RowStatus, RowStatuses, Errors

(* The job of a dispatch is fixed.                                         *)
LEMMA JobFixed ==
  ASSUME [Next]_vars
  PROVE  job' = job /\ MaxAttempts' = MaxAttempts
<1>1. job' = job
  BY DEF Next, Advance, Enter, OfflineStub, PrepareFails, SpawnBusy, Launch,
     Answered, WaitFails, ShellTimeout, AttemptAborted, ChildKilled, HttpFinish,
     PipesClose, RecordRow, DelayElapses, DelayAborted, Notify, Drop, vars
<1> QED BY <1>1 DEF MaxAttempts

-----------------------------------------------------------------------------
(* The type invariant.                                                     *)

(* Every step of the dispatch keeps the type invariant.                    *)
LEMMA TypeStep ==
  ASSUME TypeOK, [Next]_vars
  PROVE  TypeOK'
<1>1. job' = job /\ MaxAttempts' = MaxAttempts /\ MaxAttempts \in Nat
  BY JobFixed, MaxAttemptsType DEF TypeOK
<1>2. NoOutcome.status = "none"
  BY DEF NoOutcome
<1> USE <1>1 DEF TypeOK, Steps, Ended, Errors, Statuses
<1>3. CASE Enter
  <2>1. CASE MaxAttempts > 0 /\ pc' = "prepare" /\ attempt' = 1 /\ UNCHANGED outcome
    BY <1>3, <2>1 DEF Enter
  <2>2. CASE Exhausted(lastError) /\ UNCHANGED attempt
    <3>1. outcome' \in [status : Statuses \cup {"none"}, attempts : Nat, error : Errors]
      BY <2>2 DEF Exhausted, Return
    <3> QED BY <1>3, <2>2, <3>1 DEF Enter, Exhausted, Return
  <2> QED BY <1>3, <2>1, <2>2 DEF Enter
<1>4. ASSUME NEW b \in BOOLEAN, OfflineStub(b)
      PROVE  TypeOK'
  BY <1>4, RowTyped, AppendRow DEF OfflineStub, Return
<1>5. CASE PrepareFails \/ SpawnBusy \/ Launch
  <2>1. CASE PrepareFails
    BY <2>1 DEF PrepareFails, Attempted
  <2>2. CASE SpawnBusy
    BY <2>2 DEF SpawnBusy
  <2>3. CASE Launch
    BY <2>3 DEF Launch
  <2> QED BY <1>5, <2>1, <2>2, <2>3
<1>6. CASE WaitFails \/ ShellTimeout \/ AttemptAborted
  BY <1>6, MaxAttemptsType DEF WaitFails, ShellTimeout, AttemptAborted, Attempted
<1>12. ASSUME NEW c \in {"reaped", "stray"}, ChildKilled(c)
       PROVE  TypeOK'
  BY <1>12 DEF ChildKilled, Attempted
<1>7. ASSUME NEW r \in {"ok", "error"}, Answered(r) \/ HttpFinish(r) \/ PipesClose(r)
      PROVE  TypeOK'
  BY <1>7 DEF Answered, HttpFinish, PipesClose, Attempted
<1>8. ASSUME NEW b \in BOOLEAN, RecordRow(b)
      PROVE  TypeOK'
  <2>1. rows' \in Seq(Rows)
    BY <1>8, RowTyped, AppendRow DEF RecordRow
  <2>2. attempt \in Nat /\ result \in Errors \cup {"ok"} /\ result # "none"
    BY <1>8 DEF RecordRow
  <2>3. UNCHANGED <<job, attempt, tries, result, child>> /\ pc = "record"
    BY <1>8 DEF RecordRow
  <2>4. CASE pc' = "done"
    <3>1. outcome' \in [status : Statuses \cup {"none"}, attempts : Nat, error : Errors]
      BY <1>8, <2>2, <2>4 DEF RecordRow, Verdict, Exhausted, Return, StartDelay
    <3>2. lastError' \in Errors /\ woken' = woken
      BY <1>8, <2>2, <2>4 DEF RecordRow, Verdict, Exhausted, Return, StartDelay
    <3> QED BY <2>1, <2>3, <2>4, <3>1, <3>2
  <2>5. CASE pc' # "done"
    <3>1. StartDelay /\ attempt < MaxAttempts /\ lastError' \in Errors
      BY <1>8, <2>2, <2>5 DEF RecordRow, Verdict, Exhausted, Return
    <3> QED BY <2>1, <2>2, <2>3, <3>1 DEF StartDelay
  <2> QED BY <2>4, <2>5
<1>9. CASE DelayElapses \/ DelayAborted \/ Notify
  <2>1. CASE DelayElapses
    <3>1. attempt' \in 0 .. MaxAttempts /\ attempt' > 0 /\ tries' \in 0 .. 4
      BY <2>1 DEF DelayElapses
    <3> QED BY <2>1, <3>1 DEF DelayElapses
  <2>2. CASE DelayAborted
    <3>1. outcome' \in [status : Statuses \cup {"none"}, attempts : Nat, error : Errors]
      BY <2>2 DEF DelayAborted, Return
    <3> QED BY <2>2, <3>1 DEF DelayAborted, Return
  <2>3. CASE Notify
    BY <2>3 DEF Notify
  <2> QED BY <1>9, <2>1, <2>2, <2>3
<1>10. CASE Drop
  <2>1. rows' \in {rows, Append(rows, Row(TRUE)), Append(rows, OfflineRow(TRUE))}
    BY <1>10 DEF Drop
  <2>2. Row(TRUE) \in Rows /\ OfflineRow(TRUE) \in Rows
    BY RowTyped
  <2>3. /\ Append(rows, Row(TRUE)) \in Seq(Rows)
        /\ Append(rows, OfflineRow(TRUE)) \in Seq(Rows)
    BY <2>2, AppendRow
  <2>4. rows' \in Seq(Rows)
    BY <2>1, <2>3, Zenon
  <2> QED BY <1>10, <2>4 DEF Drop
<1>11. CASE UNCHANGED vars
  BY <1>11 DEF vars
<1> QED
  BY <1>3, <1>4, <1>5, <1>6, <1>7, <1>8, <1>9, <1>10, <1>11, <1>12
  DEF Next, Advance

-----------------------------------------------------------------------------
(* History.                                                                *)

(* Steps that write no row and return nothing.                             *)
LEMMA HistoryFrame ==
  ASSUME IInv, [Next]_vars, UNCHANGED <<job, rows, outcome>>,
         \/ (UNCHANGED attempt /\ pc \in LoopSteps \ {"delay"}
                               /\ pc' \in LoopSteps \ {"delay"})
         \/ UNCHANGED <<attempt, pc, child>>
         \/ DelayElapses
  PROVE  Progress' /\ HistoryInOrder' /\ OutcomeTold'
<1>1. attempt \in Nat /\ Len(rows) \in Nat /\ MaxAttempts' = MaxAttempts
  BY JobFixed, MaxAttemptsType DEF IInv, TypeOK
<1>2. CASE UNCHANGED attempt /\ pc \in LoopSteps \ {"delay"}
                             /\ pc' \in LoopSteps \ {"delay"}
  BY <1>1, <1>2 DEF IInv, Progress, HistoryInOrder, OutcomeTold, Final, LoopSteps, LastRow
<1>3. CASE UNCHANGED <<attempt, pc, child>>
  BY <1>1, <1>3 DEF IInv, Progress, HistoryInOrder, OutcomeTold, LastRow
<1>4. CASE DelayElapses
  BY <1>1, <1>4 DEF DelayElapses, IInv, Progress, HistoryInOrder, OutcomeTold,
     LoopSteps, LastRow
<1> QED BY <1>2, <1>3, <1>4

(* A step that hands the row of its attempt to the recorder.               *)
LEMMA HistoryAppend ==
  ASSUME IInv, [Next]_vars, NEW r \in Rows, rows' = Append(rows, r),
         r.attempt = Len(rows) + 1,
         (pc = "start" /\ job.offline) \/ pc = "record"
  PROVE  /\ Len(rows') = Len(rows) + 1
         /\ rows'[Len(rows')] = r
         /\ \A i \in 1 .. Len(rows') :
              /\ rows'[i].attempt = i
              /\ i < Len(rows') => rows'[i].status = "RETRYING"
<1>1. rows \in Seq(Rows)
  BY DEF IInv, TypeOK
<1>2. /\ Len(rows') = Len(rows) + 1
      /\ Len(rows) \in Nat
      /\ \A i \in 1 .. Len(rows) : rows'[i] = rows[i]
      /\ rows'[Len(rows) + 1] = r
  BY <1>1, AppendRow
<1>3. \A i \in 1 .. Len(rows) : rows[i].attempt = i /\ rows[i].status = "RETRYING"
  BY DEF IInv, Progress, HistoryInOrder, LoopSteps
<1> QED BY <1>2, <1>3

(* Rows, progress and outcome after record() has returned.                 *)
LEMMA HistoryRecord ==
  ASSUME IInv, [Next]_vars, NEW b \in BOOLEAN, RecordRow(b)
  PROVE  Progress' /\ HistoryInOrder' /\ OutcomeTold'
<1>1. /\ attempt \in 0 .. MaxAttempts /\ attempt > 0 /\ MaxAttempts \in Nat
      /\ MaxAttempts' = MaxAttempts /\ job' = job /\ attempt' = attempt
      /\ pc = "record" /\ ~ job.offline /\ Len(rows) = attempt - 1
      /\ Len(rows) \in Nat /\ MaxAttempts = job.retries + 1
      /\ result \in {"ok", "error", "aborted", "timeout"}
  BY JobFixed, MaxAttemptsType
  DEF RecordRow, IInv, TypeOK, Progress, HistoryInOrder, LoopSteps, Errors
<1>2. PICK s \in RowStatuses : s = RowStatus
  BY RowTyped DEF IInv, Rows
<1>3. /\ Row(b) \in Rows /\ Row(b).attempt = attempt /\ Row(b).status = s
      /\ result = "ok" <=> s = "SUCCESS"
      /\ result = "timeout" <=> s = "TIMEOUT"
      /\ result \in {"error", "aborted"} /\ attempt < MaxAttempts => s = "RETRYING"
      /\ result \in {"error", "aborted"} /\ attempt >= MaxAttempts => s = "FAILED"
  BY <1>2, RowTyped DEF IInv
<1>4. PICK r \in Rows : r = Row(b)
  BY <1>3
<1>5. /\ Len(rows') = attempt
      /\ LastRow' = s
      /\ \A i \in 1 .. Len(rows') :
           /\ rows'[i].attempt = i
           /\ i < Len(rows') => rows'[i].status = "RETRYING"
  BY <1>1, <1>3, <1>4, HistoryAppend DEF RecordRow, LastRow
<1>6. HistoryInOrder'
  <2>1. pc' \in {"done", "delay"}
    BY DEF RecordRow, Verdict, Return, Exhausted, StartDelay
  <2> QED BY <1>1, <1>5, <2>1 DEF HistoryInOrder
<1>7. Progress'
  <2>1. CASE pc' = "done"
    BY <1>1, <2>1 DEF Progress, LoopSteps
  <2>2. CASE pc' # "done"
    <3>1. pc' = "delay" /\ UNCHANGED outcome /\ s = "RETRYING"
      BY <1>1, <1>3, <2>2
      DEF RecordRow, Verdict, Return, Exhausted, StartDelay
    <3>2. \A i \in 1 .. Len(rows') : rows'[i].status = "RETRYING"
      BY <1>1, <1>5, <3>1 DEF LastRow
    <3> QED BY <1>1, <3>1, <3>2 DEF IInv, Progress, LoopSteps
  <2> QED BY <2>1, <2>2
<1>8. OutcomeTold'
  <2> SUFFICES ASSUME pc' = "done" PROVE OutcomeTold'
    BY DEF OutcomeTold, Final
  <2>1. CASE result = "ok"
    <3>1. outcome' = [status |-> "SUCCESS", attempts |-> attempt, error |-> "none"]
      BY <2>1 DEF RecordRow, Verdict, Return
    <3> QED BY <1>1, <1>3, <1>5, <2>1, <3>1 DEF OutcomeTold, Final
  <2>2. CASE result = "timeout"
    <3>1. outcome' = [status |-> "TIMEOUT", attempts |-> attempt, error |-> result]
      BY <2>2 DEF RecordRow, Verdict, Return
    <3> QED BY <1>1, <1>3, <1>5, <2>2, <3>1 DEF OutcomeTold, Final
  <2>3. CASE result \in {"error", "aborted"}
    <3>1. attempt = MaxAttempts /\ s = "FAILED"
      BY <1>1, <1>3, <2>3 DEF RecordRow, Verdict, StartDelay
    <3>2. outcome' = [status |-> IF job.ignoreFailures THEN "SKIPPED" ELSE "FAILED",
                      attempts |-> attempt, error |-> result]
      BY <1>1, <2>3, <3>1 DEF RecordRow, Verdict, Return, Exhausted
    <3> QED BY <1>1, <1>5, <3>1, <3>2 DEF OutcomeTold, Final
  <2> QED BY <1>1, <2>1, <2>2, <2>3
<1> QED BY <1>6, <1>7, <1>8

(* ... after offline_stub has returned ...                                 *)
LEMMA HistoryOffline ==
  ASSUME IInv, [Next]_vars, NEW b \in BOOLEAN, OfflineStub(b)
  PROVE  Progress' /\ HistoryInOrder' /\ OutcomeTold'
<1>1. /\ pc = "start" /\ job.offline /\ job' = job /\ MaxAttempts' = MaxAttempts
      /\ attempt = 0 /\ attempt' = 0 /\ Len(rows) = 0 /\ pc' = "done"
  BY JobFixed DEF OfflineStub, Return, IInv, Progress
<1>2. PICK r \in Rows : r = OfflineRow(b)
  BY RowTyped DEF IInv
<1>3. r.attempt = 1 /\ r.status = "OFFLINE"
  BY <1>2, RowTyped DEF IInv
<1>4. /\ Len(rows') = 1
      /\ LastRow' = "OFFLINE"
      /\ rows'[1].attempt = 1
  BY <1>1, <1>2, <1>3, HistoryAppend DEF OfflineStub, LastRow
<1>5. outcome' = [status |-> "OFFLINE", attempts |-> 1, error |-> "none"]
  BY DEF OfflineStub, Return
<1> QED
  BY <1>1, <1>4, <1>5 DEF Progress, HistoryInOrder, OutcomeTold, Final, LoopSteps

(* ... and when the task is dropped, with or without its last row.         *)
LEMMA HistoryDrop ==
  ASSUME IInv, [Next]_vars, Drop
  PROVE  Progress' /\ HistoryInOrder' /\ OutcomeTold'
<1>1. /\ pc \in Steps \ Ended /\ pc' = "dropped" /\ job' = job
      /\ attempt' = attempt /\ outcome' = outcome
  BY JobFixed DEF Drop, IInv, TypeOK
<1>2. Progress' /\ OutcomeTold'
  BY <1>1 DEF Progress, OutcomeTold, IInv, LoopSteps, Ended
<1>3. attempt \in Nat /\ Len(rows) \in Nat
  BY MaxAttemptsType DEF IInv, TypeOK
<1>4. (/\ Len(rows') <= IF job.offline THEN 1 ELSE attempt
       /\ \A i \in 1 .. Len(rows') :
            /\ rows'[i].attempt = i
            /\ i < Len(rows') => rows'[i].status = "RETRYING")
      => HistoryInOrder'
  BY <1>1, Zenon DEF HistoryInOrder
<1>5. CASE rows' = rows
  <2>1. /\ Len(rows) <= IF job.offline THEN 1 ELSE attempt
        /\ \A i \in 1 .. Len(rows) :
             /\ rows[i].attempt = i
             /\ i < Len(rows) => rows[i].status = "RETRYING"
    BY Zenon DEF IInv, HistoryInOrder
  <2> QED BY <1>2, <1>4, <1>5, <2>1, Zenon
<1>6. CASE pc = "record" /\ rows' = Append(rows, Row(TRUE))
  <2>1. PICK r \in Rows : rows' = Append(rows, r) /\ r.attempt = attempt
    BY <1>6, RowTyped, Zenon DEF IInv
  <2>2. Len(rows) = attempt - 1 /\ ~ job.offline
    BY <1>6 DEF IInv, HistoryInOrder, Progress, LoopSteps
  <2>3. r.attempt = Len(rows) + 1
    BY <1>3, <2>1, <2>2
  <2>4. /\ Len(rows') = Len(rows) + 1
        /\ \A i \in 1 .. Len(rows') :
             /\ rows'[i].attempt = i
             /\ i < Len(rows') => rows'[i].status = "RETRYING"
    BY <1>6, <2>1, <2>3, HistoryAppend
  <2>5. Len(rows') <= IF job.offline THEN 1 ELSE attempt
    BY <1>3, <2>2, <2>4
  <2> QED BY <1>2, <1>4, <2>4, <2>5, Zenon
<1>7. CASE pc = "start" /\ job.offline /\ rows' = Append(rows, OfflineRow(TRUE))
  <2>1. PICK r \in Rows : rows' = Append(rows, r) /\ r.attempt = 1
    BY <1>7, RowTyped, Zenon DEF IInv
  <2>2. Len(rows) = 0 /\ pc = "start" /\ job.offline
    BY <1>7 DEF IInv, Progress
  <2>3. /\ Len(rows') = Len(rows) + 1
        /\ \A i \in 1 .. Len(rows') :
             /\ rows'[i].attempt = i
             /\ i < Len(rows') => rows'[i].status = "RETRYING"
    BY <2>1, <2>2, HistoryAppend
  <2>4. Len(rows') <= IF job.offline THEN 1 ELSE attempt
    BY <2>2, <2>3
  <2> QED BY <1>2, <1>4, <2>3, <2>4, Zenon
<1> QED BY <1>2, <1>5, <1>6, <1>7 DEF Drop

(* History stays in order and the outcome agrees with it, step by step.    *)
LEMMA HistoryStep ==
  ASSUME IInv, [Next]_vars
  PROVE  Progress' /\ HistoryInOrder' /\ OutcomeTold'
<1>1. /\ job' = job /\ MaxAttempts' = MaxAttempts /\ attempt \in Nat
      /\ MaxAttempts # 0 => MaxAttempts = job.retries + 1
      /\ Len(rows) \in Nat /\ MaxAttempts \in Nat
  BY JobFixed, MaxAttemptsType DEF IInv, TypeOK
<1>2. CASE Enter
  <2>1. pc = "start" /\ ~ job.offline /\ rows' = rows /\ child' = child
    BY <1>2 DEF Enter
  <2>2. rows = <<>> /\ attempt = 0
    BY <2>1 DEF IInv, Progress
  <2>3. \/ (pc' = "prepare" /\ attempt' = 1 /\ outcome' = outcome)
        \/ (pc' = "done" /\ MaxAttempts = 0 /\ attempt' = 0)
    BY <1>2, <2>2 DEF Enter, Exhausted, Return
  <2> QED BY <1>1, <2>1, <2>2, <2>3
    DEF IInv, Progress, HistoryInOrder, OutcomeTold, Final, LoopSteps
<1>3. CASE DelayAborted
  <2>1. /\ pc = "delay" /\ pc' = "done" /\ UNCHANGED <<rows, attempt>>
        /\ outcome' = [status |-> "FAILED", attempts |-> attempt, error |-> "aborted"]
    BY <1>3 DEF DelayAborted, Return
  <2>2. /\ attempt > 0 /\ Len(rows) = attempt
        /\ \A i \in 1 .. Len(rows) : rows[i].status = "RETRYING"
        /\ ~ job.offline
    BY <2>1 DEF IInv, TypeOK, Progress, HistoryInOrder, LoopSteps
  <2>3. LastRow' = "RETRYING"
    BY <1>1, <2>1, <2>2 DEF LastRow
  <2>4. OutcomeTold'
    BY <1>1, <2>1, <2>2, <2>3 DEF OutcomeTold, Final
  <2> QED BY <1>1, <2>1, <2>2, <2>4 DEF IInv, Progress, HistoryInOrder, LoopSteps
<1>4. CASE \/ PrepareFails \/ SpawnBusy \/ Launch \/ WaitFails \/ ShellTimeout
           \/ AttemptAborted \/ Notify \/ DelayElapses
  BY <1>1, <1>4, HistoryFrame DEF PrepareFails, SpawnBusy, Launch, WaitFails,
     ShellTimeout, AttemptAborted, Notify, DelayElapses, Attempted, LoopSteps
<1>5. ASSUME NEW r \in {"ok", "error"}, Answered(r) \/ HttpFinish(r) \/ PipesClose(r)
      PROVE  Progress' /\ HistoryInOrder' /\ OutcomeTold'
  BY <1>1, <1>5, HistoryFrame DEF Answered, HttpFinish, PipesClose, Attempted,
     LoopSteps
<1>7. ASSUME NEW c \in {"reaped", "stray"}, ChildKilled(c)
      PROVE  Progress' /\ HistoryInOrder' /\ OutcomeTold'
  BY <1>1, <1>7, HistoryFrame DEF ChildKilled, Attempted, LoopSteps
<1>6. CASE UNCHANGED vars
  BY <1>6, HistoryFrame DEF vars
<1> QED
  BY <1>2, <1>3, <1>4, <1>5, <1>6, <1>7, HistoryOffline, HistoryRecord, HistoryDrop
  DEF Next, Advance

-----------------------------------------------------------------------------
(* Processes.                                                              *)

(* A child is alive only while its own attempt waits for it.               *)
LEMMA OneChildStep ==
  ASSUME IInv, [Next]_vars
  PROVE  OneChild'
<1>1. job' = job
  BY JobFixed
<1> USE <1>1 DEF IInv, TypeOK, OneChild
<1>2. CASE UNCHANGED child /\ pc \notin {"wait", "kill", "dropped"}
  BY <1>2
<1>3. CASE Launch \/ WaitFails \/ ShellTimeout \/ AttemptAborted
  BY <1>3, MaxAttemptsType DEF Launch, WaitFails, ShellTimeout, AttemptAborted
<1>4. ASSUME NEW r \in {"ok", "error"}, Answered(r)
      PROVE  OneChild'
  BY <1>4, MaxAttemptsType DEF Answered
<1>5. CASE Notify \/ Drop \/ UNCHANGED vars
  BY <1>5 DEF Notify, Drop, vars, Ended
<1>6. CASE Enter \/ PrepareFails \/ SpawnBusy \/ DelayElapses \/ DelayAborted
  BY <1>2, <1>6 DEF Enter, PrepareFails, SpawnBusy, DelayElapses, DelayAborted
<1>7. ASSUME NEW b \in BOOLEAN, OfflineStub(b) \/ RecordRow(b)
      PROVE  OneChild'
  BY <1>2, <1>7 DEF OfflineStub, RecordRow
<1>8. ASSUME NEW r \in {"ok", "error"}, HttpFinish(r) \/ PipesClose(r)
      PROVE  OneChild'
  BY <1>2, <1>8 DEF HttpFinish, PipesClose
<1>9. ASSUME NEW c \in {"reaped", "stray"}, ChildKilled(c)
      PROVE  OneChild'
  BY <1>9 DEF ChildKilled
<1> QED
  BY <1>3, <1>4, <1>5, <1>6, <1>7, <1>8, <1>9 DEF Next, Advance

-----------------------------------------------------------------------------
(* The theorems.                                                           *)

(* The initial states satisfy the inductive invariant ...                  *)
LEMMA InitIInv == Init => IInv
<1> SUFFICES ASSUME Init PROVE IInv
  OBVIOUS
<1>1. TypeOK
  <2>1. MaxAttempts \in Nat /\ attempt \in 0 .. MaxAttempts
    BY MaxAttemptsType DEF Init
  <2>2. outcome \in [status : Statuses \cup {"none"}, attempts : Nat, error : Errors]
    BY DEF Init, NoOutcome, Errors
  <2>3. rows \in Seq(Rows)
    BY DEF Init
  <2>4. woken \in BOOLEAN /\ (woken => pc \in {"wait", "delay"})
    BY Zenon DEF Init
  <2>5. /\ pc = "start" /\ job \in Jobs /\ tries = 0 /\ result = "none"
        /\ child = "none" /\ lastError = "none"
    BY DEF Init
  <2> QED BY <2>1, <2>2, <2>3, <2>4, <2>5 DEF TypeOK, Steps, Errors
<1>2. Len(rows) = 0
  BY DEF Init
<1>3. HistoryInOrder
  BY <1>2 DEF Init, HistoryInOrder
<1>4. Progress /\ OutcomeTold /\ OneChild
  BY DEF Init, Progress, OutcomeTold, OneChild, LoopSteps
<1> QED BY <1>1, <1>3, <1>4 DEF IInv

(* ... and every step preserves it.                                        *)
LEMMA InductiveIInv == Spec => []IInv
<1>1. IInv /\ [Next]_vars => IInv'
  <2> SUFFICES ASSUME IInv, [Next]_vars PROVE IInv'
    OBVIOUS
  <2>1. TypeOK'
    BY TypeStep DEF IInv
  <2> QED BY <2>1, HistoryStep, OneChildStep DEF IInv
<1> QED BY InitIInv, <1>1, PTL DEF Spec

(* Type correctness, with the attempt always within the wrapped maximum.   *)
THEOREM TypeCorrect == Spec => []TypeOK
<1>1. IInv => TypeOK
  BY DEF IInv
<1> QED BY <1>1, InductiveIInv, PTL

(* Rows are handed to history once per attempt and in order, and none      *)
(* follows a final one, whatever the number of retries.                    *)
THEOREM HistoryIsOrdered == Spec => []HistoryInOrder
<1>1. IInv => HistoryInOrder
  BY DEF IInv
<1> QED BY <1>1, InductiveIInv, PTL

(* The outcome given to the scheduler agrees with the last row.            *)
THEOREM OutcomeAgrees == Spec => []OutcomeTold
<1>1. IInv => OutcomeTold
  BY DEF IInv
<1> QED BY <1>1, InductiveIInv, PTL

(* No attempt starts while the child of an earlier one is alive.           *)
THEOREM ChildrenDoNotOverlap == Spec => []OneChild
<1>1. IInv => OneChild
  BY DEF IInv
<1> QED BY <1>1, InductiveIInv, PTL

-----------------------------------------------------------------------------
(* Dispatch implements RunContract.                                        *)

(* Every step of the dispatch is a step the scheduler's model allows.      *)
LEMMA ContractStep ==
  ASSUME IInv, [Next]_vars
  PROVE  [Contract!Next]_<<phase, ear, outcome.status>>
<1> DEFINE Goal == [Contract!Next]_<<phase, ear, outcome.status>>
<1> USE DEF phase, ear, Ended
<1>1. pc \in Steps /\ woken \in BOOLEAN /\ (pc # "done" => outcome = NoOutcome)
  BY DEF IInv, TypeOK, Progress
<1>2. ASSUME pc \notin Ended, pc' = "done",
             NEW o \in Statuses, outcome'.status = o
      PROVE  Goal
  BY <1>2 DEF Contract!Next, Contract!Return
<1>3. CASE UNCHANGED <<pc, woken, outcome>>
  BY <1>3
<1>4. CASE UNCHANGED outcome /\ pc \in {"prepare", "record"} /\ ~ woken'
                             /\ pc' \in {"wait", "delay"}
  BY <1>4 DEF Contract!Next, Contract!Listen
<1>5. CASE UNCHANGED outcome /\ pc \in {"wait", "delay"}
                             /\ pc' \in {"kill", "finish", "record", "prepare"}
  BY <1>5 DEF Contract!Next, Contract!Resume
<1>6. CASE UNCHANGED outcome /\ pc \in {"start", "prepare", "kill", "finish"}
                             /\ pc' \in {"prepare", "record"}
  BY <1>6
<1>7. CASE Enter
  BY <1>2, <1>6, <1>7 DEF Enter, Exhausted, Return, Statuses
<1>8. ASSUME NEW b \in BOOLEAN, OfflineStub(b)
      PROVE  Goal
  BY <1>2, <1>8 DEF OfflineStub, Return, Statuses
<1>9. CASE PrepareFails \/ SpawnBusy \/ Launch
  BY <1>3, <1>4, <1>6, <1>9 DEF PrepareFails, SpawnBusy, Launch, Attempted
<1>10. CASE WaitFails \/ ShellTimeout \/ AttemptAborted \/ DelayElapses
  BY <1>5, <1>10 DEF WaitFails, ShellTimeout, AttemptAborted, DelayElapses, Attempted
<1>11. ASSUME NEW r \in {"ok", "error"}, Answered(r) \/ HttpFinish(r) \/ PipesClose(r)
       PROVE  Goal
  BY <1>5, <1>6, <1>11 DEF Answered, HttpFinish, PipesClose, Attempted
<1>17. ASSUME NEW c \in {"reaped", "stray"}, ChildKilled(c)
       PROVE  Goal
  BY <1>6, <1>17 DEF ChildKilled, Attempted
<1>12. ASSUME NEW b \in BOOLEAN, RecordRow(b)
       PROVE  Goal
  <2>1. CASE StartDelay
    BY <1>4, <1>12, <2>1 DEF RecordRow, StartDelay
  <2>2. CASE ~ StartDelay
    <3>1. pc' = "done" /\ outcome'.status \in Statuses
      BY <1>12, <2>2 DEF RecordRow, Verdict, Exhausted, Return, Statuses
    <3> QED BY <1>2, <1>12, <3>1 DEF RecordRow
  <2> QED BY <2>1, <2>2
<1>13. CASE DelayAborted
  BY <1>2, <1>13 DEF DelayAborted, Return, Statuses
<1>14. CASE Notify
  BY <1>14 DEF Notify, Contract!Next, Contract!Hear
<1>15. CASE Drop
  BY <1>15 DEF Drop, Contract!Next, Contract!Drop
<1>16. CASE UNCHANGED vars
  BY <1>3, <1>16 DEF vars
<1> QED
  BY <1>7, <1>8, <1>9, <1>10, <1>11, <1>12, <1>13, <1>14, <1>15, <1>16, <1>17
  DEF Next, Advance

(* What Scheduler assumes of a dispatch, this dispatch does.               *)
THEOREM ImplementsContract == Spec => KeepsContract
<1>1. Init => Contract!Init
  BY DEF Init, Contract!Init, phase, ear, Ended, NoOutcome
<1>2. IInv /\ [Next]_vars => [Contract!Next]_<<phase, ear, outcome.status>>
  BY ContractStep
<1> QED BY <1>1, <1>2, InductiveIInv, PTL DEF Spec, Contract!Spec, KeepsContract
=============================================================================
