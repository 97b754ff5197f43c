----------------------------- MODULE RunContract -----------------------------
(***************************************************************************)
(* What the scheduler relies on when it calls dispatch with a Notify: the  *)
(* steps that Scheduler gives an actor between GetCancel and               *)
(* RecordOutcome, for one dispatch.  The dispatch waits on its Notify now  *)
(* and then; a notify_waiters reaches it only then; what it does about it, *)
(* and when it returns, is its own choice; what it returns never changes.  *)
(***************************************************************************)
CONSTANTS Outcomes

VARIABLES
  phase,     \* "dispatch", "returned", or "dropped" with the runtime
  ear,       \* "deaf", "listening" or "woken"
  returned   \* the status returned, or "none"

Init == phase = "dispatch" /\ ear = "deaf" /\ returned = "none"

Listen ==
  /\ phase = "dispatch" /\ ear = "deaf"
  /\ ear' = "listening"
  /\ UNCHANGED <<phase, returned>>

Resume ==
  /\ phase = "dispatch" /\ ear # "deaf"
  /\ ear' = "deaf"
  /\ UNCHANGED <<phase, returned>>

Hear ==
  /\ ear = "listening"
  /\ ear' = "woken"
  /\ UNCHANGED <<phase, returned>>

Return(o) ==
  /\ phase = "dispatch"
  /\ phase' = "returned"
  /\ ear' = "deaf"
  /\ returned' = o

Drop ==
  /\ phase = "dispatch"
  /\ phase' = "dropped"
  /\ ear' = "deaf"
  /\ UNCHANGED returned

Next ==
  \/ Listen
  \/ Resume
  \/ Hear
  \/ \E o \in Outcomes : Return(o)
  \/ Drop

Spec == Init /\ [][Next]_<<phase, ear, returned>>
=============================================================================
