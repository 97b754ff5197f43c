------------------------------- MODULE JobSlots ------------------------------
(***************************************************************************)
(* What the running-instance guard of src/src/scheduler.rs promises to a   *)
(* job author: the invocations of one job are serial.  Each job has one    *)
(* slot; an invocation takes a free slot and gives it back, and no slot    *)
(* passes from one invocation to another without having been free between. *)
(***************************************************************************)
CONSTANTS Keys, Actors, Nobody

VARIABLE active  \* [Keys -> the actor whose invocation is executing]

Init == active = [k \in Keys |-> Nobody]

Start(k, a) ==
  /\ active[k] = Nobody
  /\ active' = [active EXCEPT ![k] = a]

Finish(k) ==
  /\ active[k] # Nobody
  /\ active' = [active EXCEPT ![k] = Nobody]

Next == \E k \in Keys : Finish(k) \/ \E a \in Actors : Start(k, a)

Spec == Init /\ [][Next]_active
=============================================================================
