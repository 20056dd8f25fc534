-------------------------- MODULE RequestLifecycle ---------------------------
(***************************************************************************)
(* What the request pipeline promises, without threads, queues or locks:   *)
(* each Request goes once through its stages, no more than Threads of them *)
(* run at a time, and the process may end in between.                      *)
(***************************************************************************)
EXTENDS Naturals, FiniteSets

CONSTANTS Requests, Threads

VARIABLES stage, halted

Stages == {"new", "refused", "queued", "running", "finished", "reclaimed"}

lifecycleVars == <<stage, halted>>

Move(r, from, to) ==
  /\ ~halted
  /\ stage[r] = from
  /\ stage' = [stage EXCEPT ![r] = to]
  /\ UNCHANGED halted

Submit(r) == Move(r, "new", "queued")
Refuse(r) == Move(r, "new", "refused")
Start(r) ==
  /\ Cardinality({q \in Requests : stage[q] = "running"}) < Threads
  /\ Move(r, "queued", "running")
Finish(r) == Move(r, "running", "finished")
Reclaim(r) == Move(r, "finished", "reclaimed")

\* An assertion fails, an exception escapes, or freed memory is touched.
Halt == ~halted /\ halted' = TRUE /\ UNCHANGED stage

\* Reclaiming a request and ending on the unlock that this involves is one step.
HaltReclaiming(r) ==
  /\ ~halted /\ halted' = TRUE
  /\ stage[r] = "finished"
  /\ stage' = [stage EXCEPT ![r] = "reclaimed"]

Init == stage = [r \in Requests |-> "new"] /\ halted = FALSE

Next ==
  \/ \E r \in Requests : \/ Submit(r) \/ Refuse(r) \/ Start(r) \/ Finish(r)
                         \/ Reclaim(r) \/ HaltReclaiming(r)
  \/ Halt

Spec == Init /\ [][Next]_lifecycleVars
=============================================================================
