---------------------------- MODULE MCJobRuntime ----------------------------
(***************************************************************************)
(* JobRuntime for TLC with two workers and two schedulers, of which one    *)
(* is at rest: either two workers race for one claim, also of a deferred   *)
(* job, or two schedulers dispatch to a worker that may restart under its  *)
(* old id.  Processes of a kind are interchangeable; the liveness run does *)
(* without symmetry.                                                       *)
(***************************************************************************)
EXTENDS JobRuntimeRefinement, TLC

CONSTANT ClaimWakes  \* bound: wake-ups in Redis where two workers race

OneRests ==
  \/ (\E w \in Worker : pc[w] = "idle") /\ \A j \in Job : defers[j] = 0
  \/ \E s \in Scheduler : stage[s] = "sleep" /\ \A j \in Job : wakes[j] <= ClaimWakes

ProcessSymmetry == Permutations(Worker) \cup Permutations(Scheduler)

=============================================================================
