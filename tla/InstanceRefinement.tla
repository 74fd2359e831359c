-------------------------- MODULE InstanceRefinement --------------------------
(***************************************************************************)
(* InstanceReconciler implements InstanceLifecycle: the refinement mapping *)
(* forgets the finalizer, the Service, the address, the conditions and the *)
(* queue, and gives each instance the place of the one worker's pass.  To  *)
(* look after a deleted instance is no pass: its Pod is evicted, and then  *)
(* the instance is gone.                                                   *)
(***************************************************************************)
EXTENDS InstanceReconciler

StateOf(o) ==
  [exists |-> o.exists, suspend |-> o.suspend, suspended |-> o.suspended,
   woken |-> o.woken, phase |-> o.phase]

PodOf(p) == [phase |-> p.phase, deleting |-> p.deleting]

\* The places before the decision is taken.
Undecided == {"finalize", "service", "woken", "suspended", "decide"}

\* A copy without an expiry is as good as decided upon: nothing that happens until
\* the decision can change it.
Waits(p, o) ==
  p \in Undecided /\ (o.suspended.until # NoUntil \/ o.woken.until # NoUntil)

PlaceOf(p, o, now) ==
  CASE p \in InCleanup -> "idle"
    [] Waits(p, o) -> "pass"
    [] p \in Undecided /\ ~Waits(p, o) -> IF WantsPod(o, now) THEN "run" ELSE "stop"
    [] p = "status" -> "report"
    [] OTHER -> p

\* Once the decision is taken, the phase is all that counts of the copy.
CopyOf(p, o) ==
  CASE p \in InCleanup -> StateOf(NoObj)
    [] Waits(p, o) -> StateOf(o)
    [] OTHER -> [StateOf(NoObj) EXCEPT !.exists = TRUE, !.phase = o.phase]

PlaceAt(i) == IF key = i THEN PlaceOf(pc, obj, clock) ELSE "idle"
CopyFor(i) == IF key = i THEN CopyOf(pc, obj) ELSE StateOf(NoObj)
GoalAt(i) == IF key = i THEN goal.phase ELSE ""

\* How the operator finds an instance when it first starts.
FoundStates ==
  {StateOf(o) : o \in {NoInstance(0, t) : t \in ServiceTypes} \cup
                      {NewInstance(1, s, t) : s \in BOOLEAN, t \in ServiceTypes}}

Lifecycle == INSTANCE InstanceLifecycle WITH
  Initially <- FoundStates,
  inst   <- [i \in Instances |-> StateOf(inst[i])],
  icache <- [i \in Instances |-> StateOf(icache[i])],
  pod    <- [i \in Instances |-> PodOf(pod[i])],
  pcache <- [i \in Instances |-> PodOf(pcache[i])],
  place  <- [i \in Instances |-> PlaceAt(i)],
  copy   <- [i \in Instances |-> CopyFor(i)],
  goal   <- [i \in Instances |-> GoalAt(i)]

\* What a task may count on, whatever the rest of the controller does: the phase
\* is written at the end of a pass only, by the decision that pass took on the
\* copy it read, and a Pod is stopped or started by such a decision only.
ImplementsLifecycle == Lifecycle!LifecycleSpec
=============================================================================
