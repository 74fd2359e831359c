----------------------------- MODULE MCInstance -----------------------------
(* Values for the constants of InstanceReconciler, and bounds. *)
EXTENDS InstanceRefinement

CONSTANT InUse     \* the type that the front Services have to begin with

\* How instances are found: those that are yet to be created are left out.
Found ==
  edits = 0 => \A i \in Instances : inst[i].exists /\ inst[i].svcType = InUse

\* What fails, or finds the operator down, is the deletion of an instance or what
\* follows it.
FaultsMeetDeletions ==
  faults' = faults \/ \E i \in Instances : inst[i].deleting \/ ~inst[i].exists

\* A second disturbance is the creation of a deleted instance as it was.
SecondIsCreation ==
  edits' \in {edits, 1} \/ \E i \in Instances :
    inst'[i] = NewInstance(inst[i].uid + 1, inst[i].suspend, inst[i].svcType)
=============================================================================
