--------------------------- MODULE InstanceLifecycle ---------------------------
(***************************************************************************)
(* What the instance controller promises to those who only look at the     *)
(* overrides, the phase and the Pod of an instance - the task controller,  *)
(* first of all.  Finalizer, Service, address, conditions, the queue and   *)
(* the single worker are gone; what stays is that the controller works     *)
(* from cached copies, decides on them, stops or starts the Pod, and only  *)
(* then reports a phase.  InstanceReconciler implements this               *)
(* specification.                                                          *)
(***************************************************************************)
EXTENDS Overrides

CONSTANTS
  Instances,     \* names of RedroidInstances
  Initially,     \* how the operator may find an instance when it first starts
  MaxClock       \* bound: the clock stops there

VARIABLES
  clock,
  inst,          \* spec.suspend, the overrides and the phase of each instance
  pod,           \* its Pod
  icache, pcache,\* what the operator's informers show of both
  place,         \* where the controller is with each instance
  copy,          \* the copy it works on
  goal           \* the phase it is going to report

lifecycleVars == <<clock, inst, pod, icache, pcache, place, copy, goal>>

Phases == {"", "Pending", "Running", "Stopped", "Failed"}
States ==
  [exists : BOOLEAN, suspend : BOOLEAN, suspended : Overrides, woken : Overrides,
   phase : Phases]
Fresh(e, s) ==
  [exists |-> e, suspend |-> s, suspended |-> Cleared, woken |-> Cleared, phase |-> ""]

\* As an earlier run of the operator leaves an instance with spec.suspend.
AtRest == [Fresh(TRUE, TRUE) EXCEPT !.phase = "Stopped"]

\* Yet to be created, created a moment ago, or known from an earlier run.
ASSUME InitiallyAssumption ==
  Initially \subseteq {Fresh(e, s) : e, s \in BOOLEAN} \cup {AtRest}

Absent == [phase |-> "Absent", deleting |-> FALSE]
Started == [phase |-> "Pending", deleting |-> FALSE]
Pods == {Absent} \cup
        [phase : {"Pending", "Running", "Succeeded", "Failed"}, deleting : BOOLEAN]

\* What is reported of a Pod.
PhaseOf(p) ==
  CASE p.phase = "Succeeded" -> "Stopped"
    [] p.phase \in {"Absent", "Pending"} -> "Pending"
    [] OTHER -> p.phase

Wants(o) == DesiredRunning(o.suspend, o.suspended, o.woken, clock)

LifecycleTypeOK ==
  /\ clock \in Nat
  /\ inst \in [Instances -> States] /\ icache \in [Instances -> States]
  /\ pod \in [Instances -> Pods] /\ pcache \in [Instances -> Pods]
  /\ place \in [Instances -> {"idle", "pass", "stop", "run", "report"}]
  /\ copy \in [Instances -> States]
  /\ goal \in [Instances -> Phases]

LifecycleInit ==
  /\ clock = 1
  /\ inst \in [Instances -> Initially]
  /\ pod = [i \in Instances |-> Absent]
  /\ icache = inst /\ pcache = pod
  /\ place = [i \in Instances |-> "idle"]
  /\ copy = [i \in Instances |-> Fresh(FALSE, FALSE)]
  /\ goal = [i \in Instances |-> ""]

-----------------------------------------------------------------------------
(* The controller *)

At(i, p, c, g) ==
  /\ place' = [place EXCEPT ![i] = p]
  /\ copy' = [copy EXCEPT ![i] = c]
  /\ goal' = [goal EXCEPT ![i] = g]
  /\ UNCHANGED <<clock, icache, pcache>>

Leave(i) == At(i, "idle", Fresh(FALSE, FALSE), "")

\* From the decision on, only the phase of the copy matters.
Decided(c) == [Fresh(TRUE, FALSE) EXCEPT !.phase = c.phase]

DecideOn(i, c) == At(i, IF Wants(c) THEN "run" ELSE "stop", Decided(c), "")

\* Overrides without an expiry can be decided upon at once, whatever the time.
Timeless(o) == o.suspended.until = NoUntil /\ o.woken.until = NoUntil

GoOnWith(i, c) == IF Timeless(c) THEN DecideOn(i, c) ELSE At(i, "pass", c, "")

Look(i) ==
  /\ place[i] = "idle" /\ icache[i].exists
  /\ GoOnWith(i, icache[i])
  /\ UNCHANGED <<inst, pod>>

\* An expired override is cleared, and the response decoded into the copy.
Lift(i, stored) ==
  /\ inst' = [inst EXCEPT ![i] = stored]
  /\ UNCHANGED pod

Decoded(c, stored) ==
  [exists |-> TRUE,
   suspend |-> stored.suspend \/ c.suspend,
   suspended |-> DecodeOverride(c.suspended, stored.suspended),
   woken |-> DecodeOverride(c.woken, stored.woken),
   phase |-> IF stored.phase = "" THEN c.phase ELSE stored.phase]

LiftWoken(i) ==
  /\ place[i] = "pass" /\ inst[i].exists /\ Expired(copy[i].woken, clock)
  /\ LET stored == [inst[i] EXCEPT !.woken = Cleared]
     IN Lift(i, stored)
        /\ GoOnWith(i, Decoded([copy[i] EXCEPT !.woken = Cleared], stored))

LiftSuspended(i) ==
  /\ place[i] = "pass" /\ inst[i].exists /\ Expired(copy[i].suspended, clock)
  /\ LET stored == [inst[i] EXCEPT !.suspended = Cleared]
     IN Lift(i, stored)
        /\ GoOnWith(i, Decoded([copy[i] EXCEPT !.suspended = Cleared], stored))

Decide(i) ==
  /\ place[i] = "pass"
  /\ DecideOn(i, copy[i])
  /\ UNCHANGED <<inst, pod>>

\* "Stopped" is reported as soon as the Pod has been asked to go, or when the
\* cache shows none.
Stop(i) ==
  /\ place[i] = "stop"
  /\ pod' = IF pcache[i] # Absent /\ pod[i] # Absent
            THEN [pod EXCEPT ![i].deleting = TRUE] ELSE pod
  /\ At(i, "report", copy[i], "Stopped")
  /\ UNCHANGED inst

Start(i) ==
  /\ place[i] = "run" /\ pcache[i] = Absent
  /\ \/ /\ pod[i] = Absent
        /\ pod' = [pod EXCEPT ![i] = Started]
        /\ At(i, "report", copy[i], "Pending")
     \/ /\ pod[i] # Absent               \* AlreadyExists
        /\ Leave(i) /\ UNCHANGED pod
  /\ UNCHANGED inst

Observe(i) ==
  /\ place[i] = "run" /\ pcache[i] # Absent
  /\ At(i, "report", copy[i], PhaseOf(pcache[i]))
  /\ UNCHANGED <<inst, pod>>

\* The phase is written unless the copy already has it.
Report(i) ==
  /\ place[i] = "report" /\ inst[i].exists
  /\ inst' = IF goal[i] = copy[i].phase THEN inst
             ELSE [inst EXCEPT ![i].phase = goal[i]]
  /\ Leave(i)
  /\ UNCHANGED pod

\* A patch finds no instance any more.
NotFound(i) ==
  /\ place[i] \in {"pass", "report"} /\ ~inst[i].exists
  /\ Leave(i)
  /\ UNCHANGED <<inst, pod>>

PassStep(i) ==
  \/ LiftWoken(i) \/ LiftSuspended(i) \/ Decide(i)
  \/ Stop(i) \/ Start(i) \/ Observe(i) \/ Report(i) \/ NotFound(i)

\* A call that fails ends a pass.
Abandon(i) ==
  /\ place[i] # "idle"
  /\ Leave(i)
  /\ UNCHANGED <<inst, pod>>

See(i) ==
  /\ icache[i] # inst[i]
  /\ icache' = [icache EXCEPT ![i] = inst[i]]
  /\ UNCHANGED <<clock, inst, pod, pcache, place, copy, goal>>

SeePod(i) ==
  /\ pcache[i] # pod[i]
  /\ pcache' = [pcache EXCEPT ![i] = pod[i]]
  /\ UNCHANGED <<clock, inst, pod, icache, place, copy, goal>>

Reboot ==
  /\ icache' = inst /\ pcache' = pod
  /\ place' = [i \in Instances |-> "idle"]
  /\ copy' = [i \in Instances |-> Fresh(FALSE, FALSE)]
  /\ goal' = [i \in Instances |-> ""]
  /\ UNCHANGED <<clock, inst, pod>>

-----------------------------------------------------------------------------
(* The others *)

PodBecomes(i, p) ==
  /\ pod' = [pod EXCEPT ![i] = p]
  /\ UNCHANGED <<clock, inst, icache, pcache, place, copy, goal>>

Starts(i) ==
  pod[i] = Started /\ PodBecomes(i, [pod[i] EXCEPT !.phase = "Running"])

Exits(i) ==
  \E ph \in {"Succeeded", "Failed"} :
    /\ pod[i].phase = "Running" \/ (pod[i].phase = "Pending" /\ ph = "Failed")
    /\ PodBecomes(i, [pod[i] EXCEPT !.phase = ph])

Evicted(i) ==
  /\ pod[i] # Absent /\ ~pod[i].deleting
  /\ PodBecomes(i, [pod[i] EXCEPT !.deleting = TRUE])

Gone(i) == pod[i].deleting /\ PodBecomes(i, Absent)

Kubelet(i) == Starts(i) \/ Gone(i)

InstanceBecomes(i, o) ==
  /\ inst' = [inst EXCEPT ![i] = o]
  /\ UNCHANGED <<clock, pod, icache, pcache, place, copy, goal>>

Created(i) ==
  ~inst[i].exists /\ \E s \in BOOLEAN : InstanceBecomes(i, Fresh(TRUE, s))

\* The finalizer goes; whoever asked for the deletion, and when, is left out.
Removed(i) == inst[i].exists /\ InstanceBecomes(i, Fresh(FALSE, FALSE))

\* Whoever may, writes spec.suspend and the overrides, but nobody else the phase.
Edited(i) ==
  /\ inst[i].exists
  /\ inst'[i] \in States /\ inst'[i].exists /\ inst'[i].phase = inst[i].phase
  /\ InstanceBecomes(i, inst'[i])

Environment(i) == Created(i) \/ Removed(i) \/ Edited(i)

ClockTicks ==
  /\ clock < MaxClock
  /\ clock' = clock + 1
  /\ UNCHANGED <<inst, pod, icache, pcache, place, copy, goal>>

Controller(i) == Look(i) \/ PassStep(i) \/ See(i) \/ SeePod(i)

LifecycleNext ==
  \/ \E i \in Instances :
       \/ Controller(i) \/ Abandon(i) \/ Environment(i)
       \/ Kubelet(i) \/ Exits(i) \/ Evicted(i)
  \/ Reboot \/ ClockTicks

LifecycleSpec == LifecycleInit /\ [][LifecycleNext]_lifecycleVars
=============================================================================
