-------------------------- MODULE RefinementProofs --------------------------
(***************************************************************************)
(* InstanceReconciler implements InstanceLifecycle, for every set of       *)
(* instances: each step of the controller, of the cluster and of the users *)
(* is a step of the lifecycle under the mapping of InstanceRefinement, or  *)
(* changes nothing there.                                                  *)
(***************************************************************************)
EXTENDS InstanceRefinement, InstanceProofs

-----------------------------------------------------------------------------
(* The two modules speak of overrides in the same way. *)

LEMMA SameOverrides ==
  /\ Lifecycle!Cleared = Cleared /\ Lifecycle!NoUntil = NoUntil
  /\ Lifecycle!Overrides = Overrides
  /\ \A o, now : Lifecycle!Expired(o, now) <=> Expired(o, now)
  /\ \A s, o, w, now : Lifecycle!DesiredRunning(s, o, w, now) <=> DesiredRunning(s, o, w, now)
  /\ \A l, o : Lifecycle!DecodeOverride(l, o) = DecodeOverride(l, o)
<1>1. Lifecycle!Cleared = Cleared /\ Lifecycle!NoUntil = NoUntil
  BY DEF Lifecycle!Cleared, Cleared, Lifecycle!NoActor, NoActor, Lifecycle!NoUntil, NoUntil
<1>2. Lifecycle!Overrides = Overrides
  BY <1>1 DEF Lifecycle!Overrides, Overrides
<1>3. \A o, now : Lifecycle!Expired(o, now) <=> Expired(o, now)
  BY <1>1 DEF Lifecycle!Expired, Expired
<1>4. \A s, o, w, now :
        Lifecycle!DesiredRunning(s, o, w, now) <=> DesiredRunning(s, o, w, now)
  BY <1>3 DEF Lifecycle!DesiredRunning, DesiredRunning, Lifecycle!Live, Live
<1>5. \A l, o : Lifecycle!DecodeOverride(l, o) = DecodeOverride(l, o)
  BY <1>1
  DEF Lifecycle!DecodeOverride, DecodeOverride, Lifecycle!MergeOverride, MergeOverride
<1>6. QED BY <1>1, <1>2, <1>3, <1>4, <1>5

\* A pass that goes on has an object, and nothing to report before the end.
PassShape ==
  /\ key # NoKey => obj.exists
  /\ pc # "status" => goal = NoReport

\* Two states of an instance that agree on every field are the same.
LEMMA SameState ==
  ASSUME NEW c \in Lifecycle!States, NEW d \in Lifecycle!States,
         c.exists = d.exists, c.suspend = d.suspend, c.suspended = d.suspended,
         c.woken = d.woken, c.phase = d.phase
  PROVE  c = d
  BY DEF Lifecycle!States

\* The objects of the controller are well-formed states of the lifecycle.
LEMMA StateTypes ==
  /\ \A o \in InstanceObjects : StateOf(o) \in Lifecycle!States
  /\ \A e, s \in BOOLEAN : Lifecycle!Fresh(e, s) \in Lifecycle!States
  /\ \A c \in Lifecycle!States : Lifecycle!Decided(c) \in Lifecycle!States
<1>1. Lifecycle!Phases = Phases /\ Lifecycle!Overrides = Overrides
  BY SameOverrides DEF Lifecycle!Phases, Phases
<1>2. Lifecycle!Cleared \in Overrides
  BY SameOverrides, OverrideTypes
<1>3. \A o \in InstanceObjects : StateOf(o) \in Lifecycle!States
  BY <1>1 DEF StateOf, InstanceObjects, Lifecycle!States
<1>4. \A e, s \in BOOLEAN : Lifecycle!Fresh(e, s) \in Lifecycle!States
  BY <1>1, <1>2 DEF Lifecycle!Fresh, Lifecycle!States, Phases
<1>5. \A c \in Lifecycle!States : Lifecycle!Decided(c) \in Lifecycle!States
  BY <1>4 DEF Lifecycle!Decided, Lifecycle!States
<1>6. QED BY <1>3, <1>4, <1>5

\* Nothing, and an object that is not there, in the terms of the lifecycle.
LEMMA RestState ==
  /\ StateOf(NoObj) = Lifecycle!Fresh(FALSE, FALSE)
  /\ \A u, s, t : StateOf(NewInstance(u, s, t)) = Lifecycle!Fresh(TRUE, s)
  /\ \A u, t : StateOf(NoInstance(u, t)) = Lifecycle!Fresh(FALSE, FALSE)
  /\ PodOf(NoPod) = Lifecycle!Absent
  /\ \A p \in PodObjects : Present(p) <=> PodOf(p) # Lifecycle!Absent
<1>1. /\ \A u, s, t : StateOf(NewInstance(u, s, t)) = Lifecycle!Fresh(TRUE, s)
      /\ \A u, t : StateOf(NoInstance(u, t)) = Lifecycle!Fresh(FALSE, FALSE)
  BY SameOverrides DEF StateOf, NoInstance, NewInstance, Lifecycle!Fresh
<1>2. PodOf(NoPod) = Lifecycle!Absent
  BY DEF PodOf, NoPod, Lifecycle!Absent
<1>3. ASSUME NEW p \in PodObjects, Present(p) PROVE PodOf(p) # Lifecycle!Absent
  <2>1. p.phase \in PodPhases
    BY <1>3 DEF PodObjects, Present
  <2>2. p.phase # "Absent"
    BY <2>1 DEF PodPhases
  <2>3. QED BY <2>2 DEF PodOf, Lifecycle!Absent
<1>4. QED BY <1>1, <1>2, <1>3 DEF NoObj, Present

\* The decision is the same on both sides.
LEMMA SameDecision ==
  ASSUME NEW o, NEW now
  PROVE  Lifecycle!DesiredRunning(StateOf(o).suspend, StateOf(o).suspended,
                                  StateOf(o).woken, now)
           <=> WantsPod(o, now)
  BY SameOverrides DEF StateOf, WantsPod

\* What the lifecycle sees of a pass at place p with copy o.
Shows(p, o, now) ==
  /\ p \in InCleanup =>
       PlaceOf(p, o, now) = "idle" /\ CopyOf(p, o) = Lifecycle!Fresh(FALSE, FALSE)
  /\ p \in Undecided /\ Lifecycle!Timeless(StateOf(o)) =>
       /\ WantsPod(o, now) => PlaceOf(p, o, now) = "run"
       /\ ~WantsPod(o, now) => PlaceOf(p, o, now) = "stop"
       /\ CopyOf(p, o) = Lifecycle!Decided(StateOf(o))
  /\ p \in Undecided /\ ~Lifecycle!Timeless(StateOf(o)) =>
       PlaceOf(p, o, now) = "pass" /\ CopyOf(p, o) = StateOf(o)
  /\ p \in {"stop", "run"} =>
       PlaceOf(p, o, now) = p /\ CopyOf(p, o) = Lifecycle!Decided(StateOf(o))
  /\ p = "status" =>
       PlaceOf(p, o, now) = "report" /\ CopyOf(p, o) = Lifecycle!Decided(StateOf(o))

LEMMA PassView == ASSUME NEW p, NEW o \in InstanceObjects, NEW now PROVE Shows(p, o, now)
<1> USE DEF Shows
<1> DEFINE c == StateOf(o)
<1>1. Lifecycle!Timeless(c) <=> (o.suspended.until = NoUntil /\ o.woken.until = NoUntil)
  BY SameOverrides DEF Lifecycle!Timeless, StateOf
<1>3. Lifecycle!Decided(c) = [StateOf(NoObj) EXCEPT !.exists = TRUE, !.phase = o.phase]
  <2> DEFINE d == [StateOf(NoObj) EXCEPT !.exists = TRUE, !.phase = o.phase]
  <2>1. c.phase = o.phase /\ o.phase \in Phases
    BY DEF StateOf, InstanceObjects
  <2>2. c \in Lifecycle!States /\ StateOf(NoObj) \in Lifecycle!States
    BY StateTypes, ObjectTypes
  <2>3. Lifecycle!Decided(c) \in Lifecycle!States /\ d \in Lifecycle!States
    BY <2>1, <2>2, StateTypes DEF Lifecycle!States
  <2>4. StateOf(NoObj) = Lifecycle!Fresh(FALSE, FALSE)
    BY RestState
  <2>5. /\ d.exists = TRUE /\ d.phase = o.phase /\ d.suspend = FALSE
        /\ d.suspended = Lifecycle!Cleared /\ d.woken = Lifecycle!Cleared
    <3>1. LET s == StateOf(NoObj)
          IN /\ s.suspend = FALSE
             /\ s.suspended = Lifecycle!Cleared /\ s.woken = Lifecycle!Cleared
      <4>1. LET f == Lifecycle!Fresh(FALSE, FALSE)
            IN /\ f.suspend = FALSE
               /\ f.suspended = Lifecycle!Cleared /\ f.woken = Lifecycle!Cleared
        BY DEF Lifecycle!Fresh
      <4>2. QED BY <2>4, <4>1
    <3>2. QED BY <2>2, <3>1 DEF Lifecycle!States
  <2>6. LET e == Lifecycle!Decided(c)
        IN /\ e.exists = TRUE /\ e.phase = c.phase /\ e.suspend = FALSE
           /\ e.suspended = Lifecycle!Cleared /\ e.woken = Lifecycle!Cleared
    <3> DEFINE f == Lifecycle!Fresh(TRUE, FALSE)
    <3>1. f \in Lifecycle!States
      BY StateTypes
    <3>2. /\ f.exists = TRUE /\ f.suspend = FALSE
          /\ f.suspended = Lifecycle!Cleared /\ f.woken = Lifecycle!Cleared
      BY DEF Lifecycle!Fresh
    <3>3. Lifecycle!Decided(c) = [f EXCEPT !.phase = c.phase]
      BY DEF Lifecycle!Decided
    <3> HIDE DEF f
    <3>4. QED BY <3>1, <3>2, <3>3 DEF Lifecycle!States
  <2> HIDE DEF d
  <2>7. LET e == Lifecycle!Decided(c)
        IN /\ e.exists = d.exists /\ e.phase = d.phase /\ e.suspend = d.suspend
          /\ e.suspended = d.suspended /\ e.woken = d.woken
    BY <2>1, <2>5, <2>6
  <2> DEFINE e == Lifecycle!Decided(c)
  <2> HIDE DEF e
  <2>8. e = d
    <3>1. e \in Lifecycle!States /\ d \in Lifecycle!States
      BY <2>3 DEF e
    <3>2. /\ e.exists = d.exists /\ e.phase = d.phase /\ e.suspend = d.suspend
          /\ e.suspended = d.suspended /\ e.woken = d.woken
      BY <2>7 DEF e
    <3>3. QED BY <3>1, <3>2, SameState
  <2>9. QED BY <2>8 DEF d, e
<1>4. p \in InCleanup => p \notin Undecided /\ p # "status" /\ p \notin {"stop", "run"}
  BY DEF InCleanup, Undecided
<1>5. p \in {"stop", "run", "status"} => p \notin Undecided /\ p \notin InCleanup
  BY DEF InCleanup, Undecided
<1>6. CASE p \in InCleanup
  BY <1>4, <1>6, RestState DEF PlaceOf, CopyOf, Waits
<1>7. CASE p \in Undecided
  <2>1. p \notin InCleanup /\ p \notin {"stop", "run", "status"}
    BY <1>4, <1>5, <1>7
  <2>2. CASE Lifecycle!Timeless(c)
    BY <1>1, <1>3, <1>7, <2>1, <2>2 DEF PlaceOf, CopyOf, Waits
  <2>3. CASE ~Lifecycle!Timeless(c)
    BY <1>1, <1>7, <2>1, <2>3 DEF PlaceOf, CopyOf, Waits
  <2>4. QED BY <2>2, <2>3
<1>8. CASE p \in {"stop", "run", "status"}
  BY <1>3, <1>5, <1>8 DEF PlaceOf, CopyOf, Waits
<1>9. CASE p \notin InCleanup \cup Undecided \cup {"stop", "run", "status"}
  BY <1>9
<1>10. QED BY <1>6, <1>7, <1>8, <1>9

-----------------------------------------------------------------------------
(* Where the worker is, in the terms of the lifecycle. *)

WorkerStill ==
  /\ [i \in Instances |-> PlaceAt(i)]' = [i \in Instances |-> PlaceAt(i)]
  /\ [i \in Instances |-> CopyFor(i)]' = [i \in Instances |-> CopyFor(i)]
  /\ [i \in Instances |-> GoalAt(i)]' = [i \in Instances |-> GoalAt(i)]

InstStill == [i \in Instances |-> StateOf(inst[i])]' = [i \in Instances |-> StateOf(inst[i])]
PodStill == [i \in Instances |-> PodOf(pod[i])]' = [i \in Instances |-> PodOf(pod[i])]

\* What does not change is still the same.
LEMMA UnchangedStill ==
  /\ UNCHANGED inst => InstStill
  /\ UNCHANGED pod => PodStill
  /\ UNCHANGED <<pc, key, obj, goal, clock>> => WorkerStill
<1>1. UNCHANGED inst => InstStill
  BY DEF InstStill
<1>2. UNCHANGED pod => PodStill
  BY DEF PodStill
<1>3. ASSUME UNCHANGED <<pc, key, obj, goal, clock>> PROVE WorkerStill
  <2>1. \A i : PlaceAt(i)' = PlaceAt(i) /\ CopyFor(i)' = CopyFor(i) /\ GoalAt(i)' = GoalAt(i)
    BY <1>3 DEF PlaceAt, CopyFor, GoalAt
  <2>2. QED BY <2>1 DEF WorkerStill
<1>4. QED BY <1>1, <1>2, <1>3

\* Whom the worker does not serve, it does not touch.
LEMMA WorkerElsewhere ==
  ASSUME NEW k \in Instances, key \in {k, NoKey}, key' \in {k, NoKey},
         NEW i \in Instances, i # k
  PROVE  /\ PlaceAt(i)' = PlaceAt(i) /\ CopyFor(i)' = CopyFor(i) /\ GoalAt(i)' = GoalAt(i)
<1>1. i # NoKey /\ key # i /\ key' # i
  BY ReconcilerAssumption
<1>2. QED BY <1>1 DEF PlaceAt, CopyFor, GoalAt

\* The worker moves on with k, and with k only.
LEMMA WorkerMoves ==
  ASSUME NEW k \in Instances, key \in {k, NoKey}, key' \in {k, NoKey},
         UNCHANGED <<clock, icache, pcache>>,
         NEW p, NEW c, NEW g, PlaceAt(k)' = p, CopyFor(k)' = c, GoalAt(k)' = g
  PROVE  Lifecycle!At(k, p, c, g)
<1>1. \A i \in Instances :
        /\ PlaceAt(i)' = IF i = k THEN p ELSE PlaceAt(i)
        /\ CopyFor(i)' = IF i = k THEN c ELSE CopyFor(i)
        /\ GoalAt(i)' = IF i = k THEN g ELSE GoalAt(i)
  BY WorkerElsewhere
<1>2. QED BY <1>1 DEF Lifecycle!At

\* The worker moves, but not for the lifecycle.
LEMMA WorkerStays ==
  ASSUME NEW k \in Instances, key \in {k, NoKey}, key' \in {k, NoKey},
         PlaceAt(k)' = PlaceAt(k), CopyFor(k)' = CopyFor(k), GoalAt(k)' = GoalAt(k)
  PROVE  WorkerStill
<1>1. \A i \in Instances :
        PlaceAt(i)' = PlaceAt(i) /\ CopyFor(i)' = CopyFor(i) /\ GoalAt(i)' = GoalAt(i)
  BY WorkerElsewhere
<1>2. QED BY <1>1 DEF WorkerStill

\* Nothing happens that the lifecycle speaks of.
LEMMA Stutters ==
  ASSUME WorkerStill, InstStill, PodStill, UNCHANGED <<clock, icache, pcache>>
  PROVE  UNCHANGED Lifecycle!lifecycleVars
  BY DEF WorkerStill, InstStill, PodStill, Lifecycle!lifecycleVars

-----------------------------------------------------------------------------
(* Steps of the worker and of the machinery. *)

Implemented == [Lifecycle!LifecycleNext]_(Lifecycle!lifecycleVars)

\* A write to one instance or one Pod is one there.
LEMMA WritesMap ==
  ASSUME TypeOK, NEW i \in Instances
  PROVE  /\ \A o : WriteInst(i, o) =>
              [j \in Instances |-> StateOf(inst[j])]' =
                [[j \in Instances |-> StateOf(inst[j])] EXCEPT ![i] = StateOf(o)]
         /\ \A p : WritePod(i, p) =>
              [j \in Instances |-> PodOf(pod[j])]' =
                [[j \in Instances |-> PodOf(pod[j])] EXCEPT ![i] = PodOf(p)]
         /\ \A o : WriteInst(i, o) /\ StateOf(o) = StateOf(inst[i]) => InstStill
         /\ \A p : WritePod(i, p) /\ PodOf(p) = PodOf(pod[i]) => PodStill
<1>1. \A o : WriteInst(i, o) => \A j \in Instances : inst'[j] = IF j = i THEN o ELSE inst[j]
  BY DEF TypeOK, ClusterTypeOK, WriteInst
<1>2. \A p : WritePod(i, p) => \A j \in Instances : pod'[j] = IF j = i THEN p ELSE pod[j]
  BY DEF TypeOK, ClusterTypeOK, WritePod
<1>3. ASSUME NEW o, WriteInst(i, o)
      PROVE  \A j \in Instances :
               StateOf(inst'[j]) = IF j = i THEN StateOf(o) ELSE StateOf(inst[j])
  BY <1>1, <1>3
<1>4. ASSUME NEW p, WritePod(i, p)
      PROVE  \A j \in Instances :
               PodOf(pod'[j]) = IF j = i THEN PodOf(p) ELSE PodOf(pod[j])
  BY <1>2, <1>4
<1>5. QED BY <1>3, <1>4 DEF InstStill, PodStill

\* Reconcile returns early: the pass is given up, or there was none.
LEMMA RestAbandons ==
  ASSUME TypeOK, PassShape, pc # "idle", Rest, InstStill, PodStill,
         UNCHANGED <<clock, icache, pcache>>
  PROVE  Implemented
<1>1. PICK k \in Instances : key = k
  BY DEF TypeOK
<1>2. k # NoKey /\ key' = NoKey
  BY ReconcilerAssumption DEF Rest
<1>3. PlaceAt(k)' = "idle" /\ GoalAt(k)' = "" /\ CopyFor(k)' = Lifecycle!Fresh(FALSE, FALSE)
  BY <1>2, RestState DEF PlaceAt, CopyFor, GoalAt
<1>4. obj \in InstanceObjects /\ pc \in InCleanup \cup Undecided \cup {"stop", "run", "status"}
  BY DEF TypeOK, Places, InCleanup, Undecided
<1>5. /\ PlaceAt(k) = PlaceOf(pc, obj, clock) /\ CopyFor(k) = CopyOf(pc, obj)
        /\ Shows(pc, obj, clock)
  BY <1>1, <1>4, PassView DEF PlaceAt, CopyFor
<1>6. CASE pc \in InCleanup
  <2>1. GoalAt(k) = ""
    <3>1. goal = NoReport
      BY <1>6 DEF PassShape, InCleanup
    <3>2. QED BY <1>1, <3>1 DEF GoalAt, NoReport
  <2>2. PlaceAt(k) = "idle" /\ CopyFor(k) = Lifecycle!Fresh(FALSE, FALSE)
    BY <1>5, <1>6 DEF Shows
  <2>3. WorkerStill
    BY <1>1, <1>2, <1>3, <2>1, <2>2, WorkerStays
  <2>4. QED BY <2>3, Stutters DEF Implemented
<1>7. CASE pc \notin InCleanup
  <2>1. PlaceAt(k) # "idle"
    <3>1. PlaceOf(pc, obj, clock) \in {"pass", "run", "stop", "report"}
      <4>1. CASE pc \in Undecided /\ Lifecycle!Timeless(StateOf(obj))
        BY <1>5, <4>1 DEF Shows
      <4>2. CASE pc \in Undecided /\ ~Lifecycle!Timeless(StateOf(obj))
        BY <1>5, <4>2 DEF Shows
      <4>3. CASE pc \in {"stop", "run"}
        BY <1>5, <4>3 DEF Shows
      <4>4. CASE pc = "status"
        BY <1>5, <4>4 DEF Shows
      <4>5. QED BY <1>4, <1>7, <4>1, <4>2, <4>3, <4>4
    <3>2. QED BY <1>5, <3>1
  <2>2. Lifecycle!Leave(k)
    BY <1>1, <1>2, <1>3, WorkerMoves DEF Lifecycle!Leave
  <2>3. Lifecycle!Abandon(k)
    BY <2>1, <2>2 DEF Lifecycle!Abandon, InstStill, PodStill
  <2>4. QED BY <2>3 DEF Implemented, Lifecycle!LifecycleNext
<1>8. QED BY <1>6, <1>7

\* The worker serves k: what the lifecycle sees of that.
LEMMA Serving ==
  ASSUME NEW k \in Instances
  PROVE  /\ key = k =>
              PlaceAt(k) = PlaceOf(pc, obj, clock) /\ CopyFor(k) = CopyOf(pc, obj)
              /\ GoalAt(k) = goal.phase
         /\ key' = k =>
              PlaceAt(k)' = PlaceOf(pc', obj', clock') /\ CopyFor(k)' = CopyOf(pc', obj')
              /\ GoalAt(k)' = goal'.phase
         /\ key = NoKey =>
              PlaceAt(k) = "idle" /\ CopyFor(k) = Lifecycle!Fresh(FALSE, FALSE)
              /\ GoalAt(k) = ""
         /\ key' = NoKey =>
              PlaceAt(k)' = "idle" /\ CopyFor(k)' = Lifecycle!Fresh(FALSE, FALSE)
              /\ GoalAt(k)' = ""
  BY RestState, ReconcilerAssumption DEF PlaceAt, CopyFor, GoalAt

\* A pass that has not decided yet goes on with a copy.
LEMMA GoesOn ==
  ASSUME NEW k \in Instances, key \in {k, NoKey}, key' = k,
         UNCHANGED <<clock, icache, pcache>>,
         pc' \in Undecided, obj' \in InstanceObjects, goal' = NoReport,
         NEW c, StateOf(obj') = c
  PROVE  Lifecycle!GoOnWith(k, c)
<1>1. Shows(pc', obj', clock')
  BY PassView
<1>2. Lifecycle!Wants(c) <=> WantsPod(obj', clock')
  BY SameDecision DEF Lifecycle!Wants
<1>3. GoalAt(k)' = ""
  BY Serving DEF NoReport
<1>4. PlaceAt(k)' = PlaceOf(pc', obj', clock') /\ CopyFor(k)' = CopyOf(pc', obj')
  BY Serving
<1>5. CASE Lifecycle!Timeless(c)
  <2>1. /\ PlaceAt(k)' = IF Lifecycle!Wants(c) THEN "run" ELSE "stop"
        /\ CopyFor(k)' = Lifecycle!Decided(c)
    BY <1>1, <1>2, <1>4, <1>5 DEF Shows
  <2>2. Lifecycle!DecideOn(k, c)
    BY <1>3, <2>1, WorkerMoves DEF Lifecycle!DecideOn
  <2>3. QED BY <1>5, <2>2 DEF Lifecycle!GoOnWith
<1>6. CASE ~Lifecycle!Timeless(c)
  <2>1. PlaceAt(k)' = "pass" /\ CopyFor(k)' = c
    BY <1>1, <1>4, <1>6 DEF Shows
  <2>2. Lifecycle!At(k, "pass", c, "")
    BY <1>3, <2>1, WorkerMoves
  <2>3. QED BY <1>6, <2>2 DEF Lifecycle!GoOnWith
<1>7. QED BY <1>5, <1>6

\* What it does before the decision is nobody's business as long as the copy stays.
LEMMA StaysUndecided ==
  ASSUME NEW k \in Instances, key = k, key' = k, clock' = clock, goal' = goal,
         pc \in Undecided, pc' \in Undecided,
         obj \in InstanceObjects, obj' \in InstanceObjects, StateOf(obj') = StateOf(obj)
  PROVE  WorkerStill
<1>1. Shows(pc, obj, clock) /\ Shows(pc', obj', clock')
  BY PassView
<1>2. WantsPod(obj', clock') <=> WantsPod(obj, clock)
  BY SameDecision
<1>3. PlaceOf(pc', obj', clock') = PlaceOf(pc, obj, clock) /\ CopyOf(pc', obj') = CopyOf(pc, obj)
  BY <1>1, <1>2 DEF Shows
<1>4. PlaceAt(k)' = PlaceAt(k) /\ CopyFor(k)' = CopyFor(k) /\ GoalAt(k)' = GoalAt(k)
  BY <1>3, Serving
<1>5. QED BY <1>4, WorkerStays

\* The worker takes a name: the lifecycle looks at the instance, unless it is gone
\* or going.
LEMMA BeginMaps ==
  ASSUME TypeOK, NEW i \in Instances, Begin(i)
  PROVE  Implemented
<1>1. /\ key = NoKey /\ icache[i] \in InstanceObjects
      /\ UNCHANGED <<clock, inst, pod, icache, pcache>>
  BY DEF Begin, TypeOK, clusterVars
<1>2. InstStill /\ PodStill
  BY <1>1, UnchangedStill
<1>3. CASE UNCHANGED workerVars
  <2>1. WorkerStill
    BY <1>1, <1>3, UnchangedStill DEF workerVars
  <2>2. QED BY <1>1, <1>2, <2>1, Stutters DEF Implemented
<1>4. CASE ~UNCHANGED workerVars
  <2>1. /\ key' = i /\ obj' = icache[i] /\ goal' = NoReport /\ obj'.exists
        /\ pc' = "cleanup" \/ pc' \in Undecided
    BY <1>4 DEF Begin, Undecided
  <2>2. CASE pc' = "cleanup"
    <3>1. Shows(pc', obj', clock')
      BY <1>1, <2>1, PassView
    <3>2. PlaceAt(i)' = "idle" /\ CopyFor(i)' = Lifecycle!Fresh(FALSE, FALSE)
      BY <2>1, <2>2, <3>1, Serving DEF Shows, InCleanup
    <3>3. GoalAt(i)' = ""
      BY <2>1, Serving DEF NoReport
    <3>4. WorkerStill
      BY <1>1, <2>1, <3>2, <3>3, Serving, WorkerStays
    <3>5. QED BY <1>1, <1>2, <3>4, Stutters DEF Implemented
  <2>3. CASE pc' \in Undecided
    <3>1. Lifecycle!GoOnWith(i, StateOf(icache[i]))
      BY <1>1, <2>1, <2>3, GoesOn
    <3>2. PlaceAt(i) = "idle" /\ StateOf(icache[i]).exists
      BY <1>1, <2>1, Serving DEF StateOf
    <3>3. Lifecycle!Look(i)
      BY <1>2, <3>1, <3>2 DEF Lifecycle!Look, InstStill, PodStill
    <3>4. QED
      BY <3>3 DEF Implemented, Lifecycle!LifecycleNext, Lifecycle!Controller
  <2>4. QED BY <2>1, <2>2, <2>3
<1>5. QED BY <1>3, <1>4

\* Changes of a Pod.
LEMMA PodChanges ==
  ASSUME NEW p \in PodObjects, Present(p)
  PROVE  /\ PodOf([p EXCEPT !.deleting = TRUE]) = [PodOf(p) EXCEPT !.deleting = TRUE]
         /\ p.deleting => PodOf([p EXCEPT !.deleting = TRUE]) = PodOf(p)
         /\ \A ph \in PodPhases : PodOf([p EXCEPT !.phase = ph]) = [PodOf(p) EXCEPT !.phase = ph]
         /\ \A ip : PodOf([p EXCEPT !.ip = ip]) = PodOf(p)
<1>1. p \in [phase : PodPhases, ip : IPs \cup {NoIP}, deleting : BOOLEAN, owner : Nat]
  BY DEF PodObjects, Present
<1>2. PodOf(p) \in [phase : PodPhases, deleting : BOOLEAN]
  BY <1>1 DEF PodOf
<1>3. PodOf([p EXCEPT !.deleting = TRUE]) = [PodOf(p) EXCEPT !.deleting = TRUE]
  <2> DEFINE c == PodOf([p EXCEPT !.deleting = TRUE])
             d == [PodOf(p) EXCEPT !.deleting = TRUE]
  <2>1. c \in [phase : PodPhases, deleting : BOOLEAN] /\ c.phase = p.phase /\ c.deleting
    BY <1>1 DEF PodOf
  <2>2. d \in [phase : PodPhases, deleting : BOOLEAN] /\ d.phase = PodOf(p).phase /\ d.deleting
    BY <1>2
  <2>3. PodOf(p).phase = p.phase
    BY DEF PodOf
  <2> HIDE DEF c, d
  <2>4. c = d
    BY <2>1, <2>2, <2>3
  <2>5. QED BY <2>4 DEF c, d
<1>4. p.deleting => PodOf([p EXCEPT !.deleting = TRUE]) = PodOf(p)
  BY <1>1 DEF PodOf
<1>5. ASSUME NEW ph \in PodPhases
      PROVE  PodOf([p EXCEPT !.phase = ph]) = [PodOf(p) EXCEPT !.phase = ph]
  BY <1>1 DEF PodOf
<1>6. \A ip : PodOf([p EXCEPT !.ip = ip]) = PodOf(p)
  BY <1>1 DEF PodOf
<1>7. QED BY <1>3, <1>4, <1>5, <1>6

\* A Pod is deleted, by whomever it may be.
LEMMA PodEvicted ==
  ASSUME TypeOK, NEW i \in Instances, Present(pod[i]),
         WritePod(i, [pod[i] EXCEPT !.deleting = TRUE]),
         WorkerStill, InstStill, UNCHANGED <<clock, icache, pcache>>
  PROVE  Implemented
<1>1. pod[i] \in PodObjects
  BY DEF TypeOK, ClusterTypeOK
<1>2. CASE pod[i].deleting
  <2>1. PodStill
    BY <1>1, <1>2, PodChanges, WritesMap
  <2>2. QED BY <2>1, Stutters DEF Implemented
<1>3. CASE ~pod[i].deleting
  <2>1. PodOf(pod[i]) # Lifecycle!Absent /\ ~PodOf(pod[i]).deleting
    BY <1>1, <1>3, RestState DEF PodOf
  <2>2. [j \in Instances |-> PodOf(pod[j])]' =
          [[j \in Instances |-> PodOf(pod[j])] EXCEPT
             ![i] = [PodOf(pod[i]) EXCEPT !.deleting = TRUE]]
    BY <1>1, PodChanges, WritesMap
  <2>3. Lifecycle!Evicted(i)
    BY <2>1, <2>2 DEF Lifecycle!Evicted, Lifecycle!PodBecomes, WorkerStill, InstStill
  <2>4. QED BY <2>3 DEF Implemented, Lifecycle!LifecycleNext
<1>4. QED BY <1>2, <1>3

\* Looking after a deleted instance is no pass.
LEMMA CleanupMaps ==
  ASSUME TypeOK, PassShape, Cleanup \/ RemoveFinalizer
  PROVE  Implemented
<1>1. PICK k \in Instances : key = k
  BY DEF TypeOK, Cleanup, RemoveFinalizer
<1>2. /\ pc \in InCleanup /\ k # NoKey /\ goal = NoReport
      /\ obj \in InstanceObjects /\ obj.exists
  BY <1>1, ReconcilerAssumption DEF PassShape, TypeOK, Cleanup, RemoveFinalizer, InCleanup
<1>3. Shows(pc, obj, clock)
  BY <1>2, PassView
<1>4. PlaceAt(k) = "idle" /\ CopyFor(k) = Lifecycle!Fresh(FALSE, FALSE) /\ GoalAt(k) = ""
  <2>1. goal.phase = ""
    BY <1>2 DEF NoReport
  <2>2. QED BY <1>1, <1>2, <1>3, <2>1, Serving DEF Shows
<1>5. CASE Cleanup
  <2>1. /\ key' = k /\ pc' = "unfinalize" /\ obj' = obj /\ goal' = goal
        /\ UNCHANGED <<clock, inst, icache, pcache>>
    BY <1>1, <1>5 DEF Cleanup, DeleteInstancePod, Proceed, clusterVars
  <2>2. Shows(pc', obj', clock')
    BY <1>2, <2>1, PassView
  <2>3. PlaceAt(k)' = "idle" /\ CopyFor(k)' = Lifecycle!Fresh(FALSE, FALSE) /\ GoalAt(k)' = ""
    <3>1. goal'.phase = "" /\ pc' \in InCleanup
      BY <1>2, <2>1 DEF NoReport, InCleanup
    <3>2. QED BY <2>1, <2>2, <3>1, Serving DEF Shows
  <2>4. WorkerStill
    BY <1>1, <1>4, <2>1, <2>3, WorkerStays
  <2>5. InstStill
    BY <2>1, UnchangedStill
  <2>6. CASE Present(pcache[k]) /\ Present(pod[k])
    <3>1. WritePod(k, [pod[k] EXCEPT !.deleting = TRUE])
      BY <1>1, <1>5, <2>6 DEF Cleanup, DeleteInstancePod
    <3>2. QED BY <2>1, <2>4, <2>5, <2>6, <3>1, PodEvicted
  <2>7. CASE ~(Present(pcache[k]) /\ Present(pod[k]))
    <3>1. PodStill
      BY <1>1, <1>5, <2>7, UnchangedStill DEF Cleanup, DeleteInstancePod, clusterVars
    <3>2. QED BY <2>1, <2>4, <2>5, <3>1, Stutters DEF Implemented
  <2>8. QED BY <2>6, <2>7
<1>6. CASE RemoveFinalizer
  <2>1. CASE obj # inst[key]
    <3>1. Rest /\ UNCHANGED <<clock, inst, pod, icache, pcache>> /\ pc # "idle"
      BY <1>6, <2>1 DEF RemoveFinalizer, ServerSaysNo, ReturnError, clusterVars
    <3>2. QED BY <3>1, UnchangedStill, RestAbandons
  <2>2. CASE obj = inst[key]
    <3>1. /\ WriteInst(k, NoInstance(obj.uid, obj.svcType))
          /\ Rest /\ UNCHANGED <<clock, pod, icache, pcache>>
      BY <1>1, <1>6, <2>2 DEF RemoveFinalizer, Return
    <3>2. WorkerStill
      BY <1>1, <1>4, <3>1, Serving, WorkerStays DEF Rest
    <3>3. /\ [j \in Instances |-> StateOf(inst[j])]' =
               [[j \in Instances |-> StateOf(inst[j])] EXCEPT
                  ![k] = Lifecycle!Fresh(FALSE, FALSE)]
          /\ PodStill
      <4>1. StateOf(NoInstance(obj.uid, obj.svcType)) = Lifecycle!Fresh(FALSE, FALSE)
        BY RestState
      <4>2. QED BY <3>1, <4>1, WritesMap, UnchangedStill
    <3>4. StateOf(inst[k]).exists
      BY <1>1, <1>2, <2>2 DEF StateOf
    <3>5. Lifecycle!Removed(k)
      BY <3>1, <3>2, <3>3, <3>4
      DEF Lifecycle!Removed, Lifecycle!InstanceBecomes, WorkerStill, PodStill
    <3>6. QED BY <3>5 DEF Implemented, Lifecycle!LifecycleNext, Lifecycle!Environment
  <2>3. QED BY <2>1, <2>2
<1>7. QED BY <1>5, <1>6

-----------------------------------------------------------------------------
(* Steps of a pass. *)

\* Changes of an instance.
LEMMA StateChanges ==
  ASSUME NEW o \in InstanceObjects
  PROVE  /\ StateOf([o EXCEPT !.woken = Cleared]) =
              [StateOf(o) EXCEPT !.woken = Lifecycle!Cleared]
         /\ StateOf([o EXCEPT !.suspended = Cleared]) =
              [StateOf(o) EXCEPT !.suspended = Lifecycle!Cleared]
         /\ StateOf([o EXCEPT !.finalizer = TRUE]) = StateOf(o)
         /\ StateOf([o EXCEPT !.deleting = TRUE]) = StateOf(o)
<1>1. Lifecycle!Cleared = Cleared /\ Cleared \in Overrides /\ Lifecycle!Overrides = Overrides
  BY SameOverrides, OverrideTypes
<1>2. StateOf(o) \in Lifecycle!States
  BY StateTypes
<1>3. StateOf([o EXCEPT !.woken = Cleared]) = [StateOf(o) EXCEPT !.woken = Lifecycle!Cleared]
  BY <1>1 DEF StateOf, InstanceObjects
<1>4. StateOf([o EXCEPT !.suspended = Cleared]) =
        [StateOf(o) EXCEPT !.suspended = Lifecycle!Cleared]
  BY <1>1 DEF StateOf, InstanceObjects
<1>5. StateOf([o EXCEPT !.finalizer = TRUE]) = StateOf(o)
  BY DEF StateOf, InstanceObjects
<1>6. StateOf([o EXCEPT !.deleting = TRUE]) = StateOf(o)
  BY DEF StateOf, InstanceObjects
<1>7. QED BY <1>3, <1>4, <1>5, <1>6

\* A response is decoded in the same way.
LEMMA DecodeMaps ==
  ASSUME NEW l \in InstanceObjects, NEW o \in InstanceObjects, o.exists
  PROVE  StateOf(Decode(l, o)) = Lifecycle!Decoded(StateOf(l), StateOf(o))
<1>1. \A x, y : Lifecycle!DecodeOverride(x, y) = DecodeOverride(x, y)
  BY SameOverrides
<1>2. o.exists = TRUE
  BY DEF InstanceObjects
<1>3. QED BY <1>1, <1>2 DEF StateOf, Decode, Lifecycle!Decoded

\* The finalizer and the Service are none of the lifecycle's concerns.
LEMMA AddFinalizerMaps ==
  ASSUME TypeOK, PassShape, AddFinalizer
  PROVE  Implemented
<1>1. PICK k \in Instances : key = k
  BY DEF TypeOK, AddFinalizer
<1>2. CASE obj # inst[key]
  <2>1. Rest /\ UNCHANGED <<clock, inst, pod, icache, pcache>> /\ pc # "idle"
    BY <1>2 DEF AddFinalizer, ServerSaysNo, ReturnError, clusterVars
  <2>2. QED BY <2>1, UnchangedStill, RestAbandons
<1>3. CASE obj = inst[key]
  <2>1. /\ WriteInst(k, [obj EXCEPT !.finalizer = TRUE])
        /\ obj' = [obj EXCEPT !.finalizer = TRUE] /\ key' = k /\ goal' = goal
        /\ pc = "finalize" /\ pc' = "service"
        /\ UNCHANGED <<clock, pod, icache, pcache>>
    BY <1>1, <1>3 DEF AddFinalizer, Proceed
  <2>2. obj \in InstanceObjects /\ obj' \in InstanceObjects
    BY <2>1 DEF TypeOK, InstanceObjects
  <2>3. StateOf(obj') = StateOf(obj)
    BY <2>1, <2>2, StateChanges
  <2>4. WorkerStill
    BY <1>1, <2>1, <2>2, <2>3, StaysUndecided DEF Undecided
  <2>5. InstStill /\ PodStill
    BY <1>1, <1>3, <2>1, <2>3, WritesMap, UnchangedStill
  <2>6. QED BY <2>1, <2>4, <2>5, Stutters DEF Implemented
<1>4. QED BY <1>2, <1>3

\* Nor is what becomes of the Service.
LEMMA ReconcileServiceMaps ==
  ASSUME TypeOK, PassShape, ReconcileService
  PROVE  Implemented
<1>1. PICK k \in Instances : key = k
  BY DEF TypeOK, ReconcileService
<1>2. CASE scache[key].exists # svc[key].exists
  <2>1. Rest /\ UNCHANGED <<clock, inst, pod, icache, pcache>> /\ pc # "idle"
    BY <1>2 DEF ReconcileService, ServerSaysNo, ReturnError, clusterVars
  <2>2. QED BY <2>1, UnchangedStill, RestAbandons
<1>3. CASE scache[key].exists = svc[key].exists
  <2>1. /\ obj' = obj /\ key' = k /\ goal' = goal /\ pc = "service" /\ pc' = "woken"
        /\ UNCHANGED <<clock, inst, pod, icache, pcache>>
    BY <1>1, <1>3 DEF ReconcileService, Proceed
  <2>2. obj \in InstanceObjects
    BY DEF TypeOK
  <2>3. WorkerStill
    BY <1>1, <2>1, <2>2, StaysUndecided DEF Undecided
  <2>4. QED BY <2>1, <2>3, UnchangedStill, Stutters DEF Implemented
<1>4. QED BY <1>2, <1>3

\* A place of the pass that has nothing to clear.
LEMMA NothingToClear ==
  ASSUME TypeOK, pc \in Undecided, NEW p \in Undecided, Proceed(p, obj, goal),
         UNCHANGED clusterVars
  PROVE  Implemented
<1>1. PICK k \in Instances : key = k
  BY DEF TypeOK, Undecided
<1>2. /\ obj' = obj /\ key' = k /\ goal' = goal /\ pc' = p
      /\ UNCHANGED <<clock, inst, pod, icache, pcache>>
  BY <1>1 DEF Proceed, clusterVars
<1>3. obj \in InstanceObjects
  BY DEF TypeOK
<1>4. WorkerStill
  BY <1>1, <1>2, <1>3, StaysUndecided
<1>5. QED BY <1>2, <1>4, UnchangedStill, Stutters DEF Implemented

\* An expired override is cleared: the copy has waited for that.
LEMMA ClearMaps ==
  ASSUME TypeOK, PassShape, ClearExpiredWoken \/ ClearExpiredSuspended
  PROVE  Implemented
<1>1. PICK k \in Instances : key = k
  BY DEF TypeOK, ClearExpiredWoken, ClearExpiredSuspended
<1>2. obj \in InstanceObjects /\ inst[k] \in InstanceObjects /\ pc \in Undecided /\ pc # "idle"
  BY DEF TypeOK, ClusterTypeOK, ClearExpiredWoken, ClearExpiredSuspended, Undecided
<1>3. goal = NoReport
  BY <1>2 DEF PassShape, Undecided
<1>4. ASSUME Expired(obj.woken, clock) \/ Expired(obj.suspended, clock)
      PROVE  PlaceAt(k) = "pass" /\ CopyFor(k) = StateOf(obj)
  <2>1. Shows(pc, obj, clock)
    BY <1>2, PassView
  <2>2. ~Lifecycle!Timeless(StateOf(obj))
    <3>1. StateOf(obj).suspended = obj.suspended /\ StateOf(obj).woken = obj.woken
      BY DEF StateOf
    <3>2. QED BY <1>4, <3>1, SameOverrides DEF Lifecycle!Timeless, Expired
  <2>3. QED BY <1>1, <1>2, <2>1, <2>2, Serving DEF Shows
<1>5. ASSUME NEW p, NEW l, NEW o, StatusPatch(l, o, p), ~inst[k].exists
      PROVE  Implemented
  <2>1. Rest /\ UNCHANGED <<clock, inst, pod, icache, pcache>>
    BY <1>1, <1>5 DEF StatusPatch, ServerSaysNo, ReturnError, clusterVars
  <2>2. QED BY <1>2, <2>1, UnchangedStill, RestAbandons
<1>6. ASSUME NEW p \in Undecided, NEW l \in InstanceObjects, NEW o \in InstanceObjects,
             StatusPatch(l, o, p), o.exists, inst[k].exists
      PROVE  /\ Lifecycle!GoOnWith(k, Lifecycle!Decoded(StateOf(l), StateOf(o)))
             /\ [j \in Instances |-> StateOf(inst[j])]' =
                  [[j \in Instances |-> StateOf(inst[j])] EXCEPT ![k] = StateOf(o)]
             /\ PodStill
  <2>1. /\ WriteInst(k, o) /\ obj' = Decode(l, o) /\ pc' = p /\ goal' = goal /\ key' = k
        /\ UNCHANGED <<clock, pod, icache, pcache>>
    BY <1>1, <1>6 DEF StatusPatch, Proceed
  <2>2. obj' \in InstanceObjects
    BY <2>1, DecodeType
  <2>3. StateOf(obj') = Lifecycle!Decoded(StateOf(l), StateOf(o))
    BY <1>6, <2>1, DecodeMaps
  <2>4. QED BY <1>1, <1>3, <2>1, <2>2, <2>3, GoesOn, WritesMap, UnchangedStill
<1>7. ASSUME NEW o \in InstanceObjects
      PROVE  /\ [o EXCEPT !.woken = Cleared] \in InstanceObjects
             /\ [o EXCEPT !.suspended = Cleared] \in InstanceObjects
             /\ o.exists => [o EXCEPT !.woken = Cleared].exists
             /\ o.exists => [o EXCEPT !.suspended = Cleared].exists
  BY OverrideTypes DEF InstanceObjects
<1>8. ASSUME inst[k].exists PROVE StateOf(inst[k]).exists
  BY <1>8 DEF StateOf
<1>9. CASE ClearExpiredWoken /\ Expired(obj.woken, clock) /\ inst[k].exists
  <2> DEFINE l == [obj EXCEPT !.woken = Cleared]
             o == [inst[k] EXCEPT !.woken = Cleared]
  <2>1. StatusPatch(l, o, "suspended")
    BY <1>1, <1>9 DEF ClearExpiredWoken
  <2>2. l \in InstanceObjects /\ o \in InstanceObjects /\ o.exists
    BY <1>2, <1>7, <1>9
  <2>3. /\ StateOf(l) = [StateOf(obj) EXCEPT !.woken = Lifecycle!Cleared]
        /\ StateOf(o) = [StateOf(inst[k]) EXCEPT !.woken = Lifecycle!Cleared]
    BY <1>2, StateChanges
  <2> HIDE DEF l, o
  <2>4. /\ Lifecycle!GoOnWith(k, Lifecycle!Decoded(StateOf(l), StateOf(o)))
        /\ [j \in Instances |-> StateOf(inst[j])]' =
             [[j \in Instances |-> StateOf(inst[j])] EXCEPT ![k] = StateOf(o)]
        /\ PodStill
    BY <1>6, <1>9, <2>1, <2>2 DEF Undecided
  <2>5. Lifecycle!Expired(CopyFor(k).woken, clock) /\ PlaceAt(k) = "pass"
    <3>1. StateOf(obj).woken = obj.woken
      BY DEF StateOf
    <3>2. QED BY <1>4, <1>9, <3>1, SameOverrides
  <2>6. Lifecycle!LiftWoken(k)
    BY <1>4, <1>8, <1>9, <2>3, <2>4, <2>5
    DEF Lifecycle!LiftWoken, Lifecycle!Lift, PodStill
  <2>7. QED
    BY <2>6
    DEF Implemented, Lifecycle!LifecycleNext, Lifecycle!Controller, Lifecycle!PassStep
<1>10. CASE ClearExpiredSuspended /\ Expired(obj.suspended, clock) /\ inst[k].exists
  <2> DEFINE l == [obj EXCEPT !.suspended = Cleared]
             o == [inst[k] EXCEPT !.suspended = Cleared]
  <2>1. StatusPatch(l, o, "decide")
    BY <1>1, <1>10 DEF ClearExpiredSuspended
  <2>2. l \in InstanceObjects /\ o \in InstanceObjects /\ o.exists
    BY <1>2, <1>7, <1>10
  <2>3. /\ StateOf(l) = [StateOf(obj) EXCEPT !.suspended = Lifecycle!Cleared]
        /\ StateOf(o) = [StateOf(inst[k]) EXCEPT !.suspended = Lifecycle!Cleared]
    BY <1>2, StateChanges
  <2> HIDE DEF l, o
  <2>4. /\ Lifecycle!GoOnWith(k, Lifecycle!Decoded(StateOf(l), StateOf(o)))
        /\ [j \in Instances |-> StateOf(inst[j])]' =
             [[j \in Instances |-> StateOf(inst[j])] EXCEPT ![k] = StateOf(o)]
        /\ PodStill
    BY <1>6, <1>10, <2>1, <2>2 DEF Undecided
  <2>5. Lifecycle!Expired(CopyFor(k).suspended, clock) /\ PlaceAt(k) = "pass"
    <3>1. StateOf(obj).suspended = obj.suspended
      BY DEF StateOf
    <3>2. QED BY <1>4, <1>10, <3>1, SameOverrides
  <2>6. Lifecycle!LiftSuspended(k)
    BY <1>4, <1>8, <1>10, <2>3, <2>4, <2>5
    DEF Lifecycle!LiftSuspended, Lifecycle!Lift, PodStill
  <2>7. QED
    BY <2>6
    DEF Implemented, Lifecycle!LifecycleNext, Lifecycle!Controller, Lifecycle!PassStep
<1>11. CASE ClearExpiredWoken /\ Expired(obj.woken, clock) /\ ~inst[k].exists
  BY <1>1, <1>5, <1>11 DEF ClearExpiredWoken
<1>12. CASE ClearExpiredSuspended /\ Expired(obj.suspended, clock) /\ ~inst[k].exists
  BY <1>1, <1>5, <1>12 DEF ClearExpiredSuspended
<1>13. CASE ClearExpiredWoken /\ ~Expired(obj.woken, clock)
  BY <1>2, <1>13, NothingToClear DEF ClearExpiredWoken, Undecided
<1>14. CASE ClearExpiredSuspended /\ ~Expired(obj.suspended, clock)
  BY <1>2, <1>14, NothingToClear DEF ClearExpiredSuspended, Undecided
<1>15. QED BY <1>9, <1>10, <1>11, <1>12, <1>13, <1>14

\* The decision, unless it has been taken for the lifecycle before.
LEMMA DecideMaps ==
  ASSUME TypeOK, PassShape, Decide
  PROVE  Implemented
<1>1. PICK k \in Instances : key = k
  BY DEF TypeOK, Decide
<1>2. obj \in InstanceObjects /\ pc \in Undecided /\ goal = NoReport
  BY DEF TypeOK, Decide, PassShape, Undecided
<1>3. /\ obj' = obj /\ goal' = goal /\ key' = k
      /\ pc' = IF WantsPod(obj, clock) THEN "run" ELSE "stop"
      /\ UNCHANGED <<clock, inst, pod, icache, pcache>>
  BY <1>1 DEF Decide, Proceed, clusterVars
<1>4. Shows(pc, obj, clock) /\ Shows(pc', obj', clock')
  BY <1>2, <1>3, PassView
<1>5. PlaceAt(k)' = pc' /\ CopyFor(k)' = Lifecycle!Decided(StateOf(obj))
  <2>1. pc' \in {"stop", "run"}
    BY <1>3
  <2>2. QED BY <1>3, <1>4, <2>1, Serving DEF Shows
<1>6. GoalAt(k) = "" /\ GoalAt(k)' = ""
  BY <1>1, <1>2, <1>3, Serving DEF NoReport
<1>7. CASE Lifecycle!Timeless(StateOf(obj))
  <2>1. PlaceAt(k) = pc' /\ CopyFor(k) = Lifecycle!Decided(StateOf(obj))
    BY <1>1, <1>2, <1>3, <1>4, <1>7, Serving DEF Shows
  <2>2. WorkerStill
    BY <1>1, <1>3, <1>5, <1>6, <2>1, WorkerStays
  <2>3. QED BY <1>3, <2>2, UnchangedStill, Stutters DEF Implemented
<1>8. CASE ~Lifecycle!Timeless(StateOf(obj))
  <2>1. PlaceAt(k) = "pass" /\ CopyFor(k) = StateOf(obj)
    BY <1>1, <1>2, <1>4, <1>8, Serving DEF Shows
  <2>2. PlaceAt(k)' = IF Lifecycle!Wants(StateOf(obj)) THEN "run" ELSE "stop"
    BY <1>3, <1>5, SameDecision DEF Lifecycle!Wants
  <2>3. Lifecycle!DecideOn(k, StateOf(obj))
    BY <1>1, <1>3, <1>5, <1>6, <2>2, WorkerMoves DEF Lifecycle!DecideOn
  <2>4. Lifecycle!Decide(k)
    BY <1>3, <2>1, <2>3, UnchangedStill DEF Lifecycle!Decide, InstStill, PodStill
  <2>5. QED
    BY <2>4
    DEF Implemented, Lifecycle!LifecycleNext, Lifecycle!Controller, Lifecycle!PassStep
<1>9. QED BY <1>7, <1>8

\* From the decision to the report.
LEMMA ToReport ==
  ASSUME TypeOK, NEW k \in Instances, key = k, pc \in {"stop", "run"},
         NEW g, Proceed("status", obj, g), UNCHANGED clock
  PROVE  /\ PlaceAt(k) = pc
         /\ Lifecycle!At(k, "report", CopyFor(k), g.phase)
<1>1. /\ obj \in InstanceObjects /\ key' = k /\ pc' = "status" /\ obj' = obj /\ goal' = g
      /\ UNCHANGED <<clock, icache, pcache>>
  BY DEF TypeOK, Proceed
<1>2. Shows(pc, obj, clock) /\ Shows(pc', obj', clock')
  BY <1>1, PassView
<1>3. PlaceAt(k) = pc /\ CopyFor(k) = Lifecycle!Decided(StateOf(obj))
  BY <1>2, Serving DEF Shows
<1>4. PlaceAt(k)' = "report" /\ CopyFor(k)' = CopyFor(k) /\ GoalAt(k)' = g.phase
  BY <1>1, <1>2, <1>3, Serving DEF Shows
<1>5. QED BY <1>1, <1>3, <1>4, WorkerMoves

\* A Pod the cache shows is deleted, and "Stopped" is what will be reported.
LEMMA StopPodMaps ==
  ASSUME TypeOK, StopPod
  PROVE  Implemented
<1>1. PICK k \in Instances : key = k
  BY DEF TypeOK, StopPod
<1>2. pcache[k] \in PodObjects /\ pod[k] \in PodObjects
  BY DEF TypeOK, ClusterTypeOK
<1>3. Proceed("status", obj, StoppedReport) /\ UNCHANGED <<clock, inst>> /\ pc = "stop"
  BY <1>1 DEF StopPod, DeleteInstancePod, clusterVars
<1>4. PlaceAt(k) = "stop" /\ Lifecycle!At(k, "report", CopyFor(k), "Stopped")
  BY <1>1, <1>3, ToReport DEF StoppedReport
<1>5. [j \in Instances |-> PodOf(pod[j])]' =
        IF PodOf(pcache[k]) # Lifecycle!Absent /\ PodOf(pod[k]) # Lifecycle!Absent
        THEN [[j \in Instances |-> PodOf(pod[j])] EXCEPT ![k].deleting = TRUE]
        ELSE [j \in Instances |-> PodOf(pod[j])]
  <2>1. CASE Present(pcache[k]) /\ Present(pod[k])
    <3>1. WritePod(k, [pod[k] EXCEPT !.deleting = TRUE])
      BY <1>1, <2>1 DEF StopPod, DeleteInstancePod
    <3>2. [j \in Instances |-> PodOf(pod[j])]' =
            [[j \in Instances |-> PodOf(pod[j])] EXCEPT
               ![k] = [PodOf(pod[k]) EXCEPT !.deleting = TRUE]]
      BY <1>2, <2>1, <3>1, PodChanges, WritesMap
    <3>3. PodOf(pcache[k]) # Lifecycle!Absent /\ PodOf(pod[k]) # Lifecycle!Absent
      BY <1>2, <2>1, RestState
    <3>4. QED BY <3>2, <3>3
  <2>2. CASE ~(Present(pcache[k]) /\ Present(pod[k]))
    <3>1. ~(PodOf(pcache[k]) # Lifecycle!Absent /\ PodOf(pod[k]) # Lifecycle!Absent)
      BY <1>2, <2>2, RestState
    <3>2. PodStill
      BY <1>1, <2>2, UnchangedStill DEF StopPod, DeleteInstancePod, clusterVars
    <3>3. QED BY <3>1, <3>2 DEF PodStill
  <2>3. QED BY <2>1, <2>2
<1>6. Lifecycle!Stop(k)
  BY <1>3, <1>4, <1>5, UnchangedStill DEF Lifecycle!Stop, InstStill
<1>7. QED
  BY <1>6 DEF Implemented, Lifecycle!LifecycleNext, Lifecycle!Controller, Lifecycle!PassStep

\* A Pod the cache does not show is created, unless there is one.
LEMMA CreatePodMaps ==
  ASSUME TypeOK, PassShape, CreatePod
  PROVE  Implemented
<1>1. PICK k \in Instances : key = k
  BY DEF TypeOK, CreatePod
<1>2. pcache[k] \in PodObjects /\ pod[k] \in PodObjects
  BY DEF TypeOK, ClusterTypeOK
<1>3. CASE Present(pod[key])
  <2>1. Rest /\ UNCHANGED <<clock, inst, pod, icache, pcache>> /\ pc # "idle"
    BY <1>3 DEF CreatePod, ServerSaysNo, ReturnError, clusterVars
  <2>2. QED BY <2>1, UnchangedStill, RestAbandons
<1>4. CASE ~Present(pod[key])
  <2>1. /\ WritePod(k, NewPod(obj.uid)) /\ Proceed("status", obj, PendingReport)
        /\ UNCHANGED <<clock, inst>> /\ pc = "run" /\ ~Present(pcache[k])
    BY <1>1, <1>4 DEF CreatePod
  <2>2. PlaceAt(k) = "run" /\ Lifecycle!At(k, "report", CopyFor(k), "Pending")
    BY <1>1, <2>1, ToReport DEF PendingReport
  <2>3. PodOf(NewPod(obj.uid)) = Lifecycle!Started
    BY DEF PodOf, NewPod, Lifecycle!Started
  <2>4. [j \in Instances |-> PodOf(pod[j])]' =
          [[j \in Instances |-> PodOf(pod[j])] EXCEPT ![k] = Lifecycle!Started]
    BY <2>1, <2>3, WritesMap
  <2>5. PodOf(pod[k]) = Lifecycle!Absent /\ PodOf(pcache[k]) = Lifecycle!Absent
    BY <1>1, <1>2, <1>4, <2>1, RestState
  <2>6. Lifecycle!Start(k)
    BY <2>1, <2>2, <2>4, <2>5, UnchangedStill DEF Lifecycle!Start, InstStill
  <2>7. QED
    BY <2>6
    DEF Implemented, Lifecycle!LifecycleNext, Lifecycle!Controller, Lifecycle!PassStep
<1>5. QED BY <1>3, <1>4

\* What is reported of a Pod is its phase in the cache.
LEMMA ObservePodMaps ==
  ASSUME TypeOK, ObservePod
  PROVE  Implemented
<1>1. PICK k \in Instances : key = k
  BY DEF TypeOK, ObservePod
<1>2. pcache[k] \in PodObjects
  BY DEF TypeOK
<1>3. /\ Proceed("status", obj, PodReport(pcache[k])) /\ pc = "run" /\ Present(pcache[k])
      /\ UNCHANGED <<clock, inst, pod>>
  BY <1>1 DEF ObservePod, clusterVars
<1>4. PodReport(pcache[k]).phase = Lifecycle!PhaseOf(PodOf(pcache[k]))
  <2>1. pcache[k].phase \in PodPhases /\ PodOf(pcache[k]).phase = pcache[k].phase
    BY <1>2, <1>3 DEF PodObjects, Present, PodOf
  <2>2. CASE pcache[k].phase = "Running"
    BY <2>1, <2>2 DEF PodReport, Lifecycle!PhaseOf
  <2>3. CASE pcache[k].phase = "Failed"
    BY <2>1, <2>3 DEF PodReport, Lifecycle!PhaseOf
  <2>4. CASE pcache[k].phase = "Succeeded"
    BY <2>1, <2>4 DEF PodReport, StoppedReport, Lifecycle!PhaseOf
  <2>5. CASE pcache[k].phase = "Pending"
    BY <2>1, <2>5 DEF PodReport, PendingReport, Lifecycle!PhaseOf
  <2>6. QED BY <2>1, <2>2, <2>3, <2>4, <2>5 DEF PodPhases
<1>5. /\ PlaceAt(k) = "run"
      /\ Lifecycle!At(k, "report", CopyFor(k), Lifecycle!PhaseOf(PodOf(pcache[k])))
  BY <1>1, <1>3, <1>4, ToReport
<1>6. Lifecycle!Observe(k)
  BY <1>2, <1>3, <1>5, RestState, UnchangedStill DEF Lifecycle!Observe, InstStill, PodStill
<1>7. QED
  BY <1>6 DEF Implemented, Lifecycle!LifecycleNext, Lifecycle!Controller, Lifecycle!PassStep

\* The only step that writes a phase.
LEMMA UpdateStatusMaps ==
  ASSUME TypeOK, PassShape, UpdateStatus
  PROVE  Implemented
<1>1. PICK k \in Instances : key = k
  BY DEF TypeOK, UpdateStatus
<1>2. /\ obj \in InstanceObjects /\ inst[k] \in InstanceObjects /\ goal \in Reports
      /\ pc = "status"
  BY DEF TypeOK, ClusterTypeOK, UpdateStatus
<1>3. CASE ~inst[key].exists
  <2>1. Rest /\ UNCHANGED <<clock, inst, pod, icache, pcache>> /\ pc # "idle"
    BY <1>2, <1>3 DEF UpdateStatus, ServerSaysNo, ReturnError, clusterVars
  <2>2. QED BY <2>1, UnchangedStill, RestAbandons
<1>4. CASE inst[key].exists
  <2>1. /\ Rest /\ UNCHANGED <<clock, pod, icache, pcache>>
        /\ \E reworded \in BOOLEAN : WriteInst(k, StatusDiff(inst[k], obj, goal, reworded))
    BY <1>1, <1>4 DEF UpdateStatus, Return
  <2>2. Lifecycle!Leave(k)
    BY <1>1, <2>1, Serving, WorkerMoves DEF Lifecycle!Leave, Rest
  <2>3. Shows(pc, obj, clock)
    BY <1>2, PassView
  <2>4. /\ PlaceAt(k) = "report" /\ CopyFor(k) = Lifecycle!Decided(StateOf(obj))
        /\ GoalAt(k) = goal.phase
    BY <1>1, <1>2, <2>3, Serving DEF Shows
  <2>5. CopyFor(k).phase = obj.phase
    <3>1. Lifecycle!Fresh(TRUE, FALSE) \in Lifecycle!States
      BY StateTypes
    <3>2. Lifecycle!Decided(StateOf(obj)).phase = StateOf(obj).phase
      BY <3>1 DEF Lifecycle!Decided, Lifecycle!States
    <3>3. QED BY <2>4, <3>2 DEF StateOf
  <2>6. PICK reworded \in BOOLEAN : WriteInst(k, StatusDiff(inst[k], obj, goal, reworded))
    BY <2>1
  <2> DEFINE d == StatusDiff(inst[k], obj, goal, reworded)
  <2>7. d \in InstanceObjects
    BY <1>2, StatusDiffType
  <2>8. /\ goal.phase = obj.phase => StateOf(d) = StateOf(inst[k])
        /\ goal.phase # obj.phase => StateOf(d) = [StateOf(inst[k]) EXCEPT !.phase = goal.phase]
    <3>1. /\ d.exists = inst[k].exists /\ d.suspend = inst[k].suspend
          /\ d.suspended = inst[k].suspended /\ d.woken = inst[k].woken
          /\ d.phase = IF goal.phase = obj.phase THEN inst[k].phase ELSE goal.phase
      BY <1>2 DEF StatusDiff, InstanceObjects
    <3> HIDE DEF d
    <3>2. goal.phase = obj.phase => StateOf(d) = StateOf(inst[k])
      BY <3>1 DEF StateOf
    <3>3. goal.phase # obj.phase => StateOf(d) = [StateOf(inst[k]) EXCEPT !.phase = goal.phase]
      BY <3>1 DEF StateOf
    <3>4. QED BY <3>2, <3>3
  <2> HIDE DEF d
  <2>9. WriteInst(k, d)
    BY <2>6 DEF d
  <2>10. [j \in Instances |-> StateOf(inst[j])]' =
           IF goal.phase = obj.phase THEN [j \in Instances |-> StateOf(inst[j])]
           ELSE [[j \in Instances |-> StateOf(inst[j])] EXCEPT ![k].phase = goal.phase]
    <3>1. CASE goal.phase = obj.phase
      BY <2>8, <2>9, <3>1, WritesMap DEF InstStill
    <3>2. CASE goal.phase # obj.phase
      BY <2>8, <2>9, <3>2, WritesMap
    <3>3. QED BY <3>1, <3>2
  <2>11. StateOf(inst[k]).exists
    BY <1>1, <1>4 DEF StateOf
  <2>12. Lifecycle!Report(k)
    BY <2>1, <2>2, <2>4, <2>5, <2>10, <2>11, UnchangedStill DEF Lifecycle!Report, PodStill
  <2>13. QED
    BY <2>12
    DEF Implemented, Lifecycle!LifecycleNext, Lifecycle!Controller, Lifecycle!PassStep
<1>5. QED BY <1>3, <1>4

\* A step of Reconcile.
LEMMA WorkerMaps == TypeOK /\ PassShape /\ WorkerStep => Implemented
<1> SUFFICES ASSUME TypeOK, PassShape, WorkerStep PROVE Implemented
  OBVIOUS
<1>1. CASE Cleanup \/ RemoveFinalizer
  BY <1>1, CleanupMaps
<1>2. CASE AddFinalizer \/ ReconcileService
  BY <1>2, AddFinalizerMaps, ReconcileServiceMaps
<1>3. CASE ClearExpiredWoken \/ ClearExpiredSuspended
  BY <1>3, ClearMaps
<1>4. CASE Decide
  BY <1>4, DecideMaps
<1>5. CASE StopPod \/ CreatePod \/ ObservePod
  BY <1>5, StopPodMaps, CreatePodMaps, ObservePodMaps
<1>6. CASE UpdateStatus
  BY <1>6, UpdateStatusMaps
<1>7. QED BY <1>1, <1>2, <1>3, <1>4, <1>5, <1>6 DEF WorkerStep

-----------------------------------------------------------------------------
(* Steps of the machinery, of users and of the platform. *)

\* A watch event that shows nothing new to the lifecycle is none.
LEMMA DeliveryMaps ==
  ASSUME TypeOK, NEW i \in Instances, DeliverInstance(i) \/ DeliverPod(i) \/ DeliverService(i)
  PROVE  Implemented
<1>1. UNCHANGED <<clock, inst, pod, pc, key, obj, goal>>
  BY DEF DeliverInstance, DeliverPod, DeliverService
<1>2. WorkerStill /\ InstStill /\ PodStill
  BY <1>1, UnchangedStill
<1>3. CASE DeliverInstance(i)
  <2>1. \A j \in Instances : icache'[j] = IF j = i THEN inst[i] ELSE icache[j]
    BY <1>3 DEF DeliverInstance, TypeOK
  <2>2. [j \in Instances |-> StateOf(icache[j])]' =
          [[j \in Instances |-> StateOf(icache[j])] EXCEPT ![i] = StateOf(inst[i])]
    BY <2>1
  <2>3. pcache' = pcache
    BY <1>3 DEF DeliverInstance
  <2>4. CASE StateOf(icache[i]) = StateOf(inst[i])
    <3>1. [j \in Instances |-> StateOf(icache[j])]' = [j \in Instances |-> StateOf(icache[j])]
      BY <2>2, <2>4
    <3>2. UNCHANGED Lifecycle!lifecycleVars
      BY <1>1, <1>2, <2>3, <3>1
      DEF WorkerStill, InstStill, PodStill, Lifecycle!lifecycleVars
    <3>3. QED BY <3>2 DEF Implemented
  <2>5. CASE StateOf(icache[i]) # StateOf(inst[i])
    <3>1. Lifecycle!See(i)
      BY <1>1, <1>2, <2>2, <2>3, <2>5
      DEF WorkerStill, InstStill, PodStill, Lifecycle!See
    <3>2. QED BY <3>1 DEF Implemented, Lifecycle!LifecycleNext, Lifecycle!Controller
  <2>6. QED BY <2>4, <2>5
<1>4. CASE DeliverPod(i)
  <2>1. \A j \in Instances : pcache'[j] = IF j = i THEN pod[i] ELSE pcache[j]
    BY <1>4 DEF DeliverPod, TypeOK
  <2>2. [j \in Instances |-> PodOf(pcache[j])]' =
          [[j \in Instances |-> PodOf(pcache[j])] EXCEPT ![i] = PodOf(pod[i])]
    BY <2>1
  <2>3. icache' = icache
    BY <1>4 DEF DeliverPod
  <2>4. CASE PodOf(pcache[i]) = PodOf(pod[i])
    <3>1. [j \in Instances |-> PodOf(pcache[j])]' = [j \in Instances |-> PodOf(pcache[j])]
      BY <2>2, <2>4
    <3>2. UNCHANGED Lifecycle!lifecycleVars
      BY <1>1, <1>2, <2>3, <3>1
      DEF WorkerStill, InstStill, PodStill, Lifecycle!lifecycleVars
    <3>3. QED BY <3>2 DEF Implemented
  <2>5. CASE PodOf(pcache[i]) # PodOf(pod[i])
    <3>1. Lifecycle!SeePod(i)
      BY <1>1, <1>2, <2>2, <2>3, <2>5
      DEF WorkerStill, InstStill, PodStill, Lifecycle!SeePod
    <3>2. QED BY <3>1 DEF Implemented, Lifecycle!LifecycleNext, Lifecycle!Controller
  <2>6. QED BY <2>4, <2>5
<1>5. CASE DeliverService(i)
  BY <1>1, <1>2, <1>5, Stutters DEF DeliverService, Implemented
<1>6. QED BY <1>3, <1>4, <1>5

\* The operator starts again.
LEMMA RestartMaps == TypeOK /\ Restart => Implemented
<1> SUFFICES ASSUME TypeOK, Restart PROVE Implemented
  OBVIOUS
<1>1. /\ key' = NoKey /\ icache' = inst /\ pcache' = pod
      /\ UNCHANGED <<clock, inst, pod>>
  BY DEF Restart, Rest
<1>2. \A i \in Instances :
        PlaceAt(i)' = "idle" /\ CopyFor(i)' = Lifecycle!Fresh(FALSE, FALSE) /\ GoalAt(i)' = ""
  BY <1>1, RestState, ReconcilerAssumption DEF PlaceAt, CopyFor, GoalAt
<1>3. Lifecycle!Reboot
  BY <1>1, <1>2 DEF Lifecycle!Reboot
<1>4. QED BY <1>3 DEF Implemented, Lifecycle!LifecycleNext

\* The decision of a copy that waits for nothing does not change with the time.
LEMMA TickMaps == TypeOK /\ TimePasses => Implemented
<1> SUFFICES ASSUME TypeOK, TimePasses PROVE Implemented
  OBVIOUS
<1>1. /\ clock < MaxClock /\ clock' = clock + 1
      /\ UNCHANGED <<inst, pod, icache, pcache, pc, key, obj, goal>>
  BY DEF TimePasses, Tick, reconcilerVars
<1>2. obj \in InstanceObjects
  BY DEF TypeOK
<1>3. PlaceOf(pc, obj, clock') = PlaceOf(pc, obj, clock)
  <2>1. CASE Waits(pc, obj) \/ pc \notin Undecided
    BY <2>1 DEF PlaceOf
  <2>2. CASE ~Waits(pc, obj) /\ pc \in Undecided
    <3>1. obj.suspended.until = NoUntil /\ obj.woken.until = NoUntil
      BY <2>2 DEF Waits
    <3>2. WantsPod(obj, clock') <=> WantsPod(obj, clock)
      BY <3>1 DEF WantsPod, DesiredRunning, Live, Expired
    <3>3. QED BY <3>2 DEF PlaceOf
  <2>3. QED BY <2>1, <2>2
<1>4. \A i \in Instances :
        PlaceAt(i)' = PlaceAt(i) /\ CopyFor(i)' = CopyFor(i) /\ GoalAt(i)' = GoalAt(i)
  BY <1>1, <1>3 DEF PlaceAt, CopyFor, GoalAt
<1>5. Lifecycle!ClockTicks
  BY <1>1, <1>4 DEF Lifecycle!ClockTicks
<1>6. QED BY <1>5 DEF Implemented, Lifecycle!LifecycleNext

\* Whatever is written to an instance, other than its phase, is an edit.
LEMMA EditMaps ==
  ASSUME TypeOK, NEW i \in Instances, NEW kind, NEW o \in InstanceObjects,
         UserWrite(kind, i, o), UNCHANGED reconcilerVars,
         inst[i].exists, o.exists, o.phase = inst[i].phase
  PROVE  Implemented
<1>1. WriteInst(i, o) /\ UNCHANGED <<clock, pod, icache, pcache, pc, key, obj, goal>>
  BY DEF UserWrite, reconcilerVars
<1>2. WorkerStill /\ PodStill
  BY <1>1, UnchangedStill
<1>3. [j \in Instances |-> StateOf(inst[j])]' =
        [[j \in Instances |-> StateOf(inst[j])] EXCEPT ![i] = StateOf(o)]
  BY <1>1, WritesMap
<1>4. /\ StateOf(o) \in Lifecycle!States /\ StateOf(o).exists /\ StateOf(inst[i]).exists
      /\ StateOf(o).phase = StateOf(inst[i]).phase
  <2>1. StateOf(o) \in Lifecycle!States
    BY StateTypes
  <2>2. QED BY <2>1 DEF StateOf
<1>5. StateOf(inst[i])' = StateOf(o)
  BY <1>1 DEF TypeOK, ClusterTypeOK, WriteInst
<1>6. Lifecycle!Edited(i)
  BY <1>1, <1>2, <1>3, <1>4, <1>5
  DEF Lifecycle!Edited, Lifecycle!InstanceBecomes, WorkerStill, PodStill
<1>7. QED BY <1>6 DEF Implemented, Lifecycle!LifecycleNext, Lifecycle!Environment

\* A user's write.
LEMMA UserMaps ==
  ASSUME TypeOK, NEW i \in Instances, User(i), UNCHANGED reconcilerVars
  PROVE  Implemented
<1>1. /\ inst[i] \in InstanceObjects /\ pod[i] \in PodObjects
      /\ UNCHANGED <<icache, pcache, pc, key, obj, goal>>
  BY DEF TypeOK, ClusterTypeOK, reconcilerVars
<1>2. ASSUME NEW kind, NEW o, UserWrite(kind, i, o)
      PROVE  /\ WorkerStill /\ PodStill /\ UNCHANGED <<clock, icache, pcache>>
             /\ WriteInst(i, o)
  BY <1>1, <1>2, UnchangedStill DEF UserWrite
<1>3. CASE CreateInstance(i)
  <2>1. PICK s \in BOOLEAN, t \in ServiceTypes :
          UserWrite("create", i, NewInstance(inst[i].uid + 1, s, t))
    BY <1>3 DEF CreateInstance
  <2> DEFINE n == NewInstance(inst[i].uid + 1, s, t)
  <2>2. StateOf(n) = Lifecycle!Fresh(TRUE, s)
    BY RestState
  <2>3. [j \in Instances |-> StateOf(inst[j])]' =
          [[j \in Instances |-> StateOf(inst[j])] EXCEPT ![i] = Lifecycle!Fresh(TRUE, s)]
    <3>1. WriteInst(i, n)
      BY <1>2, <2>1
    <3>2. [j \in Instances |-> StateOf(inst[j])]' =
            [[j \in Instances |-> StateOf(inst[j])] EXCEPT ![i] = StateOf(n)]
      BY <3>1, WritesMap
    <3>3. QED BY <2>2, <3>2
  <2>4. ~StateOf(inst[i]).exists
    BY <1>3 DEF CreateInstance, StateOf
  <2>5. Lifecycle!Created(i)
    BY <1>2, <2>1, <2>3, <2>4
    DEF Lifecycle!Created, Lifecycle!InstanceBecomes, WorkerStill, PodStill
  <2>6. QED BY <2>5 DEF Implemented, Lifecycle!LifecycleNext, Lifecycle!Environment
<1>4. CASE DeleteInstance(i)
  <2>1. CASE inst[i].finalizer
    <3>1. UserWrite("delete", i, [inst[i] EXCEPT !.deleting = TRUE])
      BY <1>4, <2>1 DEF DeleteInstance
    <3>2. InstStill
      BY <1>1, <1>2, <3>1, StateChanges, WritesMap
    <3>3. QED BY <1>2, <3>1, <3>2, Stutters DEF Implemented
  <2>2. CASE ~inst[i].finalizer
    <3>1. UserWrite("delete", i, NoInstance(inst[i].uid, inst[i].svcType))
      BY <1>4, <2>2 DEF DeleteInstance
    <3> DEFINE n == NoInstance(inst[i].uid, inst[i].svcType)
    <3>2. StateOf(n) = Lifecycle!Fresh(FALSE, FALSE)
      BY RestState
    <3>3. [j \in Instances |-> StateOf(inst[j])]' =
            [[j \in Instances |-> StateOf(inst[j])] EXCEPT ![i] = Lifecycle!Fresh(FALSE, FALSE)]
      <4>1. WriteInst(i, n)
        BY <1>2, <3>1
      <4>2. [j \in Instances |-> StateOf(inst[j])]' =
              [[j \in Instances |-> StateOf(inst[j])] EXCEPT ![i] = StateOf(n)]
        BY <4>1, WritesMap
      <4>3. QED BY <3>2, <4>2
    <3>4. StateOf(inst[i]).exists
      BY <1>4 DEF DeleteInstance, StateOf
    <3>5. Lifecycle!Removed(i)
      BY <1>2, <3>1, <3>3, <3>4
      DEF Lifecycle!Removed, Lifecycle!InstanceBecomes, WorkerStill, PodStill
    <3>6. QED BY <3>5 DEF Implemented, Lifecycle!LifecycleNext, Lifecycle!Environment
  <2>3. QED BY <2>1, <2>2
<1>5. ASSUME NEW o \in Overrides
      PROVE  LET a == [inst[i] EXCEPT !.suspended = o]
                 b == [inst[i] EXCEPT !.woken = o]
             IN /\ a \in InstanceObjects /\ b \in InstanceObjects
                /\ inst[i].exists => a.exists /\ b.exists
                /\ a.phase = inst[i].phase /\ b.phase = inst[i].phase
  BY <1>1 DEF InstanceObjects
<1>6. \A a \in Actors, u \in Untils \cup {NoUntil} :
        /\ MergeOverride(inst[i].suspended, a, u) \in Overrides
        /\ MergeOverride(inst[i].woken, a, u) \in Overrides
  BY <1>1, OverrideTypes, ClusterAssumption DEF InstanceObjects, NoUntil
<1>7. CASE EditSpec(i)
  <2>1. PICK s \in BOOLEAN, t \in ServiceTypes :
          UserWrite("edit", i, [inst[i] EXCEPT !.suspend = s, !.svcType = t])
    BY <1>7 DEF EditSpec
  <2> DEFINE o == [inst[i] EXCEPT !.suspend = s, !.svcType = t]
  <2>2. o \in InstanceObjects /\ (inst[i].exists => o.exists) /\ o.phase = inst[i].phase
    BY <1>1 DEF InstanceObjects
  <2>3. inst[i].exists
    BY <1>7 DEF EditSpec
  <2>4. QED BY <2>1, <2>2, <2>3, EditMaps
<1>8. CASE SuspendOverride(i)
  <2>1. PICK a \in Actors, u \in Untils \cup {NoUntil} :
          UserWrite("suspend", i,
            [inst[i] EXCEPT !.suspended = MergeOverride(inst[i].suspended, a, u)])
    BY <1>8 DEF SuspendOverride
  <2>2. inst[i].exists
    BY <1>8 DEF SuspendOverride
  <2>3. QED BY <1>5, <1>6, <2>1, <2>2, EditMaps
<1>9. CASE WakeOverride(i)
  <2>1. PICK a \in Actors, u \in Untils \cup {NoUntil} :
          UserWrite("wake", i,
            [inst[i] EXCEPT !.woken = MergeOverride(inst[i].woken, a, u)])
    BY <1>9 DEF WakeOverride
  <2>2. inst[i].exists
    BY <1>9 DEF WakeOverride
  <2>3. QED BY <1>5, <1>6, <2>1, <2>2, EditMaps
<1>10. CASE ResumeOverride(i)
  <2>1. UserWrite("resume", i, [inst[i] EXCEPT !.suspended = Cleared]) /\ inst[i].exists
    BY <1>10 DEF ResumeOverride
  <2>2. QED BY <1>5, <2>1, OverrideTypes, EditMaps
<1>11. CASE ClearWokenOverride(i)
  <2>1. UserWrite("unwake", i, [inst[i] EXCEPT !.woken = Cleared]) /\ inst[i].exists
    BY <1>11 DEF ClearWokenOverride
  <2>2. QED BY <1>5, <2>1, OverrideTypes, EditMaps
<1>12. CASE EvictPod(i)
  <2>1. /\ Present(pod[i]) /\ WritePod(i, [pod[i] EXCEPT !.deleting = TRUE])
        /\ UNCHANGED <<clock, inst>>
    BY <1>12 DEF EvictPod
  <2>2. QED BY <1>1, <2>1, UnchangedStill, PodEvicted
<1>13. CASE TamperService(i)
  <2>1. UNCHANGED <<clock, inst, pod>>
    BY <1>13 DEF TamperService
  <2>2. QED BY <1>1, <2>1, UnchangedStill, Stutters DEF Implemented
<1>14. QED
  BY <1>3, <1>4, <1>7, <1>8, <1>9, <1>10, <1>11, <1>12, <1>13 DEF User

\* What Kubernetes does by itself.
LEMMA PlatformMaps ==
  ASSUME TypeOK, NEW i \in Instances, Platform(i), UNCHANGED reconcilerVars
  PROVE  Implemented
<1>1. /\ pod[i] \in PodObjects
      /\ UNCHANGED <<icache, pcache, pc, key, obj, goal>>
  BY DEF TypeOK, ClusterTypeOK, reconcilerVars
<1>2. UNCHANGED <<clock, inst>>
  BY DEF Platform, PodStarts, PodGetsIP, PodExits, PodGone, CollectPod, CollectService,
         KubeletWrite
<1>3. WorkerStill /\ InstStill
  BY <1>1, <1>2, UnchangedStill
<1>4. /\ pod[i].phase # "Absent" => Present(pod[i])
      /\ pod[i].deleting => Present(pod[i])
  BY DEF Present, NoPod
<1>5. PodOf(pod[i]).phase = pod[i].phase /\ PodOf(pod[i]).deleting = pod[i].deleting
  BY DEF PodOf
<1>6. ASSUME NEW p, WritePod(i, p)
      PROVE  Lifecycle!PodBecomes(i, PodOf(p))
  <2>1. [j \in Instances |-> PodOf(pod[j])]' =
          [[j \in Instances |-> PodOf(pod[j])] EXCEPT ![i] = PodOf(p)]
    BY <1>6, WritesMap
  <2>2. QED BY <1>1, <1>2, <1>3, <2>1 DEF Lifecycle!PodBecomes, WorkerStill, InstStill
<1>7. CASE PodStarts(i)
  <2>1. /\ WritePod(i, [pod[i] EXCEPT !.phase = "Running"])
        /\ pod[i].phase = "Pending" /\ ~pod[i].deleting
    BY <1>7 DEF PodStarts, KubeletWrite
  <2>2. PodOf([pod[i] EXCEPT !.phase = "Running"]) = [PodOf(pod[i]) EXCEPT !.phase = "Running"]
    BY <1>1, <1>4, <2>1, PodChanges DEF PodPhases
  <2>3. PodOf(pod[i]) = Lifecycle!Started
    <3>1. pod[i].deleting = FALSE
      BY <1>1, <1>4, <2>1 DEF PodObjects, Present
    <3>2. QED BY <2>1, <3>1 DEF PodOf, Lifecycle!Started
  <2>4. Lifecycle!PodBecomes(i, [PodOf(pod[i]) EXCEPT !.phase = "Running"])
    BY <1>6, <2>1, <2>2
  <2>5. Lifecycle!Starts(i)
    BY <2>3, <2>4 DEF Lifecycle!Starts
  <2>6. QED BY <2>5 DEF Implemented, Lifecycle!LifecycleNext, Lifecycle!Kubelet
<1>8. CASE PodGetsIP(i)
  <2>1. PICK ip \in IPs : WritePod(i, [pod[i] EXCEPT !.ip = ip])
    BY <1>8 DEF PodGetsIP, KubeletWrite
  <2>2. PodOf([pod[i] EXCEPT !.ip = ip]) = PodOf(pod[i])
    BY <1>1, <1>4, <1>8, PodChanges DEF PodGetsIP
  <2>3. PodStill
    BY <2>1, <2>2, WritesMap
  <2>4. QED BY <1>1, <1>2, <1>3, <2>3, Stutters DEF Implemented
<1>9. CASE PodExits(i)
  <2>1. PICK ph \in {"Succeeded", "Failed"} :
          /\ pod[i].phase = "Running" \/ (pod[i].phase = "Pending" /\ ph = "Failed")
          /\ WritePod(i, [pod[i] EXCEPT !.phase = ph])
    BY <1>9 DEF PodExits
  <2>2. PodOf([pod[i] EXCEPT !.phase = ph]) = [PodOf(pod[i]) EXCEPT !.phase = ph]
    BY <1>1, <1>4, <2>1, PodChanges DEF PodPhases
  <2>3. Lifecycle!PodBecomes(i, [PodOf(pod[i]) EXCEPT !.phase = ph])
    BY <1>6, <2>1, <2>2
  <2>4. Lifecycle!Exits(i)
    BY <1>5, <2>1, <2>3 DEF Lifecycle!Exits
  <2>5. QED BY <2>4 DEF Implemented, Lifecycle!LifecycleNext
<1>10. CASE PodGone(i)
  <2>1. WritePod(i, NoPod) /\ pod[i].deleting
    BY <1>10 DEF PodGone, KubeletWrite
  <2>2. Lifecycle!PodBecomes(i, Lifecycle!Absent)
    BY <1>6, <2>1, RestState
  <2>3. Lifecycle!Gone(i)
    BY <1>5, <2>1, <2>2 DEF Lifecycle!Gone
  <2>4. QED BY <2>3 DEF Implemented, Lifecycle!LifecycleNext, Lifecycle!Kubelet
<1>11. CASE CollectPod(i)
  <2>1. Present(pod[i]) /\ WritePod(i, [pod[i] EXCEPT !.deleting = TRUE])
    BY <1>11 DEF CollectPod, KubeletWrite
  <2>2. QED BY <1>1, <1>2, <1>3, <2>1, PodEvicted
<1>12. CASE CollectService(i)
  <2>1. UNCHANGED pod
    BY <1>12 DEF CollectService
  <2>2. QED BY <1>1, <1>2, <1>3, <2>1, UnchangedStill, Stutters DEF Implemented
<1>13. QED
  BY <1>7, <1>8, <1>9, <1>10, <1>11, <1>12 DEF Platform

\* Every step is one of the lifecycle, or changes nothing there.
LEMMA StepMaps == TypeOK /\ PassShape /\ [Next]_vars => Implemented
<1> SUFFICES ASSUME TypeOK, PassShape, [Next]_vars PROVE Implemented
  OBVIOUS
<1>1. CASE WorkerStep
  BY <1>1, WorkerMaps
<1>2. ASSUME NEW i \in Instances, Begin(i) PROVE Implemented
  BY <1>2, BeginMaps
<1>3. ASSUME NEW i \in Instances, Resync(i) PROVE Implemented
  <2>1. UNCHANGED <<clock, inst, pod, icache, pcache, pc, key, obj, goal>>
    BY <1>3 DEF Resync, clusterVars
  <2>2. QED BY <2>1, UnchangedStill, Stutters DEF Implemented
<1>4. ASSUME NEW i \in Instances,
             DeliverInstance(i) \/ DeliverPod(i) \/ DeliverService(i)
      PROVE  Implemented
  BY <1>4, DeliveryMaps
<1>5. CASE Abort
  <2>1. pc # "idle" /\ Rest /\ UNCHANGED <<clock, inst, pod, icache, pcache>>
    BY <1>5 DEF Abort, clusterVars
  <2>2. QED BY <2>1, UnchangedStill, RestAbandons
<1>6. CASE Restart
  BY <1>6, RestartMaps
<1>7. CASE TimePasses
  BY <1>7, TickMaps
<1>8. ASSUME NEW i \in Instances, Outside(i) PROVE Implemented
  BY <1>8, UserMaps, PlatformMaps DEF Outside
<1>9. CASE UNCHANGED vars
  BY <1>9, UnchangedStill, Stutters DEF vars, Implemented
<1>10. QED
  BY <1>1, <1>2, <1>3, <1>4, <1>5, <1>6, <1>7, <1>8, <1>9, NextCases DEF MachineryStep

-----------------------------------------------------------------------------
\* The instances the operator finds are those InstanceLifecycle assumes, so that what is
\* proved there holds here.
LEMMA FoundAsAssumed ==
  FoundStates \subseteq {Lifecycle!Fresh(e, s) : e, s \in BOOLEAN} \cup {Lifecycle!AtRest}
<1>1. \A t \in ServiceTypes : StateOf(NoInstance(0, t)) = Lifecycle!Fresh(FALSE, FALSE)
  BY RestState
<1>2. \A s \in BOOLEAN, t \in ServiceTypes :
        StateOf(NewInstance(1, s, t)) = Lifecycle!Fresh(TRUE, s)
  BY RestState
<1> DEFINE fresh == {Lifecycle!Fresh(e, s) : e, s \in BOOLEAN}
<1>3. \A e, s \in BOOLEAN : Lifecycle!Fresh(e, s) \in fresh
  <2>1. SUFFICES ASSUME NEW e \in BOOLEAN, NEW s \in BOOLEAN
                 PROVE  Lifecycle!Fresh(e, s) \in fresh
    OBVIOUS
  <2>2. \E x, y \in BOOLEAN : Lifecycle!Fresh(e, s) = Lifecycle!Fresh(x, y)
    BY Zenon
  <2>3. QED BY <2>2
<1> HIDE DEF fresh
<1>4. \A t \in ServiceTypes : StateOf(NoInstance(0, t)) \in fresh
  BY <1>1, <1>3, Zenon
<1>5. \A s \in BOOLEAN, t \in ServiceTypes : StateOf(NewInstance(1, s, t)) \in fresh
  BY <1>2, <1>3, Zenon
<1>6. FoundStates \subseteq fresh
  BY <1>4, <1>5 DEF FoundStates
<1>7. QED BY <1>6 DEF fresh

\* How it all starts.
LEMMA InitMaps == Init => Lifecycle!LifecycleInit
<1> SUFFICES ASSUME Init PROVE Lifecycle!LifecycleInit
  OBVIOUS
<1>1. /\ clock = 1 /\ pod = [i \in Instances |-> NoPod] /\ icache = inst /\ pcache = pod
      /\ key = NoKey
      /\ inst \in [Instances -> {NoInstance(0, t) : t \in ServiceTypes} \cup
                                {NewInstance(1, s, t) : s \in BOOLEAN, t \in ServiceTypes}]
  BY DEF Init, ClusterInit
<1>2. \A i \in Instances :
        PlaceAt(i) = "idle" /\ CopyFor(i) = Lifecycle!Fresh(FALSE, FALSE) /\ GoalAt(i) = ""
  BY <1>1, Serving
<1>3. \A i \in Instances : PodOf(pod[i]) = Lifecycle!Absent
  BY <1>1, RestState
<1>4. [i \in Instances |-> StateOf(inst[i])] \in [Instances -> FoundStates]
  <2> DEFINE found == {NoInstance(0, t) : t \in ServiceTypes} \cup
                      {NewInstance(1, s, t) : s \in BOOLEAN, t \in ServiceTypes}
  <2>1. inst \in [Instances -> found]
    BY <1>1
  <2> HIDE DEF found
  <2>2. [i \in Instances |-> StateOf(inst[i])] \in
          [Instances -> {StateOf(o) : o \in found}]
    BY <2>1
  <2>3. QED BY <2>2 DEF found, FoundStates
<1>5. /\ [i \in Instances |-> PlaceAt(i)] = [i \in Instances |-> "idle"]
      /\ [i \in Instances |-> CopyFor(i)] = [i \in Instances |-> Lifecycle!Fresh(FALSE, FALSE)]
      /\ [i \in Instances |-> GoalAt(i)] = [i \in Instances |-> ""]
  BY <1>2
<1>6. /\ [i \in Instances |-> PodOf(pod[i])] = [i \in Instances |-> Lifecycle!Absent]
      /\ [i \in Instances |-> PodOf(pcache[i])] = [i \in Instances |-> PodOf(pod[i])]
      /\ [i \in Instances |-> StateOf(icache[i])] = [i \in Instances |-> StateOf(inst[i])]
  BY <1>1, <1>3
<1>7. clock = 1
  BY <1>1
<1>8. QED BY <1>4, <1>5, <1>6, <1>7 DEF Lifecycle!LifecycleInit

\* A pass keeps its object, and has nothing to report before the end.
LEMMA ShapeStep == TypeOK /\ PassShape /\ [Next]_vars => PassShape'
<1> SUFFICES ASSUME TypeOK, PassShape, [Next]_vars PROVE PassShape'
  OBVIOUS
<1>1. CASE UNCHANGED <<pc, key, obj, goal>>
  BY <1>1 DEF PassShape
<1>2. CASE Rest
  BY <1>2 DEF Rest, PassShape
<1>3. CASE WorkerStep /\ ~Rest
  <2>1. key' = key /\ (obj' = obj \/ obj'.exists)
    <3>1. CASE AddFinalizer
      <4>1. key' = key /\ obj' = [obj EXCEPT !.finalizer = TRUE] /\ obj.exists
        BY <1>3, <3>1
        DEF AddFinalizer, Proceed, ServerSaysNo, ReturnError, PassShape, TypeOK
      <4>2. obj \in InstanceObjects
        BY DEF TypeOK
      <4>3. QED BY <4>1, <4>2 DEF InstanceObjects
    <3>2. CASE ClearExpiredWoken \/ ClearExpiredSuspended
      <4>1. key \in Instances
        BY <3>2 DEF TypeOK, ClearExpiredWoken, ClearExpiredSuspended
      <4>2. inst[key] \in InstanceObjects
        BY <4>1 DEF TypeOK, ClusterTypeOK
      <4>3. inst[key].exists => /\ [inst[key] EXCEPT !.woken = Cleared].exists
                                /\ [inst[key] EXCEPT !.suspended = Cleared].exists
        BY <4>2 DEF InstanceObjects
      <4>4. ASSUME NEW l, NEW o, NEW p, StatusPatch(l, o, p), inst[key].exists => o.exists
            PROVE  key' = key /\ obj'.exists
        <5>1. inst[key].exists
          BY <1>3, <4>4 DEF StatusPatch, ServerSaysNo, ReturnError
        <5>2. key' = key /\ obj' = Decode(l, o)
          BY <4>4, <5>1 DEF StatusPatch, Proceed
        <5>3. QED BY <4>4, <5>1, <5>2 DEF Decode
      <4>5. QED
        BY <3>2, <4>3, <4>4 DEF ClearExpiredWoken, ClearExpiredSuspended, Proceed
    <3>3. CASE ~AddFinalizer /\ ~ClearExpiredWoken /\ ~ClearExpiredSuspended
      BY <1>3, <3>3
      DEF WorkerStep, Cleanup, RemoveFinalizer, ReconcileService, Decide, StopPod, CreatePod,
          ObservePod, UpdateStatus, DeleteInstancePod, Proceed, ServerSaysNo, ReturnError,
          Return
    <3>4. QED BY <3>1, <3>2, <3>3
  <2>2. (goal' = goal /\ pc # "status") \/ pc' = "status"
    BY <1>3
    DEF WorkerStep, Cleanup, RemoveFinalizer, AddFinalizer, ReconcileService,
        ClearExpiredWoken, ClearExpiredSuspended, Decide, StopPod, CreatePod, ObservePod,
        UpdateStatus, DeleteInstancePod, StatusPatch, Proceed, ServerSaysNo, ReturnError,
        Return
  <2>3. QED BY <2>1, <2>2 DEF PassShape
<1>4. ASSUME NEW i \in Instances, Begin(i) PROVE PassShape'
  BY <1>4 DEF Begin, workerVars, PassShape
<1>5. CASE MachineryStep \/ \E i \in Instances : Outside(i)
  BY <1>1, <1>2, <1>4, <1>5
  DEF MachineryStep, Resync, DeliverInstance, DeliverPod, DeliverService, Abort, Restart,
      TimePasses, Outside, reconcilerVars
<1>6. QED BY <1>1, <1>2, <1>3, <1>5, NextCases DEF vars

\* The controller implements the lifecycle the task controller counts on: whatever the
\* caches, conflicts, failed calls and restarts do to a pass, the phase is written at
\* its end only, by the decision taken on the copy it read, and the Pod is stopped or
\* started by such a decision only.
THEOREM Refinement == Spec => ImplementsLifecycle
<1>1. Init => TypeOK /\ PassShape
  BY TypeInit DEF Init, PassShape
<1>2. TypeOK /\ PassShape /\ [Next]_vars => TypeOK' /\ PassShape'
  BY TypeStep, ShapeStep
<1>3. TypeOK /\ PassShape /\ [Next]_vars =>
        [Lifecycle!LifecycleNext]_(Lifecycle!lifecycleVars)
  BY StepMaps DEF Implemented
<1>4. QED
  BY <1>1, <1>2, <1>3, InitMaps, PTL DEF Spec, ImplementsLifecycle, Lifecycle!LifecycleSpec
=============================================================================
