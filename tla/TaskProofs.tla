----------------------------- MODULE TaskProofs -----------------------------
(***************************************************************************)
(* Proofs about the operator as a whole: the type invariants, that it      *)
(* leaves the instance controller's promises in force, and TaskConverged   *)
(* by way of TaskIInv.                                                     *)
(***************************************************************************)
EXTENDS Operator, OverrideProofs, TLAPS

-----------------------------------------------------------------------------
(* The instance controller as others see it: type correctness.             *)

\* Instances as they are found, created, decided upon and gone.
LEMMA FreshTypes ==
  /\ \A e, s \in BOOLEAN : Fresh(e, s) \in States
  /\ AtRest \in States
  /\ Initially \subseteq States
  /\ \A c \in States : Decided(c) \in States
<1>1. \A e, s \in BOOLEAN : Fresh(e, s) \in States
  BY OverrideTypes DEF Fresh, States, Phases
<1>2. AtRest \in States
  BY <1>1 DEF AtRest, States, Phases
<1>3. \A c \in States : Decided(c) \in States
  BY <1>1 DEF Decided, States
<1>4. QED BY <1>1, <1>2, <1>3, InitiallyAssumption

\* A response decoded into a copy is a well-formed copy.
LEMMA DecodedType ==
  ASSUME NEW c \in States, NEW stored \in States
  PROVE  Decoded(c, stored) \in States
<1>1. DecodeOverride(c.suspended, stored.suspended) \in Overrides
  BY OverrideTypes DEF States
<1>2. DecodeOverride(c.woken, stored.woken) \in Overrides
  BY OverrideTypes DEF States
<1>3. QED BY <1>1, <1>2 DEF Decoded, States

\* What the controller does with an instance leaves its own state well formed, in
\* particular when it goes on with a copy.
LEMMA AtTypes ==
  ASSUME LifecycleTypeOK, NEW i \in Instances, NEW c \in States
  PROVE  LET moved == /\ place' \in [Instances -> {"idle", "pass", "stop", "run", "report"}]
                      /\ copy' \in [Instances -> States] /\ goal' \in [Instances -> Phases]
                      /\ UNCHANGED <<clock, icache, pcache>>
         IN /\ \A p \in {"idle", "pass", "stop", "run", "report"}, g \in Phases :
                 At(i, p, c, g) => moved
            /\ GoOnWith(i, c) => moved
            /\ DecideOn(i, c) => moved
            /\ Leave(i) => moved
<1>1. \A d \in States, p \in {"idle", "pass", "stop", "run", "report"}, g \in Phases :
        At(i, p, d, g) =>
          /\ place' \in [Instances -> {"idle", "pass", "stop", "run", "report"}]
          /\ copy' \in [Instances -> States] /\ goal' \in [Instances -> Phases]
          /\ UNCHANGED <<clock, icache, pcache>>
  BY DEF LifecycleTypeOK, At
<1>2. "" \in Phases
  BY DEF Phases
<1>3. QED
  BY <1>1, <1>2, FreshTypes DEF GoOnWith, DecideOn, Leave

LEMMA ControllerTypes ==
  ASSUME LifecycleTypeOK, NEW i \in Instances, Controller(i) \/ Abandon(i)
  PROVE  LifecycleTypeOK'
<1> DEFINE moved == /\ place' \in [Instances -> {"idle", "pass", "stop", "run", "report"}]
                    /\ copy' \in [Instances -> States] /\ goal' \in [Instances -> Phases]
                    /\ UNCHANGED <<clock, icache, pcache>>
<1>1. inst[i] \in States /\ icache[i] \in States /\ copy[i] \in States /\ pod[i] \in Pods
  BY DEF LifecycleTypeOK
<1>2. ASSUME moved, inst' \in [Instances -> States], pod' \in [Instances -> Pods]
      PROVE  LifecycleTypeOK'
  BY <1>2 DEF LifecycleTypeOK
<1>3. CASE Look(i)
  BY <1>1, <1>2, <1>3, AtTypes DEF Look, LifecycleTypeOK
<1>4. ASSUME NEW o \in States, NEW c \in States, inst' = [inst EXCEPT ![i] = o],
             UNCHANGED pod, GoOnWith(i, Decoded(c, o))
      PROVE  LifecycleTypeOK'
  <2>1. Decoded(c, o) \in States
    BY DecodedType
  <2>2. moved
    BY <1>4, <2>1, AtTypes
  <2>3. QED BY <1>2, <1>4, <2>2 DEF LifecycleTypeOK
<1>5. CASE LiftWoken(i)
  <2>1. /\ [inst[i] EXCEPT !.woken = Cleared] \in States
        /\ [copy[i] EXCEPT !.woken = Cleared] \in States
    BY <1>1, OverrideTypes DEF States
  <2>2. QED BY <1>4, <1>5, <2>1 DEF LiftWoken, Lift
<1>6. CASE LiftSuspended(i)
  <2>1. /\ [inst[i] EXCEPT !.suspended = Cleared] \in States
        /\ [copy[i] EXCEPT !.suspended = Cleared] \in States
    BY <1>1, OverrideTypes DEF States
  <2>2. QED BY <1>4, <1>6, <2>1 DEF LiftSuspended, Lift
<1>7. CASE Decide(i)
  BY <1>1, <1>2, <1>7, AtTypes DEF Decide, LifecycleTypeOK
<1>8. CASE Stop(i)
  <2>1. [pod[i] EXCEPT !.deleting = TRUE] \in Pods \/ pod[i] = Absent
    BY <1>1 DEF Pods
  <2>2. pod' \in [Instances -> Pods]
    BY <1>8, <2>1 DEF Stop, LifecycleTypeOK
  <2>3. moved
    BY <1>1, <1>8, AtTypes DEF Stop, Phases
  <2>4. QED BY <1>2, <1>8, <2>2, <2>3 DEF Stop, LifecycleTypeOK
<1>9. CASE Start(i)
  <2>1. Started \in Pods
    BY DEF Started, Pods
  <2>2. pod' \in [Instances -> Pods]
    BY <1>9, <2>1 DEF Start, LifecycleTypeOK
  <2>3. moved
    BY <1>1, <1>9, AtTypes DEF Start, Phases
  <2>4. QED BY <1>2, <1>9, <2>2, <2>3 DEF Start, LifecycleTypeOK
<1>10. CASE Observe(i)
  <2>1. pcache[i].phase \in {"Absent", "Pending", "Running", "Succeeded", "Failed"}
    BY DEF LifecycleTypeOK, Pods, Absent
  <2>2. PhaseOf(pcache[i]) \in Phases
    BY <2>1 DEF PhaseOf, Phases
  <2>3. moved
    BY <1>1, <1>10, <2>2, AtTypes DEF Observe
  <2>4. QED BY <1>2, <1>10, <2>3 DEF Observe, LifecycleTypeOK
<1>11. CASE Report(i)
  <2>1. [inst[i] EXCEPT !.phase = goal[i]] \in States
    BY <1>1 DEF LifecycleTypeOK, States
  <2>2. inst' \in [Instances -> States]
    BY <1>11, <2>1 DEF Report, LifecycleTypeOK
  <2>3. moved
    BY <1>1, <1>11, AtTypes DEF Report
  <2>4. QED BY <1>2, <1>11, <2>2, <2>3 DEF Report, LifecycleTypeOK
<1>12. CASE NotFound(i) \/ Abandon(i)
  BY <1>1, <1>2, <1>12, AtTypes DEF NotFound, Abandon, LifecycleTypeOK
<1>13. CASE See(i) \/ SeePod(i)
  BY <1>13 DEF See, SeePod, LifecycleTypeOK
<1>14. QED
  BY <1>3, <1>5, <1>6, <1>7, <1>8, <1>9, <1>10, <1>11, <1>12, <1>13
  DEF Controller, PassStep

\* The kubelet, and whatever else happens to a Pod.
LEMMA PodTypes ==
  ASSUME LifecycleTypeOK, NEW i \in Instances, Kubelet(i) \/ Exits(i) \/ Evicted(i)
  PROVE  LifecycleTypeOK'
<1>1. pod[i] \in Pods
  BY DEF LifecycleTypeOK
<1>2. ASSUME NEW p \in Pods, PodBecomes(i, p) PROVE LifecycleTypeOK'
  BY <1>2 DEF PodBecomes, LifecycleTypeOK
<1>3. Absent \in Pods
  BY DEF Pods
<1>4. CASE Starts(i)
  <2>1. [pod[i] EXCEPT !.phase = "Running"] \in Pods
    <3>1. pod[i] = Started
      BY <1>4 DEF Starts
    <3>2. Started \in [phase : {"Pending", "Running"}, deleting : BOOLEAN]
      BY DEF Started
    <3>3. QED BY <3>1, <3>2 DEF Pods
  <2>2. QED BY <1>2, <1>4, <2>1 DEF Starts
<1>5. CASE Exits(i)
  <2>1. PICK ph \in {"Succeeded", "Failed"} :
          /\ pod[i].phase \in {"Running", "Pending"}
          /\ PodBecomes(i, [pod[i] EXCEPT !.phase = ph])
    BY <1>5 DEF Exits
  <2>2. [pod[i] EXCEPT !.phase = ph] \in Pods
    BY <1>1, <2>1 DEF Pods, Absent
  <2>3. QED BY <1>2, <2>1, <2>2
<1>6. CASE Evicted(i)
  <2>1. [pod[i] EXCEPT !.deleting = TRUE] \in Pods
    BY <1>1, <1>6 DEF Evicted, Pods
  <2>2. QED BY <1>2, <1>6, <2>1 DEF Evicted
<1>7. CASE Gone(i)
  BY <1>2, <1>3, <1>7 DEF Gone
<1>8. QED BY <1>4, <1>5, <1>6, <1>7 DEF Kubelet

\* Instances that come, go and are edited.
LEMMA EnvironmentTypes ==
  ASSUME LifecycleTypeOK, NEW i \in Instances, Environment(i)
  PROVE  LifecycleTypeOK'
<1>1. ASSUME NEW o \in States, InstanceBecomes(i, o) PROVE LifecycleTypeOK'
  BY <1>1 DEF InstanceBecomes, LifecycleTypeOK
<1>2. QED
  BY <1>1, FreshTypes DEF Environment, Created, Removed, Edited

LEMMA LifecycleInitTypes == LifecycleInit => LifecycleTypeOK
<1> SUFFICES ASSUME LifecycleInit PROVE LifecycleTypeOK
  OBVIOUS
<1>1. Fresh(FALSE, FALSE) \in States /\ Absent \in Pods /\ "" \in Phases
  BY FreshTypes DEF Pods, Phases
<1>2. inst \in [Instances -> States]
  BY FreshTypes DEF LifecycleInit
<1>3. QED BY <1>1, <1>2 DEF LifecycleInit, LifecycleTypeOK

\* The operator starts again.
LEMMA RebootTypes == LifecycleTypeOK /\ Reboot => LifecycleTypeOK'
<1>1. Fresh(FALSE, FALSE) \in States /\ "" \in Phases
  BY FreshTypes DEF Phases
<1>2. QED BY <1>1 DEF Reboot, LifecycleTypeOK

\* Whatever the controller, the cluster and the users do, in whatever order, the
\* variables keep their types; an override, in particular, always has an actor.
THEOREM LifecycleTypes == LifecycleSpec => []LifecycleTypeOK
<1>1. LifecycleInit => LifecycleTypeOK
  BY LifecycleInitTypes
<1>2. LifecycleTypeOK /\ LifecycleNext => LifecycleTypeOK'
  <2>1. LifecycleTypeOK /\ ClockTicks => LifecycleTypeOK'
    BY DEF ClockTicks, LifecycleTypeOK
  <2>2. QED
    BY <2>1, RebootTypes, ControllerTypes, PodTypes, EnvironmentTypes DEF LifecycleNext
<1>3. LifecycleTypeOK /\ UNCHANGED lifecycleVars => LifecycleTypeOK'
  BY DEF LifecycleTypeOK, lifecycleVars
<1>4. QED BY <1>1, <1>2, <1>3, PTL DEF LifecycleSpec

-----------------------------------------------------------------------------
(* Type correctness.  The type of "at" depends on the spec of the local    *)
(* task, so it is inductive only together with where the loops start.      *)

ServerTypes ==
  /\ task \in [Tasks -> TaskObjects]
  /\ job \in [Pairs -> JobObjects] /\ cron \in [Pairs -> CronObjects]
  /\ runs \in [Tasks -> Runs]
  /\ tseen \subseteq Tasks /\ jseen \subseteq Pairs /\ cseen \subseteq Pairs

QueueTypes ==
  /\ tcache \in [Tasks -> TaskObjects]
  /\ jcache \in [Pairs -> JobObjects] /\ ccache \in [Pairs -> CronObjects]
  /\ tqueue \subseteq Tasks /\ later \subseteq Tasks

WorkerTypes ==
  /\ tpc \in {"idle", "unfinalize", "finalize", "resolve", "jobs", "crons", "report"}
  /\ tkey \in Tasks \cup {NoTask}
  /\ tpc = "idle" <=> tkey = NoTask
  /\ tobj \in TaskObjects
  /\ pairs \in [Instances -> Glimpses]
  /\ at \in 1..Len(tobj.spec.insts) + 1
  /\ active \subseteq Instances
  /\ again \in BOOLEAN
  /\ tpc \notin {"jobs", "crons", "report"} => at = 1 /\ active = {} /\ ~again

Bounds == edits \in 0..MaxEdits /\ faults \in 0..MaxFaults

\* The type invariant, in the parts that steps disturb.
LEMMA TypeParts ==
  /\ LifecycleTypeOK /\ ServerTypes /\ QueueTypes /\ WorkerTypes /\ Bounds => TypeOK
  /\ TypeOK => LifecycleTypeOK /\ ServerTypes /\ QueueTypes /\ Bounds
  BY DEF TypeOK, TaskTypeOK, ServerTypes, QueueTypes, WorkerTypes, Bounds

\* What the constants say of a spec.
LEMMA SpecFacts ==
  ASSUME NEW s \in TaskSpecs
  PROVE  /\ s.mode \in Modes /\ s.scheduled \in BOOLEAN
         /\ s.insts \in Seq(Instances) /\ Len(s.insts) \in Nat \ {0}
         /\ \A n \in 1..Len(s.insts) : s.insts[n] \in Instances
         /\ s.rev \in Nat \ {0}
<1>1. /\ s.mode \in Modes /\ s.scheduled \in BOOLEAN
      /\ s.insts \in Seq(Instances) /\ s.insts # <<>>
      /\ s.rev \in Nat \ {0}
  BY TaskAssumption
<1>2. Len(s.insts) \in Nat \ {0}
  BY <1>1
<1>3. \A n \in 1..Len(s.insts) : s.insts[n] \in Instances
  BY <1>1
<1>4. QED BY <1>1, <1>2, <1>3

\* Tasks as users and the controller leave them.
LEMMA TaskObjectTypes ==
  /\ \A u \in Nat, s \in TaskSpecs :
       NewTask(u, s) \in TaskObjects /\ NoTaskObject(u, s) \in TaskObjects
  /\ NoTaskObj \in TaskObjects
  /\ NoPairs \in [Instances -> Glimpses]
<1>1. NoStatus \in Statuses
  BY DEF NoStatus, Statuses
<1>2. \A u \in Nat, s \in TaskSpecs : NewTask(u, s) \in TaskObjects
  BY <1>1 DEF NewTask, TaskObjects
<1>3. \A u \in Nat, s \in TaskSpecs : NoTaskObject(u, s) \in TaskObjects
  <2>1. \A o \in TaskObjects : [o EXCEPT !.exists = FALSE] \in TaskObjects
    BY DEF TaskObjects
  <2>2. QED BY <1>2, <2>1 DEF NoTaskObject
<1>4. AnySpec \in TaskSpecs
  BY TaskAssumption DEF AnySpec
<1>5. NoPairs \in [Instances -> Glimpses]
  BY DEF NoPairs, Glimpses
<1>6. QED BY <1>2, <1>3, <1>4, <1>5 DEF NoTaskObj

\* A write of a well-formed object keeps the server's side well formed.
LEMMA TaskWriteTypes ==
  ASSUME ServerTypes
  PROVE  /\ \A t \in Tasks, o \in TaskObjects : WriteTask(t, o) => ServerTypes'
         /\ \A p \in Pairs, j \in JobObjects : WriteJob(p, j) => ServerTypes'
         /\ \A p \in Pairs, c \in CronObjects : WriteCron(p, c) => ServerTypes'
         /\ NoChildWrite => ServerTypes'
  BY DEF ServerTypes, WriteTask, WriteJob, WriteCron, NoChildWrite

\* The worker rests.
LEMMA RestTypes == TaskRest => WorkerTypes'
<1>1. NoTaskObj \in TaskObjects /\ NoTaskObj.spec \in TaskSpecs
  BY TaskObjectTypes DEF TaskObjects
<1>2. Len(NoTaskObj.spec.insts) \in Nat
  BY <1>1, SpecFacts
<1>3. ASSUME TaskRest PROVE WorkerTypes'
  <2>1. tobj' \in TaskObjects /\ at' \in 1..Len(tobj'.spec.insts) + 1
    BY <1>1, <1>2, <1>3 DEF TaskRest
  <2>2. pairs' \in [Instances -> Glimpses]
    BY <1>3, TaskObjectTypes DEF TaskRest
  <2>3. QED BY <1>3, <2>1, <2>2 DEF TaskRest, WorkerTypes
<1>4. QED BY <1>3

\* The loops step from pair to pair and on to the status.
LEMMA NextPairTypes ==
  ASSUME WorkerTypes, tpc \in {"jobs", "crons"},
         NEW act \in SUBSET Instances, NEW ag \in BOOLEAN, NextPair(act, ag)
  PROVE  WorkerTypes'
<1>1. tobj.spec \in TaskSpecs /\ Len(tobj.spec.insts) \in Nat
  BY SpecFacts DEF WorkerTypes, TaskObjects
<1>2. at \in Nat /\ at + 1 \in 1..Len(tobj.spec.insts) + 1
  BY <1>1 DEF WorkerTypes, NextPair
<1>3. QED BY <1>1, <1>2, TaskObjectTypes DEF WorkerTypes, NextPair

AllTypes == LifecycleTypeOK /\ ServerTypes /\ QueueTypes /\ WorkerTypes /\ Bounds

LEMMA InstancesStayTypes ==
  LifecycleTypeOK /\ UNCHANGED lifecycleVars => LifecycleTypeOK'
  BY DEF LifecycleTypeOK, lifecycleVars

\* What the task controller writes to an instance.
LEMMA OverrideWriteTypes ==
  ASSUME LifecycleTypeOK, tkey \in Tasks, NEW i \in Instances
  PROVE  /\ WriteInstance(i, SetOverride(inst[i])) => LifecycleTypeOK'
         /\ WriteInstance(i, ClearOverride(inst[i])) => LifecycleTypeOK'
<1>1. inst[i] \in States /\ tkey \in Actors /\ NoUntil \in Nat
  BY TaskAssumption DEF LifecycleTypeOK, NoUntil
<1>2. /\ MergeOverride(inst[i].suspended, tkey, NoUntil) \in Overrides
      /\ MergeOverride(inst[i].woken, tkey, NoUntil) \in Overrides
  BY <1>1, OverrideTypes DEF States
<1>3. SetOverride(inst[i]) \in States /\ ClearOverride(inst[i]) \in States
  BY <1>1, <1>2, OverrideTypes DEF SetOverride, ClearOverride, States
<1>4. \A o \in States : WriteInstance(i, o) => LifecycleTypeOK'
  BY DEF WriteInstance, LifecycleTypeOK
<1>5. QED BY <1>3, <1>4

\* A call that is refused, or fails, ends the pass.
LEMMA RefusedTypes == AllTypes /\ tpc # "idle" /\ Refused => AllTypes'
<1> SUFFICES ASSUME AllTypes, tpc # "idle", Refused PROVE AllTypes'
  OBVIOUS
<1>1. tkey \in Tasks
  BY DEF AllTypes, WorkerTypes
<1>2. LifecycleTypeOK'
  BY InstancesStayTypes DEF AllTypes, Refused, InstancesStay
<1>3. ServerTypes'
  BY TaskWriteTypes DEF AllTypes, Refused
<1>4. QueueTypes' /\ Bounds'
  BY <1>1 DEF AllTypes, Refused, DoneWithError, InstancesStay, CachesStay, QueueTypes, Bounds
<1>5. WorkerTypes'
  BY RestTypes DEF Refused, DoneWithError
<1>6. QED BY <1>2, <1>3, <1>4, <1>5 DEF AllTypes

\* The next pair, once what has been written is well formed.
LEMMA NextPairAllTypes ==
  ASSUME AllTypes, tpc \in {"jobs", "crons"}, LifecycleTypeOK', ServerTypes', edits' = edits,
         NEW act \in SUBSET Instances, NEW ag \in BOOLEAN, NextPair(act, ag)
  PROVE  AllTypes'
<1>1. QueueTypes' /\ Bounds'
  BY DEF AllTypes, NextPair, CachesStay, QueueTypes, Bounds
<1>2. QED BY <1>1, NextPairTypes DEF AllTypes

\* The pair the loop is at.
LEMMA HereTypes ==
  ASSUME WorkerTypes, tpc \in {"jobs", "crons"}, at <= Len(tobj.spec.insts)
  PROVE  /\ tkey \in Tasks /\ Here \in Instances /\ Pair \in Pairs
         /\ tobj \in TaskObjects /\ tobj.spec \in TaskSpecs
<1>1. tobj \in TaskObjects /\ tobj.spec \in TaskSpecs /\ tkey \in Tasks
  BY DEF WorkerTypes, TaskObjects
<1>2. at \in 1..Len(tobj.spec.insts)
  BY <1>1, SpecFacts DEF WorkerTypes
<1>3. QED BY <1>1, <1>2, SpecFacts DEF Here, Pair, Pairs

LEMMA JobsTypes ==
  ASSUME AllTypes, Reserve \/ AwaitPhase \/ CreateJob \/ JobUnderWay \/ Release
  PROVE  AllTypes'
<1>1. /\ tpc = "jobs" /\ at <= Len(tobj.spec.insts)
  BY DEF Reserve, AwaitPhase, CreateJob, JobUnderWay, Release, AtPair
<1>2. /\ tkey \in Tasks /\ Here \in Instances /\ Pair \in Pairs /\ tobj \in TaskObjects
      /\ active \in SUBSET Instances /\ active \cup {Here} \in SUBSET Instances
      /\ again \in BOOLEAN
  BY <1>1, HereTypes DEF AllTypes, WorkerTypes
<1>3. ASSUME Refused PROVE AllTypes'
  BY <1>1, <1>3, RefusedTypes
<1>4. ASSUME NEW act \in SUBSET Instances, NEW ag \in BOOLEAN, NextPair(act, ag),
             NoChildWrite, InstancesStay
      PROVE  AllTypes'
  <2>1. LifecycleTypeOK' /\ ServerTypes' /\ edits' = edits
    BY <1>4, InstancesStayTypes, TaskWriteTypes DEF AllTypes, InstancesStay
  <2>2. QED BY <1>1, <1>4, <2>1, NextPairAllTypes
<1>5. ASSUME NEW ag \in BOOLEAN, NextPair(active, ag),
             \/ WriteInstance(Here, SetOverride(inst[Here]))
             \/ WriteInstance(Here, ClearOverride(inst[Here]))
      PROVE  AllTypes'
  <2>1. NoChildWrite /\ edits' = edits
    BY <1>5 DEF WriteInstance
  <2>2. LifecycleTypeOK' /\ ServerTypes'
    BY <1>2, <1>5, <2>1, OverrideWriteTypes, TaskWriteTypes DEF AllTypes
  <2>3. QED BY <1>1, <1>2, <1>5, <2>1, <2>2, NextPairAllTypes
<1>6. CASE Reserve
  BY <1>3, <1>5, <1>6 DEF Reserve
<1>7. CASE AwaitPhase
  BY <1>2, <1>4, <1>7 DEF AwaitPhase
<1>8. CASE CreateJob
  <2>1. [st |-> "active", owner |-> tobj.uid] \in JobObjects
    BY <1>2 DEF JobObjects, TaskObjects
  <2>2. ASSUME WriteJob(Pair, [st |-> "active", owner |-> tobj.uid]),
               NextPair(active \cup {Here}, again), InstancesStay
        PROVE  AllTypes'
    <3>1. LifecycleTypeOK' /\ ServerTypes' /\ edits' = edits
      BY <1>2, <2>1, <2>2, InstancesStayTypes, TaskWriteTypes DEF AllTypes, InstancesStay
    <3>2. QED BY <1>1, <1>2, <2>2, <3>1, NextPairAllTypes
  <2>3. QED BY <1>3, <1>8, <2>2 DEF CreateJob
<1>9. CASE JobUnderWay
  BY <1>2, <1>4, <1>9 DEF JobUnderWay
<1>10. CASE Release
  BY <1>2, <1>3, <1>4, <1>5, <1>10 DEF Release
<1>11. QED BY <1>6, <1>7, <1>8, <1>9, <1>10

LEMMA CronTypes == AllTypes /\ SyncCron => AllTypes'
<1> SUFFICES ASSUME AllTypes, SyncCron PROVE AllTypes'
  OBVIOUS
<1>1. tpc = "crons" /\ at <= Len(tobj.spec.insts)
  BY DEF SyncCron, AtPair
<1>2. /\ Pair \in Pairs /\ tobj \in TaskObjects /\ tobj.spec \in TaskSpecs
      /\ active \in SUBSET Instances /\ again \in BOOLEAN /\ cron[Pair] \in CronObjects
  BY <1>1, HereTypes DEF AllTypes, WorkerTypes, ServerTypes
<1>3. CASE Refused
  BY <1>1, <1>3, RefusedTypes
<1>4. ASSUME NEW c \in CronObjects, WriteCron(Pair, c), NextPair(active, again), InstancesStay
      PROVE  AllTypes'
  <2>1. LifecycleTypeOK' /\ ServerTypes' /\ edits' = edits
    BY <1>2, <1>4, InstancesStayTypes, TaskWriteTypes DEF AllTypes, InstancesStay
  <2>2. QED BY <1>1, <1>2, <1>4, <2>1, NextPairAllTypes
<1>5. [rev |-> tobj.spec.rev, owner |-> tobj.uid] \in CronObjects
  BY <1>2, SpecFacts DEF CronObjects, TaskObjects
<1>6. ASSUME cron[Pair] # NoCron
      PROVE  [cron[Pair] EXCEPT !.rev = tobj.spec.rev] \in CronObjects
  BY <1>2, <1>6, SpecFacts DEF CronObjects
<1>7. CASE cron[Pair] = NoCron
  BY <1>3, <1>4, <1>5, <1>7 DEF SyncCron
<1>8. CASE cron[Pair] # NoCron
  BY <1>2, <1>3, <1>4, <1>6, <1>8 DEF SyncCron
<1>9. QED BY <1>7, <1>8

\* The parts of a pass before and after the loops.
LEMMA FinalizerTypes ==
  AllTypes /\ (RemoveTaskFinalizer \/ AddTaskFinalizer \/ ResolveInstances) => AllTypes'
<1> SUFFICES ASSUME AllTypes, RemoveTaskFinalizer \/ AddTaskFinalizer \/ ResolveInstances
             PROVE  AllTypes'
  OBVIOUS
<1>1. tpc \in {"unfinalize", "finalize", "resolve"}
  BY DEF RemoveTaskFinalizer, AddTaskFinalizer, ResolveInstances
<1>2. /\ tkey \in Tasks /\ tobj \in TaskObjects /\ tobj.spec \in TaskSpecs /\ tobj.uid \in Nat
      /\ at = 1 /\ active = {} /\ ~again
  BY <1>1 DEF AllTypes, WorkerTypes, TaskObjects
<1>3. CASE Refused
  BY <1>1, <1>3, RefusedTypes
<1>4. InstancesStay => LifecycleTypeOK' /\ edits' = edits
  BY InstancesStayTypes DEF AllTypes, InstancesStay
<1>5. CASE RemoveTaskFinalizer /\ ~Refused
  <2>1. WriteTask(tkey, NoTaskObject(tobj.uid, tobj.spec)) /\ Done /\ InstancesStay
    BY <1>5 DEF RemoveTaskFinalizer
  <2>2. ServerTypes'
    BY <1>2, <2>1, TaskObjectTypes, TaskWriteTypes DEF AllTypes
  <2>3. QueueTypes' /\ Bounds'
    BY <1>4, <2>1 DEF AllTypes, Done, CachesStay, QueueTypes, Bounds
  <2>4. QED BY <1>4, <2>1, <2>2, <2>3, RestTypes DEF AllTypes, Done
<1>6. CASE AddTaskFinalizer /\ ~Refused
  <2> DEFINE o == [tobj EXCEPT !.finalizer = TRUE]
  <2>1. WriteTask(tkey, o) /\ GoOn("resolve", o) /\ InstancesStay
    BY <1>6 DEF AddTaskFinalizer
  <2>2. o \in TaskObjects /\ o.spec = tobj.spec
    BY <1>2 DEF TaskObjects
  <2>3. ServerTypes'
    BY <1>2, <2>1, <2>2, TaskWriteTypes DEF AllTypes
  <2>4. QueueTypes' /\ Bounds'
    BY <1>4, <2>1 DEF AllTypes, GoOn, CachesStay, QueueTypes, Bounds
  <2>5. WorkerTypes'
    BY <1>1, <1>2, <2>1, <2>2 DEF AllTypes, GoOn, WorkerTypes
  <2>6. QED BY <1>4, <2>1, <2>3, <2>4, <2>5 DEF AllTypes
<1>7. CASE ResolveInstances /\ ~Refused
  <2>1. pairs' = [i \in Instances |-> Glimpse(tobj.spec.mode, icache[i])]
    BY <1>7 DEF ResolveInstances
  <2>2. \A m \in Modes, i \in Instances : Glimpse(m, icache[i]) \in Glimpses
    <3>1. ASSUME NEW m \in Modes, NEW i \in Instances
          PROVE  Glimpse(m, icache[i]) \in Glimpses
      <4>1. icache[i] \in States /\ icache[i].suspended \in Overrides
            /\ icache[i].woken \in Overrides
        BY DEF AllTypes, LifecycleTypeOK, States
      <4>2. \A o \in Overrides : o.set \in BOOLEAN
        <5>1. ASSUME NEW o \in Overrides PROVE o.set \in BOOLEAN
          <6>1. CASE o = Cleared
            BY <6>1 DEF Cleared
          <6>2. CASE o # Cleared
            BY <6>2 DEF Overrides
          <6>3. QED BY <6>1, <6>2
        <5>2. QED BY <5>1
      <4>3. QED BY <4>1, <4>2 DEF Glimpse, Glimpses, Modes
    <3>2. QED BY <3>1
  <2>3. pairs' \in [Instances -> Glimpses]
    BY <1>2, <2>1, <2>2, SpecFacts
  <2>4. QueueTypes' /\ Bounds' /\ ServerTypes' /\ LifecycleTypeOK'
    BY <1>4, <1>7, TaskWriteTypes
    DEF AllTypes, ResolveInstances, CachesStay, QueueTypes, Bounds
  <2>5. WorkerTypes'
    BY <1>1, <1>2, <1>7, <2>3 DEF AllTypes, ResolveInstances, WorkerTypes
  <2>6. QED BY <2>4, <2>5 DEF AllTypes
<1>8. QED BY <1>3, <1>5, <1>6, <1>7

LEMMA ReportTypes == AllTypes /\ ReportTask => AllTypes'
<1> SUFFICES ASSUME AllTypes, ReportTask PROVE AllTypes'
  OBVIOUS
<1>1. tpc = "report" /\ tkey \in Tasks
  BY DEF ReportTask, AllTypes, WorkerTypes
<1>2. CASE Refused
  BY <1>1, <1>2, RefusedTypes
<1>3. CASE ~Refused
  <2>1. PICK d \in 0..runs[tkey].done, f \in {FALSE, runs[tkey].failed}, r \in BOOLEAN :
          WriteTask(tkey, TaskStatusDiff(task[tkey], Verdict(d, f), r))
    BY <1>3 DEF ReportTask
  <2>2. task[tkey] \in TaskObjects
    BY <1>1 DEF AllTypes, ServerTypes
  <2>3. Verdict(d, f) \in Statuses
    BY DEF Verdict, Statuses, AllTypes, WorkerTypes
  <2>4. TaskStatusDiff(task[tkey], Verdict(d, f), r) \in TaskObjects
    BY <2>2, <2>3 DEF TaskStatusDiff, TaskObjects, Statuses
  <2>5. ServerTypes'
    BY <1>1, <2>1, <2>4, TaskWriteTypes DEF AllTypes
  <2>6. LifecycleTypeOK'
    BY <1>3, InstancesStayTypes DEF AllTypes, ReportTask, InstancesStay
  <2>7. QueueTypes' /\ Bounds'
    BY <1>1, <1>3
    DEF AllTypes, ReportTask, InstancesStay, CachesStay, QueueTypes, Bounds
  <2>8. QED BY <1>3, <2>5, <2>6, <2>7, RestTypes DEF AllTypes, ReportTask
<1>4. QED BY <1>2, <1>3

\* A step of the worker.
LEMMA WorkerTypesStep == AllTypes /\ TaskStep => AllTypes'
  BY JobsTypes, CronTypes, FinalizerTypes, ReportTypes DEF TaskStep

\* The worker takes a task, and a pass is cut short.
LEMMA BeginAbortTypes ==
  ASSUME AllTypes, (\E t \in Tasks : TaskBegin(t)) \/ TaskAbort
  PROVE  AllTypes'
<1>1. CASE TaskAbort
  <2>1. tkey \in Tasks
    BY <1>1 DEF TaskAbort, AllTypes, WorkerTypes
  <2>2. LifecycleTypeOK' /\ ServerTypes' /\ WorkerTypes'
    BY <1>1, InstancesStayTypes, TaskWriteTypes, RestTypes
    DEF AllTypes, TaskAbort, InstancesStay
  <2>3. faults' \in 0..MaxFaults
    BY <1>1, TaskAssumption DEF TaskAbort, AllTypes, Bounds
  <2>4. QueueTypes' /\ Bounds'
    BY <1>1, <2>1, <2>3
    DEF AllTypes, TaskAbort, CachesStay, InstancesStay, QueueTypes, Bounds
  <2>5. QED BY <2>2, <2>4 DEF AllTypes
<1>2. ASSUME NEW t \in Tasks, TaskBegin(t) PROVE AllTypes'
  <2>1. LifecycleTypeOK' /\ ServerTypes'
    BY <1>2, InstancesStayTypes, TaskWriteTypes DEF AllTypes, TaskBegin, InstancesStay
  <2>2. QueueTypes' /\ Bounds'
    BY <1>2 DEF AllTypes, TaskBegin, CachesStay, InstancesStay, QueueTypes, Bounds
  <2>3. tcache[t] \in TaskObjects /\ tcache[t].spec \in TaskSpecs
    BY DEF AllTypes, QueueTypes, TaskObjects
  <2>4. Len(tcache[t].spec.insts) \in Nat
    BY <2>3, SpecFacts
  <2>5. /\ at = 1 /\ active = {} /\ ~again /\ tkey = NoTask /\ tpc = "idle"
        /\ UNCHANGED <<at, active, again, pairs>>
    BY <1>2 DEF TaskBegin, AllTypes, WorkerTypes
  <2>6. CASE tcache[t].exists
    <3>1. /\ tpc' \in {"unfinalize", "finalize", "resolve"}
          /\ tkey' = t /\ tobj' = tcache[t]
      BY <1>2, <2>6 DEF TaskBegin
    <3>2. WorkerTypes'
      BY <2>3, <2>4, <2>5, <3>1, TaskAssumption DEF AllTypes, WorkerTypes
    <3>3. QED BY <2>1, <2>2, <3>2 DEF AllTypes
  <2>7. CASE ~tcache[t].exists
    <3>1. WorkerTypes'
      BY <1>2, <2>5, <2>7 DEF TaskBegin, AllTypes, WorkerTypes
    <3>2. QED BY <2>1, <2>2, <3>1 DEF AllTypes
  <2>8. QED BY <2>6, <2>7
<1>3. QED BY <1>1, <1>2

\* Deliveries, timers and resyncs.
LEMMA MachineryTypes ==
  ASSUME AllTypes,
         \/ \E t \in Tasks : DeliverTask(t) \/ ComeBack(t) \/ TaskResync(t)
         \/ \E p \in Pairs : DeliverJob(p) \/ DeliverCron(p)
  PROVE  AllTypes'
<1> DEFINE delivered ==
             /\ MachineryKeeps /\ QueueTypes'
             /\ tseen' \subseteq Tasks /\ jseen' \subseteq Pairs /\ cseen' \subseteq Pairs
<1>1. delivered
  <2>1. ASSUME NEW t \in Tasks, DeliverTask(t) \/ ComeBack(t) \/ TaskResync(t)
        PROVE  delivered
    BY <2>1
    DEF DeliverTask, ComeBack, TaskResync, AllTypes, QueueTypes, ServerTypes
  <2>2. ASSUME NEW p \in Pairs, DeliverJob(p) \/ DeliverCron(p)
        PROVE  delivered
    <3>1. p[1] \in Tasks
      BY DEF Pairs
    <3>2. QED
      BY <2>2, <3>1 DEF DeliverJob, DeliverCron, AllTypes, QueueTypes, ServerTypes
  <2>3. QED BY <2>1, <2>2
<1>2. LifecycleTypeOK' /\ ServerTypes' /\ Bounds'
  BY <1>1, InstancesStayTypes
  DEF MachineryKeeps, InstancesStay, AllTypes, ServerTypes, Bounds
<1>3. WorkerTypes'
  BY <1>1 DEF MachineryKeeps, AllTypes, WorkerTypes
<1>4. QED BY <1>1, <1>2, <1>3 DEF AllTypes

\* Users, Jobs and garbage collection.
LEMMA OthersTypes ==
  ASSUME AllTypes,
         \/ \E t \in Tasks : CreateTask(t) \/ EditTask(t) \/ DeleteTask(t) \/ Fire(t)
         \/ \E p \in Pairs : RemoveJob(p) \/ JobFinishes(p) \/ CollectJob(p) \/ CollectCron(p)
  PROVE  AllTypes'
<1>1. ASSUME ServerTypes', OthersKeep, edits' \in 0..MaxEdits PROVE AllTypes'
  <2>1. LifecycleTypeOK'
    BY <1>1, InstancesStayTypes DEF AllTypes, OthersKeep
  <2>2. QueueTypes' /\ WorkerTypes' /\ Bounds'
    BY <1>1 DEF AllTypes, OthersKeep, QueueTypes, WorkerTypes, Bounds
  <2>3. QED BY <1>1, <2>1, <2>2 DEF AllTypes
<1>2. ASSUME NEW k, MayDisturb(k) PROVE edits' \in 0..MaxEdits
  BY <1>2, TaskAssumption DEF MayDisturb, AllTypes, Bounds
<1>3. UNCHANGED edits => edits' \in 0..MaxEdits
  BY DEF AllTypes, Bounds
<1>4. ASSUME NEW t \in Tasks, NEW k, NEW o \in TaskObjects, UserTaskWrite(k, t, o)
      PROVE  AllTypes'
  BY <1>1, <1>2, <1>4, TaskWriteTypes DEF UserTaskWrite, AllTypes
<1>5. ASSUME NEW p \in Pairs, NEW j \in JobObjects, WriteJob(p, j), OthersKeep,
             edits' \in 0..MaxEdits
      PROVE  AllTypes'
  BY <1>1, <1>5, TaskWriteTypes DEF AllTypes
<1>6. NoJob \in JobObjects /\ NoCron \in CronObjects
  BY DEF JobObjects, CronObjects
<1>7. ASSUME NEW t \in Tasks, CreateTask(t) \/ EditTask(t) \/ DeleteTask(t)
      PROVE  AllTypes'
  <2>1. task[t] \in TaskObjects /\ task[t].uid \in Nat /\ task[t].spec \in TaskSpecs
    BY DEF AllTypes, ServerTypes, TaskObjects
  <2>2. CASE CreateTask(t)
    <3>1. PICK s \in TaskSpecs : UserTaskWrite("task", t, NewTask(task[t].uid + 1, s))
      BY <2>2 DEF CreateTask
    <3>2. task[t].uid + 1 \in Nat
      BY <2>1
    <3>3. NewTask(task[t].uid + 1, s) \in TaskObjects
      BY <3>2, TaskObjectTypes
    <3>4. QED BY <1>4, <3>1, <3>3
  <2>3. CASE EditTask(t)
    <3>1. PICK s \in TaskSpecs : UserTaskWrite("retask", t, [task[t] EXCEPT !.spec = s])
      BY <2>3 DEF EditTask
    <3>2. [task[t] EXCEPT !.spec = s] \in TaskObjects
      BY <2>1 DEF TaskObjects
    <3>3. QED BY <1>4, <3>1, <3>2
  <2>4. CASE DeleteTask(t)
    <3>1. [task[t] EXCEPT !.deleting = TRUE] \in TaskObjects
      BY <2>1 DEF TaskObjects
    <3>2. NoTaskObject(task[t].uid, task[t].spec) \in TaskObjects
      BY <2>1, TaskObjectTypes
    <3>3. QED BY <1>4, <2>4, <3>1, <3>2 DEF DeleteTask
  <2>5. QED BY <1>7, <2>2, <2>3, <2>4
<1>8. ASSUME NEW t \in Tasks, Fire(t) PROVE AllTypes'
  <2>1. runs[t] \in Runs
    BY DEF AllTypes, ServerTypes
  <2>2. /\ [runs[t] EXCEPT !.done = runs[t].done + 1] \in Runs
        /\ [runs[t] EXCEPT !.failed = TRUE] \in Runs
    <3>1. \A r \in Runs : [r EXCEPT !.done = r.done + 1] \in Runs
      BY DEF Runs
    <3>2. \A r \in Runs : [r EXCEPT !.failed = TRUE] \in Runs
      BY DEF Runs
    <3>3. QED BY <2>1, <3>1, <3>2
  <2>3. runs' \in [Tasks -> Runs]
    BY <1>8, <2>2 DEF Fire, AllTypes, ServerTypes
  <2>4. ServerTypes'
    BY <1>8, <2>3 DEF Fire, AllTypes, ServerTypes
  <2>5. QED BY <1>1, <1>2, <1>8, <2>4 DEF Fire
<1>9. ASSUME NEW p \in Pairs, RemoveJob(p) \/ JobFinishes(p) \/ CollectJob(p)
      PROVE  AllTypes'
  <2>1. CASE RemoveJob(p)
    BY <1>2, <1>5, <1>6, <2>1 DEF RemoveJob
  <2>2. CASE JobFinishes(p)
    <3>1. PICK st \in {"complete", "failed"} : WriteJob(p, [job[p] EXCEPT !.st = st])
      BY <2>2 DEF JobFinishes
    <3>2. job[p] \in JobObjects /\ job[p].st = "active"
      BY <2>2 DEF JobFinishes, AllTypes, ServerTypes
    <3>3. [job[p] EXCEPT !.st = st] \in JobObjects
      BY <3>2 DEF JobObjects, NoJob
    <3>4. QED BY <1>3, <1>5, <2>2, <3>1, <3>3 DEF JobFinishes
  <2>3. CASE CollectJob(p)
    BY <1>3, <1>5, <1>6, <2>3 DEF CollectJob
  <2>4. QED BY <1>9, <2>1, <2>2, <2>3
<1>10. ASSUME NEW p \in Pairs, CollectCron(p) PROVE AllTypes'
  <2>1. ServerTypes'
    BY <1>6, <1>10, TaskWriteTypes DEF CollectCron, AllTypes
  <2>2. QED BY <1>1, <1>3, <1>10, <2>1 DEF CollectCron
<1>11. QED BY <1>7, <1>8, <1>9, <1>10

\* Users edit an instance: they write spec.suspend or an override, and nothing else.
LEMMA ByHandEdits ==
  ASSUME LifecycleTypeOK, NEW i \in Instances, ByHand(i)
  PROVE  /\ Edited(i)
         /\ \E k : MayDisturb(k)
         /\ UNCHANGED faults /\ UNCHANGED taskVars
<1> DEFINE edited == /\ Edited(i)
                     /\ \E k : MayDisturb(k)
                     /\ UNCHANGED faults /\ UNCHANGED taskVars
<1>1. inst[i] \in States /\ inst \in [Instances -> States]
  BY DEF LifecycleTypeOK
<1>2. ASSUME NEW k, NEW o \in States, o.exists = inst[i].exists, o.phase = inst[i].phase,
             UserWrites(k, i, o)
      PROVE  edited
  <2>1. inst'[i] = o
    BY <1>1, <1>2 DEF UserWrites, InstanceBecomes
  <2>2. QED BY <1>2, <2>1 DEF UserWrites, Edited
<1>3. ASSUME NEW k, NEW o \in Overrides,
             \/ UserWrites(k, i, [inst[i] EXCEPT !.suspended = o])
             \/ UserWrites(k, i, [inst[i] EXCEPT !.woken = o])
      PROVE  edited
  <2>1. /\ [inst[i] EXCEPT !.suspended = o] \in States
        /\ [inst[i] EXCEPT !.woken = o] \in States
    BY <1>1 DEF States
  <2>2. /\ [inst[i] EXCEPT !.suspended = o].exists = inst[i].exists
        /\ [inst[i] EXCEPT !.suspended = o].phase = inst[i].phase
        /\ [inst[i] EXCEPT !.woken = o].exists = inst[i].exists
        /\ [inst[i] EXCEPT !.woken = o].phase = inst[i].phase
    BY <1>1 DEF States
  <2>3. QED BY <1>2, <1>3, <2>1, <2>2
<1>4. NoUntil \in Nat /\ Deadlines \subseteq Nat
  BY ClockAssumption DEF LifecycleTypeOK, Deadlines, NoUntil
<1>5. /\ Cleared \in Overrides
      /\ \A u \in Nat : /\ MergeOverride(inst[i].suspended, CLI, u) \in Overrides
                        /\ MergeOverride(inst[i].woken, CLI, u) \in Overrides
  BY <1>1, OverrideTypes, CLIAssumption DEF States
<1>6. CASE CLISuspend(i) \/ CLIResume(i)
  BY <1>3, <1>4, <1>5, <1>6 DEF CLISuspend, CLIResume
<1>7. CASE ManualWake(i) \/ ManualClear(i)
  BY <1>3, <1>4, <1>5, <1>7 DEF ManualWake, ManualClear
<1>8. CASE EditSuspend(i)
  <2>1. [inst[i] EXCEPT !.suspend = ~inst[i].suspend] \in States
    BY <1>1 DEF States
  <2>2. /\ [inst[i] EXCEPT !.suspend = ~inst[i].suspend].exists = inst[i].exists
        /\ [inst[i] EXCEPT !.suspend = ~inst[i].suspend].phase = inst[i].phase
    BY <1>1 DEF States
  <2>3. QED BY <1>2, <1>8, <2>1, <2>2 DEF EditSuspend
<1>9. QED BY <1>6, <1>7, <1>8 DEF ByHand

\* The instance controller, the cluster, users, the clock and a restart.
LEMMA InstanceSideTypes ==
  ASSUME AllTypes,
         \/ Restart \/ TimePasses
         \/ \E i \in Instances :
              \/ InstanceSide(i) \/ InstanceFault(i) \/ PodTrouble(i)
              \/ InstanceComesOrGoes(i) \/ ByHand(i)
  PROVE  AllTypes'
<1>1. ASSUME UNCHANGED taskVars PROVE ServerTypes' /\ QueueTypes' /\ WorkerTypes'
  BY <1>1 DEF AllTypes, taskVars, ServerTypes, QueueTypes, WorkerTypes
<1>2. ASSUME NEW k, MayDisturb(k), UNCHANGED faults PROVE Bounds'
  BY <1>2, TaskAssumption DEF MayDisturb, AllTypes, Bounds
<1>3. ASSUME NEW i \in Instances, InstanceSide(i) PROVE AllTypes'
  <2>1. LifecycleTypeOK'
    BY <1>3, ControllerTypes, PodTypes DEF InstanceSide, AllTypes
  <2>2. QED BY <1>1, <1>3, <2>1 DEF InstanceSide, AllTypes, Bounds
<1>4. ASSUME faults < MaxFaults, faults' = faults + 1, UNCHANGED edits PROVE Bounds'
  BY <1>4, TaskAssumption DEF AllTypes, Bounds
<1>5. ASSUME NEW i \in Instances, InstanceFault(i) PROVE AllTypes'
  <2>1. LifecycleTypeOK'
    BY <1>5, ControllerTypes DEF InstanceFault, AllTypes
  <2>2. QED BY <1>1, <1>4, <1>5, <2>1 DEF InstanceFault, AllTypes
<1>6. ASSUME NEW i \in Instances, PodTrouble(i) PROVE AllTypes'
  <2>1. LifecycleTypeOK'
    BY <1>6, PodTypes DEF PodTrouble, AllTypes
  <2>2. QED BY <1>1, <1>2, <1>6, <2>1 DEF PodTrouble, AllTypes
<1>7. ASSUME NEW i \in Instances, InstanceComesOrGoes(i) PROVE AllTypes'
  <2>1. LifecycleTypeOK'
    BY <1>7, EnvironmentTypes DEF InstanceComesOrGoes, Environment, AllTypes
  <2>2. QED BY <1>1, <1>2, <1>7, <2>1 DEF InstanceComesOrGoes, AllTypes
<1>8. ASSUME NEW i \in Instances, ByHand(i) PROVE AllTypes'
  <2>1. /\ Edited(i)
        /\ \E k : MayDisturb(k)
        /\ UNCHANGED faults /\ UNCHANGED taskVars
    BY <1>8, ByHandEdits DEF AllTypes
  <2>2. LifecycleTypeOK'
    BY <2>1, EnvironmentTypes DEF Environment, AllTypes
  <2>3. QED BY <1>1, <1>2, <2>1, <2>2 DEF AllTypes
<1>9. ASSUME TimePasses PROVE AllTypes'
  <2>1. LifecycleTypeOK' /\ Bounds'
    BY <1>9 DEF TimePasses, ClockTicks, AllTypes, LifecycleTypeOK, Bounds
  <2>2. QED BY <1>1, <1>9, <2>1 DEF TimePasses, AllTypes
<1>10. ASSUME Restart PROVE AllTypes'
  <2>1. LifecycleTypeOK' /\ Bounds'
    BY <1>4, <1>10, RebootTypes DEF Restart, AllTypes
  <2>2. ServerTypes' /\ QueueTypes'
    BY <1>10 DEF Restart, TaskRestart, AllTypes, ServerTypes, QueueTypes
  <2>3. QED BY <1>10, <2>1, <2>2, RestTypes DEF Restart, TaskRestart, AllTypes
<1>11. QED BY <1>3, <1>5, <1>6, <1>7, <1>8, <1>9, <1>10

LEMMA InitTypes == Init => AllTypes
<1> SUFFICES ASSUME Init PROVE AllTypes
  OBVIOUS
<1>1. LifecycleTypeOK
  BY LifecycleInitTypes DEF Init
<1>2. AnySpec \in TaskSpecs
  BY TaskAssumption DEF AnySpec
<1>3. ServerTypes
  <2>1. {NoTaskObject(0, AnySpec)} \cup {NewTask(1, s) : s \in TaskSpecs} \subseteq TaskObjects
    BY <1>2, TaskObjectTypes
  <2>2. task \in [Tasks -> TaskObjects]
    BY <2>1 DEF Init, TaskInit
  <2>3. NoJob \in JobObjects /\ NoCron \in CronObjects /\ NoRuns \in Runs
    BY DEF JobObjects, CronObjects, NoRuns, Runs
  <2>4. QED BY <2>2, <2>3 DEF Init, TaskInit, ServerTypes
<1>4. QueueTypes
  BY <1>3 DEF Init, TaskInit, ServerTypes, QueueTypes
<1>5. WorkerTypes
  <2>1. NoTaskObj \in TaskObjects /\ Len(NoTaskObj.spec.insts) \in Nat
    BY TaskObjectTypes, SpecFacts DEF TaskObjects
  <2>2. tobj \in TaskObjects /\ at \in 1..Len(tobj.spec.insts) + 1
    BY <2>1 DEF Init, TaskInit
  <2>3. pairs \in [Instances -> Glimpses]
    BY TaskObjectTypes DEF Init, TaskInit
  <2>4. QED BY <2>2, <2>3 DEF Init, TaskInit, WorkerTypes
<1>6. Bounds
  BY TaskAssumption DEF Init, Bounds
<1>7. QED BY <1>1, <1>3, <1>4, <1>5, <1>6 DEF AllTypes

LEMMA AllTypesStep == AllTypes /\ [Next]_vars => AllTypes'
<1>1. AllTypes /\ Next => AllTypes'
  BY WorkerTypesStep, BeginAbortTypes, MachineryTypes, OthersTypes, InstanceSideTypes
  DEF Next, TaskRunning
<1>2. AllTypes /\ UNCHANGED vars => AllTypes'
  <2> SUFFICES ASSUME AllTypes, UNCHANGED vars PROVE AllTypes'
    OBVIOUS
  <2>1. LifecycleTypeOK' /\ ServerTypes'
    BY InstancesStayTypes DEF AllTypes, vars, lifecycleVars, ServerTypes
  <2>2. QueueTypes' /\ WorkerTypes' /\ Bounds'
    BY DEF AllTypes, vars, QueueTypes, WorkerTypes, Bounds
  <2>3. QED BY <2>1, <2>2 DEF AllTypes
<1>3. QED BY <1>1, <1>2

\* Both controllers, the cluster and the users keep every variable well formed; in
\* particular the worker's position in a loop stays within the spec it works on,
\* also when that spec is edited under its hands.
THEOREM OperatorTypes == Spec => []TypeOK
<1>1. AllTypes => TypeOK
  BY TypeParts DEF AllTypes
<1>2. QED BY <1>1, InitTypes, AllTypesStep, PTL DEF Spec

-----------------------------------------------------------------------------
(* The composition: to an instance, a task is one more author of overrides. *)

\* The overrides that tasks write are well-formed, and they write nothing else.
LEMMA PatchesAreEdits ==
  ASSUME LifecycleTypeOK, NEW i \in Instances, inst[i].exists,
         NEW o \in Overrides,
         \/ inst' = [inst EXCEPT ![i].suspended = o]
         \/ inst' = [inst EXCEPT ![i].woken = o],
         UNCHANGED <<clock, pod, icache, pcache, place, copy, goal>>
  PROVE  Edited(i)
<1>1. inst[i] \in States /\ inst \in [Instances -> States]
  BY DEF LifecycleTypeOK
<1>2. /\ [inst[i] EXCEPT !.suspended = o] \in States /\ [inst[i] EXCEPT !.woken = o] \in States
      /\ [inst[i] EXCEPT !.suspended = o].exists /\ [inst[i] EXCEPT !.woken = o].exists
      /\ [inst[i] EXCEPT !.suspended = o].phase = inst[i].phase
      /\ [inst[i] EXCEPT !.woken = o].phase = inst[i].phase
  BY <1>1 DEF States
<1>3. /\ inst' = [inst EXCEPT ![i] = inst'[i]]
      /\ \/ inst'[i] = [inst[i] EXCEPT !.suspended = o]
         \/ inst'[i] = [inst[i] EXCEPT !.woken = o]
  BY <1>1
<1>4. InstanceBecomes(i, inst'[i])
  BY <1>3 DEF InstanceBecomes
<1>. QED BY <1>2, <1>3, <1>4 DEF Edited

LEMMA WorkerEdits ==
  ASSUME AllTypes, TaskStep
  PROVE  UNCHANGED lifecycleVars \/ \E i \in Instances : Edited(i)
<1>1. ASSUME AtPair("jobs"), inst[Here].exists,
             \/ WriteInstance(Here, SetOverride(inst[Here]))
             \/ WriteInstance(Here, ClearOverride(inst[Here]))
      PROVE  \E i \in Instances : Edited(i)
  <2>1. Here \in Instances /\ tkey \in Tasks
    BY <1>1, HereTypes DEF AllTypes, WorkerTypes, AtPair
  <2>2. inst[Here] \in States /\ tkey \in Actors /\ NoUntil \in Nat
    BY <2>1, TaskAssumption DEF AllTypes, LifecycleTypeOK, NoUntil
  <2>3. \E o \in Overrides :
          \/ inst' = [inst EXCEPT ![Here].suspended = o]
          \/ inst' = [inst EXCEPT ![Here].woken = o]
    <3>1. /\ MergeOverride(inst[Here].suspended, tkey, NoUntil) \in Overrides
          /\ MergeOverride(inst[Here].woken, tkey, NoUntil) \in Overrides
          /\ Cleared \in Overrides
      BY <2>2, OverrideTypes DEF States
    <3>2. inst \in [Instances -> States]
      BY DEF AllTypes, LifecycleTypeOK
    <3>. QED BY <1>1, <2>1, <3>1, <3>2 DEF WriteInstance, SetOverride, ClearOverride
  <2>4. UNCHANGED <<clock, pod, icache, pcache, place, copy, goal>>
    BY <1>1 DEF WriteInstance
  <2>5. LifecycleTypeOK
    BY DEF AllTypes
  <2>. QED BY <1>1, <2>1, <2>3, <2>4, <2>5, PatchesAreEdits
<1>2. CASE Reserve
  BY <1>1, <1>2 DEF Reserve, Refused, InstancesStay
<1>3. CASE Release
  BY <1>1, <1>3 DEF Release, Finished, AtPair, Refused, InstancesStay
<1>. QED
  BY <1>2, <1>3
  DEF TaskStep, RemoveTaskFinalizer, AddTaskFinalizer, ResolveInstances, AwaitPhase,
      CreateJob, JobUnderWay, SyncCron, ReportTask, Refused, InstancesStay

\* What the instance controller promises, it promises in the operator too: whatever
\* tasks and users do to an instance is an edit of its overrides, its creation or its
\* removal, and the task controller neither reports a phase nor touches a Pod.
THEOREM OperatorKeepsLifecycle == Spec => LifecycleSpec
<1>1. Init => LifecycleInit
  BY DEF Init
<1>2. AllTypes /\ [Next]_vars => [LifecycleNext]_lifecycleVars
  <2>. SUFFICES ASSUME AllTypes, [Next]_vars PROVE [LifecycleNext]_lifecycleVars
    OBVIOUS
  <2>1. CASE UNCHANGED vars
    BY <2>1 DEF vars, lifecycleVars
  <2>2. ASSUME TaskRunning PROVE [LifecycleNext]_lifecycleVars
    <3>1. CASE TaskStep
      BY <2>2, <3>1, WorkerEdits DEF LifecycleNext, Environment
    <3>2. CASE ~TaskStep
      BY <2>2, <3>2
      DEF TaskRunning, TaskBegin, DeliverTask, ComeBack, TaskResync, CreateTask, EditTask,
          DeleteTask, Fire, DeliverJob, DeliverCron, RemoveJob, JobFinishes, CollectJob,
          CollectCron, TaskAbort, MachineryKeeps, InstancesStay, UserTaskWrite, OthersKeep
    <3>. QED BY <3>1, <3>2
  <2>3. \A i \in Instances : ByHand(i) => Edited(i)
    BY ByHandEdits DEF AllTypes
  <2>4. ASSUME NEW i \in Instances,
               InstanceSide(i) \/ InstanceFault(i) \/ PodTrouble(i) \/ InstanceComesOrGoes(i)
        PROVE  LifecycleNext
    BY <2>4 DEF InstanceSide, InstanceFault, PodTrouble, InstanceComesOrGoes, LifecycleNext,
                Environment
  <2>5. Restart \/ TimePasses => LifecycleNext
    BY DEF Restart, TimePasses, LifecycleNext
  <2>6. \A i \in Instances : Edited(i) => LifecycleNext
    BY DEF LifecycleNext, Environment
  <2>. QED BY <2>1, <2>2, <2>3, <2>4, <2>5, <2>6 DEF Next
<1>. QED BY <1>1, <1>2, InitTypes, AllTypesStep, PTL DEF Spec, LifecycleSpec

-----------------------------------------------------------------------------
(* What is pending is not forgotten: a step that leaves a task quiet found *)
(* it quiet, and left its objects alone.                                   *)

\* Every object that changes has its event pending.
TaskWritesShow ==
  /\ \A t \in Tasks : t \in tseen' => t \in tseen /\ task'[t] = task[t]
  /\ \A p \in Pairs : p \in jseen' => p \in jseen /\ job'[p] = job[p]
  /\ \A p \in Pairs : p \in cseen' => p \in cseen /\ cron'[p] = cron[p]

LEMMA WritesShowTheTask ==
  ASSUME ServerTypes
  PROVE  /\ \A t \in Tasks : \A o : WriteTask(t, o) => TaskWritesShow /\ runs' = runs
         /\ \A p \in Pairs : \A j : WriteJob(p, j) => TaskWritesShow /\ runs' = runs
         /\ \A p \in Pairs : \A c : WriteCron(p, c) => TaskWritesShow /\ runs' = runs
         /\ NoChildWrite => TaskWritesShow /\ runs' = runs
         /\ \A i, o : WriteInstance(i, o) => TaskWritesShow /\ runs' = runs
  BY DEF ServerTypes, WriteTask, WriteJob, WriteCron, NoChildWrite, WriteInstance,
         TaskWritesShow

\* What a step of the worker does to the caches and queues.
PassKeeps ==
  /\ TaskWritesShow /\ CachesStay /\ runs' = runs
  /\ tqueue \subseteq tqueue' /\ later \subseteq later'
  /\ \/ tkey' = tkey /\ tpc' # "idle"
     \/ tkey' = NoTask /\ tpc' = "idle"

LEMMA EndingsKeep ==
  ASSUME AllTypes, tpc # "idle"
  PROVE  /\ TaskWritesShow /\ runs' = runs /\ Done => PassKeeps
         /\ Refused => PassKeeps /\ tkey \in tqueue' /\ tkey' = NoTask
         /\ \A p, o : TaskWritesShow /\ runs' = runs /\ GoOn(p, o) /\ p # "idle" => PassKeeps
         /\ \A act, ag : TaskWritesShow /\ runs' = runs /\ NextPair(act, ag) => PassKeeps
  BY WritesShowTheTask
  DEF AllTypes, Done, Refused, DoneWithError, GoOn, NextPair, TaskRest, PassKeeps

LEMMA TaskStepKeeps == AllTypes /\ TaskStep => PassKeeps
<1> SUFFICES ASSUME AllTypes, TaskStep PROVE PassKeeps
  OBVIOUS
<1>1. tpc # "idle" /\ tkey \in Tasks
  BY DEF AllTypes, WorkerTypes, TaskStep, RemoveTaskFinalizer, AddTaskFinalizer,
         ResolveInstances, Reserve, AwaitPhase, CreateJob, JobUnderWay, Release, SyncCron,
         ReportTask, AtPair
<1>2. ServerTypes
  BY DEF AllTypes
<1>3. CASE RemoveTaskFinalizer
  BY <1>1, <1>2, <1>3, WritesShowTheTask, EndingsKeep DEF RemoveTaskFinalizer
<1>4. CASE AddTaskFinalizer
  BY <1>1, <1>2, <1>4, WritesShowTheTask, EndingsKeep DEF AddTaskFinalizer
<1>5. CASE ResolveInstances
  BY <1>1, <1>2, <1>5, WritesShowTheTask, EndingsKeep DEF ResolveInstances, PassKeeps
<1>6. CASE Reserve
  BY <1>1, <1>2, <1>6, WritesShowTheTask, EndingsKeep DEF Reserve
<1>7. CASE AwaitPhase
  BY <1>1, <1>2, <1>7, WritesShowTheTask, EndingsKeep DEF AwaitPhase
<1>8. CASE CreateJob
  BY <1>1, <1>2, <1>8, HereTypes, WritesShowTheTask, EndingsKeep
  DEF CreateJob, AtPair, AllTypes
<1>9. CASE JobUnderWay
  BY <1>1, <1>2, <1>9, WritesShowTheTask, EndingsKeep DEF JobUnderWay
<1>10. CASE Release
  BY <1>1, <1>2, <1>10, WritesShowTheTask, EndingsKeep DEF Release
<1>11. CASE SyncCron
  BY <1>1, <1>2, <1>11, HereTypes, WritesShowTheTask, EndingsKeep
  DEF SyncCron, AtPair, AllTypes
<1>12. CASE ReportTask
  <2>1. CASE Refused
    BY <1>1, <2>1, EndingsKeep
  <2>2. CASE ~Refused
    BY <1>1, <1>2, <1>12, <2>2, WritesShowTheTask DEF ReportTask, TaskRest, PassKeeps
  <2>3. QED BY <2>1, <2>2
<1>13. QED
  BY <1>3, <1>4, <1>5, <1>6, <1>7, <1>8, <1>9, <1>10, <1>11, <1>12 DEF TaskStep

Same(t) ==
  /\ task'[t] = task[t]
  /\ \A i \in Instances : job'[<<t, i>>] = job[<<t, i>>] /\ cron'[<<t, i>>] = cron[<<t, i>>]

Calm == \A t \in Tasks : Quiet(t)' => Quiet(t) /\ Same(t)

RunsGrow ==
  \A t \in Tasks : runs[t].done <= runs'[t].done /\ (runs[t].failed => runs'[t].failed)

\* Unless something is delivered, quiet follows from what is written and queued.
LEMMA WritesAreCalm ==
  TaskWritesShow /\ tqueue \subseteq tqueue' /\ later \subseteq later' => Calm
<1> SUFFICES ASSUME TaskWritesShow, tqueue \subseteq tqueue', later \subseteq later',
                    NEW t \in Tasks, Quiet(t)'
             PROVE  Quiet(t) /\ Same(t)
  BY DEF Calm
<1>1. \A i \in Instances : <<t, i>> \in Pairs
  BY DEF Pairs
<1>2. /\ t \in tseen' /\ t \notin tqueue' /\ t \notin later'
      /\ \A i \in Instances : <<t, i>> \in jseen' /\ <<t, i>> \in cseen'
  BY DEF Quiet
<1>3. QED BY <1>1, <1>2 DEF TaskWritesShow, Quiet, Same

\* The caches stay fresh, whatever is written or delivered.
LEMMA FreshKept ==
  ASSUME AllTypes, TaskCachesFresh, TaskWritesShow, CachesStay, AllTypes'
  PROVE  TaskCachesFresh'
<1>1. tseen' \subseteq Tasks /\ jseen' \subseteq Pairs /\ cseen' \subseteq Pairs
  BY DEF AllTypes, ServerTypes
<1>2. QED BY <1>1 DEF TaskCachesFresh, TaskWritesShow, CachesStay

LEMMA RunsStay == AllTypes /\ runs' = runs => RunsGrow
<1>1. AllTypes => \A t \in Tasks : runs[t].done \in Nat
  BY DEF AllTypes, ServerTypes, Runs
<1>2. QED BY <1>1 DEF RunsGrow

-----------------------------------------------------------------------------
(* TaskConverged: a settled task stays as it is, and a pass that leaves    *)
(* its task settled has found it so.                                       *)

ConvergedFor(t) ==
  /\ task[t].finalizer /\ ~task[t].deleting
  /\ task[t].active = task[t].cond.active /\ BorneOut(t, task[t].cond)
  /\ \A i \in Targets(t) :
       IF task[t].spec.scheduled
       THEN cron[<<t, i>>].rev = task[t].spec.rev
       ELSE job[<<t, i>>] # NoJob

OnTrack == tpc # "idle" /\ Quiet(tkey) => TaskOnTrack

LEMMA ConvergedParts ==
  /\ TaskConverged <=>
       \A t \in Tasks : TaskSettled(t) /\ task[t].exists => ConvergedFor(t)
  /\ TaskConverged' <=>
       \A t \in Tasks : TaskSettled(t)' /\ task'[t].exists => ConvergedFor(t)'
  BY DEF TaskConverged, ConvergedFor

LEMMA TargetsAreInstances ==
  ASSUME AllTypes, NEW t \in Tasks
  PROVE  Targets(t) \subseteq Instances
<1>1. task[t].spec \in TaskSpecs
  BY DEF AllTypes, ServerTypes, TaskObjects
<1>2. task[t].spec.insts \in Seq(Instances)
  BY <1>1, SpecFacts
<1>3. QED BY <1>2 DEF Targets

\* One status that is borne out, by d Jobs that were fired and have succeeded, and f if
\* one has failed.
TruthOf(t, d, f) ==
  [active |-> JobsOf(t, "active") \cap Targets(t),
   complete |-> /\ JobsOf(t, "active") \cap Targets(t) = {}
                /\ JobsOf(t, "failed") = {} /\ ~f
                /\ Cardinality(JobsOf(t, "complete")) + d >= Len(task[t].spec.insts),
   failed |-> f \/ JobsOf(t, "failed") # {}]

LEMMA TruthsBearOut ==
  ASSUME NEW t
  PROVE  /\ task[t].spec.scheduled =>
              \A v : BorneOut(t, v) <=> v = NoStatus
         /\ ~task[t].spec.scheduled =>
              \A v : BorneOut(t, v) <=>
                       \E d \in 0..runs[t].done, f \in {FALSE, runs[t].failed} :
                         v = TruthOf(t, d, f)
  BY Zenon DEF BorneOut, TruthOf

\* The more Jobs were fired, the more a status may say.
LEMMA BorneOutKept ==
  ASSUME AllTypes, AllTypes', NEW t \in Tasks, Same(t), RunsGrow, BorneOut(t, task[t].cond)
  PROVE  BorneOut(t, task[t].cond)'
<1>1. Targets(t)' = Targets(t)
  BY DEF Same, Targets
<1>2. \A st : JobsOf(t, st)' = JobsOf(t, st)
  BY DEF Same, JobsOf
<1>3. 0..runs[t].done \subseteq 0..runs'[t].done
  BY DEF RunsGrow, AllTypes, ServerTypes, Runs
<1>4. {FALSE, runs[t].failed} \subseteq {FALSE, runs'[t].failed}
  <2>1. runs[t].failed \in BOOLEAN /\ runs'[t].failed \in BOOLEAN
    BY DEF AllTypes, ServerTypes, Runs
  <2>2. runs[t].failed => runs'[t].failed
    BY DEF RunsGrow
  <2>3. QED BY <2>1, <2>2
<1>5. task'[t] = task[t]
  BY DEF Same
<1>6. CASE task[t].spec.scheduled
  BY <1>5, <1>6, Zenon DEF BorneOut
<1>7. CASE ~task[t].spec.scheduled
  <2>1. PICK d \in 0..runs[t].done, f \in {FALSE, runs[t].failed} :
          task[t].cond = TruthOf(t, d, f)
    BY <1>7, TruthsBearOut
  <2>2. d \in 0..runs'[t].done /\ f \in {FALSE, runs'[t].failed}
    BY <1>3, <1>4
  <2>3. TruthOf(t, d, f)' = TruthOf(t, d, f)
    BY <1>1, <1>2, <1>5 DEF TruthOf
  <2>4. task'[t].cond = TruthOf(t, d, f)'
    BY <1>5, <2>1, <2>3
  <2>5. \E e \in 0..runs'[t].done, g \in {FALSE, runs'[t].failed} :
          task'[t].cond = TruthOf(t, e, g)'
    BY <2>2, <2>4
  <2>6. QED BY <1>5, <1>7, <2>5, Zenon DEF BorneOut, TruthOf
<1>8. QED BY <1>6, <1>7

LEMMA ConvergedKept ==
  ASSUME AllTypes, AllTypes', NEW t \in Tasks, Same(t), RunsGrow, ConvergedFor(t)
  PROVE  ConvergedFor(t)'
<1>1. Targets(t)' = Targets(t)
  BY DEF Same, Targets
<1>2. BorneOut(t, task[t].cond)'
  BY BorneOutKept DEF ConvergedFor
<1>3. Targets(t) \subseteq Instances
  BY TargetsAreInstances
<1>4. QED BY <1>1, <1>2, <1>3 DEF Same, ConvergedFor

\* A step that leaves alone what is quiet keeps every task converged but, maybe, the
\* one whose pass it ends.
LEMMA CalmKeepsConverged ==
  ASSUME AllTypes, AllTypes', TaskConverged, Calm, RunsGrow,
         NEW t \in Tasks, TaskSettled(t)', task'[t].exists, tkey # t
  PROVE  ConvergedFor(t)'
<1>1. Quiet(t) /\ Same(t)
  BY DEF Calm, TaskSettled
<1>2. TaskSettled(t) /\ task[t].exists
  BY <1>1 DEF TaskSettled, Same
<1>3. ConvergedFor(t)
  BY <1>2, ConvergedParts
<1>4. QED BY <1>1, <1>3, ConvergedKept

\* The pass goes on as it was.
LEMMA CalmKeepsOnTrack ==
  ASSUME AllTypes, OnTrack, Calm,
         UNCHANGED <<tpc, tkey, tobj, at, active, again>>
  PROVE  OnTrack'
<1> SUFFICES ASSUME tpc # "idle", Quiet(tkey)' PROVE TaskOnTrack'
  BY DEF OnTrack
<1>1. tkey \in Tasks /\ tkey' = tkey
  BY DEF AllTypes, WorkerTypes
<1>2. Quiet(tkey) /\ Same(tkey)
  BY <1>1 DEF Calm, Quiet
<1>3. TaskOnTrack
  BY <1>2 DEF OnTrack
<1>4. Visited' = Visited
  BY DEF Visited
<1>5. \A i \in Visited : i \in Instances
  <2>1. /\ tobj.spec \in TaskSpecs
        /\ at \in 1..Len(tobj.spec.insts) + 1
    BY DEF AllTypes, WorkerTypes, TaskObjects
  <2>2. QED BY <2>1, SpecFacts DEF Visited
<1>6. QED BY <1>1, <1>2, <1>3, <1>4, <1>5 DEF Same, TaskOnTrack

\* Steps of others, and of the machinery but for the beginning of a pass and a restart.
LEMMA CalmKeeps ==
  ASSUME AllTypes, AllTypes', OnTrack, TaskConverged, Calm, RunsGrow,
         UNCHANGED <<tpc, tkey, tobj, at, active, again>>
  PROVE  OnTrack' /\ TaskConverged'
<1>1. OnTrack'
  BY CalmKeepsOnTrack
<1>2. ASSUME NEW t \in Tasks, TaskSettled(t)', task'[t].exists
      PROVE  ConvergedFor(t)'
  <2>1. tkey # t
    BY <1>2 DEF TaskSettled
  <2>2. QED BY <1>2, <2>1, CalmKeepsConverged
<1>3. QED BY <1>1, <1>2, ConvergedParts

KIInv == AllTypes /\ TaskCachesFresh /\ OnTrack /\ TaskConverged

\* A step outside the worker that has only written.
LEMMA WritersKeep ==
  ASSUME KIInv, AllTypes', TaskWritesShow, CachesStay, RunsGrow,
         UNCHANGED <<tqueue, later, tpc, tkey, tobj, at, active, again>>
  PROVE  KIInv'
<1>1. Calm
  BY WritesAreCalm
<1>2. OnTrack' /\ TaskConverged'
  BY <1>1, CalmKeeps DEF KIInv
<1>3. QED BY <1>2, FreshKept DEF KIInv

LEMMA OthersKeepInv ==
  ASSUME KIInv, AllTypes',
         \/ \E t \in Tasks : CreateTask(t) \/ EditTask(t) \/ DeleteTask(t) \/ Fire(t)
         \/ \E p \in Pairs : RemoveJob(p) \/ JobFinishes(p) \/ CollectJob(p) \/ CollectCron(p)
  PROVE  KIInv'
<1>1. ASSUME TaskWritesShow, RunsGrow, OthersKeep PROVE KIInv'
  BY <1>1, WritersKeep DEF OthersKeep, CachesStay
<1>2. ASSUME TaskWritesShow, runs' = runs, OthersKeep PROVE KIInv'
  BY <1>1, <1>2, RunsStay DEF KIInv
<1>3. ServerTypes
  BY DEF KIInv, AllTypes
<1>4. ASSUME NEW t \in Tasks, CreateTask(t) \/ EditTask(t) \/ DeleteTask(t)
      PROVE  KIInv'
  BY <1>2, <1>3, <1>4, WritesShowTheTask
  DEF CreateTask, EditTask, DeleteTask, UserTaskWrite
<1>5. ASSUME NEW t \in Tasks, Fire(t) PROVE KIInv'
  <2>1. TaskWritesShow
    BY <1>5 DEF Fire, TaskWritesShow
  <2>2. RunsGrow
    <3>1. \A u \in Tasks : runs[u].done \in Nat /\ runs[u].failed \in BOOLEAN
      BY <1>3 DEF ServerTypes, Runs
    <3>2. CASE runs' = [runs EXCEPT ![t].done = @ + 1]
      <4>1. \A u \in Tasks : /\ runs'[u].done = runs[u].done \/ runs'[u].done = runs[u].done + 1
                             /\ runs'[u].failed = runs[u].failed
        BY <1>3, <3>2 DEF ServerTypes, Runs
      <4>2. QED BY <3>1, <4>1 DEF RunsGrow
    <3>3. CASE runs' = [runs EXCEPT ![t].failed = TRUE]
      <4>1. \A u \in Tasks : /\ runs'[u].done = runs[u].done
                             /\ runs[u].failed => runs'[u].failed
        BY <1>3, <3>3 DEF ServerTypes, Runs
      <4>2. QED BY <3>1, <4>1 DEF RunsGrow
    <3>4. QED BY <1>5, <3>2, <3>3 DEF Fire
  <2>3. QED BY <1>1, <1>5, <2>1, <2>2 DEF Fire
<1>6. ASSUME NEW p \in Pairs,
             RemoveJob(p) \/ JobFinishes(p) \/ CollectJob(p) \/ CollectCron(p)
      PROVE  KIInv'
  BY <1>2, <1>3, <1>6, WritesShowTheTask DEF RemoveJob, JobFinishes, CollectJob, CollectCron
<1>7. QED BY <1>4, <1>5, <1>6

LEMMA InstanceSideKeepsInv ==
  ASSUME KIInv, AllTypes',
         \/ TimePasses
         \/ \E i \in Instances :
              \/ InstanceSide(i) \/ InstanceFault(i) \/ PodTrouble(i)
              \/ InstanceComesOrGoes(i) \/ ByHand(i)
  PROVE  KIInv'
<1>1. UNCHANGED taskVars
  BY ByHandEdits
  DEF InstanceSide, InstanceFault, PodTrouble, InstanceComesOrGoes, TimePasses, KIInv,
      AllTypes
<1>2. TaskWritesShow /\ RunsGrow
  BY <1>1, RunsStay DEF taskVars, TaskWritesShow, KIInv
<1>3. QED BY <1>1, <1>2, WritersKeep DEF taskVars, CachesStay

\* A delivery, a timer or a resync queues the task it is about.
LEMMA MachineryKeepsInv ==
  ASSUME KIInv, AllTypes',
         \/ \E t \in Tasks : DeliverTask(t) \/ ComeBack(t) \/ TaskResync(t)
         \/ \E p \in Pairs : DeliverJob(p) \/ DeliverCron(p)
  PROVE  KIInv'
<1> DEFINE calmly == TaskCachesFresh' /\ MachineryKeeps /\ Calm
<1>1. TaskCachesFresh /\ QueueTypes /\ ServerTypes
  BY DEF KIInv, AllTypes
<1>2. ASSUME NEW t \in Tasks, DeliverTask(t) PROVE calmly
  <2>1. TaskCachesFresh'
    BY <1>1, <1>2 DEF TaskCachesFresh, QueueTypes, DeliverTask, MachineryKeeps
  <2>2. Calm
    BY <1>2 DEF Calm, Quiet, Same, DeliverTask, MachineryKeeps
  <2>3. QED BY <1>2, <2>1, <2>2 DEF DeliverTask
<1>3. ASSUME NEW t \in Tasks, ComeBack(t) \/ TaskResync(t) PROVE calmly
  <2>1. TaskCachesFresh'
    BY <1>1, <1>3 DEF TaskCachesFresh, ComeBack, TaskResync, MachineryKeeps
  <2>2. Calm
    BY <1>3 DEF Calm, Quiet, Same, ComeBack, TaskResync, MachineryKeeps
  <2>3. QED BY <1>3, <2>1, <2>2 DEF ComeBack, TaskResync
<1>4. ASSUME NEW p \in Pairs, DeliverJob(p) \/ DeliverCron(p) PROVE calmly
  <2>1. TaskCachesFresh'
    <3>1. CASE DeliverJob(p)
      BY <1>1, <1>4, <3>1 DEF TaskCachesFresh, QueueTypes, DeliverJob, MachineryKeeps
    <3>2. CASE DeliverCron(p)
      BY <1>1, <1>4, <3>2 DEF TaskCachesFresh, QueueTypes, DeliverCron, MachineryKeeps
    <3>3. QED BY <1>4, <3>1, <3>2
  <2>2. MachineryKeeps /\ tseen' = tseen /\ later' = later /\ tqueue' = tqueue \cup {p[1]}
    BY <1>4 DEF DeliverJob, DeliverCron
  <2>3. jseen' \subseteq jseen \cup {p} /\ cseen' \subseteq cseen \cup {p}
    BY <1>4 DEF DeliverJob, DeliverCron
  <2>4. ASSUME NEW t \in Tasks, Quiet(t)' PROVE Quiet(t) /\ Same(t)
    <3>1. p[1] # t
      BY <2>2, <2>4 DEF Quiet
    <3>2. \A i \in Instances : <<t, i>> # p
      BY <3>1
    <3>3. QED BY <2>2, <2>3, <2>4, <3>2 DEF Quiet, Same, MachineryKeeps
  <2>5. QED BY <2>1, <2>2, <2>4 DEF Calm
<1>5. calmly
  BY <1>2, <1>3, <1>4
<1>6. RunsGrow
  BY <1>5, RunsStay DEF MachineryKeeps, KIInv
<1>7. OnTrack' /\ TaskConverged'
  BY <1>5, <1>6, CalmKeeps DEF MachineryKeeps, KIInv
<1>8. QED BY <1>5, <1>7 DEF KIInv

\* A restart lists everything, and queues every task that is there.
LEMMA RestartKeepsInv == KIInv /\ Restart /\ AllTypes' => KIInv'
<1> SUFFICES ASSUME KIInv, Restart, AllTypes' PROVE KIInv'
  OBVIOUS
<1>1. TaskCachesFresh'
  BY DEF Restart, TaskRestart, TaskCachesFresh
<1>2. OnTrack'
  BY DEF Restart, TaskRestart, TaskRest, OnTrack
<1>3. \A t \in Tasks : task'[t].exists => t \in tqueue'
  BY DEF Restart, TaskRestart
<1>4. TaskConverged'
  BY <1>3, ConvergedParts DEF TaskSettled, Quiet
<1>5. QED BY <1>1, <1>2, <1>4 DEF KIInv

\* A pass that begins while nothing is pending for its task has the task as it is; and
\* a task that is not there has nothing to be converged.
LEMMA BeginKeepsInv ==
  ASSUME KIInv, AllTypes', NEW t \in Tasks, TaskBegin(t)
  PROVE  KIInv'
<1>1. NoChildWrite /\ CachesStay /\ tpc = "idle" /\ tkey = NoTask /\ tqueue' = tqueue \ {t}
      /\ UNCHANGED <<later, at, active, again>>
  BY DEF TaskBegin, KIInv, AllTypes, WorkerTypes
<1>2. TaskWritesShow /\ RunsGrow
  BY <1>1, WritesShowTheTask, RunsStay DEF KIInv, AllTypes, NoChildWrite
<1>3. \A u \in Tasks \ {t} : Quiet(u)' => Quiet(u) /\ Same(u)
  BY <1>1 DEF Quiet, Same, NoChildWrite
<1>4. Quiet(t)' => tcache[t] = task[t] /\ task' = task
  BY <1>1 DEF Quiet, NoChildWrite, KIInv, TaskCachesFresh
<1>5. at = 1 /\ active = {} /\ ~again
  BY <1>1 DEF KIInv, AllTypes, WorkerTypes
<1>6. OnTrack'
  <2> SUFFICES ASSUME tpc' # "idle", Quiet(tkey)' PROVE TaskOnTrack'
    BY DEF OnTrack
  <2>1. tcache[t].exists /\ tkey' = t /\ tobj' = tcache[t]
    BY <1>1 DEF TaskBegin
  <2>2. tobj' = task'[t] /\ tobj'.exists
    BY <1>4, <2>1 DEF Quiet
  <2>3. /\ tpc' \in {"unfinalize", "finalize", "resolve"}
        /\ tpc' = "finalize" => ~tobj'.finalizer
        /\ tpc' = "resolve" => tobj'.finalizer /\ ~tobj'.deleting
    <3>1. tpc' = CASE tobj'.deleting -> "unfinalize"
                   [] ~tobj'.deleting /\ ~tobj'.finalizer -> "finalize"
                   [] OTHER -> "resolve"
      BY <2>1 DEF TaskBegin
    <3>2. CASE tobj'.deleting
      BY <3>1, <3>2
    <3>3. CASE ~tobj'.deleting /\ ~tobj'.finalizer
      BY <3>1, <3>3
    <3>4. CASE ~tobj'.deleting /\ tobj'.finalizer
      BY <3>1, <3>4
    <3>5. QED BY <3>2, <3>3, <3>4
  <2>4. Visited' = {}
    BY <1>1, <1>5 DEF Visited
  <2>5. QED BY <1>1, <1>5, <2>1, <2>2, <2>3, <2>4 DEF TaskOnTrack
<1>7. TaskConverged'
  <2> SUFFICES ASSUME NEW u \in Tasks, TaskSettled(u)', task'[u].exists
               PROVE  ConvergedFor(u)'
    BY ConvergedParts
  <2>1. u # t
    <3> SUFFICES ASSUME u = t PROVE FALSE
      OBVIOUS
    <3>1. tcache[t].exists
      BY <1>4 DEF TaskSettled
    <3>2. QED BY <3>1 DEF TaskBegin, TaskSettled
  <2>2. Quiet(u) /\ Same(u)
    BY <1>3, <2>1 DEF TaskSettled
  <2>3. TaskSettled(u) /\ task[u].exists
    BY <1>1, <2>2, TaskAssumption DEF TaskSettled, Same
  <2>4. ConvergedFor(u)
    BY <2>3, ConvergedParts DEF KIInv
  <2>5. QED BY <1>2, <2>2, <2>4, ConvergedKept DEF KIInv
<1>8. QED BY <1>1, <1>2, <1>6, <1>7, FreshKept DEF KIInv

\* A pass that fails has queued its task again.
LEMMA AbortKeepsInv == KIInv /\ TaskAbort /\ AllTypes' => KIInv'
<1> SUFFICES ASSUME KIInv, TaskAbort, AllTypes' PROVE KIInv'
  OBVIOUS
<1>1. /\ NoChildWrite /\ CachesStay /\ later' = later /\ tqueue' = tqueue \cup {tkey}
      /\ tpc' = "idle"
  BY DEF TaskAbort, TaskRest
<1>2. TaskWritesShow /\ RunsGrow
  BY <1>1, WritesShowTheTask, RunsStay DEF KIInv, AllTypes, NoChildWrite
<1>3. Calm
  BY <1>1, <1>2, WritesAreCalm
<1>4. TaskConverged'
  <2> SUFFICES ASSUME NEW t \in Tasks, TaskSettled(t)', task'[t].exists
               PROVE  ConvergedFor(t)'
    BY ConvergedParts
  <2>1. t # tkey
    BY <1>1 DEF TaskSettled, Quiet
  <2>2. QED BY <1>2, <1>3, <2>1, CalmKeepsConverged DEF KIInv
<1>5. QED BY <1>1, <1>2, <1>4, FreshKept DEF KIInv, OnTrack

-----------------------------------------------------------------------------
(* The worker: while its task stays quiet, a pass stays on track, and ends *)
(* with the task converged.                                                *)

\* What a step may rely on, when its task is still quiet after it.
LEMMA StillQuiet ==
  ASSUME KIInv, Calm, NEW t \in Tasks, t = tkey, tpc # "idle", Quiet(t)'
  PROVE  /\ Quiet(t) /\ Same(t) /\ TaskOnTrack
         /\ \A i \in Instances : /\ jcache[<<t, i>>] = job[<<t, i>>]
                                 /\ ccache[<<t, i>>] = cron[<<t, i>>]
<1>1. Quiet(t) /\ Same(t)
  BY DEF Calm
<1>2. TaskOnTrack
  BY <1>1 DEF KIInv, OnTrack
<1>3. QED BY <1>1, <1>2 DEF Quiet, KIInv, TaskCachesFresh

\* What a step owes.
LEMMA WorkerKeeps ==
  ASSUME KIInv, AllTypes', PassKeeps, NEW t \in Tasks, t = tkey, tpc # "idle",
         Quiet(t)' /\ tpc' # "idle" => TaskOnTrack',
         Quiet(t)' /\ tpc' = "idle" /\ task'[t].exists => ConvergedFor(t)'
  PROVE  KIInv'
<1>1. Calm /\ RunsGrow
  BY WritesAreCalm, RunsStay DEF PassKeeps, KIInv
<1>2. OnTrack'
  BY DEF OnTrack, PassKeeps
<1>3. TaskConverged'
  <2> SUFFICES ASSUME NEW u \in Tasks, TaskSettled(u)', task'[u].exists
               PROVE  ConvergedFor(u)'
    BY ConvergedParts
  <2>1. CASE u # t
    BY <1>1, <2>1, CalmKeepsConverged DEF KIInv
  <2>2. CASE u = t
    BY <2>2 DEF TaskSettled, PassKeeps
  <2>3. QED BY <2>1, <2>2
<1>4. QED BY <1>2, <1>3, FreshKept DEF KIInv, PassKeeps

\* The loop has been through one pair more.
LEMMA NextPairOnTrack ==
  ASSUME KIInv, AllTypes', NEW t \in Tasks, t = tkey,
         tpc \in {"jobs", "crons"}, at <= Len(tobj.spec.insts), Same(t), TaskOnTrack,
         NEW act \in SUBSET Instances, NEW ag \in BOOLEAN, NextPair(act, ag),
         IF tobj.spec.scheduled
         THEN act = active /\ ag = again /\ cron[Pair].rev = tobj.spec.rev
         ELSE /\ act = active \cup {i \in {Here} : job[Pair].st = "active"}
              /\ again => ag
              /\ ag \/ job[Pair] # NoJob
  PROVE  TaskOnTrack'
<1>1. /\ tobj.spec \in TaskSpecs /\ at \in 1..Len(tobj.spec.insts)
      /\ Len(tobj.spec.insts) \in Nat /\ Here \in Instances
  <2>1. tobj.spec \in TaskSpecs /\ at \in 1..Len(tobj.spec.insts) + 1
    BY DEF KIInv, AllTypes, WorkerTypes, TaskObjects
  <2>2. QED BY <2>1, SpecFacts, HereTypes DEF KIInv, AllTypes
<1>2. /\ at' = at + 1 /\ active' = act /\ again' = ag /\ tobj' = tobj /\ tkey' = t
      /\ \/ tpc' = tpc
         \/ tpc' = "report" /\ at' = Len(tobj.spec.insts) + 1
  BY <1>1 DEF NextPair
<1>3. Visited' = Visited \cup {Here}
  <2>1. Visited' = {tobj.spec.insts[n] : n \in 1..at}
    BY <1>1, <1>2 DEF Visited
  <2>2. 1..at = (1..at - 1) \cup {at}
    BY <1>1
  <2>3. QED BY <2>1, <2>2 DEF Visited, Here
<1>4. Visited \subseteq Instances
  BY <1>1, SpecFacts DEF Visited
<1>5. /\ task'[t] = task[t]
      /\ \A i \in Visited \cup {Here} : /\ job'[<<t, i>>] = job[<<t, i>>]
                                        /\ cron'[<<t, i>>] = cron[<<t, i>>]
  BY <1>1, <1>4 DEF Same
<1>6. /\ tobj' = task'[t] /\ tobj'.exists /\ tpc' \notin {"unfinalize", "finalize"}
      /\ tobj'.finalizer /\ ~tobj'.deleting
      /\ tpc' = "report" => at' = Len(tobj'.spec.insts) + 1
      /\ tpc' = "jobs" => ~tobj'.spec.scheduled
      /\ tpc' = "crons" => tobj'.spec.scheduled
  BY <1>2, <1>5 DEF TaskOnTrack
<1>7. CASE tobj.spec.scheduled
  <2>1. active' = {} /\ ~again'
    BY <1>2, <1>7 DEF TaskOnTrack
  <2>2. \A i \in Visited' : cron'[<<t, i>>].rev = tobj'.spec.rev
    BY <1>2, <1>3, <1>5, <1>7 DEF TaskOnTrack, Pair
  <2>3. QED BY <1>2, <1>6, <1>7, <2>1, <2>2 DEF TaskOnTrack
<1>8. CASE ~tobj.spec.scheduled
  <2>1. active = {i \in Visited : job[<<t, i>>].st = "active"}
    BY <1>8 DEF TaskOnTrack
  <2>2. active' = {i \in Visited' : job'[<<t, i>>].st = "active"}
    <3>1. active' = active \cup {i \in {Here} : job[<<t, i>>].st = "active"}
      BY <1>2, <1>8 DEF Pair
    <3>2. \A i \in Visited \cup {Here} : job'[<<t, i>>].st = job[<<t, i>>].st
      BY <1>5
    <3>3. QED BY <1>3, <2>1, <3>1, <3>2
  <2>3. again' \/ \A i \in Visited' : job'[<<t, i>>] # NoJob
    BY <1>2, <1>3, <1>5, <1>8 DEF TaskOnTrack, Pair
  <2>4. QED BY <1>2, <1>6, <1>8, <2>2, <2>3 DEF TaskOnTrack
<1>9. QED BY <1>7, <1>8

\* The steps of reconcileJobs and reconcileCronJobs.
LEMMA LoopOnTrack ==
  ASSUME KIInv, AllTypes', PassKeeps, NEW t \in Tasks, t = tkey, tpc' # "idle", Quiet(t)',
         Reserve \/ AwaitPhase \/ CreateJob \/ JobUnderWay \/ Release \/ SyncCron
  PROVE  TaskOnTrack'
<1>1. tpc \in {"jobs", "crons"} /\ tpc # "idle" /\ at <= Len(tobj.spec.insts)
  BY DEF Reserve, AwaitPhase, CreateJob, JobUnderWay, Release, SyncCron, AtPair
<1>2. ~Refused
  BY DEF Refused, DoneWithError, TaskRest
<1>3. /\ Quiet(t) /\ Same(t) /\ TaskOnTrack
      /\ \A i \in Instances : /\ jcache[<<t, i>>] = job[<<t, i>>]
                              /\ ccache[<<t, i>>] = cron[<<t, i>>]
  BY <1>1, StillQuiet, WritesAreCalm DEF PassKeeps
<1>4. /\ Here \in Instances /\ Pair \in Pairs /\ tobj.spec \in TaskSpecs
      /\ tobj.spec.rev \in Nat \ {0}
      /\ active \in SUBSET Instances /\ again \in BOOLEAN
      /\ job[Pair] \in JobObjects /\ cron[Pair] \in CronObjects
      /\ job \in [Pairs -> JobObjects] /\ cron \in [Pairs -> CronObjects]
  BY <1>1, HereTypes, SpecFacts DEF KIInv, AllTypes, WorkerTypes, ServerTypes
<1>5. /\ jcache[Pair] = job[Pair] /\ ccache[Pair] = cron[Pair]
      /\ job'[Pair] = job[Pair] /\ cron'[Pair] = cron[Pair]
  BY <1>3, <1>4 DEF Pair, Same
<1>6. active \cup {Here} \in SUBSET Instances /\ NoJob.st # "active"
  BY <1>4 DEF NoJob
<1>7. CASE tpc = "jobs"
  <2>1. ~tobj.spec.scheduled
    BY <1>3, <1>7 DEF TaskOnTrack
  <2>2. ASSUME NEW act \in SUBSET Instances, NEW ag \in BOOLEAN, NextPair(act, ag),
               act = active \cup {i \in {Here} : job[Pair].st = "active"},
               again => ag, ag \/ job[Pair] # NoJob
        PROVE  TaskOnTrack'
    BY <1>1, <1>3, <2>1, <2>2, NextPairOnTrack
  <2>3. CASE Reserve
    <3>1. NextPair(active, TRUE) /\ job[Pair].st # "active"
      BY <1>2, <1>5, <1>6, <2>3 DEF Reserve
    <3>2. active = active \cup {i \in {Here} : job[Pair].st = "active"}
      BY <3>1
    <3>3. QED BY <1>4, <2>2, <3>1, <3>2
  <2>4. CASE AwaitPhase
    <3>1. NextPair(active, TRUE) /\ job[Pair].st # "active"
      BY <1>5, <1>6, <2>4 DEF AwaitPhase
    <3>2. active = active \cup {i \in {Here} : job[Pair].st = "active"}
      BY <3>1
    <3>3. QED BY <1>4, <2>2, <3>1, <3>2
  <2>5. CASE CreateJob
    <3>1. job[Pair] = NoJob /\ WriteJob(Pair, [st |-> "active", owner |-> tobj.uid])
      BY <1>2, <1>5, <2>5 DEF CreateJob
    <3>2. job'[Pair] = [st |-> "active", owner |-> tobj.uid]
      BY <1>4, <3>1 DEF WriteJob
    <3>3. job'[Pair].st = "active"
      BY <3>2
    <3>4. QED BY <1>5, <1>6, <3>1, <3>3
  <2>6. CASE JobUnderWay
    <3>1. NextPair(active \cup {Here}, again) /\ job[Pair] # NoJob /\ job[Pair].st = "active"
      BY <1>4, <1>5, <2>6 DEF JobUnderWay, Finished, JobObjects
    <3>2. active \cup {Here} = active \cup {i \in {Here} : job[Pair].st = "active"}
      BY <3>1
    <3>3. QED BY <1>4, <1>6, <2>2, <3>1, <3>2
  <2>7. CASE Release
    <3>1. NextPair(active, again)
      BY <1>2, <2>7 DEF Release
    <3>2. job[Pair] # NoJob /\ job[Pair].st # "active"
      BY <1>5, <2>7 DEF Release, Finished, NoJob
    <3>3. active = active \cup {i \in {Here} : job[Pair].st = "active"}
      BY <3>2
    <3>4. QED BY <1>4, <2>2, <3>1, <3>2, <3>3
  <2>8. QED BY <1>7, <2>3, <2>4, <2>5, <2>6, <2>7 DEF SyncCron, AtPair
<1>8. CASE tpc = "crons"
  <2>1. SyncCron
    BY <1>8 DEF Reserve, AwaitPhase, CreateJob, JobUnderWay, Release, AtPair
  <2>2. tobj.spec.scheduled
    BY <1>3, <1>8 DEF TaskOnTrack
  <2>3. NextPair(active, again)
    BY <1>2, <2>1 DEF SyncCron
  <2>4. cron[Pair].rev = tobj.spec.rev
    <3>1. CASE cron[Pair] = NoCron
      <4>1. cron'[Pair] = [rev |-> tobj.spec.rev, owner |-> tobj.uid]
        BY <1>2, <1>4, <1>5, <2>1, <3>1 DEF SyncCron, WriteCron
      <4>2. cron'[Pair].rev = tobj.spec.rev
        BY <4>1
      <4>3. QED BY <1>5, <4>2
    <3>2. CASE cron[Pair] # NoCron /\ cron[Pair].rev # tobj.spec.rev
      <4>1. cron'[Pair] = [cron[Pair] EXCEPT !.rev = tobj.spec.rev]
        BY <1>2, <1>4, <1>5, <2>1, <3>2 DEF SyncCron, WriteCron
      <4>2. cron'[Pair].rev = tobj.spec.rev
        BY <1>4, <3>2, <4>1 DEF CronObjects
      <4>3. QED BY <1>5, <4>2
    <3>3. QED BY <3>1, <3>2
  <2>5. QED BY <1>1, <1>3, <1>4, <2>2, <2>3, <2>4, NextPairOnTrack
<1>9. QED BY <1>1, <1>7, <1>8

\* The steps before the loops.
LEMMA FinalizerOnTrack ==
  ASSUME KIInv, AllTypes', PassKeeps, NEW t \in Tasks, t = tkey, tpc' # "idle", Quiet(t)',
         RemoveTaskFinalizer \/ AddTaskFinalizer \/ ResolveInstances
  PROVE  TaskOnTrack'
<1>1. tpc # "idle" /\ tpc \notin {"jobs", "crons", "report"}
  BY DEF RemoveTaskFinalizer, AddTaskFinalizer, ResolveInstances
<1>2. ~Refused /\ ~RemoveTaskFinalizer
  BY DEF RemoveTaskFinalizer, Refused, DoneWithError, Done, TaskRest
<1>3. Quiet(t) /\ Same(t) /\ TaskOnTrack
  BY <1>1, StillQuiet, WritesAreCalm DEF PassKeeps
<1>4. at = 1 /\ active = {} /\ ~again /\ tobj \in TaskObjects
  BY <1>1 DEF KIInv, AllTypes, WorkerTypes
<1>5. CASE AddTaskFinalizer
  <2>1. task'[t] = [tobj EXCEPT !.finalizer = TRUE]
    BY <1>2, <1>5 DEF AddTaskFinalizer, WriteTask, KIInv, AllTypes, ServerTypes
  <2>2. task'[t].finalizer /\ ~task[t].finalizer
    BY <1>3, <1>4, <1>5, <2>1 DEF AddTaskFinalizer, TaskOnTrack, TaskObjects
  <2>3. QED BY <1>3, <2>2 DEF Same
<1>6. CASE ResolveInstances
  <2>1. /\ tpc' = IF tobj.spec.scheduled THEN "crons" ELSE "jobs"
        /\ UNCHANGED <<tkey, tobj, at, active, again>>
    BY <1>2, <1>6 DEF ResolveInstances
  <2>2. Visited' = {}
    BY <1>4, <2>1 DEF Visited
  <2>3. tobj' = task'[t]
    BY <1>3, <2>1 DEF TaskOnTrack, Same
  <2>4. tobj.exists /\ tobj.finalizer /\ ~tobj.deleting
    BY <1>3, <1>6 DEF TaskOnTrack, ResolveInstances
  <2>5. QED BY <1>4, <2>1, <2>2, <2>3, <2>4 DEF TaskOnTrack
<1>7. QED BY <1>2, <1>5, <1>6

\* The pass that ends and leaves its task quiet: its status is borne out.
LEMMA ReportConverges ==
  ASSUME KIInv, AllTypes', PassKeeps, NEW t \in Tasks, t = tkey, Quiet(t)',
         ReportTask, ~Refused
  PROVE  ConvergedFor(t)'
<1>1. tpc = "report" /\ tpc # "idle" /\ InstancesStay
  BY DEF ReportTask
<1>2. /\ Quiet(t) /\ Same(t) /\ TaskOnTrack
      /\ \A i \in Instances : jcache[<<t, i>>] = job[<<t, i>>]
  BY <1>1, StillQuiet, WritesAreCalm DEF PassKeeps
<1>3. PICK d \in 0..runs[t].done, f \in {FALSE, runs[t].failed}, r \in BOOLEAN :
        WriteTask(t, TaskStatusDiff(task[t], Verdict(d, f), r))
  BY DEF ReportTask
<1> DEFINE v == Verdict(d, f)
<1>4. /\ task[t] \in TaskObjects /\ tobj = task[t] /\ tobj \in TaskObjects
      /\ runs[t].done \in Nat /\ runs[t].failed \in BOOLEAN /\ f \in BOOLEAN
  BY <1>2 DEF KIInv, AllTypes, ServerTypes, Runs, TaskOnTrack
<1>5. task'[t] = TaskStatusDiff(task[t], v, r)
  BY <1>3, <1>4 DEF WriteTask, KIInv, AllTypes, ServerTypes
<1>6. task[t].active = v.active /\ task[t].cond = v
  <2>1. task[t] = TaskStatusDiff(task[t], v, r)
    BY <1>2, <1>5 DEF Same
  <2>2. TaskStatusDiff(task[t], v, r).active = v.active
    BY <1>4 DEF TaskStatusDiff, TaskObjects
  <2>3. TaskStatusDiff(task[t], v, r).cond = v
    <3>1. \A x : [task[t] EXCEPT !.active = x, !.cond = IF v = tobj.cond /\ ~r THEN @ ELSE v].cond
                 = IF v = tobj.cond /\ ~r THEN task[t].cond ELSE v
      BY <1>4 DEF TaskObjects
    <3>2. QED BY <1>4, <3>1 DEF TaskStatusDiff
  <2>4. QED BY <2>1, <2>2, <2>3
<1>7. v.active = active
  BY DEF Verdict
<1>8. ~again
  BY <1>1, Zenon DEF ReportTask, Quiet
<1>9. Visited = Targets(t) /\ Targets(t) \subseteq Instances
  <2>1. at - 1 = Len(tobj.spec.insts) /\ tobj.spec.insts \in Seq(Instances)
    <3>1. tobj.spec \in TaskSpecs
      BY <1>4 DEF TaskObjects
    <3>2. at = Len(tobj.spec.insts) + 1
      BY <1>1, <1>2 DEF TaskOnTrack
    <3>3. QED BY <3>1, <3>2, SpecFacts
  <2>2. DOMAIN tobj.spec.insts = 1..at - 1
    BY <2>1
  <2>3. QED BY <1>4, <2>2, KIInv, TargetsAreInstances DEF Visited, Targets, KIInv
<1>10. BorneOut(t, v)
  <2>1. CASE task[t].spec.scheduled
    <3>1. active = {}
      BY <1>2, <1>4, <2>1 DEF TaskOnTrack
    <3>2. v = [active |-> {}, complete |-> FALSE, failed |-> FALSE]
      BY <1>4, <2>1, <3>1 DEF Verdict
    <3>3. v = NoStatus
      BY <3>2 DEF NoStatus
    <3>4. QED BY <2>1, <3>3, TruthsBearOut
  <2>2. CASE ~task[t].spec.scheduled
    <3>1. active = JobsOf(t, "active") \cap Targets(t)
      BY <1>2, <1>4, <1>9, <2>2 DEF TaskOnTrack, JobsOf
    <3>2. \A st : {i \in Instances : jcache[<<tkey, i>>].st = st} = JobsOf(t, st)
      BY <1>2 DEF JobsOf
    <3>3. v = TruthOf(t, d, f)
      <4>1. v = [active |-> active,
                 complete |-> /\ active = {} /\ ~(f \/ JobsOf(t, "failed") # {})
                              /\ Cardinality(JobsOf(t, "complete")) + d
                                   >= Len(tobj.spec.insts),
                 failed |-> f \/ JobsOf(t, "failed") # {}]
        BY <1>4, <2>2, <3>2 DEF Verdict
      <4>2. QED BY <1>4, <3>1, <4>1 DEF TruthOf
    <3>4. QED BY <2>2, <3>3, TruthsBearOut
  <2>3. QED BY <2>1, <2>2
<1>11. task[t].finalizer /\ ~task[t].deleting
  BY <1>1, <1>2, <1>4 DEF TaskOnTrack
<1>12. \A i \in Targets(t) : IF task[t].spec.scheduled
                             THEN cron[<<t, i>>].rev = task[t].spec.rev
                             ELSE job[<<t, i>>] # NoJob
  BY <1>2, <1>4, <1>8, <1>9 DEF TaskOnTrack
<1>13. BorneOut(t, task[t].cond) /\ task[t].active = task[t].cond.active
  BY <1>6, <1>7, <1>10
<1>14. ConvergedFor(t)
  BY <1>11, <1>12, <1>13 DEF ConvergedFor
<1>15. RunsGrow
  BY RunsStay DEF PassKeeps, KIInv
<1>16. QED BY <1>2, <1>14, <1>15, ConvergedKept DEF KIInv

LEMMA WorkerKeepsInv == KIInv /\ TaskStep /\ AllTypes' => KIInv'
<1> SUFFICES ASSUME KIInv, TaskStep, AllTypes' PROVE KIInv'
  OBVIOUS
<1>1. tpc # "idle" /\ tkey \in Tasks
  BY DEF KIInv, AllTypes, WorkerTypes, TaskStep, RemoveTaskFinalizer, AddTaskFinalizer,
         ResolveInstances, Reserve, AwaitPhase, CreateJob, JobUnderWay, Release, SyncCron,
         ReportTask, AtPair
<1>2. PassKeeps
  BY TaskStepKeeps DEF KIInv
<1>3. PICK t \in Tasks : t = tkey
  BY <1>1
<1>4. Quiet(t)' /\ tpc' # "idle" => TaskOnTrack'
  <2>1. ASSUME ReportTask PROVE tpc' = "idle"
    BY <2>1 DEF ReportTask, Refused, DoneWithError, TaskRest
  <2>2. QED BY <1>2, <1>3, <2>1, FinalizerOnTrack, LoopOnTrack DEF TaskStep
<1>5. ASSUME Quiet(t)', tpc' = "idle", task'[t].exists PROVE ConvergedFor(t)'
  <2>1. ~Refused
    BY <1>3, <1>5 DEF Refused, DoneWithError, Quiet
  <2>2. ~RemoveTaskFinalizer
    <3> SUFFICES ASSUME RemoveTaskFinalizer PROVE FALSE
      OBVIOUS
    <3>1. task'[t] = NoTaskObject(tobj.uid, tobj.spec)
      BY <1>3, <2>1 DEF RemoveTaskFinalizer, WriteTask, KIInv, AllTypes, ServerTypes
    <3>2. QED BY <1>5, <3>1 DEF NoTaskObject, NewTask
  <2>3. ~AddTaskFinalizer
    BY <1>5, <2>1 DEF AddTaskFinalizer, GoOn
  <2>4. ~ResolveInstances
    BY <1>5, <2>1 DEF ResolveInstances
  <2>5. ASSUME NEW act, NEW ag, NextPair(act, ag), tpc \in {"jobs", "crons"} PROVE FALSE
    BY <1>5, <2>5 DEF NextPair
  <2>6. ~(Reserve \/ AwaitPhase \/ CreateJob \/ JobUnderWay \/ Release \/ SyncCron)
    BY <2>1, <2>5
    DEF Reserve, AwaitPhase, CreateJob, JobUnderWay, Release, SyncCron, AtPair
  <2>7. ReportTask
    BY <2>2, <2>3, <2>4, <2>6 DEF TaskStep
  <2>8. QED BY <1>2, <1>3, <1>5, <2>1, <2>7, ReportConverges
<1>6. QED BY <1>1, <1>2, <1>3, <1>4, <1>5, WorkerKeeps

LEMMA InitConverged == Init => KIInv
<1> SUFFICES ASSUME Init PROVE KIInv
  OBVIOUS
<1>1. AllTypes
  BY InitTypes
<1>2. TaskCachesFresh
  BY DEF Init, TaskInit, TaskCachesFresh
<1>3. OnTrack
  BY DEF Init, TaskInit, OnTrack
<1>4. \A t \in Tasks : task[t].exists => t \in tqueue
  BY DEF Init, TaskInit
<1>5. TaskConverged
  BY <1>4, ConvergedParts DEF TaskSettled, Quiet
<1>6. QED BY <1>1, <1>2, <1>3, <1>5 DEF KIInv

LEMMA ConvergedStep == KIInv /\ [Next]_vars => KIInv'
<1> SUFFICES ASSUME KIInv, [Next]_vars PROVE KIInv'
  OBVIOUS
<1>1. AllTypes'
  BY AllTypesStep DEF KIInv
<1>2. CASE Next
  BY <1>1, <1>2, WorkerKeepsInv, BeginKeepsInv, AbortKeepsInv, MachineryKeepsInv,
     OthersKeepInv, InstanceSideKeepsInv, RestartKeepsInv
  DEF Next, TaskRunning
<1>3. CASE UNCHANGED vars
  <2>1. TaskWritesShow /\ RunsGrow
    BY <1>3, RunsStay DEF vars, TaskWritesShow, KIInv
  <2>2. QED BY <1>1, <1>3, <2>1, WritersKeep DEF vars, CachesStay
<1>4. QED BY <1>2, <1>3

\* What the runs check as TaskIInv is inductive and holds always.
THEOREM TaskInvariant == Spec => []TaskIInv
<1>1. KIInv => TaskIInv
  <2>1. AllTypes => TypeOK
    BY TypeParts DEF AllTypes
  <2>2. QED BY <2>1 DEF KIInv, OnTrack, TaskIInv, AllTypes, WorkerTypes
<1>2. QED BY <1>1, InitConverged, ConvergedStep, PTL DEF Spec

\* However users, Pods, Jobs, failures and restarts come between its steps, Reconcile
\* never leaves a task with something missing and nobody to come back to it.
THEOREM TasksConverge == Spec => []TaskConverged
<1>1. KIInv => TaskConverged
  BY DEF KIInv
<1>2. QED BY <1>1, InitConverged, ConvergedStep, PTL DEF Spec
=============================================================================
