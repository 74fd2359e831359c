--------------------------- MODULE InstanceProofs ---------------------------
(***************************************************************************)
(* Proofs about the instance controller: the type invariant, and the two   *)
(* safety invariants Converged and IncarnationSafe by way of IInv.         *)
(***************************************************************************)
EXTENDS InstanceReconciler, OverrideProofs, TLAPS

-----------------------------------------------------------------------------
(* What the operators of the model return. *)

\* The objects users and the controllers create are well formed.
LEMMA ObjectTypes ==
  /\ \A u \in Nat, s \in BOOLEAN, t \in ServiceTypes :
       NewInstance(u, s, t) \in InstanceObjects
  /\ \A u \in Nat, t \in ServiceTypes : NoInstance(u, t) \in InstanceObjects
  /\ \A u \in Nat : NewPod(u) \in PodObjects
  /\ NoPod \in PodObjects /\ NoSvc \in SvcObjects
  /\ NoObj \in InstanceObjects
  /\ NoReport \in Reports /\ StoppedReport \in Reports /\ PendingReport \in Reports
<1>1. ASSUME NEW u \in Nat, NEW s \in BOOLEAN, NEW t \in ServiceTypes
      PROVE NewInstance(u, s, t) \in InstanceObjects
  BY OverrideTypes DEF NewInstance, InstanceObjects, Phases, NoReport, Reports
<1>2. ASSUME NEW u \in Nat, NEW t \in ServiceTypes
      PROVE NoInstance(u, t) \in InstanceObjects
  <2>1. ASSUME NEW o \in InstanceObjects
        PROVE [o EXCEPT !.exists = FALSE] \in InstanceObjects
    BY DEF InstanceObjects
  <2>2. NewInstance(u, FALSE, t) \in InstanceObjects
    BY <1>1
  <2>3. QED BY <2>1, <2>2 DEF NoInstance
<1>3. NoObj \in InstanceObjects
  <2>1. (CHOOSE t \in ServiceTypes : TRUE) \in ServiceTypes
    BY ClusterAssumption
  <2>2. QED BY <2>1, <1>2 DEF NoObj
<1>4. \A u \in Nat : NewPod(u) \in PodObjects
  BY DEF NewPod, PodObjects, PodPhases
<1>5. QED
  BY <1>1, <1>2, <1>3, <1>4
  DEF NoPod, NoOwner, PodObjects, NoSvc, SvcObjects, NoReport, StoppedReport, PendingReport,
      Reports, Phases

\* A Pod's report is a report.
LEMMA PodReportType == ASSUME NEW p \in PodObjects PROVE PodReport(p) \in Reports
  BY DEF PodReport, Reports, Phases, PodObjects, NoPod, NoOwner, PodPhases, StoppedReport,
         PendingReport

\* Decoding a response and applying a status patch give well-formed objects.
LEMMA DecodeType ==
  ASSUME NEW l \in InstanceObjects, NEW o \in InstanceObjects
  PROVE  Decode(l, o) \in InstanceObjects
<1>1. DecodeOverride(l.suspended, o.suspended) \in Overrides
  BY OverrideTypes DEF InstanceObjects
<1>2. DecodeOverride(l.woken, o.woken) \in Overrides
  BY OverrideTypes DEF InstanceObjects
<1>3. QED BY <1>1, <1>2 DEF Decode, InstanceObjects

LEMMA StatusDiffType ==
  ASSUME NEW o \in InstanceObjects, NEW l \in InstanceObjects, NEW g \in Reports,
         NEW reworded \in BOOLEAN
  PROVE  StatusDiff(o, l, g, reworded) \in InstanceObjects
  BY DEF StatusDiff, InstanceObjects, Reports

-----------------------------------------------------------------------------
(* Type correctness. *)

\* Writing a well-formed object keeps the server's side well formed.
LEMMA WriteTypes ==
  ASSUME TypeOK, NEW i \in Instances
  PROVE  /\ \A o \in InstanceObjects : WriteInst(i, o) =>
              inst' \in [Instances -> InstanceObjects] /\ iseen' \subseteq Instances
         /\ \A p \in PodObjects : WritePod(i, p) =>
              pod' \in [Instances -> PodObjects] /\ pseen' \subseteq Instances
         /\ \A s \in SvcObjects : WriteSvc(i, s) =>
              svc' \in [Instances -> SvcObjects] /\ sseen' \subseteq Instances
  BY DEF TypeOK, ClusterTypeOK, WriteInst, WritePod, WriteSvc

LEMMA UserWriteTypes ==
  ASSUME TypeOK, NEW i \in Instances, NEW kind, NEW o \in InstanceObjects,
         UserWrite(kind, i, o)
  PROVE  ClusterTypeOK'
  BY WriteTypes DEF UserWrite, MayDisturb, TypeOK, ClusterTypeOK

\* A write by a user, of whatever kind.
LEMMA UserTypes ==
  ASSUME TypeOK, NEW i \in Instances, User(i)
  PROVE  ClusterTypeOK'
<1>1. inst[i] \in InstanceObjects /\ pod[i] \in PodObjects /\ svc[i] \in SvcObjects
  BY DEF TypeOK, ClusterTypeOK
<1>2. CASE CreateInstance(i)
  <2>1. PICK s \in BOOLEAN, t \in ServiceTypes :
          UserWrite("create", i, NewInstance(inst[i].uid + 1, s, t))
    BY <1>2 DEF CreateInstance
  <2>2. inst[i].uid + 1 \in Nat
    BY <1>1 DEF InstanceObjects
  <2>3. NewInstance(inst[i].uid + 1, s, t) \in InstanceObjects
    BY <2>2, ObjectTypes
  <2>4. QED BY <2>1, <2>3, UserWriteTypes
<1>3. CASE DeleteInstance(i)
  <2>1. [inst[i] EXCEPT !.deleting = TRUE] \in InstanceObjects
    BY <1>1 DEF InstanceObjects
  <2>2. NoInstance(inst[i].uid, inst[i].svcType) \in InstanceObjects
    BY <1>1, ObjectTypes DEF InstanceObjects
  <2>3. QED BY <1>3, <2>1, <2>2, UserWriteTypes DEF DeleteInstance
<1>4. CASE EditSpec(i)
  <2>1. PICK s \in BOOLEAN, t \in ServiceTypes :
          UserWrite("edit", i, [inst[i] EXCEPT !.suspend = s, !.svcType = t])
    BY <1>4 DEF EditSpec
  <2>2. [inst[i] EXCEPT !.suspend = s, !.svcType = t] \in InstanceObjects
    BY <1>1 DEF InstanceObjects
  <2>3. QED BY <2>1, <2>2, UserWriteTypes
<1>5. \A o \in Overrides : /\ [inst[i] EXCEPT !.suspended = o] \in InstanceObjects
                            /\ [inst[i] EXCEPT !.woken = o] \in InstanceObjects
  BY <1>1 DEF InstanceObjects
<1>6. \A a \in Actors, u \in Untils \cup {NoUntil} :
        /\ MergeOverride(inst[i].suspended, a, u) \in Overrides
        /\ MergeOverride(inst[i].woken, a, u) \in Overrides
  BY <1>1, OverrideTypes, ClusterAssumption DEF InstanceObjects, NoUntil
<1>7. CASE SuspendOverride(i)
  <2>1. PICK a \in Actors, u \in Untils \cup {NoUntil} :
          UserWrite("suspend", i,
            [inst[i] EXCEPT !.suspended = MergeOverride(inst[i].suspended, a, u)])
    BY <1>7 DEF SuspendOverride
  <2>2. QED BY <2>1, <1>5, <1>6, UserWriteTypes
<1>8. CASE ResumeOverride(i)
  <2>1. UserWrite("resume", i, [inst[i] EXCEPT !.suspended = Cleared])
    BY <1>8 DEF ResumeOverride
  <2>2. QED BY <2>1, <1>5, OverrideTypes, UserWriteTypes
<1>9. CASE WakeOverride(i)
  <2>1. PICK a \in Actors, u \in Untils \cup {NoUntil} :
          UserWrite("wake", i,
            [inst[i] EXCEPT !.woken = MergeOverride(inst[i].woken, a, u)])
    BY <1>9 DEF WakeOverride
  <2>2. QED BY <2>1, <1>5, <1>6, UserWriteTypes
<1>10. CASE ClearWokenOverride(i)
  <2>1. UserWrite("unwake", i, [inst[i] EXCEPT !.woken = Cleared])
    BY <1>10 DEF ClearWokenOverride
  <2>2. QED BY <2>1, <1>5, OverrideTypes, UserWriteTypes
<1>11. CASE EvictPod(i)
  <2>1. [pod[i] EXCEPT !.deleting = TRUE] \in PodObjects
    BY <1>1, <1>11 DEF EvictPod, Present, PodObjects
  <2>2. QED
    BY <1>11, <2>1, WriteTypes DEF EvictPod, MayDisturb, TypeOK, ClusterTypeOK
<1>12. CASE TamperService(i)
  <2>1. ASSUME NEW t \in ServiceTypes
        PROVE [svc[i] EXCEPT !.type = t] \in SvcObjects
    <3>1. svc[i] # NoSvc
      BY <1>12 DEF TamperService, NoSvc
    <3>2. svc[i] \in [exists : {TRUE}, type : ServiceTypes, owner : Nat]
      BY <1>1, <3>1 DEF SvcObjects
    <3>3. QED BY <3>2 DEF SvcObjects
  <2>2. PICK s \in SvcObjects : WriteSvc(i, s)
    BY <1>12, <2>1, ObjectTypes DEF TamperService
  <2>3. QED
    BY <1>12, <2>2, WriteTypes DEF TamperService, MayDisturb, TypeOK, ClusterTypeOK
<1>13. QED
  BY <1>2, <1>3, <1>4, <1>7, <1>8, <1>9, <1>10, <1>11, <1>12 DEF User

\* The kubelet and the garbage collector.
LEMMA PlatformTypes ==
  ASSUME TypeOK, NEW i \in Instances, Platform(i)
  PROVE  ClusterTypeOK'
<1>1. pod[i] \in PodObjects
  BY DEF TypeOK, ClusterTypeOK
<1>2. \A p \in PodObjects : KubeletWrite(i, p) => ClusterTypeOK'
  BY WriteTypes DEF KubeletWrite, TypeOK, ClusterTypeOK
<1>3. Present(pod[i]) =>
        /\ [pod[i] EXCEPT !.deleting = TRUE] \in PodObjects
        /\ \A ph \in PodPhases : [pod[i] EXCEPT !.phase = ph] \in PodObjects
        /\ \A ip \in IPs : [pod[i] EXCEPT !.ip = ip] \in PodObjects
  BY <1>1 DEF Present, PodObjects
<1>4. pod[i].phase # "Absent" => Present(pod[i])
  BY DEF Present, NoPod
<1>5. CASE PodStarts(i)
  BY <1>2, <1>3, <1>4, <1>5 DEF PodStarts, PodPhases
<1>6. CASE PodGetsIP(i)
  BY <1>2, <1>3, <1>4, <1>6 DEF PodGetsIP
<1>7. CASE PodExits(i)
  <2>1. PICK ph \in PodPhases : WritePod(i, [pod[i] EXCEPT !.phase = ph])
    BY <1>7 DEF PodExits, PodPhases
  <2>2. [pod[i] EXCEPT !.phase = ph] \in PodObjects
    BY <1>3, <1>4, <1>7 DEF PodExits
  <2>3. QED
    BY <1>7, <2>1, <2>2, WriteTypes DEF PodExits, MayDisturb, TypeOK, ClusterTypeOK
<1>8. CASE PodGone(i)
  BY <1>2, <1>8, ObjectTypes DEF PodGone
<1>9. CASE CollectPod(i)
  BY <1>2, <1>3, <1>9 DEF CollectPod
<1>10. CASE CollectService(i)
  BY <1>10, ObjectTypes, WriteTypes DEF CollectService, TypeOK, ClusterTypeOK
<1>11. QED
  BY <1>5, <1>6, <1>7, <1>8, <1>9, <1>10 DEF Platform

\* The worker's own variables, apart from what it writes.
WorkerTypeOK ==
  /\ queue \subseteq Instances
  /\ pc \in Places
  /\ key \in Instances \cup {NoKey}
  /\ pc = "idle" <=> key = NoKey
  /\ obj \in InstanceObjects
  /\ goal \in Reports
  /\ faults \in Nat
  /\ icache \in [Instances -> InstanceObjects]
  /\ pcache \in [Instances -> PodObjects]
  /\ scache \in [Instances -> SvcObjects]

LEMMA SplitTypeOK == TypeOK' <=> ClusterTypeOK' /\ WorkerTypeOK'
  BY DEF TypeOK, WorkerTypeOK

\* How a step of Reconcile ends: it returns, or it goes on at some place.
LEMMA OutcomeTypes ==
  ASSUME TypeOK, pc # "idle"
  PROVE  /\ Return => WorkerTypeOK'
         /\ ReturnError => WorkerTypeOK'
         /\ ServerSaysNo => TypeOK'
         /\ \A p \in Places \ {"idle"}, o \in InstanceObjects, g \in Reports :
              Proceed(p, o, g) => WorkerTypeOK'
<1> USE ObjectTypes DEF TypeOK, WorkerTypeOK
<1>1. key \in Instances
  OBVIOUS
<1>2. Return => WorkerTypeOK'
  BY DEF Return, Rest, Places
<1>3. ReturnError => WorkerTypeOK'
  BY <1>1 DEF ReturnError, Rest, Places
<1>4. ServerSaysNo => TypeOK'
  BY <1>3 DEF ServerSaysNo, clusterVars, ClusterTypeOK
<1>5. ASSUME NEW p \in Places \ {"idle"}, NEW o \in InstanceObjects,
             NEW g \in Reports, Proceed(p, o, g)
      PROVE  WorkerTypeOK'
  BY <1>5 DEF Proceed
<1>6. QED BY <1>2, <1>3, <1>4, <1>5

\* One step of Reconcile.
LEMMA WorkerTypes == TypeOK /\ WorkerStep => TypeOK'
<1> SUFFICES ASSUME TypeOK, WorkerStep PROVE TypeOK'
  OBVIOUS
<1>1. pc # "idle" /\ key \in Instances
  BY DEF TypeOK, WorkerStep, Cleanup, RemoveFinalizer, AddFinalizer, ReconcileService,
         ClearExpiredWoken, ClearExpiredSuspended, Decide, StopPod, CreatePod,
         ObservePod, UpdateStatus
<1>2. /\ inst[key] \in InstanceObjects /\ pod[key] \in PodObjects
      /\ svc[key] \in SvcObjects /\ pcache[key] \in PodObjects
      /\ obj \in InstanceObjects /\ goal \in Reports
  BY <1>1 DEF TypeOK, ClusterTypeOK
<1>3. UNCHANGED clusterVars => ClusterTypeOK'
  BY DEF TypeOK, ClusterTypeOK, clusterVars
<1>4. ASSUME NEW p \in Places \ {"idle"}, NEW g \in Reports, DeleteInstancePod(p, g)
      PROVE  TypeOK'
  <2>1. WorkerTypeOK'
    BY <1>1, <1>2, <1>4, OutcomeTypes DEF DeleteInstancePod
  <2>2. Present(pod[key]) => [pod[key] EXCEPT !.deleting = TRUE] \in PodObjects
    BY <1>2 DEF PodObjects, Present
  <2>3. ClusterTypeOK'
    BY <1>1, <1>3, <1>4, <2>2, WriteTypes
    DEF DeleteInstancePod, TypeOK, ClusterTypeOK
  <2>4. QED BY <2>1, <2>3, SplitTypeOK
<1>5. ASSUME NEW p \in Places \ {"idle"}, NEW l \in InstanceObjects,
             NEW o \in InstanceObjects, StatusPatch(l, o, p)
      PROVE  TypeOK'
  <2>1. CASE ~inst[key].exists
    BY <1>1, <1>5, <2>1, OutcomeTypes DEF StatusPatch
  <2>2. CASE inst[key].exists
    <3>1. WorkerTypeOK'
      BY <1>1, <1>2, <1>5, <2>2, OutcomeTypes, DecodeType DEF StatusPatch
    <3>2. ClusterTypeOK'
      BY <1>1, <1>5, <2>2, WriteTypes DEF StatusPatch, TypeOK, ClusterTypeOK
    <3>3. QED BY <3>1, <3>2, SplitTypeOK
  <2>3. QED BY <2>1, <2>2
<1>6. CASE Cleanup
  BY <1>2, <1>4, <1>6 DEF Cleanup, Places
<1>7. CASE RemoveFinalizer
  <2>1. NoInstance(obj.uid, obj.svcType) \in InstanceObjects
    BY <1>2, ObjectTypes DEF InstanceObjects
  <2>2. CASE obj = inst[key]
    <3>1. ClusterTypeOK'
      BY <1>1, <1>7, <2>1, <2>2, WriteTypes DEF RemoveFinalizer, TypeOK, ClusterTypeOK
    <3>2. QED BY <1>1, <1>7, <2>2, <3>1, OutcomeTypes, SplitTypeOK DEF RemoveFinalizer
  <2>3. QED BY <1>1, <1>7, <2>2, OutcomeTypes DEF RemoveFinalizer
<1>8. CASE AddFinalizer
  <2>1. [obj EXCEPT !.finalizer = TRUE] \in InstanceObjects
    BY <1>2 DEF InstanceObjects
  <2>2. CASE obj = inst[key]
    <3>1. ClusterTypeOK'
      BY <1>1, <1>8, <2>1, <2>2, WriteTypes DEF AddFinalizer, TypeOK, ClusterTypeOK
    <3>2. WorkerTypeOK'
      BY <1>1, <1>2, <1>8, <2>1, <2>2, OutcomeTypes DEF AddFinalizer, Places
    <3>3. QED BY <3>1, <3>2, SplitTypeOK
  <2>3. QED BY <1>1, <1>8, <2>2, OutcomeTypes DEF AddFinalizer
<1>9. CASE ReconcileService
  <2>1. [exists |-> TRUE, type |-> obj.svcType, owner |-> obj.uid] \in SvcObjects
    BY <1>2 DEF SvcObjects, InstanceObjects
  <2>2. svc[key].exists => [svc[key] EXCEPT !.type = obj.svcType] \in SvcObjects
    <3>1. obj.svcType \in ServiceTypes
      BY <1>2 DEF InstanceObjects
    <3>2. svc[key].exists => svc[key] # NoSvc
      BY DEF NoSvc
    <3>3. QED BY <1>2, <3>1, <3>2 DEF SvcObjects
  <2>3. CASE scache[key].exists = svc[key].exists
    <3>1. PICK s \in SvcObjects : WriteSvc(key, s)
      BY <1>2, <1>9, <2>1, <2>2, <2>3 DEF ReconcileService
    <3>2. ClusterTypeOK'
      BY <1>1, <1>9, <2>3, <3>1, WriteTypes DEF ReconcileService, TypeOK, ClusterTypeOK
    <3>3. WorkerTypeOK'
      BY <1>1, <1>2, <1>9, <2>3, OutcomeTypes DEF ReconcileService, Places
    <3>4. QED BY <3>2, <3>3, SplitTypeOK
  <2>4. QED BY <1>1, <1>9, <2>3, OutcomeTypes DEF ReconcileService
<1>10. ASSUME NEW o \in InstanceObjects
       PROVE  /\ [o EXCEPT !.woken = Cleared] \in InstanceObjects
              /\ [o EXCEPT !.suspended = Cleared] \in InstanceObjects
  BY OverrideTypes DEF InstanceObjects
<1>11. ASSUME NEW p \in Places \ {"idle"}, NEW g \in Reports,
              Proceed(p, obj, g), UNCHANGED clusterVars
       PROVE  TypeOK'
  BY <1>1, <1>2, <1>3, <1>11, OutcomeTypes, SplitTypeOK
<1>12. CASE ClearExpiredWoken
  BY <1>2, <1>5, <1>10, <1>11, <1>12 DEF ClearExpiredWoken, Places
<1>13. CASE ClearExpiredSuspended
  BY <1>2, <1>5, <1>10, <1>11, <1>13 DEF ClearExpiredSuspended, Places
<1>14. CASE Decide
  BY <1>2, <1>11, <1>14 DEF Decide, Places
<1>15. CASE StopPod
  BY <1>4, <1>15, ObjectTypes DEF StopPod, Places
<1>16. CASE CreatePod
  <2>1. NewPod(obj.uid) \in PodObjects
    BY <1>2, ObjectTypes DEF InstanceObjects
  <2>2. CASE ~Present(pod[key])
    <3>1. ClusterTypeOK'
      BY <1>1, <1>16, <2>1, <2>2, WriteTypes DEF CreatePod, TypeOK, ClusterTypeOK
    <3>2. WorkerTypeOK'
      BY <1>1, <1>2, <1>16, <2>2, ObjectTypes, OutcomeTypes DEF CreatePod, Places
    <3>3. QED BY <3>1, <3>2, SplitTypeOK
  <2>3. QED BY <1>1, <1>16, <2>2, OutcomeTypes DEF CreatePod
<1>17. CASE ObservePod
  BY <1>2, <1>11, <1>17, PodReportType DEF ObservePod, Places
<1>18. CASE UpdateStatus
  <2>1. \A reworded \in BOOLEAN :
          StatusDiff(inst[key], obj, goal, reworded) \in InstanceObjects
    BY <1>2, StatusDiffType
  <2>2. CASE inst[key].exists
    <3>1. ClusterTypeOK'
      BY <1>1, <1>18, <2>1, <2>2, WriteTypes DEF UpdateStatus, TypeOK, ClusterTypeOK
    <3>2. QED BY <1>1, <1>18, <2>2, <3>1, OutcomeTypes, SplitTypeOK DEF UpdateStatus
  <2>3. QED BY <1>1, <1>18, <2>2, OutcomeTypes DEF UpdateStatus
<1>19. QED
  BY <1>6, <1>7, <1>8, <1>9, <1>12, <1>13, <1>14, <1>15, <1>16, <1>17, <1>18
  DEF WorkerStep

\* The steps around Reconcile: the queue, the informers, faults and time.
MachineryStep ==
  \/ \E i \in Instances :
       Begin(i) \/ Resync(i) \/ DeliverInstance(i) \/ DeliverPod(i) \/ DeliverService(i)
  \/ Abort \/ Restart \/ TimePasses

LEMMA MachineryTypes == TypeOK /\ MachineryStep => TypeOK'
<1> SUFFICES ASSUME TypeOK, MachineryStep PROVE TypeOK'
  OBVIOUS
<1> USE DEF TypeOK, ClusterTypeOK
<1>1. ASSUME NEW i \in Instances, Begin(i) PROVE TypeOK'
  <2>1. i # NoKey
    BY ReconcilerAssumption
  <2>2. icache[i] \in InstanceObjects
    OBVIOUS
  <2>3. QED BY <1>1, <2>1, <2>2, ObjectTypes DEF Begin, workerVars, clusterVars, Places
<1>2. ASSUME NEW i \in Instances, Resync(i) PROVE TypeOK'
  BY <1>2 DEF Resync, clusterVars
<1>3. ASSUME NEW i \in Instances, DeliverInstance(i) PROVE TypeOK'
  BY <1>3 DEF DeliverInstance
<1>4. ASSUME NEW i \in Instances, DeliverPod(i) PROVE TypeOK'
  BY <1>4 DEF DeliverPod
<1>5. ASSUME NEW i \in Instances, DeliverService(i) PROVE TypeOK'
  BY <1>5 DEF DeliverService
<1>6. CASE Abort
  BY <1>6, ObjectTypes DEF Abort, Rest, clusterVars, Places
<1>7. CASE Restart
  BY <1>7, ObjectTypes DEF Restart, Rest, Places
<1>8. CASE TimePasses
  BY <1>8 DEF TimePasses, Tick, reconcilerVars
<1>9. QED
  BY <1>1, <1>2, <1>3, <1>4, <1>5, <1>6, <1>7, <1>8 DEF MachineryStep

\* A step of somebody else.
LEMMA OutsideTypes ==
  ASSUME TypeOK, NEW i \in Instances, Outside(i) PROVE TypeOK'
<1>1. ClusterTypeOK'
  BY UserTypes, PlatformTypes DEF Outside
<1>2. WorkerTypeOK'
  BY DEF Outside, reconcilerVars, TypeOK, WorkerTypeOK
<1>3. QED BY <1>1, <1>2, SplitTypeOK

LEMMA NextCases ==
  Next <=> WorkerStep \/ MachineryStep \/ \E i \in Instances : Outside(i)
  BY DEF Next, Running, MachineryStep

LEMMA TypeInit == Init => TypeOK
<1> SUFFICES ASSUME Init PROVE TypeOK
  OBVIOUS
<1>1. {NoInstance(0, t) : t \in ServiceTypes} \subseteq InstanceObjects
  BY ObjectTypes
<1>2. {NewInstance(1, s, t) : s \in BOOLEAN, t \in ServiceTypes} \subseteq InstanceObjects
  BY ObjectTypes
<1>3. inst \in [Instances -> InstanceObjects]
  BY <1>1, <1>2 DEF Init, ClusterInit
<1>4. QED
  BY <1>3, ObjectTypes DEF Init, ClusterInit, TypeOK, ClusterTypeOK, Places

LEMMA TypeStep == TypeOK /\ [Next]_vars => TypeOK'
<1>1. TypeOK /\ Next => TypeOK'
  BY NextCases, WorkerTypes, MachineryTypes, OutsideTypes
<1>2. TypeOK /\ UNCHANGED vars => TypeOK'
  BY DEF TypeOK, ClusterTypeOK, vars
<1>3. QED BY <1>1, <1>2

\* Every variable keeps its type in every reachable state, whatever the number of
\* instances, service types, addresses, users and faults.
THEOREM TypeCorrect == Spec => []TypeOK
  BY TypeInit, TypeStep, PTL DEF Spec

-----------------------------------------------------------------------------
(* Caches. *)

\* An object the step leaves visible as up to date was so before, and the step
\* did not change it.
WritesShow ==
  \A j \in Instances :
    /\ j \in iseen' => j \in iseen /\ inst'[j] = inst[j]
    /\ j \in pseen' => j \in pseen /\ pod'[j] = pod[j]
    /\ j \in sseen' => j \in sseen /\ svc'[j] = svc[j]

LEMMA WriteShows ==
  ASSUME TypeOK, NEW i \in Instances
  PROVE  /\ \A o : WriteInst(i, o) =>
              \A j \in Instances : j \in iseen' => j \in iseen /\ inst'[j] = inst[j]
         /\ \A p : WritePod(i, p) =>
              \A j \in Instances : j \in pseen' => j \in pseen /\ pod'[j] = pod[j]
         /\ \A s : WriteSvc(i, s) =>
              \A j \in Instances : j \in sseen' => j \in sseen /\ svc'[j] = svc[j]
  BY DEF TypeOK, ClusterTypeOK, WriteInst, WritePod, WriteSvc

LEMMA OutsideShows ==
  ASSUME TypeOK, NEW i \in Instances, Outside(i) PROVE WritesShow
<1>1. \A kind, o : UserWrite(kind, i, o) => WritesShow
  BY WriteShows DEF UserWrite, WritesShow
<1>2. \A p : KubeletWrite(i, p) => WritesShow
  BY WriteShows DEF KubeletWrite, WritesShow
<1>3. CASE User(i)
  <2>1. CASE EvictPod(i)
    BY <2>1, WriteShows DEF EvictPod, WritesShow
  <2>2. CASE TamperService(i)
    BY <2>2, WriteShows DEF TamperService, WritesShow
  <2>3. QED
    BY <1>1, <1>3, <2>1, <2>2
    DEF User, CreateInstance, DeleteInstance, EditSpec, SuspendOverride,
        ResumeOverride, WakeOverride, ClearWokenOverride
<1>4. CASE Platform(i)
  <2>1. CASE CollectService(i)
    BY <2>1, WriteShows DEF CollectService, WritesShow
  <2>2. CASE PodExits(i)
    BY <2>2, WriteShows DEF PodExits, WritesShow
  <2>3. QED
    BY <1>2, <1>4, <2>1, <2>2
    DEF Platform, PodStarts, PodGetsIP, PodGone, CollectPod
<1>5. QED BY <1>3, <1>4 DEF Outside

LEMMA WorkerShows == TypeOK /\ WorkerStep => WritesShow
<1> SUFFICES ASSUME TypeOK, WorkerStep PROVE WritesShow
  OBVIOUS
<1>1. key \in Instances
  BY DEF TypeOK, WorkerStep, Cleanup, RemoveFinalizer, AddFinalizer, ReconcileService,
         ClearExpiredWoken, ClearExpiredSuspended, Decide, StopPod, CreatePod,
         ObservePod, UpdateStatus
<1>2. UNCHANGED clusterVars => WritesShow
  BY DEF clusterVars, WritesShow
<1>3. \A p, g : DeleteInstancePod(p, g) => WritesShow
  BY <1>1, <1>2, WriteShows DEF DeleteInstancePod, WritesShow
<1>4. ServerSaysNo => WritesShow
  BY <1>2 DEF ServerSaysNo
<1>5. \A l, o, p : StatusPatch(l, o, p) => WritesShow
  BY <1>1, <1>4, WriteShows DEF StatusPatch, WritesShow
<1>6. CASE RemoveFinalizer \/ AddFinalizer
  BY <1>1, <1>4, <1>6, WriteShows DEF RemoveFinalizer, AddFinalizer, WritesShow
<1>7. CASE ReconcileService
  BY <1>1, <1>4, <1>7, WriteShows DEF ReconcileService, WritesShow
<1>8. CASE CreatePod
  BY <1>1, <1>4, <1>8, WriteShows DEF CreatePod, WritesShow
<1>9. CASE UpdateStatus
  BY <1>1, <1>4, <1>9, WriteShows DEF UpdateStatus, WritesShow
<1>10. QED
  BY <1>2, <1>3, <1>5, <1>6, <1>7, <1>8, <1>9
  DEF WorkerStep, Cleanup, StopPod, ClearExpiredWoken, ClearExpiredSuspended, Decide,
      ObservePod

\* Only a delivery or a restart changes a cache, and then to what the server holds.
LEMMA CacheStep == TypeOK /\ CachesFresh /\ Next => CachesFresh'
<1> SUFFICES ASSUME TypeOK, CachesFresh, Next PROVE CachesFresh'
  OBVIOUS
<1>1. WritesShow /\ UNCHANGED cacheVars => CachesFresh'
  BY DEF WritesShow, cacheVars, CachesFresh
<1>2. CASE WorkerStep
  <2>1. UNCHANGED cacheVars
    BY <1>2
    DEF WorkerStep, Cleanup, RemoveFinalizer, AddFinalizer, ReconcileService,
        ClearExpiredWoken, ClearExpiredSuspended, Decide, StopPod, CreatePod,
        ObservePod, UpdateStatus, DeleteInstancePod, StatusPatch, ServerSaysNo,
        ReturnError, Return, Proceed, cacheVars
  <2>2. QED BY <1>1, <1>2, <2>1, WorkerShows
<1>3. ASSUME NEW i \in Instances, Outside(i) PROVE CachesFresh'
  BY <1>1, <1>3, OutsideShows DEF Outside, reconcilerVars, cacheVars
<1>4. ASSUME NEW i \in Instances, Begin(i) \/ Resync(i) PROVE CachesFresh'
  BY <1>1, <1>4 DEF Begin, Resync, clusterVars, cacheVars, WritesShow
<1>5. ASSUME NEW i \in Instances,
             DeliverInstance(i) \/ DeliverPod(i) \/ DeliverService(i)
      PROVE  CachesFresh'
  BY <1>5 DEF DeliverInstance, DeliverPod, DeliverService, CachesFresh, TypeOK
<1>6. CASE Abort \/ TimePasses
  BY <1>1, <1>6
  DEF Abort, TimePasses, Tick, reconcilerVars, clusterVars, cacheVars, WritesShow
<1>7. CASE Restart
  BY <1>7 DEF Restart, CachesFresh
<1>8. QED
  BY <1>2, <1>3, <1>4, <1>5, <1>6, <1>7, NextCases DEF MachineryStep

-----------------------------------------------------------------------------
(* Incarnations. *)

\* The step keeps who each RedroidInstance is and makes no Pod.
SameIdentity(o, n) ==
  /\ n.exists = o.exists /\ n.uid = o.uid
  /\ n.deleting = o.deleting /\ n.finalizer = o.finalizer

PodsKept ==
  \A j \in Instances : Present(pod'[j]) => Present(pod[j]) /\ pod'[j].owner = pod[j].owner

IdentitiesKept == \A j \in Instances : SameIdentity(inst[j], inst'[j])

LEMMA CacheIncarnationKept ==
  ASSUME TypeOK, Incarnations, PodsKept, IdentitiesKept, icache' = icache
  PROVE  \A i \in Instances : CacheIncarnation(i)'
  BY DEF Incarnations, CacheIncarnation, PodsKept, IdentitiesKept, SameIdentity, TypeOK,
         ClusterTypeOK, InstanceObjects

\* What is left to the pass is kept while the worker stays where it is.
LEMMA IncarnationsKept ==
  ASSUME TypeOK, Incarnations, PodsKept, IdentitiesKept,
         UNCHANGED <<icache, pc, key, obj>>
  PROVE  Incarnations'
<1>1. PassIncarnation'
  BY DEF Incarnations, PassIncarnation, PodsKept, IdentitiesKept, SameIdentity, TypeOK,
         InCleanup, InPass
<1>2. QED BY <1>1, CacheIncarnationKept DEF Incarnations

\* Nothing is claimed of a worker that rests.
LEMMA RestIncarnation == Rest => PassIncarnation'
  BY DEF Rest, PassIncarnation, InCleanup, InPass

LEMMA OutsideIncarnations ==
  ASSUME TypeOK, Incarnations, NEW i \in Instances, Outside(i)
  PROVE  Incarnations'
<1>1. UNCHANGED <<icache, pc, key, obj>>
  BY DEF Outside, reconcilerVars
<1>2. inst[i] \in InstanceObjects /\ pod[i] \in PodObjects
  BY DEF TypeOK, ClusterTypeOK
<1>3. ASSUME NEW kind, NEW o, UserWrite(kind, i, o), SameIdentity(inst[i], o)
      PROVE  Incarnations'
  <2>1. PodsKept /\ IdentitiesKept
    BY <1>3 DEF UserWrite, WriteInst, PodsKept, IdentitiesKept, SameIdentity, TypeOK,
               ClusterTypeOK
  <2>2. QED BY <1>1, <2>1, IncarnationsKept
<1>4. ASSUME NEW p, WritePod(i, p), inst' = inst,
             Present(p) => Present(pod[i]) /\ p.owner = pod[i].owner
      PROVE  Incarnations'
  <2>1. PodsKept /\ IdentitiesKept
    BY <1>4 DEF WritePod, PodsKept, IdentitiesKept, SameIdentity, TypeOK, ClusterTypeOK
  <2>2. QED BY <1>1, <2>1, IncarnationsKept
<1>5. CASE CreateInstance(i)
  <2>1. PICK s \in BOOLEAN, t \in ServiceTypes :
          UserWrite("create", i, NewInstance(inst[i].uid + 1, s, t))
    BY <1>5 DEF CreateInstance
  <2>2. inst[i].uid \in Nat /\ icache[i].uid \in Nat /\ ~inst[i].exists
    BY <1>2, <1>5 DEF InstanceObjects, CreateInstance, TypeOK
  <2>3. /\ inst'[i].uid = inst[i].uid + 1 /\ inst'[i].exists
        /\ ~inst'[i].deleting /\ ~inst'[i].finalizer
    BY <2>1 DEF UserWrite, WriteInst, NewInstance, TypeOK, ClusterTypeOK
  <2>4. pod' = pod /\ \A j \in Instances \ {i} : inst'[j] = inst[j]
    BY <2>1 DEF UserWrite, WriteInst, TypeOK, ClusterTypeOK
  <2>5. \A j \in Instances : CacheIncarnation(j)'
    BY <1>1, <2>2, <2>3, <2>4 DEF Incarnations, CacheIncarnation
  <2>6. PassIncarnation'
    <3>1. CASE key # i
      BY <1>1, <2>4, <3>1 DEF Incarnations, PassIncarnation, TypeOK, InCleanup, InPass
    <3>2. CASE key = i
      <4>1. pc \notin InPass /\ obj.uid \in Nat
        BY <2>2, <3>2 DEF Incarnations, PassIncarnation, TypeOK, InstanceObjects
      <4>2. obj.uid <= inst[i].uid
        BY <2>2, <3>2, <4>1, ReconcilerAssumption
        DEF Incarnations, PassIncarnation, CacheIncarnation
      <4>3. inst'[i].uid # obj.uid
        BY <2>2, <2>3, <4>1, <4>2
      <4>4. QED
        BY <1>1, <2>4, <3>2, <4>1, <4>3 DEF Incarnations, PassIncarnation
    <3>3. QED BY <3>1, <3>2
  <2>7. QED BY <2>5, <2>6 DEF Incarnations
<1>6. CASE DeleteInstance(i)
  <2>1. CASE ~inst[i].finalizer
    <3>1. UserWrite("delete", i, NoInstance(inst[i].uid, inst[i].svcType))
      BY <1>6, <2>1 DEF DeleteInstance
    <3>2. inst'[i].uid = inst[i].uid /\ ~inst'[i].exists
      BY <3>1 DEF UserWrite, WriteInst, NoInstance, NewInstance, TypeOK, ClusterTypeOK
    <3>3. pod' = pod /\ \A j \in Instances \ {i} : inst'[j] = inst[j]
      BY <3>1 DEF UserWrite, WriteInst, TypeOK, ClusterTypeOK
    <3>4. \A j \in Instances : CacheIncarnation(j)'
      BY <1>1, <2>1, <3>2, <3>3 DEF Incarnations, CacheIncarnation
    <3>5. PassIncarnation'
      BY <1>1, <2>1, <3>2, <3>3
      DEF Incarnations, PassIncarnation, TypeOK, InCleanup, InPass
    <3>6. QED BY <3>4, <3>5 DEF Incarnations
  <2>2. CASE inst[i].finalizer
    <3>1. UserWrite("delete", i, [inst[i] EXCEPT !.deleting = TRUE])
      BY <1>6, <2>2 DEF DeleteInstance
    <3>2. /\ inst'[i].uid = inst[i].uid /\ inst'[i].exists = inst[i].exists
          /\ inst'[i].deleting /\ inst'[i].finalizer
      BY <1>2, <2>2, <3>1
      DEF UserWrite, WriteInst, TypeOK, ClusterTypeOK, InstanceObjects
    <3>3. pod' = pod /\ \A j \in Instances \ {i} : inst'[j] = inst[j]
      BY <3>1 DEF UserWrite, WriteInst, TypeOK, ClusterTypeOK
    <3>4. \A j \in Instances : CacheIncarnation(j)'
      BY <1>1, <2>2, <3>2, <3>3 DEF Incarnations, CacheIncarnation
    <3>5. PassIncarnation'
      BY <1>1, <2>2, <3>2, <3>3
      DEF Incarnations, PassIncarnation, TypeOK, InCleanup, InPass
    <3>6. QED BY <3>4, <3>5 DEF Incarnations
  <2>3. QED BY <2>1, <2>2
<1>7. CASE EditSpec(i)
  <2>1. \A s, t : SameIdentity(inst[i], [inst[i] EXCEPT !.suspend = s, !.svcType = t])
    BY <1>2 DEF SameIdentity, InstanceObjects
  <2>2. QED BY <1>3, <1>7, <2>1 DEF EditSpec
<1>8. \A o : /\ SameIdentity(inst[i], [inst[i] EXCEPT !.suspended = o])
             /\ SameIdentity(inst[i], [inst[i] EXCEPT !.woken = o])
  BY <1>2 DEF SameIdentity, InstanceObjects
<1>9. CASE SuspendOverride(i) \/ ResumeOverride(i)
  BY <1>3, <1>8, <1>9 DEF SuspendOverride, ResumeOverride
<1>10. CASE WakeOverride(i) \/ ClearWokenOverride(i)
  BY <1>3, <1>8, <1>10 DEF WakeOverride, ClearWokenOverride
<1>11. Present(pod[i]) => /\ [pod[i] EXCEPT !.deleting = TRUE].owner = pod[i].owner
                          /\ \A ph : [pod[i] EXCEPT !.phase = ph].owner = pod[i].owner
                          /\ \A ip : [pod[i] EXCEPT !.ip = ip].owner = pod[i].owner
  BY <1>2 DEF PodObjects, Present
<1>12. pod[i].phase # "Absent" => Present(pod[i])
  BY DEF Present, NoPod
<1>13. CASE EvictPod(i) \/ CollectPod(i)
  BY <1>4, <1>11, <1>13 DEF EvictPod, CollectPod, KubeletWrite
<1>14. CASE TamperService(i) \/ CollectService(i)
  <2>1. PodsKept /\ IdentitiesKept
    BY <1>14 DEF TamperService, CollectService, PodsKept, IdentitiesKept, SameIdentity
  <2>2. QED BY <1>1, <2>1, IncarnationsKept
<1>15. CASE PodStarts(i) \/ PodGetsIP(i) \/ PodGone(i)
  BY <1>4, <1>11, <1>12, <1>15 DEF PodStarts, PodGetsIP, PodGone, KubeletWrite, Present
<1>16. CASE PodExits(i)
  BY <1>4, <1>11, <1>12, <1>16 DEF PodExits
<1>17. QED
  BY <1>5, <1>6, <1>7, <1>9, <1>10, <1>13, <1>14, <1>15, <1>16
  DEF Outside, User, Platform

LEMMA MachineryIncarnations ==
  TypeOK /\ CachesFresh /\ Incarnations /\ MachineryStep => Incarnations'
<1> SUFFICES ASSUME TypeOK, CachesFresh, Incarnations, MachineryStep
             PROVE  Incarnations'
  OBVIOUS
<1>1. inst' = inst /\ pod' = pod => PodsKept /\ IdentitiesKept
  BY DEF PodsKept, IdentitiesKept, SameIdentity
<1>2. ASSUME NEW i \in Instances, Begin(i) PROVE Incarnations'
  <2>1. inst' = inst /\ pod' = pod /\ icache' = icache
    BY <1>2 DEF Begin, clusterVars
  <2>2. CASE UNCHANGED workerVars
    BY <1>1, <2>1, <2>2, IncarnationsKept DEF workerVars
  <2>3. CASE ~UNCHANGED workerVars
    <3>1. /\ key' = i /\ obj' = icache[i] /\ icache[i].exists
          /\ \/ pc' = "cleanup" /\ icache[i].deleting
             \/ pc' = "finalize" /\ ~icache[i].deleting
             \/ pc' = "service" /\ ~icache[i].deleting /\ icache[i].finalizer
      BY <1>2, <2>3 DEF Begin
    <3>2. CacheIncarnation(i) /\ icache[i].uid \in Nat
      BY DEF Incarnations, TypeOK, InstanceObjects
    <3>3. PassIncarnation'
      BY <2>1, <3>1, <3>2 DEF CacheIncarnation, PassIncarnation, InCleanup, InPass
    <3>4. QED BY <1>1, <2>1, <3>3, CacheIncarnationKept DEF Incarnations
  <2>4. QED BY <2>2, <2>3
<1>3. ASSUME NEW i \in Instances,
             Resync(i) \/ DeliverPod(i) \/ DeliverService(i) \/ TimePasses
      PROVE  Incarnations'
  BY <1>1, <1>3, IncarnationsKept
  DEF Resync, DeliverPod, DeliverService, TimePasses, Tick, reconcilerVars, clusterVars
<1>4. ASSUME NEW i \in Instances, DeliverInstance(i) PROVE Incarnations'
  <2>1. /\ inst' = inst /\ pod' = pod /\ icache' = [icache EXCEPT ![i] = inst[i]]
        /\ UNCHANGED <<pc, key, obj>>
    BY <1>4 DEF DeliverInstance
  <2>2. icache \in [Instances -> InstanceObjects] /\ inst[i] \in InstanceObjects
    BY DEF TypeOK, ClusterTypeOK
  <2>3. Present(pod[i]) => pod[i].owner \in Nat
    BY DEF TypeOK, ClusterTypeOK, PodObjects, Present
  <2>4. inst[i].uid \in Nat /\ icache[i].uid \in Nat /\ obj.uid \in Nat
    BY <2>2 DEF InstanceObjects, TypeOK
  <2>5. icache'[i] = inst[i] /\ \A j \in Instances \ {i} : icache'[j] = icache[j]
    BY <2>1, <2>2
  <2>6. \A j \in Instances : CacheIncarnation(j)'
    BY <2>1, <2>3, <2>4, <2>5 DEF Incarnations, CacheIncarnation
  <2>7. PassIncarnation'
    BY <2>1, <2>4, <2>5
    DEF Incarnations, CacheIncarnation, PassIncarnation, InCleanup, InPass, TypeOK
  <2>8. QED BY <2>6, <2>7 DEF Incarnations
<1>5. CASE Abort
  BY <1>1, <1>5, CacheIncarnationKept, RestIncarnation
  DEF Abort, clusterVars, Incarnations
<1>6. CASE Restart
  <2>1. inst' = inst /\ pod' = pod /\ icache' = inst
    BY <1>6 DEF Restart
  <2>2. \A j \in Instances : CacheIncarnation(j)'
    <3>1. ASSUME NEW j \in Instances PROVE CacheIncarnation(j)'
      <4>1. inst[j].uid \in Nat /\ icache[j].uid \in Nat
            /\ (Present(pod[j]) => pod[j].owner \in Nat)
        BY DEF TypeOK, ClusterTypeOK, InstanceObjects, PodObjects, Present
      <4>2. QED BY <2>1, <4>1 DEF Incarnations, CacheIncarnation
    <3>2. QED BY <3>1
  <2>3. QED BY <1>6, <2>2, RestIncarnation DEF Restart, Incarnations
<1>7. CASE TimePasses
  BY <1>1, <1>7, IncarnationsKept DEF TimePasses, Tick, reconcilerVars
<1>8. QED BY <1>2, <1>3, <1>4, <1>5, <1>6, <1>7 DEF MachineryStep

LEMMA WorkerIncarnations ==
  TypeOK /\ Incarnations /\ WorkerStep => Incarnations'
<1> SUFFICES ASSUME TypeOK, Incarnations, WorkerStep PROVE Incarnations'
  OBVIOUS
<1>1. pc # "idle" /\ key \in Instances /\ key # NoKey
  BY DEF TypeOK, WorkerStep, Cleanup, RemoveFinalizer, AddFinalizer, ReconcileService,
         ClearExpiredWoken, ClearExpiredSuspended, Decide, StopPod, CreatePod,
         ObservePod, UpdateStatus
<1>2. /\ inst[key] \in InstanceObjects /\ obj \in InstanceObjects
      /\ icache[key] \in InstanceObjects /\ pod[key] \in PodObjects
  BY <1>1 DEF TypeOK, ClusterTypeOK
<1>3. inst[key].uid \in Nat /\ icache[key].uid \in Nat /\ obj.uid \in Nat
  BY <1>2 DEF InstanceObjects
<1>4. inst' = inst /\ pod' = pod => PodsKept /\ IdentitiesKept
  BY DEF PodsKept, IdentitiesKept, SameIdentity
<1>5. ServerSaysNo => Incarnations'
  BY <1>4, CacheIncarnationKept, RestIncarnation
  DEF ServerSaysNo, ReturnError, clusterVars, Incarnations
<1>6. ASSUME PodsKept, IdentitiesKept, icache' = icache, key' = key, obj'.uid = obj.uid,
             pc' # "finalize", pc' \in InCleanup => pc \in InCleanup,
             pc' \in InPass => pc \in InPass
      PROVE  Incarnations'
  <2>1. PassIncarnation'
    BY <1>1, <1>6 DEF Incarnations, PassIncarnation, PodsKept, IdentitiesKept, SameIdentity
  <2>2. QED BY <1>6, <2>1, CacheIncarnationKept DEF Incarnations
<1>7. ASSUME NEW p, NEW g, DeleteInstancePod(p, g)
      PROVE  PodsKept /\ IdentitiesKept /\ icache' = icache /\ key' = key
             /\ obj'.uid = obj.uid /\ pc' = p
  <2>1. Present(pod[key]) => [pod[key] EXCEPT !.deleting = TRUE].owner = pod[key].owner
    BY <1>2 DEF PodObjects, Present
  <2>2. icache' = icache /\ key' = key /\ obj' = obj /\ pc' = p /\ inst' = inst
    BY <1>7 DEF DeleteInstancePod, Proceed, clusterVars
  <2>3. PodsKept
    BY <1>1, <1>4, <1>7, <2>1
    DEF DeleteInstancePod, WritePod, PodsKept, clusterVars, TypeOK, ClusterTypeOK
  <2>4. QED BY <2>2, <2>3 DEF IdentitiesKept, SameIdentity
<1>8. ASSUME NEW l, NEW o, NEW p, StatusPatch(l, o, p), SameIdentity(inst[key], o),
             pc \in InPass, p \in InPass
      PROVE  Incarnations'
  <2>1. CASE inst[key].exists
    <3>1. PodsKept /\ IdentitiesKept /\ icache' = icache /\ key' = key /\ pc' = p
      BY <1>1, <1>8, <2>1
      DEF StatusPatch, WriteInst, Proceed, PodsKept, IdentitiesKept, SameIdentity,
          TypeOK, ClusterTypeOK
    <3>2. obj'.uid = o.uid
      <4>1. obj' = Decode(l, o)
        BY <1>8, <2>1 DEF StatusPatch, Proceed
      <4>2. Decode(l, o).uid = o.uid
        BY DEF Decode
      <4>3. QED BY <4>1, <4>2
    <3>3. obj'.uid = obj.uid
      BY <1>8, <3>2 DEF SameIdentity, Incarnations, PassIncarnation
    <3>4. QED BY <1>6, <1>8, <3>1, <3>3 DEF InPass, InCleanup
  <2>2. QED BY <1>5, <1>8, <2>1 DEF StatusPatch
<1>9. CASE Cleanup
  BY <1>6, <1>7, <1>9 DEF Cleanup, InCleanup, InPass
<1>10. CASE RemoveFinalizer
  <2>1. CASE obj = inst[key]
    <3>1. /\ inst' = [inst EXCEPT ![key] = NoInstance(obj.uid, obj.svcType)]
          /\ pod' = pod /\ icache' = icache /\ Rest
      BY <1>10, <2>1 DEF RemoveFinalizer, WriteInst, Return
    <3>2. inst'[key].uid = inst[key].uid /\ ~inst'[key].exists
      BY <1>1, <2>1, <3>1 DEF NoInstance, NewInstance, TypeOK, ClusterTypeOK
    <3>3. \A j \in Instances \ {key} : inst'[j] = inst[j]
      BY <3>1 DEF TypeOK, ClusterTypeOK
    <3>4. ~(icache[key].exists /\ ~icache[key].deleting /\ icache[key].finalizer)
      BY <1>1, <1>10, <2>1
      DEF RemoveFinalizer, Incarnations, CacheIncarnation, PassIncarnation, InCleanup
    <3>5. \A j \in Instances : CacheIncarnation(j)'
      BY <3>1, <3>2, <3>3, <3>4 DEF Incarnations, CacheIncarnation
    <3>6. QED BY <3>1, <3>5, RestIncarnation DEF Incarnations
  <2>2. QED BY <1>5, <1>10, <2>1 DEF RemoveFinalizer
<1>11. CASE AddFinalizer
  <2>1. CASE obj = inst[key]
    <3>1. /\ inst' = [inst EXCEPT ![key] = [obj EXCEPT !.finalizer = TRUE]]
          /\ pod' = pod /\ icache' = icache /\ key' = key
          /\ obj' = [obj EXCEPT !.finalizer = TRUE] /\ pc' = "service"
      BY <1>11, <2>1 DEF AddFinalizer, WriteInst, Proceed
    <3>2. obj.exists /\ ~obj.deleting
      BY <1>11 DEF AddFinalizer, Incarnations, PassIncarnation
    <3>3. /\ inst'[key].uid = obj.uid /\ inst'[key].exists /\ inst'[key].finalizer
          /\ ~inst'[key].deleting /\ obj'.uid = obj.uid
      BY <1>1, <1>2, <3>1, <3>2 DEF InstanceObjects, TypeOK, ClusterTypeOK
    <3>4. \A j \in Instances \ {key} : inst'[j] = inst[j]
      BY <3>1 DEF TypeOK, ClusterTypeOK
    <3>5. \A j \in Instances : CacheIncarnation(j)'
      BY <2>1, <3>1, <3>2, <3>3, <3>4 DEF Incarnations, CacheIncarnation
    <3>6. PassIncarnation'
      BY <1>1, <3>1, <3>3 DEF Incarnations, PassIncarnation, InCleanup, InPass
    <3>7. QED BY <3>5, <3>6 DEF Incarnations
  <2>2. QED BY <1>5, <1>11, <2>1 DEF AddFinalizer
<1>12. CASE ReconcileService
  <2>1. CASE scache[key].exists = svc[key].exists
    <3>1. /\ inst' = inst /\ pod' = pod /\ icache' = icache /\ key' = key
          /\ obj' = obj /\ pc' = "woken"
      BY <1>12, <2>1 DEF ReconcileService, Proceed
    <3>2. QED BY <1>4, <1>6, <1>12, <3>1 DEF ReconcileService, InPass, InCleanup
  <2>2. QED BY <1>5, <1>12, <2>1 DEF ReconcileService
<1>13. ASSUME NEW p \in InPass, NEW g, Proceed(p, obj, g), UNCHANGED clusterVars,
              pc \in InPass
       PROVE  Incarnations'
  BY <1>4, <1>6, <1>13 DEF Proceed, clusterVars, InPass, InCleanup
<1>14. /\ SameIdentity(inst[key], [inst[key] EXCEPT !.woken = Cleared])
       /\ SameIdentity(inst[key], [inst[key] EXCEPT !.suspended = Cleared])
  BY <1>2 DEF SameIdentity, InstanceObjects
<1>15. CASE ClearExpiredWoken
  BY <1>8, <1>13, <1>14, <1>15 DEF ClearExpiredWoken, InPass
<1>16. CASE ClearExpiredSuspended
  BY <1>8, <1>13, <1>14, <1>16 DEF ClearExpiredSuspended, InPass
<1>17. CASE Decide
  BY <1>13, <1>17 DEF Decide, InPass
<1>18. CASE StopPod
  BY <1>6, <1>7, <1>18 DEF StopPod, InPass, InCleanup
<1>19. CASE CreatePod
  <2>1. CASE ~Present(pod[key])
    <3>1. /\ pod' = [pod EXCEPT ![key] = NewPod(obj.uid)] /\ inst' = inst
          /\ icache' = icache /\ key' = key /\ obj' = obj /\ pc' = "status"
      BY <1>19, <2>1 DEF CreatePod, WritePod, Proceed
    <3>2. pod'[key].owner = obj.uid /\ \A j \in Instances \ {key} : pod'[j] = pod[j]
      BY <1>1, <3>1 DEF NewPod, TypeOK, ClusterTypeOK
    <3>3. \A j \in Instances : CacheIncarnation(j)'
      BY <1>1, <1>3, <3>1, <3>2 DEF Incarnations, CacheIncarnation, PassIncarnation
    <3>4. PassIncarnation'
      BY <1>1, <1>3, <1>19, <3>1, <3>2
      DEF Incarnations, PassIncarnation, InCleanup, InPass, CreatePod
    <3>5. QED BY <3>3, <3>4 DEF Incarnations
  <2>2. QED BY <1>5, <1>19, <2>1 DEF CreatePod
<1>20. CASE ObservePod
  BY <1>13, <1>20 DEF ObservePod, InPass
<1>21. CASE UpdateStatus
  <2>1. CASE inst[key].exists
    <3>1. \A reworded \in BOOLEAN :
            SameIdentity(inst[key], StatusDiff(inst[key], obj, goal, reworded))
      BY <1>2 DEF SameIdentity, StatusDiff, InstanceObjects
    <3>2. PodsKept /\ IdentitiesKept /\ icache' = icache /\ Rest
      BY <1>1, <1>21, <2>1, <3>1
      DEF UpdateStatus, WriteInst, Return, PodsKept, IdentitiesKept, SameIdentity,
          TypeOK, ClusterTypeOK
    <3>3. QED BY <3>2, CacheIncarnationKept, RestIncarnation DEF Incarnations
  <2>2. QED BY <1>5, <1>21, <2>1 DEF UpdateStatus
<1>22. QED
  BY <1>9, <1>10, <1>11, <1>12, <1>15, <1>16, <1>17, <1>18, <1>19, <1>20, <1>21
  DEF WorkerStep

LEMMA IncarnationsInit == Init => TypeOK /\ CachesFresh /\ Incarnations
<1> SUFFICES ASSUME Init PROVE TypeOK /\ CachesFresh /\ Incarnations
  OBVIOUS
<1>1. TypeOK
  BY TypeInit
<1>2. CachesFresh
  BY DEF Init, CachesFresh
<1>3. ASSUME NEW i \in Instances PROVE CacheIncarnation(i)
  <2>1. inst[i].uid \in Nat
    BY <1>1 DEF TypeOK, ClusterTypeOK, InstanceObjects
  <2>2. icache = inst /\ ~Present(pod[i])
    BY DEF Init, ClusterInit, Present
  <2>3. ~inst[i].deleting
    <3>1. \A u, s, t : ~NewInstance(u, s, t).deleting
      BY DEF NewInstance
    <3>2. \A u, t : ~NoInstance(u, t).deleting
      BY DEF NoInstance, NewInstance
    <3>3. QED BY <3>1, <3>2 DEF Init, ClusterInit
  <2>4. QED BY <2>1, <2>2, <2>3 DEF CacheIncarnation
<1>4. PassIncarnation
  BY DEF Init, PassIncarnation, InCleanup, InPass
<1>5. QED BY <1>1, <1>2, <1>3, <1>4 DEF Incarnations

LEMMA IncarnationsStep ==
  TypeOK /\ CachesFresh /\ Incarnations /\ [Next]_vars =>
    TypeOK' /\ CachesFresh' /\ Incarnations'
<1> DEFINE Inv == TypeOK /\ CachesFresh /\ Incarnations
<1>1. Inv /\ Next => Inv'
  BY TypeStep, CacheStep, NextCases, WorkerIncarnations, MachineryIncarnations,
     OutsideIncarnations
<1>2. Inv /\ UNCHANGED vars => Inv'
  BY TypeStep DEF vars, CachesFresh, Incarnations, CacheIncarnation, PassIncarnation
<1>3. QED BY <1>1, <1>2

\* A pass past the finalizer serves an instance that is there, and a clean-up never
\* takes the Pod of a later incarnation, for any number of instances and of writes.
THEOREM IncarnationSafety == Spec => []IncarnationSafe
<1> DEFINE Inv == TypeOK /\ CachesFresh /\ Incarnations
<1>1. Init => Inv
  BY IncarnationsInit
<1>2. Inv /\ [Next]_vars => Inv'
  BY IncarnationsStep
<1>3. Inv => IncarnationSafe
  BY DEF Incarnations, PassIncarnation, IncarnationSafe, TypeOK, InCleanup
<1>4. QED BY <1>1, <1>2, <1>3, PTL DEF Spec

-----------------------------------------------------------------------------
(* Convergence. *)

\* An override that has not run out by the next instant has not run out now, and
\* the decision is the same at both.
LEMMA TimeStable ==
  ASSUME NEW o \in InstanceObjects, NEW n \in Nat, ~HasExpired(o, n + 1)
  PROVE  ~HasExpired(o, n) /\ (WantsPod(o, n) <=> WantsPod(o, n + 1))
<1>1. \A x \in Overrides : x.until \in Nat
  BY OverrideFields
<1>2. \A x \in Overrides : ~Expired(x, n + 1) => ~Expired(x, n)
  BY <1>1 DEF Expired
<1>3. o.suspended \in Overrides /\ o.woken \in Overrides
  BY DEF InstanceObjects
<1>4. QED
  BY <1>2, <1>3 DEF HasExpired, WantsPod, DesiredRunning, Live

\* Between two steps of the pass, others either disturb it or leave alone what it
\* relies on.
LEMMA TrackKept ==
  ASSUME TypeOK, PassOnTrack, WritesShow, queue \subseteq queue', UNCHANGED workerVars,
         clock' = clock \/ clock' = clock + 1
  PROVE  PassOnTrack'
<1> SUFFICES ASSUME key # NoKey, Undisturbed(key)'
             PROVE  PassOnTrack'
  BY DEF PassOnTrack, workerVars
<1>1. key \in Instances /\ clock \in Nat /\ obj \in InstanceObjects
  BY DEF TypeOK, ClusterTypeOK
<1>2. /\ Undisturbed(key)
      /\ inst'[key] = inst[key] /\ pod'[key] = pod[key] /\ svc'[key] = svc[key]
  BY <1>1 DEF WritesShow, Undisturbed, workerVars
<1>3. ~HasExpired(obj, clock') =>
        ~HasExpired(obj, clock) /\ (WantsPod(obj, clock) <=> WantsPod(obj, clock'))
  BY <1>1, TimeStable
<1>4. QED
  BY <1>2, <1>3 DEF PassOnTrack, workerVars

LEMMA RestTrack == Rest => PassOnTrack'
  BY DEF Rest, PassOnTrack

LEMMA MachineryTrack ==
  TypeOK /\ CachesFresh /\ PassOnTrack /\ MachineryStep => PassOnTrack'
<1> SUFFICES ASSUME TypeOK, CachesFresh, PassOnTrack, MachineryStep PROVE PassOnTrack'
  OBVIOUS
<1>1. ASSUME NEW i \in Instances, Begin(i) PROVE PassOnTrack'
  <2>1. UNCHANGED clusterVars
    BY <1>1 DEF Begin
  <2>2. CASE UNCHANGED workerVars
    BY <1>1, <2>2 DEF Begin, PassOnTrack, workerVars, TypeOK
  <2>3. CASE ~UNCHANGED workerVars
    <3>1. /\ key' = i /\ obj' = icache[i] /\ icache[i].exists
          /\ \/ pc' = "cleanup" /\ icache[i].deleting
             \/ pc' = "finalize" /\ ~icache[i].deleting
             \/ pc' = "service" /\ ~icache[i].deleting /\ icache[i].finalizer
      BY <1>1, <2>3 DEF Begin
    <3>2. i \in iseen => icache[i] = inst[i]
      BY DEF CachesFresh
    <3>3. QED
      BY <2>1, <3>1, <3>2 DEF PassOnTrack, Undisturbed, clusterVars, InCleanup, InPass
  <2>4. QED BY <2>2, <2>3
<1>2. ASSUME NEW i \in Instances, Resync(i) PROVE PassOnTrack'
  BY <1>2, TrackKept DEF Resync, WritesShow, clusterVars, workerVars
<1>3. ASSUME NEW i \in Instances,
             DeliverInstance(i) \/ DeliverPod(i) \/ DeliverService(i)
      PROVE  PassOnTrack'
  <2>1. UNCHANGED workerVars /\ UNCHANGED <<clock, inst, pod, svc>>
        /\ queue' = queue \cup {i}
        /\ iseen' \subseteq iseen \cup {i} /\ pseen' \subseteq pseen \cup {i}
        /\ sseen' \subseteq sseen \cup {i}
    BY <1>3 DEF DeliverInstance, DeliverPod, DeliverService, workerVars
  <2>2. QED BY <2>1 DEF PassOnTrack, Undisturbed, workerVars
<1>4. CASE Abort \/ Restart
  BY <1>4, RestTrack DEF Abort, Restart
<1>5. CASE TimePasses
  BY <1>5, TrackKept DEF TimePasses, Tick, reconcilerVars, WritesShow, workerVars
<1>6. QED BY <1>1, <1>2, <1>3, <1>4, <1>5 DEF MachineryStep

\* A write that leaves the instance undisturbed has changed nothing.
LEMMA EffectDisturbs ==
  ASSUME TypeOK, NEW i \in Instances
  PROVE  /\ \A o : WriteInst(i, o) /\ i \in iseen' => o = inst[i] /\ inst' = inst
         /\ \A p : WritePod(i, p) /\ i \in pseen' => p = pod[i] /\ pod' = pod
         /\ \A s : WriteSvc(i, s) /\ i \in sseen' => s = svc[i] /\ svc' = svc
  BY DEF TypeOK, ClusterTypeOK, WriteInst, WritePod, WriteSvc

\* Each place of the pass establishes what the next ones rely on.
LEMMA WorkerTrack ==
  TypeOK /\ CachesFresh /\ PassOnTrack /\ WorkerStep => PassOnTrack'
<1> SUFFICES ASSUME TypeOK, CachesFresh, PassOnTrack, WorkerStep,
                    key' # NoKey, Undisturbed(key)'
             PROVE  PassOnTrack'
  BY DEF PassOnTrack
<1>1. pc # "idle" /\ key \in Instances /\ key # NoKey
  BY DEF TypeOK, WorkerStep, Cleanup, RemoveFinalizer, AddFinalizer, ReconcileService,
         ClearExpiredWoken, ClearExpiredSuspended, Decide, StopPod, CreatePod,
         ObservePod, UpdateStatus
<1>2. ~ServerSaysNo /\ ~Return
  BY DEF ServerSaysNo, ReturnError, Return, Rest
<1>3. key' = key /\ queue' = queue /\ clock' = clock
  BY <1>2
  DEF WorkerStep, Cleanup, RemoveFinalizer, AddFinalizer, ReconcileService,
      ClearExpiredWoken, ClearExpiredSuspended, Decide, StopPod, CreatePod, ObservePod,
      UpdateStatus, DeleteInstancePod, StatusPatch, Proceed, clusterVars
<1>4. /\ Undisturbed(key) /\ inst'[key] = inst[key] /\ pod'[key] = pod[key]
      /\ svc'[key] = svc[key]
  BY <1>1, <1>3, WorkerShows DEF WritesShow, Undisturbed
<1>5. /\ obj = inst[key] /\ obj.exists
      /\ icache[key] = inst[key] /\ pcache[key] = pod[key] /\ scache[key] = svc[key]
  BY <1>1, <1>4 DEF PassOnTrack, CachesFresh, Undisturbed
<1>6. obj \in InstanceObjects /\ inst[key] \in InstanceObjects /\ pod[key] \in PodObjects
  BY <1>1 DEF TypeOK, ClusterTypeOK
<1>7. CASE Cleanup
  BY <1>1, <1>3, <1>4, <1>5, <1>7
  DEF Cleanup, DeleteInstancePod, Proceed, PassOnTrack, InCleanup, InPass
<1>8. CASE RemoveFinalizer
  BY <1>2, <1>8 DEF RemoveFinalizer
<1>9. CASE AddFinalizer
  <2>1. WriteInst(key, [obj EXCEPT !.finalizer = TRUE])
        /\ obj' = [obj EXCEPT !.finalizer = TRUE] /\ pc' = "service"
    BY <1>2, <1>9 DEF AddFinalizer, Proceed
  <2>2. obj' = inst[key] /\ obj'.finalizer
    BY <1>1, <1>3, <1>6, <2>1, EffectDisturbs DEF Undisturbed, InstanceObjects
  <2>3. QED
    BY <1>1, <1>3, <1>4, <1>5, <1>9, <2>1, <2>2
    DEF AddFinalizer, PassOnTrack, InCleanup, InPass
<1>10. CASE ReconcileService
  <2>1. obj' = obj /\ pc' = "woken"
    BY <1>2, <1>10 DEF ReconcileService, Proceed
  <2>2. svc[key].exists /\ svc[key].type = obj.svcType
    <3>1. svc[key].exists
      <4>1. SUFFICES ASSUME ~svc[key].exists PROVE FALSE
        OBVIOUS
      <4>2. WriteSvc(key, [exists |-> TRUE, type |-> obj.svcType, owner |-> obj.uid])
        BY <1>2, <1>5, <1>10, <4>1 DEF ReconcileService
      <4>3. QED BY <1>1, <1>3, <4>1, <4>2, EffectDisturbs DEF Undisturbed
    <3>2. CASE svc[key].type # obj.svcType
      <4>1. WriteSvc(key, [svc[key] EXCEPT !.type = obj.svcType])
        BY <1>2, <1>5, <1>10, <3>1, <3>2 DEF ReconcileService
      <4>2. [svc[key] EXCEPT !.type = obj.svcType] = svc[key]
        BY <1>1, <1>3, <4>1, EffectDisturbs DEF Undisturbed
      <4>3. svc[key] # NoSvc
        BY <3>1 DEF NoSvc
      <4>4. svc[key] \in [exists : {TRUE}, type : ServiceTypes, owner : Nat]
        BY <1>1, <4>3 DEF TypeOK, ClusterTypeOK, SvcObjects
      <4>5. QED BY <4>2, <4>4
    <3>3. QED BY <3>1, <3>2
  <2>3. QED
    BY <1>1, <1>3, <1>4, <1>5, <1>10, <2>1, <2>2
    DEF ReconcileService, PassOnTrack, InCleanup, InPass
<1>11. ASSUME NEW p \in {"suspended", "decide"}, pc \in {"woken", "suspended"},
              Proceed(p, obj, goal)
       PROVE  PassOnTrack'
  BY <1>1, <1>3, <1>4, <1>5, <1>11 DEF Proceed, PassOnTrack, InCleanup, InPass
<1>12. CASE ClearExpiredWoken
  <2>1. ~Expired(obj.woken, clock)
    <3>1. SUFFICES ASSUME Expired(obj.woken, clock) PROVE FALSE
      OBVIOUS
    <3>2. WriteInst(key, [inst[key] EXCEPT !.woken = Cleared])
      BY <1>2, <1>12, <3>1 DEF ClearExpiredWoken, StatusPatch
    <3>3. [inst[key] EXCEPT !.woken = Cleared] = inst[key]
      BY <1>1, <1>3, <3>2, EffectDisturbs DEF Undisturbed
    <3>4. inst[key].woken = Cleared
      BY <1>6, <3>3 DEF InstanceObjects
    <3>5. QED BY <1>5, <3>1, <3>4 DEF Expired, Cleared
  <2>2. QED BY <1>11, <1>12, <2>1 DEF ClearExpiredWoken
<1>13. CASE ClearExpiredSuspended
  <2>1. ~Expired(obj.suspended, clock)
    <3>1. SUFFICES ASSUME Expired(obj.suspended, clock) PROVE FALSE
      OBVIOUS
    <3>2. WriteInst(key, [inst[key] EXCEPT !.suspended = Cleared])
      BY <1>2, <1>13, <3>1 DEF ClearExpiredSuspended, StatusPatch
    <3>3. [inst[key] EXCEPT !.suspended = Cleared] = inst[key]
      BY <1>1, <1>3, <3>2, EffectDisturbs DEF Undisturbed
    <3>4. inst[key].suspended = Cleared
      BY <1>6, <3>3 DEF InstanceObjects
    <3>5. QED BY <1>5, <3>1, <3>4 DEF Expired, Cleared
  <2>2. QED BY <1>11, <1>13, <2>1 DEF ClearExpiredSuspended
<1>14. CASE Decide
  <2>1. /\ obj' = obj
        /\ WantsPod(obj, clock) => pc' = "run"
        /\ ~WantsPod(obj, clock) => pc' = "stop"
    BY <1>14 DEF Decide, Proceed
  <2>2. pc' \in {"run", "stop"}
    BY <2>1
  <2>3. QED
    BY <1>1, <1>3, <1>4, <1>5, <1>14, <2>1, <2>2
    DEF Decide, PassOnTrack, InCleanup, InPass
<1>15. CASE StopPod
  <2>1. obj' = obj /\ pc' = "status" /\ goal' = StoppedReport
    BY <1>15 DEF StopPod, DeleteInstancePod, Proceed
  <2>2. Present(pod[key]) => pod[key].deleting
    <3>1. SUFFICES ASSUME Present(pod[key]) PROVE pod[key].deleting
      OBVIOUS
    <3>2. WritePod(key, [pod[key] EXCEPT !.deleting = TRUE])
      BY <1>5, <1>15, <3>1 DEF StopPod, DeleteInstancePod
    <3>3. [pod[key] EXCEPT !.deleting = TRUE] = pod[key]
      BY <1>1, <1>3, <3>2, EffectDisturbs DEF Undisturbed
    <3>4. QED BY <1>6, <3>1, <3>3 DEF PodObjects, Present
  <2>3. QED
    BY <1>1, <1>3, <1>4, <1>5, <1>15, <2>1, <2>2
    DEF StopPod, PassOnTrack, InCleanup, InPass
<1>16. CASE CreatePod
  <2>1. WritePod(key, NewPod(obj.uid)) /\ ~Present(pod[key])
    BY <1>2, <1>16 DEF CreatePod
  <2>2. QED
    BY <1>1, <1>3, <2>1, EffectDisturbs DEF Undisturbed, Present, NewPod, NoPod
<1>17. CASE ObservePod
  <2>1. obj' = obj /\ pc' = "status" /\ goal' = PodReport(pod[key]) /\ Present(pod[key])
    BY <1>5, <1>17 DEF ObservePod, Proceed
  <2>2. QED
    BY <1>1, <1>3, <1>4, <1>5, <1>17, <2>1
    DEF ObservePod, PassOnTrack, InCleanup, InPass
<1>18. CASE UpdateStatus
  BY <1>2, <1>18 DEF UpdateStatus
<1>19. QED
  BY <1>7, <1>8, <1>9, <1>10, <1>12, <1>13, <1>14, <1>15, <1>16, <1>17, <1>18
  DEF WorkerStep

\* An instance that is settled after a step and was settled before it stays in sync
\* when its objects stay and no override runs out.
LEMMA ConvergedKept ==
  ASSUME TypeOK, Converged, NEW i \in Instances, Settled(i), WritesShow, Settled(i)',
         clock' = clock \/ clock' = clock + 1, ~HasExpired(inst[i], clock)'
  PROVE  InSync(i)'
<1>1. inst'[i] = inst[i] /\ pod'[i] = pod[i] /\ svc'[i] = svc[i]
  BY DEF WritesShow, Settled
<1>2. inst[i] \in InstanceObjects /\ clock \in Nat
  BY DEF TypeOK, ClusterTypeOK
<1>3. ~HasExpired(inst[i], clock) /\ (WantsPod(inst[i], clock) <=> WantsPod(inst[i], clock'))
  BY <1>1, <1>2, TimeStable
<1>4. InSync(i)
  BY <1>3 DEF Converged
<1>5. QED BY <1>1, <1>3, <1>4 DEF InSync

\* The pass that ends undisturbed leaves its instance in sync.
LEMMA ReturnConverges ==
  ASSUME TypeOK, CachesFresh, PassOnTrack, WorkerStep, Return, NEW i \in Instances,
         key = i, Settled(i)', ~HasExpired(inst[i], clock)'
  PROVE  InSync(i)'
<1>1. key # NoKey
  BY ReconcilerAssumption
<1>2. queue' = queue
  BY DEF Return
<1>3. /\ Undisturbed(key) /\ inst'[key] = inst[key] /\ pod'[key] = pod[key]
      /\ svc'[key] = svc[key] /\ i \in iseen'
  BY <1>2, WorkerShows DEF WritesShow, Undisturbed, Settled
<1>4. inst[key] \in InstanceObjects
  BY DEF TypeOK, ClusterTypeOK
<1>5. obj = inst[key] /\ obj.exists
  BY <1>1, <1>3 DEF PassOnTrack
<1>6. CASE RemoveFinalizer
  <2>1. WriteInst(key, NoInstance(obj.uid, obj.svcType))
    BY <1>5, <1>6 DEF RemoveFinalizer
  <2>2. NoInstance(obj.uid, obj.svcType) = inst[key]
    BY <1>3, <2>1, EffectDisturbs
  <2>3. ~NoInstance(obj.uid, obj.svcType).exists
    BY DEF NoInstance, NewInstance
  <2>4. QED BY <1>5, <2>2, <2>3
<1>7. CASE UpdateStatus
  <2>1. PICK reworded \in BOOLEAN :
          WriteInst(key, StatusDiff(inst[key], obj, goal, reworded))
    BY <1>5, <1>7 DEF UpdateStatus
  <2>2. StatusDiff(inst[key], obj, goal, reworded) = inst[key]
    BY <1>3, <2>1, EffectDisturbs
  <2>3. StatusIs(inst[key], goal)
    <3>1. DEFINE d == StatusDiff(inst[key], inst[key], goal, reworded)
    <3>2. d.phase = goal.phase /\ d.adb = goal.adb /\ d.cond = goal
      BY <1>4 DEF StatusDiff, InstanceObjects
    <3>3. QED BY <1>5, <2>2, <3>2 DEF StatusIs
  <2>4. ~HasExpired(obj, clock)
    BY <1>3, <1>5, <1>7 DEF UpdateStatus
  <2>5. InSync(i)
    BY <1>1, <1>3, <1>5, <1>7, <2>3, <2>4
    DEF PassOnTrack, UpdateStatus, InSync, InPass
  <2>6. QED BY <1>3, <1>5, <1>7, <2>5 DEF InSync, UpdateStatus
<1>8. QED
  BY <1>1, <1>6, <1>7
  DEF WorkerStep, Cleanup, AddFinalizer, ReconcileService, ClearExpiredWoken,
      ClearExpiredSuspended, Decide, StopPod, CreatePod, ObservePod, DeleteInstancePod,
      StatusPatch, Proceed, ServerSaysNo, ReturnError, Return, Rest, TypeOK, Settled

LEMMA WorkerConverges ==
  TypeOK /\ CachesFresh /\ PassOnTrack /\ Converged /\ WorkerStep => Converged'
<1> SUFFICES ASSUME TypeOK, CachesFresh, PassOnTrack, Converged, WorkerStep,
                    NEW i \in Instances, Settled(i)', ~HasExpired(inst[i], clock)'
             PROVE  InSync(i)'
  BY DEF Converged
<1>1. /\ key' = key \/ Return \/ ServerSaysNo
      /\ queue \subseteq queue' /\ clock' = clock
  BY DEF WorkerStep, Cleanup, RemoveFinalizer, AddFinalizer, ReconcileService,
         ClearExpiredWoken, ClearExpiredSuspended, Decide, StopPod, CreatePod, ObservePod,
         UpdateStatus, DeleteInstancePod, StatusPatch, Proceed, ServerSaysNo,
         ReturnError, Return, clusterVars
<1>2. CASE key # i
  <2>1. Settled(i)
    BY <1>1, <1>2, WorkerShows DEF WritesShow, Settled
  <2>2. QED BY <1>1, <2>1, WorkerShows, ConvergedKept
<1>3. CASE key = i
  BY <1>1, <1>3, ReturnConverges DEF ServerSaysNo, ReturnError, Settled
<1>4. QED BY <1>2, <1>3

LEMMA MachineryConverges ==
  TypeOK /\ CachesFresh /\ Incarnations /\ Converged /\ MachineryStep => Converged'
<1> SUFFICES ASSUME TypeOK, CachesFresh, Incarnations, Converged, MachineryStep,
                    NEW i \in Instances, Settled(i)', ~HasExpired(inst[i], clock)'
             PROVE  InSync(i)'
  BY DEF Converged
<1>1. ASSUME Settled(i), WritesShow, clock' = clock \/ clock' = clock + 1
      PROVE  InSync(i)'
  BY <1>1, ConvergedKept
<1>2. UNCHANGED clusterVars => WritesShow /\ clock' = clock
  BY DEF clusterVars, WritesShow
<1>3. ASSUME NEW j \in Instances, Begin(j) PROVE InSync(i)'
  <2>1. UNCHANGED clusterVars /\ queue' = queue \ {j} /\ key = NoKey
    BY <1>3 DEF Begin, TypeOK
  <2>2. CASE j # i
    BY <1>1, <1>2, <2>1, <2>2, ReconcilerAssumption DEF Settled, clusterVars
  <2>3. CASE j = i
    <3>1. i \in iseen /\ key' # i
      BY <2>1 DEF Settled, clusterVars
    <3>2. icache[i] = inst[i]
      BY <3>1 DEF CachesFresh
    <3>3. ~inst[i].exists \/ (inst[i].deleting /\ ~inst[i].finalizer)
      BY <1>3, <2>3, <3>1, <3>2 DEF Begin
    <3>4. ~inst[i].exists
      BY <3>3 DEF Incarnations, CacheIncarnation
    <3>5. QED BY <2>1, <3>4 DEF InSync, clusterVars
  <2>4. QED BY <2>2, <2>3
<1>4. ASSUME NEW j \in Instances, Resync(j) PROVE InSync(i)'
  BY <1>1, <1>2, <1>4 DEF Resync, Settled, clusterVars
<1>5. ASSUME NEW j \in Instances,
             DeliverInstance(j) \/ DeliverPod(j) \/ DeliverService(j)
      PROVE  InSync(i)'
  <2>1. /\ UNCHANGED <<clock, inst, pod, svc, key>> /\ queue' = queue \cup {j}
        /\ iseen' \subseteq iseen \cup {j} /\ pseen' \subseteq pseen \cup {j}
        /\ sseen' \subseteq sseen \cup {j}
    BY <1>5 DEF DeliverInstance, DeliverPod, DeliverService
  <2>2. Settled(i)
    BY <2>1 DEF Settled
  <2>3. QED BY <2>1, <2>2 DEF Converged, InSync
<1>6. CASE Abort
  <2>1. UNCHANGED clusterVars /\ queue' = queue \cup {key}
    BY <1>6 DEF Abort
  <2>2. Settled(i)
    BY <2>1 DEF Settled, clusterVars
  <2>3. QED BY <1>1, <1>2, <2>1, <2>2
<1>7. CASE Restart
  <2>1. ~inst[i].exists
    BY <1>7 DEF Restart, Settled
  <2>2. QED BY <1>7, <2>1 DEF Restart, InSync
<1>8. CASE TimePasses
  <2>1. UNCHANGED reconcilerVars /\ UNCHANGED <<inst, pod, svc, iseen, pseen, sseen>>
        /\ clock' = clock + 1
    BY <1>8 DEF TimePasses, Tick
  <2>2. Settled(i) /\ WritesShow
    BY <2>1 DEF Settled, WritesShow, reconcilerVars
  <2>3. QED BY <1>1, <2>1, <2>2
<1>9. QED
  BY <1>3, <1>4, <1>5, <1>6, <1>7, <1>8 DEF MachineryStep

LEMMA OutsideKeeps ==
  ASSUME TypeOK, PassOnTrack, Converged, NEW j \in Instances, Outside(j)
  PROVE  PassOnTrack' /\ Converged'
<1>1. WritesShow
  BY OutsideShows
<1>2. UNCHANGED reconcilerVars /\ clock' = clock
  BY DEF Outside, User, Platform, CreateInstance, DeleteInstance, EditSpec,
         SuspendOverride, ResumeOverride, WakeOverride, ClearWokenOverride, EvictPod,
         TamperService, UserWrite, PodStarts, PodGetsIP, PodExits, PodGone, CollectPod,
         CollectService, KubeletWrite
<1>3. PassOnTrack'
  BY <1>1, <1>2, TrackKept DEF reconcilerVars, workerVars
<1>4. ASSUME NEW i \in Instances, Settled(i)', ~HasExpired(inst[i], clock)'
      PROVE  InSync(i)'
  <2>1. Settled(i)
    BY <1>1, <1>2, <1>4 DEF Settled, WritesShow, reconcilerVars
  <2>2. QED BY <1>1, <1>2, <1>4, <2>1, ConvergedKept
<1>5. QED BY <1>3, <1>4 DEF Converged

\* The inductive invariant of the controller, which the runs check too: besides what is
\* listed below it says what the informers have shown is so, and that a pass nobody has
\* disturbed knows the instance, its Pod and its Service as they are.
THEOREM InstanceInvariant == Spec => []IInv
<1>1. Init => IInv
  <2> SUFFICES ASSUME Init PROVE IInv
    OBVIOUS
  <2>1. TypeOK /\ CachesFresh /\ Incarnations
    BY IncarnationsInit
  <2>2. PassOnTrack
    BY DEF Init, PassOnTrack
  <2>3. Converged
    BY DEF Init, Converged, Settled, InSync
  <2>4. QED BY <2>1, <2>2, <2>3 DEF IInv
<1>2. IInv /\ [Next]_vars => IInv'
  <2>1. IInv /\ Next => PassOnTrack' /\ Converged'
    BY NextCases, WorkerTrack, MachineryTrack, WorkerConverges, MachineryConverges,
       OutsideKeeps
    DEF IInv
  <2>2. IInv /\ UNCHANGED vars => PassOnTrack' /\ Converged'
    BY DEF IInv, vars, PassOnTrack, Undisturbed, Converged, Settled, InSync
  <2>3. QED BY <2>1, <2>2, IncarnationsStep DEF IInv
<1>3. QED BY <1>1, <1>2, PTL DEF Spec

\* Whatever happens, in whatever order: an instance nobody in the operator is going
\* to look at again, and none of whose overrides has run out, is in sync.
THEOREM Convergence == Spec => []Converged
<1>1. IInv => Converged
  BY DEF IInv
<1>2. QED BY <1>1, InstanceInvariant, PTL
=============================================================================
