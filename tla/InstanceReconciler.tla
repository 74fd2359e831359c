------------------------- MODULE InstanceReconciler -------------------------
(***************************************************************************)
(* The RedroidInstance controller: RedroidInstanceReconciler.Reconcile and *)
(* the controller-runtime machinery it runs in.  One worker takes names    *)
(* from a deduplicating queue and runs Reconcile on each; reads come from  *)
(* the informers' caches, writes go to the API server one by one, and in   *)
(* between users, the kubelet and the clock move on.  A step of the model  *)
(* is one write together with the cached reads and the local computation   *)
(* that lead to it.                                                        *)
(***************************************************************************)
EXTENDS Cluster

CONSTANTS
  NoKey,         \* the worker serves no instance
  MaxFaults      \* bound: failed API calls and operator restarts, in all

ASSUME ReconcilerAssumption == NoKey \notin Instances /\ MaxFaults \in Nat

VARIABLES
  icache, pcache, scache,  \* the informers' caches
  queue,         \* names waiting for the worker
  pc, key,       \* what the worker is about to do, and for which name
  obj,           \* Reconcile's local RedroidInstance
  goal,          \* the phase and address it is going to report
  faults

cacheVars == <<icache, pcache, scache>>
workerVars == <<pc, key, obj, goal>>
reconcilerVars == <<icache, pcache, scache, queue, pc, key, obj, goal, faults>>
vars == <<clock, edits, inst, pod, svc, iseen, pseen, sseen,
          icache, pcache, scache, queue, pc, key, obj, goal, faults>>

\* The places where Reconcile is between two calls.
Places == {"idle", "cleanup", "unfinalize", "finalize", "service", "woken",
           "suspended", "decide", "stop", "run", "status"}

NoObj == NoInstance(0, CHOOSE t \in ServiceTypes : TRUE)

TypeOK ==
  /\ ClusterTypeOK
  /\ icache \in [Instances -> InstanceObjects]
  /\ pcache \in [Instances -> PodObjects]
  /\ scache \in [Instances -> SvcObjects]
  /\ queue \subseteq Instances
  /\ pc \in Places
  /\ key \in Instances \cup {NoKey}
  /\ pc = "idle" <=> key = NoKey
  /\ obj \in InstanceObjects
  /\ goal \in Reports
  /\ faults \in Nat

Init ==
  /\ ClusterInit
  /\ icache = inst
  /\ pcache = pod
  /\ scache = svc
  /\ queue = {i \in Instances : inst[i].exists}
  /\ pc = "idle" /\ key = NoKey /\ obj = NoObj /\ goal = NoReport
  /\ faults = 0

-----------------------------------------------------------------------------
\* Reconcile returns: nil, or an error that puts the name back on the queue.
Rest == pc' = "idle" /\ key' = NoKey /\ obj' = NoObj /\ goal' = NoReport

Return == Rest /\ UNCHANGED <<queue, icache, pcache, scache, faults>>

ReturnError ==
  /\ Rest
  /\ queue' = queue \cup {key}
  /\ UNCHANGED <<icache, pcache, scache, faults>>

ServerSaysNo ==
  ReturnError /\ UNCHANGED clusterVars

\* Reconcile goes on at place p with the local copy o.
Proceed(p, o, g) ==
  /\ pc' = p /\ obj' = o /\ goal' = g
  /\ UNCHANGED <<key, queue, icache, pcache, scache, faults>>

\* The response of a write, decoded into the local copy: what the server omits
\* (nil, false, "") keeps the local value.
Decode(local, server) ==
  [exists |-> server.exists, uid |-> server.uid, svcType |-> server.svcType,
   deleting |-> server.deleting \/ local.deleting,
   finalizer |-> server.finalizer \/ local.finalizer,
   suspend |-> server.suspend \/ local.suspend,
   suspended |-> DecodeOverride(local.suspended, server.suspended),
   woken |-> DecodeOverride(local.woken, server.woken),
   phase |-> IF server.phase = "" THEN local.phase ELSE server.phase,
   adb |-> IF server.adb = NoIP THEN local.adb ELSE server.adb,
   cond |-> IF server.cond = NoReport THEN local.cond ELSE server.cond]

\* A merge patch of the status subresource, and its response.  It names the
\* object only: the patch lands on whatever incarnation is there.
StatusPatch(local, patched, p) ==
  IF inst[key].exists
  THEN /\ WriteInst(key, patched)
       /\ Proceed(p, Decode(local, patched), goal)
       /\ UNCHANGED <<clock, edits, pod, svc, pseen, sseen>>
  ELSE ServerSaysNo

-----------------------------------------------------------------------------
\* The worker takes a name, and Reconcile gets the object and branches on it.
Begin(i) ==
  /\ pc = "idle" /\ i \in queue
  /\ queue' = queue \ {i}
  /\ LET o == icache[i] IN
       \/ /\ ~o.exists \/ (o.deleting /\ ~o.finalizer)
          /\ UNCHANGED workerVars
       \/ /\ o.exists /\ (o.deleting => o.finalizer)
          /\ pc' = CASE o.deleting -> "cleanup"
                     [] ~o.deleting /\ ~o.finalizer -> "finalize"
                     [] OTHER -> "service"
          /\ key' = i /\ obj' = o /\ goal' = NoReport
  /\ UNCHANGED <<icache, pcache, scache, faults>>
  /\ UNCHANGED clusterVars

\* deleteInstancePod: nothing to do unless the cache shows a Pod; a Delete that
\* finds none is fine.  Nobody waits for the Pod to go away.
DeleteInstancePod(p, g) ==
  /\ Proceed(p, obj, g)
  /\ IF Present(pcache[key]) /\ Present(pod[key])
     THEN /\ WritePod(key, [pod[key] EXCEPT !.deleting = TRUE])
          /\ UNCHANGED <<clock, edits, inst, svc, iseen, sseen>>
     ELSE UNCHANGED clusterVars

Cleanup ==
  /\ pc = "cleanup"
  /\ DeleteInstancePod("unfinalize", goal)

\* Mutant: the finalizer is taken off the local copy and never sent.
RemoveFinalizerLocally ==
  /\ pc = "unfinalize"
  /\ Return
  /\ UNCHANGED clusterVars

\* Update carries the resourceVersion that was read: it is refused once the
\* object has changed.  Without its last finalizer the object is gone.
RemoveFinalizer ==
  /\ pc = "unfinalize"
  /\ IF obj = inst[key]
     THEN /\ WriteInst(key, NoInstance(obj.uid, obj.svcType))
          /\ Return
          /\ UNCHANGED <<clock, edits, pod, svc, pseen, sseen>>
     ELSE ServerSaysNo

\* Mutant: a patch, which carries no resourceVersion, in place of the Update.
AddFinalizerByPatch ==
  /\ pc = "finalize"
  /\ IF inst[key].exists
     THEN /\ WriteInst(key, [inst[key] EXCEPT !.finalizer = TRUE])
          /\ Proceed("service", [obj EXCEPT !.finalizer = TRUE], goal)
          /\ UNCHANGED <<clock, edits, pod, svc, pseen, sseen>>
     ELSE ServerSaysNo

AddFinalizer ==
  /\ pc = "finalize"
  /\ IF obj = inst[key]
     THEN /\ WriteInst(key, [obj EXCEPT !.finalizer = TRUE])
          /\ Proceed("service", [obj EXCEPT !.finalizer = TRUE], goal)
          /\ UNCHANGED <<clock, edits, pod, svc, pseen, sseen>>
     ELSE ServerSaysNo

\* reconcileService: Create when the cache shows no Service, else a merge patch
\* of what the cached copy has different from the spec.
ReconcileService ==
  /\ pc = "service"
  /\ LET want == [exists |-> TRUE, type |-> obj.svcType, owner |-> obj.uid]
         patched == IF scache[key].type = obj.svcType THEN svc[key]
                    ELSE [svc[key] EXCEPT !.type = obj.svcType]
     IN IF scache[key].exists = svc[key].exists
        THEN /\ WriteSvc(key, IF svc[key].exists THEN patched ELSE want)
             /\ Proceed("woken", obj, goal)
             /\ UNCHANGED <<clock, edits, inst, pod, iseen, pseen>>
        ELSE ServerSaysNo    \* AlreadyExists, or NotFound

\* Mutant: an expired "woken" is left in place.
ClearExpiredWokenNever ==
  /\ pc = "woken"
  /\ Proceed("suspended", obj, goal)
  /\ UNCHANGED clusterVars

\* Auto-clear of an expired override: the local copy decides, {"woken": null} or
\* {"suspended": null} is what is sent.
ClearExpiredWoken ==
  /\ pc = "woken"
  /\ IF Expired(obj.woken, clock)
     THEN StatusPatch([obj EXCEPT !.woken = Cleared],
                      [inst[key] EXCEPT !.woken = Cleared], "suspended")
     ELSE Proceed("suspended", obj, goal) /\ UNCHANGED clusterVars

ClearExpiredSuspended ==
  /\ pc = "suspended"
  /\ IF Expired(obj.suspended, clock)
     THEN StatusPatch([obj EXCEPT !.suspended = Cleared],
                      [inst[key] EXCEPT !.suspended = Cleared], "decide")
     ELSE Proceed("decide", obj, goal) /\ UNCHANGED clusterVars

Decide ==
  /\ pc = "decide"
  /\ Proceed(IF WantsPod(obj, clock) THEN "run" ELSE "stop", obj, goal)
  /\ UNCHANGED clusterVars

StoppedReport == [phase |-> "Stopped", adb |-> NoIP]
PendingReport == [phase |-> "Pending", adb |-> NoIP]

StopPod ==
  /\ pc = "stop"
  /\ DeleteInstancePod("status", StoppedReport)

CreatePod ==
  /\ pc = "run" /\ ~Present(pcache[key])
  /\ IF Present(pod[key])
     THEN ServerSaysNo       \* AlreadyExists
     ELSE /\ WritePod(key, NewPod(obj.uid))
          /\ Proceed("status", obj, PendingReport)
          /\ UNCHANGED <<clock, edits, inst, svc, iseen, sseen>>

\* Mutant: the Pod's phase is passed on as it is.
PodReportAsIs(p) ==
  [phase |-> p.phase, adb |-> IF p.phase = "Running" THEN p.ip ELSE NoIP]

\* The status of an existing Pod; whether it is being deleted does not matter.
PodReport(p) ==
  CASE p.phase = "Running"   -> [phase |-> "Running", adb |-> p.ip]
    [] p.phase = "Failed"    -> [phase |-> "Failed", adb |-> NoIP]
    [] p.phase = "Succeeded" -> StoppedReport
    [] OTHER                 -> PendingReport

ObservePod ==
  /\ pc = "run" /\ Present(pcache[key])
  /\ Proceed("status", obj, PodReport(pcache[key]))
  /\ UNCHANGED clusterVars

\* Mutant: an empty address is taken for "no change".
StatusDiffKeepsAddress(stored, local, g, reworded) ==
  [stored EXCEPT
     !.phase = IF g.phase = local.phase THEN @ ELSE g.phase,
     !.adb = IF g.adb \in {NoIP, local.adb} THEN @ ELSE g.adb,
     !.cond = IF g = local.cond /\ ~reworded THEN @ ELSE g]

\* updateStatus: the patch holds only what differs from the local copy.  The
\* conditions are one list, which also differs when only a message or the
\* observed generation in it does: they are "reworded" then.
StatusDiff(stored, local, g, reworded) ==
  [stored EXCEPT
     !.phase = IF g.phase = local.phase THEN @ ELSE g.phase,
     !.adb = IF g.adb = local.adb THEN @ ELSE g.adb,
     !.cond = IF g = local.cond /\ ~reworded THEN @ ELSE g]

UpdateStatus ==
  /\ pc = "status"
  /\ IF inst[key].exists
     THEN /\ \E reworded \in BOOLEAN :
               WriteInst(key, StatusDiff(inst[key], obj, goal, reworded))
          /\ Return
          /\ UNCHANGED <<clock, edits, pod, svc, pseen, sseen>>
     ELSE ServerSaysNo

WorkerStep ==
  \/ Cleanup \/ RemoveFinalizer \/ AddFinalizer \/ ReconcileService
  \/ ClearExpiredWoken \/ ClearExpiredSuspended \/ Decide
  \/ StopPod \/ CreatePod \/ ObservePod \/ UpdateStatus

-----------------------------------------------------------------------------
\* An API call fails, or its response is lost: Reconcile returns the error.
Abort ==
  /\ pc # "idle" /\ faults < MaxFaults
  /\ Rest
  /\ queue' = queue \cup {key}
  /\ faults' = faults + 1
  /\ UNCHANGED <<icache, pcache, scache>>
  /\ UNCHANGED clusterVars

\* The operator dies and starts again: the caches are listed anew and every
\* object found queues its instance.
Restart ==
  /\ faults < MaxFaults
  /\ faults' = faults + 1
  /\ Rest
  /\ icache' = inst /\ pcache' = pod /\ scache' = svc
  /\ iseen' = Instances /\ pseen' = Instances /\ sseen' = Instances
  /\ queue' = {i \in Instances :
                 inst[i].exists \/ Present(pod[i]) \/ svc[i].exists}
  /\ UNCHANGED <<clock, edits, inst, pod, svc>>

\* A watch event reaches the informer, which updates its cache and queues the
\* instance (the Pod's and the Service's owner).  Events of one object that
\* arrive together are one step.
DeliverInstance(i) ==
  /\ i \notin iseen
  /\ iseen' = iseen \cup {i}
  /\ icache' = [icache EXCEPT ![i] = inst[i]]
  /\ queue' = queue \cup {i}
  /\ UNCHANGED <<clock, edits, inst, pod, svc, pseen, sseen,
                 pcache, scache, pc, key, obj, goal, faults>>

\* Mutant: Owns(&corev1.Pod{}) is missing, so Pod events queue nothing.
DeliverPodUnowned(i) ==
  /\ i \notin pseen
  /\ pseen' = pseen \cup {i}
  /\ pcache' = [pcache EXCEPT ![i] = pod[i]]
  /\ UNCHANGED <<clock, edits, inst, pod, svc, iseen, sseen,
                 icache, scache, queue, pc, key, obj, goal, faults>>

DeliverPod(i) ==
  /\ i \notin pseen
  /\ pseen' = pseen \cup {i}
  /\ pcache' = [pcache EXCEPT ![i] = pod[i]]
  /\ queue' = queue \cup {i}
  /\ UNCHANGED <<clock, edits, inst, pod, svc, iseen, sseen,
                 icache, scache, pc, key, obj, goal, faults>>

DeliverService(i) ==
  /\ i \notin sseen
  /\ sseen' = sseen \cup {i}
  /\ scache' = [scache EXCEPT ![i] = svc[i]]
  /\ queue' = queue \cup {i}
  /\ UNCHANGED <<clock, edits, inst, pod, svc, iseen, pseen,
                 icache, pcache, pc, key, obj, goal, faults>>

\* The informers' periodic resync: every ten hours each cached object is
\* handed to its handler again.
Resync(i) ==
  /\ i \notin queue
  /\ icache[i].exists \/ Present(pcache[i]) \/ scache[i].exists
  /\ queue' = queue \cup {i}
  /\ UNCHANGED <<icache, pcache, scache, pc, key, obj, goal, faults>>
  /\ UNCHANGED clusterVars

Outside(i) == (User(i) \/ Platform(i)) /\ UNCHANGED reconcilerVars

TimePasses == Tick /\ UNCHANGED reconcilerVars

\* What happens while the operator runs.
Running ==
  \/ \E i \in Instances :
       \/ Begin(i) \/ Resync(i) \/ Outside(i)
       \/ DeliverInstance(i) \/ DeliverPod(i) \/ DeliverService(i)
  \/ WorkerStep \/ Abort \/ TimePasses

Next == Running \/ Restart

Spec == Init /\ [][Next]_vars

\* The queue is FIFO, so that a waiting name gets its turn; calls return; watch
\* events arrive; the resync timer fires; grace periods end; garbage is collected.
\* Users, faults and the clock owe nothing, except that the clock does run.
Fairness ==
  /\ WF_vars(WorkerStep)
  /\ WF_vars(TimePasses)
  /\ \A i \in Instances :
       /\ SF_vars(Begin(i))
       /\ WF_vars(Resync(i))
       /\ WF_vars(DeliverInstance(i))
       /\ WF_vars(DeliverPod(i))
       /\ WF_vars(DeliverService(i))
       /\ WF_vars(PodGone(i) /\ UNCHANGED reconcilerVars)
       /\ WF_vars(CollectPod(i) /\ UNCHANGED reconcilerVars)
       /\ WF_vars(CollectService(i) /\ UNCHANGED reconcilerVars)

FairSpec == Spec /\ Fairness

-----------------------------------------------------------------------------
\* Nothing in the operator is going to look at instance i again, short of a
\* resync: no event under way, not queued, not being reconciled.
Settled(i) ==
  i \in iseen /\ i \in pseen /\ i \in sseen /\ i \notin queue /\ key # i

StatusIs(o, g) == o.phase = g.phase /\ o.adb = g.adb /\ o.cond = g

\* What a reconciled instance looks like.
InSync(i) ==
  LET o == inst[i] IN
  o.exists =>
    /\ ~o.deleting /\ o.finalizer
    /\ svc[i].exists /\ svc[i].type = o.svcType
    /\ IF WantsPod(o, clock)
       THEN Present(pod[i]) /\ StatusIs(o, PodReport(pod[i]))
       ELSE (Present(pod[i]) => pod[i].deleting) /\ StatusIs(o, StoppedReport)

\* Reconcile never leaves an instance in a wrong state with nobody to come back
\* to it: whatever the caches missed, whichever call failed and whoever wrote
\* in between, either something is still pending for it, or its finalizer is on,
\* its Service has the type of the spec, its Pod is there or going as spec and
\* overrides call for, and phase, address and conditions are what Reconcile says
\* of that Pod: the address is the Pod's own.  The exception is an override that
\* has run out: see ExpiryIsPending.
Converged ==
  \A i \in Instances :
    Settled(i) /\ ~HasExpired(inst[i], clock) => InSync(i)

\* Once users and faults stop, every instance gets in sync and stays so, and its
\* Pod and Service belong to the incarnation that is there.  The resync is what
\* gets an expired override noticed.
EventuallyInSync ==
  \A i \in Instances :
    <>[](/\ InSync(i) /\ ~HasExpired(inst[i], clock)
         /\ Present(pod[i]) => pod[i].owner = inst[i].uid
         /\ svc[i].exists => svc[i].owner = inst[i].uid)

\* A RedroidInstance that is deleted goes away: the finalizer is not stuck behind
\* a conflict, a failed call or an operator that was down.
DeletionCompletes ==
  \A i \in Instances : inst[i].deleting ~> ~inst[i].deleting

\* A Pod does not outlive the incarnation it was made for, even where the clean-up
\* did not see it, or has failed, and the name has been taken again.
Outlived(i) == Present(pod[i]) /\ ~(inst[i].exists /\ inst[i].uid = pod[i].owner)

NoPodOutlivesItsInstance == \A i \in Instances : Outlived(i) ~> ~Outlived(i)

\* types.go, architecture.md: once Until has passed the controller clears the
\* override.  Then an expired override must have work pending for it.
ExpiryIsPending ==
  \A i \in Instances : HasExpired(inst[i], clock) => ~Settled(i)

\* A pass never works for a dead incarnation.  Once it is past the finalizer, the
\* RedroidInstance it read is still there (under the same uid) until it returns,
\* so that the Pod and the Service it makes have a living owner; and a pass that
\* cleans up after a deleted instance never takes the Pod of a later instance of
\* the same name, however stale the copy it read.
InPass == {"service", "woken", "suspended", "decide", "stop", "run", "status"}
InCleanup == {"cleanup", "unfinalize"}

IncarnationSafe ==
  /\ pc \in InPass => inst[key].exists /\ inst[key].uid = obj.uid
  /\ pc \in InCleanup => (Present(pod[key]) => pod[key].owner <= obj.uid)

-----------------------------------------------------------------------------
(* The inductive invariant behind Converged and IncarnationSafe. *)

\* What the informer has delivered is what the server stores.
CachesFresh ==
  \A i \in Instances :
    /\ i \in iseen => icache[i] = inst[i]
    /\ i \in pseen => pcache[i] = pod[i]
    /\ i \in sseen => scache[i] = svc[i]

\* Nothing has happened to i since the pass under way began.
Undisturbed(i) == i \in iseen /\ i \in pseen /\ i \in sseen /\ i \notin queue

\* A pass that nothing disturbs works on the object as it is, and has
\* established, at each place, what the places before it are there for.
PassOnTrack ==
  key # NoKey /\ Undisturbed(key) =>
    /\ obj = inst[key] /\ obj.exists
    /\ pc \in InCleanup => obj.deleting
    /\ pc \in InPass \cup {"finalize"} => ~obj.deleting
    /\ pc \in InPass => obj.finalizer
    /\ pc \in InPass \ {"service"} =>
         svc[key].exists /\ svc[key].type = obj.svcType
    /\ ~HasExpired(obj, clock) =>
         /\ pc = "run" => WantsPod(obj, clock)
         /\ pc = "stop" => ~WantsPod(obj, clock)
         /\ pc = "status" =>
              IF WantsPod(obj, clock)
              THEN Present(pod[key]) /\ goal = PodReport(pod[key])
              ELSE (Present(pod[key]) => pod[key].deleting) /\ goal = StoppedReport

\* Uids only grow, at the server and in the cache, and an object is only ever
\* let go by a pass that has seen its deletion.
CacheIncarnation(i) ==
  /\ inst[i].exists /\ inst[i].deleting => inst[i].finalizer
  /\ icache[i].uid <= inst[i].uid
  /\ Present(pod[i]) => pod[i].owner <= icache[i].uid
  /\ icache[i].uid = inst[i].uid /\ icache[i].deleting /\ inst[i].exists =>
       inst[i].deleting
  /\ icache[i].exists /\ ~icache[i].deleting /\ icache[i].finalizer =>
       inst[i].exists /\ inst[i].finalizer /\ inst[i].uid = icache[i].uid

PassIncarnation ==
  /\ key # NoKey =>
       /\ obj.uid <= icache[key].uid
       /\ Present(pod[key]) => pod[key].owner <= obj.uid
  /\ pc = "finalize" => obj.exists /\ ~obj.deleting
  /\ pc \in InCleanup =>
       /\ icache[key].uid = obj.uid /\ icache[key].exists => icache[key].deleting
       /\ inst[key].uid = obj.uid /\ inst[key].exists => inst[key].deleting
  /\ pc \in InPass =>
       inst[key].exists /\ inst[key].finalizer /\ inst[key].uid = obj.uid

Incarnations == (\A i \in Instances : CacheIncarnation(i)) /\ PassIncarnation

IInv == TypeOK /\ CachesFresh /\ PassOnTrack /\ Incarnations /\ Converged
=============================================================================
