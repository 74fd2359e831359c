------------------------------- MODULE Cluster -------------------------------
(***************************************************************************)
(* The API server as the instance controller sees it, and everybody else   *)
(* who writes to it: users (kubectl, Flux, the kubectl-redroid plugin),    *)
(* the kubelet and the garbage collector.  Each instance i has at most one *)
(* RedroidInstance, one Pod and one Service, because their names are       *)
(* functions of its name; an incarnation of the RedroidInstance is told    *)
(* from a later one of the same name by its uid.                           *)
(*                                                                         *)
(* A write that changes an object makes a watch event.  iseen, pseen and   *)
(* sseen hold the instances whose RedroidInstance, Pod or Service the      *)
(* operator's informer shows as the server stores it; a write takes the    *)
(* instance out of the set and the delivery of the event puts it back.     *)
(***************************************************************************)
EXTENDS Overrides

CONSTANTS
  Instances,     \* names of RedroidInstances
  IPs,           \* addresses a Pod can be given
  ServiceTypes,  \* spec.service.type: what the front Service must look like
  Untils,        \* expiry times a user may write into an override
  MaxClock,      \* bound: the clock stops there
  Kinds,         \* bound: the kinds of disturbances
  MaxEdits       \* bound: number of disturbances, in all

NoIP == 0

ASSUME ClusterAssumption ==
  /\ IPs \subseteq Nat \ {NoIP}
  /\ Untils \subseteq Nat \ {NoUntil}
  /\ ServiceTypes # {}
  /\ MaxClock \in Nat
  /\ MaxEdits \in Nat

VARIABLES
  clock,         \* now
  edits,         \* disturbances so far: writes by users, exits of Pods
  inst,          \* the RedroidInstance of each name
  pod,           \* the Pod redroid-instance-<name>
  svc,           \* the Service redroid-instance-<name>
  iseen, pseen, sseen

serverVars == <<inst, pod, svc>>
seenVars == <<iseen, pseen, sseen>>
clusterVars == <<clock, edits, inst, pod, svc, iseen, pseen, sseen>>

-----------------------------------------------------------------------------
\* What the status says of the Pod: status.phase and status.adbAddress.  The
\* Ready and Scheduled conditions are computed from the same pair and stored
\* in one list, kept here as the pair they were last computed from.
Phases == {"", "Pending", "Running", "Stopped", "Failed"}
Reports == [phase : Phases, adb : IPs \cup {NoIP}]
NoReport == [phase |-> "", adb |-> NoIP]

InstanceObjects ==
  [exists : BOOLEAN, uid : Nat, deleting : BOOLEAN, finalizer : BOOLEAN,
   suspend : BOOLEAN, svcType : ServiceTypes,
   suspended : Overrides, woken : Overrides,
   phase : Phases, adb : IPs \cup {NoIP}, cond : Reports]

\* The RedroidInstance a user creates: an empty status and no finalizer yet.
NewInstance(u, s, t) ==
  [exists |-> TRUE, uid |-> u, deleting |-> FALSE, finalizer |-> FALSE,
   suspend |-> s, svcType |-> t, suspended |-> Cleared, woken |-> Cleared,
   phase |-> "", adb |-> NoIP, cond |-> NoReport]

\* A name without an object; the uid only remembers the last incarnation.
NoInstance(u, t) == [NewInstance(u, FALSE, t) EXCEPT !.exists = FALSE]

PodPhases == {"Pending", "Running", "Succeeded", "Failed"}
NoOwner == 0              \* no ownerReference: uids start from 1
NoPod == [phase |-> "Absent", ip |-> NoIP, deleting |-> FALSE, owner |-> NoOwner]

\* Mutant: SetControllerReference is forgotten.
NewPodUnowned(u) ==
  [phase |-> "Pending", ip |-> NoIP, deleting |-> FALSE, owner |-> NoOwner]

NewPod(u) == [phase |-> "Pending", ip |-> NoIP, deleting |-> FALSE, owner |-> u]
PodObjects ==
  {NoPod} \cup
  [phase : PodPhases, ip : IPs \cup {NoIP}, deleting : BOOLEAN, owner : Nat]

NoSvc == [exists |-> FALSE, type |-> "none", owner |-> NoOwner]
SvcObjects == {NoSvc} \cup [exists : {TRUE}, type : ServiceTypes, owner : Nat]

Present(p) == p # NoPod
Terminated(p) == p.phase \in {"Succeeded", "Failed"}

\* The decision for a RedroidInstance object, the server's or a local copy.
WantsPod(o, now) == DesiredRunning(o.suspend, o.suspended, o.woken, now)

HasExpired(o, now) == Expired(o.suspended, now) \/ Expired(o.woken, now)

-----------------------------------------------------------------------------
\* Writes.  An object the write leaves as it was makes no event.
WriteInst(i, o) ==
  /\ inst' = [inst EXCEPT ![i] = o]
  /\ iseen' = IF o = inst[i] THEN iseen ELSE iseen \ {i}

WritePod(i, p) ==
  /\ pod' = [pod EXCEPT ![i] = p]
  /\ pseen' = IF p = pod[i] THEN pseen ELSE pseen \ {i}

WriteSvc(i, s) ==
  /\ svc' = [svc EXCEPT ![i] = s]
  /\ sseen' = IF s = svc[i] THEN sseen ELSE sseen \ {i}

ClusterTypeOK ==
  /\ clock \in Nat
  /\ edits \in Nat
  /\ inst \in [Instances -> InstanceObjects]
  /\ pod \in [Instances -> PodObjects]
  /\ svc \in [Instances -> SvcObjects]
  /\ iseen \subseteq Instances
  /\ pseen \subseteq Instances
  /\ sseen \subseteq Instances

\* The operator starts with synced informers; an instance is yet to be created
\* or was created, with or without spec.suspend, while no operator ran.
ClusterInit ==
  /\ clock = 1
  /\ edits = 0
  /\ inst \in [Instances ->
                 {NoInstance(0, t) : t \in ServiceTypes} \cup
                 {NewInstance(1, s, t) : s \in BOOLEAN, t \in ServiceTypes}]
  /\ pod = [i \in Instances |-> NoPod]
  /\ svc = [i \in Instances |-> NoSvc]
  /\ iseen = Instances
  /\ pseen = Instances
  /\ sseen = Instances

-----------------------------------------------------------------------------
\* Users.  Each write is counted, so that a behaviour has finitely many.
MayDisturb(kind) ==
  /\ kind \in Kinds
  /\ edits < MaxEdits
  /\ edits' = edits + 1

UserWrite(kind, i, o) ==
  /\ MayDisturb(kind)
  /\ WriteInst(i, o)
  /\ UNCHANGED <<clock, pod, svc, pseen, sseen>>

\* kubectl apply of a new RedroidInstance.
CreateInstance(i) ==
  /\ ~inst[i].exists
  /\ \E s \in BOOLEAN, t \in ServiceTypes :
       UserWrite("create", i, NewInstance(inst[i].uid + 1, s, t))

\* kubectl delete: the object stays while a finalizer holds it.
DeleteInstance(i) ==
  /\ inst[i].exists /\ ~inst[i].deleting
  /\ UserWrite("delete", i, IF inst[i].finalizer
                  THEN [inst[i] EXCEPT !.deleting = TRUE]
                  ELSE NoInstance(inst[i].uid, inst[i].svcType))

\* A change of the fields of the spec that are read on every reconcile.
EditSpec(i) ==
  /\ inst[i].exists
  /\ \E s \in BOOLEAN, t \in ServiceTypes :
       /\ <<s, t>> # <<inst[i].suspend, inst[i].svcType>>
       /\ UserWrite("edit", i, [inst[i] EXCEPT !.suspend = s, !.svcType = t])

\* kubectl redroid instance suspend [--until], or a manual kubectl patch.
SuspendOverride(i) ==
  /\ inst[i].exists
  /\ \E a \in Actors, u \in Untils \cup {NoUntil} :
       UserWrite("suspend", i, [inst[i] EXCEPT !.suspended = MergeOverride(@, a, u)])

\* kubectl redroid instance resume, or a manual {"suspended": null}.
ResumeOverride(i) ==
  /\ inst[i].exists /\ inst[i].suspended.set
  /\ UserWrite("resume", i, [inst[i] EXCEPT !.suspended = Cleared])

\* The documented manual patches of status.woken.
WakeOverride(i) ==
  /\ inst[i].exists
  /\ \E a \in Actors, u \in Untils \cup {NoUntil} :
       UserWrite("wake", i, [inst[i] EXCEPT !.woken = MergeOverride(@, a, u)])

ClearWokenOverride(i) ==
  /\ inst[i].exists /\ inst[i].woken.set
  /\ UserWrite("unwake", i, [inst[i] EXCEPT !.woken = Cleared])

\* Somebody deletes the Pod: kubectl delete pod, an eviction, a node drain.
EvictPod(i) ==
  /\ MayDisturb("evict")
  /\ Present(pod[i]) /\ ~pod[i].deleting
  /\ WritePod(i, [pod[i] EXCEPT !.deleting = TRUE])
  /\ UNCHANGED <<clock, inst, svc, iseen, sseen>>

\* Somebody edits or deletes the Service behind the operator's back.
TamperService(i) ==
  /\ MayDisturb("tamper")
  /\ svc[i].exists
  /\ \/ WriteSvc(i, NoSvc)
     \/ \E t \in ServiceTypes \ {svc[i].type} :
          WriteSvc(i, [svc[i] EXCEPT !.type = t])
  /\ UNCHANGED <<clock, inst, pod, iseen, pseen>>

User(i) ==
  \/ CreateInstance(i) \/ DeleteInstance(i) \/ EditSpec(i)
  \/ SuspendOverride(i) \/ ResumeOverride(i)
  \/ WakeOverride(i) \/ ClearWokenOverride(i)
  \/ EvictPod(i) \/ TamperService(i)

-----------------------------------------------------------------------------
\* The kubelet.  The Pod's restartPolicy is Never: a terminated Pod stays so.
KubeletWrite(i, p) ==
  /\ WritePod(i, p)
  /\ UNCHANGED <<clock, edits, inst, svc, iseen, sseen>>

PodStarts(i) ==
  /\ pod[i].phase = "Pending" /\ ~pod[i].deleting
  /\ KubeletWrite(i, [pod[i] EXCEPT !.phase = "Running"])

PodGetsIP(i) ==
  /\ pod[i].phase = "Running" /\ pod[i].ip = NoIP
  /\ \E ip \in IPs : KubeletWrite(i, [pod[i] EXCEPT !.ip = ip])

\* Android shuts down, a container crashes, or termination stops them; an init
\* container that fails takes the Pod from Pending to Failed.  Counted with the
\* writes of users, for it is as unforeseen.
PodExits(i) ==
  /\ MayDisturb("exit")
  /\ \E ph \in {"Succeeded", "Failed"} :
       /\ pod[i].phase = "Running" \/ (pod[i].phase = "Pending" /\ ph = "Failed")
       /\ WritePod(i, [pod[i] EXCEPT !.phase = ph])
  /\ UNCHANGED <<clock, inst, svc, iseen, sseen>>

\* The grace period of a deleted Pod is over.
PodGone(i) ==
  /\ pod[i].deleting
  /\ KubeletWrite(i, NoPod)

\* The garbage collector removes what a dead incarnation owns, by its
\* ownerReference; what has none it leaves alone.
Orphaned(i, owner) ==
  owner # NoOwner /\ (~inst[i].exists \/ inst[i].uid # owner)

CollectPod(i) ==
  /\ Present(pod[i]) /\ ~pod[i].deleting /\ Orphaned(i, pod[i].owner)
  /\ KubeletWrite(i, [pod[i] EXCEPT !.deleting = TRUE])

CollectService(i) ==
  /\ svc[i].exists /\ Orphaned(i, svc[i].owner)
  /\ WriteSvc(i, NoSvc)
  /\ UNCHANGED <<clock, edits, inst, pod, iseen, pseen>>

Tick ==
  /\ clock < MaxClock
  /\ clock' = clock + 1
  /\ UNCHANGED <<edits, inst, pod, svc, iseen, pseen, sseen>>

\* What Kubernetes does by itself, as opposed to what users do.
Platform(i) ==
  \/ PodStarts(i) \/ PodGetsIP(i) \/ PodExits(i) \/ PodGone(i)
  \/ CollectPod(i) \/ CollectService(i)
=============================================================================
