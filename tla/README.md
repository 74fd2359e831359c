# redroid-operator: a TLA+ model

This directory holds a formal model of the operator in `src/`: TLA+ modules, TLC
configurations, and proofs checked by TLAPS. It covers the two controllers and
what they do to each other, and three smaller parts of the plugin and the Pod
templates whose logic is easy to get wrong. The first sections describe the
system; the others say what is modelled, what the runs show, what is proved, and
what is left.

## 1. The system

redroid-operator runs Android containers on Kubernetes. Two custom resources are
reconciled by two controllers in one process, and a kubectl plugin writes to the
same resources.

| part | source | state it keeps | operations |
|---|---|---|---|
| RedroidInstance controller | `internal/controller/redroidinstance_controller.go` | nothing of its own: a work queue and informer caches; a Pod and a Service per instance, `status` of the RedroidInstance | `Reconcile`: finalizer, Service, auto-clear of expired overrides, `desiredRunning`, create/delete/observe the Pod, `updateStatus` |
| RedroidTask controller | `internal/controller/redroidtask_controller.go` | a work queue, requeue timers and caches; a Job or a CronJob per (task, instance), `status` of the RedroidTask | `Reconcile`: finalizer, `resolveInstances`, `reconcileJobs` or `reconcileCronJobs`, `patchTaskStatus` |
| overrides | `api/v1alpha1/redroidinstance_types.go`, `desiredRunning` | `status.suspended`, `status.woken`: actor, optional expiry | merge patches by the CLI, by tasks, by the instance controller |
| task Pod templates | `mergeVolumes`, `mergeVolumeMounts` in the task controller | none | volumes from four origins are merged by precedence, mounts by path |
| `kubectl redroid instance suspend/resume` | `cmd/kubectl-redroid/cmd/instance.go` | none | one merge patch of the status subresource each |
| `kubectl redroid task trigger` | `cmd/kubectl-redroid/cmd/task.go` | none | one Job per instance from the CronJob templates |
| port-forward, adb, shell | `cmd/kubectl-redroid/cmd/portforward.go`, `instance.go` | a tunnel, a stop channel, an error channel | up to three goroutines and a signal |
| manager start-up, namespaces | `cmd/main.go`, `cmd/namespaces.go` | flags, one informer cache for both controllers | start and restart |
| list, describe, logs; CRDs, charts, images | `cmd/kubectl-redroid`, `config`, `charts`, `kmsg-tools` | none | read-only commands, declarations |

**How they interact.** The controllers never call each other. A one-shot task
with `suspendInstance` or `wakeInstance` writes `status.suspended` or
`status.woken` of a RedroidInstance. The instance controller is woken by that
write, stops or starts the Pod and then reports `status.phase`. The task
controller does not watch RedroidInstances: it asks to be called again after five
seconds and looks at the phase in its cache. When the Job has finished it clears
the override, whoever set it. Users, Flux and the CLI write the same fields at any
time, without a lock and mostly without a resourceVersion.

**What is hard.**

- Every read comes from an informer cache, which may lag behind each object
  separately. A decision taken from such a copy is carried out on what the server
  has by then.
- A pass consists of four to eight API calls, each of which may fail, conflict,
  or be the last before the process dies. What was done stays done.
- The only conditional writes are the finalizer's. All other writes are merge
  patches by name, which land on whatever object (and incarnation) is there.
- Responses are decoded into the local struct, and a field that the server leaves
  out keeps its old local value.
- Nothing but events, one retry queue and one requeue interval brings a
  controller back. A state that is wrong when nothing is pending stays wrong.
- Objects are deleted and created again under the same name.
- The plugin's tunnel runs beside the command that uses it; readiness, errors and
  signals cross in channels, and every run wants the same local port by default.

**What makes each part correct.**

- *Instance controller*: when nothing is pending, Pod, Service, finalizer and
  status are what spec and overrides ask for; no pass works for a dead
  incarnation; a deleted instance goes away, and its Pod with it.
- *Task controller*: when nothing is pending, every instance of a task has its
  Job or its CronJob as the spec has it, and the status tells the truth about
  the Jobs; while a Job runs, the override it relies on is in place; a task comes
  to an end and gives its instances back.
- *Both together*: the Job of a suspending task does not run beside the Pod.
- *Pod templates*: a volume is only replaced by one that may replace it; every
  file from a ConfigMap is mounted from that ConfigMap.
- *Trigger*: one Job per instance.
- *Tunnel*: the tunnel of an adb listens before adb starts and as long as it lasts; a
  tunnel that breaks is told; Ctrl-C ends the run; success means that the user asked
  for the end.

## 2. Modules

    Overrides                       overrides, merge patches, desiredRunning
      OverrideProofs                lemmas about them (TLAPS)
      Cluster                       API server, users, kubelet, GC for instances
        InstanceReconciler          the instance controller, its properties
          InstanceProofs            theorems (TLAPS)
          InstanceRefinement        ... implements InstanceLifecycle
            RefinementProofs        ... a theorem (TLAPS)
            MCInstance
      InstanceLifecycle             abstract instance controller
        TaskReconciler              the task controller, Jobs, CronJobs
          Operator                  both controllers together, their properties
            TaskProofs              theorems, also of InstanceLifecycle (TLAPS)
              ReservationProofs     theorems with hypotheses on the environment (TLAPS)
            MCOperator
    TaskPod        MCTaskPod        merge of volumes and mounts
      PodProofs                     theorems (TLAPS)
    FoldProofs                      a fold is a loop (TLAPS)
    TaskTrigger    MCTaskTrigger    kubectl redroid task trigger
    PortForward    MCPortForward    kubectl redroid instance port-forward, adb, shell
      PluginProofs                  theorems about both (TLAPS)

An indented module EXTENDS the one above it; `InstanceRefinement` also
INSTANCEs `InstanceLifecycle` with a refinement mapping, `RefinementProofs`
also EXTENDS `InstanceProofs`, and `PodProofs` has three instances of `FoldProofs`,
one for each loop of `mergeVolumes`.

**Overrides.** `Overrides` is the nullable struct without its reason (only shown).
`MergeOverride` is what a merge patch `{actor, until}` leaves on the server and
`DecodeOverride` what decoding leaves in the caller's struct: both keep a stored
`until` that the document does not mention. `Expired` is `Until.Before(now)`, so
an override is live at the very instant it names. `DesiredRunning` is
`desiredRunning`.

**Cluster.** `inst`, `pod`, `svc` are the objects of each instance name; `uid`
tells incarnations apart. A write that changes an object takes its name out of
`iseen`/`pseen`/`sseen`; the delivery of the event puts it back. `User` actions
are creation, deletion, spec edits, overrides with and without expiry, eviction of
Pods and tampering with Services; `Platform` actions are the kubelet's (Pod
starts, gets an address, exits, is gone after its grace period) and the garbage
collector's. `Tick` is time.

**InstanceReconciler.** One worker (`MaxConcurrentReconciles` is the default 1),
whose place in `Reconcile` is `pc`, whose request is `key` and whose local object
is `obj`. There is one action per API call of `Reconcile`: `Begin`, `Cleanup`,
`RemoveFinalizer`, `AddFinalizer`, `ReconcileService`, `ClearExpiredWoken`,
`ClearExpiredSuspended`, `Decide`, `StopPod`, `CreatePod`, `ObservePod`,
`UpdateStatus`. Any call may fail (`Abort`), and the process may die (`Restart`:
the queue and the local copy are lost, the caches are listed anew). `queue` is a
set, as the work queue keeps each name once.

**InstanceLifecycle.** What the task controller may rely on: for each instance,
the controller looks at a cached copy, lifts expired overrides, decides, stops or
starts the Pod and reports a phase last. Instances are created and go under its
hands; a patch then finds nothing (`NotFound`). Finalizer, deletion timestamp,
Service, address, conditions, queue and the single worker are forgotten.
`InstanceRefinement` maps the detailed module to it; a pass that cleans up after a
deletion is idle there, and its deletion of the Pod an eviction. A copy whose
overrides never expire is decided on at once in the abstract module: the mapping
places a pass at "run" or "stop" as soon as it has such a copy, because no later
step before the decision can change its outcome.

**TaskReconciler.** Again one worker: `tpc`, `tkey`, `tobj`; `at` is the pair that
the loop is at, `pairs` what was read of each instance by `resolveInstances`
(the loop uses those copies and does not read again), `active` and `again` the
loop's `activeJobs` and `requeueAfter`. Actions: `TaskBegin`,
`RemoveTaskFinalizer`, `AddTaskFinalizer`, `ResolveInstances`; for each pair of a
one-shot task `Reserve`, `AwaitPhase`, `CreateJob`, `JobUnderWay`, `Release`; for
each pair of a scheduled task `SyncCron`; then `ReportTask`. `later` holds the
tasks whose `RequeueAfter` runs. Users create, edit and delete tasks and remove
Jobs (so does `ttlSecondsAfterFinished`); Jobs complete or fail; the garbage
collector takes Jobs and CronJobs of dead incarnations. A CronJob that fires, and
`task trigger`, make Jobs with names of their own and the label of the task: `Fire`
adds them to `runs`, and `Verdict` counts, of those, any number that may have ended,
be in the cache and still be there.

**Operator.** The two controllers side by side; what users do to an instance by hand
(`ByHand`: suspend and wake, with an expiry or without, lift either override, change
`spec.suspend`); Pods that exit or fail; instances that are created and deleted under a
task; the clock; and one restart for both controllers.

**TaskPod.** `mergeVolumes` and `mergeVolumeMounts` as folds, for a task with any number
of integrations, each with its ConfigMaps and mounts; `Rightful` is the precedence table of
`docs/architecture.md`, written as a definition of its own.

**TaskTrigger.** Runs of the command, one action per API call, against the clock
and the operator that creates CronJobs.

**PortForward.** Runs of the plugin on one machine, with one local port. `main` is
where the command is (`runWithADB` or the interactive `startPortForward`), `tunnel`
where client-go's `ForwardPorts` is, `collecting` whether the third goroutine waits
for the error. `ready` and `stop` are the channels that are closed, `errCh` the
channel of one slot, `caught` the one that os/signal feeds. A select is two actions
with overlapping guards: `ReadyForUser`/`ReadyForCaller` or `TunnelEnded`, then
`Interrupted` or `TunnelEnded`. `Notify` divides the time in which Ctrl-C kills the
process from that in which it is caught. The tunnel dials, binds the port on 127.0.0.1
and then on ::1, as client-go does for "localhost" (`Bind4`, `Bind6`), serves if it has
got either of them, lets go of them, and sends what it returns. Another program may have
the port on an address, so a bind may fail where no run of the plugin listens. adb is a program that takes as long
as it likes and ends in either way.

### Abstractions

- A conditional write (`Update` of the finalizer) compares the whole object in
  place of the resourceVersion. A write that restores an earlier object between
  read and Update would be refused by the server and is accepted by the model.
- Conditions are kept as the pair (phase, address), or the verdict, they were last
  computed from; `reworded` is the case in which only a message or an observed
  generation differs and the list is sent anyway.
- A Pod manifest is reduced to its owner, a CronJob's template to `rev`, which
  stands for every field copied from the spec; names are values. Events,
  recorder calls and log lines are left out.
- Watch events for one object that arrive together are one step.
- `suspendInstance` and `wakeInstance` exclude each other (the CEL rule at
  `api/v1alpha1/redroidtask_types.go:88`); instance names within a task are
  distinct (`listMapKey`).
- Tasks write no expiry. Users may, in `Operator` too; the clock runs in `TaskEdits`
  and in the instance runs, and stands still in the other task runs, where no override
  carries an expiry.
- `ConfigMapVolumeName` is taken to give distinct ConfigMaps distinct names. It ends in
  eight hexadecimal digits of a hash, so that is true but for collisions of those.
- Deadlock is not checked: with nothing to do, and the bounded disturbances used
  up, the operator rightly stops.

## 3. What the runs check

All runs use one name per role that matters, because instances do not interact
except through a task, and two names where a loop over instances is the subject.

| run | bounds | shows |
|---|---|---|
| `InstanceSafety` | 1 instance, 1 user, clock to 2, 1 expiry; 2 of: create, delete, suspend, eviction, exit; 1 failed call or restart | `TypeOK`, `IncarnationSafe`, `Converged`, `IInv` |
| `InstanceLive` | 1 instance, 2 Service types, clock to 2; 1 of: spec edit, suspend, wake, delete, eviction, exit, tampered Service, or a deletion and the creation anew; 1 failed call or restart where an instance is being deleted or gone | `EventuallyInSync`, `DeletionCompletes`, `NoPodOutlivesItsInstance` |
| `InstanceRefines` | 1 instance, clock to 2; 1 write, creation, deletion or Pod trouble, 1 failed call or restart | `ImplementsLifecycle` |
| `TaskReservations` | 1 task that suspends or wakes an instance that should run, and 1 failed call or restart, or that suspends it and another at rest | `TypeOK`, `TaskConverged`, `Reserved`, `CompleteMeansDone` |
| `TaskEdits` | 1 task over 2 instances at rest, in four specs: plain on one or on both, scheduled in two versions; 2 of: task created, deleted, changed, CronJob fires, Job removed, instance deleted, created or edited, an override (with an expiry or without) written or lifted, failed call, restart; clock to 2 | `TaskIInv` |
| `TaskLive` | 1 suspending or waking task, an instance that should run or not; 1 Pod that fails, or 1 instance that is woken by hand, while it is awaited | `TasksEnd` |
| `TaskPod` | none or 2 integrations with up to 2 configs each, 2 reserved names, 2 ConfigMaps, up to 2 volumes of the task and of the instance, colliding names and paths in each list | `VolumesByPrecedence`, `ConfigsReachTheirContainers` |
| `PortForward` | a `port-forward` and an `adb` with one local port; Ctrl-C and the loss of the connection once each | `AdbFindsItsTunnel`, `EndsWellWhenAsked`, `LossIsTold`, `CtrlCEnds` |

- **`Converged`** is the heart of the instance part: if no event is under way for
  an instance, it is not queued and not being worked on, and no override of it
  has run out, then its Pod is there or going as `desiredRunning` says, its
  Service has the right type, the finalizer is on, and phase, address and
  conditions are what `Reconcile` says of the Pod as it is: the address is the Pod's IP
  (`redroidinstance_controller.go:152-155`; section 6 says what a document has instead).
  A state that violates it would stay wrong until the ten-hour resync. It is about
  every way in which a stale cache, a failed call and a concurrent write can combine.
  That an override that is lifted was one that had run out is not part of it, nor
  true (section 6).
- **`IncarnationSafe`**: once past the finalizer, a pass works for the incarnation
  that is there; a clean-up never meets the Pod of a later incarnation. The
  conditional `Update` of the finalizer is what guarantees it: with a patch in its
  place the run finds a pass that builds for a dead incarnation.
- **`IInv`** is the inductive invariant of section 5, checked before it was proved.
- **`EventuallyInSync`**, **`DeletionCompletes`**, **`NoPodOutlivesItsInstance`**:
  once users and faults stop, every instance gets in sync for good, with a Pod and a
  Service of the incarnation that is there; finalizers do not get stuck, whichever
  call of the clean-up fails or meets a restart; a Pod does not outlive the incarnation
  it was made for, also when the name has been taken again meanwhile.
- **`ImplementsLifecycle`**: the phase is written only at the end of a pass, by the
  decision that this pass took on the copy it read, and the Pod is stopped or
  started by such a decision only. This is what entitles `Operator` to use the
  small specification.
- **`TaskConverged`**: when nothing is pending for a task (no event, not queued, no
  requeue timer, not being worked on), each of its instances has its Job, or the
  CronJob as the spec has it now, and conditions and `activeJobs` are borne out by
  the Jobs: `BorneOut` computes them anew, from the server's objects, and leaves
  open only how many of the fired Jobs were counted. Nothing watches RedroidInstances
  for a task, so it all hangs on `requeueAfter` being set on every path that waits.
- **`Reserved`**: while the Job of a suspending (waking) task runs, `suspended`
  (`woken`) is set. True as long as no two tasks suspend (or wake) the same instance and
  nobody else takes the override away (section 5); `TaskShared` shows that it is false
  for two tasks that share one.
- **`TaskIInv`** is `TypeOK`, `TaskConverged` and what makes them inductive, see
  section 5; `TaskEdits` checks it where the spec changes under a pass.
- **`CompleteMeansDone`**: Complete is a comparison of two counts. In the run, a task on
  two instances gets the Job of one while the other is still awaited, or has not been
  reserved, and that Job, when it has succeeded, does not make up for the other - as
  long as nobody edits the task, removes a Job or fires a CronJob. Section 6 says what
  happens when somebody does; `CompleteIsTrue` (section 5) is the general case.
- **`TasksEnd`**: a one-shot task ends, says so for good, and holds no override
  afterwards, if its instances stay and nobody lifts an override or writes one that
  runs out. Two things may keep it waiting for ever, and the run has both: the Pod that a
  waking task awaits has ended (`AwaitsDeadPod`), and the instance controller does not
  replace a Pod that is there; or the instance that a suspending task awaits has been
  woken by hand (`AwaitsWoken`), and woken beats suspended.
- **`VolumesByPrecedence`**, **`ConfigsReachTheirContainers`**: the code against the
  table of `docs/architecture.md`, and the two merges against each other.
- **`AdbFindsItsTunnel`**: while adb runs and its tunnel lasts, that tunnel listens on
  one address of "localhost" at least, whatever other runs bind and let go. That adb
  reaches *this* tunnel is not said: another run may have the other address (section 6).
- **`LossIsTold`**, **`CtrlCEnds`**, **`EndsWellWhenAsked`**: no ending of the tunnel
  gets lost in a channel nobody reads; the signal is not lost between
  `signal.Notify` and the select (the channel has a slot); and the three ways out of
  the two selects report what they should, whichever comes first.

Four runs end in a violation, each of something that a comment or a document of
the repository says:

| run | property | what happens |
|---|---|---|
| `InstanceExpiry` | `ExpiryIsPending` | An override expires while the instance is settled. `Reconcile` never asks to be called again at `Until`, so nothing clears the override until an unrelated event. |
| `TaskExclusive` | `Exclusive` | Phase Stopped is written as soon as the Pod's deletion has been asked for. The Job starts while the Pod still terminates, on the same overlay directory. |
| `TaskShared` | `Reserved` | Two suspending tasks share an instance; the first to finish clears the override under the running Job of the other. |
| `TriggerNames` | `OneJobPerInstance` | The Job's name holds the task and the minute but not the instance: within a minute the second instance's Job collides with the first's and the command stops. |

**Why the bounds are enough.** One instance has every interleaving of one pass
with writes, late events and the kubelet; the worker serves one name at a time, so
a second name adds only waiting. Two disturbances allow deletion and creation
under the same name, or the change of an override before and after the read. One
failure is enough for every "done up to here" state of a pass, and each pass
starts from scratch. The clock needs an instant before, at and after an expiry:
expiry 1, clock 1 to 2, with strict comparison.

`TaskReservations` has one failure, and none for a task on two instances
(`OneMeetsFailures`). In `TaskEdits` disturbances and failures share a budget of two,
the second once nothing is pending of the first (`SecondMeetsRest`): the first leaves Jobs, CronJobs and a status of some
earlier spec behind, the second meets them at any point of the pass that it starts
itself or not. A task on both instances meets failures only (`BothMeetFailures`), as
what two Jobs add is the loop and the count. Its instances are at rest, and no spec of
`TaskEdits` suspends or wakes: these are the subject of `TaskReservations`.
`TaskEdits` also takes no interest in what the instance controller does with its
instances (`NobodyLooks`), for a plain or scheduled task only reads that they are there,
and lets the clock run only while an override has an expiry (`TimeMatters`).
`TaskReservations` has one instance that is to run (`OneIsUp`); a pass over an instance
at rest that would change nothing is left out (`IdleIsLeftAlone`).
`TaskLive` leaves out a waking task whose instance runs already (`MuchToDo`), and lets
what is awaited be put out of reach only while it is awaited (`TroubleWhereAwaited`).
`InstanceLive` starts with instances that exist (`Found`), spends its second
disturbance on creating what was deleted as it was (`SecondIsCreation`) and its failure
on a deletion or what follows (`FaultsMeetDeletions`): that failures elsewhere are
made good is what `Converged` says, which is proved for any number of them. What these
bounds leave out is not lost to the invariants: `TypeOK`, `TaskIInv` and `TaskConverged` are
proved without them, `Reserved` and `CompleteMeansDone` under the hypotheses that name
who has to keep away, and `ImplementsLifecycle` for any number of instances
(section 5).

Two runs of the plugin are enough for one to take the port from the other before, while
and after it serves, on one address or on both; one of each kind has every branch of
`startPortForward`.

## 4. Fairness

`InstanceReconciler!Fairness`: the worker goes on (client calls return) and time
passes; `Begin(i)` is strongly fair, because the queue is FIFO and so a name that
waits gets its turn; watch events are delivered; the resync of the informers
happens (`SyncPeriod` is ten hours by default); Pods with a grace period
go, and the garbage collector collects. Users, failures and restarts owe nothing.
`EventuallyInSync` needs the resync, for an expired override (see `InstanceExpiry`).

`Operator!Fairness`: the same for the instance side, in terms of `InstanceLifecycle`
(`Look` is fair, by the resync); the task worker goes on and takes up queued
names; task, Job and CronJob events arrive; `RequeueAfter` passes; Jobs end, one
way or the other. There is one task in the run, so fairness among names is not in
question. The resync of tasks is *not* assumed: a task must end by its own events
and timers.

`PortForward!PortFairness`: goroutines run. adb need not end, nobody needs to press
Ctrl-C, and no connection needs to close.

## 5. What is proved

| module | theorem | states |
|---|---|---|
| `InstanceProofs` | `TypeCorrect` | `Spec => []TypeOK` |
| | `IncarnationSafety` | `Spec => []IncarnationSafe` |
| | `InstanceInvariant` | `Spec => []IInv` |
| | `Convergence` | `Spec => []Converged` |
| `RefinementProofs` | `Refinement` | `Spec => ImplementsLifecycle` |
| `TaskProofs` | `LifecycleTypes` | `LifecycleSpec => []LifecycleTypeOK` |
| | `OperatorTypes` | `Spec => []TypeOK`, of the operator |
| | `OperatorKeepsLifecycle` | `Spec => LifecycleSpec`, of the operator |
| | `TaskInvariant` | `Spec => []TaskIInv` |
| | `TasksConverge` | `Spec => []TaskConverged` |
| `ReservationProofs` | `Reservations` | `Spec /\ []Disjoint => []Reserved`, if `Undisputed` |
| | `CompleteIsTrue` | `Spec => []CompleteMeansDone`, if `TasksLeftAlone` and no CronJob fires |
| `PluginProofs` | `AdbTunnelListens` | `PortSpec => []AdbFindsItsTunnel` |
| | `EndsWell` | `PortSpec => []EndsWellWhenAsked` |
| | `TriggerListsWhatItMade` | `TriggerSpec => []ListedAsMade`, if `TriggerSetting` |
| `FoldProofs` | `FoldIsLoop` | the value of a fold is the last value of its loop |
| `PodProofs` | `PodInvariant` | `PodSpec => []PodFromGiven` |
| | `PodVolumes` | `PodSpec => []VolumesByPrecedence` |
| | `PodConfigs` | `PodSpec => []ConfigsReachTheirContainers` |

They hold for every set of instances, tasks, task specs, users and sessions, and for
every bound on the clock, the disturbances and the failures; the two theorems of
`ReservationProofs` restrict which kinds of disturbances there are, and `Reservations`
which tasks there are at a time. Those about a Pod's volumes hold for lists of any
length. Assumptions are those of the modules: addresses and expiry times are positive
naturals, there is a Service type, `NoKey` and `NoTask` are no names, task names are
actors, a spec names at least one instance, each once; the reserved volume names are
finitely many, `ConfigMapVolumeName` gives distinct ConfigMaps distinct names, none of
them reserved (it prefixes `cm-` and appends a hash; section 2), and lists of volumes are keyed by
name.

**The instance controller.** `Converged` is not inductive: a state in which a pass has
returned says nothing about what the pass did. The invariant is

    IInv == TypeOK /\ CachesFresh /\ PassOnTrack /\ Incarnations /\ Converged

- `CachesFresh`: an object whose event has been delivered is in the cache as the
  server has it. Without it, "nothing pending" would not connect caches to objects.
- `PassOnTrack`: a pass whose instance has not been disturbed since it began works
  on the object as it is, and has established what the places before it are for
  (finalizer on, Service right, decision current, report true). A disturbed pass
  need not be on track, because an event or the queue brings the controller back;
  this split is what makes the proof go through.
- `Incarnations`: uids grow along cache and server; an object that a live cached
  copy with a finalizer shows is still there, since only a pass that has seen the
  deletion lets it go. `IncarnationSafe` follows from its part about the pass.
- `Converged` itself: the last step of an undisturbed pass makes it true, every
  write makes it vacuous, and every failure leaves the name on the queue.

The proof is organised by lemmas of three kinds: what a write shows (`WriteShows`,
`WorkerShows`: an object changes only together with its `seen` set), what an
untouched instance keeps (`TrackKept`, `ConvergedKept`), and one lemma per group of
actions (worker, machinery, outside) for each conjunct.

**The task controller.** The argument has the same shape, over the loops:

    TaskIInv == TypeOK /\ TaskCachesFresh /\ (where the loops start)
                /\ (tpc # "idle" /\ Quiet(tkey) => TaskOnTrack) /\ TaskConverged

`Quiet(t)` says that no event and no timer on its way will queue `t`. `TaskOnTrack`
says what a pass has found out if its task is still quiet: its copy of the task is
the task; of the pairs it has been through (`Visited`), `active` holds those whose Job
is active, and each has its Job, or the pass is going to ask for `RequeueAfter`
(`again`), or has its CronJob in the right revision. A step that leaves a task quiet
found it quiet and left its objects alone (`Calm`, `WritesAreCalm`): a write takes the
object out of `seen`, a failure puts the task on the queue, a delivery too. So a step
of the pass either breaks the quiet (it created or patched something) or adds one
pair to `Visited` as it should be (`NextPairOnTrack`); when the pass reports and the
task is still quiet, the patch has changed nothing, so the status was already what the
loop has found (`ReportConverges`). Fired Jobs only widen what a status may say
(`BorneOutKept`). The type invariant needs one thing more than types: outside the
loops the position is 1, whatever spec comes next (`WorkerTypes`).

**The refinement.** `IInv` is not needed; two facts about a pass are: it has an object
in hand, and it has nothing to report before its last step (`PassShape`). Under them,
`PassView` reads off what the lifecycle sees of a pass - where it is, its copy, what
it is about to report - from `pc` and `obj`. There is one lemma per action of the
controller and of its surroundings: a step of the controller is the lifecycle's look,
clearing, decision, Pod operation or report, or changes nothing that the lifecycle
sees (`Stutters`); an early return is the lifecycle's abandoning a pass
(`RestAbandons`). The one subtle case is time: a copy without expiries is seen as
decided already, so `Tick` must not change what is decided about it
(`SameDecision`). `FoundAsAssumed` shows that what is substituted for the lifecycle's
initial states satisfies the assumption made there.

**The composition.** `Refinement` entitles `Operator` to stand on `InstanceLifecycle`;
`OperatorKeepsLifecycle` is the other half: nothing that is added there - the task
controller, the plugin, failures, the restart - does to an instance what that
specification does not allow. The worker writes overrides only, never a phase and never
a Pod (`WorkerEdits`), and each patch of a task, and each write of a user, is one of the
edits the lifecycle reckons with (`PatchesAreEdits`, `ByHandEdits`).

**Reservations.** `TasksLeftAlone` says that nobody edits or deletes a task or removes
a Job, `Undisputed` also that users lift no override, write none with an expiry
(`suspend --duration`), and delete or create no instance - they may suspend and wake
instances, and change `spec.suspend` - and `Disjoint` that no two tasks that exist suspend, or wake, the
same instance (one may suspend it and another wake it). The invariant is

    ReservedInv == AllTypes /\ TasksAndJobs /\ NoExpiry /\ CoverKept

- `TasksAndJobs`: each copy of a task agrees with the task, a Job belongs to it and to
  one of the instances it names, and a Job that was seen to have finished has.
- `CoverKept`, for each instance: until the Job of a pair has finished, the override
  under which the Job was created, or that the pass has read (`pairs`), is on the server
  (`CoverFor`); and where the cache still shows an override that the server has no more,
  some task of that mode has released it, its Job having finished (`StaleIsReleased`).

So a stale copy is no danger to a task whose Job has not finished: had the override it
shows been released, it was by another task with the same mode on the same instance,
which `Disjoint` excludes (`SeenIsThere`). All steps but one only add to what is set
(`CoverGrows`); the one is `Release`, which wants a Job that has finished in the cache,
and it then has. This is the argument the code relies on without saying so. Without the
hypotheses it fails: an instance that is resumed or created again has no override,
an override that runs out is lifted by the instance controller, whoever relies on it by
then; `TaskShared` is the case of two tasks that share one, and section 6 names those of
a Job removed, of an override lifted and of one that expires.

**Complete.** By `TasksAndJobs`, a Job that a verdict counts is one of the task's
pairs and has finished as the cache says. The names in `spec.instances` are distinct,
so there are as many pairs as the length of the list (`TargetsCount`); a count of
succeeded pairs that reaches the length is a count of all of them (`VerdictIsTrue`),
and neither the Jobs nor the list change afterwards.

**The plugin.** `PluginProofs` strengthens `AdbFindsItsTunnel` by who listens: a run listens
on some address as long as its tunnel serves, on none unless it binds or serves, and its
channel is closed as ready only from then on. `EndsWell` needs that a caught signal was sent, that the stop channel is
closed only by a run that returns, and that nil comes out of the error channel only
after it. `TriggerListsWhatItMade` is what does hold of `task trigger`: a run may fail half-way,
also for a name that it has taken itself (`TriggerNames`), and then prints nothing; but
the Jobs under its hand are always those on its list, one for each instance in the order
of the spec, and it ends well only when the list is complete. `TriggerSetting` says that
the spec names an instance.

**The volumes.** The loops of `mergeVolumes` are folds, and what a fold computes for
every list is a matter of induction. The library states induction for a predicate, which
the provers cannot instantiate; `FoldProofs` carries it out with sets, from the theorem
that the naturals are well-founded: a non-empty set of naturals has a least element
(`LeastNatural`), so a set that contains 0 and, with each number, the next is all of
them (`Induction`), so a loop invariant holds at the end (`Turns`). `Recursion` shows that
the recursion behind `FoldLeft` has a solution, and `FoldIsLoop` that the fold is the
last value of a loop. `PodProofs` then argues as one would over the Go code: what one
turn does (`AddOne`, `OverrideOne`), a loop invariant for each of the three
loops, and the precedence table as their consequence. That a config's mount finds its
volume follows from both merges: the mount stands unless its path is taken, the volume
was added unless it was there, and what was there under its name is the same ConfigMap's.

Only model-checked: everything about fairness (`EventuallyInSync`,
`DeletionCompletes`, `NoPodOutlivesItsInstance`, `TasksEnd`, `LossIsTold`, `CtrlCEnds`;
liveness is out of the prover's reach). The four properties of
the runs that end in a violation are false, as said above.

## 6. Further divergences found while modelling

These are behaviours of the code that differ from what its documents suggest. Each
was reached by TLC in these models (except where stated), and no run is kept for it.

- **Auto-clear of a renewed override** (`redroidinstance_controller.go:107`).
  `{"suspended": null}` is sent on the evidence of the copy that was read, without a
  resourceVersion. If somebody renews the override in between, the patch removes an
  override that is in force. The task's own override may be the one removed.
- **The address is the Pod's** (`:152-155`). `docs/architecture.md:103` says
  "`status.adbAddress` is set to `<service-fqdn>:<adbPort>`"; the code writes the IP of the
  Pod, which changes with each Pod, and no address before the Pod runs. `Converged`
  follows the code.
- **Nobody waits for the Pod to go** (`:118-124`). `docs/architecture.md:85` says "delete
  Pod if exists, wait for termination"; the code asks for the deletion and reports
  Stopped at once. `TaskExclusive` is what comes of it. Nor is a Pod adopted (`:84`, "adopt
  if orphaned") or the instance requeued until its Pod runs (`:94`): events do that.
- **Finalizer before the Pod** (`:68`, "clean up Pod before removing finalizer").
  `deleteInstancePod` takes "not in the cache" for "no Pod": a Pod created a moment
  ago is left running when the finalizer goes, and only the garbage collector takes
  it.
- **A Pod may be started beside the Job** (`redroidtask_controller.go:167`, "waiting for
  instance to stop before creating Job"). Phase Stopped may be of an earlier pass. An
  instance is resumed, or given back by another task; a pass of its controller reads it
  and decides to start the Pod; before it gets there a task sets its override, and its
  next pass finds the override and the phase still at Stopped. The Job is created, then
  the Pod. Both run until the instance controller's next pass.
- **A complete task runs again** (`redroidtask_controller.go:152`). A Job that is not
  found is created, complete or not; with `ttlSecondsAfterFinished` the task runs
  again each time its Job is removed.
  The new Job may even start without its reservation: the pass that finds no Job still
  sees, in a stale cache, the override that the previous pass has cleared.
- **A task applied again is complete by its predecessor's Job** (`:388`). Jobs are
  found by name and counted by label, and nobody looks at the owner's uid.
- **`spec.parallelism` has no effect** (`:145`): every pair gets its Job in one pass
  (read off the code).
- **CronJobs stay** when a scheduled task becomes one-shot (`:96`), and go on firing.
- **A deleted task does not give back its instance** (`:79`): the override it set
  stays, and the instance stays stopped, or up.
- **A task waits for ever**: a waking one for a Pod that has failed (`:185`), a suspending
  one for an instance that somebody has woken by hand, as
  `api/v1alpha1/redroidinstance_types.go:335` describes (`:167`; woken beats suspended).
  `TasksEnd` allows for these two.
- **An instance stays reserved by a task that has ended** (`:154`). Somebody lifts the
  override (`instance resume`) while the task waits or its Job runs; the next pass, whose
  cache does not show the Job yet, sets it again. The pass that comes after the Job has
  ended still sees, in its cache, no override to clear, and no later one is due.
- **A user's override that expires is taken for the reservation** (`:154`).
  `instance suspend --duration` just before the task, or between its passes: the task
  counts the instance as reserved, its Job runs, and the instance controller clears the
  override when `until` has passed, and starts the Pod beside the Job.
- **The task's own override may inherit an expiry** (`:250`). The merge patch
  `{"suspended": {"actor": ..., "reason": ...}}`, sent on the evidence of a cache that shows
  no override, keeps an `until` that is stored by then.
- **Complete is a count** (`redroidtask_controller.go:425`). The condition's comment says
  "All Jobs have completed successfully" (`api/v1alpha1/redroidtask_types.go:218`), but
  every Job with the label counts: after an edit of `spec.instances`, or once a CronJob
  has fired, a task may be Complete while an instance still waits for its Job.
- **`lastScheduleTime` and `lastSuccessfulTime`** (`redroidtask_types.go:231-237`) are never
  written (read off the code).
- **The tunnel does not survive its Pod** (`portforward.go:48-50`, "so this survives pod
  restarts without the CLI tracking pod names"). Nothing dials again: when the Pod
  goes, `ForwardPorts` returns an error and the command ends, or, under adb, goes on
  with a message. From then on the port is free for another run, and adb may end
  up at another instance.
- **Two runs ready on one port** (`portforward.go:82`). client-go binds "localhost" on
  127.0.0.1 and on ::1, one after the other, and is ready when one of them succeeds
  (`vendor/k8s.io/client-go/tools/portforward/portforward.go:127-135`, `:243-263`). Two
  runs that start together may get one address each, and both are ready: the `adb
  connect localhost:<port>` of one may reach the instance of the other.
- **`result.StopCh` stops nothing** in the non-interactive mode (`portforward.go:40`, "The
  caller must close result.StopCh to terminate the tunnel"): the tunnel listens to
  `opts.StopCh`, which `runWithADB` never closes. The end of the process hides it.
- **"Forward to a random local port"** (`instance.go:181`): without `--local-port` the
  port is the ADB port itself (`:203`), so two forwards meet on it.
- **`adb -H -P`** (`instance.go:323`, `:334`) name an adb server, and the tunnel leads to
  the device's adbd. What adb makes of that is outside these models (read off the
  code).

## 7. Plan

In order of weight:

1. `Exclusive` replaced by what does hold: a Job is created only after the Pod's
   deletion has been asked for, or with a cache that shows no Pod.
2. Names: `<task>-<instance>` is the same for task `a-b` with instance `c` and task
   `a` with instance `b-c` (`:148`).
3. Several operators at once, for deployments without `--leader-elect`.

Not planned: Pod manifests, redroid arguments and probes (data without control), the
read-only commands, charts, CRDs and images.

## 8. Running

    tlc -workers 2 -config InstanceSafety.cfg MCInstance
    tlc -workers 2 -config TaskReservations.cfg MCOperator
    tlapm InstanceProofs.tla

`Instance*.cfg` go with `MCInstance`, `Task*.cfg` with `MCOperator` (but `TaskPod.cfg`
with `MCTaskPod`), `TriggerNames.cfg` with `MCTaskTrigger`, `PortForward.cfg` with
`MCPortForward`. The modules `OverrideProofs`, `InstanceProofs`, `RefinementProofs`,
`TaskProofs`, `ReservationProofs`, `PluginProofs`, `FoldProofs` and `PodProofs` are for
`tlapm`.
`PROJECT.json` lists every run
with its properties, the code lines of every definition, the mutations of the code
that each property was seen to catch, and the hazards the properties answer to.
Operators marked "Mutant" are such mutations and are used nowhere else.
