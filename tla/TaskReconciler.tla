---------------------------- MODULE TaskReconciler ----------------------------
(***************************************************************************)
(* The RedroidTask controller: RedroidTaskReconciler.Reconcile, its queue  *)
(* and its informers, the users who write RedroidTasks, and what           *)
(* Kubernetes does to the Jobs and CronJobs the controller creates.  It    *)
(* runs in the same process as the instance controller, reads              *)
(* RedroidInstances from the same cache, and acts on them only through     *)
(* status.suspended and status.woken; what the instance controller makes   *)
(* of those is InstanceLifecycle.  Module Operator puts the two together.  *)
(*                                                                         *)
(* The Job and the CronJob of a task for an instance are both named        *)
(* <task>-<instance>, so a pair <<t, i>> names each.  A one-shot task has  *)
(* no schedule; a scheduled one only keeps its CronJobs like its spec.     *)
(***************************************************************************)
EXTENDS InstanceLifecycle, Sequences, FiniteSets

CONSTANTS
  Tasks,         \* names of RedroidTasks
  TaskSpecs,     \* what a user may write as the spec of a task
  NoTask,        \* the worker serves no task
  Kinds,         \* bound: the kinds of disturbances
  MaxEdits,      \* bound: number of disturbances, in all
  MaxFaults      \* bound: failed API calls and operator restarts, in all

Modes == {"plain", "suspend", "wake"}

\* insts is spec.instances, whose names are distinct (listMapKey); rev stands for
\* every field that is copied into the CronJob.  Nothing in the code reads
\* spec.parallelism, and it is left out.
ASSUME TaskAssumption ==
  /\ Tasks \subseteq Actors
  /\ NoTask \notin Tasks
  /\ TaskSpecs # {}
  /\ \A s \in TaskSpecs :
       /\ s.mode \in Modes
       /\ s.scheduled \in BOOLEAN
       /\ s.insts \in Seq(Instances) /\ s.insts # <<>>
       /\ \A m, n \in DOMAIN s.insts : s.insts[m] = s.insts[n] => m = n
       /\ s.rev \in Nat \ {0}
  /\ MaxFaults \in Nat /\ MaxEdits \in Nat

VARIABLES
  task,          \* the RedroidTask of each name
  job, cron,     \* the Job and the CronJob of each pair
  runs,          \* what comes of the Jobs that CronJobs and "task trigger" make
  tseen, jseen, cseen,     \* what the informers show as the server stores it
  tcache, jcache, ccache,  \* the informers' caches
  tqueue,        \* names waiting for the worker
  later,         \* names that come back to the queue after RequeueAfter
  tpc, tkey,     \* what the worker is about to do, and for which task
  tobj,          \* Reconcile's local RedroidTask
  pairs,         \* what it read of each instance when it resolved them
  at,            \* the pair it is at
  active, again, \* its activeJobs, and whether requeueAfter is set
  edits, faults  \* disturbances, and failures, so far

taskVars == <<task, job, cron, runs, tseen, jseen, cseen, tcache, jcache, ccache,
              tqueue, later, tpc, tkey, tobj, pairs, at, active, again>>

Pairs == Tasks \X Instances

-----------------------------------------------------------------------------
(* Objects *)

\* Complete, Failed and the set behind Active, as conditions and as activeJobs;
\* the conditions repeat the names of the active Jobs.
Statuses == [active : SUBSET Instances, complete : BOOLEAN, failed : BOOLEAN]
NoStatus == [active |-> {}, complete |-> FALSE, failed |-> FALSE]

TaskObjects ==
  [exists : BOOLEAN, uid : Nat, deleting : BOOLEAN, finalizer : BOOLEAN,
   spec : TaskSpecs, active : SUBSET Instances, cond : Statuses]

NewTask(u, s) ==
  [exists |-> TRUE, uid |-> u, deleting |-> FALSE, finalizer |-> FALSE,
   spec |-> s, active |-> {}, cond |-> NoStatus]

\* A name without an object; the uid only remembers the last incarnation.
NoTaskObject(u, s) == [NewTask(u, s) EXCEPT !.exists = FALSE]

AnySpec == CHOOSE s \in TaskSpecs : TRUE
NoTaskObj == NoTaskObject(0, AnySpec)

NoOwner == 0              \* uids start from 1
NoJob == [st |-> "none", owner |-> NoOwner]
JobObjects == {NoJob} \cup [st : {"active", "complete", "failed"}, owner : Nat]

\* isJobFinished
Finished(j) == j.st \in {"complete", "failed"}

NoCron == [rev |-> 0, owner |-> NoOwner]
CronObjects == {NoCron} \cup [rev : Nat \ {0}, owner : Nat]

\* A CronJob that fires and "kubectl redroid task trigger" make Jobs with names of
\* their own, and with the label of the task.
Runs == [done : Nat, failed : BOOLEAN]
NoRuns == [done |-> 0, failed |-> FALSE]

\* What reconcileJobs asks of a RedroidInstance, given the mode of the task: is
\* the override the task works by there, and has the phase it waits for come?
Glimpses == [overridden : BOOLEAN, reached : BOOLEAN]
Glimpse(m, o) ==
  [overridden |-> CASE m = "suspend" -> o.suspended.set
                    [] m = "wake"    -> o.woken.set
                    [] OTHER         -> TRUE,
   reached |-> CASE m = "suspend" -> o.phase = "Stopped"
                 [] m = "wake"    -> o.phase = "Running"
                 [] OTHER         -> TRUE]
NoPairs == [i \in Instances |-> [overridden |-> FALSE, reached |-> FALSE]]

TaskTypeOK ==
  /\ task \in [Tasks -> TaskObjects]
  /\ job \in [Pairs -> JobObjects] /\ cron \in [Pairs -> CronObjects]
  /\ runs \in [Tasks -> Runs]
  /\ tseen \subseteq Tasks /\ jseen \subseteq Pairs /\ cseen \subseteq Pairs
  /\ tcache \in [Tasks -> TaskObjects]
  /\ jcache \in [Pairs -> JobObjects] /\ ccache \in [Pairs -> CronObjects]
  /\ tqueue \subseteq Tasks /\ later \subseteq Tasks
  /\ tpc \in {"idle", "unfinalize", "finalize", "resolve", "jobs", "crons", "report"}
  /\ tkey \in Tasks \cup {NoTask}
  /\ tpc = "idle" <=> tkey = NoTask
  /\ tobj \in TaskObjects
  /\ pairs \in [Instances -> Glimpses]
  /\ at \in 1..Len(tobj.spec.insts) + 1
  /\ active \subseteq Instances
  /\ again \in BOOLEAN

TaskInit ==
  /\ task \in [Tasks -> {NoTaskObject(0, AnySpec)} \cup {NewTask(1, s) : s \in TaskSpecs}]
  /\ job = [p \in Pairs |-> NoJob] /\ cron = [p \in Pairs |-> NoCron]
  /\ runs = [t \in Tasks |-> NoRuns]
  /\ tseen = Tasks /\ jseen = Pairs /\ cseen = Pairs
  /\ tcache = task /\ jcache = job /\ ccache = cron
  /\ tqueue = {t \in Tasks : task[t].exists}
  /\ later = {}
  /\ tpc = "idle" /\ tkey = NoTask /\ tobj = NoTaskObj /\ pairs = NoPairs
  /\ at = 1 /\ active = {} /\ again = FALSE

-----------------------------------------------------------------------------
(* Writes: an object that changes makes a watch event. *)

WriteTask(t, o) ==
  /\ task' = [task EXCEPT ![t] = o]
  /\ tseen' = IF o = task[t] THEN tseen ELSE tseen \ {t}
  /\ UNCHANGED <<job, cron, runs, jseen, cseen>>

WriteJob(p, j) ==
  /\ job' = [job EXCEPT ![p] = j]
  /\ jseen' = IF j = job[p] THEN jseen ELSE jseen \ {p}
  /\ UNCHANGED <<task, cron, runs, tseen, cseen>>

WriteCron(p, c) ==
  /\ cron' = [cron EXCEPT ![p] = c]
  /\ cseen' = IF c = cron[p] THEN cseen ELSE cseen \ {p}
  /\ UNCHANGED <<task, job, runs, tseen, jseen>>

InstancesStay == UNCHANGED lifecycleVars /\ UNCHANGED edits
NoChildWrite == UNCHANGED <<task, job, cron, runs, tseen, jseen, cseen>>
CachesStay == UNCHANGED <<tcache, jcache, ccache>>

\* A write of an instance's status by the task controller.
WriteInstance(i, o) ==
  /\ inst' = [inst EXCEPT ![i] = o]
  /\ NoChildWrite
  /\ UNCHANGED <<edits, clock, pod, icache, pcache, place, copy, goal>>

-----------------------------------------------------------------------------
(* Reconcile returns, or goes on. *)

TaskRest ==
  /\ tpc' = "idle" /\ tkey' = NoTask /\ tobj' = NoTaskObj
  /\ pairs' = NoPairs /\ at' = 1 /\ active' = {} /\ again' = FALSE

Done == TaskRest /\ UNCHANGED <<tqueue, later, faults>> /\ CachesStay

DoneWithError ==
  /\ TaskRest
  /\ tqueue' = tqueue \cup {tkey}
  /\ UNCHANGED <<later, faults>> /\ CachesStay

Refused == DoneWithError /\ NoChildWrite /\ InstancesStay

GoOn(p, o) ==
  /\ tpc' = p /\ tobj' = o
  /\ UNCHANGED <<tkey, tqueue, later, pairs, at, active, again, faults>>
  /\ CachesStay

\* On to the next pair, or to the status.
NextPair(act, ag) ==
  /\ at' = at + 1 /\ active' = act /\ again' = ag
  /\ \/ at < Len(tobj.spec.insts) /\ UNCHANGED <<tpc, pairs>>
     \/ at = Len(tobj.spec.insts) /\ tpc' = "report" /\ pairs' = NoPairs
  /\ UNCHANGED <<tkey, tobj, tqueue, later, faults>>
  /\ CachesStay

\* The task is got from the cache.
TaskBegin(t) ==
  /\ tpc = "idle" /\ t \in tqueue
  /\ tqueue' = tqueue \ {t}
  /\ LET o == tcache[t] IN
       \/ ~o.exists /\ UNCHANGED <<tpc, tkey, tobj>>
       \/ /\ o.exists
          /\ tpc' = CASE o.deleting -> "unfinalize"
                      [] ~o.deleting /\ ~o.finalizer -> "finalize"
                      [] OTHER -> "resolve"
          /\ tkey' = t /\ tobj' = o
  /\ UNCHANGED <<later, pairs, at, active, again, faults>>
  /\ CachesStay /\ NoChildWrite /\ InstancesStay

\* Deletion: the finalizer goes, whatever the task still holds.
RemoveTaskFinalizer ==
  /\ tpc = "unfinalize"
  /\ IF tobj = task[tkey]
     THEN /\ WriteTask(tkey, NoTaskObject(tobj.uid, tobj.spec))
          /\ Done
          /\ InstancesStay
     ELSE Refused

AddTaskFinalizer ==
  /\ tpc = "finalize"
  /\ IF tobj = task[tkey]
     THEN /\ WriteTask(tkey, [tobj EXCEPT !.finalizer = TRUE])
          /\ GoOn("resolve", [tobj EXCEPT !.finalizer = TRUE])
          /\ InstancesStay
     ELSE Refused

\* resolveInstances: one that is missing fails the pass for all of them.
ResolveInstances ==
  /\ tpc = "resolve"
  /\ IF \A n \in DOMAIN tobj.spec.insts : icache[tobj.spec.insts[n]].exists
     THEN /\ tpc' = IF tobj.spec.scheduled THEN "crons" ELSE "jobs"
          /\ pairs' = [i \in Instances |-> Glimpse(tobj.spec.mode, icache[i])]
          /\ UNCHANGED <<tkey, tobj, tqueue, later, at, active, again, faults>>
          /\ CachesStay /\ NoChildWrite /\ InstancesStay
     ELSE Refused

-----------------------------------------------------------------------------
(* reconcileJobs: one pair of a one-shot task *)

Here == tobj.spec.insts[at]
Pair == <<tkey, Here>>
AtPair(loop) == tpc = loop /\ at <= Len(tobj.spec.insts)

\* Mutant: the actor is left out.
SetOverrideAnonymously(o) ==
  IF tobj.spec.mode = "suspend"
  THEN [o EXCEPT !.suspended = MergeOverride(@, NoActor, NoUntil)]
  ELSE [o EXCEPT !.woken = MergeOverride(@, NoActor, NoUntil)]

\* setInstanceSuspended, setInstanceWoken: a merge patch from a copy without the
\* override, so an "until" that got there meanwhile stays.
SetOverride(o) ==
  IF tobj.spec.mode = "suspend"
  THEN [o EXCEPT !.suspended = MergeOverride(@, tkey, NoUntil)]
  ELSE [o EXCEPT !.woken = MergeOverride(@, tkey, NoUntil)]

\* clearInstanceSuspended, clearInstanceWoken: whoever set it.
ClearOverride(o) ==
  IF tobj.spec.mode = "suspend"
  THEN [o EXCEPT !.suspended = Cleared]
  ELSE [o EXCEPT !.woken = Cleared]

Reserve ==
  /\ AtPair("jobs") /\ jcache[Pair] = NoJob /\ ~pairs[Here].overridden
  /\ IF inst[Here].exists
     THEN /\ WriteInstance(Here, SetOverride(inst[Here]))
          /\ NextPair(active, TRUE)
     ELSE Refused

\* Mutant: no requeueAfter while the phase is awaited.
AwaitWithoutRequeue ==
  /\ AtPair("jobs") /\ jcache[Pair] = NoJob
  /\ pairs[Here].overridden /\ ~pairs[Here].reached
  /\ NextPair(active, again)
  /\ NoChildWrite /\ InstancesStay

AwaitPhase ==
  /\ AtPair("jobs") /\ jcache[Pair] = NoJob
  /\ pairs[Here].overridden /\ ~pairs[Here].reached
  /\ NextPair(active, TRUE)
  /\ NoChildWrite /\ InstancesStay

\* Mutant: an instance that happens to be in the right phase is not reserved.
CreateJobUnreserved ==
  /\ AtPair("jobs") /\ jcache[Pair] = NoJob
  /\ pairs[Here].reached
  /\ IF job[Pair] = NoJob
     THEN /\ WriteJob(Pair, [st |-> "active", owner |-> tobj.uid])
          /\ NextPair(active \cup {Here}, again)
          /\ InstancesStay
     ELSE Refused

CreateJob ==
  /\ AtPair("jobs") /\ jcache[Pair] = NoJob
  /\ pairs[Here].overridden /\ pairs[Here].reached
  /\ IF job[Pair] = NoJob
     THEN /\ WriteJob(Pair, [st |-> "active", owner |-> tobj.uid])
          /\ NextPair(active \cup {Here}, again)
          /\ InstancesStay
     ELSE Refused                   \* AlreadyExists

JobUnderWay ==
  /\ AtPair("jobs") /\ jcache[Pair] # NoJob /\ ~Finished(jcache[Pair])
  /\ NextPair(active \cup {Here}, again)
  /\ NoChildWrite /\ InstancesStay

\* Mutant: only a Job that succeeded gives the instance back.
ReleaseOnSuccess ==
  /\ AtPair("jobs") /\ Finished(jcache[Pair])
  /\ IF tobj.spec.mode # "plain" /\ pairs[Here].overridden /\ jcache[Pair].st = "complete"
     THEN IF inst[Here].exists
          THEN WriteInstance(Here, ClearOverride(inst[Here])) /\ NextPair(active, again)
          ELSE Refused
     ELSE NextPair(active, again) /\ NoChildWrite /\ InstancesStay

Release ==
  /\ AtPair("jobs") /\ Finished(jcache[Pair])
  /\ IF tobj.spec.mode # "plain" /\ pairs[Here].overridden
     THEN IF inst[Here].exists
          THEN WriteInstance(Here, ClearOverride(inst[Here])) /\ NextPair(active, again)
          ELSE Refused
     ELSE NextPair(active, again) /\ NoChildWrite /\ InstancesStay

\* reconcileCronJobs: create, or patch what the cached copy has different.
SyncCron ==
  /\ AtPair("crons")
  /\ LET want == [rev |-> tobj.spec.rev, owner |-> tobj.uid]
         patched == IF ccache[Pair].rev = tobj.spec.rev THEN cron[Pair]
                    ELSE [cron[Pair] EXCEPT !.rev = tobj.spec.rev]
     IN IF (ccache[Pair] = NoCron) = (cron[Pair] = NoCron)
        THEN /\ WriteCron(Pair, IF cron[Pair] = NoCron THEN want ELSE patched)
             /\ NextPair(active, again)
             /\ InstancesStay
        ELSE Refused                \* AlreadyExists, or NotFound

\* Mutant: one Job that has succeeded is enough.
VerdictOnFirst(d, f) ==
  LET with(st) == {i \in Instances : jcache[<<tkey, i>>].st = st}
      counts == ~tobj.spec.scheduled
      failed == f \/ with("failed") # {}
  IN [active |-> active,
      complete |-> /\ counts /\ active = {} /\ ~failed
                   /\ Cardinality(with("complete")) + d >= 1,
      failed |-> counts /\ failed]

\* patchTaskStatus: activeJobs is what the loop found; Complete and Failed come from
\* the cached Jobs that carry the task's label, whatever their names: of those that
\* were fired or triggered, d are seen to have succeeded, and f says one has failed.
Verdict(d, f) ==
  LET with(st) == {i \in Instances : jcache[<<tkey, i>>].st = st}
      counts == ~tobj.spec.scheduled
      failed == f \/ with("failed") # {}
  IN [active |-> active,
      complete |-> /\ counts /\ active = {} /\ ~failed
                   /\ Cardinality(with("complete")) + d >= Len(tobj.spec.insts),
      failed |-> counts /\ failed]

\* Mutant: conditions that were true stay true.
TaskStatusDiffSticky(stored, v, reworded) ==
  [stored EXCEPT
     !.active = v.active,
     !.cond = [active |-> v.active,
               complete |-> v.complete \/ @.complete,
               failed |-> v.failed \/ @.failed]]

\* The patch holds what differs from the local copy; conditions that are the same
\* but for the wording (the number of Jobs that are done, the generation) differ.
TaskStatusDiff(stored, v, reworded) ==
  [stored EXCEPT
     !.active = IF v.active = tobj.active THEN @ ELSE v.active,
     !.cond = IF v = tobj.cond /\ ~reworded THEN @ ELSE v]

ReportTask ==
  /\ tpc = "report"
  /\ IF task[tkey].exists
     THEN /\ \E d \in 0..runs[tkey].done, f \in {FALSE, runs[tkey].failed}, r \in BOOLEAN :
               WriteTask(tkey, TaskStatusDiff(task[tkey], Verdict(d, f), r))
          /\ TaskRest
          /\ later' = IF again THEN later \cup {tkey} ELSE later
          /\ UNCHANGED <<tqueue, faults>> /\ CachesStay
          /\ InstancesStay
     ELSE Refused

TaskStep ==
  \/ RemoveTaskFinalizer \/ AddTaskFinalizer \/ ResolveInstances
  \/ Reserve \/ AwaitPhase \/ CreateJob \/ JobUnderWay \/ Release
  \/ SyncCron \/ ReportTask

-----------------------------------------------------------------------------
(* The machinery *)

TaskAbort ==
  /\ tpc # "idle" /\ faults < MaxFaults
  /\ TaskRest
  /\ tqueue' = tqueue \cup {tkey}
  /\ faults' = faults + 1
  /\ UNCHANGED later /\ CachesStay /\ NoChildWrite
  /\ InstancesStay

\* The operator starts again, with an empty queue and no timers; every object
\* it lists queues its task.
TaskRestart ==
  /\ TaskRest
  /\ tcache' = task /\ jcache' = job /\ ccache' = cron
  /\ tseen' = Tasks /\ jseen' = Pairs /\ cseen' = Pairs
  /\ tqueue' = {t \in Tasks :
                  \/ task[t].exists
                  \/ \E i \in Instances : job[<<t, i>>] # NoJob \/ cron[<<t, i>>] # NoCron}
  /\ later' = {}
  /\ UNCHANGED <<task, job, cron, runs>>

MachineryKeeps ==
  /\ UNCHANGED <<task, job, cron, runs, tpc, tkey, tobj, pairs, at, active, again, faults>>
  /\ InstancesStay

DeliverTask(t) ==
  /\ t \notin tseen
  /\ tseen' = tseen \cup {t}
  /\ tcache' = [tcache EXCEPT ![t] = task[t]]
  /\ tqueue' = tqueue \cup {t}
  /\ UNCHANGED <<jseen, cseen, jcache, ccache, later>>
  /\ MachineryKeeps

DeliverJob(p) ==
  /\ p \notin jseen
  /\ jseen' = jseen \cup {p}
  /\ jcache' = [jcache EXCEPT ![p] = job[p]]
  /\ tqueue' = tqueue \cup {p[1]}
  /\ UNCHANGED <<tseen, cseen, tcache, ccache, later>>
  /\ MachineryKeeps

DeliverCron(p) ==
  /\ p \notin cseen
  /\ cseen' = cseen \cup {p}
  /\ ccache' = [ccache EXCEPT ![p] = cron[p]]
  /\ tqueue' = tqueue \cup {p[1]}
  /\ UNCHANGED <<tseen, jseen, tcache, jcache, later>>
  /\ MachineryKeeps

\* RequeueAfter has passed.
ComeBack(t) ==
  /\ t \in later
  /\ later' = later \ {t}
  /\ tqueue' = tqueue \cup {t}
  /\ UNCHANGED <<tseen, jseen, cseen, tcache, jcache, ccache>>
  /\ MachineryKeeps

\* The informers' periodic resync.
TaskResync(t) ==
  /\ t \notin tqueue
  /\ \/ tcache[t].exists
     \/ \E i \in Instances : jcache[<<t, i>>] # NoJob \/ ccache[<<t, i>>] # NoCron
  /\ tqueue' = tqueue \cup {t}
  /\ UNCHANGED <<tseen, jseen, cseen, tcache, jcache, ccache, later>>
  /\ MachineryKeeps

-----------------------------------------------------------------------------
(* Everybody else *)

OthersKeep ==
  /\ UNCHANGED <<tcache, jcache, ccache, tqueue, later, tpc, tkey, tobj, pairs,
                 at, active, again, faults>>
  /\ UNCHANGED lifecycleVars

\* Each write is counted, so that a behaviour has finitely many.
MayDisturb(kind) ==
  /\ kind \in Kinds /\ edits < MaxEdits
  /\ edits' = edits + 1

UserTaskWrite(kind, t, o) ==
  MayDisturb(kind) /\ WriteTask(t, o) /\ OthersKeep

CreateTask(t) ==
  /\ ~task[t].exists
  /\ \E s \in TaskSpecs : UserTaskWrite("task", t, NewTask(task[t].uid + 1, s))

EditTask(t) ==
  /\ task[t].exists
  /\ \E s \in TaskSpecs \ {task[t].spec} :
       UserTaskWrite("retask", t, [task[t] EXCEPT !.spec = s])

DeleteTask(t) ==
  /\ task[t].exists /\ ~task[t].deleting
  /\ UserTaskWrite("untask", t, IF task[t].finalizer
                        THEN [task[t] EXCEPT !.deleting = TRUE]
                        ELSE NoTaskObject(task[t].uid, task[t].spec))

\* ttlSecondsAfterFinished, or somebody's kubectl delete job.
RemoveJob(p) ==
  /\ Finished(job[p])
  /\ MayDisturb("ttl") /\ WriteJob(p, NoJob) /\ OthersKeep

\* A CronJob fires, or the command is run; nobody is told when such a Job ends, and
\* it may not have ended, not be in the cache, or be gone when Jobs are counted.
Fire(t) ==
  /\ \E i \in Instances : cron[<<t, i>>] # NoCron
  /\ MayDisturb("fire")
  /\ \/ runs' = [runs EXCEPT ![t].done = @ + 1]
     \/ runs' = [runs EXCEPT ![t].failed = TRUE]
  /\ UNCHANGED <<task, job, cron, tseen, jseen, cseen>>
  /\ OthersKeep

JobFinishes(p) ==
  /\ job[p].st = "active"
  /\ \E st \in {"complete", "failed"} : WriteJob(p, [job[p] EXCEPT !.st = st])
  /\ UNCHANGED edits /\ OthersKeep

\* Garbage collection of what a dead incarnation of the task owns.
TaskOrphan(p, owner) ==
  owner # NoOwner /\ (~task[p[1]].exists \/ task[p[1]].uid # owner)

CollectJob(p) ==
  /\ TaskOrphan(p, job[p].owner)
  /\ WriteJob(p, NoJob) /\ UNCHANGED edits /\ OthersKeep

CollectCron(p) ==
  /\ TaskOrphan(p, cron[p].owner)
  /\ WriteCron(p, NoCron) /\ UNCHANGED edits /\ OthersKeep

TaskRunning ==
  \/ \E t \in Tasks :
       \/ TaskBegin(t) \/ DeliverTask(t) \/ ComeBack(t) \/ TaskResync(t)
       \/ CreateTask(t) \/ EditTask(t) \/ DeleteTask(t) \/ Fire(t)
  \/ \E p \in Pairs :
       \/ DeliverJob(p) \/ DeliverCron(p)
       \/ RemoveJob(p) \/ JobFinishes(p) \/ CollectJob(p) \/ CollectCron(p)
  \/ TaskStep \/ TaskAbort
=============================================================================
