------------------------------- MODULE Operator -------------------------------
(***************************************************************************)
(* The operator: the two controllers in one process, on one set of         *)
(* informers.  They never call each other.  A task acts on an instance by  *)
(* writing status.suspended or status.woken, and learns what came of it by *)
(* reading status.phase from a cache, once every requeue interval.  The    *)
(* instance controller is taken here as InstanceLifecycle, which           *)
(* InstanceReconciler implements.                                          *)
(***************************************************************************)
EXTENDS TaskReconciler

CONSTANT CLI       \* the actor of the overrides that users write

ASSUME CLIAssumption == CLI \in Actors \ Tasks

ASSUME ClockAssumption == MaxClock \in Nat

vars == <<clock, inst, pod, icache, pcache, place, copy, goal,
          task, job, cron, runs, tseen, jseen, cseen, tcache, jcache, ccache,
          tqueue, later, tpc, tkey, tobj, pairs, at, active, again, edits, faults>>

TypeOK ==
  /\ LifecycleTypeOK
  /\ TaskTypeOK
  /\ edits \in 0..MaxEdits /\ faults \in 0..MaxFaults

Init ==
  /\ LifecycleInit
  /\ TaskInit
  /\ edits = 0 /\ faults = 0

-----------------------------------------------------------------------------
\* The instance controller, the kubelet and the garbage collector go on by themselves.
InstanceSide(i) ==
  /\ Controller(i) \/ Kubelet(i) \/ (~inst[i].exists /\ Evicted(i))
  /\ UNCHANGED <<edits, faults>> /\ UNCHANGED taskVars

InstanceFault(i) ==
  /\ Abandon(i)
  /\ faults < MaxFaults /\ faults' = faults + 1
  /\ UNCHANGED edits /\ UNCHANGED taskVars

\* Pods exit.  (Their eviction is part of the runs of the instance controller.)
PodTrouble(i) ==
  /\ MayDisturb("exit") /\ Exits(i)
  /\ UNCHANGED faults /\ UNCHANGED taskVars

\* kubectl apply and kubectl delete of instances.
InstanceComesOrGoes(i) ==
  /\ MayDisturb("instance") /\ (Created(i) \/ Removed(i))
  /\ UNCHANGED faults /\ UNCHANGED taskVars

\* Users write spec.suspend, or an override by a merge patch of the status.
UserWrites(kind, i, o) ==
  /\ inst[i].exists /\ MayDisturb(kind)
  /\ InstanceBecomes(i, o)
  /\ UNCHANGED faults /\ UNCHANGED taskVars

\* An override that runs out does so at one of these moments.
Deadlines == clock..MaxClock

\* kubectl redroid instance suspend, without --duration and with it.
CLISuspend(i) ==
  LET suspended(u) == [inst[i] EXCEPT !.suspended = MergeOverride(@, CLI, u)]
  IN \/ UserWrites("suspend", i, suspended(NoUntil))
     \/ \E u \in Deadlines : UserWrites("expiring", i, suspended(u))

CLIResume(i) ==
  inst[i].suspended.set /\ UserWrites("resume", i, [inst[i] EXCEPT !.suspended = Cleared])

\* The manual patches of status.woken.
ManualWake(i) ==
  LET woken(u) == [inst[i] EXCEPT !.woken = MergeOverride(@, CLI, u)]
  IN \/ UserWrites("wake", i, woken(NoUntil))
     \/ \E u \in Deadlines : UserWrites("expiring", i, woken(u))

ManualClear(i) ==
  inst[i].woken.set /\ UserWrites("unwake", i, [inst[i] EXCEPT !.woken = Cleared])

EditSuspend(i) == UserWrites("edit", i, [inst[i] EXCEPT !.suspend = ~@])

ByHand(i) ==
  CLISuspend(i) \/ CLIResume(i) \/ ManualWake(i) \/ ManualClear(i) \/ EditSuspend(i)

TimePasses == ClockTicks /\ UNCHANGED <<edits, faults>> /\ UNCHANGED taskVars

\* One process: its two controllers start again together.
Restart ==
  /\ faults < MaxFaults /\ faults' = faults + 1
  /\ Reboot /\ TaskRestart
  /\ UNCHANGED edits

Next ==
  \/ \E i \in Instances :
       \/ InstanceSide(i) \/ InstanceFault(i) \/ PodTrouble(i)
       \/ InstanceComesOrGoes(i) \/ ByHand(i)
  \/ TaskRunning \/ Restart \/ TimePasses

Spec == Init /\ [][Next]_vars

\* Passes go on and new ones begin (the resync of the informers sees to that),
\* events arrive, Pods start and stop, Jobs end, RequeueAfter passes and garbage is
\* collected.  Users and failures owe nothing, nor does the resync of the tasks.
Fairness ==
  /\ \A i \in Instances :
       /\ WF_lifecycleVars(Look(i) \/ PassStep(i))
       /\ WF_lifecycleVars(See(i))
       /\ WF_lifecycleVars(SeePod(i))
       /\ WF_lifecycleVars(Kubelet(i))
  /\ WF_vars(TaskStep \/ \E t \in Tasks : TaskBegin(t))
  /\ \A t \in Tasks : WF_vars(DeliverTask(t) \/ ComeBack(t))
  /\ \A p \in Pairs :
       /\ WF_vars(DeliverJob(p) \/ DeliverCron(p))
       /\ WF_vars(JobFinishes(p) \/ CollectJob(p) \/ CollectCron(p))

FairSpec == Spec /\ Fairness

-----------------------------------------------------------------------------
Targets(t) == {task[t].spec.insts[n] : n \in DOMAIN task[t].spec.insts}

\* No event and no timer is on its way that will queue task t.
Quiet(t) ==
  /\ t \in tseen /\ t \notin tqueue /\ t \notin later
  /\ \A i \in Instances : <<t, i>> \in jseen /\ <<t, i>> \in cseen

\* Nothing in the operator is going to look at task t again, short of a resync.
TaskSettled(t) == Quiet(t) /\ tkey # t

JobsOf(t, st) == {i \in Instances : job[<<t, i>>].st = st}

\* The status of task t says v, and its Jobs bear it out: of those that were fired or
\* triggered, some may not have ended, or be gone, when they were counted.
BorneOut(t, v) ==
  LET running == JobsOf(t, "active") \cap Targets(t)
  IN IF task[t].spec.scheduled THEN v = NoStatus
     ELSE \E d \in 0..runs[t].done, f \in {FALSE, runs[t].failed} :
            v = [active |-> running,
                 complete |-> /\ running = {} /\ JobsOf(t, "failed") = {} /\ ~f
                              /\ Cardinality(JobsOf(t, "complete")) + d
                                   >= Len(task[t].spec.insts),
                 failed |-> f \/ JobsOf(t, "failed") # {}]

\* Reconcile never leaves a task with something missing and nobody to come back
\* to it: when nothing is pending for a task, each of its instances has its Job
\* (or its CronJob as the spec has it now), and its status says what has become
\* of its Jobs, those that a CronJob has fired counted when they were seen.
TaskConverged ==
  \A t \in Tasks : TaskSettled(t) /\ task[t].exists =>
    /\ task[t].finalizer /\ ~task[t].deleting
    /\ task[t].active = task[t].cond.active /\ BorneOut(t, task[t].cond)
    /\ \A i \in Targets(t) :
         IF task[t].spec.scheduled
         THEN cron[<<t, i>>].rev = task[t].spec.rev
         ELSE job[<<t, i>>] # NoJob

\* What has been delivered is what the server has.
TaskCachesFresh ==
  /\ \A t \in tseen : tcache[t] = task[t]
  /\ \A p \in jseen : jcache[p] = job[p]
  /\ \A p \in cseen : ccache[p] = cron[p]

\* The instances whose pairs the loop has been through.
Visited == {tobj.spec.insts[n] : n \in 1..at - 1}

\* What a pass has found out, when nothing has happened to its task meanwhile that
\* will bring it back: its copy of the task is the task, every pair it has been
\* through is as it should be, or is remembered to be looked at again.
TaskOnTrack ==
  LET t == tkey IN
  /\ tobj = task[t] /\ tobj.exists
  /\ tpc = "finalize" => ~tobj.finalizer
  /\ tpc \notin {"unfinalize", "finalize"} => tobj.finalizer /\ ~tobj.deleting
  /\ tpc = "report" => at = Len(tobj.spec.insts) + 1
  /\ tpc = "jobs" => ~tobj.spec.scheduled
  /\ tpc = "crons" => tobj.spec.scheduled
  /\ IF tobj.spec.scheduled
     THEN /\ active = {} /\ ~again
          /\ \A i \in Visited : cron[<<t, i>>].rev = tobj.spec.rev
     ELSE /\ active = {i \in Visited : job[<<t, i>>].st = "active"}
          /\ again \/ \A i \in Visited : job[<<t, i>>] # NoJob

\* The inductive invariant behind TaskConverged.
TaskIInv ==
  /\ TypeOK
  /\ TaskCachesFresh
  /\ tpc \notin {"jobs", "crons", "report"} => at = 1 /\ active = {} /\ ~again
  /\ tpc # "idle" /\ Quiet(tkey) => TaskOnTrack
  /\ TaskConverged

Mine(t, i) == task[t].exists /\ job[<<t, i>>].owner = task[t].uid

Running(t, i, m) ==
  Mine(t, i) /\ job[<<t, i>>].st = "active" /\ task[t].spec.mode = m

Holds(t, i) == inst[i].suspended.actor = t \/ inst[i].woken.actor = t

\* While the Job of a task with suspendInstance or wakeInstance runs, the override
\* that keeps the instance stopped or up stays in place.
Reserved ==
  \A t \in Tasks, i \in Instances :
    /\ Running(t, i, "suspend") => inst[i].suspended.set
    /\ Running(t, i, "wake") => inst[i].woken.set

\* As long as nobody changes the task, and no Job is removed, Complete is not said of
\* it before the Job of each of its instances has been made and has succeeded: an
\* instance that is still awaited is not counted as done.
CompleteMeansDone ==
  \A t \in Tasks :
    task[t].exists /\ task[t].cond.complete =>
      \A i \in Targets(t) : job[<<t, i>>].st = "complete"

\* The Pod that a waking task waits for has ended, and the instance controller does
\* not replace a Pod that is there.
AwaitsDeadPod(t) ==
  /\ task[t].spec.mode = "wake"
  /\ \E i \in Targets(t) :
       inst[i].woken.set /\ job[<<t, i>>] = NoJob /\ pod[i].phase \in {"Succeeded", "Failed"}

\* The instance that a suspending task waits for is kept up by hand: woken wins.
AwaitsWoken(t) ==
  /\ task[t].spec.mode = "suspend"
  /\ \E i \in Targets(t) : inst[i].woken.set /\ job[<<t, i>>] = NoJob

\* A one-shot task ends if its instances stay, and nobody lifts an override or writes one
\* that runs out: every Job has been created and has finished, the task says so from then
\* on, and has given its instances back.  It waits for ever only for a Pod that has
\* ended, if it is a waking one, or for an instance that somebody has woken, if it is a
\* suspending one.
TasksEnd ==
  \A t \in Tasks :
    <>[](task[t].exists /\ ~task[t].spec.scheduled
         /\ (\A i \in Targets(t) : inst[i].exists) =>
           \/ /\ task[t].cond.complete \/ task[t].cond.failed
              /\ \A i \in Instances : ~Holds(t, i)
           \/ AwaitsDeadPod(t) \/ AwaitsWoken(t))

\* examples.md: the Job "now has exclusive storage access", for the Pod that
\* writes to the same overlay directory is stopped.
Exclusive ==
  \A t \in Tasks, i \in Instances :
    Running(t, i, "suspend") => pod[i] = Absent
=============================================================================
