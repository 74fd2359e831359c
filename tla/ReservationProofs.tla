-------------------------- MODULE ReservationProofs --------------------------
(***************************************************************************)
(* Reserved and CompleteMeansDone, as theorems.  Each of them holds as     *)
(* long as certain others keep away, and the theorems say who: these are   *)
(* the hypotheses that the runs make by their choice of Kinds and Tasks.   *)
(***************************************************************************)
EXTENDS TaskProofs, FiniteSetTheorems, FunctionTheorems

\* Nobody deletes or edits a task, or removes a Job.
TasksLeftAlone == Kinds \cap {"untask", "retask", "ttl"} = {}

\* Moreover nobody but the tasks takes overrides or instances away, and no user writes
\* an override that runs out: a task would take it for its own, and it would be lifted
\* under the Job.
Undisputed ==
  /\ TasksLeftAlone
  /\ Kinds \cap {"resume", "unwake", "expiring", "instance"} = {}

ModeOf(t) == task[t].spec.mode

\* Two tasks that suspend, or wake, their instances.
Rivals(t, u) ==
  /\ t # u
  /\ task[t].exists /\ task[u].exists
  /\ ModeOf(t) = ModeOf(u) /\ ModeOf(t) # "plain"

\* No two tasks suspend, or wake, the same instance.
Disjoint ==
  \A t, u \in Tasks : Rivals(t, u) => Targets(t) \cap Targets(u) = {}

-----------------------------------------------------------------------------
(* What follows from TasksLeftAlone: copies of a task, and Jobs that were  *)
(* seen to have finished, stay true.                                       *)

Agrees(o, t) == task[t].exists /\ o.uid = task[t].uid /\ o.spec = task[t].spec

TaskKept ==
  /\ \A t \in Tasks :
       /\ ~task[t].deleting
       /\ tcache[t].exists => ~tcache[t].deleting /\ Agrees(tcache[t], t)
  /\ tpc # "idle" => tpc # "unfinalize" /\ Agrees(tobj, tkey)

JobsKept ==
  \A p \in Pairs :
    /\ job[p] # NoJob =>
         /\ task[p[1]].exists /\ job[p].owner = task[p[1]].uid
         /\ p[2] \in Targets(p[1])
    /\ Finished(jcache[p]) => job[p] = jcache[p]

\* No override will run out.
NoExpiry == \A i \in Instances : Timeless(inst[i]) /\ Timeless(icache[i]) /\ Timeless(copy[i])

Covered(m, o) == Glimpse(m, o).overridden

\* An override that is in the cache only was released by a task whose Job has finished.
StaleIsReleased(i) ==
  \A m \in Modes :
    Covered(m, icache[i]) /\ ~Covered(m, inst[i]) =>
      \E t \in Tasks : ModeOf(t) = m /\ Finished(job[<<t, i>>])

\* Until the Job of a pair has finished, the override that the pass has seen, or that
\* the Job was created under, is there.
CoverFor(t, i) ==
  i \in Targets(t) /\ ~Finished(job[<<t, i>>]) =>
    /\ tkey = t /\ tpc = "jobs" /\ pairs[i].overridden => Covered(ModeOf(t), inst[i])
    /\ job[<<t, i>>].st = "active" => Covered(ModeOf(t), inst[i])

CoverAt(i) == StaleIsReleased(i) /\ \A t \in Tasks : CoverFor(t, i)

CoverKept == \A i \in Instances : CoverAt(i)

-----------------------------------------------------------------------------
(* Tasks and Jobs *)

\* Who a task is, and what it is to do.
SameTask(t) ==
  /\ task'[t].exists = task[t].exists /\ task'[t].uid = task[t].uid
  /\ task'[t].spec = task[t].spec /\ task'[t].deleting = task[t].deleting

\* A Job appears where there was none, for the task that is being worked on.
NewJob(p) ==
  /\ job[p] = NoJob /\ tpc = "jobs" /\ p[1] = tkey /\ p[2] \in Targets(tkey)
  /\ pairs[p[2]].overridden
  /\ job'[p] = [st |-> "active", owner |-> tobj.uid]

\* What a step of the worker does to tasks, Jobs and its own copy.
PassKeepsTasks ==
  /\ \A t \in Tasks : SameTask(t)
  /\ tcache' = tcache /\ jcache' = jcache
  /\ \/ tpc' = "idle"
     \/ /\ tpc' # "unfinalize" /\ tkey' = tkey
        /\ tobj'.uid = tobj.uid /\ tobj'.spec = tobj.spec
  /\ \A p \in Pairs : job'[p] = job[p] \/ NewJob(p)

LEMMA WorkerKeepsTasks ==
  ASSUME AllTypes, TaskKept, TaskStep
  PROVE  PassKeepsTasks
<1>1. /\ tpc # "idle" /\ tkey \in Tasks
  BY DEF AllTypes, WorkerTypes, TaskStep, RemoveTaskFinalizer, AddTaskFinalizer,
         ResolveInstances, Reserve, AwaitPhase, CreateJob, JobUnderWay, Release, SyncCron,
         ReportTask, AtPair
<1>2. /\ tpc # "unfinalize" /\ Agrees(tobj, tkey) /\ tobj \in TaskObjects
      /\ task[tkey] \in TaskObjects
  BY <1>1 DEF TaskKept, AllTypes, WorkerTypes, ServerTypes
<1>3. ASSUME task' = task, job' = job,
             \/ Refused
             \/ \E act, ag : NextPair(act, ag)
      PROVE  PassKeepsTasks
  BY <1>1, <1>2, <1>3
  DEF PassKeepsTasks, SameTask, Refused, DoneWithError, TaskRest, NextPair, CachesStay
<1>4. ~RemoveTaskFinalizer
  BY <1>2 DEF RemoveTaskFinalizer
<1>5. CASE AddTaskFinalizer /\ ~Refused
  <2> DEFINE o == [tobj EXCEPT !.finalizer = TRUE]
  <2>1. WriteTask(tkey, o) /\ GoOn("resolve", o) /\ tobj = task[tkey]
    BY <1>5 DEF AddTaskFinalizer
  <2>2. /\ o.exists = tobj.exists /\ o.uid = tobj.uid /\ o.spec = tobj.spec
        /\ o.deleting = tobj.deleting
    BY <1>2 DEF TaskObjects
  <2>3. \A t \in Tasks : SameTask(t)
    BY <1>1, <2>1, <2>2 DEF WriteTask, SameTask, AllTypes, ServerTypes
  <2>4. QED BY <2>1, <2>2, <2>3 DEF WriteTask, GoOn, CachesStay, PassKeepsTasks
<1>6. CASE ResolveInstances /\ ~Refused
  BY <1>6 DEF ResolveInstances, NoChildWrite, CachesStay, PassKeepsTasks, SameTask
<1>7. CASE Reserve \/ AwaitPhase \/ JobUnderWay \/ Release
  BY <1>3, <1>7
  DEF Reserve, AwaitPhase, JobUnderWay, Release, WriteInstance, NoChildWrite, Refused
<1>8. CASE SyncCron
  BY <1>3, <1>8 DEF SyncCron, WriteCron, NoChildWrite, Refused
<1>9. CASE CreateJob /\ ~Refused
  <2>1. /\ tpc = "jobs" /\ at <= Len(tobj.spec.insts) /\ pairs[Here].overridden
        /\ job[Pair] = NoJob /\ WriteJob(Pair, [st |-> "active", owner |-> tobj.uid])
        /\ NextPair(active \cup {Here}, again)
    BY <1>9 DEF CreateJob, AtPair
  <2>2. Pair \in Pairs /\ Pair[1] = tkey /\ Pair[2] = Here
    BY <2>1, HereTypes DEF AllTypes, Pair
  <2>3. Here \in Targets(tkey)
    <3>1. at \in 1..Len(tobj.spec.insts) /\ tobj.spec.insts \in Seq(Instances)
      BY <1>2, <2>1, SpecFacts DEF AllTypes, WorkerTypes, TaskObjects
    <3>2. at \in DOMAIN task[tkey].spec.insts /\ Here = task[tkey].spec.insts[at]
      BY <1>2, <3>1 DEF Agrees, Here
    <3>3. QED BY <3>2 DEF Targets
  <2>4. NewJob(Pair)
    BY <2>1, <2>2, <2>3 DEF NewJob, WriteJob, AllTypes, ServerTypes
  <2>5. \A p \in Pairs : job'[p] = job[p] \/ NewJob(p)
    BY <2>1, <2>2, <2>4 DEF WriteJob, AllTypes, ServerTypes
  <2>6. QED
    BY <1>2, <2>1, <2>5 DEF WriteJob, NextPair, CachesStay, PassKeepsTasks, SameTask
<1>10. CASE ReportTask /\ ~Refused
  <2>1. PICK d \in 0..runs[tkey].done, f \in {FALSE, runs[tkey].failed}, r \in BOOLEAN :
          WriteTask(tkey, TaskStatusDiff(task[tkey], Verdict(d, f), r))
    BY <1>10 DEF ReportTask
  <2> DEFINE o == TaskStatusDiff(task[tkey], Verdict(d, f), r)
  <2>2. /\ o.exists = task[tkey].exists /\ o.uid = task[tkey].uid
        /\ o.spec = task[tkey].spec /\ o.deleting = task[tkey].deleting
    BY <1>2 DEF TaskStatusDiff, TaskObjects
  <2>3. \A t \in Tasks : SameTask(t)
    BY <1>1, <2>1, <2>2 DEF WriteTask, SameTask, AllTypes, ServerTypes
  <2>4. QED
    BY <1>10, <2>1, <2>3 DEF WriteTask, ReportTask, TaskRest, CachesStay, PassKeepsTasks
<1>11. CASE Refused
  BY <1>3, <1>11 DEF Refused, NoChildWrite
<1>12. QED
  BY <1>4, <1>5, <1>6, <1>7, <1>8, <1>9, <1>10, <1>11 DEF TaskStep

TasksAndJobs == TaskKept /\ JobsKept

LEMMA WorkerTasksAndJobs ==
  ASSUME AllTypes, TasksAndJobs, TaskStep
  PROVE  TasksAndJobs'
<1>1. PassKeepsTasks
  BY WorkerKeepsTasks DEF TasksAndJobs
<1>2. \A t \in Tasks : Targets(t)' = Targets(t)
  BY <1>1 DEF PassKeepsTasks, SameTask, Targets
<1>3. tpc # "idle" /\ tkey \in Tasks
  BY DEF AllTypes, WorkerTypes, TaskStep, RemoveTaskFinalizer, AddTaskFinalizer,
         ResolveInstances, Reserve, AwaitPhase, CreateJob, JobUnderWay, Release, SyncCron,
         ReportTask, AtPair
<1>4. TaskKept'
  BY <1>1, <1>3 DEF PassKeepsTasks, SameTask, TasksAndJobs, TaskKept, Agrees
<1>5. ASSUME NEW p \in Pairs
      PROVE  /\ job'[p] # NoJob =>
                  /\ task'[p[1]].exists /\ job'[p].owner = task'[p[1]].uid
                  /\ p[2] \in Targets(p[1])'
             /\ Finished(jcache'[p]) => job'[p] = jcache'[p]
  <2>1. p[1] \in Tasks
    BY DEF Pairs
  <2>2. CASE job'[p] = job[p]
    BY <1>1, <1>2, <2>1, <2>2 DEF PassKeepsTasks, SameTask, TasksAndJobs, JobsKept
  <2>3. CASE NewJob(p)
    <3>1. ~Finished(jcache[p])
      BY <2>3 DEF NewJob, TasksAndJobs, JobsKept, Finished, NoJob
    <3>2. Agrees(tobj, tkey)
      BY <1>3 DEF TasksAndJobs, TaskKept
    <3>3. QED
      BY <1>1, <1>2, <2>1, <2>3, <3>1, <3>2 DEF PassKeepsTasks, SameTask, NewJob, Agrees
  <2>4. QED BY <1>1, <2>2, <2>3 DEF PassKeepsTasks
<1>6. JobsKept'
  BY <1>5 DEF JobsKept, Finished
<1>7. QED BY <1>4, <1>6 DEF TasksAndJobs

\* The worker takes a task from the cache, and a pass is cut short.
LEMMA BeginAbortTasksAndJobs ==
  ASSUME AllTypes, TasksAndJobs, (\E t \in Tasks : TaskBegin(t)) \/ TaskAbort
  PROVE  TasksAndJobs'
<1>1. UNCHANGED <<task, job, tcache, jcache>>
  BY DEF TaskBegin, TaskAbort, NoChildWrite, CachesStay
<1>2. JobsKept'
  BY <1>1 DEF TasksAndJobs, JobsKept, Targets, Finished
<1>3. CASE TaskAbort
  BY <1>1, <1>2, <1>3 DEF TaskAbort, TaskRest, TasksAndJobs, TaskKept, Agrees
<1>4. ASSUME NEW t \in Tasks, TaskBegin(t) PROVE TaskKept'
  <2>1. CASE tcache[t].exists
    <3>1. ~tcache[t].deleting /\ Agrees(tcache[t], t)
      BY <2>1 DEF TasksAndJobs, TaskKept
    <3>2. tpc' # "unfinalize" /\ tkey' = t /\ tobj' = tcache[t]
      BY <1>4, <2>1, <3>1 DEF TaskBegin
    <3>3. QED BY <1>1, <3>1, <3>2 DEF TasksAndJobs, TaskKept, Agrees
  <2>2. CASE ~tcache[t].exists
    BY <1>1, <1>4, <2>2 DEF TaskBegin, TasksAndJobs, TaskKept, Agrees
  <2>3. QED BY <2>1, <2>2
<1>5. QED BY <1>2, <1>3, <1>4 DEF TasksAndJobs

\* What is delivered is what the server has.
LEMMA MachineryTasksAndJobs ==
  ASSUME AllTypes, TasksAndJobs,
         \/ \E t \in Tasks : DeliverTask(t) \/ ComeBack(t) \/ TaskResync(t)
         \/ \E p \in Pairs : DeliverJob(p) \/ DeliverCron(p)
  PROVE  TasksAndJobs'
<1>1. UNCHANGED <<task, job, tpc, tkey, tobj>>
  BY DEF DeliverTask, ComeBack, TaskResync, DeliverJob, DeliverCron, MachineryKeeps
<1>2. \A t \in Tasks : tcache'[t] = tcache[t] \/ tcache'[t] = task[t]
  BY DEF DeliverTask, ComeBack, TaskResync, DeliverJob, DeliverCron, AllTypes, QueueTypes
<1>3. \A p \in Pairs : jcache'[p] = jcache[p] \/ jcache'[p] = job[p]
  BY DEF DeliverTask, ComeBack, TaskResync, DeliverJob, DeliverCron, AllTypes, QueueTypes
<1>4. QED BY <1>1, <1>2, <1>3 DEF TasksAndJobs, TaskKept, JobsKept, Agrees, Targets, Finished

\* Users, Jobs that end, and the garbage collector, which finds nothing to collect.
LEMMA OthersTasksAndJobs ==
  ASSUME TasksLeftAlone, AllTypes, TasksAndJobs,
         \/ \E t \in Tasks : CreateTask(t) \/ EditTask(t) \/ DeleteTask(t) \/ Fire(t)
         \/ \E p \in Pairs : RemoveJob(p) \/ JobFinishes(p) \/ CollectJob(p) \/ CollectCron(p)
  PROVE  TasksAndJobs' /\ UNCHANGED <<tcache, jcache, tpc, tkey, tobj, pairs>>
                       /\ UNCHANGED lifecycleVars
<1>1. UNCHANGED <<tcache, jcache, tpc, tkey, tobj, pairs>> /\ UNCHANGED lifecycleVars
  BY DEF CreateTask, EditTask, DeleteTask, Fire, RemoveJob, JobFinishes, CollectJob,
         CollectCron, UserTaskWrite, OthersKeep
<1>2. ~MayDisturb("untask") /\ ~MayDisturb("retask") /\ ~MayDisturb("ttl")
  BY DEF TasksLeftAlone, MayDisturb
<1>3. ASSUME NEW t \in Tasks PROVE ~EditTask(t) /\ ~DeleteTask(t)
  BY <1>2 DEF EditTask, DeleteTask, UserTaskWrite
<1>4. ASSUME NEW p \in Pairs PROVE ~RemoveJob(p) /\ ~CollectJob(p)
  <2>1. p[1] \in Tasks /\ job[p] \in JobObjects
    BY DEF Pairs, AllTypes, ServerTypes
  <2>2. ~TaskOrphan(p, job[p].owner)
    BY <2>1 DEF TasksAndJobs, JobsKept, TaskOrphan, NoJob
  <2>3. QED BY <1>2, <2>2 DEF RemoveJob, CollectJob
<1>5. ASSUME UNCHANGED <<task, job>> PROVE TasksAndJobs'
  BY <1>1, <1>5 DEF TasksAndJobs, TaskKept, JobsKept, Agrees, Targets, Finished
<1>6. ASSUME NEW t \in Tasks, CreateTask(t) PROVE TasksAndJobs'
  <2>1. PICK s \in TaskSpecs : WriteTask(t, NewTask(task[t].uid + 1, s))
    BY <1>6 DEF CreateTask, UserTaskWrite
  <2>2. ~task[t].exists /\ ~task'[t].deleting /\ UNCHANGED job
    BY <1>6, <2>1 DEF CreateTask, WriteTask, NewTask, AllTypes, ServerTypes
  <2>3. \A u \in Tasks : u # t => task'[u] = task[u]
    BY <2>1 DEF WriteTask, AllTypes, ServerTypes
  <2>4. tpc # "idle" => tkey \in Tasks
    BY DEF AllTypes, WorkerTypes
  <2>5. TaskKept'
    BY <1>1, <2>2, <2>3, <2>4 DEF TasksAndJobs, TaskKept, Agrees
  <2>6. \A p \in Pairs : p[1] \in Tasks
    BY DEF Pairs
  <2>7. JobsKept'
    BY <1>1, <2>2, <2>3, <2>6 DEF TasksAndJobs, JobsKept, Targets, Finished
  <2>8. QED BY <2>5, <2>7 DEF TasksAndJobs
<1>7. ASSUME NEW p \in Pairs, JobFinishes(p) PROVE TasksAndJobs'
  <2>1. PICK st \in {"complete", "failed"} : WriteJob(p, [job[p] EXCEPT !.st = st])
    BY <1>7 DEF JobFinishes
  <2>2. job[p] \in JobObjects /\ job[p].st = "active" /\ UNCHANGED task
    BY <1>7, <2>1 DEF JobFinishes, WriteJob, AllTypes, ServerTypes
  <2>3. job'[p].owner = job[p].owner /\ job[p] # NoJob /\ ~Finished(jcache[p])
    <3>1. job[p] # NoJob
      BY <2>2 DEF NoJob
    <3>2. job'[p].owner = job[p].owner
      BY <2>1, <2>2, <3>1 DEF WriteJob, AllTypes, ServerTypes, JobObjects
    <3>3. QED BY <2>2, <3>1, <3>2 DEF TasksAndJobs, JobsKept, Finished
  <2>4. \A q \in Pairs : q # p => job'[q] = job[q]
    BY <2>1 DEF WriteJob, AllTypes, ServerTypes
  <2>5. TaskKept'
    BY <1>1, <2>2 DEF TasksAndJobs, TaskKept, Agrees
  <2>6. JobsKept'
    BY <1>1, <2>2, <2>3, <2>4 DEF TasksAndJobs, JobsKept, Targets, Finished
  <2>7. QED BY <2>5, <2>6 DEF TasksAndJobs
<1>8. ASSUME NEW t \in Tasks, Fire(t) PROVE TasksAndJobs'
  BY <1>5, <1>8 DEF Fire
<1>9. ASSUME NEW p \in Pairs, CollectCron(p) PROVE TasksAndJobs'
  BY <1>5, <1>9 DEF CollectCron, WriteCron
<1>10. QED BY <1>1, <1>3, <1>4, <1>6, <1>7, <1>8, <1>9

LEMMA InstanceSideTasksAndJobs ==
  ASSUME AllTypes, TasksAndJobs,
         \/ Restart \/ TimePasses
         \/ \E i \in Instances :
              \/ InstanceSide(i) \/ InstanceFault(i) \/ PodTrouble(i)
              \/ InstanceComesOrGoes(i) \/ ByHand(i)
  PROVE  TasksAndJobs'
<1>1. CASE UNCHANGED taskVars
  BY <1>1 DEF taskVars, TasksAndJobs, TaskKept, JobsKept, Agrees, Targets, Finished
<1>2. CASE Restart
  BY <1>2 DEF Restart, TaskRestart, TaskRest, TasksAndJobs, TaskKept, JobsKept, Agrees,
              Targets, Finished
<1>3. QED
  BY <1>1, <1>2, ByHandEdits
  DEF InstanceSide, InstanceFault, PodTrouble, InstanceComesOrGoes, TimePasses, AllTypes

LEMMA TasksAndJobsStep ==
  ASSUME TasksLeftAlone, AllTypes, TasksAndJobs, [Next]_vars
  PROVE  TasksAndJobs'
<1>1. CASE UNCHANGED vars
  BY <1>1 DEF vars, TasksAndJobs, TaskKept, JobsKept, Agrees, Targets, Finished
<1>2. CASE Next
  BY <1>2, WorkerTasksAndJobs, BeginAbortTasksAndJobs, MachineryTasksAndJobs,
     OthersTasksAndJobs, InstanceSideTasksAndJobs
  DEF Next, TaskRunning
<1>3. QED BY <1>1, <1>2

LEMMA InitTasksAndJobs == Init => TasksAndJobs
<1> SUFFICES ASSUME Init PROVE TasksAndJobs
  OBVIOUS
<1>1. /\ \A p \in Pairs : job[p] = NoJob /\ jcache[p] = NoJob
      /\ tcache = task /\ tpc = "idle"
  BY DEF Init, TaskInit
<1>2. \A t \in Tasks : ~task[t].deleting
  BY DEF Init, TaskInit, NewTask, NoTaskObject
<1>3. QED BY <1>1, <1>2 DEF TasksAndJobs, TaskKept, JobsKept, Agrees, Finished, NoJob

-----------------------------------------------------------------------------
(* CompleteMeansDone: as long as no Job but the task's own is counted, a   *)
(* count that reaches the number of instances has counted each of them.    *)

\* A task names finitely many instances, as many as its list is long.
LEMMA TargetsCount ==
  ASSUME AllTypes, NEW t \in Tasks
  PROVE  /\ IsFiniteSet(Targets(t))
         /\ Cardinality(Targets(t)) = Len(task[t].spec.insts)
         /\ Len(task[t].spec.insts) \in Nat
<1> DEFINE f == task[t].spec.insts
           n == Len(f)
           T == Targets(t)
<1>1. task[t].spec \in TaskSpecs
  BY DEF AllTypes, ServerTypes, TaskObjects
<1>2. /\ f \in Seq(Instances) /\ n \in Nat /\ DOMAIN f = 1..n
      /\ \A j, k \in DOMAIN f : f[j] = f[k] => j = k
  BY <1>1, TaskAssumption
<1>3. f \in [1..n -> T] /\ \A i \in T : \E k \in 1..n : f[k] = i
  BY <1>2 DEF Targets
<1>4. f \in Surjection(1..n, T) /\ f \in Injection(1..n, T)
  BY <1>2, <1>3, Fun_IsSurj, Fun_IsInj
<1>5. IsFiniteSet(1..n) /\ Cardinality(1..n) = n
  BY <1>2, FS_Interval
<1>6. IsFiniteSet(T) /\ Cardinality(T) = n
  BY <1>4, <1>5, FS_Surjection
<1>7. QED BY <1>2, <1>6

NoneFired == \A t \in Tasks : runs[t].done = 0

\* A pass that counts the Jobs of a task says Complete of it when all have succeeded.
LEMMA VerdictIsTrue ==
  ASSUME AllTypes, TasksAndJobs, tpc = "report", NEW f, Verdict(0, f).complete
  PROVE  \A i \in Targets(tkey) : job[<<tkey, i>>].st = "complete"
<1> DEFINE S == {i \in Instances : jcache[<<tkey, i>>].st = "complete"}
<1>1. tkey \in Tasks /\ Agrees(tobj, tkey)
  BY DEF AllTypes, WorkerTypes, TasksAndJobs, TaskKept
<1>2. Cardinality(S) + 0 >= Len(tobj.spec.insts)
  BY DEF Verdict
<1>3. ASSUME NEW i \in S
      PROVE  job[<<tkey, i>>].st = "complete" /\ i \in Targets(tkey)
  <2>1. <<tkey, i>> \in Pairs /\ jcache[<<tkey, i>>].st = "complete"
    BY <1>1 DEF Pairs
  <2>2. job[<<tkey, i>>].st = "complete"
    BY <2>1 DEF TasksAndJobs, JobsKept, Finished
  <2>3. job[<<tkey, i>>] # NoJob
    BY <2>2 DEF NoJob
  <2>4. QED BY <2>1, <2>2, <2>3 DEF TasksAndJobs, JobsKept
<1>4. S \subseteq Targets(tkey)
  BY <1>3
<1>5. /\ IsFiniteSet(Targets(tkey))
      /\ Cardinality(Targets(tkey)) = Len(task[tkey].spec.insts)
      /\ Len(task[tkey].spec.insts) \in Nat
  BY <1>1, TargetsCount
<1>6. /\ IsFiniteSet(S) /\ Cardinality(S) <= Cardinality(Targets(tkey))
      /\ Cardinality(Targets(tkey)) = Cardinality(S) => Targets(tkey) = S
  BY <1>4, <1>5, FS_Subset
<1>7. Cardinality(S) \in Nat
  BY <1>6, FS_CardinalityType
<1>8. S = Targets(tkey)
  BY <1>1, <1>2, <1>5, <1>6, <1>7 DEF Agrees
<1>9. QED BY <1>3, <1>8

\* Complete stays true of what it was said of: nothing unmakes a Job that succeeded.
LEMMA CompleteStays ==
  ASSUME AllTypes, CompleteMeansDone, NEW t \in Tasks,
         task'[t].exists /\ task'[t].cond.complete =>
           /\ task[t].exists /\ task[t].cond.complete /\ task'[t].spec = task[t].spec,
         \A p \in Pairs : job[p].st = "complete" => job'[p].st = "complete",
         task'[t].exists, task'[t].cond.complete
  PROVE  \A i \in Targets(t)' : job'[<<t, i>>].st = "complete"
<1>1. Targets(t)' = Targets(t) /\ Targets(t) \subseteq Instances
  BY TargetsAreInstances DEF Targets
<1>2. \A i \in Targets(t) : job[<<t, i>>].st = "complete" /\ <<t, i>> \in Pairs
  BY <1>1 DEF CompleteMeansDone, Pairs
<1>3. QED BY <1>1, <1>2

\* The one step that may say Complete anew.
LEMMA ReportSaysDone ==
  ASSUME AllTypes, AllTypes', TasksAndJobs, NoneFired, CompleteMeansDone, ReportTask
  PROVE  CompleteMeansDone'
<1>1. tpc = "report" /\ tkey \in Tasks /\ job' = job
  BY DEF ReportTask, AllTypes, WorkerTypes, WriteTask, Refused, NoChildWrite
<1>2. CASE task' = task
  BY <1>1, <1>2, CompleteStays DEF CompleteMeansDone
<1>3. CASE task' # task
  <2>1. PICK d \in 0..runs[tkey].done, f \in {FALSE, runs[tkey].failed}, r \in BOOLEAN :
          WriteTask(tkey, TaskStatusDiff(task[tkey], Verdict(d, f), r))
    BY <1>3 DEF ReportTask, Refused, NoChildWrite
  <2>2. d = 0
    BY <1>1 DEF NoneFired
  <2> DEFINE o == TaskStatusDiff(task[tkey], Verdict(d, f), r)
  <2>3. task[tkey] \in TaskObjects
    BY <1>1 DEF AllTypes, ServerTypes
  <2>4. /\ o.exists = task[tkey].exists /\ o.spec = task[tkey].spec
        /\ o.cond = task[tkey].cond \/ o.cond = Verdict(d, f)
    BY <2>3 DEF TaskStatusDiff, TaskObjects
  <2>5. task'[tkey] = o /\ \A t \in Tasks : t # tkey => task'[t] = task[t]
    BY <1>1, <2>1 DEF WriteTask, AllTypes, ServerTypes
  <2>6. CASE o.cond = task[tkey].cond
    BY <1>1, <2>4, <2>5, <2>6, CompleteStays DEF CompleteMeansDone
  <2>7. CASE o.cond = Verdict(d, f)
    <3>1. ASSUME NEW t \in Tasks, t = tkey, o.cond.complete
          PROVE  \A i \in Targets(t)' : job'[<<t, i>>].st = "complete"
      <4>1. Verdict(0, f).complete
        BY <2>2, <2>7, <3>1
      <4>2. Targets(t)' = Targets(t)
        BY <2>4, <2>5, <3>1 DEF Targets
      <4>3. QED BY <1>1, <3>1, <4>1, <4>2, VerdictIsTrue
    <3>2. ASSUME NEW t \in Tasks, t # tkey, task'[t].exists, task'[t].cond.complete
          PROVE  \A i \in Targets(t)' : job'[<<t, i>>].st = "complete"
      BY <1>1, <2>5, <3>2, CompleteStays
    <3>3. QED BY <2>5, <3>1, <3>2 DEF CompleteMeansDone
  <2>8. QED BY <2>4, <2>6, <2>7
<1>4. QED BY <1>2, <1>3

DoneInv == AllTypes /\ TasksAndJobs /\ NoneFired /\ CompleteMeansDone

LEMMA DoneStep ==
  ASSUME TasksLeftAlone, "fire" \notin Kinds, DoneInv, [Next]_vars
  PROVE  DoneInv'
<1>1. AllTypes' /\ TasksAndJobs'
  BY AllTypesStep, TasksAndJobsStep DEF DoneInv
<1>2. ASSUME UNCHANGED runs PROVE NoneFired'
  BY <1>2 DEF DoneInv, NoneFired
<1>3. ASSUME \A t \in Tasks :
               task'[t].exists /\ task'[t].cond.complete =>
                 task[t].exists /\ task[t].cond.complete /\ task'[t].spec = task[t].spec,
             \A p \in Pairs : job[p].st = "complete" => job'[p].st = "complete"
      PROVE  CompleteMeansDone'
  BY <1>1, <1>3, CompleteStays DEF DoneInv, CompleteMeansDone
<1>4. CASE TaskStep
  <2>1. UNCHANGED runs
    BY <1>4, TaskStepKeeps DEF DoneInv, PassKeeps
  <2>2. PassKeepsTasks
    BY <1>4, WorkerKeepsTasks DEF DoneInv, TasksAndJobs
  <2>3. CASE ReportTask
    BY <1>1, <1>2, <2>1, <2>3, ReportSaysDone DEF DoneInv
  <2>4. CASE ~ReportTask
    <3>1. tpc # "idle" /\ tkey \in Tasks
      BY <1>4 DEF DoneInv, AllTypes, WorkerTypes, TaskStep, RemoveTaskFinalizer,
        AddTaskFinalizer, ResolveInstances, Reserve, AwaitPhase, CreateJob, JobUnderWay,
        Release, SyncCron, ReportTask, AtPair
    <3>2. CASE AddTaskFinalizer
      <4>1. tobj \in TaskObjects
        BY DEF DoneInv, AllTypes, WorkerTypes
      <4>2. [tobj EXCEPT !.finalizer = TRUE].cond = tobj.cond
        BY <4>1 DEF TaskObjects
      <4>3. \A t \in Tasks : task'[t].cond = task[t].cond
        BY <3>1, <3>2, <4>2
        DEF AddTaskFinalizer, WriteTask, Refused, NoChildWrite, DoneInv, AllTypes, ServerTypes
      <4>4. QED
        BY <1>1, <1>2, <1>3, <2>1, <2>2, <4>3, <3>2
        DEF DoneInv, PassKeepsTasks, SameTask, NewJob, NoJob
    <3>3. CASE task' = task
      <4>1. \A p \in Pairs : job[p].st = "complete" => job'[p].st = "complete"
        BY <2>2 DEF PassKeepsTasks, NewJob, NoJob
      <4>2. QED BY <1>1, <1>2, <1>3, <2>1, <3>3, <4>1 DEF DoneInv
    <3>4. task' = task \/ AddTaskFinalizer
      <4>1. ~RemoveTaskFinalizer
        BY <3>1 DEF DoneInv, TasksAndJobs, TaskKept, RemoveTaskFinalizer
      <4>2. QED
        BY <1>4, <2>4, <4>1
        DEF TaskStep, ResolveInstances, Reserve, AwaitPhase, CreateJob, JobUnderWay,
            Release, SyncCron, WriteInstance, WriteJob, WriteCron, NoChildWrite, Refused
    <3>5. QED BY <3>2, <3>3, <3>4
  <2>5. QED BY <2>3, <2>4
<1>5. CASE UNCHANGED <<task, job, runs>>
  BY <1>1, <1>2, <1>3, <1>5 DEF DoneInv
<1>6. ASSUME NEW t \in Tasks, CreateTask(t) PROVE DoneInv'
  <2>1. PICK s \in TaskSpecs : WriteTask(t, NewTask(task[t].uid + 1, s))
    BY <1>6 DEF CreateTask, UserTaskWrite
  <2>2. ~task'[t].cond.complete /\ \A u \in Tasks : u # t => task'[u] = task[u]
    BY <2>1 DEF WriteTask, NewTask, NoStatus, DoneInv, AllTypes, ServerTypes
  <2>3. UNCHANGED <<job, runs>>
    BY <2>1 DEF WriteTask
  <2>4. QED BY <1>1, <1>2, <1>3, <2>2, <2>3 DEF DoneInv
<1>7. ASSUME NEW p \in Pairs, JobFinishes(p) PROVE DoneInv'
  <2>1. PICK st : WriteJob(p, [job[p] EXCEPT !.st = st])
    BY <1>7 DEF JobFinishes
  <2>2. job[p].st # "complete" /\ UNCHANGED <<task, runs>>
    BY <1>7, <2>1 DEF JobFinishes, WriteJob
  <2>3. \A q \in Pairs : q # p => job'[q] = job[q]
    BY <2>1 DEF WriteJob, DoneInv, AllTypes, ServerTypes
  <2>4. QED BY <1>1, <1>2, <1>3, <2>2, <2>3 DEF DoneInv
<1>8. ASSUME NEW t \in Tasks PROVE ~EditTask(t) /\ ~DeleteTask(t) /\ ~Fire(t)
  BY DEF TasksLeftAlone, EditTask, DeleteTask, Fire, UserTaskWrite, MayDisturb
<1>9. ASSUME NEW p \in Pairs PROVE ~RemoveJob(p) /\ ~CollectJob(p)
  <2>1. p[1] \in Tasks
    BY DEF Pairs
  <2>2. ~TaskOrphan(p, job[p].owner)
    BY <2>1 DEF DoneInv, TasksAndJobs, JobsKept, TaskOrphan, NoJob
  <2>3. QED BY <2>2 DEF TasksLeftAlone, RemoveJob, CollectJob, MayDisturb
<1>10. CASE UNCHANGED vars
  BY <1>5, <1>10 DEF vars
<1>11. CASE TaskRunning
  <2>1. ASSUME NEW t \in Tasks, TaskBegin(t) \/ DeliverTask(t) \/ ComeBack(t) \/ TaskResync(t)
        PROVE  DoneInv'
    BY <1>5, <2>1
    DEF TaskBegin, DeliverTask, ComeBack, TaskResync, MachineryKeeps, NoChildWrite
  <2>2. ASSUME NEW p \in Pairs, DeliverJob(p) \/ DeliverCron(p) \/ CollectCron(p)
        PROVE  DoneInv'
    BY <1>5, <2>2 DEF DeliverJob, DeliverCron, CollectCron, WriteCron, MachineryKeeps
  <2>3. CASE TaskAbort
    BY <1>5, <2>3 DEF TaskAbort, NoChildWrite
  <2>4. QED
    BY <1>4, <1>6, <1>7, <1>8, <1>9, <1>11, <2>1, <2>2, <2>3 DEF TaskRunning
<1>12. CASE ~TaskRunning /\ Next
  <2>1. CASE Restart
    BY <1>5, <2>1 DEF Restart, TaskRestart
  <2>2. CASE UNCHANGED taskVars
    BY <1>5, <2>2 DEF taskVars
  <2>3. QED
    BY <1>12, <2>1, <2>2, ByHandEdits
    DEF Next, InstanceSide, InstanceFault, PodTrouble, InstanceComesOrGoes, TimePasses,
        DoneInv, AllTypes
<1>13. QED BY <1>10, <1>11, <1>12

LEMMA InitDone == Init => DoneInv
<1> SUFFICES ASSUME Init PROVE DoneInv
  OBVIOUS
<1>1. NoneFired
  BY DEF Init, TaskInit, NoneFired, NoRuns
<1>2. \A t \in Tasks : ~task[t].cond.complete
  BY DEF Init, TaskInit, NewTask, NoTaskObject, NoStatus
<1>3. QED BY <1>1, <1>2, InitTypes, InitTasksAndJobs DEF DoneInv, CompleteMeansDone

\* Unless somebody edits or deletes tasks, removes Jobs or adds some by firing a CronJob,
\* Complete is never said of a task before the Job of each of its instances has been
\* made and has succeeded - whatever happens to instances, overrides and the operator.
THEOREM CompleteIsTrue ==
  ASSUME TasksLeftAlone, "fire" \notin Kinds
  PROVE  Spec => []CompleteMeansDone
<1>1. DoneInv /\ [Next]_vars => DoneInv'
  BY DoneStep
<1>2. DoneInv => CompleteMeansDone
  BY DEF DoneInv
<1>3. QED BY <1>1, <1>2, InitDone, PTL DEF Spec

-----------------------------------------------------------------------------
(* Reserved *)

\* The overrides of every instance are kept, or added to, and what is seen of them
\* is what they were.
GrowsAt(i) ==
  /\ \A m \in Modes : Covered(m, inst[i]) => Covered(m, inst'[i])
  /\ icache'[i] \in {icache[i], inst[i]}

OverridesGrow == \A i \in Instances : GrowsAt(i)

LEMMA CoveredByOverrides ==
  ASSUME NEW o, NEW s,
         o.suspended.set => s.suspended.set, o.woken.set => s.woken.set, NEW m \in Modes
  PROVE  Covered(m, o) => Covered(m, s)
<1>1. CASE m = "suspend"
  BY <1>1 DEF Covered, Glimpse
<1>2. CASE m = "wake"
  BY <1>2 DEF Covered, Glimpse
<1>3. CASE m = "plain"
  BY <1>3 DEF Covered, Glimpse
<1>4. QED BY <1>1, <1>2, <1>3 DEF Modes

\* Copies from which the controller goes on carry no expiry, if the first had none.
LEMMA CopiesTimeless ==
  /\ \A e, s \in BOOLEAN : Timeless(Fresh(e, s))
  /\ Timeless(AtRest)
  /\ \A c : Timeless(Decided(c))
<1>1. \A e, s : Timeless(Fresh(e, s))
  BY DEF Timeless, Fresh, Cleared
<1>2. \A e, s, ph : Timeless([Fresh(e, s) EXCEPT !.phase = ph])
  BY DEF Timeless, Fresh, Cleared
<1>3. QED BY <1>1, <1>2 DEF AtRest, Decided

\* The instance controller lifts no override that does not run out, and the others on
\* this side touch none.
LEMMA ControllerKeepsOverrides ==
  ASSUME LifecycleTypeOK, NoExpiry, NEW i \in Instances,
         Controller(i) \/ Abandon(i) \/ Kubelet(i) \/ Evicted(i) \/ Exits(i)
  PROVE  NoExpiry' /\ OverridesGrow
<1>1. /\ Timeless(inst[i]) /\ Timeless(icache[i]) /\ Timeless(copy[i])
      /\ inst[i] \in States
  BY DEF NoExpiry, LifecycleTypeOK
<1>2. ~LiftWoken(i) /\ ~LiftSuspended(i)
  BY <1>1 DEF LiftWoken, LiftSuspended, Expired, Timeless
<1>3. ASSUME UNCHANGED inst, \A j \in Instances : icache'[j] \in {icache[j], inst[j]},
             \A j \in Instances : Timeless(copy'[j])
      PROVE  NoExpiry' /\ OverridesGrow
  BY <1>3 DEF NoExpiry, OverridesGrow, GrowsAt, Timeless
<1>4. ASSUME NEW c, Timeless(c), NEW p, NEW g, At(i, p, c, g)
      PROVE  icache' = icache /\ \A j \in Instances : Timeless(copy'[j])
  BY <1>4 DEF At, NoExpiry, LifecycleTypeOK
<1>5. Leave(i) => icache' = icache /\ \A j \in Instances : Timeless(copy'[j])
  BY <1>4, CopiesTimeless DEF Leave
<1>6. \A c : DecideOn(i, c) => icache' = icache /\ \A j \in Instances : Timeless(copy'[j])
  BY <1>4, CopiesTimeless DEF DecideOn
<1>7. CASE Look(i)
  BY <1>1, <1>3, <1>6, <1>7 DEF Look, GoOnWith
<1>8. CASE Decide(i)
  BY <1>3, <1>6, <1>8 DEF Decide
<1>9. CASE Stop(i) \/ Observe(i) \/ Start(i) \/ NotFound(i) \/ Abandon(i)
  BY <1>1, <1>3, <1>4, <1>5, <1>9 DEF Stop, Observe, Start, NotFound, Abandon
<1>10. CASE Report(i)
  <2>1. icache' = icache /\ \A j \in Instances : Timeless(copy'[j])
    BY <1>5, <1>10 DEF Report
  <2>2. CASE UNCHANGED inst
    BY <1>3, <2>1, <2>2
  <2>3. CASE inst' = [inst EXCEPT ![i].phase = goal[i]]
    <3>1. /\ inst'[i].suspended = inst[i].suspended /\ inst'[i].woken = inst[i].woken
          /\ \A j \in Instances : j # i => inst'[j] = inst[j]
      BY <1>1, <2>3 DEF LifecycleTypeOK, States
    <3>2. \A j \in Instances :
            inst'[j].suspended = inst[j].suspended /\ inst'[j].woken = inst[j].woken
      BY <3>1
    <3>3. NoExpiry'
      BY <2>1, <3>2 DEF NoExpiry, Timeless
    <3>4. QED BY <2>1, <3>2, <3>3, CoveredByOverrides DEF OverridesGrow, GrowsAt
  <2>4. QED BY <1>10, <2>2, <2>3 DEF Report
<1>11. CASE See(i) \/ SeePod(i)
  BY <1>3, <1>11 DEF See, SeePod, NoExpiry, LifecycleTypeOK
<1>12. CASE Kubelet(i) \/ Evicted(i) \/ Exits(i)
  BY <1>3, <1>12 DEF Kubelet, Starts, Gone, Evicted, Exits, PodBecomes, NoExpiry
<1>13. QED
  BY <1>2, <1>7, <1>8, <1>9, <1>10, <1>11, <1>12 DEF Controller, PassStep

\* Another override, with the one actor or the other.
LEMMA AddedOverride ==
  ASSUME LifecycleTypeOK, NoExpiry, NEW i \in Instances, NEW a,
         \/ inst' = [inst EXCEPT ![i].suspended = MergeOverride(@, a, NoUntil)]
         \/ inst' = [inst EXCEPT ![i].woken = MergeOverride(@, a, NoUntil)],
         UNCHANGED <<icache, copy>>
  PROVE  NoExpiry' /\ OverridesGrow
<1>1. inst[i] \in States /\ Timeless(inst[i])
  BY DEF NoExpiry, LifecycleTypeOK
<1>2. /\ \A j \in Instances : j # i => inst'[j] = inst[j]
      /\ inst[i].suspended.set => inst'[i].suspended.set
      /\ inst[i].woken.set => inst'[i].woken.set
      /\ Timeless(inst'[i])
  <2>1. CASE inst' = [inst EXCEPT ![i].suspended = MergeOverride(@, a, NoUntil)]
    BY <1>1, <2>1 DEF LifecycleTypeOK, States, MergeOverride, Timeless
  <2>2. CASE inst' = [inst EXCEPT ![i].woken = MergeOverride(@, a, NoUntil)]
    BY <1>1, <2>2 DEF LifecycleTypeOK, States, MergeOverride, Timeless
  <2>3. QED BY <2>1, <2>2
<1>3. NoExpiry'
  BY <1>2 DEF NoExpiry, Timeless
<1>4. \A j \in Instances :
        /\ inst[j].suspended.set => inst'[j].suspended.set
        /\ inst[j].woken.set => inst'[j].woken.set
  BY <1>2
<1>5. QED BY <1>3, <1>4, CoveredByOverrides DEF OverridesGrow, GrowsAt

LEMMA ModeTypes == AllTypes => \A t \in Tasks : ModeOf(t) \in Modes
<1>1. AllTypes => \A t \in Tasks : task[t].spec \in TaskSpecs
  BY DEF AllTypes, ServerTypes, TaskObjects
<1>2. QED BY <1>1, SpecFacts DEF ModeOf

ReservedInv == AllTypes /\ TasksAndJobs /\ NoExpiry /\ CoverKept

\* Steps that leave instances alone.
LEMMA InstancesAlone ==
  UNCHANGED lifecycleVars /\ NoExpiry => NoExpiry' /\ OverridesGrow
  BY DEF lifecycleVars, NoExpiry, OverridesGrow, GrowsAt, Timeless

\* Only one task releases an override of its kind on its instances; until it has, the
\* cache can be believed.
LEMMA SeenIsThere ==
  ASSUME Disjoint, ReservedInv, NEW t \in Tasks, NEW i \in Targets(t), task[t].exists,
         ~Finished(job[<<t, i>>]), Covered(ModeOf(t), icache[i])
  PROVE  Covered(ModeOf(t), inst[i])
<1>1. i \in Instances /\ ModeOf(t) \in Modes
  BY TargetsAreInstances, ModeTypes DEF ReservedInv
<1>2. SUFFICES ASSUME ~Covered(ModeOf(t), inst[i]) PROVE FALSE
  OBVIOUS
<1>3. PICK u \in Tasks : ModeOf(u) = ModeOf(t) /\ Finished(job[<<u, i>>])
  BY <1>1, <1>2 DEF ReservedInv, CoverKept, CoverAt, StaleIsReleased
<1>4. task[u].exists /\ i \in Targets(u)
  <2>1. <<u, i>> \in Pairs /\ job[<<u, i>>] # NoJob
    BY <1>1, <1>3 DEF Pairs, Finished, NoJob
  <2>. QED BY <2>1 DEF ReservedInv, TasksAndJobs, JobsKept
<1>5. ModeOf(t) # "plain"
  BY <1>2 DEF Covered, Glimpse
<1>. QED BY <1>3, <1>4, <1>5 DEF Disjoint, Rivals

\* What a step may do to tasks and Jobs: a task appears, a Job ends, or the worker makes
\* one where it saw the override.
TasksAndJobsGoOn ==
  /\ \A t \in Tasks : task[t].exists => task'[t].spec = task[t].spec
  /\ \A t \in Tasks, i \in Instances :
       \/ job'[<<t, i>>] = job[<<t, i>>]
       \/ Finished(job'[<<t, i>>])
       \/ job[<<t, i>>] = NoJob /\ tkey = t /\ tpc = "jobs" /\ pairs[i].overridden

\* The worker goes on with what it saw, or looks into the cache.
GlimpsesGoOn ==
  tpc' = "jobs" =>
    \/ tkey' = tkey /\ tpc = "jobs" /\ pairs' = pairs
    \/ /\ task[tkey'].exists
       /\ \A i \in Instances : pairs'[i].overridden => Covered(ModeOf(tkey'), icache[i])

\* Then an instance whose overrides are kept keeps its cover.
LEMMA CoverGoesOn ==
  ASSUME Disjoint, ReservedInv, TasksAndJobsGoOn, GlimpsesGoOn, NEW i \in Instances, GrowsAt(i)
  PROVE  CoverAt(i)'
<1>1. /\ \A t \in Tasks : ModeOf(t) \in Modes /\ <<t, i>> \in Pairs
      /\ ~Finished(NoJob) /\ NoJob.st # "active"
      /\ CoverAt(i)
  BY ModeTypes DEF ReservedInv, CoverKept, Finished, NoJob, Pairs
<1>2. \A t \in Tasks : task[t].exists => ModeOf(t)' = ModeOf(t) /\ Targets(t)' = Targets(t)
  BY DEF TasksAndJobsGoOn, ModeOf, Targets
<1>3. \A t \in Tasks : job[<<t, i>>] # NoJob => task[t].exists
  BY <1>1 DEF ReservedInv, TasksAndJobs, JobsKept
<1>4. tpc # "idle" => task[tkey].exists
  BY DEF ReservedInv, TasksAndJobs, TaskKept, Agrees
<1>5. StaleIsReleased(i)'
  <2>1. SUFFICES ASSUME NEW m \in Modes, Covered(m, icache'[i]), ~Covered(m, inst'[i])
                 PROVE  \E t \in Tasks : ModeOf(t)' = m /\ Finished(job'[<<t, i>>])
    BY DEF StaleIsReleased, Covered, Glimpse, ModeOf, Finished
  <2>2. Covered(m, icache[i]) /\ ~Covered(m, inst[i])
    BY <2>1 DEF GrowsAt
  <2>3. PICK t \in Tasks : ModeOf(t) = m /\ Finished(job[<<t, i>>])
    BY <1>1, <2>2 DEF CoverAt, StaleIsReleased
  <2>4. Finished(job'[<<t, i>>]) /\ task[t].exists
    BY <1>1, <1>3, <2>3 DEF TasksAndJobsGoOn
  <2>. QED BY <1>2, <2>3, <2>4
<1>6. ASSUME NEW t \in Tasks PROVE CoverFor(t, i)'
  <2>1. SUFFICES ASSUME i \in Targets(t)', ~Finished(job'[<<t, i>>]),
                        \/ tkey' = t /\ tpc' = "jobs" /\ pairs'[i].overridden
                        \/ job'[<<t, i>>].st = "active"
                 PROVE  Covered(ModeOf(t)', inst'[i])
    BY DEF CoverFor, Covered, Glimpse, ModeOf, Targets, Finished
  <2>2. ~Finished(job[<<t, i>>])
    BY <1>1, <2>1 DEF TasksAndJobsGoOn
  <2>3. task[t].exists
    BY <1>1, <1>3, <1>4, <2>1 DEF TasksAndJobsGoOn, GlimpsesGoOn
  <2>4. i \in Targets(t) /\ ModeOf(t)' = ModeOf(t)
    BY <1>2, <2>1, <2>3
  <2>5. Covered(ModeOf(t), inst[i])
    <3>1. CASE job'[<<t, i>>].st = "active"
      BY <1>1, <2>1, <2>2, <2>4, <3>1 DEF TasksAndJobsGoOn, CoverAt, CoverFor
    <3>2. CASE tkey' = t /\ tpc' = "jobs" /\ pairs'[i].overridden
      BY <1>1, <2>2, <2>3, <2>4, <3>2, SeenIsThere DEF GlimpsesGoOn, CoverAt, CoverFor
    <3>. QED BY <2>1, <3>1, <3>2
  <2>. QED BY <1>1, <2>4, <2>5 DEF GrowsAt
<1>. QED BY <1>5, <1>6 DEF CoverAt

LEMMA CoverGrows ==
  ASSUME Disjoint, ReservedInv, TasksAndJobsGoOn, GlimpsesGoOn, NoExpiry', OverridesGrow
  PROVE  NoExpiry' /\ CoverKept'
BY CoverGoesOn DEF OverridesGrow, CoverKept

\* A pass sets overrides before it creates a Job, and takes one back only of a Job
\* that it has seen to have finished.
LEMMA WorkerKeepsCover ==
  ASSUME Disjoint, ReservedInv, TaskStep
  PROVE  NoExpiry' /\ CoverKept'
<1>1. PassKeepsTasks
  BY WorkerKeepsTasks DEF ReservedInv, TasksAndJobs
<1>2. /\ tkey \in Tasks /\ tpc # "idle"
      /\ task[tkey].exists /\ tobj.spec = task[tkey].spec
  <2>1. tpc # "idle"
    BY DEF TaskStep, RemoveTaskFinalizer, AddTaskFinalizer, ResolveInstances, Reserve,
           AwaitPhase, CreateJob, JobUnderWay, Release, SyncCron, ReportTask, AtPair
  <2>2. QED
    BY <2>1 DEF ReservedInv, AllTypes, WorkerTypes, TasksAndJobs, TaskKept, Agrees
<1>3. TasksAndJobsGoOn
  BY <1>1 DEF PassKeepsTasks, SameTask, NewJob, Pairs, TasksAndJobsGoOn
<1>4. GlimpsesGoOn
  <2>1. CASE ResolveInstances
    <3>1. CASE Refused
      BY <3>1 DEF Refused, DoneWithError, TaskRest, GlimpsesGoOn
    <3>2. CASE ~Refused
      BY <1>2, <2>1, <3>2 DEF ResolveInstances, Covered, ModeOf, GlimpsesGoOn
    <3>3. QED BY <3>1, <3>2
  <2>2. CASE ~ResolveInstances /\ tpc' = "jobs"
    <3>1. ~TaskRest /\ \A p, o : p # "jobs" => ~GoOn(p, o)
      BY <2>2 DEF TaskRest, GoOn
    <3>2. \E act, ag : NextPair(act, ag)
      BY <2>2, <3>1
      DEF TaskStep, RemoveTaskFinalizer, AddTaskFinalizer, Reserve, AwaitPhase, CreateJob,
          JobUnderWay, Release, SyncCron, ReportTask, Refused, DoneWithError, Done
    <3>3. QED BY <2>2, <3>2 DEF NextPair, GlimpsesGoOn
  <2>3. QED BY <2>1, <2>2 DEF GlimpsesGoOn
<1>5. ASSUME NoExpiry', OverridesGrow PROVE NoExpiry' /\ CoverKept'
  BY <1>3, <1>4, <1>5, CoverGrows
<1>6. CASE UNCHANGED lifecycleVars
  BY <1>5, <1>6, InstancesAlone DEF ReservedInv
<1>7. CASE Reserve
  <2>1. CASE WriteInstance(Here, SetOverride(inst[Here]))
    <3>1. Here \in Instances
      BY <1>7, HereTypes DEF Reserve, AtPair, ReservedInv, AllTypes
    <3>2. /\ \/ inst' = [inst EXCEPT ![Here].suspended = MergeOverride(@, tkey, NoUntil)]
             \/ inst' = [inst EXCEPT ![Here].woken = MergeOverride(@, tkey, NoUntil)]
          /\ UNCHANGED <<icache, copy>>
      BY <2>1 DEF WriteInstance, SetOverride
    <3>3. NoExpiry' /\ OverridesGrow
      BY <3>1, <3>2, AddedOverride DEF ReservedInv, AllTypes
    <3>4. QED BY <1>5, <3>3
  <2>2. QED BY <1>6, <1>7, <2>1 DEF Reserve, Refused, InstancesStay
<1>8. CASE Release
  <2>1. CASE tobj.spec.mode # "plain" /\ WriteInstance(Here, ClearOverride(inst[Here]))
    <3>1. PICK h \in Instances : h = Here
      BY <1>8, HereTypes DEF Release, AtPair, ReservedInv, AllTypes
    <3>2. /\ Pair = <<tkey, h>> /\ <<tkey, h>> \in Pairs
          /\ h \in Targets(tkey) /\ ModeOf(tkey) \in {"suspend", "wake"}
      <4>1. at \in 1..Len(tobj.spec.insts) /\ tobj.spec.insts \in Seq(Instances)
        BY <1>8, SpecFacts
        DEF Release, AtPair, ReservedInv, AllTypes, WorkerTypes, TaskObjects
      <4>2. h \in Targets(tkey)
        BY <1>2, <3>1, <4>1 DEF Targets, Here
      <4>3. ModeOf(tkey) \in Modes
        BY <1>2, ModeTypes DEF ReservedInv
      <4>. QED BY <1>2, <2>1, <3>1, <4>2, <4>3 DEF Pair, Pairs, ModeOf, Modes
    <3>3. inst[h] \in States /\ Timeless(inst[h])
      BY <3>1 DEF ReservedInv, NoExpiry, AllTypes, LifecycleTypeOK
    <3>4. /\ inst'[h] = ClearOverride(inst[h]) /\ UNCHANGED <<icache, copy>>
          /\ \A i \in Instances : i # h => inst'[i] = inst[i]
          /\ job' = job
      BY <2>1, <3>1 DEF WriteInstance, NoChildWrite, ReservedInv, AllTypes, LifecycleTypeOK
    <3>5. NoExpiry'
      <4>1. Timeless(inst'[h])
        BY <3>3, <3>4 DEF ClearOverride, Timeless, Cleared, States
      <4>. QED BY <3>4, <4>1 DEF ReservedInv, NoExpiry, Timeless
    <3>6. Finished(job[<<tkey, h>>])
      BY <1>8, <3>2 DEF Release, ReservedInv, TasksAndJobs, JobsKept, Finished
    <3>7. ASSUME NEW m \in Modes, m # ModeOf(tkey)
          PROVE  Covered(m, inst'[h]) = Covered(m, inst[h])
      <4>1. CASE ModeOf(tkey) = "suspend"
        <5>1. inst'[h].woken = inst[h].woken
          BY <1>2, <3>3, <3>4, <4>1 DEF ClearOverride, ModeOf, States
        <5>. QED BY <3>7, <4>1, <5>1 DEF Covered, Glimpse, Modes
      <4>2. CASE ModeOf(tkey) = "wake"
        <5>1. inst'[h].suspended = inst[h].suspended
          BY <1>2, <3>3, <3>4, <4>2 DEF ClearOverride, ModeOf, States
        <5>. QED BY <3>7, <4>2, <5>1 DEF Covered, Glimpse, Modes
      <4>. QED BY <3>2, <4>1, <4>2
    <3>8. StaleIsReleased(h)'
      <4>1. SUFFICES ASSUME NEW m \in Modes, Covered(m, icache[h]), ~Covered(m, inst'[h])
                     PROVE  \E t \in Tasks : ModeOf(t)' = m /\ Finished(job[<<t, h>>])
        BY <3>4 DEF StaleIsReleased, Covered, Glimpse, ModeOf, Finished
      <4>2. \A t \in Tasks : ModeOf(t)' = ModeOf(t)
        BY <1>1 DEF PassKeepsTasks, SameTask, ModeOf
      <4>3. CASE m = ModeOf(tkey)
        BY <1>2, <3>6, <4>2, <4>3
      <4>4. CASE m # ModeOf(tkey)
        BY <3>7, <4>1, <4>2, <4>4 DEF ReservedInv, CoverKept, CoverAt, StaleIsReleased
      <4>. QED BY <4>3, <4>4
    <3>9. ASSUME NEW t \in Tasks PROVE CoverFor(t, h)'
      <4>1. /\ ModeOf(t)' = ModeOf(t) /\ Targets(t)' = Targets(t)
            /\ ModeOf(t) \in Modes /\ <<t, h>> \in Pairs
        BY <1>1, ModeTypes DEF PassKeepsTasks, SameTask, ModeOf, Targets, ReservedInv, Pairs
      <4>2. SUFFICES ASSUME h \in Targets(t), ~Finished(job[<<t, h>>]),
                            \/ tkey' = t /\ tpc' = "jobs" /\ pairs'[h].overridden
                            \/ job[<<t, h>>].st = "active"
                     PROVE  Covered(ModeOf(t), inst'[h])
        BY <3>4, <4>1 DEF CoverFor, Covered, Glimpse, Finished
      <4>3. t # tkey
        BY <3>6, <4>2
      <4>4. job[<<t, h>>].st = "active" /\ task[t].exists
        <5>1. job[<<t, h>>].st = "active"
          BY <1>1, <4>2, <4>3 DEF PassKeepsTasks
        <5>2. job[<<t, h>>] # NoJob
          BY <5>1 DEF NoJob
        <5>. QED BY <4>1, <5>1, <5>2 DEF ReservedInv, TasksAndJobs, JobsKept
      <4>5. Covered(ModeOf(t), inst[h])
        BY <4>2, <4>4 DEF ReservedInv, CoverKept, CoverAt, CoverFor
      <4>6. ModeOf(t) # ModeOf(tkey)
        BY <1>2, <3>2, <4>2, <4>3, <4>4 DEF Disjoint, Rivals
      <4>. QED BY <3>7, <4>1, <4>5, <4>6
    <3>10. ASSUME NEW i \in Instances PROVE CoverAt(i)'
      <4>1. CASE i = h
        BY <3>8, <3>9, <4>1 DEF CoverAt
      <4>2. CASE i # h
        <5>1. GrowsAt(i)
          BY <3>4, <4>2 DEF GrowsAt
        <5>. QED BY <1>3, <1>4, <5>1, CoverGoesOn
      <4>. QED BY <4>1, <4>2
    <3>11. QED BY <3>5, <3>10 DEF CoverKept
  <2>2. QED BY <1>6, <1>8, <2>1 DEF Release, Refused, InstancesStay
<1>9. QED
  BY <1>6, <1>7, <1>8
  DEF TaskStep, RemoveTaskFinalizer, AddTaskFinalizer, ResolveInstances, AwaitPhase,
      CreateJob, JobUnderWay, SyncCron, ReportTask, Refused, InstancesStay

\* The instance controller, the cluster, users, the clock and a restart.
LEMMA InstanceSideKeepsCover ==
  ASSUME Undisputed, Disjoint, ReservedInv,
         \/ Restart \/ TimePasses
         \/ \E i \in Instances :
              \/ InstanceSide(i) \/ InstanceFault(i) \/ PodTrouble(i)
              \/ InstanceComesOrGoes(i) \/ ByHand(i)
  PROVE  NoExpiry' /\ CoverKept'
<1>1. ASSUME NoExpiry', OverridesGrow, UNCHANGED <<task, job>>,
             tpc' = "idle" \/ UNCHANGED <<tkey, tpc, pairs>>
      PROVE  NoExpiry' /\ CoverKept'
  BY <1>1, CoverGrows DEF TasksAndJobsGoOn, GlimpsesGoOn
<1>2. ASSUME NEW i \in Instances, InstanceSide(i) \/ InstanceFault(i) \/ PodTrouble(i)
      PROVE  NoExpiry' /\ CoverKept'
  <2>1. NoExpiry' /\ OverridesGrow
    BY <1>2, ControllerKeepsOverrides
    DEF InstanceSide, InstanceFault, PodTrouble, ReservedInv, AllTypes
  <2>2. UNCHANGED taskVars
    BY <1>2 DEF InstanceSide, InstanceFault, PodTrouble
  <2>3. QED BY <1>1, <2>1, <2>2 DEF taskVars
<1>3. ASSUME NEW i \in Instances, ByHand(i) PROVE NoExpiry' /\ CoverKept'
  <2>1. UNCHANGED taskVars
    BY <1>3, ByHandEdits DEF ReservedInv, AllTypes
  <2>2. ~CLIResume(i) /\ ~ManualClear(i) /\ \A o : ~UserWrites("expiring", i, o)
    BY DEF Undisputed, CLIResume, ManualClear, UserWrites, MayDisturb
  <2>3. CASE CLISuspend(i) \/ ManualWake(i)
    <3>1. /\ \/ inst' = [inst EXCEPT ![i].suspended = MergeOverride(@, CLI, NoUntil)]
             \/ inst' = [inst EXCEPT ![i].woken = MergeOverride(@, CLI, NoUntil)]
          /\ UNCHANGED <<icache, copy>>
      BY <2>2, <2>3 DEF CLISuspend, ManualWake, UserWrites, InstanceBecomes
    <3>2. NoExpiry' /\ OverridesGrow
      BY <3>1, AddedOverride DEF ReservedInv, AllTypes
    <3>3. QED BY <1>1, <2>1, <3>2 DEF taskVars
  <2>4. CASE EditSuspend(i)
    <3>1. inst[i] \in States /\ inst \in [Instances -> States]
      BY DEF ReservedInv, AllTypes, LifecycleTypeOK
    <3>2. /\ inst' = [inst EXCEPT ![i].suspend = ~@]
          /\ UNCHANGED <<icache, copy>>
      BY <2>4 DEF EditSuspend, UserWrites, InstanceBecomes
    <3>3. \A j \in Instances :
            inst'[j].suspended = inst[j].suspended /\ inst'[j].woken = inst[j].woken
      BY <3>1, <3>2 DEF States
    <3>4. NoExpiry'
      BY <3>2, <3>3 DEF ReservedInv, NoExpiry, Timeless
    <3>5. OverridesGrow
      BY <3>2, <3>3, CoveredByOverrides DEF OverridesGrow, GrowsAt
    <3>6. QED BY <1>1, <2>1, <3>4, <3>5 DEF taskVars
  <2>5. QED BY <1>3, <2>2, <2>3, <2>4 DEF ByHand
<1>4. ASSUME NEW i \in Instances PROVE ~InstanceComesOrGoes(i)
  BY DEF Undisputed, InstanceComesOrGoes, MayDisturb
<1>5. CASE Restart
  <2>1. NoExpiry' /\ OverridesGrow
    BY <1>5, CopiesTimeless DEF Restart, Reboot, ReservedInv, NoExpiry, OverridesGrow, GrowsAt, Timeless
  <2>2. QED BY <1>1, <1>5, <2>1 DEF Restart, TaskRestart, TaskRest
<1>6. CASE TimePasses
  <2>1. NoExpiry' /\ OverridesGrow /\ UNCHANGED taskVars
    BY <1>6
    DEF TimePasses, ClockTicks, ReservedInv, NoExpiry, OverridesGrow, GrowsAt, Timeless
  <2>2. QED BY <1>1, <2>1 DEF taskVars
<1>7. QED BY <1>2, <1>3, <1>4, <1>5, <1>6

\* The queue, the informers, the users and the Jobs.
LEMMA RestKeepsCover ==
  ASSUME Undisputed, Disjoint, ReservedInv, TaskRunning, ~TaskStep
  PROVE  NoExpiry' /\ CoverKept'
<1>1. ASSUME UNCHANGED lifecycleVars, TasksAndJobsGoOn, GlimpsesGoOn
      PROVE  NoExpiry' /\ CoverKept'
  BY <1>1, InstancesAlone, CoverGrows DEF ReservedInv
<1>2. ASSUME UNCHANGED lifecycleVars, UNCHANGED <<task, job>>,
             tpc' # "jobs" \/ UNCHANGED <<tkey, tpc, pairs>>
      PROVE  NoExpiry' /\ CoverKept'
  BY <1>1, <1>2 DEF TasksAndJobsGoOn, GlimpsesGoOn
<1>3. ASSUME NEW t \in Tasks, TaskBegin(t) PROVE NoExpiry' /\ CoverKept'
  <2>1. tpc' # "jobs"
    BY <1>3 DEF TaskBegin
  <2>2. QED BY <1>2, <1>3, <2>1 DEF TaskBegin, NoChildWrite, InstancesStay
<1>4. CASE TaskAbort
  BY <1>2, <1>4 DEF TaskAbort, TaskRest, NoChildWrite, InstancesStay
<1>5. CASE \/ \E t \in Tasks : DeliverTask(t) \/ ComeBack(t) \/ TaskResync(t)
           \/ \E p \in Pairs : DeliverJob(p) \/ DeliverCron(p)
  BY <1>2, <1>5
  DEF DeliverTask, ComeBack, TaskResync, DeliverJob, DeliverCron, MachineryKeeps, InstancesStay
<1>6. ASSUME \/ \E t \in Tasks : CreateTask(t) \/ EditTask(t) \/ DeleteTask(t) \/ Fire(t)
             \/ \E p \in Pairs : RemoveJob(p) \/ JobFinishes(p) \/ CollectJob(p) \/ CollectCron(p)
      PROVE  NoExpiry' /\ CoverKept'
  <2>1. UNCHANGED <<tkey, tpc, pairs>> /\ UNCHANGED lifecycleVars
    BY <1>6, OthersTasksAndJobs DEF Undisputed, ReservedInv
  <2>2. GlimpsesGoOn
    BY <2>1 DEF GlimpsesGoOn
  <2>3. ASSUME UNCHANGED <<task, job>> PROVE NoExpiry' /\ CoverKept'
    BY <1>2, <2>1, <2>3
  <2>4. ASSUME NEW u \in Tasks, CreateTask(u) PROVE NoExpiry' /\ CoverKept'
    <3>1. PICK s \in TaskSpecs : WriteTask(u, NewTask(task[u].uid + 1, s))
      BY <2>4 DEF CreateTask, UserTaskWrite
    <3>2. /\ ~task[u].exists /\ job' = job
          /\ \A t \in Tasks : t # u => task'[t] = task[t]
      BY <2>4, <3>1 DEF CreateTask, WriteTask, ReservedInv, AllTypes, ServerTypes
    <3>3. TasksAndJobsGoOn
      BY <3>2 DEF TasksAndJobsGoOn
    <3>4. QED BY <1>1, <2>1, <2>2, <3>3
  <2>5. ASSUME NEW p \in Pairs, JobFinishes(p) PROVE NoExpiry' /\ CoverKept'
    <3>1. PICK st \in {"complete", "failed"} : WriteJob(p, [job[p] EXCEPT !.st = st])
      BY <2>5 DEF JobFinishes
    <3>2. job[p] \in JobObjects /\ job[p].st = "active" /\ UNCHANGED task
      BY <2>5, <3>1 DEF JobFinishes, WriteJob, ReservedInv, AllTypes, ServerTypes
    <3>3. job[p] # NoJob
      BY <3>2 DEF NoJob
    <3>4. Finished(job'[p]) /\ \A q \in Pairs : q # p => job'[q] = job[q]
      BY <3>1, <3>2, <3>3
      DEF WriteJob, Finished, JobObjects, ReservedInv, AllTypes, ServerTypes
    <3>5. TasksAndJobsGoOn
      <4>1. \A t \in Tasks, i \in Instances : <<t, i>> \in Pairs
        BY DEF Pairs
      <4>2. QED BY <3>2, <3>4, <4>1 DEF TasksAndJobsGoOn
    <3>6. QED BY <1>1, <2>1, <2>2, <3>5
  <2>6. ASSUME NEW t \in Tasks PROVE ~EditTask(t) /\ ~DeleteTask(t)
    BY DEF Undisputed, TasksLeftAlone, EditTask, DeleteTask, UserTaskWrite, MayDisturb
  <2>7. ASSUME NEW p \in Pairs PROVE ~RemoveJob(p) /\ ~CollectJob(p)
    <3>1. p[1] \in Tasks
      BY DEF Pairs
    <3>2. ~TaskOrphan(p, job[p].owner)
      BY <3>1 DEF ReservedInv, TasksAndJobs, JobsKept, TaskOrphan, NoJob
    <3>3. QED
      BY <3>2 DEF Undisputed, TasksLeftAlone, RemoveJob, CollectJob, MayDisturb
  <2>8. ASSUME NEW t \in Tasks, Fire(t) PROVE NoExpiry' /\ CoverKept'
    BY <2>3, <2>8 DEF Fire
  <2>9. ASSUME NEW p \in Pairs, CollectCron(p) PROVE NoExpiry' /\ CoverKept'
    BY <2>3, <2>9 DEF CollectCron, WriteCron
  <2>10. QED BY <1>6, <2>4, <2>5, <2>6, <2>7, <2>8, <2>9
<1>7. QED BY <1>3, <1>4, <1>5, <1>6 DEF TaskRunning

LEMMA ReservedStep ==
  ASSUME Undisputed, Disjoint, ReservedInv, [Next]_vars
  PROVE  ReservedInv'
<1>1. AllTypes' /\ TasksAndJobs'
  BY AllTypesStep, TasksAndJobsStep DEF ReservedInv, Undisputed
<1>2. CASE Next
  <2>1. NoExpiry' /\ CoverKept'
    BY <1>2, WorkerKeepsCover, InstanceSideKeepsCover, RestKeepsCover DEF Next
  <2>2. QED BY <1>1, <2>1 DEF ReservedInv
<1>3. CASE UNCHANGED vars
  <2>1. /\ UNCHANGED lifecycleVars /\ TasksAndJobsGoOn /\ GlimpsesGoOn
    BY <1>3 DEF vars, lifecycleVars, TasksAndJobsGoOn, GlimpsesGoOn
  <2>2. NoExpiry' /\ CoverKept'
    BY <2>1, InstancesAlone, CoverGrows DEF ReservedInv
  <2>3. QED BY <1>1, <2>2 DEF ReservedInv
<1>4. QED BY <1>2, <1>3

LEMMA InitReserved == Init => ReservedInv
<1> SUFFICES ASSUME Init PROVE ReservedInv
  OBVIOUS
<1>1. \A i \in Instances : Timeless(inst[i])
  <2>1. ASSUME NEW i \in Instances PROVE Timeless(inst[i])
    <3>1. inst[i] \in {Fresh(e, s) : e, s \in BOOLEAN} \cup {AtRest}
      <4>1. inst[i] \in Initially
        BY DEF Init, LifecycleInit
      <4>2. QED BY <4>1, InitiallyAssumption
    <3>2. QED BY <3>1, CopiesTimeless
  <2>2. QED BY <2>1
<1>2. NoExpiry
  BY <1>1, CopiesTimeless DEF Init, LifecycleInit, NoExpiry
<1>3. ASSUME NEW i \in Instances PROVE CoverAt(i)
  <2>1. icache[i] = inst[i] /\ tpc = "idle" /\ \A t \in Tasks : job[<<t, i>>] = NoJob
    BY DEF Init, LifecycleInit, TaskInit, Pairs
  <2>2. QED BY <2>1 DEF CoverAt, StaleIsReleased, CoverFor, NoJob
<1>4. QED BY <1>2, <1>3, InitTypes, InitTasksAndJobs DEF ReservedInv, CoverKept

\* Any number of tasks, of which no two suspend or wake the same instance, and whose
\* instances nobody deletes, or resumes, or overrides for a time only, reserve each
\* instance before its Job runs there and for as long as it runs: stale caches, failed
\* calls, restarts and users who suspend, wake or edit instances make no difference.
THEOREM Reservations ==
  ASSUME Undisputed
  PROVE  Spec /\ []Disjoint => []Reserved
<1>1. Disjoint /\ ReservedInv /\ [Next]_vars => ReservedInv'
  BY ReservedStep
<1>2. ReservedInv => Reserved
  <2>1. ASSUME ReservedInv, NEW t \in Tasks, NEW i \in Instances, NEW m \in Modes,
               Running(t, i, m)
        PROVE  Covered(m, inst[i])
    <3>1. job[<<t, i>>].st = "active" /\ ModeOf(t) = m
      BY <2>1 DEF Running, ModeOf
    <3>2. i \in Targets(t)
      BY <2>1, <3>1 DEF ReservedInv, TasksAndJobs, JobsKept, Pairs, NoJob
    <3>3. QED BY <2>1, <3>1, <3>2 DEF ReservedInv, CoverKept, CoverAt, CoverFor, Finished
  <2>2. \A i \in Instances : /\ Covered("suspend", inst[i]) = inst[i].suspended.set
                             /\ Covered("wake", inst[i]) = inst[i].woken.set
    BY DEF Covered, Glimpse
  <2>3. QED BY <2>1, <2>2 DEF Reserved, Modes
<1>3. QED BY <1>1, <1>2, InitReserved, PTL DEF Spec
=============================================================================
