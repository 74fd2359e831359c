----------------------------- MODULE TaskTrigger -----------------------------
(***************************************************************************)
(* kubectl redroid task trigger: for each instance of a scheduled task the *)
(* command gets the CronJob <task>-<instance> and creates a Job from its   *)
(* template, named <task>-manual-<minute>.  Several people may run it,     *)
(* while the operator creates CronJobs.                                    *)
(***************************************************************************)
EXTENDS Naturals, Sequences

CONSTANTS
  Users,         \* runs of the command
  Instances,     \* instances of the task
  Order,         \* spec.instances
  MaxMinute      \* bound: the clock stops there

VARIABLES
  minute,        \* the clock as shortTimestamp shows it
  crons,         \* instances whose CronJob exists
  jobs,          \* the Job of each minute's name: which run made it, for what
  step,          \* where each run is
  at,            \* which instance it is at
  stamp,         \* the name it is about to use
  triggered      \* names of the Jobs it will print

triggerVars == <<minute, crons, jobs, step, at, stamp, triggered>>

Minutes == 0..MaxMinute
NoJob == [by |-> "none", for |-> "none"]

TriggerInit ==
  /\ minute = 0
  /\ crons \in SUBSET Instances
  /\ jobs = [m \in Minutes |-> NoJob]
  /\ step = [u \in Users |-> "get"]
  /\ at = [u \in Users |-> 1]
  /\ stamp = [u \in Users |-> 0]
  /\ triggered = [u \in Users |-> <<>>]

-----------------------------------------------------------------------------
Becomes(u, s) == step' = [step EXCEPT ![u] = s]

\* The CronJob is got, and the Job is named after the minute.
GetCronJob(u) ==
  /\ step[u] = "get"
  /\ \/ Order[at[u]] \in crons /\ Becomes(u, "create")
     \/ Order[at[u]] \notin crons /\ Becomes(u, "failed")
  /\ stamp' = [stamp EXCEPT ![u] = minute]
  /\ UNCHANGED <<minute, crons, jobs, at, triggered>>

Create(u) ==
  /\ step[u] = "create"
  /\ \/ /\ jobs[stamp[u]] = NoJob
        /\ jobs' = [jobs EXCEPT ![stamp[u]] = [by |-> u, for |-> Order[at[u]]]]
        /\ triggered' = [triggered EXCEPT ![u] = Append(@, stamp[u])]
        /\ at' = [at EXCEPT ![u] = @ + 1]
        /\ Becomes(u, IF at[u] = Len(Order) THEN "done" ELSE "get")
     \/ /\ jobs[stamp[u]] # NoJob        \* AlreadyExists
        /\ Becomes(u, "failed")
        /\ UNCHANGED <<jobs, at, triggered>>
  /\ UNCHANGED <<minute, crons, stamp>>

\* The operator gets round to a CronJob.
CronJobAppears(i) ==
  /\ i \notin crons
  /\ crons' = crons \cup {i}
  /\ UNCHANGED <<minute, jobs, step, at, stamp, triggered>>

MinutePasses ==
  /\ minute < MaxMinute
  /\ minute' = minute + 1
  /\ UNCHANGED <<crons, jobs, step, at, stamp, triggered>>

TriggerNext ==
  \/ \E u \in Users : GetCronJob(u) \/ Create(u)
  \/ \E i \in Instances : CronJobAppears(i)
  \/ MinutePasses

TriggerSpec == TriggerInit /\ [][TriggerNext]_triggerVars

-----------------------------------------------------------------------------
\* task.go: the command creates one Job per instance.  A run may find the name it
\* wants taken by another run, but never by a Job of its own.
OneJobPerInstance ==
  [][\A u \in Users :
       step[u] = "create" /\ step'[u] = "failed" => jobs[stamp[u]].by # u]_triggerVars
=============================================================================
