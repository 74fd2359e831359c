------------------------------ MODULE MCOperator ------------------------------
(* Values for the constants of Operator. *)
EXTENDS Operator

CONSTANTS i1, i2

OneShot(m, is) ==
  [mode |-> m, scheduled |-> FALSE, insts |-> is, rev |-> 1]
Scheduled(is, r) ==
  [mode |-> "plain", scheduled |-> TRUE, insts |-> is, rev |-> r]

Suspending == {OneShot("suspend", <<i1>>)}
SuspendOrWake == {OneShot("suspend", <<i1>>), OneShot("wake", <<i1>>)}
OneOrTwo == SuspendOrWake \cup {OneShot("suspend", <<i1, i2>>)}

\* Specs that an edit takes from one to the other: in kind, in the length and the
\* order of the instances, and in what is copied into the CronJobs.
Revisions ==
  {OneShot("plain", <<i1>>), Scheduled(<<i1>>, 1), Scheduled(<<i2, i1>>, 2)}

\* A Job on each of two instances.
Both == OneShot("plain", <<i1, i2>>)
Edits == Revisions \cup {Both}

\* How instances are found.
Up == {Fresh(TRUE, FALSE)}
Resting == {AtRest}
UpOrResting == Up \cup Resting

-----------------------------------------------------------------------------
(* Bounds on disturbances and failures, which are counted together. *)

Troubles == edits + faults

\* The one instance of a task is to run, the two of a task and those of no task are
\* at rest.
OneIsUp ==
  \A t \in Tasks, i \in Instances : inst[i].suspend = (task[t].spec.insts # <<i>>)

\* An instance that is known to be stopped, and is not wanted, is left alone: a pass
\* that begins now would find nothing to do, whatever happens meanwhile.
Idle(i) ==
  /\ pod[i] = Absent /\ pcache[i] = Absent
  /\ icache[i].phase = "Stopped" /\ ~Wants(icache[i]) /\ Timeless(icache[i])

IdleIsLeftAlone ==
  \A i \in Instances : Idle(i) => place'[i] \in {"idle", place[i]}

\* A task that neither suspends nor wakes does not look at what becomes of its
\* instances: that they exist is all that matters.
NobodyLooks == UNCHANGED place

\* The clock runs where an override carries an expiry.
TimeMatters == clock' = clock \/ \E i \in Instances : ~Timeless(inst[i])

\* Two things go wrong, and the second finds that nothing is pending of the first.
SecondMeetsRest ==
  /\ Troubles' <= 2
  /\ Troubles = 1 /\ Troubles' = 2 => \A t \in Tasks : TaskSettled(t)

\* Failures are met by tasks that suspend or wake one instance.
OneMeetsFailures ==
  faults' = faults \/ \A t \in Tasks : Len(task[t].spec.insts) = 1

\* A task on two instances meets failures only.
BothMeetFailures ==
  edits' = edits \/ \A t \in Tasks : Both \notin {task[t].spec, task'[t].spec}

\* A waking task has something to do: its instance is at rest.  A suspending one may
\* find it either way.
MuchToDo ==
  \A t \in Tasks, i \in Instances : task[t].spec.mode = "wake" => inst[i].suspend

\* What a task awaits is put out of its reach: the Pod that a waking task wants up fails,
\* or the instance at rest that a suspending one wants to stay so is woken by hand.
TroubleWhereAwaited ==
  edits' = edits \/ \E p \in Pairs :
    /\ task[p[1]].exists /\ job[p] = NoJob
    /\ IF task[p[1]].spec.mode = "wake"
       THEN pod'[p[2]].phase = "Failed"
       ELSE inst[p[2]].suspend /\ inst'[p[2]].woken.set
=============================================================================
