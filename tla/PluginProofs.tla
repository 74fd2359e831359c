---------------------------- MODULE PluginProofs ----------------------------
(***************************************************************************)
(* Proofs about the plugin.  For any number of runs on one port, adb finds *)
(* its own tunnel there, and "port-forward" ends well only when it was asked to  *)
(* end; and for any number of runs of "task trigger", the Jobs it prints   *)
(* are those that it has made, one for each instance.                      *)
(***************************************************************************)
EXTENDS PortForward, TaskTrigger, TLAPS

-----------------------------------------------------------------------------
(* port-forward *)

\* A tunnel is made once.  Who listens is binding addresses or serves, and who serves
\* listens; the ready channel is closed by one who serves, and runWithADB goes on after
\* that.
TunnelIInv ==
  /\ \A a \in Addresses :
       listener[a] # Nobody => tunnel[listener[a]] \in {"bind6", "serve"}
  /\ \A s \in Sessions : tunnel[s] = "serve" => \E a \in Addresses : listener[a] = s
  /\ \A s \in Sessions : s \in ready => tunnel[s] \in {"serve", "gone"} \cup Endings
  /\ \A s \in Sessions : main[s] \in {"lookup", "setup"} => tunnel[s] = "none"
  /\ \A s \in Sessions : main[s] \in {"connect", "adb"} => s \in ready /\ s \notin Interactive

\* That a tunnel was stopped goes back to a Ctrl-C.
AskedIInv ==
  \A s \in Sessions :
    (\/ s \in caught \/ s \in stop \/ tunnel[s] = "stopped" \/ errCh[s] = "stopped"
     \/ (s \in Interactive /\ outcome[s] = "ok")) => s \in asked

PortIInv == PortTypeOK /\ TunnelIInv /\ AskedIInv

-----------------------------------------------------------------------------
LEMMA PortInitially == PortInit => PortIInv
  BY PortForwardAssumption
  DEF PortInit, PortIInv, PortTypeOK, TunnelIInv, AskedIInv, Endings, Empty

LEMMA CommandKeeps ==
  ASSUME PortIInv, NEW s \in Sessions, Command(s) \/ Connect(s) \/ AdbEnds(s)
  PROVE  PortIInv'
<1> USE DEF PortIInv, PortTypeOK, TunnelIInv, AskedIInv, Endings, Empty, IsError,
            Goes, Returns, Quietly, ChannelsStay, OutsideStays
<1>1. CASE Lookup(s)
  BY <1>1 DEF Lookup
<1>2. CASE Setup(s)
  BY <1>2 DEF Setup
<1>3. CASE ReadyForUser(s) \/ ReadyForCaller(s)
  BY <1>3 DEF ReadyForUser, ReadyForCaller
<1>4. CASE Notify(s) \/ Block(s)
  BY <1>4 DEF Notify, Block
<1>5. CASE TunnelEnded(s)
  BY <1>5 DEF TunnelEnded
<1>6. CASE Interrupted(s)
  BY <1>6 DEF Interrupted
<1>7. CASE Connect(s) \/ AdbEnds(s)
  BY <1>7 DEF Connect, AdbEnds
<1>8. CASE Exit(s)
  BY <1>8, PortForwardAssumption DEF Exit, Vanishes, LetsGo
<1>9. QED
  BY <1>1, <1>2, <1>3, <1>4, <1>5, <1>6, <1>7, <1>8 DEF Command

LEMMA TunnelKeeps ==
  ASSUME PortIInv, NEW s \in Sessions, Tunnel(s) \/ Collect(s)
  PROVE  PortIInv'
<1> USE DEF PortIInv, PortTypeOK, TunnelIInv, AskedIInv, Endings, Empty, IsError,
            TunnelGoes, OutsideStays
<1>1. CASE Dial(s)
  BY <1>1 DEF Dial
<1>2. CASE Bind4(s)
  BY <1>2, PortForwardAssumption DEF Bind4, Binds, Addresses
<1>3. CASE Bind6(s)
  BY <1>3, PortForwardAssumption DEF Bind6, Binds, ListensOn, Addresses
<1>4. CASE Serve(s)
  BY <1>4, PortForwardAssumption DEF Serve, LetsGo
<1>5. CASE Send(s)
  BY <1>5 DEF Send
<1>6. CASE Collect(s)
  BY <1>6 DEF Collect
<1>7. QED BY <1>1, <1>2, <1>3, <1>4, <1>5, <1>6 DEF Tunnel

LEMMA OutsideKeepsTunnel ==
  ASSUME PortIInv, NEW s \in Sessions, PressCtrlC(s) \/ ConnectionCloses(s)
  PROVE  PortIInv'
<1> USE DEF PortIInv, PortTypeOK, TunnelIInv, AskedIInv, Endings, Empty,
            Goes, Quietly, ChannelsStay
<1>1. CASE PressCtrlC(s) /\ main[s] \in {"armed", "select"}
  BY <1>1 DEF PressCtrlC
<1>2. CASE PressCtrlC(s) /\ main[s] \notin {"armed", "select"}
  <2>1. PortTypeOK'
    BY <1>2 DEF PressCtrlC, Vanishes, LetsGo
  <2>2. TunnelIInv'
    BY <1>2, PortForwardAssumption DEF PressCtrlC, Vanishes, LetsGo
  <2>3. AskedIInv'
    BY <1>2 DEF PressCtrlC, Vanishes
  <2>4. QED BY <2>1, <2>2, <2>3
<1>3. CASE ConnectionCloses(s)
  BY <1>3 DEF ConnectionCloses
<1>4. QED BY <1>1, <1>2, <1>3

LEMMA PortInvariant == PortSpec => []PortIInv
<1>1. PortIInv /\ PortNext => PortIInv'
  BY CommandKeeps, TunnelKeeps, OutsideKeepsTunnel DEF PortNext
<1>2. PortIInv /\ UNCHANGED portVars => PortIInv'
  BY DEF PortIInv, PortTypeOK, TunnelIInv, AskedIInv, portVars
<1>3. QED BY <1>1, <1>2, PortInitially, PTL DEF PortSpec

\* When adb runs, the tunnel that was made for it listens on an address of "localhost",
\* and goes on to as long as it lasts, however many runs bind the port and whenever
\* their tunnels break.  (That adb connects to that address, and not to one that another
\* run has bound, is not said, nor true.)
THEOREM AdbTunnelListens == PortSpec => []AdbFindsItsTunnel
<1>1. PortIInv => AdbFindsItsTunnel
  BY DEF PortIInv, TunnelIInv, AdbFindsItsTunnel, TunnelIsOver, ListensOn
<1>2. QED BY <1>1, PortInvariant, PTL

\* "port-forward" says that all went well only to a user who has pressed Ctrl-C.
THEOREM EndsWell == PortSpec => []EndsWellWhenAsked
<1>1. PortIInv => EndsWellWhenAsked
  BY PortForwardAssumption DEF PortIInv, AskedIInv, EndsWellWhenAsked
<1>2. QED BY <1>1, PortInvariant, PTL
-----------------------------------------------------------------------------
(* task trigger *)

\* A task has an instance, and "none" is nobody's run.
TriggerSetting ==
  /\ Order \in Seq(Instances) /\ Order # <<>>
  /\ MaxMinute \in Nat
  /\ "none" \notin Users

JobFor(u, n) == [by |-> u, for |-> Order[n]]

\* The Jobs of a run are those on its list, one for each instance it has been through,
\* in the order of the spec; a run that ends well has been through all of them.
ListedAsMade ==
  \A u \in Users :
    /\ \A n \in 1..Len(triggered[u]) : jobs[triggered[u][n]] = JobFor(u, n)
    /\ \A m \in Minutes : jobs[m].by = u => \E n \in 1..Len(triggered[u]) : triggered[u][n] = m
    /\ step[u] = "done" => Len(triggered[u]) = Len(Order)

TriggerTypes ==
  /\ minute \in Minutes /\ DOMAIN jobs = Minutes
  /\ step \in [Users -> {"get", "create", "failed", "done"}]
  /\ at \in [Users -> Nat] /\ stamp \in [Users -> Minutes]
  /\ triggered \in [Users -> Seq(Minutes)]

\* Where a run is says how long its list is.
Progress ==
  \A u \in Users :
    /\ at[u] = Len(triggered[u]) + 1
    /\ IF step[u] = "done" THEN at[u] = Len(Order) + 1 ELSE at[u] <= Len(Order)

TriggerInv == TriggerTypes /\ Progress /\ ListedAsMade

LEMMA TriggerInitially ==
  ASSUME TriggerSetting, TriggerInit
  PROVE  TriggerInv
<1>1. Len(Order) \in Nat \ {0}
  BY DEF TriggerSetting
<1>2. <<>> \in Seq(Minutes) /\ Len(<<>>) = 0 /\ 0 \in Minutes
  BY DEF TriggerSetting, Minutes
<1>3. TriggerTypes
  BY <1>2 DEF TriggerInit, TriggerTypes
<1>4. Progress
  BY <1>1, <1>2 DEF TriggerInit, Progress
<1>5. ListedAsMade
  BY <1>1, <1>2 DEF TriggerInit, ListedAsMade, NoJob, TriggerSetting
<1>. QED BY <1>3, <1>4, <1>5 DEF TriggerInv

\* A Job is made under a name that nobody has, and goes on the list of its run.
LEMMA CreateKeeps ==
  ASSUME TriggerSetting, TriggerInv, NEW u \in Users, Create(u)
  PROVE  TriggerInv'
<1>1. /\ minute \in Minutes /\ DOMAIN jobs = Minutes
      /\ step \in [Users -> {"get", "create", "failed", "done"}]
      /\ at \in [Users -> Nat] /\ stamp \in [Users -> Minutes]
      /\ triggered \in [Users -> Seq(Minutes)]
  BY DEF TriggerInv, TriggerTypes
<1>2. Len(Order) \in Nat
  BY DEF TriggerSetting
<1>3. CASE jobs[stamp[u]] # NoJob
  <2>1. step' = [step EXCEPT ![u] = "failed"] /\ step[u] = "create"
        /\ UNCHANGED <<minute, jobs, at, stamp, triggered>>
    BY <1>3 DEF Create, Becomes
  <2>2. TriggerTypes'
    BY <1>1, <2>1 DEF TriggerTypes
  <2>3. Progress'
    BY <1>1, <2>1 DEF TriggerInv, Progress
  <2>4. ListedAsMade'
    BY <1>1, <2>1 DEF TriggerInv, ListedAsMade, JobFor
  <2>. QED BY <2>2, <2>3, <2>4 DEF TriggerInv
<1>4. CASE jobs[stamp[u]] = NoJob
  <2>. DEFINE k == at[u]
              old == triggered[u]
              new == Append(old, stamp[u])
              s == IF k = Len(Order) THEN "done" ELSE "get"
  <2>1. /\ step[u] = "create"
        /\ jobs' = [jobs EXCEPT ![stamp[u]] = JobFor(u, k)]
        /\ triggered' = [triggered EXCEPT ![u] = new]
        /\ at' = [at EXCEPT ![u] = k + 1]
        /\ step' = [step EXCEPT ![u] = s]
        /\ UNCHANGED <<minute, stamp>>
    BY <1>4 DEF Create, Becomes, JobFor
  <2>2. /\ old \in Seq(Minutes) /\ stamp[u] \in Minutes /\ k \in Nat
        /\ s \in {"get", "done"}
    BY <1>1
  <2>3. k = Len(old) + 1 /\ k <= Len(Order)
    BY <2>1 DEF TriggerInv, Progress
  <2>4. /\ new \in Seq(Minutes) /\ Len(new) = k /\ new[k] = stamp[u]
        /\ \A n \in 1..Len(old) : new[n] = old[n]
        /\ \A n \in 1..k : n = k \/ n \in 1..Len(old)
    BY <2>2, <2>3
  <2>. HIDE DEF k, old, new, s
  <2>5. \A v \in Users : v # u => /\ triggered'[v] = triggered[v] /\ at'[v] = at[v]
                                  /\ step'[v] = step[v]
    BY <1>1, <2>1
  <2>6. /\ triggered'[u] = new /\ at'[u] = k + 1 /\ step'[u] = s
    BY <1>1, <2>1
  <2>7. TriggerTypes'
    BY <1>1, <2>1, <2>2, <2>4 DEF TriggerTypes
  <2>8. Progress'
    <3>1. IF s = "done" THEN k + 1 = Len(Order) + 1 ELSE k + 1 <= Len(Order)
      BY <1>2, <2>2, <2>3 DEF s
    <3>. QED BY <2>4, <2>5, <2>6, <3>1 DEF TriggerInv, Progress
  <2>9. ASSUME NEW v \in Users, NEW n \in 1..Len(triggered[v])
        PROVE  jobs'[triggered[v][n]] = JobFor(v, n)
    <3>1. triggered[v][n] \in Minutes /\ jobs[triggered[v][n]] = JobFor(v, n)
      BY <1>1 DEF TriggerInv, ListedAsMade
    <3>2. JobFor(v, n) # NoJob
      BY DEF JobFor, NoJob, TriggerSetting
    <3>. QED BY <1>1, <1>4, <2>1, <3>1, <3>2
  <2>10. ASSUME NEW v \in Users
         PROVE  /\ \A n \in 1..Len(triggered'[v]) : jobs'[triggered'[v][n]] = JobFor(v, n)
                /\ \A m \in Minutes :
                     jobs'[m].by = v => \E n \in 1..Len(triggered'[v]) : triggered'[v][n] = m
                /\ step'[v] = "done" => Len(triggered'[v]) = Len(Order)
    <3>1. jobs'[stamp[u]] = JobFor(u, k) /\ \A m \in Minutes : m # stamp[u] => jobs'[m] = jobs[m]
      BY <1>1, <2>1, <2>2
    <3>2. CASE v = u
      <4>1. \A n \in 1..Len(new) : jobs'[new[n]] = JobFor(u, n)
        BY <2>4, <2>9, <3>1 DEF old
      <4>2. ASSUME NEW m \in Minutes, jobs'[m].by = u
            PROVE  \E n \in 1..Len(new) : new[n] = m
        <5>1. CASE m = stamp[u]
          BY <2>2, <2>3, <2>4, <5>1
        <5>2. CASE m # stamp[u]
          <6>1. PICK n \in 1..Len(old) : old[n] = m
            BY <3>1, <4>2, <5>2 DEF TriggerInv, ListedAsMade, old
          <6>2. n \in 1..Len(new)
            BY <2>2, <2>3, <2>4
          <6>. QED BY <2>4, <6>1, <6>2
        <5>. QED BY <5>1, <5>2
      <4>3. s = "done" => Len(new) = Len(Order)
        BY <2>4 DEF s
      <4>. QED BY <2>6, <3>2, <4>1, <4>2, <4>3
    <3>3. CASE v # u
      <4>1. JobFor(u, k).by = u
        BY DEF JobFor
      <4>. QED BY <2>5, <2>9, <3>1, <3>3, <4>1 DEF TriggerInv, ListedAsMade
    <3>. QED BY <3>2, <3>3
  <2>11. ListedAsMade'
    BY <2>10 DEF ListedAsMade, JobFor
  <2>. QED BY <2>7, <2>8, <2>11 DEF TriggerInv
<1>. QED BY <1>3, <1>4

\* What "task trigger" prints is what it has made.  Runs take names from each other,
\* and from themselves, and stop half-way; but a run never overwrites a Job, never makes
\* one that it does not list, and never ends well with an instance left out.
THEOREM TriggerListsWhatItMade ==
  ASSUME TriggerSetting
  PROVE  TriggerSpec => []ListedAsMade
<1>1. TriggerInit => TriggerInv
  BY TriggerInitially
<1>2. TriggerInv /\ [TriggerNext]_triggerVars => TriggerInv'
  <2>. SUFFICES ASSUME TriggerInv, [TriggerNext]_triggerVars PROVE TriggerInv'
    OBVIOUS
  <2>1. ASSUME NEW u \in Users, GetCronJob(u) PROVE TriggerInv'
    <3>1. PICK s \in {"create", "failed"} : step' = [step EXCEPT ![u] = s]
      BY <2>1 DEF GetCronJob, Becomes
    <3>2. /\ step[u] = "get" /\ stamp' = [stamp EXCEPT ![u] = minute]
          /\ UNCHANGED <<minute, jobs, at, triggered>>
      BY <2>1 DEF GetCronJob
    <3>3. TriggerTypes'
      BY <3>1, <3>2 DEF TriggerInv, TriggerTypes
    <3>4. Progress'
      BY <3>1, <3>2 DEF TriggerInv, TriggerTypes, Progress
    <3>5. ListedAsMade'
      BY <3>1, <3>2 DEF TriggerInv, TriggerTypes, ListedAsMade, JobFor
    <3>. QED BY <3>3, <3>4, <3>5 DEF TriggerInv
  <2>2. ASSUME NEW u \in Users, Create(u) PROVE TriggerInv'
    BY <2>2, CreateKeeps
  <2>3. ASSUME UNCHANGED <<jobs, step, at, stamp, triggered>>, minute' \in Minutes
        PROVE  TriggerInv'
    BY <2>3 DEF TriggerInv, TriggerTypes, Progress, ListedAsMade, JobFor
  <2>4. ASSUME NEW i \in Instances, CronJobAppears(i) PROVE TriggerInv'
    BY <2>3, <2>4 DEF CronJobAppears, TriggerInv, TriggerTypes
  <2>5. CASE MinutePasses
    BY <2>3, <2>5 DEF MinutePasses, TriggerInv, TriggerTypes, Minutes, TriggerSetting
  <2>6. CASE UNCHANGED triggerVars
    BY <2>3, <2>6 DEF triggerVars, TriggerInv, TriggerTypes
  <2>. QED BY <2>1, <2>2, <2>4, <2>5, <2>6 DEF TriggerNext
<1>3. TriggerInv => ListedAsMade
  BY DEF TriggerInv
<1>. QED BY <1>1, <1>2, <1>3, PTL DEF TriggerSpec
=============================================================================
