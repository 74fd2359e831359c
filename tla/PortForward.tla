----------------------------- MODULE PortForward -----------------------------
(***************************************************************************)
(* kubectl redroid instance port-forward, adb and shell, run side by side  *)
(* on one machine with one local port, which client-go binds on each       *)
(* address of "localhost" on its own.  A run of the plugin is a process    *)
(* with up to three goroutines: the command itself, the tunnel, which      *)
(* client-go serves in ForwardPorts, and, for adb and shell, one that      *)
(* waits for the tunnel's error.  They talk over a channel that the tunnel *)
(* closes when it is ready, a channel that closes to stop it, and a        *)
(* channel of one slot for its error.                                      *)
(***************************************************************************)
EXTENDS Naturals

CONSTANTS
  Sessions,      \* runs of the plugin
  Interactive,   \* those of "port-forward"; the others run adb
  Nobody         \* no session listens on an address

ASSUME PortForwardAssumption == Interactive \subseteq Sessions /\ Nobody \notin Sessions

VARIABLES
  main,          \* where the command is
  tunnel,        \* where the tunnel is
  collecting,    \* runs whose third goroutine waits for the error
  ready, stop,   \* runs whose channel is closed
  errCh,         \* its slot
  caught,        \* runs with a signal in the channel that os/signal feeds
  listener,      \* who listens on the local port, on each address
  broken,        \* runs whose connection to the cluster has closed
  asked,         \* runs whose user has pressed Ctrl-C
  told,          \* runs whose user has been told of an error
  outcome        \* how the command ended

portVars == <<main, tunnel, collecting, ready, stop, errCh, caught, listener, broken,
              asked, told, outcome>>

\* What "localhost" stands for.
Addresses == {"127.0.0.1", "::1"}

\* What ForwardPorts returns; "stopped" is nil.
Endings == {"refused", "taken", "lost", "stopped"}
Empty == "empty"
IsError(e) == e # "stopped"

PortTypeOK ==
  /\ main \in [Sessions -> {"lookup", "setup", "wait", "notify", "armed", "select",
                            "connect", "adb", "return", "over"}]
  /\ tunnel \in [Sessions -> {"none", "dial", "bind4", "bind6", "serve", "gone"} \cup Endings]
  /\ errCh \in [Sessions -> {Empty} \cup Endings]
  /\ \A group \in {collecting, ready, stop, caught, broken, asked, told} :
       group \subseteq Sessions
  /\ listener \in [Addresses -> Sessions \cup {Nobody}]
  /\ outcome \in [Sessions -> {"none", "ok", "error", "killed"}]

PortInit ==
  LET all(x) == [s \in Sessions |-> x]
  IN /\ main = all("lookup") /\ tunnel = all("none") /\ errCh = all(Empty)
     /\ collecting = {} /\ ready = {} /\ stop = {} /\ caught = {}
     /\ listener = [a \in Addresses |-> Nobody] /\ broken = {}
     /\ asked = {} /\ told = {} /\ outcome = all("none")

-----------------------------------------------------------------------------
(* The command *)

Goes(s, p) == main' = [main EXCEPT ![s] = p]

Returns(s, o) ==
  /\ Goes(s, "return")
  /\ outcome' = [outcome EXCEPT ![s] = o]
  /\ told' = IF o = "error" THEN told \cup {s} ELSE told

Quietly == UNCHANGED <<outcome, told>>
ChannelsStay == UNCHANGED <<ready, stop, errCh, caught>>
OutsideStays == UNCHANGED <<listener, broken, asked>>

\* The instance is got; it must have a phase.
Lookup(s) ==
  /\ main[s] = "lookup"
  /\ \/ Returns(s, "error")
     \/ Goes(s, "setup") /\ Quietly
  /\ UNCHANGED <<tunnel, collecting>> /\ ChannelsStay /\ OutsideStays

Setup(s) ==
  /\ main[s] = "setup"
  /\ \/ Returns(s, "error") /\ UNCHANGED tunnel
     \/ Goes(s, "wait") /\ Quietly /\ tunnel' = [tunnel EXCEPT ![s] = "dial"]
  /\ UNCHANGED collecting /\ ChannelsStay /\ OutsideStays

ReadyForUser(s) ==
  /\ main[s] = "wait" /\ s \in Interactive /\ s \in ready
  /\ Goes(s, "notify") /\ Quietly
  /\ UNCHANGED <<tunnel, collecting>> /\ ChannelsStay /\ OutsideStays

\* Mutant: the error is left to the channel.
ReadyUncollected(s) ==
  /\ main[s] = "wait" /\ s \notin Interactive /\ s \in ready
  /\ Goes(s, "connect") /\ Quietly
  /\ UNCHANGED <<tunnel, collecting>> /\ ChannelsStay /\ OutsideStays

\* Mutant: the caller goes on before the tunnel is ready.
ReadyTooEarly(s) ==
  /\ main[s] = "wait" /\ s \notin Interactive
  /\ Goes(s, "connect") /\ Quietly
  /\ collecting' = collecting \cup {s}
  /\ UNCHANGED tunnel /\ ChannelsStay /\ OutsideStays

ReadyForCaller(s) ==
  /\ main[s] = "wait" /\ s \notin Interactive /\ s \in ready
  /\ Goes(s, "connect") /\ Quietly
  /\ collecting' = collecting \cup {s}
  /\ UNCHANGED tunnel /\ ChannelsStay /\ OutsideStays

\* signal.Notify; the channel has a slot.
Notify(s) ==
  /\ main[s] = "notify" /\ Goes(s, "armed") /\ Quietly
  /\ UNCHANGED <<tunnel, collecting>> /\ ChannelsStay /\ OutsideStays

Block(s) ==
  /\ main[s] = "armed" /\ Goes(s, "select") /\ Quietly
  /\ UNCHANGED <<tunnel, collecting>> /\ ChannelsStay /\ OutsideStays

\* Mutant: the end of the tunnel is taken for the end the user asked for.
TunnelEndedQuietly(s) ==
  /\ main[s] \in {"wait", "select"} /\ errCh[s] # Empty
  /\ Returns(s, IF main[s] = "wait" /\ IsError(errCh[s]) THEN "error" ELSE "ok")
  /\ errCh' = [errCh EXCEPT ![s] = Empty]
  /\ UNCHANGED <<tunnel, collecting, ready, stop, caught>> /\ OutsideStays

\* Either select takes what the tunnel has returned, also when it could take more.
TunnelEnded(s) ==
  /\ main[s] \in {"wait", "select"} /\ errCh[s] # Empty
  /\ Returns(s, IF IsError(errCh[s]) THEN "error" ELSE "ok")
  /\ errCh' = [errCh EXCEPT ![s] = Empty]
  /\ UNCHANGED <<tunnel, collecting, ready, stop, caught>> /\ OutsideStays

Interrupted(s) ==
  /\ main[s] = "select" /\ s \in caught
  /\ caught' = caught \ {s}
  /\ stop' = stop \cup {s}
  /\ Returns(s, "ok")
  /\ UNCHANGED <<tunnel, collecting, ready, errCh>> /\ OutsideStays

\* "adb connect": that it fails is only printed.
Connect(s) ==
  /\ main[s] = "connect" /\ Goes(s, "adb")
  /\ \/ UNCHANGED told
     \/ told' = told \cup {s}
  /\ UNCHANGED <<outcome, tunnel, collecting>> /\ ChannelsStay /\ OutsideStays

\* The adb command ends.  What is closed then is not the channel the tunnel
\* listens to.
AdbEnds(s) ==
  /\ main[s] = "adb" /\ \E o \in {"ok", "error"} : Returns(s, o)
  /\ UNCHANGED <<tunnel, collecting>> /\ ChannelsStay /\ OutsideStays

\* Every address that a run listens on is let go.
LetsGo(s) ==
  listener' = [a \in Addresses |-> IF listener[a] = s THEN Nobody ELSE listener[a]]

\* The process is gone, and its goroutines and sockets with it.
Vanishes(s) ==
  /\ Goes(s, "over")
  /\ tunnel' = [tunnel EXCEPT ![s] = "gone"]
  /\ collecting' = collecting \ {s}
  /\ LetsGo(s)
  /\ ChannelsStay /\ UNCHANGED broken

Exit(s) ==
  /\ main[s] = "return" /\ Vanishes(s) /\ UNCHANGED asked /\ Quietly

-----------------------------------------------------------------------------
(* The tunnel: ForwardPorts, and the send of what it returns *)

TunnelGoes(s, p) ==
  /\ tunnel' = [tunnel EXCEPT ![s] = p]
  /\ UNCHANGED <<main, collecting, stop, caught, broken, asked, told, outcome>>

Dial(s) ==
  /\ tunnel[s] = "dial"
  /\ \E p \in {"bind4", "refused"} : TunnelGoes(s, p)
  /\ UNCHANGED <<ready, errCh, listener>>

\* The port is bound on one address after the other; another program may have it.
Binds(s, a) ==
  \/ listener[a] = Nobody /\ listener' = [listener EXCEPT ![a] = s]
  \/ UNCHANGED listener

Bind4(s) ==
  /\ tunnel[s] = "bind4"
  /\ Binds(s, "127.0.0.1")
  /\ TunnelGoes(s, "bind6")
  /\ UNCHANGED <<ready, errCh>>

ListensOn(s) == {a \in Addresses : listener[a] = s}

\* One address of the two is enough.
Bind6(s) ==
  /\ tunnel[s] = "bind6"
  /\ Binds(s, "::1")
  /\ \/ ListensOn(s)' # {} /\ TunnelGoes(s, "serve") /\ ready' = ready \cup {s}
     \/ ListensOn(s)' = {} /\ TunnelGoes(s, "taken") /\ UNCHANGED ready
  /\ UNCHANGED errCh

Serve(s) ==
  /\ tunnel[s] = "serve"
  /\ \/ s \in stop /\ TunnelGoes(s, "stopped")
     \/ s \in broken /\ TunnelGoes(s, "lost")
  /\ LetsGo(s)
  /\ UNCHANGED <<ready, errCh>>

Send(s) ==
  /\ tunnel[s] \in Endings /\ errCh[s] = Empty
  /\ errCh' = [errCh EXCEPT ![s] = tunnel[s]]
  /\ TunnelGoes(s, "gone")
  /\ UNCHANGED <<ready, listener>>

Collect(s) ==
  /\ s \in collecting /\ errCh[s] # Empty
  /\ collecting' = collecting \ {s}
  /\ told' = IF IsError(errCh[s]) THEN told \cup {s} ELSE told
  /\ errCh' = [errCh EXCEPT ![s] = Empty]
  /\ UNCHANGED <<main, tunnel, ready, stop, caught, outcome>> /\ OutsideStays

-----------------------------------------------------------------------------
(* The user and the cluster *)

\* Mutant: the channel has no slot, so a signal is lost while nobody receives.
PressCtrlCUnbuffered(s) ==
  /\ main[s] \notin {"return", "over"} /\ s \notin asked
  /\ asked' = asked \cup {s}
  /\ IF main[s] \in {"armed", "select"}
     THEN /\ caught' = IF main[s] = "select" THEN caught \cup {s} ELSE caught
          /\ UNCHANGED <<main, tunnel, collecting, ready, stop, errCh, listener, broken>>
          /\ Quietly
     ELSE /\ Vanishes(s)
          /\ outcome' = [outcome EXCEPT ![s] = "killed"] /\ UNCHANGED told

\* Without Notify a signal kills the process.  Once the command has returned, a
\* signal no longer makes a difference.
PressCtrlC(s) ==
  /\ main[s] \notin {"return", "over"} /\ s \notin asked
  /\ asked' = asked \cup {s}
  /\ IF main[s] \in {"armed", "select"}
     THEN /\ caught' = caught \cup {s}
          /\ UNCHANGED <<main, tunnel, collecting, ready, stop, errCh, listener, broken>>
          /\ Quietly
     ELSE /\ Vanishes(s)
          /\ outcome' = [outcome EXCEPT ![s] = "killed"] /\ UNCHANGED told

\* The Pod behind the Service goes, or the network does.
ConnectionCloses(s) ==
  /\ tunnel[s] \in {"bind4", "bind6", "serve"} /\ s \notin broken
  /\ broken' = broken \cup {s}
  /\ UNCHANGED <<main, tunnel, collecting, listener, asked>> /\ ChannelsStay /\ Quietly

Command(s) ==
  \/ Lookup(s) \/ Setup(s) \/ ReadyForUser(s) \/ ReadyForCaller(s)
  \/ Notify(s) \/ Block(s) \/ TunnelEnded(s) \/ Interrupted(s) \/ Exit(s)

Tunnel(s) == Dial(s) \/ Bind4(s) \/ Bind6(s) \/ Serve(s) \/ Send(s)

PortNext ==
  \E s \in Sessions :
    \/ Command(s) \/ Connect(s) \/ AdbEnds(s)
    \/ Tunnel(s) \/ Collect(s)
    \/ PressCtrlC(s) \/ ConnectionCloses(s)

\* Goroutines run.  adb takes as long as it likes; nobody presses Ctrl-C, and no
\* connection closes, of necessity.
PortFairness ==
  \A s \in Sessions :
    WF_portVars(Command(s)) /\ WF_portVars(Tunnel(s)) /\ WF_portVars(Collect(s))

PortSpec == PortInit /\ [][PortNext]_portVars /\ PortFairness

-----------------------------------------------------------------------------
TunnelIsOver(s) == tunnel[s] \in Endings \cup {"gone"}

\* startPortForward returns to runWithADB when the tunnel listens on an address of
\* "localhost" at least, and it listens as long as it lasts: adb finds it there,
\* whatever other runs take and let go.  On the other address adb may find the
\* tunnel of another run: that is what partial binding amounts to.
AdbFindsItsTunnel ==
  \A s \in Sessions :
    main[s] \in {"connect", "adb"} /\ ~TunnelIsOver(s) => ListensOn(s) # {}

\* "port-forward" ends with status 0 only because the user asked it to: a tunnel
\* that breaks while the user is interrupting it may be reported or not, but
\* one that breaks by itself is an error.
EndsWellWhenAsked ==
  \A s \in Interactive : outcome[s] = "ok" => s \in asked

\* A run whose connection has closed ends, or tells the user so: nobody goes on
\* believing in a tunnel that is gone.
LossIsTold ==
  \A s \in Sessions : s \in broken ~> s \in told \/ main[s] = "over"

\* Ctrl-C ends the run, wherever it is: the signal is not lost between Notify and
\* the select, nor when the tunnel ends at the same time.
CtrlCEnds ==
  \A s \in Sessions : s \in asked ~> main[s] = "over"
=============================================================================
