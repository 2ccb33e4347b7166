--------------------------- MODULE RunnerLifecycle ---------------------------
(***************************************************************************)
(* The process around the calls: gprunner.New and what it gives back when  *)
(* a step of it fails, the gRPC server, and the bounded shutdown of        *)
(* cmd/main.go.  The calls are those of ChartRegistry, whose Next this     *)
(* module completes.                                                       *)
(***************************************************************************)
EXTENDS ChartRegistry

VARIABLES
  main,       \* control point of the goroutine of cmd/main.go
  server,     \* the gRPC server: accepts calls only while it is "up"
  signalled,  \* SIGINT or SIGTERM has come
  cut         \* the calls whose end main has given up waiting for

mainVars == <<main, server, signalled, cut>>
vars == <<registryVars, open, mainVars>>

Resources == {"store", "forwarder", "starmap", "listener"}

NewPoints == {"openStore", "reclaim", "network", "probe", "forward", "repair"}
StartPoints == NewPoints \cup {"dial", "listen"}
ClosePoints == {"closing", "exiting"}
MainPoints == {"down", "undoing"} \cup StartPoints \cup {"serving", "draining"} \cup ClosePoints

TypeOK ==
  /\ RegistryTypeOK
  /\ open \subseteq Resources
  /\ main \in MainPoints
  /\ server \in {"none", "up", "draining", "stopped"}
  /\ signalled \in BOOLEAN
  /\ cut \subseteq Calls
  /\ main \in {"down", "undoing"} \cup StartPoints => server = "none"

-----------------------------------------------------------------------------
(* gprunner.New.  Its caller gets no runner when it fails, so each failing  *)
(* step has to give back what the steps before it have opened.             *)

\* Runner.Close closes the forwarder, then the store: a step for each.
CloseNext ==
  /\ open' = open \ (IF "forwarder" \in open THEN {"forwarder"} ELSE {"store"})
  /\ open' # open
  /\ UNCHANGED <<registryVars, mainVars>>

RunnerClosed == open \cap {"forwarder", "store"} = {}

\* The process is started; the environment and the directories are looked at
\* with the first step of New.
Launch ==
  /\ main = "down"
  /\ main' = "openStore"
  /\ signalled' = FALSE
  /\ UNCHANGED <<registryVars, open, server, cut>>

\* persistence.Open closes what it has opened when it fails.
OpenStoreFails ==
  /\ main = "openStore"
  /\ main' = "exiting"
  /\ UNCHANGED <<registryVars, open, server, signalled, cut>>

\* The four steps after it: s.Close.
StepFails ==
  /\ main \in {"reclaim", "network", "probe", "forward"}
  /\ main' = "exiting"
  /\ open' = open \ {"store"}
  /\ UNCHANGED <<registryVars, server, signalled, cut>>

\* Mutant of RepairFails: s.Close, as at every other step that fails.
RepairFailsAlike ==
  /\ main = "repair"
  /\ main' = "exiting"
  /\ open' = open \ {"store"}
  /\ UNCHANGED <<registryVars, server, signalled, cut>>

\* Reconcile fails before it has changed anything; the forwarder listens already,
\* hence rn.Close.
RepairFails ==
  /\ main = "repair"
  /\ main' = "undoing"
  /\ UNCHANGED <<registryVars, open, server, signalled, cut>>

\* That Close is New's own and has no bound.
Undo ==
  /\ main = "undoing"
  /\ \/ CloseNext
     \/ /\ RunnerClosed /\ main' = "exiting"
        /\ UNCHANGED <<registryVars, open, server, signalled, cut>>

NewFails == OpenStoreFails \/ StepFails \/ RepairFails \/ Undo

\* One step of New, which leaves the machines and the calls alone.
Step(point, next, gained) ==
  /\ main = point
  /\ main' = next
  /\ open' = open \cup gained
  /\ UNCHANGED <<registryVars, server, signalled, cut>>

\* Reconcile: a machine it cannot remove is logged and left.
Repair ==
  /\ main = "repair"
  /\ main' = "dial"
  /\ \E ms \in SUBSET Layers : Remove(ms)
  /\ UNCHANGED <<saved, callVars, open, server, signalled, cut>>

OpenStore == Step("openStore", "reclaim", {"store"})
Reclaim == Step("reclaim", "network", {})
EnsureBrokerNetwork == Step("network", "probe", {})
Probe == Step("probe", "forward", {})
StartForwarder == Step("forward", "repair", {"forwarder"})

New == OpenStore \/ Reclaim \/ EnsureBrokerNetwork \/ Probe \/ StartForwarder \/ Repair \/ NewFails

-----------------------------------------------------------------------------
(* run of cmd/main.go.                                                     *)

\* The deferred calls: sm.Close, then closeWithin.
Leave(gone) ==
  /\ main' = "closing"
  /\ open' = open \ ({"starmap"} \cup gone)

Dial == Step("dial", "listen", {"starmap"})

DialOrListenFails ==
  /\ main \in {"dial", "listen"}
  /\ Leave({})
  /\ UNCHANGED <<registryVars, server, signalled, cut>>

Listen ==
  /\ main = "listen"
  /\ main' = "serving"
  /\ open' = open \cup {"listener"}
  /\ server' = "up"
  /\ UNCHANGED <<registryVars, signalled, cut>>

\* Serve returns an error: the listener is closed, but the connections it has
\* accepted are still served, and nobody stops the server.
ServeFails ==
  /\ main = "serving"
  /\ Leave({"listener"})
  /\ cut' = Calls
  /\ UNCHANGED <<registryVars, server, signalled>>

\* ctx.Done: calls are accepted until the other goroutine gets to GracefulStop.
Told ==
  /\ main = "serving" /\ signalled
  /\ main' = "draining"
  /\ UNCHANGED <<registryVars, open, server, signalled, cut>>

GracefulStop ==
  /\ main = "draining" /\ server = "up"
  /\ server' = "draining"
  /\ open' = open \ {"listener"}
  /\ UNCHANGED <<registryVars, main, signalled, cut>>

\* Mutant of Drained: main goes on as soon as GracefulStop was called.
DrainedAtOnce ==
  /\ main = "draining" /\ server = "draining"
  /\ server' = "stopped"
  /\ Leave({})
  /\ UNCHANGED <<registryVars, signalled, cut>>

Drained ==
  /\ main = "draining" /\ server = "draining"
  /\ InFlight = {}
  /\ server' = "stopped"
  /\ Leave({})
  /\ UNCHANGED <<registryVars, signalled, cut>>

\* Mutant of ForceStop: shutdown waits for the calls without a bound.
ForceStopLate ==
  /\ main = "draining" /\ server = "draining" /\ InFlight = {}
  /\ server' = "stopped"
  /\ Leave({"listener"})
  /\ cut' = InFlight
  /\ UNCHANGED <<registryVars, signalled>>

\* shutdownTimeout: Stop cuts the calls off but does not wait for them.
ForceStop ==
  /\ main = "draining"
  /\ server' = "stopped"
  /\ Leave({"listener"})
  /\ cut' = InFlight
  /\ UNCHANGED <<registryVars, signalled>>

\* The goroutine of closeWithin.  Nothing says when it gets to it.
Close == main \in ClosePoints /\ CloseNext

Closed ==
  /\ main = "closing" /\ RunnerClosed
  /\ main' = "exiting"
  /\ UNCHANGED <<registryVars, open, server, signalled, cut>>

CloseTimesOut ==
  /\ main = "closing"
  /\ main' = "exiting"
  /\ UNCHANGED <<registryVars, open, server, signalled, cut>>

\* What is left of a process that is gone: the charts table and the machines.
Gone ==
  /\ main' = "down"
  /\ server' = "none"
  /\ signalled' = FALSE
  /\ cut' = {}
  /\ open' = {}
  /\ at' = [k \in Calls |-> "OK"]
  /\ req' = [k \in Calls |-> NoReq]
  /\ copy' = [k \in Calls |-> NoCopy]
  /\ todo' = [k \in Calls |-> {}]
  /\ UNCHANGED <<saved, machineVars>>

Exit == main = "exiting" /\ Gone

-----------------------------------------------------------------------------
(* The environment.                                                        *)

Signal ==
  /\ main # "down" /\ ~signalled
  /\ signalled' = TRUE
  /\ UNCHANGED <<registryVars, open, main, server, cut>>

\* The process is killed, by a second Ctrl-C for one.
Die == main # "down" /\ Gone

Call(k) ==
  /\ CallStep(k) \/ (server = "up" /\ Begin(k))
  /\ UNCHANGED <<open, mainVars>>

-----------------------------------------------------------------------------
Init ==
  /\ RegistryInit
  /\ open = {}
  /\ main = "down"
  /\ server = "none"
  /\ signalled = FALSE
  /\ cut = {}

MainStep ==
  \/ New \/ Dial \/ DialOrListenFails \/ Listen
  \/ Told \/ GracefulStop \/ Drained \/ ForceStop
  \/ Closed \/ CloseTimesOut \/ Exit

Next ==
  \/ \E k \in Calls : Call(k)
  \/ \E m \in Layers : Guest(m) /\ UNCHANGED <<open, mainVars>>
  \/ MainStep \/ Launch \/ ServeFails \/ Close \/ Signal \/ Die

Spec == Init /\ [][Next]_vars

-----------------------------------------------------------------------------
(* Properties.                                                             *)

\* No call but k starts the chart, and at most one call does.
StartsAlone(k, i) == \A l \in Calls \ {k} : i \notin Starts[l]
SoleStarter(i) == \A k, l \in Calls : i \in Starts[k] \cap Starts[l] => k = l

\* The machines a chart has come from one copy of it, however often it is
\* pulled again, whatever start, kill or process was cut short in between:
\* a start works on the body it loaded, over a cleared chart (InstantiateChart,
\* clearStaleMachines).  Two calls that start one chart at a time would boot
\* layers of two copies: it is about the charts one call at most starts.
OneCopyRuns ==
  \A m, n \in Layers :
    Owner[m] = Owner[n] /\ SoleStarter(Owner[m]) /\ from[m] # NoCopy /\ from[n] # NoCopy
      => from[m] = from[n]

\* A kill that says OK, with nobody else to start the chart, has left nothing of
\* it: it goes by the chart's ID, so the layers of a copy that was replaced since
\* are gone too (KillChart, chartMachines).
KillTakesAll ==
  [][\A k \in Calls :
       at[k] = "stopped" /\ at'[k] = "OK" /\ StartsAlone(k, IdOf[copy[k]])
         => \A m \in Layers : Owner[m] = IdOf[copy[k]] => from'[m] = NoCopy]_vars

\* "Pull fetches the chart from starmap and saves it, replacing any earlier copy"
\* (server.go:29): when a pull says OK, the saved copy of some chart is one that
\* starmap serves under the reference.
PulledIsSaved ==
  [][\A k \in Calls :
       at[k] \in {"fetch", "save"} /\ req[k].op = "pull" /\ at'[k] = "OK" /\ main' # "down"
         => \E c \in Serves[req[k].ref] : saved'[IdOf[c]] = c]_vars

\* A start that pulls goes on with the chart it was given, whichever version that
\* has, when it bears the name that was asked for and its row is, when it is looked
\* up, the one that bears its reference (Server.Instantiate: ref.SchemaVersion =
\* chart.SchemaVersion; GetChartByRef).  With another name, or another such row,
\* the start may end in NotFound or take the other row's chart.
PulledIsStarted ==
  [][\A k \in Calls :
       /\ at[k] = "load" /\ req[k].op = "pullAndStart" /\ copy[k] # NoCopy
       /\ Matching(RefOf[copy[k]]) = {copy[k]}
       /\ RefOf[copy[k]].name = req[k].ref.name
       => /\ at'[k] # "NotFound"
          /\ at'[k] = "clear" => copy'[k] = copy[k]]_vars

\* No name stops a chart that is half up but that of an undeclared soft link: those
\* of hard links and of events were checked with the whole chart, before its first
\* layer (resolveLinks against dataSourceMounts and resolveEventLinks).  It is about
\* names: a file or a volume that has gone since makes `kraft run' fail.
OnlySoftLinksAreRefused ==
  \A k \in Calls : at[k] = "boot" =>
    \A m \in todo[k] : Undeclared(Body[copy[k]], Layer(k, m)) \subseteq Layer(k, m).soft

\* "the gRPC server must be stopped before the runner it calls into goes away"
\* (main.go:80), as far as it is true: once main has closed the store, only calls
\* it gave up on can meet it, those in flight at a forced stop and all of them
\* when Serve failed, since nobody stops the server then (run, GracefulStop).
OnlyCutCallsMeetAClosedStore ==
  ~StoreOpen => InFlight \subseteq cut

\* "every path out of here closes the runner, so a failed start still checkpoints
\* the write-ahead log" (main.go:78): the process leaves nothing open, whichever
\* step of the start failed, each with a clean-up of its own, and whether or not the
\* server has run, unless Close itself ran out of time (New, run, closeWithin).
ExitCloses ==
  [][main # "exiting" /\ main' = "exiting" => open' = {} \/ CloseTimesOut]_vars

-----------------------------------------------------------------------------
(* What is known at each control point, which makes the invariants above    *)
(* inductive.  Where nobody else starts its chart, what a call has cleared  *)
(* stays clear but for the layers it boots itself.                          *)

StartPath == {"clear", "resolve", "boot", "abort"}

CallsKnow ==
  \A k \in Calls :
    /\ at[k] \in {"fetch", "save"} => req[k].op \in {"pull", "pullAndStart"}
    /\ at[k] = "load" => req[k].op # "pull"
    /\ at[k] = "load" /\ req[k].op = "pullAndStart" /\ copy[k] # NoCopy
         => req[k].ref.version = RefOf[copy[k]].version

\* A call starts none but the charts it is asked to, whatever starmap answers.
StartsKnow ==
  \A k \in Calls :
    /\ at[k] = "fetch" /\ req[k].op = "pullAndStart" => Named(req[k]) \subseteq Starts[k]
    /\ at[k] = "save" /\ req[k].op = "pullAndStart"
         => Bearing(Bound(req[k].ref, copy[k])) \subseteq Starts[k]
    /\ at[k] = "load" /\ req[k].op \in {"start", "pullAndStart"}
         => Bearing(req[k].ref) \subseteq Starts[k]
    /\ at[k] \in StartPath => IdOf[copy[k]] \in Starts[k]

MachinesKnow ==
  /\ \A m \in Layers : from[m] # NoCopy => m \in LayersOf(from[m])
  /\ \A k \in Calls : at[k] \in Working /\ StartsAlone(k, IdOf[copy[k]]) =>
       /\ at[k] \in {"resolve", "stopped"} => Own(k) = {}
       /\ at[k] \in {"boot", "abort"} => \A m \in Own(k) : from[m] = copy[k]

MainKnows ==
  /\ main \in {"down", "undoing"} \cup StartPoints => InFlight = {}
  /\ main = "serving" => server = "up"
  /\ main = "draining" => server \in {"up", "draining"}
  /\ main \in ClosePoints => InFlight \subseteq cut
  /\ main \in ClosePoints /\ server = "up" => cut = Calls

\* What the process holds open, so that each clean-up has to give back that much.
MainHolds ==
  /\ main \in {"down", "openStore"} => open = {}
  /\ main \in {"reclaim", "network", "probe", "forward"} => open = {"store"}
  /\ main \in {"repair", "dial"} => open = {"store", "forwarder"}
  /\ main = "listen" => open = {"store", "forwarder", "starmap"}
  /\ main \in {"serving", "draining"} => {"store", "forwarder", "starmap"} \subseteq open
  /\ main = "draining" /\ server = "draining" => "listener" \notin open
  /\ main \in {"undoing"} \cup ClosePoints => open \subseteq {"store", "forwarder"}

IInv ==
  /\ CallsKnow
  /\ StartsKnow
  /\ MachinesKnow
  /\ MainKnows
  /\ MainHolds
  /\ OneCopyRuns
  /\ OnlySoftLinksAreRefused

-----------------------------------------------------------------------------
(* Liveness.  main's own steps, the Close of a New that fails among them,   *)
(* and its timers; neither the calls, nor the guests they may wait for, nor *)
(* the goroutine of closeWithin are fair.                                   *)

FairSpec == Spec /\ WF_vars(MainStep)

\* A signal ends the process, also during a start, with calls that never return
\* and a Close that hangs (run, closeWithin).
ShutdownEnds == signalled ~> main = "down"
=============================================================================
