---------------------------- MODULE ChartRegistry ----------------------------
(***************************************************************************)
(* The calls of the service (cmd/server) and the charts they work on: Pull *)
(* saves a copy of a chart under its ID, Instantiate and Kill find it      *)
(* again by its reference.  Starmap may hand out another copy at any time, *)
(* so the copy on disk, the copy a call works on and the copy the machines *)
(* were booted from can all differ.                                        *)
(*                                                                         *)
(* What Orchestrator does between two commands is one step here: machines  *)
(* are told apart by the copy they come from.  Any command, statement or   *)
(* remote call may fail, also because its ctx is done.  The process around *)
(* the calls is RunnerLifecycle; `open' is what it holds.                  *)
(***************************************************************************)
EXTENDS LayerLinks, Naturals

CONSTANTS
  Ids,       \* chart IDs
  Names,     \* what a reference says: name, namespace and maintainer,
  Versions,  \* and a schema version
  Unversioned,  \* the empty version
  Layers,    \* machine names
  Owner,     \* the chart ID a machine's name begins with
  Copies,    \* chart bodies starmap may hand out
  IdOf, RefOf, Body,
  Serves,    \* the copies starmap may answer a reference with
  NoCopy,
  Calls,
  Starts     \* the charts each call may be asked to start

\* Nothing makes references unique: several charts may bear one.
Refs == [name : Names, version : Versions]

LayersOf(c) == DOMAIN Body[c].layers

ASSUME RegistryAssumption ==
  /\ Owner \in [Layers -> Ids]
  /\ IdOf \in [Copies -> Ids]
  /\ RefOf \in [Copies -> Refs]
  /\ Serves \in [Refs -> SUBSET Copies]
  /\ \A c \in Copies : LayersOf(c) \subseteq {m \in Layers : Owner[m] = IdOf[c]}
  /\ NoCopy \notin Copies
  /\ Names # {} /\ Unversioned \in Versions
  /\ Starts \in [Calls -> SUBSET Ids]

VARIABLES
  saved,   \* the charts table, durable: the copy saved under each ID
  from,    \* the copy each machine was booted from, NoCopy if there is none
  up,      \* the machines whose guest runs
  at,      \* control point of each call
  req,     \* what it was asked for
  copy,    \* the chart it works on
  todo,    \* the layers it has yet to boot
  open     \* what the process holds open

callVars == <<at, req, copy, todo>>
machineVars == <<from, up>>
registryVars == <<saved, from, up, at, req, copy, todo>>

Ops == {"pull", "start", "pullAndStart", "kill"}
Requests == [op : Ops, ref : Refs]

\* the request of a call that has none
NoReq == CHOOSE r \in Requests : r.op = "pull"

\* toStatus, with everything but the two cases callers tell apart as "Failed"
Codes == {"OK", "NotFound", "AlreadyExists", "Failed"}
Points == {"fetch", "save", "load", "clear", "resolve", "boot", "abort",
           "stopping", "teardown", "stopped"}
Working == {"save", "clear", "resolve", "boot", "abort", "stopping", "teardown", "stopped"}

Maybe == Copies \cup {NoCopy}

RegistryTypeOK ==
  /\ saved \in [Ids -> Maybe]
  /\ \A i \in Ids : saved[i] \in Copies => IdOf[saved[i]] = i
  /\ from \in [Layers -> Maybe]
  /\ up \subseteq {m \in Layers : from[m] # NoCopy}
  /\ at \in [Calls -> Codes \cup Points]
  /\ req \in [Calls -> Requests]
  /\ copy \in [Calls -> Maybe]
  /\ \A k \in Calls : at[k] \in Working => copy[k] \in Copies
  /\ todo \in [Calls -> SUBSET Layers]
  /\ \A k \in Calls : at[k] = "boot" => todo[k] \subseteq LayersOf(copy[k])

StoreOpen == "store" \in open

InFlight == {k \in Calls : at[k] \in Points}

\* chartMachines: machines under the ID's prefix, whichever copy they come from
Machines(i) == {m \in Layers : Owner[m] = i /\ from[m] # NoCopy}

\* the machines a call's chart has, by its ID
Own(k) == Machines(IdOf[copy[k]])

Remove(ms) ==
  /\ from' = [m \in Layers |-> IF m \in ms THEN NoCopy ELSE from[m]]
  /\ up' = up \ ms

Answer(k, code) ==
  /\ at' = [at EXCEPT ![k] = code]
  /\ copy' = [copy EXCEPT ![k] = NoCopy]
  /\ todo' = [todo EXCEPT ![k] = {}]
  /\ req' = [req EXCEPT ![k] = NoReq]

GoTo(k, point) ==
  /\ at' = [at EXCEPT ![k] = point]
  /\ UNCHANGED <<req, copy, todo>>

\* The request is of no more use once its chart is found.
WorkOn(k, c, point) ==
  /\ at' = [at EXCEPT ![k] = point]
  /\ copy' = [copy EXCEPT ![k] = c]
  /\ req' = [req EXCEPT ![k] = NoReq]
  /\ UNCHANGED todo

-----------------------------------------------------------------------------
(* The handlers of cmd/server.                                             *)

\* A start that has pulled goes on with the version it was given, which need not
\* be the one it named: ref.SchemaVersion = chart.SchemaVersion.
WithVersion(ref, version) == [ref EXCEPT !.version = version]
Bound(ref, c) == WithVersion(ref, RefOf[c].version)

\* The references a start may look its chart up by, and the charts that bear one.
LookedUp(r) ==
  IF r.op = "start" THEN {r.ref}
  ELSE {WithVersion(r.ref, Unversioned)} \cup {Bound(r.ref, c) : c \in Serves[r.ref]}
Bearing(ref) == {IdOf[c] : c \in {d \in Copies : RefOf[d] = ref}}
Named(r) == UNION {Bearing(ref) : ref \in LookedUp(r)}

\* A call arrives; toRef refuses a reference with an empty field.  Nothing in the
\* code keeps two calls from starting one chart: Starts is what callers do.
Begin(k) ==
  /\ k \notin InFlight
  /\ \E r \in Requests :
       /\ r.ref.version # Unversioned
       /\ r.op \in {"start", "pullAndStart"} => Named(r) \subseteq Starts[k]
       /\ req' = [req EXCEPT ![k] = r]
       /\ at' = [at EXCEPT ![k] = IF r.op \in {"pull", "pullAndStart"} THEN "fetch" ELSE "load"]
  /\ UNCHANGED <<saved, from, up, copy, todo>>

Given(k, c) ==
  /\ at' = [at EXCEPT ![k] = "save"]
  /\ copy' = [copy EXCEPT ![k] = c]
  /\ UNCHANGED <<req, todo>>

\* A start that has pulled copy c goes on to look its chart up.
LookUp(k, c, ref) ==
  /\ at' = [at EXCEPT ![k] = "load"]
  /\ copy' = [copy EXCEPT ![k] = c]
  /\ req' = [req EXCEPT ![k] = [op |-> req[k].op, ref |-> ref]]
  /\ UNCHANGED todo

\* pull, when GetChart refuses a chart without an ID: that error wraps none, and
\* the status of no error is OK, so pull returns an empty chart and no error.
\* A start goes on with the empty chart's version, which some saved chart may have.
FetchedNothing(k) ==
  \/ req[k].op = "pull" /\ Answer(k, "OK")
  \/ req[k].op # "pull" /\ LookUp(k, NoCopy, WithVersion(req[k].ref, Unversioned))

\* Client.GetChart.  Starmap's own code is passed on.
Fetch(k) ==
  /\ at[k] = "fetch"
  /\ UNCHANGED <<saved, machineVars>>
  /\ \/ /\ "starmap" \in open
        /\ FetchedNothing(k) \/ \E c \in Serves[req[k].ref] : Given(k, c)
     \/ \E code \in {"NotFound", "Failed"} : Answer(k, code)

\* Mutant of Saved: the start goes on with the reference it was called with.
SavedAsAsked(k) ==
  \/ req[k].op = "pull" /\ Answer(k, "OK")
  \/ req[k].op # "pull" /\ GoTo(k, "load")

\* The name stays what the caller asked for, whatever the chart it was given says.
Saved(k) ==
  \/ req[k].op = "pull" /\ Answer(k, "OK")
  \/ req[k].op # "pull" /\ LookUp(k, copy[k], Bound(req[k].ref, copy[k]))

\* Store.SaveChart.  A statement that fails may have been committed.
Save(k) ==
  /\ at[k] = "save"
  /\ UNCHANGED machineVars
  /\ \/ /\ StoreOpen
        /\ saved' = [saved EXCEPT ![IdOf[copy[k]]] = copy[k]]
        /\ Saved(k) \/ Answer(k, "Failed")
     \/ UNCHANGED saved /\ Answer(k, "Failed")

\* Store.GetChartByRef: rows whose saved copy bears the reference, of which the
\* query takes any
Matching(ref) == {c \in Copies : saved[IdOf[c]] = c /\ RefOf[c] = ref}

\* Runner.loadChart
Load(k) ==
  /\ at[k] = "load"
  /\ UNCHANGED <<saved, machineVars>>
  /\ \/ /\ StoreOpen
        /\ \E c \in Matching(req[k].ref) :
             WorkOn(k, c, IF req[k].op = "kill" THEN "stopping" ELSE "clear")
     \/ StoreOpen /\ Matching(req[k].ref) = {} /\ Answer(k, "NotFound")
     \/ Answer(k, "Failed")

-----------------------------------------------------------------------------
(* InstantiateChart.                                                       *)

\* Mutant of Clear: machines that are not up are left where they are.
ClearOnlyLooks(k) ==
  /\ at[k] = "clear"
  /\ UNCHANGED saved
  /\ \/ Own(k) \cap up # {} /\ Answer(k, "AlreadyExists") /\ UNCHANGED machineVars
     \/ Own(k) \cap up = {} /\ GoTo(k, "resolve") /\ UNCHANGED machineVars
     \/ Answer(k, "Failed") /\ UNCHANGED machineVars

\* Mutant of Clear: only the layers of the copy at hand are looked at.
ClearByCopy(k) ==
  /\ at[k] = "clear"
  /\ UNCHANGED saved
  /\ LET own == Own(k) \cap LayersOf(copy[k])
     IN  \/ own \cap up # {} /\ Answer(k, "AlreadyExists") /\ UNCHANGED machineVars
         \/ own \cap up = {} /\ Remove(own) /\ GoTo(k, "resolve")
         \/ Answer(k, "Failed") /\ UNCHANGED machineVars

\* clearStaleMachines
Clear(k) ==
  /\ at[k] = "clear"
  /\ UNCHANGED saved
  /\ \/ Own(k) \cap up # {} /\ Answer(k, "AlreadyExists") /\ UNCHANGED machineVars
     \/ Own(k) \cap up = {} /\ Remove(Own(k)) /\ GoTo(k, "resolve")
     \/ /\ \E ms \in SUBSET Own(k) : (ms \cap up = {}) /\ Remove(ms)
        /\ Answer(k, "Failed")

\* Mutant of BootList: every layer the chart ever had.
BootListOfId(k) == {m \in Layers : Owner[m] = IdOf[copy[k]]}

BootList(k) == LayersOf(copy[k])

\* ResolveLayers, which may refuse any chart for its images, and the row that
\* declares the start.
Resolve(k) ==
  /\ at[k] = "resolve"
  /\ UNCHANGED <<saved, machineVars>>
  /\ \/ /\ StoreOpen /\ ChartVetted(Body[copy[k]])
        /\ at' = [at EXCEPT ![k] = "boot"]
        /\ todo' = [todo EXCEPT ![k] = BootList(k)]
        /\ UNCHANGED <<req, copy>>
     \/ Answer(k, "Failed")

Layer(k, m) == Body[copy[k]].layers[m]

\* Procedures, then triggers, then events.
Bootable(k) == {m \in todo[k] : \A n \in todo[k] : Layer(k, m).stage <= Layer(k, n).stage}

\* BuildArgs refuses to name a link the chart does not declare.
LinksRefused(k, m) == Undeclared(Body[copy[k]], Layer(k, m)) # {}

\* entering abortStart
Abort(k) ==
  /\ at' = [at EXCEPT ![k] = "abort"]
  /\ todo' = [todo EXCEPT ![k] = {}]
  /\ UNCHANGED <<req, copy>>

\* RunLayer.  A `kraft run' that fails may leave its machine behind; it fails
\* when the name is taken, or when a path it is to mount has gone since it was
\* looked at.
BootLayer(k) ==
  /\ at[k] = "boot"
  /\ UNCHANGED saved
  /\ \E m \in Bootable(k) :
       \/ Abort(k) /\ UNCHANGED machineVars
       \/ /\ from[m] = NoCopy /\ ~LinksRefused(k, m)
          /\ from' = [from EXCEPT ![m] = copy[k]]
          /\ \/ /\ up' = up \cup {m}
                /\ todo' = [todo EXCEPT ![k] = todo[k] \ {m}]
                /\ UNCHANGED <<at, req, copy>>
             \/ UNCHANGED up /\ Abort(k)

MarkStarted(k) ==
  /\ at[k] = "boot" /\ todo[k] = {}
  /\ UNCHANGED <<saved, machineVars>>
  /\ \/ StoreOpen /\ Answer(k, "OK")
     \/ Answer(k, "Failed")

\* abortStart: without the row it takes nothing down.
AbortStart(k) ==
  /\ at[k] = "abort"
  /\ UNCHANGED saved
  /\ \E ms \in SUBSET Own(k) : (ms # {} => StoreOpen) /\ Remove(ms)
  /\ Answer(k, "Failed")

-----------------------------------------------------------------------------
(* KillChart.                                                              *)

MarkStopping(k) ==
  /\ at[k] = "stopping"
  /\ UNCHANGED <<saved, machineVars>>
  /\ \/ StoreOpen /\ GoTo(k, "teardown")
     \/ Answer(k, "Failed")

\* Mutant of Teardown: the layers of the saved copy are taken down.
TeardownByCopy(k) ==
  /\ at[k] = "teardown"
  /\ UNCHANGED saved
  /\ \/ Remove(Own(k) \cap LayersOf(copy[k])) /\ GoTo(k, "stopped")
     \/ Answer(k, "Failed") /\ UNCHANGED machineVars

\* teardownChart, by the prefix of the chart's ID
Teardown(k) ==
  /\ at[k] = "teardown"
  /\ UNCHANGED saved
  /\ \/ Remove(Own(k)) /\ GoTo(k, "stopped")
     \/ (\E ms \in SUBSET Own(k) : Remove(ms)) /\ Answer(k, "Failed")

MarkStopped(k) ==
  /\ at[k] = "stopped"
  /\ UNCHANGED <<saved, machineVars>>
  /\ \/ StoreOpen /\ Answer(k, "OK")
     \/ Answer(k, "Failed")

CallStep(k) ==
  \/ Fetch(k) \/ Save(k) \/ Load(k)
  \/ Clear(k) \/ Resolve(k) \/ BootLayer(k) \/ MarkStarted(k) \/ AbortStart(k)
  \/ MarkStopping(k) \/ Teardown(k) \/ MarkStopped(k)

\* Guests end by themselves, and kraft forgets those booted with --rm.
Guest(m) ==
  /\ \/ m \in up /\ up' = up \ {m} /\ UNCHANGED from
     \/ m \notin up /\ from[m] # NoCopy /\ Remove({m})
  /\ UNCHANGED <<saved, callVars>>

RegistryInit ==
  /\ saved = [i \in Ids |-> NoCopy]
  /\ from = [m \in Layers |-> NoCopy]
  /\ up = {}
  /\ at = [k \in Calls |-> "OK"]
  /\ req = [k \in Calls |-> NoReq]
  /\ copy = [k \in Calls |-> NoCopy]
  /\ todo = [k \in Calls |-> {}]
=============================================================================
