---------------------------- MODULE RunnerProofs ----------------------------
(***************************************************************************)
(* Theorems about RunnerLifecycle, for every set of charts, copies, layers *)
(* and calls: its types, the inductive invariant IInv, and what follows    *)
(* from them.                                                              *)
(***************************************************************************)
EXTENDS RunnerLifecycle, TLAPS

LEMMA NoReqType == NoReq \in Requests /\ NoReq.op = "pull"
<1>1. PICK ref \in Refs : TRUE
  <2>1. PICK name \in Names : TRUE
    BY RegistryAssumption
  <2>2. [name |-> name, version |-> Unversioned] \in Refs
    BY RegistryAssumption DEF Refs
  <2> QED
    BY <2>2
<1>2. [op |-> "pull", ref |-> ref] \in {r \in Requests : r.op = "pull"}
  BY <1>1 DEF Requests, Ops
<1> QED
  BY <1>2 DEF NoReq

\* What a start looks its chart up by is a reference, of the version it was given.
LEMMA BoundRefs ==
  ASSUME NEW ref \in Refs
  PROVE  /\ WithVersion(ref, Unversioned) \in Refs
         /\ \A c \in Copies : Bound(ref, c) \in Refs /\ Bound(ref, c).version = RefOf[c].version
                              /\ Bound(ref, c).name = ref.name
BY RegistryAssumption DEF WithVersion, Bound, Refs

-----------------------------------------------------------------------------
(* Types.                                                                  *)

\* A step of a call keeps the types of calls, machines and the charts table.
LEMMA CallTypes ==
  ASSUME RegistryTypeOK, NEW k \in Calls, CallStep(k) \/ Begin(k)
  PROVE  RegistryTypeOK'
<1> USE RegistryAssumption, NoReqType
<1>1. CASE Begin(k)
  BY <1>1 DEF Begin, InFlight, RegistryTypeOK, Working, Points, Codes
<1>2. CASE Fetch(k)
  <2>1. req[k].ref \in Refs /\ Serves[req[k].ref] \subseteq Copies
    BY DEF RegistryTypeOK, Requests
  <2>2. CASE FetchedNothing(k)
    <3>1. [op |-> req[k].op, ref |-> WithVersion(req[k].ref, Unversioned)] \in Requests
      BY <2>1, BoundRefs DEF RegistryTypeOK, Requests
    <3>2. /\ at' = [at EXCEPT ![k] = "OK"] \/ at' = [at EXCEPT ![k] = "load"]
          /\ copy' = [copy EXCEPT ![k] = NoCopy]
          /\ todo' = todo \/ todo' = [todo EXCEPT ![k] = {}]
          /\ \/ req' = [req EXCEPT ![k] = NoReq]
             \/ req' = [req EXCEPT ![k] =
                          [op |-> req[k].op, ref |-> WithVersion(req[k].ref, Unversioned)]]
      BY <2>2 DEF FetchedNothing, LookUp, Answer
    <3>3. req' \in [Calls -> Requests]
      BY <3>1, <3>2 DEF RegistryTypeOK
    <3>4. UNCHANGED <<saved, machineVars>>
      BY <1>2 DEF Fetch
    <3> QED
      BY <3>2, <3>3, <3>4 DEF machineVars, RegistryTypeOK, Working, Points, Codes, Maybe
  <2>3. CASE ~FetchedNothing(k)
    BY <1>2, <2>1, <2>3 DEF Fetch, Given, Answer, machineVars, RegistryTypeOK,
      Working, Points, Codes, Maybe
  <2> QED
    BY <2>2, <2>3
<1>3. CASE Save(k)
  <2>1. copy[k] \in Copies /\ IdOf[copy[k]] \in Ids
    BY <1>3 DEF Save, RegistryTypeOK, Working
  <2>2. /\ saved' \in [Ids -> Maybe]
        /\ \A i \in Ids : saved'[i] \in Copies => IdOf[saved'[i]] = i
    <3>1. saved' \in {saved, [saved EXCEPT ![IdOf[copy[k]]] = copy[k]]}
      BY <1>3 DEF Save
    <3> QED
      BY <2>1, <3>1 DEF RegistryTypeOK, Maybe
  <2>3. /\ at' \in [Calls -> Codes \cup Points]
        /\ copy' \in [Calls -> Maybe]
        /\ todo' \in [Calls -> SUBSET Layers]
    BY <1>3, <2>1 DEF Save, Saved, LookUp, Answer, RegistryTypeOK, Points, Codes, Maybe
  <2>5. req' \in [Calls -> Requests]
    <3>1. [op |-> req[k].op, ref |-> Bound(req[k].ref, copy[k])] \in Requests
      BY <2>1, BoundRefs DEF RegistryTypeOK, Requests
    <3> QED
      BY <1>3, <3>1 DEF Save, Saved, LookUp, Answer, RegistryTypeOK
  <2>4. /\ \A j \in Calls : at'[j] \in Working => copy'[j] \in Copies
        /\ \A j \in Calls : at'[j] = "boot" => todo'[j] \subseteq LayersOf(copy'[j])
    <3>1. \A j \in Calls : at'[j] \in Codes \cup {"load"} \/ (at'[j] = at[j] /\ copy'[j] = copy[j])
      BY <1>3 DEF Save, Saved, LookUp, Answer, RegistryTypeOK, Codes
    <3>2. \A j \in Calls : at'[j] = "boot" => at[j] = "boot" /\ todo'[j] = todo[j] /\ copy'[j] = copy[j]
      BY <1>3 DEF Save, Saved, LookUp, Answer, RegistryTypeOK, Codes
    <3> QED
      BY <3>1, <3>2 DEF RegistryTypeOK, Working, Codes
  <2> QED
    BY <1>3, <2>2, <2>3, <2>4, <2>5 DEF Save, machineVars, RegistryTypeOK
<1>4. CASE Load(k)
  BY <1>4 DEF Load, Matching, WorkOn, Answer, machineVars, RegistryTypeOK, Working, Points,
    Codes, Maybe
<1>5. CASE Clear(k)
  BY <1>5 DEF Clear, Own, Machines, Remove, GoTo, Answer, machineVars, RegistryTypeOK, Working,
    Points, Codes, Maybe
<1>6. CASE Resolve(k)
  BY <1>6 DEF Resolve, BootList, LayersOf, Answer, machineVars, RegistryTypeOK, Working, Points,
    Codes, Maybe
<1>7. CASE BootLayer(k)
  BY <1>7 DEF BootLayer, Bootable, Abort, machineVars, RegistryTypeOK, Working, Points, Codes, Maybe
<1>8. CASE MarkStarted(k) \/ MarkStopping(k) \/ MarkStopped(k)
  BY <1>8 DEF MarkStarted, MarkStopping, MarkStopped, GoTo, Answer, machineVars, RegistryTypeOK,
    Working, Points, Codes, Maybe
<1>9. CASE AbortStart(k)
  BY <1>9 DEF AbortStart, Own, Machines, Remove, Answer, machineVars, RegistryTypeOK, Working,
    Points, Codes, Maybe
<1>10. CASE Teardown(k)
  <2>1. PICK ms \in SUBSET Own(k) : Remove(ms)
    BY <1>10 DEF Teardown
  <2>2. /\ from' \in [Layers -> Maybe]
        /\ up' \subseteq {m \in Layers : from'[m] # NoCopy}
    BY <2>1 DEF Remove, RegistryTypeOK, Maybe
  <2>3. at[k] = "teardown" /\ UNCHANGED saved
    BY <1>10 DEF Teardown
  <2>4. CASE GoTo(k, "stopped")
    BY <2>2, <2>3, <2>4 DEF GoTo, RegistryTypeOK, Working, Points
  <2>5. CASE Answer(k, "Failed")
    BY <2>2, <2>3, <2>5 DEF Answer, RegistryTypeOK, Working, Codes, Maybe
  <2> QED
    BY <1>10, <2>4, <2>5 DEF Teardown
<1> QED
  BY <1>1, <1>2, <1>3, <1>4, <1>5, <1>6, <1>7, <1>8, <1>9, <1>10 DEF CallStep

\* So does every other step of the process and of its environment.
LEMMA TypesKept == TypeOK /\ [Next]_vars => TypeOK'
<1> SUFFICES ASSUME TypeOK, [Next]_vars PROVE TypeOK'
  OBVIOUS
<1> USE RegistryAssumption, NoReqType
<1>1. ASSUME NEW k \in Calls, Call(k) PROVE TypeOK'
  <2>1. RegistryTypeOK'
    BY <1>1, CallTypes DEF Call, TypeOK
  <2> QED
    BY <1>1, <2>1 DEF Call, TypeOK, mainVars
<1>2. ASSUME NEW m \in Layers, Guest(m), UNCHANGED <<open, mainVars>> PROVE TypeOK'
  BY <1>2 DEF Guest, Remove, callVars, mainVars, TypeOK, RegistryTypeOK, Maybe
<1>3. ASSUME UNCHANGED registryVars PROVE RegistryTypeOK'
  BY <1>3 DEF registryVars, TypeOK, RegistryTypeOK
<1>4. CASE New
  <2>1. CASE Repair
    <3>1. RegistryTypeOK'
      BY <2>1 DEF Repair, Remove, callVars, TypeOK, RegistryTypeOK, Maybe
    <3> QED
      BY <2>1, <3>1 DEF Repair, TypeOK, MainPoints, StartPoints, NewPoints
  <2>2. CASE NewFails
    BY <2>2, <1>3 DEF NewFails, OpenStoreFails, StepFails, RepairFails, Undo, CloseNext, mainVars,
      TypeOK, MainPoints, ClosePoints, StartPoints, NewPoints
  <2>3. CASE ~Repair /\ ~NewFails
    BY <1>4, <2>3, <1>3 DEF New, OpenStore, Reclaim, EnsureBrokerNetwork, Probe, StartForwarder,
      Step, TypeOK, MainPoints, StartPoints, NewPoints, Resources
  <2> QED
    BY <2>1, <2>2, <2>3
<1>5. CASE Dial \/ Launch \/ Listen \/ Told \/ GracefulStop \/ Signal
  BY <1>5, <1>3 DEF Dial, Step, Launch, Listen, Told, GracefulStop, Signal, TypeOK, MainPoints,
    StartPoints, NewPoints, ClosePoints, Resources
<1>6. CASE DialOrListenFails \/ ServeFails \/ Drained \/ ForceStop
  <2>1. RegistryTypeOK'
    BY <1>6, <1>3 DEF DialOrListenFails, ServeFails, Drained, ForceStop
  <2>2. CASE DialOrListenFails
    BY <2>1, <2>2 DEF DialOrListenFails, Leave, TypeOK, MainPoints, StartPoints, NewPoints,
      ClosePoints
  <2>3. CASE ServeFails \/ Drained \/ ForceStop
    BY <2>1, <2>3 DEF ServeFails, Drained, ForceStop, Leave, InFlight, TypeOK, MainPoints,
      StartPoints, NewPoints, ClosePoints
  <2> QED
    BY <1>6, <2>2, <2>3
<1>7. CASE Close \/ Closed \/ CloseTimesOut
  BY <1>7, <1>3 DEF Close, CloseNext, Closed, CloseTimesOut, mainVars, TypeOK, MainPoints, StartPoints,
    NewPoints, ClosePoints
<1>8. CASE Exit \/ Die
  <2>1. Gone
    BY <1>8 DEF Exit, Die
  <2>2. RegistryTypeOK'
    BY <2>1 DEF Gone, machineVars, TypeOK, RegistryTypeOK, Working, Codes, Maybe
  <2> QED
    BY <2>1, <2>2 DEF Gone, TypeOK, MainPoints
<1>9. CASE UNCHANGED vars
  BY <1>9, <1>3 DEF vars, mainVars, TypeOK
<1> QED
  BY <1>1, <1>2, <1>4, <1>5, <1>6, <1>7, <1>8, <1>9 DEF Next, MainStep

\* The service keeps its types through every fault, restart and forced stop.
THEOREM RunnerTypes == Spec => []TypeOK
<1>1. Init => TypeOK
  BY RegistryAssumption, NoReqType DEF Init, RegistryInit, TypeOK, RegistryTypeOK, Maybe, Codes,
    Working, MainPoints
<1> QED
  BY <1>1, TypesKept, PTL DEF Spec

-----------------------------------------------------------------------------
(* The inductive invariant.                                                *)

\* What the resolver passes names no link but a soft one without declaring it.
LEMMA VettedLinks ==
  ASSUME NEW body, ChartVetted(body), NEW m \in DOMAIN body.layers
  PROVE  Undeclared(body, body.layers[m]) \subseteq body.layers[m].soft
BY DEF ChartVetted, LinksVetted, Undeclared, UnknownSources, UnknownEvents

LEMMA CallsKnowKept ==
  ASSUME TypeOK, IInv, NEW k \in Calls, CallStep(k) \/ Begin(k)
  PROVE  CallsKnow'
<1> USE DEF TypeOK, RegistryTypeOK, IInv, CallsKnow
<1>1. CASE Begin(k)
  <2>1. PICK r \in Requests :
          /\ req' = [req EXCEPT ![k] = r]
          /\ at' = [at EXCEPT ![k] = IF r.op \in {"pull", "pullAndStart"} THEN "fetch" ELSE "load"]
    BY <1>1 DEF Begin
  <2> QED
    BY <1>1, <2>1 DEF Begin
<1>2. CASE Fetch(k)
  BY <1>2 DEF Fetch, FetchedNothing, LookUp, Given, Answer, Codes
<1>3. CASE Save(k)
  <2>1. copy[k] \in Copies /\ req[k].ref \in Refs
    BY <1>3 DEF Save, Working, Requests
  <2>2. Bound(req[k].ref, copy[k]).version = RefOf[copy[k]].version
    BY <2>1, BoundRefs
  <2> QED
    BY <1>3, <2>1, <2>2 DEF Save, Saved, LookUp, Answer, Codes
<1>4. CASE Load(k)
  BY <1>4 DEF Load, WorkOn, Answer, Codes
<1>5. CASE Clear(k) \/ Resolve(k)
  BY <1>5 DEF Clear, Resolve, GoTo, Answer, Codes
<1>6. CASE BootLayer(k)
  BY <1>6 DEF BootLayer, Abort
<1>7. CASE MarkStarted(k) \/ AbortStart(k) \/ MarkStopping(k) \/ Teardown(k) \/ MarkStopped(k)
  BY <1>7 DEF MarkStarted, AbortStart, MarkStopping, Teardown, MarkStopped, GoTo, Answer, Codes
<1> QED
  BY <1>1, <1>2, <1>3, <1>4, <1>5, <1>6, <1>7 DEF CallStep

\* A step of one call leaves the others where they are.
LEMMA OthersStay ==
  ASSUME TypeOK, NEW k \in Calls, CallStep(k) \/ Begin(k), NEW j \in Calls \ {k}
  PROVE  at'[j] = at[j] /\ copy'[j] = copy[j] /\ req'[j] = req[j]
BY DEF TypeOK, RegistryTypeOK, CallStep, Begin, Fetch, FetchedNothing, LookUp, Given, Save, Saved, Load, Clear,
  Resolve, BootLayer, MarkStarted, AbortStart, MarkStopping, Teardown, MarkStopped, Answer, GoTo,
  WorkOn, Abort

\* The charts that bear what a start looks up are those it names.
LEMMA NamedCopies ==
  \A r \in Requests : \A ref \in LookedUp(r) : Bearing(ref) \subseteq Named(r)
BY DEF Named

\* The chart a start works on is one its caller may start, from Begin on.
LEMMA StartsKnowKept ==
  ASSUME TypeOK, IInv, NEW k \in Calls, CallStep(k) \/ Begin(k)
  PROVE  StartsKnow'
<1> DEFINE Holds(r, point, c) ==
      /\ point = "fetch" /\ r.op = "pullAndStart" => Named(r) \subseteq Starts[k]
      /\ point = "save" /\ r.op = "pullAndStart" => Bearing(Bound(r.ref, c)) \subseteq Starts[k]
      /\ point = "load" /\ r.op \in {"start", "pullAndStart"}
           => Bearing(r.ref) \subseteq Starts[k]
      /\ point \in StartPath => IdOf[c] \in Starts[k]
<1>1. SUFFICES Holds(req'[k], at'[k], copy'[k])
  BY OthersStay DEF IInv, StartsKnow
<1>2. Holds(req[k], at[k], copy[k])
  BY DEF IInv, StartsKnow
<1> USE RegistryAssumption DEF TypeOK, RegistryTypeOK, StartPath
<1>3. CASE Begin(k)
  <2>1. PICK r \in Requests :
          /\ r.op \in {"start", "pullAndStart"} => Named(r) \subseteq Starts[k]
          /\ req' = [req EXCEPT ![k] = r]
          /\ at' = [at EXCEPT ![k] = IF r.op \in {"pull", "pullAndStart"} THEN "fetch" ELSE "load"]
    BY <1>3 DEF Begin
  <2>2. r.op = "start" => Bearing(r.ref) \subseteq Named(r)
    BY NamedCopies DEF LookedUp
  <2>3. req'[k] = r /\ at'[k] \in {"fetch", "load"}
    BY <2>1
  <2>4. at'[k] = "load" /\ r.op \in {"start", "pullAndStart"} => r.op = "start"
    BY <2>1
  <2> QED
    BY <2>1, <2>2, <2>3, <2>4
<1>4. CASE Fetch(k)
  <2>1. CASE at'[k] = "save"
    <3>1. PICK c \in Serves[req[k].ref] : Given(k, c)
      BY <1>4, <2>1 DEF Fetch, FetchedNothing, LookUp, Answer, Codes
    <3>2. at[k] = "fetch" /\ req'[k] = req[k] /\ copy'[k] = c
      BY <1>4, <3>1 DEF Fetch, Given
    <3>3. req[k].op = "pullAndStart" => Bearing(Bound(req[k].ref, c)) \subseteq Named(req[k])
      BY NamedCopies DEF LookedUp
    <3> QED
      BY <1>2, <2>1, <3>2, <3>3
  <2>2. CASE at'[k] = "load"
    <3>1. FetchedNothing(k) /\ at[k] = "fetch"
      BY <1>4, <2>2 DEF Fetch, Given, Answer, Codes
    <3>2. /\ req[k].op = "pullAndStart"
          /\ req'[k] = [op |-> req[k].op, ref |-> WithVersion(req[k].ref, Unversioned)]
      BY <1>4, <2>2, <3>1 DEF Fetch, FetchedNothing, LookUp, Answer, IInv, CallsKnow
    <3>3. Bearing(WithVersion(req[k].ref, Unversioned)) \subseteq Named(req[k])
      BY <3>2, NamedCopies DEF LookedUp
    <3> QED
      BY <1>2, <2>2, <3>1, <3>2, <3>3
  <2> QED
    BY <1>4, <2>1, <2>2 DEF Fetch, FetchedNothing, Given, LookUp, Answer, Codes
<1>5. CASE Save(k)
  <2>1. CASE at'[k] = "load"
    <3>1. /\ at[k] = "save" /\ req[k].op = "pullAndStart"
          /\ req'[k] = [op |-> req[k].op, ref |-> Bound(req[k].ref, copy[k])]
      BY <1>5, <2>1 DEF Save, Saved, LookUp, Answer, Codes, IInv, CallsKnow
    <3> QED
      BY <1>2, <2>1, <3>1
  <2> QED
    BY <1>5, <2>1 DEF Save, Saved, LookUp, Answer, Codes
<1>6. CASE Load(k)
  <2>1. CASE at'[k] = "clear"
    <3>1. PICK c \in Matching(req[k].ref) :
            WorkOn(k, c, IF req[k].op = "kill" THEN "stopping" ELSE "clear")
      BY <1>6, <2>1 DEF Load, Answer
    <3>2. at[k] = "load" /\ req[k].op \in {"start", "pullAndStart"}
      BY <1>6, <2>1, <3>1 DEF Load, WorkOn, IInv, CallsKnow, Requests, Ops
    <3>3. copy'[k] = c /\ IdOf[c] \in Bearing(req[k].ref)
      BY <3>1 DEF WorkOn, Matching, Bearing
    <3> QED
      BY <1>2, <2>1, <3>2, <3>3
  <2> QED
    BY <1>6, <2>1 DEF Load, WorkOn, Answer, Codes
<1>7. CASE ~(Begin(k) \/ Fetch(k) \/ Save(k) \/ Load(k))
  <2>1. CASE at'[k] \in StartPath
    <3>1. at[k] \in StartPath /\ copy'[k] = copy[k]
      BY <1>7, <2>1 DEF CallStep, Clear, Resolve, BootLayer, MarkStarted, AbortStart,
        MarkStopping, Teardown, MarkStopped, Answer, GoTo, Abort
    <3> QED
      BY <1>2, <2>1, <3>1
  <2>2. at'[k] \notin {"fetch", "save", "load"}
    BY <1>7 DEF CallStep, Clear, Resolve, BootLayer, MarkStarted, AbortStart,
      MarkStopping, Teardown, MarkStopped, Answer, GoTo, Abort
  <2> QED
    BY <2>1, <2>2
<1> QED
  BY <1>3, <1>4, <1>5, <1>6, <1>7

\* Machines that only go keep what is known of them.
LEMMA Shrinking ==
  ASSUME TypeOK, MachinesKnow, OneCopyRuns,
         \A m \in Layers : from'[m] \in {from[m], NoCopy},
         \A j \in Calls : at'[j] \in {"resolve", "stopped", "boot", "abort"}
           => at'[j] = at[j] /\ copy'[j] = copy[j]
  PROVE  MachinesKnow' /\ OneCopyRuns'
BY DEF MachinesKnow, OneCopyRuns, Own, Machines, Working

LEMMA MachinesKnowKept ==
  ASSUME TypeOK, IInv, NEW k \in Calls, CallStep(k) \/ Begin(k)
  PROVE  MachinesKnow' /\ OneCopyRuns'
<1> USE RegistryAssumption
<1> USE DEF TypeOK, RegistryTypeOK, IInv
<1>a. \A j \in Calls \ {k} : at'[j] = at[j] /\ copy'[j] = copy[j]
  BY OthersStay
<1>1. CASE Begin(k) \/ Fetch(k) \/ Save(k) \/ Load(k) \/ MarkStarted(k)
           \/ MarkStopping(k) \/ MarkStopped(k)
  <2>1. from' = from
    BY <1>1 DEF Begin, Fetch, FetchedNothing, LookUp, Given, Save, Load, MarkStarted, MarkStopping,
      MarkStopped, machineVars
  <2>2. at'[k] \notin {"resolve", "stopped", "boot", "abort"}
    BY <1>1 DEF Begin, Fetch, FetchedNothing, LookUp, Given, Save, Saved, Load, MarkStarted, MarkStopping,
      MarkStopped, Answer, GoTo, WorkOn
  <2> QED
    BY <1>a, <2>1, <2>2, Shrinking
<1>2. CASE AbortStart(k)
  BY <1>a, <1>2, Shrinking DEF AbortStart, Remove, Answer
<1>3. CASE Clear(k) \/ Teardown(k)
  <2>1. \A m \in Layers : from'[m] \in {from[m], NoCopy}
    BY <1>3 DEF Clear, Teardown, Remove, machineVars
  <2>2. CASE at'[k] \in Codes
    BY <1>a, <2>1, <2>2, Shrinking DEF Codes
  <2>3. CASE at'[k] \notin Codes
    <3>1. /\ Remove(Own(k))
          /\ at'[k] \in {"resolve", "stopped"}
          /\ copy'[k] = copy[k]
      BY <1>3, <2>3 DEF Clear, Teardown, Answer, GoTo, Codes
    <3>2. Own(k)' = {}
      BY <3>1 DEF Own, Machines, Remove
    <3> QED
      BY <1>a, <2>1, <3>1, <3>2 DEF MachinesKnow, OneCopyRuns, Own, Machines, Working
  <2> QED
    BY <2>2, <2>3
<1>4. CASE Resolve(k)
  <2>1. from' = from
    BY <1>4 DEF Resolve, machineVars
  <2>2. CASE at'[k] = "boot"
    <3>1. at[k] = "resolve" /\ copy'[k] = copy[k]
      BY <1>4, <2>2 DEF Resolve, Answer, Codes
    <3> QED
      BY <1>a, <2>1, <2>2, <3>1 DEF MachinesKnow, OneCopyRuns, Own, Machines, Working
  <2>3. CASE at'[k] # "boot"
    <3>1. at'[k] = "Failed"
      BY <1>4, <2>3 DEF Resolve, Answer
    <3> QED
      BY <1>a, <2>1, <3>1, Shrinking
  <2> QED
    BY <2>2, <2>3
<1>5. CASE BootLayer(k)
  <2>1. at[k] = "boot" /\ copy[k] \in Copies /\ copy' = copy /\ at'[k] \in {"boot", "abort"}
    BY <1>5 DEF BootLayer, Abort, Working
  <2>2. PICK m \in Bootable(k) : from' \in {from, [from EXCEPT ![m] = copy[k]]}
    BY <1>5 DEF BootLayer, machineVars
  <2>3. m \in LayersOf(copy[k]) /\ m \in Layers /\ Owner[m] = IdOf[copy[k]]
    BY <2>1, <2>2 DEF Bootable
  <2>4. \A n \in Layers : from'[n] = from[n] \/ (n = m /\ from'[n] = copy[k])
    BY <2>2, <2>3
  <2>5. IdOf[copy[k]] \in Starts[k]
    BY <2>1 DEF StartsKnow, StartPath
  <2>6. \A n \in Layers : from'[n] # NoCopy => n \in LayersOf(from'[n])
    BY <2>3, <2>4 DEF MachinesKnow
  <2>7. StartsAlone(k, IdOf[copy[k]]) =>
          \A n \in Layers : Owner[n] = IdOf[copy[k]] /\ from'[n] # NoCopy => from'[n] = copy[k]
    BY <2>1, <2>4 DEF MachinesKnow, Own, Machines, Working
  <2>8. ASSUME NEW j \in Calls \ {k}, at'[j] \in Working, StartsAlone(j, IdOf[copy'[j]])
        PROVE  /\ at'[j] \in {"resolve", "stopped"} => Own(j)' = {}
               /\ at'[j] \in {"boot", "abort"} => \A n \in Own(j)' : from'[n] = copy'[j]
    <3>1. at'[j] = at[j] /\ copy'[j] = copy[j] /\ IdOf[copy[j]] # IdOf[copy[k]]
      BY <1>a, <2>5, <2>8 DEF StartsAlone
    <3>2. \A n \in Layers : Owner[n] = IdOf[copy[j]] => from'[n] = from[n]
      BY <2>3, <2>4, <3>1
    <3>3. Own(j)' = Own(j) /\ \A n \in Own(j) : from'[n] = from[n]
      BY <3>1, <3>2 DEF Own, Machines
    <3> QED
      BY <2>8, <3>1, <3>3 DEF MachinesKnow
  <2>9. MachinesKnow'
    BY <2>1, <2>6, <2>7, <2>8 DEF MachinesKnow, Own, Machines, StartsAlone
  <2>10. OneCopyRuns'
    <3>1. SoleStarter(IdOf[copy[k]]) => StartsAlone(k, IdOf[copy[k]])
      BY <2>5 DEF SoleStarter, StartsAlone
    <3>2. \A n \in Layers : Owner[n] # IdOf[copy[k]] => from'[n] = from[n]
      BY <2>3, <2>4
    <3> QED
      BY <2>7, <3>1, <3>2 DEF OneCopyRuns
  <2> QED
    BY <2>9, <2>10
<1> QED
  BY <1>1, <1>2, <1>3, <1>4, <1>5 DEF CallStep

\* A boot list comes from a chart the resolver has passed, and only gets shorter.
LEMMA LinksKept ==
  ASSUME TypeOK, IInv, NEW k \in Calls, CallStep(k) \/ Begin(k)
  PROVE  OnlySoftLinksAreRefused'
<1> USE DEF TypeOK, RegistryTypeOK, IInv
<1> SUFFICES ASSUME NEW j \in Calls, at'[j] = "boot", NEW m \in todo'[j]
             PROVE  Undeclared(Body[copy'[j]], Body[copy'[j]].layers[m]) \subseteq Body[copy'[j]].layers[m].soft
  BY DEF OnlySoftLinksAreRefused, Layer
<1>1. CASE Resolve(k) /\ j = k
  <2>1. ChartVetted(Body[copy[k]])
    BY <1>1 DEF Resolve, Answer, Codes
  <2>2. copy'[k] = copy[k] /\ m \in DOMAIN Body[copy[k]].layers
    BY <1>1 DEF Resolve, BootList, LayersOf, Answer
  <2> QED
    BY <1>1, <2>1, <2>2, VettedLinks
<1>2. CASE ~(Resolve(k) /\ j = k)
  <2>1. at[j] = "boot" /\ copy'[j] = copy[j] /\ m \in todo[j]
    BY <1>2 DEF CallStep, Begin, Fetch, FetchedNothing, LookUp, Given, Save, Saved, Load, Clear, Resolve,
      BootLayer, MarkStarted,
      AbortStart, MarkStopping, Teardown, MarkStopped, Answer, GoTo, WorkOn, Abort
  <2> QED
    BY <2>1 DEF OnlySoftLinksAreRefused, Layer
<1> QED
  BY <1>1, <1>2

\* What main knows of the calls: a step of theirs ends one, or the server is up.
LEMMA MainKnowsOfCalls ==
  ASSUME TypeOK, MainKnows, NEW k \in Calls, Call(k)
  PROVE  MainKnows'
<1> USE DEF TypeOK, RegistryTypeOK
<1>1. CASE CallStep(k)
  <2>1. k \in InFlight
    BY <1>1 DEF CallStep, Fetch, FetchedNothing, LookUp, Given, Save, Load, Clear, Resolve, BootLayer,
      MarkStarted, AbortStart,
      MarkStopping, Teardown, MarkStopped, InFlight, Points
  <2>2. \A j \in Calls : j # k => at'[j] = at[j]
    BY <1>1 DEF CallStep, Fetch, FetchedNothing, LookUp, Given, Save, Saved, Load, Clear, Resolve, BootLayer,
      MarkStarted,
      AbortStart, MarkStopping, Teardown, MarkStopped, Answer, GoTo, WorkOn, Abort
  <2>3. InFlight' \subseteq InFlight
    BY <2>1, <2>2 DEF InFlight
  <2> QED
    BY <2>3 DEF Call, mainVars, MainKnows
<1>2. CASE server = "up" /\ Begin(k)
  BY <1>2 DEF Call, mainVars, MainKnows, InFlight, StartPoints, NewPoints, ClosePoints
<1> QED
  BY <1>1, <1>2 DEF Call

LEMMA MainKnowsKept ==
  ASSUME TypeOK, MainKnows, UNCHANGED at,
         New \/ Dial \/ DialOrListenFails \/ Listen \/ Told \/ GracefulStop \/ Drained
         \/ ForceStop \/ Closed \/ CloseTimesOut \/ Launch \/ ServeFails \/ Close \/ Signal
  PROVE  MainKnows'
<1> USE DEF MainKnows, StartPoints, NewPoints, ClosePoints
<1>1. InFlight' = InFlight /\ InFlight \subseteq Calls
  BY DEF InFlight
<1>2. CASE New
  BY <1>1, <1>2 DEF New, OpenStore, Reclaim, EnsureBrokerNetwork, Probe, StartForwarder, Step,
    Repair, NewFails, OpenStoreFails, StepFails, RepairFails, Undo, CloseNext, mainVars, TypeOK
<1>3. CASE Dial \/ DialOrListenFails \/ Launch
  BY <1>1, <1>3 DEF Dial, Step, DialOrListenFails, Leave, Launch, TypeOK
<1>4. CASE Listen
  BY <1>1, <1>4 DEF Listen
<1>5. CASE Told \/ GracefulStop \/ Drained \/ ForceStop \/ ServeFails
  BY <1>1, <1>5 DEF Told, GracefulStop, Drained, ForceStop, ServeFails, Leave
<1>6. CASE Closed \/ CloseTimesOut \/ Close \/ Signal
  BY <1>1, <1>6 DEF Closed, CloseTimesOut, Close, CloseNext, mainVars, Signal
<1> QED
  BY <1>2, <1>3, <1>4, <1>5, <1>6

\* Every step of the process gives back what it must, and no call opens a thing.
LEMMA MainHoldsKept == TypeOK /\ MainKnows /\ MainHolds /\ [Next]_vars => MainHolds'
<1> SUFFICES ASSUME TypeOK, MainKnows, MainHolds, [Next]_vars PROVE MainHolds'
  OBVIOUS
<1> USE DEF MainHolds, ClosePoints
<1>1. CASE UNCHANGED <<open, main, server>>
  BY <1>1
<1>2. CASE New \/ Launch
  BY <1>2 DEF New, OpenStore, Reclaim, EnsureBrokerNetwork, Probe, StartForwarder, Step, Repair,
    NewFails, OpenStoreFails, StepFails, RepairFails, Undo, CloseNext, RunnerClosed, mainVars, Launch
<1>3. CASE Dial \/ DialOrListenFails \/ Listen
  BY <1>3 DEF Dial, Step, DialOrListenFails, Leave, Listen, TypeOK, StartPoints
<1>4. CASE Told \/ GracefulStop \/ Drained \/ ForceStop \/ ServeFails
  <2>1. CASE Told \/ GracefulStop
    BY <2>1 DEF Told, GracefulStop, MainKnows
  <2>2. CASE Drained \/ ForceStop \/ ServeFails
    <3>1. /\ main' = "closing"
          /\ open' \subseteq open \ {"starmap"}
          /\ "listener" \notin open'
      BY <2>2 DEF Drained, ForceStop, ServeFails, Leave
    <3>2. open' \subseteq {"store", "forwarder"}
      BY <3>1 DEF TypeOK, Resources
    <3> QED
      BY <3>1, <3>2
  <2> QED
    BY <1>4, <2>1, <2>2
<1>5. CASE Close \/ Closed \/ CloseTimesOut
  BY <1>5 DEF Close, CloseNext, Closed, CloseTimesOut, mainVars
<1>6. CASE Exit \/ Die
  BY <1>6 DEF Exit, Die, Gone
<1>7. \/ UNCHANGED <<open, main, server>> \/ New \/ Launch \/ Dial \/ DialOrListenFails \/ Listen
      \/ Told \/ GracefulStop \/ Drained \/ ForceStop \/ ServeFails
      \/ Close \/ Closed \/ CloseTimesOut \/ Exit \/ Die
  BY DEF Next, MainStep, Call, Signal, mainVars, vars
<1> QED
  BY <1>1, <1>2, <1>3, <1>4, <1>5, <1>6, <1>7

\* What is left of a process that is gone knows nothing, and needs nothing.
LEMMA GoneKept == TypeOK /\ IInv /\ Gone => IInv'
BY DEF Gone, TypeOK, RegistryTypeOK, IInv, CallsKnow, StartsKnow, MachinesKnow, MainKnows,
  MainHolds, OneCopyRuns, OnlySoftLinksAreRefused, InFlight, Points, StartPath, Working,
  StartPoints, NewPoints, ClosePoints, machineVars

LEMMA InvariantKept == TypeOK /\ IInv /\ [Next]_vars => IInv'
<1> SUFFICES ASSUME TypeOK, IInv, [Next]_vars PROVE IInv'
  OBVIOUS
<1> USE DEF IInv
<1>0. MainHolds'
  BY MainHoldsKept
<1>1. ASSUME NEW k \in Calls, Call(k) PROVE IInv'
  BY <1>0, <1>1, CallsKnowKept, StartsKnowKept, MachinesKnowKept, LinksKept, MainKnowsOfCalls DEF Call
<1>2. ASSUME UNCHANGED callVars,
             \A m \in Layers : from'[m] \in {from[m], NoCopy}
      PROVE  CallsKnow' /\ StartsKnow' /\ MachinesKnow' /\ OneCopyRuns' /\ OnlySoftLinksAreRefused'
  <2>1. MachinesKnow' /\ OneCopyRuns'
    BY <1>2, Shrinking DEF callVars
  <2>2. CallsKnow' /\ StartsKnow' /\ OnlySoftLinksAreRefused'
    BY <1>2 DEF callVars, CallsKnow, StartsKnow, OnlySoftLinksAreRefused, LinksRefused, Layer
  <2> QED
    BY <2>1, <2>2
<1>3. ASSUME NEW m \in Layers, Guest(m), UNCHANGED <<open, mainVars>> PROVE IInv'
  <2>1. \A n \in Layers : from'[n] \in {from[n], NoCopy}
    BY <1>3 DEF Guest, Remove
  <2>2. MainKnows'
    BY <1>3 DEF Guest, callVars, mainVars, MainKnows, InFlight
  <2> QED
    BY <1>0, <1>2, <1>3, <2>1, <2>2 DEF Guest
<1>4. ASSUME New \/ Dial \/ DialOrListenFails \/ Listen \/ Told \/ GracefulStop \/ Drained
             \/ ForceStop \/ Closed \/ CloseTimesOut \/ Launch \/ ServeFails \/ Close \/ Signal
      PROVE  IInv'
  <2>1. /\ UNCHANGED callVars
        /\ \A m \in Layers : from'[m] \in {from[m], NoCopy}
    BY <1>4 DEF New, OpenStore, Reclaim, EnsureBrokerNetwork, Probe, StartForwarder, Step,
      Repair, Remove, NewFails, OpenStoreFails, StepFails, RepairFails, Undo, CloseNext, Dial,
      DialOrListenFails, Listen, Told, GracefulStop, Drained, ForceStop, Closed, CloseTimesOut,
      Launch, ServeFails, Close, Signal, registryVars, callVars
  <2>2. MainKnows'
    BY <1>4, <2>1, MainKnowsKept DEF callVars
  <2> QED
    BY <1>0, <1>2, <2>1, <2>2
<1>5. CASE Exit \/ Die
  BY <1>5, GoneKept DEF Exit, Die
<1>6. CASE UNCHANGED vars
  <2>1. UNCHANGED callVars /\ from' = from /\ MainKnows'
    BY <1>6 DEF vars, registryVars, mainVars, callVars, MainKnows, InFlight
  <2> QED
    BY <1>0, <1>2, <2>1
<1> QED
  BY <1>1, <1>3, <1>4, <1>5, <1>6 DEF Next, MainStep

\* What each call and main know at each of their points, for any charts, copies
\* and calls, whichever of them start which charts.
THEOREM RunnerInvariance == Spec => []IInv
<1>1. Init => IInv
  BY DEF Init, RegistryInit, IInv, CallsKnow, StartsKnow, MachinesKnow, MainKnows, MainHolds,
    OneCopyRuns, OnlySoftLinksAreRefused, InFlight, Points, StartPath, Working, StartPoints,
    NewPoints, ClosePoints
<1> QED
  BY <1>1, InvariantKept, RunnerTypes, PTL DEF Spec

\* The machines of a chart that one call at most starts always come from one copy.
THEOREM OneCopy == Spec => []OneCopyRuns
<1>1. IInv => OneCopyRuns
  BY DEF IInv
<1> QED
  BY <1>1, RunnerInvariance, PTL

\* When a chart is half up, no layer left to boot names a link the chart does not
\* declare, but for a soft one: whatever the host showed when the layers were
\* looked at, and whatever it shows since, every other name was checked.
THEOREM SecondLookOnlySoft == Spec => []OnlySoftLinksAreRefused
<1>1. IInv => OnlySoftLinksAreRefused
  BY DEF IInv
<1> QED
  BY <1>1, RunnerInvariance, PTL

\* No call meets a closed store but those main gave up on.
THEOREM StoreOutlivesCalls == Spec => []OnlyCutCallsMeetAClosedStore
<1>1. TypeOK /\ IInv => OnlyCutCallsMeetAClosedStore
  <2> SUFFICES ASSUME TypeOK, IInv, ~StoreOpen PROVE InFlight \subseteq cut
    BY DEF OnlyCutCallsMeetAClosedStore
  <2>1. main \notin {"serving", "draining"}
    BY DEF IInv, MainHolds, StoreOpen
  <2> QED
    BY <2>1 DEF IInv, MainKnows, TypeOK, MainPoints, ClosePoints
<1> QED
  BY <1>1, RunnerTypes, RunnerInvariance, PTL

\* A kill takes down what any copy of its chart has booted.
THEOREM KillComplete == Spec => KillTakesAll
<1>1. TypeOK /\ IInv /\ [Next]_vars =>
        [\A k \in Calls :
           at[k] = "stopped" /\ at'[k] = "OK" /\ StartsAlone(k, IdOf[copy[k]])
             => \A m \in Layers : Owner[m] = IdOf[copy[k]] => from'[m] = NoCopy]_vars
  <2> SUFFICES ASSUME TypeOK, IInv, [Next]_vars, NEW k \in Calls, at[k] = "stopped",
                      StartsAlone(k, IdOf[copy[k]]), NEW m \in Layers, Owner[m] = IdOf[copy[k]]
               PROVE  from'[m] = NoCopy
    OBVIOUS
  <2>1. from[m] = NoCopy
    BY DEF IInv, MachinesKnow, Own, Machines, Working
  <2>2. from'[m] \in {from[m], NoCopy} \/ \E j \in Calls : BootLayer(j)
    BY DEF Next, Call, CallStep, Begin, Fetch, FetchedNothing, LookUp, Given, Save, Load, Clear, Resolve,
      MarkStarted, AbortStart,
      MarkStopping, Teardown, MarkStopped, Guest, Remove, MainStep, New, OpenStore, Reclaim,
        EnsureBrokerNetwork, Probe, StartForwarder, Step, Repair, NewFails, OpenStoreFails,
      StepFails, RepairFails, Undo, CloseNext, Dial, DialOrListenFails, Listen, Told, GracefulStop, Drained, ForceStop, Closed,
      CloseTimesOut, Launch, ServeFails, Close, Signal, Exit, Die, Gone, machineVars, registryVars,
      vars
  <2>3. ASSUME NEW j \in Calls, BootLayer(j) PROVE from'[m] = from[m]
    <3>1. at[j] = "boot" /\ copy[j] \in Copies /\ IdOf[copy[j]] \in Starts[j]
      BY <2>3 DEF BootLayer, TypeOK, RegistryTypeOK, IInv, StartsKnow, StartPath, Working
    <3>2. IdOf[copy[j]] # Owner[m]
      BY <3>1 DEF StartsAlone
    <3>3. PICK n \in Bootable(j) : from' \in {from, [from EXCEPT ![n] = copy[j]]}
      BY <2>3 DEF BootLayer, machineVars
    <3>4. n \in LayersOf(copy[j])
      BY <3>1, <3>3 DEF Bootable, TypeOK, RegistryTypeOK
    <3>5. n # m
      BY <3>1, <3>2, <3>4, RegistryAssumption
    <3> QED
      BY <3>3, <3>5 DEF TypeOK, RegistryTypeOK
  <2> QED
    BY <2>1, <2>2, <2>3
<1> QED
  BY <1>1, RunnerTypes, RunnerInvariance, PTL DEF Spec, KillTakesAll

\* A start that pulls works on the chart it has saved.
THEOREM PulledStarts == Spec => PulledIsStarted
<1>1. TypeOK /\ IInv /\ [Next]_vars =>
        [\A k \in Calls :
           /\ at[k] = "load" /\ req[k].op = "pullAndStart" /\ copy[k] # NoCopy
           /\ Matching(RefOf[copy[k]]) = {copy[k]}
           /\ RefOf[copy[k]].name = req[k].ref.name
           => /\ at'[k] # "NotFound"
              /\ at'[k] = "clear" => copy'[k] = copy[k]]_vars
  <2> SUFFICES ASSUME TypeOK, IInv, [Next]_vars, NEW k \in Calls,
                      at[k] = "load", req[k].op = "pullAndStart", copy[k] # NoCopy,
                      Matching(RefOf[copy[k]]) = {copy[k]},
                      RefOf[copy[k]].name = req[k].ref.name
               PROVE  /\ at'[k] # "NotFound"
                      /\ at'[k] = "clear" => copy'[k] = copy[k]
    OBVIOUS
  <2>1. Matching(req[k].ref) = {copy[k]}
    <3>1. copy[k] \in Copies /\ RefOf[copy[k]] \in Refs /\ req[k].ref \in Refs
      BY RegistryAssumption DEF TypeOK, RegistryTypeOK, Maybe, Requests
    <3>2. req[k].ref = RefOf[copy[k]]
      BY <3>1 DEF IInv, CallsKnow, Refs
    <3> QED
      BY <3>2
  <2>2. CASE Load(k)
    BY <2>1, <2>2 DEF Load, WorkOn, Answer, TypeOK, RegistryTypeOK
  <2>3. CASE ~Load(k)
    <3>1. at'[k] = at[k] \/ at'[k] = "OK"
      <4>1. ASSUME NEW j \in Calls, Call(j), j # k PROVE at'[k] = at[k]
        BY <4>1 DEF Call, CallStep, Begin, Fetch, FetchedNothing, LookUp, Given, Save, Saved, Load, Clear,
          Resolve, BootLayer, Abort,
          MarkStarted, AbortStart, MarkStopping, Teardown, MarkStopped, Answer, GoTo, WorkOn,
          TypeOK, RegistryTypeOK
      <4>2. ~Call(k)
        BY <2>3 DEF Call, CallStep, Begin, InFlight, Points, Fetch, FetchedNothing, LookUp, Given, Save, Clear,
          Resolve, BootLayer,
          MarkStarted, AbortStart, MarkStopping, Teardown, MarkStopped
      <4>3. CASE Gone
        BY <4>3 DEF Gone
      <4>4. (\E j \in Calls : Call(j)) \/ UNCHANGED at \/ Gone
        BY DEF Next, Guest, MainStep, New, OpenStore, Reclaim, EnsureBrokerNetwork, Probe,
          StartForwarder, Step, Repair, NewFails, OpenStoreFails, StepFails, RepairFails, Undo,
          CloseNext, Dial, DialOrListenFails, Listen, Told, GracefulStop, Drained, ForceStop, Closed, CloseTimesOut, Launch, ServeFails, Close,
          Signal, Exit, Die, registryVars, callVars, vars
      <4> QED
        BY <4>1, <4>2, <4>3, <4>4
    <3> QED
      BY <3>1
  <2> QED
    BY <2>2, <2>3
<1> QED
  BY <1>1, RunnerTypes, RunnerInvariance, PTL DEF Spec, PulledIsStarted

\* Whichever way the process ends, what it held open is closed, unless Close ran
\* out of time.
THEOREM ExitClean == Spec => ExitCloses
<1>1. TypeOK /\ IInv /\ [Next]_vars =>
        [main # "exiting" /\ main' = "exiting" => open' = {} \/ CloseTimesOut]_vars
  <2> SUFFICES ASSUME TypeOK, IInv, [Next]_vars, main # "exiting", main' = "exiting",
                      ~CloseTimesOut
               PROVE  open' = {}
    OBVIOUS
  <2>1. OpenStoreFails \/ StepFails \/ Undo \/ Closed
    BY DEF Next, Call, MainStep, New, OpenStore, Reclaim, EnsureBrokerNetwork, Probe,
      StartForwarder, Step, Repair, NewFails, RepairFails, Dial, DialOrListenFails, Leave, Listen,
      Told, GracefulStop, Drained, ForceStop, Launch, ServeFails, Close, CloseNext, Signal, Exit,
      Die, Gone, mainVars, vars
  <2>2. CASE OpenStoreFails \/ StepFails
    BY <2>2 DEF OpenStoreFails, StepFails, IInv, MainHolds
  <2>3. CASE Undo \/ Closed
    <3>1. RunnerClosed /\ open' = open /\ main \in {"undoing", "closing"}
      BY <2>3 DEF Undo, Closed, CloseNext, mainVars
    <3>2. open \subseteq {"store", "forwarder"}
      BY <3>1 DEF IInv, MainHolds, ClosePoints
    <3> QED
      BY <3>1, <3>2 DEF RunnerClosed
  <2> QED
    BY <2>1, <2>2, <2>3
<1> QED
  BY <1>1, RunnerTypes, RunnerInvariance, PTL DEF Spec, ExitCloses
=============================================================================
