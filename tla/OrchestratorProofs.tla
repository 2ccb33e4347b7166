------------------------- MODULE OrchestratorProofs -------------------------
(***************************************************************************)
(* Orchestrator for every set of charts, layers, calls and faults: types,  *)
(* the inductive invariant of OrchestratorInvariant and what follows from  *)
(* it.  No theorem restricts the callers: what is said of a chart asks     *)
(* that its own callers keep apart (Apart) and holds whatever happens to   *)
(* the others; the run two_starts shows a chart whose callers do not.      *)
(*                                                                         *)
(* The step proofs go process by process: a step is contained in its chart *)
(* (Contained), leaves what the others know alone (Undisturbed) and gives  *)
(* the process that took it what its next point promises (...Knows).       *)
(***************************************************************************)
EXTENDS OrchestratorInvariant, TLAPS

\* The tables of the removal loops, looked up.
LEMMA Points ==
  /\ DOMAIN RmAfter = {"clearStop", "tearStop", "orphanStop"}
  /\ DOMAIN StopAfter = {"clearRm", "tearRm", "orphanRm"}
  /\ RmAfter["clearStop"] = "clearRm"
  /\ RmAfter["tearStop"] = "tearRm"
  /\ RmAfter["orphanStop"] = "orphanRm"
  /\ StopAfter["clearRm"] = "clearStop"
  /\ StopAfter["tearRm"] = "tearStop"
  /\ StopAfter["orphanRm"] = "orphanStop"
BY DEF RmAfter, StopAfter

\* Where Main and where a call can be, listed.
LEMMA PointSets ==
  /\ PointsOf(Main) = {"down", "repairList", "repairNext", "serving", "tearList", "tearStop",
                       "tearRm", "markStopped", "orphanStop", "orphanRm"}
  /\ \A k \in Calls :
       PointsOf(k) = {"idle", "resolve", "markStarting", "markStopping", "clearList",
                      "clearStop", "clearRm", "boot", "attached", "markStarted",
                      "tearList", "tearStop", "tearRm", "markStopped"}
  /\ \A p \in Procs : PointsOf(p) \subseteq CallPoints \cup MainPoints
BY OrchestratorAssumption DEF PointsOf, CallPoints, MainPoints, TearPoints, OrphanPoints,
  ClearPoints, BootPoints, Procs

\* The ways a process moves, and what they leave of its part of the state.

\* Moving to a point that waits for no machine keeps the types (GoTo).
LEMMA GoToType ==
  ASSUME TypeOK, NEW p \in Procs, NEW pt, NEW ms, GoTo(p, pt, ms),
         pt \in PointsOf(p), pt \notin DOMAIN StopAfter \cup {"attached"}, ms \subseteq Layers
  PROVE  ProcTypeOK' /\ CallTypeOK'
<1>1. /\ at' = [at EXCEPT ![p] = pt]
      /\ todo' = [todo EXCEPT ![p] = ms]
      /\ cur' = [cur EXCEPT ![p] = NoLayer]
      /\ UNCHANGED callVars
  BY DEF GoTo
<1>2. pt \in CallPoints \cup MainPoints
  BY PointSets
<1> QED
  BY <1>1, <1>2 DEF TypeOK, ProcTypeOK, CallTypeOK, callVars, PointsOf

\* So does returning from a handler (Return).
LEMMA ReturnType ==
  ASSUME TypeOK, NEW k \in Calls, NEW result \in {"ok", "failed", "running"}, Return(k, result)
  PROVE  ProcTypeOK' /\ CallTypeOK'
<1>1. k \in Procs /\ "idle" \in PointsOf(k) /\ "idle" \in CallPoints \cup MainPoints
  BY PointSets DEF Procs
<1>2. "idle" \notin DOMAIN StopAfter \cup {"attached"}
  BY Points
<1> QED
  BY <1>1, <1>2 DEF TypeOK, ProcTypeOK, CallTypeOK, Return, PointsOf

\* And entering abortStart (Abort).
LEMMA AbortType ==
  ASSUME TypeOK, NEW k \in Calls, Abort(k)
  PROVE  ProcTypeOK' /\ CallTypeOK'
<1>1. k \in Procs /\ "markStopping" \in PointsOf(k) /\ "markStopping" \in CallPoints \cup MainPoints
  BY PointSets DEF Procs
<1>2. "markStopping" \notin DOMAIN StopAfter \cup {"attached"}
  BY Points
<1> QED
  BY <1>1, <1>2 DEF TypeOK, ProcTypeOK, CallTypeOK, Abort, PointsOf

\* What follows an error, in a call or in Reconcile, keeps the types (GiveUp).
LEMMA GiveUpType ==
  ASSUME TypeOK, NEW p \in Procs, NEW m, GiveUp(p, m)
  PROVE  ProcTypeOK' /\ CallTypeOK'
<1>1. CASE p \in Calls /\ Return(p, "failed")
  BY <1>1, ReturnType
<1>2. CASE p = Main /\ GoTo(p, "repairNext", {})
  BY <1>2, GoToType, PointSets, Points
<1>3. CASE p = Main /\ GoTo(p, "orphanStop", todo[p] \ {m})
  <2>1. todo[p] \ {m} \subseteq Layers
    BY DEF TypeOK, ProcTypeOK
  <2> QED
    BY <1>3, <2>1, GoToType, PointSets, Points
<1> QED
  BY <1>1, <1>2, <1>3 DEF GiveUp

\* No kraft command: kraft's state is as well-typed as before.
LEMMA KraftSame == KraftTypeOK /\ UNCHANGED kraftVars => KraftTypeOK'
BY DEF KraftTypeOK, kraftVars

\* Each kraft command and each thing a guest does keeps kraft's types.
LEMMA KraftStep ==
  ASSUME KraftTypeOK, NEW m \in Layers,
         \/ StopMachine(m) \/ RmMachine(m) \/ RunDetached(m) \/ RunFailed(m)
         \/ GuestExit(m) \/ AutoRm(m) \/ \E k \in Calls : RunAttached(k, m)
  PROVE  KraftTypeOK'
<1>1. ASSUME NEW s \in Statuses, Becomes(m, s) PROVE KraftTypeOK'
  BY <1>1 DEF KraftTypeOK, Becomes
<1>2. {"absent", "running", "exited"} = Statuses
  BY DEF Statuses
<1>3. CASE RunDetached(m) \/ \E k \in Calls : RunAttached(k, m)
  BY <1>2, <1>3 DEF KraftTypeOK, RunDetached, RunAttached
<1> QED
  BY <1>1, <1>2, <1>3, KraftSame DEF StopMachine, RmMachine, RunFailed, GuestExit, AutoRm

\* UpdateChartState, committed or not, leaves a table of row states.
LEMMA RowWrite ==
  ASSUME row \in [Charts -> RowStates], NEW p \in Procs, NEW c \in Charts, NEW s \in RowStates,
         Written(p, c, s) \/ WriteFailed(p, c, s)
  PROVE  row' \in [Charts -> RowStates]
BY DEF Written, WriteFailed

\* A process works on a chart, Reconcile on the one it is at.
LEMMA OnChart == TypeOK => \A p \in Procs : On(p) \in Charts
BY OrchestratorAssumption DEF TypeOK, On, Procs

-----------------------------------------------------------------------------
(* Type correctness.                                                       *)

\* The first start is well-typed.
LEMMA InitType == Init => TypeOK
<1> SUFFICES ASSUME Init PROVE TypeOK
  OBVIOUS
<1>1. "down" \in PointsOf(Main) /\ \A k \in Calls : "idle" \in PointsOf(k)
  BY PointSets
<1>2. {"down", "idle"} \cap (DOMAIN StopAfter \cup {"attached"}) = {}
  BY Points
<1>3. KraftTypeOK
  BY DEF Init, KraftTypeOK
<1>4. ProcTypeOK /\ CallTypeOK
  BY <1>1, <1>2, PointSets, OrchestratorAssumption DEF Init, ProcTypeOK, CallTypeOK, Procs
<1>5. row \in [Charts -> RowStates]
  BY DEF Init, RowStates
<1>6. repair \in [chart : Charts, left : SUBSET Charts, handled : SUBSET Charts, listed : SUBSET Layers]
  BY OrchestratorAssumption DEF Init, NoRepair
<1> QED
  BY <1>3, <1>4, <1>5, <1>6 DEF TypeOK

\* removeMachine, its loops and teardownChart keep the types.
LEMMA RemoveType ==
  ASSUME TypeOK, NEW p \in Procs, Remove(p)
  PROVE  TypeOK'
<1>0. p \in Procs /\ On(p) \in Charts /\ "stopped" \in RowStates
  BY OnChart DEF RowStates
<1>1. CASE StopNext(p)
  <2>1. PICK m \in todo[p] :
          \/ /\ StopMachine(m)
             /\ at' = [at EXCEPT ![p] = RmAfter[at[p]]]
             /\ cur' = [cur EXCEPT ![p] = m]
             /\ UNCHANGED <<todo, callVars>>
          \/ (StopMachine(m) \/ UNCHANGED kraftVars) /\ GiveUp(p, m)
    BY <1>1 DEF StopNext
  <2>2. m \in Layers
    BY DEF TypeOK, ProcTypeOK
  <2>3. KraftTypeOK'
    BY <2>1, <2>2, KraftStep, KraftSame DEF TypeOK
  <2>4. RmAfter[at[p]] \in PointsOf(p) /\ RmAfter[at[p]] \in CallPoints \cup MainPoints
    <3>1. at[p] \in {"clearStop", "tearStop", "orphanStop"} /\ at[p] \in PointsOf(p)
      BY <1>1, Points DEF StopNext, TypeOK, ProcTypeOK
    <3> QED
      BY <3>1, Points, PointSets DEF Procs
  <2>5. ProcTypeOK' /\ CallTypeOK'
    <3>1. CASE GiveUp(p, m)
      BY <3>1, GiveUpType
    <3>2. CASE /\ at' = [at EXCEPT ![p] = RmAfter[at[p]]]
               /\ cur' = [cur EXCEPT ![p] = m]
               /\ UNCHANGED <<todo, callVars>>
      BY <3>2, <2>2, <2>4 DEF TypeOK, ProcTypeOK, CallTypeOK, callVars, PointsOf
    <3> QED
      BY <2>1, <3>1, <3>2
  <2> QED
    BY <1>1, <2>3, <2>5 DEF TypeOK, StopNext
<1>2. CASE RmCurrent(p)
  <2>1. cur[p] \in Layers
    BY <1>2 DEF RmCurrent, TypeOK, ProcTypeOK
  <2>2. KraftTypeOK'
    BY <1>2, <2>1, KraftStep, KraftSame DEF TypeOK, RmCurrent
  <2>3. ProcTypeOK' /\ CallTypeOK'
    <3>1. CASE GiveUp(p, cur[p])
      BY <3>1, GiveUpType
    <3>2. CASE GoTo(p, StopAfter[at[p]], todo[p] \ {cur[p]})
      <4>1. at[p] \in {"clearRm", "tearRm", "orphanRm"} /\ at[p] \in PointsOf(p)
        BY <1>2, Points DEF RmCurrent, TypeOK, ProcTypeOK
      <4>2. StopAfter[at[p]] \in PointsOf(p) /\ StopAfter[at[p]] \notin DOMAIN StopAfter \cup {"attached"}
        BY <4>1, Points, PointSets DEF Procs
      <4>3. todo[p] \ {cur[p]} \subseteq Layers
        BY DEF TypeOK, ProcTypeOK
      <4> QED
        BY <3>2, <4>2, <4>3, GoToType
    <3> QED
      BY <1>2, <3>1, <3>2 DEF RmCurrent
  <2> QED
    BY <1>2, <2>2, <2>3 DEF TypeOK, RmCurrent
<1>3. CASE TearList(p)
  <2>1. Machines(On(p)) \subseteq Layers
    BY DEF Machines, LayersIn
  <2>2. ProcTypeOK' /\ CallTypeOK'
    <3>1. CASE GoTo(p, "tearStop", Machines(On(p)))
      BY <3>1, <2>1, GoToType, PointSets, Points DEF Procs
    <3>2. CASE GiveUp(p, NoLayer)
      BY <3>2, GiveUpType
    <3> QED
      BY <1>3, <3>1, <3>2 DEF TearList
  <2> QED
    BY <1>3, <2>2, KraftSame DEF TypeOK, TearList
<1>4. CASE TornDown(p)
  <2>1. ProcTypeOK' /\ CallTypeOK'
    BY <1>4, GoToType, PointSets, Points DEF Procs, TornDown
  <2> QED
    BY <1>4, <2>1, KraftSame DEF TypeOK, TornDown
<1>5. CASE MarkStopped(p)
  <2>1. row' \in [Charts -> RowStates]
    BY <1>0, <1>5, RowWrite DEF MarkStopped, TypeOK
  <2>2. ProcTypeOK' /\ CallTypeOK'
    <3>1. CASE p = Main /\ GoTo(p, "repairNext", {})
      BY <3>1, GoToType, PointSets, Points
    <3>2. CASE p # Main /\ Return(p, IF aborting[p] THEN "failed" ELSE "ok")
      BY <3>2, ReturnType DEF Procs
    <3>3. CASE GiveUp(p, NoLayer)
      BY <3>3, GiveUpType
    <3> QED
      BY <1>5, <3>1, <3>2, <3>3 DEF MarkStopped
  <2> QED
    BY <1>5, <2>1, <2>2, KraftSame DEF TypeOK, MarkStopped
<1> QED
  BY <1>1, <1>2, <1>3, <1>4, <1>5 DEF Remove

\* So do InstantiateChart and the head of KillChart.
LEMMA StartType ==
  ASSUME TypeOK, NEW k \in Calls, InstantiateStep(k) \/ MarkStopping(k)
  PROVE  TypeOK'
<1>0. /\ k \in Procs /\ ChartOf[k] \in Charts
      /\ {"starting", "started", "stopping"} \subseteq RowStates
  BY OrchestratorAssumption DEF Procs, RowStates
<1>1. CASE ClearList(k)
  <2>1. Machines(ChartOf[k]) \subseteq Layers
    BY DEF Machines, LayersIn
  <2>2. CASE GoTo(k, "clearStop", Machines(ChartOf[k]))
    BY <1>0, <1>1, <2>1, <2>2, GoToType, PointSets, Points, KraftSame DEF TypeOK, ClearList
  <2>3. CASE Return(k, "running") \/ Return(k, "failed")
    BY <1>1, <2>3, ReturnType, KraftSame DEF TypeOK, ClearList
  <2> QED
    BY <1>1, <2>2, <2>3 DEF ClearList
<1>2. CASE Cleared(k)
  BY <1>0, <1>2, GoToType, PointSets, Points, KraftSame DEF TypeOK, Cleared
<1>3. CASE Resolve(k)
  <2>1. CASE GoTo(k, "markStarting", {})
    BY <1>0, <1>3, <2>1, GoToType, PointSets, Points, KraftSame DEF TypeOK, Resolve
  <2>2. CASE Return(k, "failed")
    BY <1>3, <2>2, ReturnType, KraftSame DEF TypeOK, Resolve
  <2> QED
    BY <1>3, <2>1, <2>2 DEF Resolve
<1>4. CASE MarkStarting(k)
  <2>1. row' \in [Charts -> RowStates]
    BY <1>0, <1>4, RowWrite DEF MarkStarting, TypeOK
  <2>2. LayersIn(ChartOf[k]) \subseteq Layers
    BY DEF LayersIn
  <2>3. CASE GoTo(k, "boot", LayersIn(ChartOf[k]))
    BY <1>0, <1>4, <2>1, <2>2, <2>3, GoToType, PointSets, Points, KraftSame
       DEF TypeOK, MarkStarting
  <2>4. CASE Return(k, "failed")
    BY <1>4, <2>1, <2>4, ReturnType, KraftSame DEF TypeOK, MarkStarting
  <2> QED
    BY <1>4, <2>3, <2>4 DEF MarkStarting
<1>5. CASE BootLayer(k)
  <2>1. PICK m \in Bootable(k) :
          \/ Abort(k) /\ UNCHANGED kraftVars
          \/ RunDetached(m) /\ GoTo(k, "boot", todo[k] \ {m})
          \/ /\ RunAttached(k, m)
             /\ at' = [at EXCEPT ![k] = "attached"]
             /\ cur' = [cur EXCEPT ![k] = m]
             /\ UNCHANGED <<todo, callVars>>
          \/ RunFailed(m) /\ Abort(k)
    BY <1>5 DEF BootLayer
  <2>2. m \in Layers /\ todo[k] \ {m} \subseteq Layers
    BY <1>0 DEF Bootable, TypeOK, ProcTypeOK
  <2>3. KraftTypeOK'
    BY <2>1, <2>2, KraftStep, KraftSame DEF TypeOK
  <2>4. ProcTypeOK' /\ CallTypeOK'
    <3>1. CASE Abort(k)
      BY <3>1, AbortType
    <3>2. CASE GoTo(k, "boot", todo[k] \ {m})
      BY <1>0, <2>2, <3>2, GoToType, PointSets, Points
    <3>3. CASE /\ at' = [at EXCEPT ![k] = "attached"]
               /\ cur' = [cur EXCEPT ![k] = m]
               /\ UNCHANGED <<todo, callVars>>
      <4>1. "attached" \in PointsOf(k) /\ "attached" \in CallPoints \cup MainPoints
        BY <1>0, PointSets
      <4> QED
        BY <2>2, <3>3, <4>1 DEF TypeOK, ProcTypeOK, CallTypeOK, callVars, PointsOf
    <3> QED
      BY <2>1, <3>1, <3>2, <3>3
  <2> QED
    BY <1>5, <2>3, <2>4 DEF TypeOK, BootLayer
<1>6. CASE RunReturned(k)
  <2>1. todo[k] \ {cur[k]} \subseteq Layers
    BY <1>0 DEF TypeOK, ProcTypeOK
  <2>2. CASE GoTo(k, "boot", todo[k] \ {cur[k]})
    BY <1>0, <1>6, <2>1, <2>2, GoToType, PointSets, Points, KraftSame DEF TypeOK, RunReturned
  <2>3. CASE Abort(k)
    BY <1>6, <2>3, AbortType, KraftSame DEF TypeOK, RunReturned
  <2> QED
    BY <1>6, <2>2, <2>3 DEF RunReturned
<1>7. CASE Booted(k)
  BY <1>0, <1>7, GoToType, PointSets, Points, KraftSame DEF TypeOK, Booted
<1>8. CASE MarkStarted(k)
  <2>1. row' \in [Charts -> RowStates]
    BY <1>0, <1>8, RowWrite DEF MarkStarted, TypeOK
  <2> QED
    BY <1>8, <2>1, ReturnType, KraftSame DEF TypeOK, MarkStarted
<1>9. CASE MarkStopping(k)
  <2>1. row' \in [Charts -> RowStates]
    BY <1>0, <1>9, RowWrite DEF MarkStopping, TypeOK
  <2>2. CASE GoTo(k, "tearList", {})
    BY <1>0, <1>9, <2>1, <2>2, GoToType, PointSets, Points, KraftSame DEF TypeOK, MarkStopping
  <2>3. CASE Return(k, "failed")
    BY <1>9, <2>1, <2>3, ReturnType, KraftSame DEF TypeOK, MarkStopping
  <2> QED
    BY <1>9, <2>2, <2>3 DEF MarkStopping
<1> QED
  BY <1>1, <1>2, <1>3, <1>4, <1>5, <1>6, <1>7, <1>8, <1>9 DEF InstantiateStep

\* So does what New and main do around Reconcile's loops.
LEMMA MainType ==
  ASSUME TypeOK, RepairList \/ RepairNext \/ ListOrphans \/ Serve \/ Start \/ Shutdown
  PROVE  TypeOK'
<1>0. Main \in Procs
  BY DEF Procs
<1>1. CASE RepairList
  <2>1. repair' \in [chart : Charts, left : SUBSET Charts,
                     handled : SUBSET Charts, listed : SUBSET Layers]
    BY <1>1, OrchestratorAssumption DEF RepairList, NoRepair, TypeOK
  <2>2. CASE GoTo(Main, "repairNext", {})
    BY <1>0, <1>1, <2>1, <2>2, GoToType, PointSets, Points, KraftSame DEF TypeOK, RepairList
  <2>3. CASE GoTo(Main, "down", {})
    BY <1>0, <1>1, <2>1, <2>3, GoToType, PointSets, Points, KraftSame DEF TypeOK, RepairList
  <2> QED
    BY <1>1, <2>2, <2>3 DEF RepairList
<1>2. CASE RepairNext
  <2>1. repair' \in [chart : Charts, left : SUBSET Charts,
                     handled : SUBSET Charts, listed : SUBSET Layers]
    <3>1. PICK c \in repair.left :
            repair' = [chart |-> c, left |-> repair.left \ {c},
                       handled |-> repair.handled \cup {c}, listed |-> repair.listed]
      BY <1>2 DEF RepairNext
    <3> QED
      BY <3>1 DEF TypeOK
  <2> QED
    BY <1>0, <1>2, <2>1, GoToType, PointSets, Points, KraftSame DEF TypeOK, RepairNext
<1>3. CASE ListOrphans
  <2>1. repair' \in [chart : Charts, left : SUBSET Charts,
                     handled : SUBSET Charts, listed : SUBSET Layers]
    BY <1>3, OrchestratorAssumption DEF ListOrphans, NoRepair
  <2>2. {m \in repair.listed : Owner[m] \notin repair.handled} \subseteq Layers
    BY DEF TypeOK
  <2> QED
    BY <1>0, <1>3, <2>1, <2>2, GoToType, PointSets, Points, KraftSame DEF TypeOK, ListOrphans
<1>4. CASE Serve
  BY <1>0, <1>4, GoToType, PointSets, Points, KraftSame DEF TypeOK, Serve
<1>5. CASE Start
  BY <1>0, <1>5, GoToType, PointSets, Points, KraftSame DEF TypeOK, Start
<1>6. CASE Shutdown
  BY <1>0, <1>6, GoToType, PointSets, Points, KraftSame DEF TypeOK, Shutdown
<1> QED
  BY <1>1, <1>2, <1>3, <1>4, <1>5, <1>6

\* So do a crash, a cancellation, a new call and the guests.
LEMMA EnvironmentType ==
  ASSUME TypeOK,
         \/ Crash
         \/ \E k \in Calls : BeginInstantiate(k) \/ BeginKill(k) \/ Cancel(k)
         \/ \E m \in Layers : Guest(m)
  PROVE  TypeOK'
<1>1. CASE Crash
  <2>1. KraftTypeOK'
    BY <1>1 DEF Crash, TypeOK, KraftTypeOK
  <2>2. ProcTypeOK' /\ CallTypeOK'
    <3>1. "down" \in PointsOf(Main) /\ \A k \in Calls : "idle" \in PointsOf(k)
      BY PointSets
    <3>2. {"down", "idle"} \cap (DOMAIN StopAfter \cup {"attached"}) = {}
      BY Points
    <3> QED
      BY <1>1, <3>1, <3>2, PointSets, OrchestratorAssumption
         DEF Crash, ProcTypeOK, CallTypeOK, Procs
  <2> QED
    BY <1>1, <2>1, <2>2, OrchestratorAssumption DEF Crash, TypeOK, NoRepair
<1>2. ASSUME NEW k \in Calls, NEW point \in {"clearList", "markStopping"}, Begin(k, point)
      PROVE  TypeOK'
  <2>1. k \in Procs /\ point \in PointsOf(k) /\ point \in CallPoints \cup MainPoints
    BY PointSets DEF Procs
  <2>2. point \notin DOMAIN StopAfter \cup {"attached"}
    BY Points
  <2>3. ProcTypeOK' /\ CallTypeOK'
    BY <1>2, <2>1, <2>2 DEF TypeOK, ProcTypeOK, CallTypeOK, Begin, PointsOf
  <2> QED
    BY <1>2, <2>3, KraftSame DEF TypeOK, Begin
<1>3. ASSUME NEW k \in Calls, Cancel(k) PROVE TypeOK'
  <2>1. ProcTypeOK' /\ CallTypeOK'
    BY <1>3 DEF TypeOK, ProcTypeOK, CallTypeOK, Cancel, procVars, PointsOf
  <2> QED
    BY <1>3, <2>1, KraftSame DEF TypeOK, Cancel
<1>4. ASSUME NEW m \in Layers, Guest(m) PROVE TypeOK'
  <2>1. KraftTypeOK'
    BY <1>4, KraftStep DEF TypeOK, Guest
  <2>2. ProcTypeOK' /\ CallTypeOK'
    BY <1>4 DEF TypeOK, ProcTypeOK, CallTypeOK, Guest, procVars, callVars, PointsOf
  <2> QED
    BY <1>4, <2>1, <2>2 DEF TypeOK, Guest
<1> QED
  BY <1>1, <1>2, <1>3, <1>4 DEF BeginInstantiate, BeginKill

\* Every step keeps the types.
LEMMA TypeStep == TypeOK /\ [Next]_vars => TypeOK'
<1> SUFFICES ASSUME TypeOK, [Next]_vars PROVE TypeOK'
  OBVIOUS
<1>1. CASE UNCHANGED vars
  BY <1>1 DEF vars, TypeOK, KraftTypeOK, ProcTypeOK, CallTypeOK, PointsOf
<1>2. CASE Next
  BY <1>2, RemoveType, StartType, MainType, EnvironmentType DEF Next, CallStep, RepairStep, Procs
<1> QED
  BY <1>1, <1>2

\* The state of the orchestrator keeps its types, whatever the charts, the
\* layers, the calls and the faults (internal/engine as a whole).
THEOREM TypeCorrect == Spec => []TypeOK
BY InitType, TypeStep, PTL DEF Spec

-----------------------------------------------------------------------------
(* The inductive invariant.                                                *)

\* A status changes by itself at most as a guest's end or kraft's --rm change it.
Calm(m) == status'[m] # status[m] =>
  \/ status[m] = "running" /\ status'[m] = "exited"
  \/ m \in AutoRemove /\ status'[m] = "absent"

\* The step was not taken by p.
Stays(p) == at'[p] = at[p] /\ todo'[p] = todo[p] /\ cur'[p] = cur[p]

\* The invariant holds when the runner starts for the first time.
LEMMA InitInv == Init => IInv
<1> SUFFICES ASSUME Init PROVE IInv
  OBVIOUS
<1>1. TypeOK
  BY InitType
<1>2. RepairAlone /\ StoppedMeansDown
  BY OrchestratorAssumption DEF Init, RepairAlone, StoppedMeansDown, Procs
<1>3. ASSUME NEW p \in Procs PROVE Knows(p) /\ OwnLayers(p)
  <2>1. at[p] \in {"down", "idle"} /\ todo[p] = {}
    BY DEF Init
  <2> QED
    BY <2>1, Points DEF Knows, StoppedFirst, TearCovers, OwnLayers, ClearCovers, RowDeclares,
      BootCovers, BootPoints, TearPoints
<1> QED
  BY <1>1, <1>2, <1>3 DEF IInv, Procs

\* A process at rest relies on nothing.
LEMMA AtRest ==
  ASSUME NEW p \in Procs, at'[p] \in {"idle", "serving", "down", "repairList", "repairNext", "orphanStop"}
  PROVE  Knows(p)'
BY Points DEF Knows, StoppedFirst, TearCovers, ClearCovers, RowDeclares, BootCovers, BootPoints,
      TearPoints

\* What p knows survives the guests and whatever happens to other charts.
LEMMA Undisturbed ==
  ASSUME NEW p \in Procs, Knows(p), Stays(p), On(p)' = On(p), p \in Calls => OwnLayers(p),
         row'[On(p)] = row[On(p)], \A m \in LayersIn(On(p)) : Calm(m),
         at[p] \in DOMAIN StopAfter => Calm(cur[p])
  PROVE  Knows(p)'
<1>1. StoppedFirst(p)'
  BY DEF Knows, StoppedFirst, Stays, Calm
<1>2. TearCovers(p)'
  BY DEF Knows, TearCovers, Stays, Calm, Ahead, Quiet
<1>3. ASSUME p \in Calls PROVE ClearCovers(p)' /\ RowDeclares(p)' /\ BootCovers(p)'
  <2>1. On(p) = ChartOf[p]
    BY <1>3, OrchestratorAssumption DEF On
  <2>3. ClearCovers(p)'
    BY <1>3, <2>1 DEF Knows, ClearCovers, Stays, Calm, Ahead, Quiet, NoneRuns
  <2>4. RowDeclares(p)'
    BY <1>3, <2>1 DEF Knows, RowDeclares, Stays
  <2>5. BootCovers(p)'
    <3>1. \A m \in LayersIn(ChartOf[p]) : WasBooted(m) => WasBooted(m)'
      BY <2>1 DEF Calm, WasBooted
    <3>2. at[p] = "attached" => cur[p] \in LayersIn(ChartOf[p])
      BY <1>3 DEF OwnLayers
    <3> QED
      BY <1>3, <3>1, <3>2 DEF Knows, BootCovers, Stays
  <2> QED
    BY <2>3, <2>4, <2>5
<1> QED
  BY <1>1, <1>2, <1>3 DEF Knows

\* What a step of p leaves alone: the other processes, the rows of other
\* charts and, for a call, the machines of other charts.
Contained(p) ==
  /\ repair' = repair
  /\ \A q \in Procs \ {p} : Stays(q)
  /\ \A c \in Charts \ {On(p)} : row'[c] = row[c]
  /\ p \in Calls => \A m \in Layers \ LayersIn(On(p)) : status'[m] = status[m]

\* The step boots nothing.
NoneAppears == \A m \in Layers : status[m] = "absent" => status'[m] = "absent"

\* A process that moves leaves the control state of the others (each handler
\* has its own stack).
LEMMA MovesAlone ==
  ASSUME TypeOK, NEW p \in Procs,
         \/ \E pt, ms : GoTo(p, pt, ms)
         \/ \E m : GiveUp(p, m)
         \/ p \in Calls /\ (Abort(p) \/ \E r : Return(p, r))
  PROVE  \A q \in Procs \ {p} : Stays(q)
BY DEF GoTo, GiveUp, Abort, Return, Stays, TypeOK, ProcTypeOK

\* stop and rm create nothing and touch one machine (runMachineCmd).
LEMMA KraftFrame ==
  ASSUME TypeOK, NEW m \in Layers, StopMachine(m) \/ RmMachine(m) \/ UNCHANGED kraftVars
  PROVE  NoneAppears /\ \A n \in Layers \ {m} : status'[n] = status[n]
BY DEF TypeOK, KraftTypeOK, StopMachine, RmMachine, Becomes, kraftVars, NoneAppears

\* Removing machines stays within the chart of a call, or within the repair
\* (removeMachine, teardownChart).
LEMMA RemoveContained ==
  ASSUME TypeOK, NEW p \in Procs, p \in Calls => OwnLayers(p), Remove(p)
  PROVE  Contained(p) /\ NoneAppears
<1>1. CASE StopNext(p)
  <2>1. PICK m \in todo[p] :
          /\ StopMachine(m) \/ UNCHANGED kraftVars
          /\ \/ /\ at' = [at EXCEPT ![p] = RmAfter[at[p]]]
                /\ cur' = [cur EXCEPT ![p] = m]
                /\ UNCHANGED <<todo, callVars>>
             \/ GiveUp(p, m)
    BY <1>1 DEF StopNext
  <2>2. m \in Layers /\ (p \in Calls => m \in LayersIn(On(p)))
    BY OrchestratorAssumption DEF TypeOK, ProcTypeOK, OwnLayers, On
  <2>3. \A q \in Procs \ {p} : Stays(q)
    BY <2>1, MovesAlone DEF Stays, TypeOK, ProcTypeOK
  <2>4. NoneAppears /\ \A n \in Layers \ {m} : status'[n] = status[n]
    BY <2>1, <2>2, KraftFrame
  <2> QED
    BY <1>1, <2>2, <2>3, <2>4 DEF StopNext, Contained
<1>2. CASE RmCurrent(p)
  <2>1. cur[p] \in Layers /\ (p \in Calls => cur[p] \in LayersIn(On(p)))
    BY <1>2, OrchestratorAssumption DEF RmCurrent, TypeOK, ProcTypeOK, OwnLayers, On
  <2>2. \A q \in Procs \ {p} : Stays(q)
    BY <1>2, MovesAlone DEF RmCurrent
  <2>3. NoneAppears /\ \A n \in Layers \ {cur[p]} : status'[n] = status[n]
    BY <1>2, <2>1, KraftFrame DEF RmCurrent
  <2> QED
    BY <1>2, <2>1, <2>2, <2>3 DEF RmCurrent, Contained
<1>3. CASE TearList(p) \/ TornDown(p)
  <2>1. \A q \in Procs \ {p} : Stays(q)
    BY <1>3, MovesAlone DEF TearList, TornDown
  <2> QED
    BY <1>3, <2>1 DEF TearList, TornDown, Contained, NoneAppears, kraftVars
<1>4. CASE MarkStopped(p)
  <2>1. \A q \in Procs \ {p} : Stays(q)
    BY <1>4, MovesAlone DEF MarkStopped, Procs
  <2>2. \A c \in Charts \ {On(p)} : row'[c] = row[c]
    BY <1>4 DEF MarkStopped, Written, WriteFailed, TypeOK
  <2> QED
    BY <1>4, <2>1, <2>2 DEF MarkStopped, Contained, NoneAppears, kraftVars
<1> QED
  BY <1>1, <1>2, <1>3, <1>4 DEF Remove

\* Nor does any of a call's steps put a foreign machine before its loops.
LEMMA OwnStep ==
  ASSUME TypeOK, NEW k \in Calls, OwnLayers(k), CallStep(k)
  PROVE  OwnLayers(k)'
<1>0. /\ k \in Procs /\ On(k) = ChartOf[k] /\ k # Main
      /\ Machines(ChartOf[k]) \subseteq LayersIn(ChartOf[k])
  BY OrchestratorAssumption DEF Procs, On, Machines
<1>1. ASSUME NEW pt, NEW ms, GoTo(k, pt, ms), ms \subseteq LayersIn(ChartOf[k]),
             pt \notin DOMAIN StopAfter \cup {"attached"}
      PROVE  OwnLayers(k)'
  BY <1>0, <1>1 DEF GoTo, OwnLayers, TypeOK, ProcTypeOK
<1>2. ASSUME NEW r, Return(k, r) PROVE OwnLayers(k)'
  BY <1>0, <1>2, Points DEF Return, OwnLayers, TypeOK, ProcTypeOK
<1>3. ASSUME Abort(k) PROVE OwnLayers(k)'
  BY <1>0, <1>3, Points DEF Abort, OwnLayers, TypeOK, ProcTypeOK
<1>4. ASSUME NEW m \in todo[k], at' = [at EXCEPT ![k] = at'[k]], cur' = [cur EXCEPT ![k] = m], todo' = todo
      PROVE  OwnLayers(k)'
  BY <1>0, <1>4 DEF OwnLayers, TypeOK, ProcTypeOK
<1>5. ASSUME Remove(k) PROVE OwnLayers(k)'
  <2>1. \/ \E m : GiveUp(k, m)
        \/ \E m \in todo[k] : at' = [at EXCEPT ![k] = RmAfter[at[k]]] /\ cur' = [cur EXCEPT ![k] = m] /\ todo' = todo
        \/ at[k] \in DOMAIN StopAfter /\ GoTo(k, StopAfter[at[k]], todo[k] \ {cur[k]})
        \/ GoTo(k, "tearStop", Machines(On(k)))
        \/ GoTo(k, "markStopped", {})
        \/ \E r : Return(k, r)
    BY <1>0, <1>5 DEF Remove, StopNext, RmCurrent, TearList, TornDown, MarkStopped
  <2>2. ASSUME NEW m \in todo[k], at' = [at EXCEPT ![k] = RmAfter[at[k]]], cur' = [cur EXCEPT ![k] = m], todo' = todo
        PROVE  OwnLayers(k)'
    BY <1>0, <1>4, <2>2 DEF TypeOK, ProcTypeOK
  <2>3. ASSUME at[k] \in DOMAIN StopAfter, GoTo(k, StopAfter[at[k]], todo[k] \ {cur[k]})
        PROVE  OwnLayers(k)'
    <3>1. StopAfter[at[k]] \notin DOMAIN StopAfter \cup {"attached"}
      BY <2>3, Points
    <3> QED
      BY <1>1, <2>3, <3>1 DEF OwnLayers
  <2>4. GiveUp(k, NoLayer) \/ (\E m : GiveUp(k, m)) => OwnLayers(k)'
    BY <1>0, <1>2 DEF GiveUp
  <2> QED
    BY <1>0, <1>1, <1>2, <2>1, <2>2, <2>3, <2>4, Points
<1>6. CASE MarkStopping(k)
  BY <1>1, <1>2, <1>6, Points DEF MarkStopping
<1>7. CASE InstantiateStep(k)
  <2>1. CASE BootLayer(k)
    <3>1. PICK m \in Bootable(k) :
            \/ Abort(k)
            \/ GoTo(k, "boot", todo[k] \ {m})
            \/ at' = [at EXCEPT ![k] = "attached"] /\ cur' = [cur EXCEPT ![k] = m] /\ todo' = todo
      BY <2>1 DEF BootLayer
    <3>2. m \in todo[k] /\ todo[k] \ {m} \subseteq LayersIn(ChartOf[k])
      BY DEF Bootable, OwnLayers
    <3>3. CASE at' = [at EXCEPT ![k] = "attached"] /\ cur' = [cur EXCEPT ![k] = m] /\ todo' = todo
      BY <1>0, <1>4, <3>2, <3>3 DEF TypeOK, ProcTypeOK
    <3> QED
      BY <1>1, <1>3, <3>1, <3>2, <3>3, Points
  <2>2. CASE RunReturned(k)
    BY <1>1, <1>3, <2>2, Points DEF RunReturned, OwnLayers
  <2>3. CASE ClearList(k) \/ Cleared(k) \/ Resolve(k) \/ MarkStarting(k) \/ Booted(k) \/ MarkStarted(k)
    BY <1>0, <1>1, <1>2, <2>3, Points
       DEF ClearList, Cleared, Resolve, MarkStarting, Booted, MarkStarted
  <2> QED
    BY <1>7, <2>1, <2>2, <2>3 DEF InstantiateStep
<1> QED
  BY <1>5, <1>6, <1>7 DEF CallStep

\* A process on a chart whose callers keep apart has no rival there.
LEMMA ApartIsSolo == \A p \in Procs : Apart(On(p)) => Solo(p)
BY OrchestratorAssumption DEF On, Solo, Procs

\* Removing machines never makes a row that says stopped wrong.
LEMMA RemoveDown ==
  ASSUME IInv, NEW p \in Procs, Remove(p)
  PROVE  StoppedMeansDown'
<1>1. NoneAppears /\ Contained(p)
  BY RemoveContained DEF IInv
<1> SUFFICES ASSUME NEW c \in Charts, Apart(c), row'[c] = "stopped" PROVE Machines(c)' = {}
  BY DEF StoppedMeansDown
<1>2. CASE row[c] = "stopped"
  BY <1>1, <1>2 DEF IInv, StoppedMeansDown, NoneAppears, Machines, LayersIn
<1>3. CASE row[c] # "stopped"
  <2>1. MarkStopped(p) /\ c = On(p)
    BY <1>1, <1>3 DEF Remove, StopNext, RmCurrent, TearList, TornDown, Contained
  <2>2. Quiet(c)
    BY <2>1, ApartIsSolo DEF MarkStopped, IInv, Knows, TearCovers
  <2> QED
    BY <1>1, <2>2 DEF Quiet, NoneAppears, Machines, LayersIn
<1> QED
  BY <1>2, <1>3

\* After a removal step the process still knows what its point promises: the
\* loops cover the chart, and what was stopped does not run (teardownChart).
LEMMA RemoveKnows ==
  ASSUME IInv, TypeOK', NEW p \in Procs, Solo(p), Remove(p)
  PROVE  Knows(p)'
<1>0. TypeOK /\ Knows(p) /\ Contained(p) /\ NoneAppears /\ On(p)' = On(p)
  BY RemoveContained DEF IInv, Contained, On
<1>1. ASSUME at'[p] \in {"idle", "repairNext", "orphanStop"} PROVE Knows(p)'
  BY <1>1, AtRest
<1>2. ASSUME NEW m, GiveUp(p, m) PROVE Knows(p)'
  BY <1>0, <1>1, <1>2 DEF GiveUp, GoTo, Return, TypeOK, ProcTypeOK
<1>3. CASE StopNext(p)
  <2>1. PICK m \in todo[p] :
          \/ /\ StopMachine(m)
             /\ at' = [at EXCEPT ![p] = RmAfter[at[p]]]
             /\ cur' = [cur EXCEPT ![p] = m]
             /\ UNCHANGED <<todo, callVars>>
          \/ GiveUp(p, m)
    BY <1>3 DEF StopNext
  <2> SUFFICES ASSUME StopMachine(m), at' = [at EXCEPT ![p] = RmAfter[at[p]]],
                      cur' = [cur EXCEPT ![p] = m], todo' = todo
               PROVE  Knows(p)'
    BY <1>2, <2>1
  <2>2. /\ m \in Layers
        /\ status' = [status EXCEPT ![m] = "exited"] /\ status[m] # "absent"
        /\ at[p] \in {"clearStop", "tearStop", "orphanStop"}
        /\ at'[p] = RmAfter[at[p]] /\ cur'[p] = m
    BY <1>0, <1>3, Points DEF StopMachine, Becomes, StopNext, TypeOK, ProcTypeOK
  <2>3. StoppedFirst(p)'
    BY <1>0, <2>2 DEF StoppedFirst, TypeOK, KraftTypeOK
  <2>4. TearCovers(p)'
    BY <1>0, <2>2, Points DEF TearCovers, Knows, Ahead, TypeOK, KraftTypeOK, LayersIn
  <2>5. ASSUME p \in Calls
        PROVE  ClearCovers(p)' /\ RowDeclares(p)' /\ BootCovers(p)'
    <3>2. ClearCovers(p)'
      BY <1>0, <2>2, <2>5, Points
         DEF Knows, ClearCovers, Ahead, NoneRuns, TypeOK, KraftTypeOK, LayersIn
    <3>3. RowDeclares(p)' /\ BootCovers(p)'
      BY <1>0, <1>3, <2>2, <2>5, Points
         DEF Knows, RowDeclares, BootCovers, TearPoints, BootPoints, StopNext
    <3> QED
      BY <3>2, <3>3
  <2> QED
    BY <2>3, <2>4, <2>5 DEF Knows
<1>4. CASE RmCurrent(p)
  <2> SUFFICES ASSUME RmMachine(cur[p]), GoTo(p, StopAfter[at[p]], todo[p] \ {cur[p]})
               PROVE  Knows(p)'
    BY <1>2, <1>4 DEF RmCurrent
  <2>1. /\ cur[p] \in Layers
        /\ status' = [status EXCEPT ![cur[p]] = "absent"]
        /\ at[p] \in {"clearRm", "tearRm", "orphanRm"}
        /\ at'[p] = StopAfter[at[p]] /\ todo'[p] = todo[p] \ {cur[p]}
    BY <1>0, <1>4, Points DEF RmMachine, Becomes, RmCurrent, GoTo, TypeOK, ProcTypeOK
  <2>2. StoppedFirst(p)'
    BY <2>1, Points DEF StoppedFirst
  <2>3. TearCovers(p)'
    BY <1>0, <2>1, Points DEF TearCovers, Knows, Ahead, TypeOK, KraftTypeOK, LayersIn
  <2>4. ASSUME p \in Calls
        PROVE  ClearCovers(p)' /\ RowDeclares(p)' /\ BootCovers(p)'
    <3>2. ClearCovers(p)'
      BY <1>0, <2>1, <2>4, Points
         DEF Knows, ClearCovers, Ahead, NoneRuns, TypeOK, KraftTypeOK, LayersIn
    <3>3. RowDeclares(p)' /\ BootCovers(p)'
      BY <1>0, <1>4, <2>1, <2>4, Points
         DEF Knows, RowDeclares, BootCovers, TearPoints, BootPoints, RmCurrent
    <3> QED
      BY <3>2, <3>3
  <2> QED
    BY <2>2, <2>3, <2>4 DEF Knows
<1>5. CASE TearList(p) \/ TornDown(p)
  <2> SUFFICES ASSUME \/ at[p] = "tearList" /\ GoTo(p, "tearStop", Machines(On(p)))
                      \/ at[p] = "tearStop" /\ todo[p] = {} /\ GoTo(p, "markStopped", {}),
                      UNCHANGED <<row, status>>
               PROVE  Knows(p)'
    BY <1>2, <1>5 DEF TearList, TornDown, kraftVars
  <2>1. /\ at'[p] \in {"tearStop", "markStopped"}
        /\ todo'[p] \subseteq LayersIn(On(p))
        /\ at[p] \in TearPoints
    BY <1>0 DEF GoTo, TypeOK, ProcTypeOK, Machines, TearPoints
  <2>2. StoppedFirst(p)'
    BY <2>1, Points DEF StoppedFirst
  <2>3. TearCovers(p)'
    BY <1>0 DEF GoTo, TypeOK, ProcTypeOK, TearCovers, Knows, Ahead, Quiet, Machines
  <2>4. ASSUME p \in Calls
        PROVE  ClearCovers(p)' /\ RowDeclares(p)' /\ BootCovers(p)'
    <3>1. On(p) = ChartOf[p]
      BY <2>4, OrchestratorAssumption DEF On
    <3> QED
      BY <1>0, <2>1, <2>4, <3>1, Points
         DEF Knows, ClearCovers, RowDeclares, BootCovers, TearPoints, BootPoints
  <2> QED
    BY <2>2, <2>3, <2>4 DEF Knows
<1>6. CASE MarkStopped(p)
  <2>1. CASE GiveUp(p, NoLayer)
    BY <1>2, <2>1
  <2>2. CASE p = Main /\ GoTo(p, "repairNext", {})
    BY <1>0, <1>1, <2>2 DEF GoTo, TypeOK, ProcTypeOK
  <2>3. CASE p # Main /\ Return(p, IF aborting[p] THEN "failed" ELSE "ok")
    BY <1>0, <1>1, <2>3 DEF Return, TypeOK, ProcTypeOK, Procs
  <2> QED
    BY <1>6, <2>1, <2>2, <2>3 DEF MarkStopped
<1> QED
  BY <1>3, <1>4, <1>5, <1>6 DEF Remove

\* Booting stays within the chart of the call (InstantiateChart).
LEMMA StartContained ==
  ASSUME TypeOK, NEW k \in Calls, OwnLayers(k), InstantiateStep(k) \/ MarkStopping(k)
  PROVE  Contained(k)
<1>0. k \in Procs /\ On(k) = ChartOf[k]
  BY OrchestratorAssumption DEF Procs, On
<1>1. repair' = repair
  BY DEF InstantiateStep, MarkStopping, ClearList, Cleared, Resolve, MarkStarting, BootLayer,
         RunReturned, Booted, MarkStarted
<1>2. \A q \in Procs \ {k} : Stays(q)
  <2>1. CASE BootLayer(k)
    BY <1>0, <2>1 DEF BootLayer, GoTo, Abort, Stays, TypeOK, ProcTypeOK
  <2>2. CASE ~BootLayer(k)
    BY <1>0, <2>2, MovesAlone
       DEF InstantiateStep, MarkStopping, ClearList, Cleared, Resolve, MarkStarting,
           RunReturned, Booted, MarkStarted
  <2> QED
    BY <2>1, <2>2
<1>3. \A c \in Charts \ {On(k)} : row'[c] = row[c]
  BY <1>0 DEF InstantiateStep, MarkStopping, ClearList, Cleared, Resolve, MarkStarting, BootLayer,
         RunReturned, Booted, MarkStarted, Written, WriteFailed, TypeOK
<1>4. \A m \in Layers \ LayersIn(On(k)) : status'[m] = status[m]
  <2>1. CASE BootLayer(k)
    <3>1. PICK m \in Bootable(k) :
            UNCHANGED kraftVars \/ RunDetached(m) \/ RunAttached(k, m) \/ RunFailed(m)
      BY <2>1 DEF BootLayer
    <3>2. m \in LayersIn(On(k))
      BY <1>0 DEF Bootable, OwnLayers
    <3> QED
      BY <3>1, <3>2 DEF RunDetached, RunAttached, RunFailed, Becomes, kraftVars, TypeOK, KraftTypeOK
  <2>2. CASE ~BootLayer(k)
    BY <2>2 DEF InstantiateStep, MarkStopping, ClearList, Cleared, Resolve, MarkStarting,
         RunReturned, Booted, MarkStarted, kraftVars
  <2> QED
    BY <2>1, <2>2
<1> QED
  BY <1>1, <1>2, <1>3, <1>4 DEF Contained

\* A boot never contradicts a row that says stopped: it has its own say
\* starting (InstantiateChart writes ChartStarting before its loops).
LEMMA StartDown ==
  ASSUME IInv, NEW k \in Calls, InstantiateStep(k) \/ MarkStopping(k)
  PROVE  StoppedMeansDown'
<1>0. k \in Procs /\ On(k) = ChartOf[k] /\ TypeOK
  BY OrchestratorAssumption DEF Procs, On, IInv
<1>1. Contained(k)
  BY <1>0, StartContained DEF IInv
<1> SUFFICES ASSUME NEW c \in Charts, Apart(c), row'[c] = "stopped" PROVE Machines(c)' = {}
  BY DEF StoppedMeansDown
<1>2. CASE c # ChartOf[k]
  <2>1. row[c] = "stopped" /\ \A m \in LayersIn(c) : status'[m] = status[m]
    BY <1>0, <1>1, <1>2 DEF Contained, LayersIn
  <2> QED
    BY <2>1 DEF IInv, StoppedMeansDown, Machines, LayersIn
<1>3. CASE c = ChartOf[k]
  <2>0. Knows(k)
    BY <1>0, <1>3, ApartIsSolo DEF IInv
  <2>1. row[c] = "stopped" /\ UNCHANGED status
    <3>1. CASE BootLayer(k)
      BY <1>0, <1>3, <2>0, <3>1 DEF BootLayer, Knows, RowDeclares, BootPoints
    <3>2. CASE ~BootLayer(k)
      BY <1>3, <3>2
         DEF InstantiateStep, MarkStopping, ClearList, Cleared, Resolve, MarkStarting,
             RunReturned, Booted, MarkStarted, kraftVars, Written, WriteFailed, TypeOK, IInv
    <3> QED
      BY <3>1, <3>2
  <2> QED
    BY <2>1 DEF IInv, StoppedMeansDown, Machines, LayersIn
<1> QED
  BY <1>2, <1>3

\* After a step of InstantiateChart the call still knows what its point promises.
LEMMA StartKnows ==
  ASSUME IInv, NEW k \in Calls, Solo(k), InstantiateStep(k) \/ MarkStopping(k)
  PROVE  Knows(k)'
<1>0. /\ k \in Procs /\ On(k) = ChartOf[k] /\ On(k)' = ChartOf[k] /\ ChartOf[k] \in Charts
      /\ TypeOK /\ Knows(k) /\ OwnLayers(k)
  BY OrchestratorAssumption DEF Procs, On, IInv
<1>1. ASSUME NEW r, Return(k, r) PROVE Knows(k)'
  BY <1>0, <1>1, AtRest DEF Return, TypeOK, ProcTypeOK
<1>2. ASSUME \/ Abort(k)
             \/ GoTo(k, "tearList", {}) /\ row'[ChartOf[k]] = "stopping"
             \/ GoTo(k, "resolve", {}) /\ Quiet(ChartOf[k])'
             \/ GoTo(k, "markStarting", {}) /\ Quiet(ChartOf[k])'
      PROVE  Knows(k)'
  <2>1. /\ at'[k] \in {"markStopping", "tearList", "resolve", "markStarting"}
        /\ todo'[k] = {}
        /\ at'[k] = "tearList" => row'[ChartOf[k]] = "stopping"
        /\ at'[k] \in {"resolve", "markStarting"} => Quiet(ChartOf[k])'
    BY <1>0, <1>2 DEF Abort, GoTo, TypeOK, ProcTypeOK
  <2> QED
    BY <2>1, Points DEF Knows, StoppedFirst, TearCovers, ClearCovers, RowDeclares,
      BootCovers, BootPoints, TearPoints
<1>3. ASSUME at'[k] \in BootPoints, row'[ChartOf[k]] = "starting",
             \A m \in LayersIn(ChartOf[k]) \ todo'[k] : WasBooted(m)',
             at'[k] = "attached" => WasBooted(cur[k])',
             at'[k] = "markStarted" => todo'[k] = {}
      PROVE  Knows(k)'
  <2>1. at'[k] \notin DOMAIN StopAfter \cup TearPoints \cup {"clearStop", "clearRm", "resolve", "markStarting"}
    BY <1>3, Points DEF BootPoints, TearPoints
  <2> QED
    BY <1>3, <2>1, Points DEF Knows, StoppedFirst, TearCovers, ClearCovers, RowDeclares,
      BootCovers, TearPoints
<1>4. CASE MarkStopping(k)
  BY <1>0, <1>1, <1>2, <1>4 DEF MarkStopping, Written, TypeOK
<1>5. CASE ClearList(k)
  <2> SUFFICES ASSUME GoTo(k, "clearStop", Machines(ChartOf[k])), UNCHANGED <<row, status>>,
                      NoneRuns(ChartOf[k])
               PROVE  Knows(k)'
    BY <1>1, <1>5 DEF ClearList, Machines, NoneRuns, kraftVars
  <2>1. at'[k] = "clearStop" /\ todo'[k] = Machines(ChartOf[k])
    BY <1>0 DEF GoTo, TypeOK, ProcTypeOK
  <2>2. StoppedFirst(k)' /\ TearCovers(k)' /\ RowDeclares(k)' /\ BootCovers(k)'
    BY <2>1, Points DEF StoppedFirst, TearCovers, RowDeclares, BootCovers, BootPoints,
      TearPoints, Machines
  <2>3. ClearCovers(k)'
    BY <2>1 DEF ClearCovers, Ahead, NoneRuns, Machines
  <2> QED
    BY <2>2, <2>3 DEF Knows
<1>6. CASE Cleared(k)
  <2>1. Quiet(ChartOf[k])'
    BY <1>0, <1>6 DEF Cleared, Knows, ClearCovers, Ahead, Quiet, kraftVars
  <2> QED
    BY <1>2, <1>6, <2>1 DEF Cleared
<1>7. CASE Resolve(k)
  <2>1. Quiet(ChartOf[k])'
    BY <1>0, <1>7 DEF Resolve, Knows, ClearCovers, Quiet, kraftVars
  <2> QED
    BY <1>1, <1>2, <1>7, <2>1 DEF Resolve
<1>8. CASE MarkStarting(k)
  <2> SUFFICES ASSUME Written(k, ChartOf[k], "starting"), GoTo(k, "boot", LayersIn(ChartOf[k]))
               PROVE  Knows(k)'
    BY <1>1, <1>8 DEF MarkStarting
  <2> QED
    BY <1>0, <1>3 DEF Written, GoTo, TypeOK, ProcTypeOK, BootPoints
<1>9. CASE BootLayer(k)
  <2>1. PICK m \in Bootable(k) :
          \/ Abort(k)
          \/ RunDetached(m) /\ GoTo(k, "boot", todo[k] \ {m})
          \/ /\ RunAttached(k, m)
             /\ at' = [at EXCEPT ![k] = "attached"]
             /\ cur' = [cur EXCEPT ![k] = m]
             /\ UNCHANGED <<todo, callVars>>
    BY <1>9 DEF BootLayer
  <2> SUFFICES ASSUME \/ RunDetached(m) /\ at'[k] = "boot" /\ todo'[k] = todo[k] \ {m}
                      \/ RunAttached(k, m) /\ at'[k] = "attached" /\ cur'[k] = m /\ todo'[k] = todo[k]
               PROVE  Knows(k)'
    BY <1>0, <1>2, <2>1 DEF GoTo, TypeOK, ProcTypeOK
  <2>2. /\ m \in todo[k] /\ m \in Layers /\ status' = [status EXCEPT ![m] = "running"]
        /\ at[k] = "boot" /\ row' = row
    BY <1>0, <1>9 DEF RunDetached, RunAttached, Bootable, BootLayer, TypeOK, ProcTypeOK
  <2>3. WasBooted(m)' /\ \A n \in LayersIn(ChartOf[k]) \ todo[k] : WasBooted(n)'
    BY <1>0, <2>2 DEF WasBooted, Knows, BootCovers, BootPoints, TypeOK, KraftTypeOK, LayersIn
  <2>4. row'[ChartOf[k]] = "starting"
    BY <1>0, <2>2 DEF Knows, RowDeclares, BootPoints
  <2> QED
    BY <1>3, <2>2, <2>3, <2>4 DEF BootPoints
<1>10. CASE RunReturned(k) \/ Booted(k)
  <2> SUFFICES ASSUME \/ at[k] = "attached" /\ GoTo(k, "boot", todo[k] \ {cur[k]})
                      \/ at[k] = "boot" /\ todo[k] = {} /\ GoTo(k, "markStarted", {}),
                      UNCHANGED <<row, status>>
               PROVE  Knows(k)'
    BY <1>2, <1>10 DEF RunReturned, Booted, kraftVars
  <2>1. /\ at'[k] \in {"boot", "markStarted"} /\ todo'[k] \subseteq todo[k]
        /\ at'[k] = "markStarted" => todo'[k] = {}
        /\ \A m \in todo[k] \ todo'[k] : at[k] = "attached" /\ m = cur[k]
    BY <1>0 DEF GoTo, TypeOK, ProcTypeOK
  <2>2. \A m \in LayersIn(ChartOf[k]) \ todo'[k] : WasBooted(m)'
    BY <1>0, <2>1 DEF Knows, BootCovers, BootPoints, WasBooted
  <2>3. row'[ChartOf[k]] = "starting"
    BY <1>0, <2>1 DEF Knows, RowDeclares, BootPoints
  <2> QED
    BY <1>3, <2>1, <2>2, <2>3 DEF BootPoints
<1>11. CASE MarkStarted(k)
  BY <1>1, <1>11 DEF MarkStarted
<1> QED
  BY <1>4, <1>5, <1>6, <1>7, <1>8, <1>9, <1>10, <1>11 DEF InstantiateStep

\* Every step keeps the invariant.
LEMMA InvStep == IInv /\ [Next]_vars => IInv'
<1> SUFFICES ASSUME IInv, [Next]_vars PROVE IInv'
  OBVIOUS
<1>0. /\ TypeOK /\ TypeOK' /\ RepairAlone
      /\ \A k \in Calls : OwnLayers(k)
      /\ \A p \in Procs : Solo(p) => Knows(p)
      /\ Solo(Main)
  BY TypeStep, OrchestratorAssumption DEF IInv, Solo
<1>00. ASSUME NEW k \in Calls, todo'[k] = todo[k], cur'[k] = cur[k], at'[k] = at[k] \/ at'[k] \in {"clearList", "markStopping"}
       PROVE  OwnLayers(k)'
  BY <1>0, <1>00, Points DEF OwnLayers
<1>1. ASSUME NEW k \in Calls, CallStep(k) PROVE IInv'
  <2>1. /\ k \in Procs /\ Main \in Procs /\ Main # k /\ On(k) = ChartOf[k]
        /\ at[k] # "idle"
    BY <1>1, OrchestratorAssumption, Points
       DEF Procs, On, CallStep, Remove, InstantiateStep, StopNext, RmCurrent, TearList, TornDown,
           MarkStopped, MarkStopping, ClearList, Cleared, Resolve, MarkStarting, BootLayer,
           RunReturned, Booted, MarkStarted
  <2>2. at[Main] = "serving"
    BY <1>0, <2>1 DEF RepairAlone
  <2>3. Contained(k) /\ StoppedMeansDown' /\ (Solo(k) => Knows(k)')
    BY <1>0, <1>1, <2>1, RemoveContained, RemoveDown, RemoveKnows, StartContained, StartDown,
       StartKnows DEF CallStep
  <2>4. at'[Main] = "serving"
    BY <2>1, <2>2, <2>3 DEF Contained, Stays
  <2>5. ASSUME NEW q \in Procs, q # k, Solo(q) PROVE Knows(q)'
    <3>1. CASE q = Main
      BY <2>1, <2>4, <3>1, OrchestratorAssumption, AtRest
    <3>2. CASE q \in Calls
      <4>1. On(q) = ChartOf[q] /\ On(q)' = ChartOf[q] /\ ChartOf[q] \in Charts
        BY <3>2, OrchestratorAssumption DEF On
      <4>2. ChartOf[q] # ChartOf[k]
        BY <2>5, <3>2 DEF Solo, Apart
      <4>3. Stays(q) /\ row'[On(q)] = row[On(q)]
        BY <2>1, <2>3, <2>5, <4>1, <4>2 DEF Contained
      <4>4. \A m \in LayersIn(On(q)) : Calm(m)
        BY <2>1, <2>3, <4>1, <4>2 DEF Contained, LayersIn, Calm
      <4>5. at[q] \in DOMAIN StopAfter => Calm(cur[q])
        BY <1>0, <3>2, <4>1, <4>4 DEF OwnLayers
      <4> QED
        BY <1>0, <2>5, <4>1, <4>3, <4>4, <4>5, Undisturbed
    <3> QED
      BY <3>1, <3>2 DEF Procs
  <2>6. \A q \in Calls : OwnLayers(q)'
    BY <1>0, <1>00, <1>1, <2>1, <2>3, OwnStep DEF Contained, Stays, Procs
  <2>7. \A q \in Procs : Solo(q) => Knows(q)'
    BY <2>3, <2>5
  <2>8. RepairAlone'
    BY <2>4 DEF RepairAlone
  <2> QED
    BY <1>0, <2>3, <2>6, <2>7, <2>8 DEF IInv, Solo
<1>2. ASSUME NEW k \in Calls, BeginInstantiate(k) \/ BeginKill(k) \/ Cancel(k) PROVE IInv'
  <2>1. /\ k \in Procs /\ Main \in Procs /\ Main # k
        /\ UNCHANGED <<status, row, repair, todo, cur>>
        /\ \A q \in Procs \ {k} : at'[q] = at[q]
    BY <1>0, <1>2, OrchestratorAssumption
       DEF Procs, BeginInstantiate, BeginKill, Begin, Cancel, kraftVars, procVars, TypeOK, ProcTypeOK
  <2>2. ASSUME NEW p \in Procs, Solo(p), at'[p] = at[p] PROVE Knows(p)'
    BY <1>0, <2>1, <2>2, Undisturbed DEF Stays, On, Calm
  <2>3. at'[k] = at[k] \/ (at'[k] \in {"clearList", "markStopping"} /\ at[k] = "idle")
    BY <1>0, <1>2, <2>1 DEF BeginInstantiate, BeginKill, Begin, Cancel, procVars, TypeOK, ProcTypeOK
  <2>33. \A q \in Calls : OwnLayers(q)'
    BY <1>00, <2>1, <2>3 DEF Procs
  <2>4. CASE at'[k] \in {"clearList", "markStopping"} /\ at[k] = "idle"
    <3>2. Knows(k)'
      BY <2>4, Points DEF Knows, StoppedFirst, TearCovers, ClearCovers, RowDeclares,
        BootCovers, BootPoints, TearPoints
    <3>3. at'[Main] = "serving"
      BY <1>2, <2>1, <2>4 DEF BeginInstantiate, BeginKill, Begin, Cancel, procVars
    <3>4. StoppedMeansDown'
      BY <2>1 DEF IInv, StoppedMeansDown, Machines
    <3> QED
      BY <1>0, <2>1, <2>2, <2>33, <3>2, <3>3, <3>4 DEF IInv, RepairAlone, Solo
  <2>5. CASE at'[k] = at[k]
    <3>1. StoppedMeansDown' /\ RepairAlone'
      BY <1>0, <2>1, <2>5 DEF IInv, StoppedMeansDown, Machines, RepairAlone, Procs
    <3> QED
      BY <1>0, <2>1, <2>2, <2>33, <2>5, <3>1 DEF IInv, Solo
  <2> QED
    BY <2>3, <2>4, <2>5
<1>3. ASSUME RepairStep \/ Start \/ Shutdown PROVE IInv'
  <2>1. Main \in Procs /\ \A k \in Calls : k \in Procs /\ k # Main
    BY OrchestratorAssumption DEF Procs
  <2>2. \A k \in Calls : at[k] = "idle"
    BY <1>0, <1>3, Points DEF RepairStep, Start, Shutdown, Remove, StopNext, RmCurrent, TearList, TornDown,
      MarkStopped, RepairList, RepairNext, ListOrphans, Serve, RepairAlone
  <2>3. \A k \in Calls : Stays(k)
    <3>1. CASE Remove(Main)
      BY <1>0, <2>1, <3>1, RemoveContained DEF Contained
    <3>2. CASE ~Remove(Main)
      BY <1>0, <1>3, <2>1, <3>2, MovesAlone
         DEF RepairStep, Start, Shutdown, RepairList, RepairNext, ListOrphans, Serve
    <3> QED
      BY <3>1, <3>2
  <2>4. ASSUME NEW k \in Calls PROVE Knows(k)' /\ OwnLayers(k)' /\ at'[k] = "idle"
    <3>1. at'[k] = "idle" /\ OwnLayers(k)'
      BY <1>00, <2>2, <2>3 DEF Stays
    <3> QED
      BY <2>1, <3>1, AtRest
  <2>5. Knows(Main)' /\ StoppedMeansDown'
    <3>1. CASE Remove(Main)
      BY <1>0, <2>1, <3>1, RemoveKnows, RemoveDown
    <3>2. CASE ~Remove(Main)
      <4>1. UNCHANGED <<row, status>>
        BY <1>3, <3>2 DEF RepairStep, Start, Shutdown, RepairList, RepairNext, ListOrphans, Serve,
           kraftVars
      <4>2. at'[Main] \in {"down", "repairList", "repairNext", "tearList", "orphanStop", "serving"}
        BY <1>0, <1>3, <2>1, <3>2 DEF RepairStep, Start, Shutdown, RepairList, RepairNext, ListOrphans,
           Serve, GoTo, TypeOK, ProcTypeOK
      <4>3. Knows(Main)'
        BY <2>1, <4>2, Points DEF Knows, StoppedFirst, TearCovers
      <4> QED
        BY <4>1, <4>3 DEF IInv, StoppedMeansDown, Machines
    <3> QED
      BY <3>1, <3>2
  <2> QED
    BY <1>0, <2>4, <2>5 DEF IInv, RepairAlone, Procs
<1>4. CASE Crash
  <2>1. \A p \in Procs : at'[p] \in {"down", "idle"} /\ todo'[p] = {}
    BY <1>4 DEF Crash
  <2>2. \A p \in Procs : Knows(p)'
    BY <2>1, AtRest
  <2>3. StoppedMeansDown'
    BY <1>4 DEF Crash, IInv, StoppedMeansDown, Machines
  <2>4. RepairAlone'
    BY <1>4, OrchestratorAssumption DEF Crash, RepairAlone, Procs
  <2>5. \A k \in Calls : OwnLayers(k)'
    BY <2>1, Points DEF OwnLayers, Procs
  <2> QED
    BY <1>0, <2>2, <2>3, <2>4, <2>5 DEF IInv
<1>5. ASSUME NEW m \in Layers, Guest(m) PROVE IInv'
  <2>1. /\ \A n \in Layers : Calm(n)
        /\ NoneAppears
        /\ UNCHANGED <<at, todo, cur, row, repair>>
    BY <1>0, <1>5 DEF Guest, GuestExit, AutoRm, Becomes, Calm, NoneAppears, procVars, TypeOK, KraftTypeOK
  <2>2. ASSUME NEW p \in Procs, Solo(p) PROVE Knows(p)'
    <3>1. at[p] \in DOMAIN StopAfter => Calm(cur[p])
      BY <1>0, <2>1 DEF TypeOK, ProcTypeOK
    <3>2. On(p)' = On(p) /\ Stays(p) /\ \A n \in LayersIn(On(p)) : Calm(n)
      BY <2>1 DEF On, Stays, LayersIn
    <3> QED
      BY <1>0, <2>1, <2>2, <3>1, <3>2, Undisturbed
  <2>3. StoppedMeansDown' /\ RepairAlone'
    BY <1>0, <2>1 DEF IInv, StoppedMeansDown, Machines, LayersIn, NoneAppears, RepairAlone
  <2>4. \A k \in Calls : OwnLayers(k)'
    BY <1>00, <2>1
  <2> QED
    BY <1>0, <2>2, <2>3, <2>4 DEF IInv, Solo
<1>6. CASE UNCHANGED vars
  <2>1. ASSUME NEW p \in Procs, Solo(p) PROVE Knows(p)'
    BY <1>0, <1>6, <2>1, Undisturbed DEF vars, Stays, On, Calm
  <2>2. StoppedMeansDown' /\ RepairAlone'
    BY <1>0, <1>6 DEF vars, IInv, StoppedMeansDown, Machines, RepairAlone
  <2>3. \A k \in Calls : OwnLayers(k)'
    BY <1>00, <1>6 DEF vars
  <2> QED
    BY <1>0, <2>1, <2>2, <2>3 DEF IInv, Solo
<1> QED
  BY <1>1, <1>2, <1>3, <1>4, <1>5, <1>6 DEF Next

\* IInv, the inductive invariant, holds in every behaviour (InstantiateChart,
\* KillChart, Reconcile together).
THEOREM Invariance == Spec => []IInv
BY InitInv, InvStep, PTL DEF Spec

\* A row that says stopped is never wrong, under any faults, cancellations and
\* crashes, for a chart whose callers keep apart, whatever the callers of other
\* charts do (chart_state as Reconcile reads it: `if state == ChartStopped').
THEOREM StoppedIsDown == Spec => []StoppedMeansDown
<1>1. IInv => StoppedMeansDown
  BY DEF IInv
<1> QED
  BY <1>1, Invariance, PTL

-----------------------------------------------------------------------------
(* Consequences of the invariant for what one step does.                   *)

\* A step of the runner that ends a running layer is Reconcile's or is covered
\* by a durable stopping (KillChart and abortStart write it before teardownChart).
LEMMA StepDeclares ==
  ASSUME IInv, Next, NEW m \in Layers, RunnerStep, Apart(Owner[m]),
         status[m] = "running", status'[m] # "running"
  PROVE  at[Main] # "serving" \/ row[Owner[m]] = "stopping"
<1>0. /\ TypeOK
      /\ \A k \in Calls : OwnLayers(k)
      /\ \A p \in Procs : Solo(p) => Knows(p)
  BY DEF IInv
<1>1. ASSUME NEW p \in Procs, Remove(p) PROVE at[Main] # "serving" \/ row[Owner[m]] = "stopping"
  <2>1. CASE p = Main
    BY <1>1, <2>1, Points DEF Remove, StopNext, RmCurrent, TearList, TornDown, MarkStopped
  <2>2. CASE p \in Calls
    <3>1. CASE StopNext(p)
      <4>1. m \in todo[p] /\ at[p] \in {"clearStop", "tearStop", "orphanStop"}
        BY <1>0, <3>1, KraftFrame, Points DEF StopNext, TypeOK, ProcTypeOK
      <4>2. /\ m \in LayersIn(ChartOf[p]) /\ Owner[m] = ChartOf[p] /\ at[p] # "orphanStop"
            /\ Knows(p)
        BY <1>0, <2>2, <4>1, PointSets DEF OwnLayers, LayersIn, Solo, TypeOK, ProcTypeOK
      <4>3. at[p] # "clearStop"
        BY <1>0, <2>2, <3>1, <4>2 DEF Knows, ClearCovers, NoneRuns
      <4> QED
        BY <1>0, <2>2, <4>1, <4>2, <4>3 DEF Knows, RowDeclares, TearPoints
    <3>2. CASE RmCurrent(p)
      <4>1. cur[p] \in Layers
        BY <1>0, <3>2 DEF RmCurrent, TypeOK, ProcTypeOK
      <4>2. \A n \in Layers \ {cur[p]} : status'[n] = status[n]
        BY <1>0, <3>2, <4>1, KraftFrame DEF RmCurrent
      <4>3. m = cur[p] => status[m] # "running"
        BY <1>0, <2>2, <3>2 DEF RmCurrent, OwnLayers, LayersIn, Solo, Knows, StoppedFirst
      <4> QED
        BY <4>2, <4>3
    <3>3. CASE TearList(p) \/ TornDown(p) \/ MarkStopped(p)
      BY <3>3 DEF TearList, TornDown, MarkStopped, kraftVars
    <3> QED
      BY <1>1, <3>1, <3>2, <3>3 DEF Remove
  <2> QED
    BY <2>1, <2>2 DEF Procs
<1>2. ASSUME NEW k \in Calls, BootLayer(k) PROVE FALSE
  <2>1. PICK n \in Bootable(k) :
          UNCHANGED kraftVars \/ RunDetached(n) \/ RunAttached(k, n) \/ RunFailed(n)
    BY <1>2 DEF BootLayer
  <2>2. n \in Layers
    BY <1>0 DEF Bootable, TypeOK, ProcTypeOK, Procs
  <2> QED
    BY <1>0, <2>1, <2>2 DEF RunDetached, RunAttached, RunFailed, Becomes, kraftVars, TypeOK, KraftTypeOK
<1>3. ASSUME NEW k \in Calls, MarkStopping(k) \/ InstantiateStep(k) PROVE FALSE
  BY <1>2, <1>3 DEF MarkStopping, InstantiateStep, ClearList, Cleared, Resolve, MarkStarting,
    RunReturned, Booted, MarkStarted, kraftVars
<1>4. ASSUME NEW k \in Calls, BeginInstantiate(k) \/ BeginKill(k) \/ Cancel(k) PROVE FALSE
  BY <1>4 DEF BeginInstantiate, BeginKill, Begin, Cancel, kraftVars
<1>5. CASE RepairList \/ RepairNext \/ ListOrphans \/ Serve \/ Start \/ Shutdown \/ Crash
  BY <1>5 DEF RepairList, RepairNext, ListOrphans, Serve, Start, Shutdown, Crash, kraftVars
<1>6. ASSUME NEW n \in Layers, Guest(n) PROVE FALSE
  BY <1>6 DEF Guest, RunnerStep
<1> QED
  BY <1>1, <1>3, <1>4, <1>5, <1>6 DEF Next, CallStep, RepairStep, Procs

\* No handler takes a running layer down before "stopping" is durable for its
\* chart (KillChart, abortStart), when the chart's callers keep apart.
THEOREM TakedownDeclared == Spec => TakedownIsDeclared
<1>1. IInv /\ [Next]_vars =>
        [\A m \in Layers :
           RunnerStep /\ Apart(Owner[m]) /\ status[m] = "running" /\ status'[m] # "running"
             => at[Main] # "serving" \/ row[Owner[m]] = "stopping"]_vars
  BY StepDeclares
<1> QED
  BY <1>1, Invariance, PTL DEF Spec, TakedownIsDeclared

\* A write to one row is seen as a write to that row, or not at all.
LEMMA RowSeen ==
  ASSUME TypeOK, NEW c \in Charts, NEW s, row' = [row EXCEPT ![c] = s]
  PROVE  /\ c \in ApartCharts => ApartRow' = [ApartRow EXCEPT ![c] = s]
         /\ c \notin ApartCharts => ApartRow' = ApartRow
BY DEF TypeOK, ApartRow, ApartCharts

\* So is a machine that changes status.
LEMMA StatusSeen ==
  ASSUME TypeOK, NEW m \in Layers, NEW s, status' = [status EXCEPT ![m] = s]
  PROVE  /\ m \in ApartLayers => ApartStatus' = [ApartStatus EXCEPT ![m] = s]
         /\ m \notin ApartLayers => ApartStatus' = ApartStatus
BY DEF TypeOK, KraftTypeOK, ApartStatus, ApartLayers

\* What the contract sees of a row, a machine and a chart's layers.
LEMMA Seen ==
  /\ \A c \in ApartCharts : c \in Charts /\ Apart(c) /\ ApartRow[c] = row[c]
  /\ \A m \in ApartLayers : /\ m \in Layers /\ Owner[m] \in ApartCharts
                            /\ ApartStatus[m] = status[m]
  /\ \A m \in Layers : m \in ApartLayers <=> Apart(Owner[m])
  /\ \A c \in ApartCharts : Contract!LayersIn(c) = LayersIn(c) /\ LayersIn(c) \subseteq ApartLayers
  /\ UNCHANGED row => UNCHANGED ApartRow
  /\ UNCHANGED status => UNCHANGED ApartStatus
BY OrchestratorAssumption DEF ApartCharts, ApartLayers, ApartRow, ApartStatus, LayersIn, Contract!LayersIn

\* The contract allows each change of a machine a step can make.
LEMMA MachineSeen ==
  ASSUME TypeOK, NEW m \in Layers, UNCHANGED row,
         \/ StopMachine(m)
         \/ Becomes(m, "absent") /\ (Apart(Owner[m]) => status[m] = "exited")
         \/ /\ RunDetached(m) \/ (\E k \in Calls : RunAttached(k, m)) \/ RunFailed(m)
            /\ Apart(Owner[m]) => row[Owner[m]] = "starting"
  PROVE  Contract!Next \/ UNCHANGED <<ApartRow, ApartStatus>>
<1>0. UNCHANGED ApartRow
  BY Seen
<1>1. PICK s : status' = [status EXCEPT ![m] = s]
  BY DEF TypeOK, KraftTypeOK, StopMachine, Becomes, RunDetached, RunAttached, RunFailed, kraftVars
<1>2. CASE m \notin ApartLayers
  BY <1>0, <1>1, <1>2, StatusSeen
<1>3. CASE m \in ApartLayers /\ status' # status
  <2>1. /\ ApartStatus' = [ApartStatus EXCEPT ![m] = status'[m]] /\ ApartStatus[m] = status[m]
        /\ ApartRow[Owner[m]] = row[Owner[m]] /\ Apart(Owner[m]) /\ status'[m] # status[m]
    BY <1>1, <1>3, StatusSeen, Seen DEF TypeOK, KraftTypeOK
  <2>2. CASE StopMachine(m)
    <3>1. status[m] = "running" /\ status'[m] = "exited"
      BY <2>1, <2>2 DEF StopMachine, Becomes, TypeOK, KraftTypeOK, Statuses
    <3>2. Contract!Halt(m)
      BY <1>0, <2>1, <3>1 DEF Contract!Halt
    <3> QED
      BY <1>3, <3>2 DEF Contract!Next
  <2>3. CASE Becomes(m, "absent") /\ status[m] = "exited"
    <3>1. Contract!Vanish(m)
      BY <1>0, <2>1, <2>3 DEF Contract!Vanish, Becomes, TypeOK, KraftTypeOK
    <3> QED
      BY <1>3, <3>1 DEF Contract!Next
  <2>4. CASE /\ RunDetached(m) \/ (\E k \in Calls : RunAttached(k, m)) \/ RunFailed(m)
             /\ row[Owner[m]] = "starting"
    <3>1. status[m] = "absent" /\ status'[m] \in {"running", "exited"}
      BY <1>3, <2>4 DEF RunDetached, RunAttached, RunFailed, Becomes, kraftVars, TypeOK, KraftTypeOK
    <3>2. Contract!Boot(m)
      BY <1>0, <2>1, <2>4, <3>1 DEF Contract!Boot
    <3> QED
      BY <1>3, <3>2 DEF Contract!Next
  <2> QED
    BY <2>1, <2>2, <2>3, <2>4
<1> QED
  BY <1>0, <1>2, <1>3, Seen

\* The contract allows each write of a row a process can make.
LEMMA DeclareSeen ==
  ASSUME TypeOK, NEW p \in Procs, NEW s \in {"starting", "started", "stopping", "stopped"},
         Written(p, On(p), s) \/ WriteFailed(p, On(p), s), UNCHANGED status,
         Apart(On(p)) /\ s \in {"starting", "stopped"} => Quiet(On(p)),
         Apart(On(p)) /\ s = "started" => \A m \in LayersIn(On(p)) : WasBooted(m)
  PROVE  Contract!Next \/ UNCHANGED <<ApartRow, ApartStatus>>
<1>0. On(p) \in Charts /\ UNCHANGED ApartStatus
  BY OnChart, Seen
<1>1. CASE row' = [row EXCEPT ![On(p)] = s] /\ On(p) \in ApartCharts
  <2>1. ApartRow' = [ApartRow EXCEPT ![On(p)] = s] /\ Apart(On(p))
    BY <1>0, <1>1, RowSeen, Seen
  <2>2. \A m \in Contract!LayersIn(On(p)) : m \in LayersIn(On(p)) /\ ApartStatus[m] = status[m]
    BY <1>1, Seen
  <2>3. Contract!Declare(On(p), s)
    BY <1>0, <2>1, <2>2 DEF Contract!Declare, Contract!AllDown, Contract!AllBooted, Quiet, WasBooted
  <2> QED
    BY <1>1, <2>3 DEF Contract!Next
<1>2. CASE row' = [row EXCEPT ![On(p)] = s] /\ On(p) \notin ApartCharts
  BY <1>0, <1>2, RowSeen
<1> QED
  BY <1>0, <1>1, <1>2, Seen DEF Written, WriteFailed

\* Every step is one of ChartContract's, or changes nothing the contract sees.
LEMMA StepKeepsContract ==
  ASSUME IInv, Next
  PROVE  Contract!Next \/ UNCHANGED <<ApartRow, ApartStatus>>
<1>0. /\ TypeOK
      /\ \A k \in Calls : OwnLayers(k)
      /\ \A p \in Procs : Apart(On(p)) => Knows(p)
  BY ApartIsSolo DEF IInv
<1>1. UNCHANGED <<row, status>> => UNCHANGED <<ApartRow, ApartStatus>>
  BY Seen
<1>2. ASSUME NEW p \in Procs, Remove(p)
      PROVE  Contract!Next \/ UNCHANGED <<ApartRow, ApartStatus>>
  <2>1. CASE StopNext(p)
    <3>1. PICK m \in todo[p] : StopMachine(m) \/ UNCHANGED kraftVars
      BY <2>1 DEF StopNext
    <3>2. m \in Layers /\ UNCHANGED row
      BY <1>0, <2>1 DEF TypeOK, ProcTypeOK, StopNext
    <3> QED
      BY <1>0, <1>1, <3>1, <3>2, MachineSeen DEF kraftVars
  <2>2. CASE RmCurrent(p)
    <3>1. cur[p] \in Layers /\ UNCHANGED row
      BY <1>0, <2>2 DEF RmCurrent, TypeOK, ProcTypeOK
    <3>2. Apart(Owner[cur[p]]) => status[cur[p]] # "running"
      <4>1. Apart(Owner[cur[p]]) => Solo(p)
        BY <1>0, <2>2 DEF RmCurrent, OwnLayers, LayersIn, Solo
      <4> QED
        BY <2>2, <4>1 DEF IInv, Knows, StoppedFirst, RmCurrent
    <3>3. CASE RmMachine(cur[p])
      <4>1. Apart(Owner[cur[p]]) => status[cur[p]] = "exited"
        BY <1>0, <3>1, <3>2, <3>3 DEF RmMachine, TypeOK, KraftTypeOK, Statuses
      <4> QED
        BY <1>0, <3>1, <3>3, <4>1, MachineSeen DEF RmMachine
    <3> QED
      BY <1>1, <2>2, <3>1, <3>3 DEF RmCurrent, kraftVars
  <2>3. CASE TearList(p) \/ TornDown(p)
    BY <1>1, <2>3 DEF TearList, TornDown, kraftVars
  <2>4. CASE MarkStopped(p)
    <3>1. (Apart(On(p)) => Quiet(On(p))) /\ UNCHANGED status
      BY <1>0, <2>4 DEF MarkStopped, Knows, TearCovers, kraftVars
    <3>2. Written(p, On(p), "stopped") \/ WriteFailed(p, On(p), "stopped")
      BY <2>4 DEF MarkStopped
    <3> QED
      BY <1>0, <3>1, <3>2, DeclareSeen
  <2> QED
    BY <1>2, <2>1, <2>2, <2>3, <2>4 DEF Remove
<1>3. ASSUME NEW k \in Calls, MarkStopping(k) \/ InstantiateStep(k)
      PROVE  Contract!Next \/ UNCHANGED <<ApartRow, ApartStatus>>
  <2>0. k \in Procs /\ On(k) = ChartOf[k]
    BY OrchestratorAssumption DEF Procs, On
  <2>1. CASE MarkStopping(k)
    BY <1>0, <2>0, <2>1, DeclareSeen DEF MarkStopping, kraftVars
  <2>2. CASE MarkStarting(k)
    <3>1. (Apart(On(k)) => Quiet(On(k))) /\ UNCHANGED status
      BY <1>0, <2>0, <2>2 DEF MarkStarting, Knows, ClearCovers, kraftVars
    <3>2. Written(k, On(k), "starting") \/ WriteFailed(k, On(k), "starting")
      BY <2>0, <2>2 DEF MarkStarting
    <3> QED
      BY <1>0, <2>0, <3>1, <3>2, DeclareSeen
  <2>3. CASE MarkStarted(k)
    <3>1. UNCHANGED status /\ (Apart(On(k)) => \A m \in LayersIn(On(k)) : WasBooted(m))
      BY <1>0, <2>0, <2>3 DEF MarkStarted, Knows, BootCovers, BootPoints, kraftVars
    <3>2. Written(k, On(k), "started") \/ WriteFailed(k, On(k), "started")
      BY <2>0, <2>3 DEF MarkStarted
    <3> QED
      BY <1>0, <2>0, <3>1, <3>2, DeclareSeen
  <2>4. CASE BootLayer(k)
    <3>1. PICK m \in Bootable(k) :
            UNCHANGED kraftVars \/ RunDetached(m) \/ RunAttached(k, m) \/ RunFailed(m)
      BY <2>4 DEF BootLayer
    <3>2. /\ m \in Layers /\ UNCHANGED row
          /\ Apart(Owner[m]) => row[Owner[m]] = "starting"
      BY <1>0, <2>0, <2>4 DEF BootLayer, Bootable, Knows, OwnLayers, LayersIn, RowDeclares, BootPoints
    <3> QED
      BY <1>0, <1>1, <3>1, <3>2, MachineSeen DEF kraftVars
  <2>5. CASE ClearList(k) \/ Cleared(k) \/ Resolve(k) \/ RunReturned(k) \/ Booted(k)
    BY <1>1, <2>5 DEF ClearList, Cleared, Resolve, RunReturned, Booted, kraftVars
  <2> QED
    BY <1>3, <2>1, <2>2, <2>3, <2>4, <2>5 DEF InstantiateStep
<1>4. ASSUME NEW k \in Calls, BeginInstantiate(k) \/ BeginKill(k) \/ Cancel(k)
      PROVE  UNCHANGED <<ApartRow, ApartStatus>>
  BY <1>1, <1>4 DEF BeginInstantiate, BeginKill, Begin, Cancel, kraftVars
<1>5. CASE RepairList \/ RepairNext \/ ListOrphans \/ Serve \/ Start \/ Shutdown \/ Crash
  BY <1>1, <1>5 DEF RepairList, RepairNext, ListOrphans, Serve, Start, Shutdown, Crash, kraftVars
<1>6. ASSUME NEW m \in Layers, Guest(m) PROVE Contract!Next \/ UNCHANGED <<ApartRow, ApartStatus>>
  <2>1. CASE AutoRm(m)
    BY <1>0, <1>6, <2>1, MachineSeen DEF Guest, AutoRm
  <2>2. CASE GuestExit(m)
    <3>1. StopMachine(m)
      BY <2>2 DEF GuestExit, StopMachine
    <3> QED
      BY <1>0, <1>6, <3>1, MachineSeen DEF Guest
  <2> QED
    BY <1>6, <2>1, <2>2 DEF Guest
<1> QED
  BY <1>2, <1>3, <1>4, <1>5, <1>6 DEF Next, CallStep, RepairStep, Procs

\* The handlers and the repair implement ChartContract on the charts whose
\* callers keep apart (InstantiateChart, KillChart, abortStart, Reconcile).
THEOREM Implementation == Spec => RefinesContract
<1>1. Init => Contract!Init
  BY DEF Init, Contract!Init, Statuses, ApartRow, ApartStatus, ApartCharts, ApartLayers
<1>2. IInv /\ [Next]_vars => [Contract!Next]_<<ApartRow, ApartStatus>>
  <2>1. UNCHANGED vars => UNCHANGED <<ApartRow, ApartStatus>>
    BY Seen DEF vars
  <2> QED
    BY <2>1, StepKeepsContract
<1> QED
  BY <1>1, <1>2, Invariance, PTL DEF Spec, RefinesContract, Contract!Spec
=============================================================================
