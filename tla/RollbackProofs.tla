--------------------------- MODULE RollbackProofs ---------------------------
(***************************************************************************)
(* What a rollback and a repair leave behind, for every set of charts,     *)
(* layers and calls: CleanInv is inductive, and from it an abortStart and  *)
(* a Reconcile that meet no failing command take their charts down.        *)
(*                                                                         *)
(* The invariant needs no assumption on the faults.  Only RepairCovers and *)
(* the two theorems at the end ask that the process's own commands and     *)
(* statements succeed, as the properties do.                               *)
(***************************************************************************)
EXTENDS OrchestratorProofs

\* The points of the three loops.
LEMMA LoopPoints ==
  DOMAIN RmAfter \cup DOMAIN StopAfter
    = {"clearStop", "tearStop", "orphanStop", "clearRm", "tearRm", "orphanRm"}
BY Points

\* The parts of the invariant hold when the runner starts for the first time.
LEMMA InitClean == Init => CleanInv
<1> SUFFICES ASSUME Init PROVE CleanInv
  OBVIOUS
<1>1. /\ IInv
      /\ \A p \in Procs : at[p] \in {"down", "idle"}
      /\ at[Main] = "down" /\ \A k \in Calls : aborting[k] = FALSE
  BY InitInv DEF Init, Procs
<1>2. \A p \in Procs : LoopsMeetTheirs(p)
  BY <1>1, LoopPoints DEF LoopsMeetTheirs
<1>3. RepairLoops /\ ListingHolds /\ RepairCovers
  BY <1>1, Points DEF RepairLoops, ListingHolds, RepairCovers, TearPoints, OrphanPoints
<1>4. \A k \in Calls : AbortsTearDown(k)
  BY <1>1 DEF AbortsTearDown
<1> QED
  BY <1>1, <1>2, <1>3, <1>4 DEF CleanInv

\* What one round of a loop does: it stops a machine of the loop, removes the
\* one it stopped, or fails on one of them (removeMachine).
LEMMA Round ==
  ASSUME CleanInv, NEW p \in Procs, StopNext(p) \/ RmCurrent(p)
  PROVE  \E m \in todo[p] :
           /\ m \in Layers /\ row' = row /\ repair' = repair
           /\ \A n \in Layers \ {m} : status'[n] = status[n]
           /\ at[p] \in DOMAIN RmAfter \cup DOMAIN StopAfter
           /\ \/ /\ at[p] \in DOMAIN RmAfter
                 /\ status[m] # "absent" /\ status'[m] = "exited"
                 /\ at'[p] = RmAfter[at[p]] /\ cur'[p] = m /\ todo'[p] = todo[p]
                 /\ aborting' = aborting
              \/ /\ at[p] \in DOMAIN StopAfter
                 /\ status'[m] = "absent"
                 /\ GoTo(p, StopAfter[at[p]], todo[p] \ {m})
              \/ /\ GiveUp(p, m)
                 /\ Solo(p) /\ Kept(Owner[m]) => MayFail(p)
<1>0. /\ TypeOK /\ RepairLoops
      /\ \A k \in Calls : OwnLayers(k)
      /\ Solo(p) => Knows(p) /\ LoopsMeetTheirs(p)
  BY DEF CleanInv, IInv
<1>1. CASE StopNext(p)
  <2>1. PICK m \in todo[p] :
          \/ /\ ~CtxDone(p) /\ StopMachine(m)
             /\ at' = [at EXCEPT ![p] = RmAfter[at[p]]]
             /\ cur' = [cur EXCEPT ![p] = m]
             /\ UNCHANGED <<todo, callVars>>
          \/ /\ MayFail(p) \/ status[m] = "absent"
             /\ StopMachine(m) \/ UNCHANGED kraftVars
             /\ GiveUp(p, m)
    BY <1>1 DEF StopNext
  <2>2. /\ m \in Layers /\ row' = row /\ repair' = repair /\ at[p] \in DOMAIN RmAfter
    BY <1>0, <1>1 DEF StopNext, TypeOK, ProcTypeOK
  <2>3. \A n \in Layers \ {m} : status'[n] = status[n]
    BY <1>0, <2>1, <2>2, KraftFrame
  <2>4. Solo(p) /\ Kept(Owner[m]) => status[m] # "absent"
    BY <1>0, <2>2 DEF LoopsMeetTheirs
  <2>5. CASE /\ StopMachine(m)
             /\ at' = [at EXCEPT ![p] = RmAfter[at[p]]]
             /\ cur' = [cur EXCEPT ![p] = m]
             /\ UNCHANGED <<todo, callVars>>
    <3>1. /\ status[m] # "absent" /\ status'[m] = "exited"
          /\ at'[p] = RmAfter[at[p]] /\ cur'[p] = m /\ todo'[p] = todo[p] /\ aborting' = aborting
      BY <1>0, <2>2, <2>5 DEF StopMachine, Becomes, TypeOK, KraftTypeOK, ProcTypeOK, callVars
    <3> QED
      BY <2>2, <2>3, <3>1
  <2> QED
    BY <2>1, <2>2, <2>3, <2>4, <2>5
<1>2. CASE RmCurrent(p)
  <2>1. /\ row' = row /\ repair' = repair /\ at[p] \in DOMAIN StopAfter
        /\ cur[p] \in Layers /\ cur[p] \in todo[p]
    BY <1>0, <1>2 DEF RmCurrent, TypeOK, ProcTypeOK, OwnLayers, RepairLoops, Procs
  <2>2. \A n \in Layers \ {cur[p]} : status'[n] = status[n]
    BY <1>0, <1>2, <2>1, KraftFrame DEF RmCurrent
  <2>3. Solo(p) /\ Kept(Owner[cur[p]]) => status[cur[p]] = "exited"
    BY <1>0, <2>1 DEF LoopsMeetTheirs, Knows, StoppedFirst, TypeOK, KraftTypeOK, Statuses
  <2>4. CASE RmMachine(cur[p]) /\ GoTo(p, StopAfter[at[p]], todo[p] \ {cur[p]})
    <3>1. status'[cur[p]] = "absent"
      BY <1>0, <2>1, <2>4 DEF RmMachine, Becomes, TypeOK, KraftTypeOK
    <3> QED
      BY <2>1, <2>2, <2>4, <3>1
  <2>5. CASE GiveUp(p, cur[p]) /\ (MayFail(p) \/ status[cur[p]] # "exited")
    BY <2>1, <2>2, <2>3, <2>5
  <2> QED
    BY <1>2, <2>4, <2>5 DEF RmCurrent
<1> QED
  BY <1>1, <1>2

\* Where a process is after giving up.
LEMMA GivenUp ==
  ASSUME TypeOK, NEW p \in Procs, NEW m, GiveUp(p, m)
  PROVE  /\ p \in Calls => at'[p] = "idle"
         /\ p = Main => \/ at[p] \in TearPoints /\ at'[p] = "repairNext"
                        \/ at[p] \in OrphanPoints /\ at'[p] = "orphanStop"
                             /\ todo'[p] = todo[p] \ {m}
BY OrchestratorAssumption DEF GiveUp, GoTo, Return, TypeOK, ProcTypeOK, Procs

\* A removal loop meets its machines again after each of its rounds.
LEMMA RemoveMeets ==
  ASSUME CleanInv, NEW p \in Procs, Solo(p), Remove(p)
  PROVE  LoopsMeetTheirs(p)'
<1>0. TypeOK /\ LoopsMeetTheirs(p) /\ \A n \in todo[p] : n \in Layers
  BY DEF CleanInv, IInv, TypeOK, ProcTypeOK
<1>1. ASSUME at'[p] \notin DOMAIN RmAfter \cup DOMAIN StopAfter PROVE LoopsMeetTheirs(p)'
  BY <1>1 DEF LoopsMeetTheirs
<1>2. CASE StopNext(p) \/ RmCurrent(p)
  <2>1. PICK m \in todo[p] :
           /\ m \in Layers
           /\ \A n \in Layers \ {m} : status'[n] = status[n]
           /\ at[p] \in DOMAIN RmAfter \cup DOMAIN StopAfter
           /\ \/ status'[m] = "exited" /\ todo'[p] = todo[p]
              \/ GoTo(p, StopAfter[at[p]], todo[p] \ {m})
              \/ GiveUp(p, m)
    BY <1>2, Round
  <2>2. CASE status'[m] = "exited" /\ todo'[p] = todo[p]
    BY <1>0, <2>1, <2>2 DEF LoopsMeetTheirs
  <2>3. CASE todo'[p] = todo[p] \ {m}
    BY <1>0, <2>1, <2>3 DEF LoopsMeetTheirs
  <2>4. CASE at'[p] \in {"idle", "repairNext"}
    BY <1>1, <2>4, LoopPoints
  <2> QED
    BY <1>0, <2>1, <2>2, <2>3, <2>4, GivenUp DEF GoTo, TypeOK, ProcTypeOK, Procs
<1>3. CASE TearList(p)
  <2>1. CASE GoTo(p, "tearStop", Machines(On(p)))
    <3>1. todo'[p] = Machines(On(p)) /\ status' = status
      BY <1>0, <1>3, <2>1 DEF GoTo, TearList, kraftVars, TypeOK, ProcTypeOK
    <3> QED
      BY <3>1 DEF LoopsMeetTheirs, Machines
  <2>2. CASE GiveUp(p, NoLayer)
    <3>1. at'[p] \in {"idle", "repairNext"}
      BY <1>0, <1>3, <2>2, GivenUp DEF TearList, OrphanPoints, Procs
    <3> QED
      BY <1>1, <3>1, LoopPoints
  <2> QED
    BY <1>3, <2>1, <2>2 DEF TearList
<1>4. CASE TornDown(p) \/ MarkStopped(p)
  <2>1. at'[p] \in {"idle", "repairNext", "markStopped"}
    BY <1>0, <1>4, GivenUp DEF TornDown, MarkStopped, GoTo, Return, OrphanPoints, TypeOK, ProcTypeOK, Procs
  <2> QED
    BY <1>1, <2>1, LoopPoints
<1> QED
  BY <1>2, <1>3, <1>4, <1>0 DEF Remove

\* So does clearStaleMachines, which starts from what `kraft ps' lists.
LEMMA StartMeets ==
  ASSUME TypeOK, NEW k \in Calls, InstantiateStep(k) \/ MarkStopping(k)
  PROVE  LoopsMeetTheirs(k)'
<1>0. k \in Procs
  BY DEF Procs
<1>1. CASE ClearList(k) /\ at'[k] = "clearStop"
  <2>1. todo'[k] = Machines(ChartOf[k]) /\ status' = status
    BY <1>0, <1>1 DEF ClearList, GoTo, Return, kraftVars, TypeOK, ProcTypeOK
  <2> QED
    BY <2>1 DEF LoopsMeetTheirs, Machines
<1>2. CASE ~(ClearList(k) /\ at'[k] = "clearStop")
  <2>1. CASE BootLayer(k)
    <3>1. at'[k] \in {"markStopping", "boot", "attached"}
      BY <1>0, <2>1 DEF BootLayer, GoTo, Abort, TypeOK, ProcTypeOK
    <3> QED
      BY <3>1, LoopPoints DEF LoopsMeetTheirs
  <2>2. CASE ~BootLayer(k)
    <3>1. at'[k] \in {"idle", "resolve", "markStarting", "boot", "markStarted", "markStopping", "tearList"}
      BY <1>0, <1>2, <2>2
         DEF InstantiateStep, MarkStopping, ClearList, Cleared, Resolve, MarkStarting, RunReturned,
             Booted, MarkStarted, GoTo, Return, Abort, TypeOK, ProcTypeOK
    <3> QED
      BY <3>1, LoopPoints DEF LoopsMeetTheirs
  <2> QED
    BY <2>1, <2>2
<1> QED
  BY <1>1, <1>2

\* abortStart is entered at its head and left by returning.
LEMMA AbortStep ==
  ASSUME TypeOK, NEW k \in Calls, AbortsTearDown(k), CallStep(k)
  PROVE  AbortsTearDown(k)'
<1>0. /\ k \in Procs /\ k # Main
      /\ {"tearStop", "tearRm", "tearList", "markStopped"} = TearPoints
  BY OrchestratorAssumption DEF Procs, TearPoints
<1>1. ASSUME NEW r, Return(k, r) PROVE AbortsTearDown(k)'
  BY <1>1 DEF Return, AbortsTearDown, TypeOK, CallTypeOK
<1>2. ASSUME Abort(k) PROVE AbortsTearDown(k)'
  BY <1>0, <1>2 DEF Abort, AbortsTearDown, TypeOK, ProcTypeOK
<1>3. ASSUME aborting' = aborting, at[k] \in TearPoints \cup {"markStopping"} => at'[k] \in TearPoints
      PROVE  AbortsTearDown(k)'
  BY <1>3 DEF AbortsTearDown
<1>4. ASSUME NEW pt, NEW ms, GoTo(k, pt, ms), at[k] \in TearPoints \cup {"markStopping"} => pt \in TearPoints
      PROVE  AbortsTearDown(k)'
  BY <1>0, <1>3, <1>4 DEF GoTo, callVars, TypeOK, ProcTypeOK
<1>5. CASE Remove(k)
  <2>1. CASE \E m : GiveUp(k, m)
    BY <1>0, <1>1, <2>1 DEF GiveUp
  <2>2. CASE MarkStopped(k)
    BY <1>0, <1>1, <2>1, <2>2 DEF MarkStopped
  <2>3. CASE StopNext(k)
    <3>1. \/ \E m : GiveUp(k, m)
          \/ /\ at' = [at EXCEPT ![k] = RmAfter[at[k]]] /\ UNCHANGED callVars
             /\ at[k] \in DOMAIN RmAfter
      BY <2>3 DEF StopNext
    <3> QED
      BY <1>0, <1>3, <2>1, <3>1, Points DEF callVars, TypeOK, ProcTypeOK
  <2>4. CASE RmCurrent(k)
    <3>1. \/ \E m : GiveUp(k, m)
          \/ at[k] \in DOMAIN StopAfter /\ GoTo(k, StopAfter[at[k]], todo[k] \ {cur[k]})
      BY <2>4 DEF RmCurrent
    <3> QED
      BY <1>0, <1>4, <2>1, <3>1, Points
  <2>5. CASE TearList(k) \/ TornDown(k)
    BY <1>0, <1>4, <2>1, <2>5 DEF TearList, TornDown
  <2> QED
    BY <1>5, <2>2, <2>3, <2>4, <2>5 DEF Remove
<1>6. CASE MarkStopping(k)
  BY <1>0, <1>1, <1>4, <1>6 DEF MarkStopping
<1>7. CASE BootLayer(k)
  <2>1. \/ Abort(k)
        \/ at[k] = "boot" /\ aborting' = aborting
    BY <1>7 DEF BootLayer, GoTo, callVars
  <2> QED
    BY <1>0, <1>2, <1>3, <2>1
<1>8. CASE InstantiateStep(k) /\ ~BootLayer(k)
  BY <1>0, <1>1, <1>2, <1>4, <1>8
     DEF InstantiateStep, ClearList, Cleared, Resolve, MarkStarting, RunReturned, Booted, MarkStarted
<1> QED
  BY <1>5, <1>6, <1>7, <1>8 DEF CallStep

-----------------------------------------------------------------------------
(* The repair.                                                             *)

\* While Reconcile removes machines it stays with one chart, or with the
\* orphans it listed.
LEMMA RepairRemoves ==
  ASSUME CleanInv, Remove(Main)
  PROVE  /\ repair' = repair
         /\ \/ /\ at[Main] \in TearPoints
               /\ at'[Main] \in TearPoints \cup {"repairNext"}
               /\ at'[Main] \in TearPoints => todo'[Main] \subseteq LayersIn(repair.chart)
               /\ \A n \in Layers \ LayersIn(repair.chart) : status'[n] = status[n]
            \/ /\ at[Main] \in OrphanPoints /\ at'[Main] \in OrphanPoints
               /\ row' = row
         /\ at'[Main] \in DOMAIN StopAfter => cur'[Main] \in todo'[Main]
<1>0. /\ TypeOK /\ RepairLoops /\ Main \in Procs /\ Main \notin Calls
      /\ at[Main] \in PointsOf(Main) /\ On(Main) = repair.chart
  BY OrchestratorAssumption DEF CleanInv, IInv, TypeOK, ProcTypeOK, Procs, On
<1>1. CASE StopNext(Main) \/ RmCurrent(Main)
  <2>1. PICK m \in todo[Main] :
          /\ row' = row /\ repair' = repair
          /\ \A n \in Layers \ {m} : status'[n] = status[n]
          /\ at[Main] \in DOMAIN RmAfter \cup DOMAIN StopAfter
          /\ \/ /\ at[Main] \in DOMAIN RmAfter
                /\ at'[Main] = RmAfter[at[Main]] /\ cur'[Main] = m /\ todo'[Main] = todo[Main]
             \/ /\ at[Main] \in DOMAIN StopAfter
                /\ GoTo(Main, StopAfter[at[Main]], todo[Main] \ {m})
             \/ GiveUp(Main, m)
    BY <1>0, <1>1, Round
  <2>2. at[Main] \in {"tearStop", "tearRm", "orphanStop", "orphanRm"}
    BY <1>0, <2>1, LoopPoints, PointSets
  <2>3. \/ /\ at[Main] \in DOMAIN RmAfter
           /\ at'[Main] = RmAfter[at[Main]] /\ cur'[Main] = m /\ todo'[Main] = todo[Main]
        \/ /\ at[Main] \in DOMAIN StopAfter
           /\ at'[Main] = StopAfter[at[Main]] /\ todo'[Main] = todo[Main] \ {m}
        \/ at[Main] \in TearPoints /\ at'[Main] = "repairNext"
        \/ at[Main] \in OrphanPoints /\ at'[Main] = "orphanStop"
    BY <1>0, <2>1, GivenUp DEF GoTo, TypeOK, ProcTypeOK
  <2>4. at[Main] \in TearPoints => \A n \in Layers \ LayersIn(repair.chart) : status'[n] = status[n]
    BY <1>0, <2>1 DEF RepairLoops
  <2>5. at'[Main] \in DOMAIN StopAfter => cur'[Main] \in todo'[Main]
    BY <2>1, <2>2, <2>3, Points
  <2>6. CASE at[Main] \in {"tearStop", "tearRm"}
    <3>1. at'[Main] \in {"tearStop", "tearRm", "repairNext"}
      BY <2>3, <2>6, Points DEF OrphanPoints
    <3>2. at'[Main] # "repairNext" => todo'[Main] \subseteq todo[Main]
      BY <2>3, <2>6, Points DEF OrphanPoints
    <3> QED
      BY <1>0, <2>1, <2>4, <2>5, <2>6, <3>1, <3>2 DEF RepairLoops, TearPoints
  <2>7. CASE at[Main] \in {"orphanStop", "orphanRm"}
    <3>1. at'[Main] \in {"orphanStop", "orphanRm"}
      BY <2>3, <2>7, Points DEF TearPoints
    <3> QED
      BY <2>1, <2>5, <2>7, <3>1 DEF OrphanPoints
  <2> QED
    BY <2>2, <2>6, <2>7
<1>2. CASE TearList(Main) \/ TornDown(Main) \/ MarkStopped(Main)
  <2>1. /\ repair' = repair /\ status' = status /\ at[Main] \in TearPoints
        /\ at[Main] \notin OrphanPoints
    BY <1>2 DEF TearList, TornDown, MarkStopped, TearPoints, OrphanPoints, kraftVars
  <2>2. \/ GoTo(Main, "tearStop", Machines(repair.chart))
        \/ GoTo(Main, "markStopped", {})
        \/ GoTo(Main, "repairNext", {})
    BY <1>0, <1>2, <2>1 DEF TearList, TornDown, MarkStopped, GiveUp
  <2>3. /\ at'[Main] \in {"tearStop", "markStopped", "repairNext"}
        /\ todo'[Main] \subseteq LayersIn(repair.chart)
    BY <1>0, <2>2 DEF GoTo, Machines, TypeOK, ProcTypeOK
  <2> QED
    BY <2>1, <2>3, Points DEF TearPoints
<1> QED
  BY <1>1, <1>2 DEF Remove

\* The listing and the loops stand while Reconcile removes machines.
LEMMA RemoveListing ==
  ASSUME CleanInv, Remove(Main)
  PROVE  RepairLoops' /\ ListingHolds'
<1>0. RepairLoops /\ ListingHolds /\ TearPoints \cap OrphanPoints = {} /\ "repairNext" \notin OrphanPoints
  BY DEF CleanInv, TearPoints, OrphanPoints
<1>1. RepairLoops'
  BY <1>0, RepairRemoves DEF RepairLoops
<1>2. ListingHolds'
  <2> SUFFICES ASSUME at'[Main] \in {"repairNext"} \cup TearPoints,
                      NEW c \in Charts \ repair'.handled, Kept(c)
               PROVE  Machines(c)' = {m \in repair'.listed : Owner[m] = c}
    BY DEF ListingHolds
  <2>1. /\ repair' = repair /\ at[Main] \in TearPoints
        /\ \A n \in Layers \ LayersIn(repair.chart) : status'[n] = status[n]
    BY <1>0, RepairRemoves
  <2>2. c # repair.chart
    BY <1>0, <2>1 DEF RepairLoops
  <2>3. Machines(c)' = Machines(c)
    BY <2>1, <2>2 DEF Machines, LayersIn
  <2> QED
    BY <1>0, <2>1, <2>3 DEF ListingHolds
<1> QED
  BY <1>1, <1>2

\* A chart Reconcile is past stays down, and the one it takes down is down when
\* it leaves it: none of its commands fails there (teardownChart, Reconcile).
LEMMA RemoveCovers ==
  ASSUME CleanInv, RepairSucceeds, Remove(Main)
  PROVE  RepairCovers'
<1>0. /\ TypeOK /\ RepairLoops /\ RepairCovers /\ Knows(Main) /\ Solo(Main)
      /\ Main \in Procs /\ Main \notin Calls /\ On(Main) = repair.chart
      /\ ~MayFail(Main) /\ ~CtxDone(Main) /\ "store" \notin Faults
  BY OrchestratorAssumption DEF CleanInv, IInv, Procs, On, Solo, MayFail, CtxDone, RepairSucceeds
<1>1. /\ TearPoints = {"tearList", "tearStop", "tearRm", "markStopped"}
      /\ OrphanPoints = {"orphanStop", "orphanRm"}
  BY DEF TearPoints, OrphanPoints
<1> SUFFICES ASSUME NEW c \in Charts, Kept(c)
             PROVE  /\ at'[Main] \in {"repairNext"} \cup TearPoints =>
                         /\ row'[c] \in {"none", "stopped"} \/ c \in repair'.left \/ TakesDown(c)'
                         /\ c \in repair'.handled => Quiet(c)' \/ TakesDown(c)'
                    /\ at'[Main] \in OrphanPoints =>
                         row'[c] \in {"none", "stopped"} /\ Ahead(Main, c)'
  BY DEF RepairCovers
<1>2. CASE at[Main] \in TearPoints /\ c # repair.chart
  <2>1. /\ repair' = repair /\ at'[Main] \in TearPoints \cup {"repairNext"}
        /\ \A n \in LayersIn(c) : status'[n] = status[n]
    BY <1>1, <1>2, RepairRemoves DEF LayersIn
  <2>2. row'[c] = row[c]
    BY <1>0, <1>2, RemoveContained DEF Contained
  <2>3. /\ row[c] \in {"none", "stopped"} \/ c \in repair.left
        /\ c \in repair.handled => Quiet(c)
    BY <1>0, <1>2 DEF RepairCovers, TakesDown
  <2> QED
    BY <1>1, <2>1, <2>2, <2>3 DEF Quiet
<1>3. CASE at[Main] \in TearPoints /\ c = repair.chart
  <2>1. /\ repair' = repair /\ at'[Main] \in TearPoints \cup {"repairNext"}
    BY <1>1, <1>3, RepairRemoves
  <2>2. CASE at'[Main] \in TearPoints
    BY <1>1, <1>3, <2>1, <2>2 DEF TakesDown
  <2>3. CASE at'[Main] = "repairNext"
    <3>1. MarkStopped(Main)
      <4>1. CASE StopNext(Main) \/ RmCurrent(Main)
        <5>1. PICK m \in todo[Main] :
                /\ at[Main] \in DOMAIN RmAfter \cup DOMAIN StopAfter
                /\ \/ at[Main] \in DOMAIN RmAfter /\ at'[Main] = RmAfter[at[Main]]
                   \/ at[Main] \in DOMAIN StopAfter /\ GoTo(Main, StopAfter[at[Main]], todo[Main] \ {m})
                   \/ Kept(Owner[m]) => MayFail(Main)
          BY <1>0, <4>1, Round
        <5>2. Owner[m] = c
          BY <1>0, <1>3 DEF RepairLoops, LayersIn
        <5> QED
          BY <1>0, <2>3, <5>1, <5>2, Points DEF GoTo, TypeOK, ProcTypeOK
      <4>2. CASE TearList(Main) \/ TornDown(Main)
        BY <1>0, <2>3, <4>2 DEF TearList, TornDown, GoTo, TypeOK, ProcTypeOK
      <4> QED
        BY <4>1, <4>2 DEF Remove
    <3>2. row'[c] = "stopped" /\ status' = status
      BY <1>0, <1>3, <3>1 DEF MarkStopped, Written, WriteFailed, TypeOK, kraftVars
    <3>3. Quiet(c)'
      BY <1>0, <1>3, <3>1, <3>2 DEF MarkStopped, Knows, TearCovers, Quiet
    <3> QED
      BY <1>1, <2>3, <3>2, <3>3
  <2> QED
    BY <2>1, <2>2, <2>3
<1>4. CASE at[Main] \in OrphanPoints
  <2>1. row' = row /\ at'[Main] \in OrphanPoints
    BY <1>1, <1>4, RepairRemoves
  <2>2. row[c] \in {"none", "stopped"} /\ Ahead(Main, c)
    BY <1>0, <1>4 DEF RepairCovers
  <2>3. StopNext(Main) \/ RmCurrent(Main)
    BY <1>1, <1>4 DEF Remove, TearList, TornDown, MarkStopped
  <2>4. PICK m \in todo[Main] :
          /\ m \in Layers
          /\ \A n \in Layers \ {m} : status'[n] = status[n]
          /\ \/ status[m] # "absent" /\ todo'[Main] = todo[Main]
             \/ status'[m] = "absent" /\ GoTo(Main, StopAfter[at[Main]], todo[Main] \ {m})
             \/ GiveUp(Main, m) /\ ~Kept(Owner[m])
    BY <1>0, <2>3, Round
  <2>5. \/ todo'[Main] = todo[Main]
        \/ todo'[Main] = todo[Main] \ {m} /\ (status'[m] = "absent" \/ Owner[m] # c)
    BY <1>0, <1>1, <1>4, <2>4, GivenUp DEF GoTo, TypeOK, ProcTypeOK
  <2>6. Ahead(Main, c)'
    BY <2>2, <2>4, <2>5 DEF Ahead, LayersIn
  <2> QED
    BY <1>1, <2>1, <2>2, <2>6
<1> QED
  BY <1>2, <1>3, <1>4, RepairRemoves

\* The rest of New's repair keeps the parts about it: the listing is taken of
\* what is there, each chart is handled as it is taken up, and the orphans are
\* the machines no chart handled has (Reconcile).
LEMMA RepairStepClean ==
  ASSUME CleanInv, RepairList \/ RepairNext \/ ListOrphans \/ Serve \/ Start \/ Shutdown
  PROVE  /\ RepairLoops' /\ ListingHolds' /\ (RepairSucceeds => RepairCovers')
         /\ LoopsMeetTheirs(Main)' /\ aborting' = aborting
<1>0. /\ TypeOK /\ Main \in Procs /\ status' = status /\ row' = row /\ ListingHolds
      /\ RepairSucceeds => RepairCovers
      /\ TearPoints = {"tearList", "tearStop", "tearRm", "markStopped"}
      /\ OrphanPoints = {"orphanStop", "orphanRm"}
  BY DEF CleanInv, IInv, Procs, RepairList, RepairNext, ListOrphans, Serve, Start, Shutdown, kraftVars,
         TearPoints, OrphanPoints
<1>1. aborting' = aborting
  BY DEF RepairList, RepairNext, ListOrphans, Serve, Start, Shutdown, GoTo, callVars
<1>2. CASE at'[Main] \in {"down", "repairList", "serving"}
  BY <1>0, <1>1, <1>2, LoopPoints, Points DEF RepairLoops, ListingHolds, RepairCovers, LoopsMeetTheirs
<1>3. CASE RepairList /\ at'[Main] = "repairNext"
  <2>1. /\ repair'.left = {c \in Charts : row[c] \notin {"none", "stopped"}}
        /\ repair'.handled = {} /\ repair'.listed = {m \in Layers : status[m] # "absent"}
    BY <1>0, <1>3 DEF RepairList, GoTo, TypeOK, ProcTypeOK
  <2>2. \A c \in Charts : Machines(c)' = {m \in repair'.listed : Owner[m] = c}
    BY <1>0, <2>1 DEF Machines, LayersIn
  <2> QED
    BY <1>0, <1>1, <1>3, <2>1, <2>2, LoopPoints, Points
       DEF RepairLoops, ListingHolds, RepairCovers, LoopsMeetTheirs
<1>4. CASE RepairNext
  <2>1. PICK c \in repair.left :
          repair' = [chart   |-> c,
                     left    |-> repair.left \ {c},
                     handled |-> repair.handled \cup {c},
                     listed  |-> repair.listed]
    BY <1>4 DEF RepairNext
  <2>2. /\ repair'.chart = c /\ repair'.left = repair.left \ {c}
        /\ repair'.handled = repair.handled \cup {c} /\ repair'.listed = repair.listed
        /\ at[Main] = "repairNext" /\ at'[Main] = "tearList" /\ todo'[Main] = {}
    BY <1>0, <1>4, <2>1 DEF RepairNext, GoTo, TypeOK, ProcTypeOK
  <2>3. RepairLoops' /\ LoopsMeetTheirs(Main)'
    BY <2>2, LoopPoints, Points DEF RepairLoops, LoopsMeetTheirs
  <2>4. ListingHolds'
    <3>1. \A d \in Charts : Machines(d)' = Machines(d)
      BY <1>0 DEF Machines
    <3> QED
      BY <1>0, <2>2, <3>1 DEF ListingHolds
  <2>5. ASSUME RepairSucceeds PROVE RepairCovers'
    <3> SUFFICES ASSUME NEW d \in Charts, Kept(d)
                 PROVE  /\ row'[d] \in {"none", "stopped"} \/ d \in repair'.left \/ TakesDown(d)'
                        /\ d \in repair'.handled => Quiet(d)' \/ TakesDown(d)'
      BY <1>0, <2>2 DEF RepairCovers
    <3>1. /\ row[d] \in {"none", "stopped"} \/ d \in repair.left
          /\ d \in repair.handled => Quiet(d)
      BY <1>0, <2>2, <2>5 DEF RepairCovers, TakesDown
    <3>2. d = c => TakesDown(d)'
      BY <1>0, <2>2 DEF TakesDown
    <3> QED
      BY <1>0, <2>2, <3>1, <3>2 DEF Quiet
  <2> QED
    BY <1>1, <2>3, <2>4, <2>5
<1>5. CASE ListOrphans
  <2>1. /\ at[Main] = "repairNext" /\ repair.left = {} /\ at'[Main] = "orphanStop"
        /\ todo'[Main] = {m \in repair.listed : Owner[m] \notin repair.handled}
        /\ repair.listed \subseteq Layers
    BY <1>0, <1>5 DEF ListOrphans, GoTo, TypeOK, ProcTypeOK
  <2>2. RepairLoops' /\ ListingHolds'
    BY <1>0, <2>1, Points DEF RepairLoops, ListingHolds
  <2>3. \A c \in Charts \ repair.handled :
          Kept(c) => Machines(c) = {m \in repair.listed : Owner[m] = c}
    BY <2>1 DEF ListingHolds, CleanInv
  <2>4. LoopsMeetTheirs(Main)'
    <3> SUFFICES ASSUME NEW m \in todo'[Main], Kept(Owner[m]) PROVE status'[m] # "absent"
      BY DEF LoopsMeetTheirs
    <3>1. m \in Machines(Owner[m])
      BY <2>1, <2>3, OrchestratorAssumption
    <3> QED
      BY <1>0, <3>1 DEF Machines
  <2>5. ASSUME RepairSucceeds PROVE RepairCovers'
    <3> SUFFICES ASSUME NEW c \in Charts, Kept(c)
                 PROVE  row'[c] \in {"none", "stopped"} /\ Ahead(Main, c)'
      BY <1>0, <2>1 DEF RepairCovers
    <3>1. row[c] \in {"none", "stopped"} /\ (c \in repair.handled => Quiet(c))
      BY <1>0, <2>1, <2>5 DEF RepairCovers, TakesDown
    <3>2. ASSUME NEW m \in LayersIn(c), status[m] # "absent" PROVE m \in todo'[Main]
      <4>1. c \notin repair.handled
        BY <3>1, <3>2 DEF Quiet
      <4>2. m \in Machines(c) /\ Owner[m] = c
        BY <3>2 DEF Machines, LayersIn
      <4> QED
        BY <2>1, <2>3, <4>1, <4>2
    <3> QED
      BY <1>0, <3>1, <3>2 DEF Ahead
  <2> QED
    BY <1>1, <2>2, <2>4, <2>5
<1> QED
  <2>1. \/ at'[Main] \in {"down", "repairList", "serving"} \/ RepairNext \/ ListOrphans
        \/ RepairList /\ at'[Main] = "repairNext"
    BY <1>0 DEF RepairList, Serve, Start, Shutdown, GoTo, TypeOK, ProcTypeOK
  <2> QED
    BY <1>2, <1>3, <1>4, <1>5, <2>1

\* Reconcile does not run while Main serves or is down.
LEMMA NoRepairRuns ==
  ASSUME at'[Main] \in {"serving", "down"}
  PROVE  RepairLoops' /\ ListingHolds' /\ RepairCovers'
BY Points DEF RepairLoops, ListingHolds, RepairCovers, TearPoints, OrphanPoints

\* Every step keeps the invariant.
LEMMA CleanStep == CleanInv /\ [Next]_vars => CleanInv'
<1> SUFFICES ASSUME CleanInv, [Next]_vars PROVE CleanInv'
  OBVIOUS
<1>0. /\ IInv /\ IInv' /\ TypeOK
      /\ \A p \in Procs : Solo(p) => LoopsMeetTheirs(p)
      /\ \A k \in Calls : AbortsTearDown(k) /\ OwnLayers(k) /\ k \in Procs /\ k # Main
      /\ RepairLoops /\ ListingHolds /\ (RepairSucceeds => RepairCovers)
      /\ Main \in Procs /\ Solo(Main)
  BY InvStep, OrchestratorAssumption DEF CleanInv, IInv, Procs, Solo
<1>1. ASSUME NEW k \in Calls, CallStep(k) PROVE CleanInv'
  <2>1. at[k] # "idle"
    BY <1>1, Points
       DEF CallStep, Remove, InstantiateStep, StopNext, RmCurrent, TearList, TornDown,
           MarkStopped, MarkStopping, ClearList, Cleared, Resolve, MarkStarting, BootLayer,
           RunReturned, Booted, MarkStarted
  <2>2. Contained(k) /\ at[Main] = "serving"
    BY <1>0, <1>1, <2>1, RemoveContained, StartContained DEF CallStep, IInv, RepairAlone
  <2>3. at'[Main] = "serving"
    BY <1>0, <2>2 DEF Contained, Stays
  <2>4. ASSUME NEW q \in Procs, Solo(q) PROVE LoopsMeetTheirs(q)'
    <3>1. CASE q = k
      BY <1>0, <1>1, <2>4, <3>1, RemoveMeets, StartMeets DEF CallStep
    <3>2. CASE q = Main
      BY <2>3, <3>2, LoopPoints DEF LoopsMeetTheirs
    <3>3. CASE q \in Calls \ {k}
      <4>1. ChartOf[q] # ChartOf[k] /\ On(k) = ChartOf[k] /\ ChartOf[q] \in Charts
        BY <2>4, <3>3, OrchestratorAssumption DEF Solo, Apart, On
      <4>2. \A m \in LayersIn(ChartOf[q]) : status'[m] = status[m]
        BY <2>2, <4>1 DEF Contained, LayersIn
      <4> QED
        BY <1>0, <2>2, <2>4, <3>3, <4>2 DEF Contained, Stays, OwnLayers, LoopsMeetTheirs
    <3> QED
      BY <3>1, <3>2, <3>3 DEF Procs
  <2>5. ASSUME NEW q \in Calls PROVE AbortsTearDown(q)'
    <3>1. CASE q = k
      BY <1>0, <1>1, <3>1, AbortStep
    <3>2. CASE q # k
      <4>1. aborting'[q] = aborting[q]
        <5>1. \/ aborting' = aborting \/ Abort(k) \/ \E r : Return(k, r)
          <6>1. CASE Remove(k)
            BY <1>0, <6>1 DEF Remove, StopNext, RmCurrent, TearList, TornDown, MarkStopped, GiveUp,
              GoTo, callVars
          <6>2. CASE MarkStopping(k) \/ InstantiateStep(k)
            BY <6>2 DEF MarkStopping, InstantiateStep, ClearList, Cleared, Resolve, MarkStarting,
              BootLayer, RunReturned, Booted, MarkStarted, GoTo, callVars
          <6> QED
            BY <1>1, <6>1, <6>2 DEF CallStep
        <5> QED
          BY <1>0, <3>2, <5>1 DEF Abort, Return, TypeOK, CallTypeOK
      <4> QED
        BY <1>0, <2>2, <3>2, <4>1 DEF Contained, Stays, AbortsTearDown
    <3> QED
      BY <3>1, <3>2
  <2> QED
    BY <1>0, <2>3, <2>4, <2>5, NoRepairRuns DEF CleanInv, Solo
<1>2. ASSUME NEW k \in Calls, BeginInstantiate(k) \/ BeginKill(k) \/ Cancel(k) PROVE CleanInv'
  <2>1. /\ UNCHANGED <<status, row, repair, todo, cur, aborting>>
        /\ \A q \in Procs \ {k} : at'[q] = at[q]
        /\ at'[k] = at[k] \/ (at'[k] \in {"clearList", "markStopping"} /\ at[k] = "idle")
    BY <1>0, <1>2 DEF BeginInstantiate, BeginKill, Begin, Cancel, kraftVars, procVars, TypeOK, ProcTypeOK
  <2>2. \A p \in Procs : Solo(p) => LoopsMeetTheirs(p)'
    BY <1>0, <2>1, LoopPoints DEF LoopsMeetTheirs
  <2>3. \A q \in Calls : AbortsTearDown(q)'
    BY <1>0, <2>1 DEF AbortsTearDown, TearPoints
  <2>4. at'[Main] = at[Main]
    BY <1>0, <2>1
  <2>5. RepairLoops' /\ ListingHolds' /\ (RepairSucceeds => RepairCovers')
    BY <1>0, <2>1, <2>4 DEF RepairLoops, ListingHolds, RepairCovers, Machines, Quiet, Ahead, TakesDown
  <2> QED
    BY <1>0, <2>2, <2>3, <2>5 DEF CleanInv, Solo
<1>3. ASSUME RepairStep \/ Start \/ Shutdown PROVE CleanInv'
  <2>1. \A k \in Calls : at[k] = "idle"
    BY <1>0, <1>3, Points DEF RepairStep, Start, Shutdown, Remove, StopNext, RmCurrent, TearList,
      TornDown, MarkStopped, RepairList, RepairNext, ListOrphans, Serve, IInv, RepairAlone
  <2>2. \A k \in Calls : at'[k] = "idle"
    <3>1. CASE Remove(Main)
      BY <1>0, <2>1, <3>1, RemoveContained DEF Contained, Stays
    <3>2. CASE ~Remove(Main)
      BY <1>0, <1>3, <2>1, <3>2, MovesAlone
         DEF RepairStep, Start, Shutdown, RepairList, RepairNext, ListOrphans, Serve, Stays
    <3> QED
      BY <3>1, <3>2
  <2>3. /\ RepairLoops' /\ ListingHolds' /\ (RepairSucceeds => RepairCovers')
        /\ LoopsMeetTheirs(Main)' /\ aborting' = aborting
    <3>1. CASE Remove(Main)
      <4>1. aborting' = aborting
        BY <1>0, <3>1 DEF Remove, StopNext, RmCurrent, TearList, TornDown, MarkStopped, GiveUp,
          GoTo, callVars
      <4> QED
        BY <1>0, <3>1, <4>1, RemoveListing, RemoveCovers, RemoveMeets
    <3>2. CASE ~Remove(Main)
      BY <1>0, <1>3, <3>2, RepairStepClean DEF RepairStep
    <3> QED
      BY <3>1, <3>2
  <2>4. \A p \in Procs : LoopsMeetTheirs(p)'
    BY <2>2, <2>3, LoopPoints DEF LoopsMeetTheirs, Procs
  <2>5. \A k \in Calls : AbortsTearDown(k)'
    BY <1>0, <2>1, <2>3 DEF AbortsTearDown, TearPoints
  <2> QED
    BY <1>0, <2>3, <2>4, <2>5 DEF CleanInv
<1>4. CASE Crash
  <2>1. /\ \A p \in Procs : at'[p] \in {"down", "idle"}
        /\ at'[Main] = "down" /\ \A k \in Calls : aborting'[k] = FALSE
    BY <1>0, <1>4 DEF Crash
  <2>2. \A p \in Procs : LoopsMeetTheirs(p)'
    BY <2>1, LoopPoints DEF LoopsMeetTheirs
  <2>3. \A k \in Calls : AbortsTearDown(k)'
    BY <2>1 DEF AbortsTearDown
  <2> QED
    BY <1>0, <2>1, <2>2, <2>3, NoRepairRuns DEF CleanInv
<1>5. ASSUME UNCHANGED <<at, todo, cur, row, repair, aborting>>,
             \A m \in Layers : Kept(Owner[m]) => (status'[m] = "absent" <=> status[m] = "absent")
      PROVE  CleanInv'
  <2>1. \A p \in Procs : Solo(p) => LoopsMeetTheirs(p)'
    BY <1>0, <1>5 DEF LoopsMeetTheirs, TypeOK, ProcTypeOK
  <2>2. \A k \in Calls : AbortsTearDown(k)'
    BY <1>0, <1>5 DEF AbortsTearDown
  <2>3. \A c \in Charts : Kept(c) =>
          Machines(c)' = Machines(c) /\ (Quiet(c) => Quiet(c)') /\ (Ahead(Main, c) => Ahead(Main, c)')
    BY <1>5 DEF Machines, LayersIn, Quiet, Ahead
  <2>4. RepairLoops' /\ ListingHolds' /\ (RepairSucceeds => RepairCovers')
    <3>1. RepairLoops' /\ ListingHolds'
      BY <1>0, <1>5, <2>3 DEF RepairLoops, ListingHolds
    <3>2. \A c \in Charts : TakesDown(c)' = TakesDown(c)
      BY <1>5 DEF TakesDown
    <3>3. RepairSucceeds => RepairCovers'
      BY <1>0, <1>5, <2>3, <3>2 DEF RepairCovers
    <3> QED
      BY <3>1, <3>3
  <2> QED
    BY <1>0, <2>1, <2>2, <2>4 DEF CleanInv, Solo
<1>6. ASSUME NEW m \in Layers, Guest(m) PROVE CleanInv'
  <2>1. UNCHANGED <<at, todo, cur, row, repair, aborting>>
    BY <1>6 DEF Guest, procVars, callVars
  <2>2. \A n \in Layers : Kept(Owner[n]) => (status'[n] = "absent" <=> status[n] = "absent")
    BY <1>0, <1>6 DEF Guest, GuestExit, AutoRm, Becomes, Kept, LayersIn, TypeOK, KraftTypeOK
  <2> QED
    BY <1>5, <2>1, <2>2
<1>7. CASE UNCHANGED vars
  BY <1>5, <1>7 DEF vars
<1> QED
  BY <1>1, <1>2, <1>3, <1>4, <1>6, <1>7 DEF Next

\* The loops meet their machines and the listing of Reconcile stands, under any
\* faults, in every behaviour (removeMachine, abortStart, Reconcile).
THEOREM CleanInvariance == Spec => []CleanInv
BY InitClean, CleanStep, PTL DEF Spec

\* Whatever the previous process died in and left behind, a Reconcile whose
\* commands and statements do not fail hands the runner over with every chart
\* whose layers do not vanish by themselves down, and its row saying so ("every
\* chart is set to stopped before any caller can start new ones", runner.go).
THEOREM RepairClean == RepairSucceeds => (Spec => RepairLeavesClean)
<1> SUFFICES ASSUME RepairSucceeds PROVE Spec => RepairLeavesClean
  OBVIOUS
<1>1. CleanInv /\ [Next]_vars =>
        [at[Main] # "serving" /\ at'[Main] = "serving"
           => \A c \in Charts : Kept(c) =>
                /\ \A m \in LayersIn(c) : status'[m] = "absent"
                /\ row'[c] \in {"none", "stopped"}]_vars
  <2> SUFFICES ASSUME CleanInv, Next, at[Main] # "serving", at'[Main] = "serving",
                      NEW c \in Charts, Kept(c)
               PROVE  /\ \A m \in LayersIn(c) : status'[m] = "absent"
                      /\ row'[c] \in {"none", "stopped"}
    OBVIOUS
  <2>0. TypeOK /\ RepairCovers /\ Main \in Procs /\ \A k \in Calls : k # Main /\ OwnLayers(k)
    BY OrchestratorAssumption DEF CleanInv, IInv, Procs
  <2>1. Serve
    <3>1. ASSUME NEW k \in Calls, CallStep(k) PROVE FALSE
      <4>1. Contained(k)
        BY <2>0, <3>1, RemoveContained, StartContained DEF CallStep, Procs
      <4> QED
        BY <2>0, <4>1 DEF Contained, Stays
    <3>2. ASSUME NEW k \in Calls, BeginInstantiate(k) \/ BeginKill(k) \/ Cancel(k) PROVE FALSE
      BY <2>0, <3>2 DEF BeginInstantiate, BeginKill, Begin, Cancel, procVars
    <3>3. ~Remove(Main)
      BY RepairRemoves DEF TearPoints, OrphanPoints
    <3>4. ~RepairList /\ ~RepairNext /\ ~ListOrphans /\ ~Start /\ ~Shutdown
      BY <2>0 DEF RepairList, RepairNext, ListOrphans, Start, Shutdown, GoTo, TypeOK, ProcTypeOK
    <3>5. ~Crash /\ \A m \in Layers : ~Guest(m)
      BY <2>0 DEF Crash, Guest, procVars
    <3> QED
      BY <3>1, <3>2, <3>3, <3>4, <3>5 DEF Next, RepairStep
  <2>2. row[c] \in {"none", "stopped"} /\ Ahead(Main, c)
    BY <2>0, <2>1 DEF Serve, RepairCovers, OrphanPoints
  <2> QED
    BY <2>1, <2>2 DEF Serve, Ahead, kraftVars
<1> QED
  BY <1>1, CleanInvariance, PTL DEF Spec, RepairLeavesClean

\* An abortStart on a chart it has to itself, and whose layers do not vanish by
\* themselves, ends with all of them down, whatever became of the caller's ctx,
\* if none of its commands and statements fails (abortStart works under a ctx
\* of its own, context.WithoutCancel).
THEOREM AbortComplete == CallsSucceed => (Spec => AbortTakesDown)
<1> SUFFICES ASSUME CallsSucceed PROVE Spec => AbortTakesDown
  OBVIOUS
<1>1. CleanInv /\ [Next]_vars =>
        [\A k \in Calls :
           Returns(k, "failed") /\ aborting[k] /\ Apart(ChartOf[k]) /\ Kept(ChartOf[k])
             => \A m \in LayersIn(ChartOf[k]) : status'[m] = "absent"]_vars
  <2> SUFFICES ASSUME CleanInv, Next, NEW k \in Calls, Returns(k, "failed"), aborting[k],
                      Apart(ChartOf[k]), Kept(ChartOf[k])
               PROVE  \A m \in LayersIn(ChartOf[k]) : status'[m] = "absent"
    OBVIOUS
  <2>0. /\ TypeOK /\ k \in Procs /\ k # Main /\ On(k) = ChartOf[k] /\ Solo(k) /\ Knows(k)
        /\ \A j \in Calls : OwnLayers(j)
        /\ at[k] \in {"markStopping", "tearList", "tearStop", "tearRm", "markStopped"}
        /\ at'[k] = "idle"
        /\ ~CtxDone(k) /\ ~MayFail(k) /\ "store" \notin Faults
    BY OrchestratorAssumption
       DEF CleanInv, IInv, Procs, On, Solo, AbortsTearDown, TearPoints, Returns, CtxDone, MayFail,
           CallsSucceed
  <2>1. CASE MarkStopped(k)
    BY <2>0, <2>1 DEF MarkStopped, Knows, TearCovers, Quiet, kraftVars
  <2>2. CASE StopNext(k) \/ RmCurrent(k)
    <3>1. PICK m \in todo[k] :
            \/ at[k] \in DOMAIN RmAfter /\ at'[k] = RmAfter[at[k]]
            \/ at[k] \in DOMAIN StopAfter /\ GoTo(k, StopAfter[at[k]], todo[k] \ {m})
            \/ Kept(Owner[m]) => MayFail(k)
      BY <2>0, <2>2, Round
    <3>2. Owner[m] = ChartOf[k]
      BY <2>0 DEF OwnLayers, LayersIn
    <3> QED
      BY <2>0, <3>1, <3>2, Points DEF GoTo, TypeOK, ProcTypeOK
  <2>3. CASE MarkStopping(k) \/ TearList(k) \/ TornDown(k)
    BY <2>0, <2>3 DEF MarkStopping, TearList, TornDown, WriteFailed, GoTo, TypeOK, ProcTypeOK
  <2>4. ~InstantiateStep(k)
    BY <2>0 DEF InstantiateStep, ClearList, Cleared, Resolve, MarkStarting, BootLayer, RunReturned,
      Booted, MarkStarted
  <2>5. ASSUME NEW j \in Calls \ {k}, CallStep(j) PROVE FALSE
    <3>1. Contained(j)
      BY <2>0, <2>5, RemoveContained, StartContained DEF CallStep, Procs
    <3> QED
      BY <2>0, <2>5, <3>1 DEF Contained, Stays
  <2>6. ASSUME NEW j \in Calls, BeginInstantiate(j) \/ BeginKill(j) \/ Cancel(j) PROVE FALSE
    BY <2>0, <2>6 DEF BeginInstantiate, BeginKill, Begin, Cancel, procVars, TypeOK, ProcTypeOK
  <2>7. ~RepairStep /\ ~Start /\ ~Shutdown
    BY <2>0, Points DEF RepairStep, Start, Shutdown, Remove, StopNext, RmCurrent, TearList,
      TornDown, MarkStopped, RepairList, RepairNext, ListOrphans, Serve, CleanInv, IInv, RepairAlone
  <2>8. ~Crash /\ \A m \in Layers : ~Guest(m)
    BY <2>0 DEF Crash, Guest, procVars, Returns
  <2> QED
    BY <2>1, <2>2, <2>3, <2>4, <2>5, <2>6, <2>7, <2>8 DEF Next, CallStep, Remove
<1> QED
  BY <1>1, CleanInvariance, PTL DEF Spec, AbortTakesDown

=============================================================================
