----------------------- MODULE OrchestratorInvariant -----------------------
(***************************************************************************)
(* Why the properties of Orchestrator hold: what a process knows, at each  *)
(* control point, of the row, the machines and the loop it is in.  A call  *)
(* that shares its chart with another (not Solo) knows nothing but that    *)
(* its loops do not stray from the chart, which is what keeps it away from *)
(* everybody else's.  IInv is inductive; TLC checks it on the instances    *)
(* and OrchestratorProofs proves it.                                       *)
(***************************************************************************)
EXTENDS Orchestrator

Quiet(c) == \A m \in LayersIn(c) : status[m] = "absent"

NoneRuns(c) == \A m \in LayersIn(c) : status[m] # "running"

\* m was booted, and is gone at most because of its --rm
WasBooted(m) == m \in AutoRemove \/ status[m] # "absent"

\* Every machine of chart c is still ahead of the loop process p is in.
Ahead(p, c) == \A m \in LayersIn(c) : status[m] # "absent" => m \in todo[p]

\* Reconcile and the calls do not overlap.
RepairAlone == at[Main] # "serving" => \A k \in Calls : at[k] = "idle"

\* Between its stop and its rm a machine cannot be running again.
StoppedFirst(p) == at[p] \in DOMAIN StopAfter => status[cur[p]] # "running"

\* teardownChart's loop still has every machine of the chart before it.
TearCovers(p) ==
  /\ at[p] \in {"tearStop", "tearRm"} => Ahead(p, On(p))
  /\ at[p] = "markStopped" => Quiet(On(p))

\* No loop of a call strays from its chart.
OwnLayers(k) ==
  /\ todo[k] \subseteq LayersIn(ChartOf[k])
  /\ at[k] \in DOMAIN StopAfter \cup {"attached"} => cur[k] \in todo[k]

\* clearStaleMachines' loop covers the chart too, and nothing in it runs.
ClearCovers(k) ==
  /\ at[k] \in {"clearStop", "clearRm"} => Ahead(k, ChartOf[k]) /\ NoneRuns(ChartOf[k])
  /\ at[k] \in {"resolve", "markStarting"} => Quiet(ChartOf[k])

\* A chart boots and is torn down under a row that says so.
RowDeclares(k) ==
  /\ at[k] \in BootPoints => row[ChartOf[k]] = "starting"
  /\ at[k] \in TearPoints => row[ChartOf[k]] = "stopping"

\* What is not left to boot was booted.
BootCovers(k) ==
  /\ at[k] \in BootPoints => \A m \in LayersIn(ChartOf[k]) \ todo[k] : WasBooted(m)
  /\ at[k] = "attached" => WasBooted(cur[k])
  /\ at[k] = "markStarted" => todo[k] = {}

Knows(p) ==
  /\ StoppedFirst(p)
  /\ TearCovers(p)
  /\ p \in Calls => ClearCovers(p) /\ RowDeclares(p) /\ BootCovers(p)

\* Main, or a call with no rival on its chart
Solo(p) == p \in Calls => Apart(ChartOf[p])

IInv ==
  /\ TypeOK
  /\ RepairAlone
  /\ \A k \in Calls : OwnLayers(k)
  /\ \A p \in Procs : Solo(p) => Knows(p)
  /\ StoppedMeansDown

-----------------------------------------------------------------------------
(* Why a rollback and a repair that meet no failing command leave nothing  *)
(* behind: on a chart whose layers do not vanish by themselves (Kept) no   *)
(* command of theirs fails on a machine that is not there.                 *)

LoopsMeetTheirs(p) ==
  at[p] \in DOMAIN RmAfter \cup DOMAIN StopAfter
    => \A m \in todo[p] : Kept(Owner[m]) => status[m] # "absent"

\* abortStart goes from its head to its end.
AbortsTearDown(k) == aborting[k] => at[k] \in {"markStopping"} \cup TearPoints

\* The chart Reconcile is tearing down
TakesDown(c) == at[Main] \in TearPoints /\ c = repair.chart

\* Reconcile's loops stay within what it is repairing.
RepairLoops ==
  /\ at[Main] \in TearPoints => /\ repair.chart \in repair.handled
                                /\ todo[Main] \subseteq LayersIn(repair.chart)
  /\ at[Main] \in DOMAIN StopAfter => cur[Main] \in todo[Main]

\* The listing taken at the start still tells what an unhandled chart has.
ListingHolds ==
  at[Main] \in {"repairNext"} \cup TearPoints
    => \A c \in Charts \ repair.handled :
         Kept(c) => Machines(c) = {m \in repair.listed : Owner[m] = c}

\* What Reconcile is past is down, and says so.
RepairCovers ==
  \A c \in Charts : Kept(c) =>
    /\ at[Main] \in {"repairNext"} \cup TearPoints =>
         /\ row[c] \in {"none", "stopped"} \/ c \in repair.left \/ TakesDown(c)
         /\ c \in repair.handled => Quiet(c) \/ TakesDown(c)
    /\ at[Main] \in OrphanPoints =>
         row[c] \in {"none", "stopped"} /\ Ahead(Main, c)

\* Reconcile's commands and statements do not fail; a call's do not.
RepairSucceeds == Faults \cap {"repair", "store"} = {}
CallsSucceed == Faults \cap {"kraft", "store"} = {}

CleanInv ==
  /\ IInv
  /\ \A p \in Procs : Solo(p) => LoopsMeetTheirs(p)
  /\ \A k \in Calls : AbortsTearDown(k)
  /\ RepairLoops
  /\ ListingHolds
  /\ RepairSucceeds => RepairCovers
=============================================================================
