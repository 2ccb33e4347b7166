---------------------------- MODULE Orchestrator ----------------------------
(***************************************************************************)
(* internal/engine: the calls InstantiateChart and KillChart, and the      *)
(* repair (Reconcile) the runner does before it serves them.               *)
(*                                                                         *)
(* A process is an RPC handler (a member of Calls) or Main, the goroutine  *)
(* of cmd/main.go.  Every kraft command and every UpdateChartState is one  *)
(* step, so other handlers, guests and a crash can come between any two.   *)
(* No lock is held across them in the code and none is modelled: two       *)
(* handlers work on one chart at a time unless ChartOf keeps them apart.   *)
(***************************************************************************)
EXTENDS Kraft, Naturals

CONSTANTS
  Charts,
  Owner,       \* the chart a layer belongs to
  Stage,       \* 1 stored procedures, 2 event triggers, 3 events
  Detached,    \* layers booted with --detach
  ChartOf,     \* the chart a call is about
  Main,
  NoLayer,
  Faults       \* what may go wrong in this instance

FaultKinds == {"kraft",   \* ps, stop or rm fails in a call
               "repair",  \* ps, stop or rm fails in Reconcile
               "boot",    \* kraft run fails
               "store",   \* a chart_state statement fails
               "cancel",  \* a caller gives up, its ctx is cancelled
               "crash"}   \* the runner's process dies

ASSUME OrchestratorAssumption ==
  /\ Owner \in [Layers -> Charts]
  /\ Stage \in [Layers -> 1..3]
  /\ Detached \subseteq Layers
  /\ ChartOf \in [Calls -> Charts]
  /\ Main \notin Calls
  /\ NoLayer \notin Layers
  /\ Faults \subseteq FaultKinds
  /\ Charts # {}

VARIABLES
  row,       \* chart_state, durable: "none" when the chart has no row
  at,        \* control point of each process
  todo,      \* what is left of the loop the process is in
  cur,       \* the machine between its stop and its rm, or being waited for
  ctxDone,   \* the call's ctx is cancelled
  aborting,  \* the call is in abortStart
  outcome,   \* what the handler's last call returned
  repair     \* Reconcile's locals

callVars == <<ctxDone, aborting, outcome>>
procVars == <<at, todo, cur>>
vars == <<status, attached, row, at, todo, cur, ctxDone, aborting, outcome, repair>>

Procs == Calls \cup {Main}

RowStates == {"none", "starting", "started", "stopping", "stopped"}

\* Each removal loop has a point before `kraft stop' and one before `kraft rm'.
RmAfter == [clearStop |-> "clearRm", tearStop |-> "tearRm", orphanStop |-> "orphanRm"]
StopAfter == [clearRm |-> "clearStop", tearRm |-> "tearStop", orphanRm |-> "orphanStop"]

TearPoints == {"tearList", "tearStop", "tearRm", "markStopped"}
OrphanPoints == {"orphanStop", "orphanRm"}
ClearPoints == {"clearList", "clearStop", "clearRm"}
BootPoints == {"boot", "attached", "markStarted"}
CallPoints == {"idle", "resolve", "markStarting", "markStopping"}
                \cup ClearPoints \cup BootPoints \cup TearPoints
MainPoints == {"down", "repairList", "repairNext", "serving"} \cup TearPoints \cup OrphanPoints

PointsOf(p) == IF p = Main THEN MainPoints ELSE CallPoints

ProcTypeOK ==
  /\ at \in [Procs -> CallPoints \cup MainPoints]
  /\ todo \in [Procs -> SUBSET Layers]
  /\ cur \in [Procs -> Layers \cup {NoLayer}]
  /\ \A p \in Procs :
       /\ at[p] \in PointsOf(p)
       /\ at[p] \in DOMAIN StopAfter \cup {"attached"} => cur[p] \in Layers

CallTypeOK ==
  /\ ctxDone \in [Calls -> BOOLEAN]
  /\ aborting \in [Calls -> BOOLEAN]
  /\ outcome \in [Calls -> {"none", "ok", "failed", "running"}]

TypeOK ==
  /\ KraftTypeOK
  /\ row \in [Charts -> RowStates]
  /\ ProcTypeOK
  /\ CallTypeOK
  /\ repair \in [chart : Charts, left : SUBSET Charts,
                 handled : SUBSET Charts, listed : SUBSET Layers]

LayersIn(c) == {m \in Layers : Owner[m] = c}

\* chartMachines: what `kraft ps -a' lists under the chart's prefix
Machines(c) == {m \in LayersIn(c) : status[m] # "absent"}

\* the chart a process works on
On(p) == IF p = Main THEN repair.chart ELSE ChartOf[p]

\* Reconcile's locals while it does not run: they go with its stack frame.
NoRepair ==
  [chart |-> CHOOSE c \in Charts : TRUE, left |-> {}, handled |-> {}, listed |-> {}]

-----------------------------------------------------------------------------
(* What commands, statements and contexts do to the process that uses them. *)

\* Mutant of CtxDone: abortStart works under the caller's ctx.
CtxDoneInherited(p) == p \in Calls /\ ctxDone[p]

\* A call's ctx; abortStart replaces it with one the caller cannot cancel.
CtxDone(p) == p \in Calls /\ ctxDone[p] /\ ~aborting[p]

MayFail(p) == CtxDone(p) \/ (IF p = Main THEN "repair" ELSE "kraft") \in Faults

\* UpdateChartState, for c by p.  A statement that reports an error (or is cut
\* off by its ctx) may have been committed all the same.
Written(p, c, s) == ~CtxDone(p) /\ row' = [row EXCEPT ![c] = s]
WriteFailed(p, c, s) ==
  /\ CtxDone(p) \/ "store" \in Faults
  /\ row' = [row EXCEPT ![c] = s] \/ UNCHANGED row

GoTo(p, point, ms) ==
  /\ at' = [at EXCEPT ![p] = point]
  /\ todo' = [todo EXCEPT ![p] = ms]
  /\ cur' = [cur EXCEPT ![p] = NoLayer]
  /\ UNCHANGED callVars

Return(k, result) ==
  /\ at' = [at EXCEPT ![k] = "idle"]
  /\ todo' = [todo EXCEPT ![k] = {}]
  /\ cur' = [cur EXCEPT ![k] = NoLayer]
  /\ ctxDone' = [ctxDone EXCEPT ![k] = FALSE]
  /\ aborting' = [aborting EXCEPT ![k] = FALSE]
  /\ outcome' = [outcome EXCEPT ![k] = result]

\* Mutant of GiveUp: a call starts its removal loop over instead of failing.
GiveUpRetries(p, m) ==
  \/ p \in Calls /\ GoTo(p, IF at[p] \in TearPoints THEN "tearList" ELSE "clearList", {})
  \/ p = Main /\ at[p] \in TearPoints /\ GoTo(p, "repairNext", {})
  \/ p = Main /\ at[p] \in OrphanPoints /\ GoTo(p, "orphanStop", todo[p] \ {m})

\* Mutant of GiveUp: Reconcile comes back to an orphan until it is gone.
GiveUpInsists(p, m) ==
  \/ p \in Calls /\ Return(p, "failed")
  \/ p = Main /\ at[p] \in TearPoints /\ GoTo(p, "repairNext", {})
  \/ p = Main /\ at[p] \in OrphanPoints /\ GoTo(p, "orphanStop", todo[p])

\* What follows an error: a call returns it, Reconcile logs it and moves on to
\* its next chart or, among the orphans, to the machine after m.
GiveUp(p, m) ==
  \/ p \in Calls /\ Return(p, "failed")
  \/ p = Main /\ at[p] \in TearPoints /\ GoTo(p, "repairNext", {})
  \/ p = Main /\ at[p] \in OrphanPoints /\ GoTo(p, "orphanStop", todo[p] \ {m})

-----------------------------------------------------------------------------
(* removeMachine and the three loops around it: clearStaleMachines,        *)
(* teardownChart and the orphans of Reconcile.  kraft lists in any order.  *)

\* Mutant of StopNext: a machine that cannot be stopped is logged and skipped.
StopNextSkips(p) ==
  /\ at[p] \in DOMAIN RmAfter
  /\ UNCHANGED <<row, repair>>
  /\ \E m \in todo[p] :
       \/ /\ ~CtxDone(p)
          /\ StopMachine(m)
          /\ at' = [at EXCEPT ![p] = RmAfter[at[p]]]
          /\ cur' = [cur EXCEPT ![p] = m]
          /\ UNCHANGED <<todo, callVars>>
       \/ /\ MayFail(p) \/ status[m] = "absent"
          /\ StopMachine(m) \/ UNCHANGED kraftVars
          /\ GoTo(p, at[p], todo[p] \ {m})

StopNext(p) ==
  /\ at[p] \in DOMAIN RmAfter
  /\ UNCHANGED <<row, repair>>
  /\ \E m \in todo[p] :
       \/ /\ ~CtxDone(p)
          /\ StopMachine(m)
          /\ at' = [at EXCEPT ![p] = RmAfter[at[p]]]
          /\ cur' = [cur EXCEPT ![p] = m]
          /\ UNCHANGED <<todo, callVars>>
       \/ /\ MayFail(p) \/ status[m] = "absent"
          /\ StopMachine(m) \/ UNCHANGED kraftVars
          /\ GiveUp(p, m)

\* `kraft rm' of a machine that runs again is allowed either way.
RmCurrent(p) ==
  /\ at[p] \in DOMAIN StopAfter
  /\ UNCHANGED <<row, repair>>
  /\ \/ /\ ~CtxDone(p)
        /\ RmMachine(cur[p])
        /\ GoTo(p, StopAfter[at[p]], todo[p] \ {cur[p]})
     \/ /\ MayFail(p) \/ status[cur[p]] # "exited"
        /\ RmMachine(cur[p]) \/ UNCHANGED kraftVars
        /\ GiveUp(p, cur[p])

-----------------------------------------------------------------------------
(* teardownChart, then UpdateChartState(ChartStopped): the tail KillChart, *)
(* abortStart and Reconcile have in common.                                *)

TearList(p) ==
  /\ at[p] = "tearList"
  /\ UNCHANGED <<row, repair, kraftVars>>
  /\ \/ ~CtxDone(p) /\ GoTo(p, "tearStop", Machines(On(p)))
     \/ MayFail(p) /\ GiveUp(p, NoLayer)

TornDown(p) ==
  /\ at[p] = "tearStop" /\ todo[p] = {}
  /\ GoTo(p, "markStopped", {})
  /\ UNCHANGED <<row, repair, kraftVars>>

\* abortStart returns the error that caused it even when it succeeds.
MarkStopped(p) ==
  /\ at[p] = "markStopped"
  /\ UNCHANGED <<repair, kraftVars>>
  /\ \/ /\ Written(p, On(p), "stopped")
        /\ IF p = Main THEN GoTo(p, "repairNext", {})
                       ELSE Return(p, IF aborting[p] THEN "failed" ELSE "ok")
     \/ /\ WriteFailed(p, On(p), "stopped")
        /\ GiveUp(p, NoLayer)

-----------------------------------------------------------------------------
(* KillChart, and the head of abortStart.                                  *)

\* Mutant of Begin: calls are accepted while New is still repairing.
BeginEarly(k, point) ==
  /\ at[Main] # "down" /\ at[k] = "idle"
  /\ at' = [at EXCEPT ![k] = point]
  /\ outcome' = [outcome EXCEPT ![k] = "none"]
  /\ UNCHANGED <<kraftVars, row, todo, cur, ctxDone, aborting, repair>>

Begin(k, point) ==
  /\ at[Main] = "serving" /\ at[k] = "idle"
  /\ at' = [at EXCEPT ![k] = point]
  /\ outcome' = [outcome EXCEPT ![k] = "none"]
  /\ UNCHANGED <<kraftVars, row, todo, cur, ctxDone, aborting, repair>>

BeginKill(k) == Begin(k, "markStopping")

MarkStopping(k) ==
  /\ at[k] = "markStopping"
  /\ UNCHANGED <<repair, kraftVars>>
  /\ \/ Written(k, ChartOf[k], "stopping") /\ GoTo(k, "tearList", {})
     \/ WriteFailed(k, ChartOf[k], "stopping") /\ Return(k, "failed")

-----------------------------------------------------------------------------
(* InstantiateChart.                                                       *)

BeginInstantiate(k) == Begin(k, "clearList")

\* Mutant of ClearList: exited machines are left to the boot loop.
ClearListOnlyLooks(k) ==
  /\ at[k] = "clearList"
  /\ UNCHANGED <<row, repair, kraftVars>>
  /\ LET up == {m \in Machines(ChartOf[k]) : status[m] = "running"}
     IN  \/ ~CtxDone(k) /\ up # {} /\ Return(k, "running")
         \/ ~CtxDone(k) /\ up = {} /\ GoTo(k, "resolve", {})
         \/ MayFail(k) /\ Return(k, "failed")

\* Mutant of ClearList: whatever the chart has is cleared, running or not.
ClearListBlind(k) ==
  /\ at[k] = "clearList"
  /\ UNCHANGED <<row, repair, kraftVars>>
  /\ \/ ~CtxDone(k) /\ GoTo(k, "clearStop", Machines(ChartOf[k]))
     \/ MayFail(k) /\ Return(k, "failed")

\* clearStaleMachines looks once; the machines are removed from what it saw.
ClearList(k) ==
  /\ at[k] = "clearList"
  /\ UNCHANGED <<row, repair, kraftVars>>
  /\ LET own == Machines(ChartOf[k])
         up  == {m \in own : status[m] = "running"}
     IN  \/ ~CtxDone(k) /\ up # {} /\ Return(k, "running")
         \/ ~CtxDone(k) /\ up = {} /\ GoTo(k, "clearStop", own)
         \/ MayFail(k) /\ Return(k, "failed")

Cleared(k) ==
  /\ at[k] = "clearStop" /\ todo[k] = {}
  /\ GoTo(k, "resolve", {})
  /\ UNCHANGED <<row, repair, kraftVars>>

\* buildTopicMap and ResolveLayers: they change neither machines nor the row,
\* and may refuse any chart.
Resolve(k) ==
  /\ at[k] = "resolve"
  /\ UNCHANGED <<row, repair, kraftVars>>
  /\ \/ ~CtxDone(k) /\ GoTo(k, "markStarting", {})
     \/ Return(k, "failed")

MarkStarting(k) ==
  /\ at[k] = "markStarting"
  /\ UNCHANGED <<repair, kraftVars>>
  /\ \/ Written(k, ChartOf[k], "starting") /\ GoTo(k, "boot", LayersIn(ChartOf[k]))
     \/ WriteFailed(k, ChartOf[k], "starting") /\ Return(k, "failed")

\* entering abortStart
Abort(k) ==
  /\ at' = [at EXCEPT ![k] = "markStopping"]
  /\ todo' = [todo EXCEPT ![k] = {}]
  /\ cur' = [cur EXCEPT ![k] = NoLayer]
  /\ aborting' = [aborting EXCEPT ![k] = TRUE]
  /\ UNCHANGED <<ctxDone, outcome>>

\* The three loops, one kind of layer after the other, each in map order.
Bootable(k) == {m \in todo[k] : \A n \in todo[k] : Stage[m] <= Stage[n]}

\* RunLayer does not take the ctx: only the check before it sees a cancellation.
BootLayer(k) ==
  /\ at[k] = "boot"
  /\ UNCHANGED <<row, repair>>
  /\ \E m \in Bootable(k) :
       \/ /\ ctxDone[k]
          /\ Abort(k) /\ UNCHANGED kraftVars
       \/ /\ ~ctxDone[k] /\ m \in Detached
          /\ RunDetached(m) /\ GoTo(k, "boot", todo[k] \ {m})
       \/ /\ ~ctxDone[k] /\ m \notin Detached
          /\ RunAttached(k, m)
          /\ at' = [at EXCEPT ![k] = "attached"]
          /\ cur' = [cur EXCEPT ![k] = m]
          /\ UNCHANGED <<todo, callVars>>
       \/ /\ ~ctxDone[k] /\ status[m] # "absent"
          /\ Abort(k) /\ UNCHANGED kraftVars
       \/ /\ ~ctxDone[k] /\ "boot" \in Faults
          /\ RunFailed(m) /\ Abort(k)

\* A foreground run returns once its guest is gone, with the guest's verdict.
RunReturned(k) ==
  /\ at[k] = "attached" /\ <<k, cur[k]>> \notin attached
  /\ UNCHANGED <<row, repair, kraftVars>>
  /\ \/ GoTo(k, "boot", todo[k] \ {cur[k]})
     \/ "boot" \in Faults /\ Abort(k)

Booted(k) ==
  /\ at[k] = "boot" /\ todo[k] = {}
  /\ GoTo(k, "markStarted", {})
  /\ UNCHANGED <<row, repair, kraftVars>>

\* A failure here is returned as it is: abortStart is not called.
MarkStarted(k) ==
  /\ at[k] = "markStarted"
  /\ UNCHANGED <<repair, kraftVars>>
  /\ \/ Written(k, ChartOf[k], "started") /\ Return(k, "ok")
     \/ WriteFailed(k, ChartOf[k], "started") /\ Return(k, "failed")

-----------------------------------------------------------------------------
(* Reconcile, run by New before the first call is accepted.                *)

Start ==
  /\ at[Main] = "down"
  /\ GoTo(Main, "repairList", {})
  /\ UNCHANGED <<row, repair, kraftVars>>

\* Mutant of RepairList: only charts in transition are taken down.
RepairListMoving ==
  /\ at[Main] = "repairList"
  /\ UNCHANGED <<row, kraftVars>>
  /\ \/ /\ repair' = [chart   |-> NoRepair.chart,
                       left    |-> {c \in Charts : row[c] \in {"starting", "stopping"}},
                       handled |-> {},
                       listed  |-> {m \in Layers : status[m] # "absent"}]
        /\ GoTo(Main, "repairNext", {})
     \/ /\ MayFail(Main) \/ "store" \in Faults
        /\ GoTo(Main, "down", {}) /\ UNCHANGED repair

\* ListChartStates and one `kraft ps'; New gives up when either fails.
RepairList ==
  /\ at[Main] = "repairList"
  /\ UNCHANGED <<row, kraftVars>>
  /\ \/ /\ repair' = [chart   |-> NoRepair.chart,
                       left    |-> {c \in Charts : row[c] \notin {"none", "stopped"}},
                       handled |-> {},
                       listed  |-> {m \in Layers : status[m] # "absent"}]
        /\ GoTo(Main, "repairNext", {})
     \/ /\ MayFail(Main) \/ "store" \in Faults
        /\ GoTo(Main, "down", {}) /\ UNCHANGED repair

\* The next chart the store believes up or in transition.
RepairNext ==
  /\ at[Main] = "repairNext"
  /\ \E c \in repair.left :
       repair' = [chart   |-> c,
                  left    |-> repair.left \ {c},
                  handled |-> repair.handled \cup {c},
                  listed  |-> repair.listed]
  /\ GoTo(Main, "tearList", {})
  /\ UNCHANGED <<row, kraftVars>>

\* Mutant of ListOrphans: the machines of the handled charts are orphans too.
ListOrphansAll ==
  /\ at[Main] = "repairNext" /\ repair.left = {}
  /\ GoTo(Main, "orphanStop", repair.listed)
  /\ repair' = NoRepair
  /\ UNCHANGED <<row, kraftVars>>

\* Machines in the listing taken at the start whose chart was not handled.
ListOrphans ==
  /\ at[Main] = "repairNext" /\ repair.left = {}
  /\ GoTo(Main, "orphanStop", {m \in repair.listed : Owner[m] \notin repair.handled})
  /\ repair' = NoRepair
  /\ UNCHANGED <<row, kraftVars>>

Serve ==
  /\ at[Main] = "orphanStop" /\ todo[Main] = {}
  /\ GoTo(Main, "serving", {})
  /\ UNCHANGED <<row, repair, kraftVars>>

\* SIGTERM with every call drained by GracefulStop.
Shutdown ==
  /\ at[Main] = "serving" /\ \A k \in Calls : at[k] = "idle"
  /\ GoTo(Main, "down", {})
  /\ UNCHANGED <<row, repair, kraftVars>>

-----------------------------------------------------------------------------
(* The environment.                                                        *)

\* The process is killed, or exits with calls in flight: what is left is the
\* database and the machines.
Crash ==
  /\ "crash" \in Faults /\ at[Main] # "down"
  /\ at' = [p \in Procs |-> IF p = Main THEN "down" ELSE "idle"]
  /\ todo' = [p \in Procs |-> {}]
  /\ cur' = [p \in Procs |-> NoLayer]
  /\ ctxDone' = [k \in Calls |-> FALSE]
  /\ aborting' = [k \in Calls |-> FALSE]
  /\ outcome' = [k \in Calls |-> "none"]
  /\ attached' = {}
  /\ repair' = NoRepair
  /\ UNCHANGED <<status, row>>

\* The client goes away, its deadline passes, or the server is stopped.
Cancel(k) ==
  /\ "cancel" \in Faults /\ at[k] # "idle" /\ ~ctxDone[k]
  /\ ctxDone' = [ctxDone EXCEPT ![k] = TRUE]
  /\ UNCHANGED <<kraftVars, row, procVars, aborting, outcome, repair>>

Guest(m) == (GuestExit(m) \/ AutoRm(m)) /\ UNCHANGED <<row, procVars, callVars, repair>>

-----------------------------------------------------------------------------
\* A first start may meet machines whose rows were lost with the cache
\* directory; it meets no row.
Init ==
  /\ status \in [Layers -> Statuses]
  /\ attached = {}
  /\ row = [c \in Charts |-> "none"]
  /\ at = [p \in Procs |-> IF p = Main THEN "down" ELSE "idle"]
  /\ todo = [p \in Procs |-> {}]
  /\ cur = [p \in Procs |-> NoLayer]
  /\ ctxDone = [k \in Calls |-> FALSE]
  /\ aborting = [k \in Calls |-> FALSE]
  /\ outcome = [k \in Calls |-> "none"]
  /\ repair = NoRepair

\* teardown and removal steps, common to calls and Main
Remove(p) == StopNext(p) \/ RmCurrent(p) \/ TearList(p) \/ TornDown(p) \/ MarkStopped(p)

InstantiateStep(k) ==
  \/ ClearList(k) \/ Cleared(k) \/ Resolve(k) \/ MarkStarting(k)
  \/ BootLayer(k) \/ RunReturned(k) \/ Booted(k) \/ MarkStarted(k)

CallStep(k) == Remove(k) \/ MarkStopping(k) \/ InstantiateStep(k)

RepairStep == Remove(Main) \/ RepairList \/ RepairNext \/ ListOrphans \/ Serve

Next ==
  \/ \E k \in Calls : CallStep(k) \/ BeginInstantiate(k) \/ BeginKill(k) \/ Cancel(k)
  \/ RepairStep \/ Start \/ Shutdown \/ Crash
  \/ \E m \in Layers : Guest(m)

Spec == Init /\ [][Next]_vars

-----------------------------------------------------------------------------
(* Properties.                                                             *)

\* At most one call about chart c is in flight: what the callers must see to,
\* since neither the server nor the runner does.
Apart(c) == \A j, k \in Calls : ChartOf[j] = c /\ ChartOf[k] = c => j = k

\* A row that says stopped is never wrong: whatever fails or crashes in
\* InstantiateChart, KillChart, abortStart or Reconcile, no machine of a chart
\* whose callers keep apart is left.  Reconcile skips such charts, so a wrong
\* row would hide live layers from the repair (reconcile.go: `if state ==
\* ChartStopped').
StoppedMeansDown == \A c \in Charts : Apart(c) /\ row[c] = "stopped" => Machines(c) = {}

\* The contract between row and machines (see ChartContract) is about the
\* charts whose callers keep apart, whatever happens to the others.
ApartCharts == {c \in Charts : Apart(c)}
ApartLayers == {m \in Layers : Apart(Owner[m])}
ApartRow == [c \in ApartCharts |-> row[c]]
ApartStatus == [m \in ApartLayers |-> status[m]]

Contract == INSTANCE ChartContract WITH
              Charts <- ApartCharts, Layers <- ApartLayers, Owner <- Owner,
              AutoRemove <- AutoRemove, row <- ApartRow, status <- ApartStatus

\* Every behaviour of the handlers, with faults, cancellations and crashes, is
\* one the contract allows (InstantiateChart, KillChart, Reconcile).
RefinesContract == Contract!Spec

\* A step of the runner, rather than of a guest or of kraft.
RunnerStep == procVars' # procVars

\* No handler takes a running layer down unless "stopping" is already durable
\* for its chart, so that a crash in the middle of teardownChart, or in the
\* middle of clearStaleMachines, never leaves a half-removed chart behind a row
\* that is not in transition.  Only Reconcile may, and it runs again.
TakedownIsDeclared ==
  [][\A m \in Layers :
       RunnerStep /\ Apart(Owner[m]) /\ status[m] = "running" /\ status'[m] # "running"
         => at[Main] # "serving" \/ row[Owner[m]] = "stopping"]_vars

Returns(k, result) == at[k] # "idle" /\ at'[k] = "idle" /\ outcome'[k] = result

\* "a chart is either fully up or fully down: any failure from here on,
\* including a cancelled ctx, takes down what already booted"
\* (orchestrator.go:52): a start that fails after it declared itself leaves no
\* machine when its error is returned.
FailedStartTakesDown ==
  [][\A k \in Calls :
       Returns(k, "failed") /\ (aborting[k] \/ at[k] \in BootPoints)
         => \A m \in LayersIn(ChartOf[k]) : status'[m] = "absent"]_vars

\* No layer of chart c is booted with --rm.  One that is may vanish between
\* `kraft ps' and its own `kraft stop', which then fails and ends the teardown.
Kept(c) == LayersIn(c) \cap AutoRemove = {}

\* An abortStart that met no failing command or statement of its own, and no
\* second caller, has taken every layer of the chart down by the time the error
\* reaches the caller, even if that caller is long gone: the teardown runs under
\* a ctx of its own (abortStart, context.WithoutCancel).
AbortTakesDown ==
  [][\A k \in Calls :
       Returns(k, "failed") /\ aborting[k] /\ Apart(ChartOf[k]) /\ Kept(ChartOf[k])
         => \A m \in LayersIn(ChartOf[k]) : status'[m] = "absent"]_vars

\* "a chart is instantiated once at a time" (runner.go:40): two calls never boot
\* the layers of one chart together.
OneStartAtATime ==
  \A j, k \in Calls :
    j # k /\ ChartOf[j] = ChartOf[k] => ~(at[j] \in BootPoints /\ at[k] \in BootPoints)

\* Whatever state the previous process died in, the runner accepts its first
\* call with no machine left and no chart up or in transition, provided
\* Reconcile's own commands succeed (runner.go: "every chart is set to stopped
\* before any caller can start new ones").  A chart on which they cannot, for a
\* layer vanished in its teardown, leaves the others to be repaired.
RepairLeavesClean ==
  [][at[Main] # "serving" /\ at'[Main] = "serving"
       => \A c \in Charts : Kept(c) =>
            /\ \A m \in LayersIn(c) : status'[m] = "absent"
            /\ row'[c] \in {"none", "stopped"}]_vars

-----------------------------------------------------------------------------
(* Liveness.  A goroutine that can run does; a kraft command ends because   *)
(* of its timeout; the guests of foreground layers run to completion, which *)
(* nothing in the runner enforces.                                          *)

Fairness ==
  /\ \A k \in Calls : WF_vars(CallStep(k))
  /\ WF_vars(RepairStep)
  /\ \A m \in Layers \ Detached : WF_vars(Guest(m))

FairSpec == Spec /\ Fairness

\* Every call gets an answer, also when other calls stop, remove or boot the
\* same machines under its feet.
CallsReturn == \A k \in Calls : at[k] # "idle" ~> at[k] = "idle"

\* Reconcile never wedges the start: it ends, serving or giving up, however
\* many of its commands fail.
RepairFinishes == at[Main] = "repairList" ~> at[Main] \in {"serving", "down"}
=============================================================================
