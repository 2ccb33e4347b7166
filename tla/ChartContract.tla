--------------------------- MODULE ChartContract ---------------------------
(***************************************************************************)
(* What starting and stopping charts promises, seen from outside: the      *)
(* durable row of a chart never claims more than its machines show.  It    *)
(* says nothing of handlers, loops, contexts or crashes; Orchestrator is   *)
(* shown to implement it on the charts whose callers keep apart.           *)
(***************************************************************************)
CONSTANTS Charts, Layers, Owner, AutoRemove

VARIABLES row, status

LayersIn(c) == {m \in Layers : Owner[m] = c}
AllDown(c) == \A m \in LayersIn(c) : status[m] = "absent"
AllBooted(c) == \A m \in LayersIn(c) : m \in AutoRemove \/ status[m] # "absent"

Init ==
  /\ row = [c \in Charts |-> "none"]
  /\ status \in [Layers -> {"absent", "running", "exited"}]

\* A start is declared over a cleared chart, its end over a chart that is
\* wholly up, and the end of a stop over a chart that is wholly down.
Declare(c, s) ==
  /\ s = "starting" => AllDown(c)
  /\ s = "started" => AllBooted(c)
  /\ s = "stopped" => AllDown(c)
  /\ row' = [row EXCEPT ![c] = s]
  /\ UNCHANGED status

\* A machine comes to exist only while its chart is declared starting.
Boot(m) ==
  /\ row[Owner[m]] = "starting" /\ status[m] = "absent"
  /\ \E s \in {"running", "exited"} : status' = [status EXCEPT ![m] = s]
  /\ UNCHANGED row

Halt(m) ==
  /\ status[m] = "running"
  /\ status' = [status EXCEPT ![m] = "exited"]
  /\ UNCHANGED row

\* A machine is removed only after it has been stopped.
Vanish(m) ==
  /\ status[m] = "exited"
  /\ status' = [status EXCEPT ![m] = "absent"]
  /\ UNCHANGED row

Next ==
  \/ \E c \in Charts, s \in {"starting", "started", "stopping", "stopped"} : Declare(c, s)
  \/ \E m \in Layers : Boot(m) \/ Halt(m) \/ Vanish(m)

Spec == Init /\ [][Next]_<<row, status>>
=============================================================================
