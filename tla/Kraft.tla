------------------------------- MODULE Kraft -------------------------------
(***************************************************************************)
(* The machine manager the runner drives through the `kraft' command line: *)
(* an external program, modelled from the way internal/engine uses it.  A  *)
(* layer and the machine it runs on are one identity here, because         *)
(* machineName maps (chart, layer) to the machine's name injectively.      *)
(*                                                                         *)
(* Machines live outside the runner's process, so nothing in this module   *)
(* is lost when the runner dies.                                           *)
(***************************************************************************)
CONSTANTS
  Layers,      \* every layer (machine name) of every chart
  AutoRemove,  \* layers booted with --rm
  Calls        \* the runner's in-flight RPC handlers, which wait on `kraft run'

ASSUME KraftAssumption == AutoRemove \subseteq Layers

VARIABLES
  status,      \* `kraft ps -a': what is known of each machine
  attached     \* <<k, m>>: call k's foreground `kraft run' of m has not returned

kraftVars == <<status, attached>>

Statuses == {"absent", "running", "exited"}

KraftTypeOK ==
  /\ status \in [Layers -> Statuses]
  /\ attached \subseteq Calls \X Layers

(***************************************************************************)
(* A machine that changes status releases whoever was attached to it.      *)
(***************************************************************************)
Becomes(m, s) ==
  /\ status' = [status EXCEPT ![m] = s]
  /\ attached' = {a \in attached : a[2] # m}

\* `kraft run --detach': refused when the name is taken, whatever its status.
RunDetached(m) ==
  /\ status[m] = "absent"
  /\ status' = [status EXCEPT ![m] = "running"]
  /\ UNCHANGED attached

\* `kraft run' in the foreground: the command lasts as long as the guest.
RunAttached(k, m) ==
  /\ status[m] = "absent"
  /\ status' = [status EXCEPT ![m] = "running"]
  /\ attached' = attached \cup {<<k, m>>}

\* A failed `kraft run' may leave the machine it was creating behind.
RunFailed(m) ==
  /\ status[m] = "absent"
  /\ Becomes(m, "exited") \/ UNCHANGED kraftVars

\* `kraft stop' succeeds on an exited machine too: the stale ones are stopped.
StopMachine(m) == status[m] # "absent" /\ Becomes(m, "exited")

\* `kraft rm'.
RmMachine(m) == status[m] # "absent" /\ Becomes(m, "absent")

\* The guest ends by itself.
GuestExit(m) == status[m] = "running" /\ Becomes(m, "exited")

\* --rm: kraft drops the record of a machine some time after it has exited.
AutoRm(m) == m \in AutoRemove /\ status[m] = "exited" /\ Becomes(m, "absent")
=============================================================================
