# A TLA+ development of gprunner

gprunner boots *charts*, groups of unikernel layers, on one host. A chart is
fetched from a registry (starmap), the images of its layers are built or pulled
into a cache directory, and every layer is booted as a machine with the `kraft`
command line. Guests reach the message broker through a bridge and a TCP
forwarder inside the runner. The program is a gRPC service (`cmd/`) around a
library (`runner.go`, `internal/engine`, `internal/resolver`,
`internal/persistence`). It has no lock around a chart, talks to everything
through commands and SQL statements that can fail, time out or be cancelled, and
must leave something a new process can repair when it is killed.

All paths below are relative to `src/`.

## Inventory

| Component | State | Operations | Interacts with | Hard behaviour |
|---|---|---|---|---|
| orchestrator (`internal/engine/orchestrator.go`, `machines.go`, `run.go`, `reconcile.go`) | none in memory; `chart_state` rows and kraft's machines outlive it | `InstantiateChart`, `KillChart`, `Reconcile`; inside them `clearStaleMachines`, `teardownChart`, `abortStart`, `removeMachine`, `RunLayer` | chart store, kraft, image cache; called by the gRPC server and by `New` | calls of one chart interleave; every command may fail, be cut off or be half done; crash between any two; rollback under a cancelled ctx |
| broker forwarder (`internal/engine/forwarder.go`) | listener, map of connections, `closed`, wait group, a `done` channel per relay | `accept`, `relay`, two copies, `track`, `release`, `Close` | guests, the broker; closed by the runner | `Close` racing a dial, an accept, another `Close`; goroutines blocked in reads and sends |
| image cache (`internal/resolver/images.go`, `utils.go`, `internal/persistence/images.go`) | image directory, image index, singleflight group, staging directories | `ResolveLayers`, `resolveLayer`, `resolveImage`, `downloadImage`, `SaveImageMetadata` | git, OCI registries, kraft, SQLite | one build for many askers; publish, sync and index against crash and power loss; a caller that gives up half-way; a source that moves |
| reclaim (`internal/resolver/reclaim.go`) | staging directories and kraft packages of a dead process | `Reclaim` | the cache, kraft's package store | runs only when nothing resolves; a removal that fails |
| chart store (`internal/persistence/charts.go`, `store.go`, `schema.sql`) | SQLite: charts, `chart_state` | `SaveChart`, `GetChartByRef`, `UpdateChartState`, `ListChartStates` | everyone | a statement cut off by its ctx may have been committed; references are not unique |
| layer links and volumes (`internal/resolver/links.go`) | the host's file system | `resolveLinks`, `resolveVolumes` | image cache, `RunLayer` | what was checked is gone at boot |
| broker network (`internal/resolver/networks.go`) | the kernel's bridge, kraft's record of it | `EnsureBrokerNetwork`, `checkSubnetFree`, `parseGateway` | kraft, the kernel | record and bridge disagree after a reboot; nested, touching and tiny subnets |
| runner life cycle (`runner.go`, `cmd/main.go`) | the open store and forwarder, the gRPC server | `New`, `Close`, `run` | all of the above | partial failure in `New`; shutdown with calls in flight |
| gRPC server (`cmd/server/server.go`) | none | `Pull`, `Instantiate`, `Kill` | runner, starmap | concurrent calls on one chart reach the orchestrator as they come |
| starmap client (`cmd/starmap/client.go`) | a connection | `Dial`, `GetChart`, `Close` | starmap; called by `Pull` | an answer it refuses must reach the caller as an error |
| chart model, generated API | none | | | none |

What makes each correct:

* **orchestrator**: a row that says `stopped` is never wrong; a chart is wholly
  up or wholly down; nothing running is taken down before that is declared on
  disk; a rollback does not depend on its caller; the repair leaves a clean
  slate whatever it finds; every call returns.
* **forwarder**: `Close` misses no connection and returns by itself; a relay
  leaks nothing on any of its four ways out; a hang-up reaches the other side;
  one bad connection does not end the service.
* **image cache**: an image handed out is whole; the index never runs ahead of
  the directory; a version is built once however many ask; a build key names
  what it says; every layer gets an answer.
* **links and volumes**: what passes the look before the boot is refused by name
  no more when the chart is half up.
* **broker network**: an address is accepted exactly when it is a host address
  of a range that overlaps no other; a rebooted host can start.
* **chart store and gRPC server**: a chart runs from one copy however often it is
  pulled; a kill takes all of it, whichever copy it came from; a start that pulls
  starts what it pulled when the reference tells that chart from others; a pull that
  says OK has saved the chart.
* **life cycle**: no call meets a closed store unless shutdown has given up on it;
  whichever step of `New` fails, nothing stays open; a signal ends the process.

## Modules

| Module | Models | State and actions against the code |
|---|---|---|
| `Kraft` | the external machine manager, as `internal/engine` uses it | `status` is what `kraft ps -a` prints, `attached` the foreground `kraft run`s. `RunDetached`, `RunAttached`, `RunFailed`, `StopMachine`, `RmMachine` are commands, `GuestExit` and `AutoRm` (`--rm`) happen by themselves. |
| `ChartContract` | abstract: what starting and stopping promises | `row` and `status` only, of any set of charts. A chart is declared `starting` over cleared machines, `started` over booted ones, `stopped` when all are gone; machines appear only under `starting` and vanish only once exited. |
| `Orchestrator` | `internal/engine` without the forwarder; extends `Kraft` | `row` is `chart_state`. Each RPC handler and `Main` (the goroutine of `cmd/main.go`) has a control point `at`, the rest of the loop it is in (`todo`) and the machine it is on (`cur`). One action per kraft command and per SQL statement; `StopNext`/`RmCurrent` are `removeMachine` in its three loops, `TearList`, `TornDown`, `MarkStopped` the tail that `KillChart`, `abortStart` and `Reconcile` share. `Cancel`, `Crash` and failing commands interleave with everything. |
| `OrchestratorInvariant` | what each process knows at each control point (`IInv`), and what a rollback or repair that meets no failing command relies on (`CleanInv`) | used by the proofs and checked by TLC |
| `OrchestratorProofs` | the theorems about `Orchestrator` that hold under any faults | |
| `RollbackProofs` | that a rollback and a repair leave nothing behind | extends `OrchestratorProofs` |
| `Forwarder` | `forwarder.go` | one control variable per kind of goroutine; a section under `f.mu` is one step, except `Close`, which holds `mu` over several. A copy is blocked in a read or in a write, and only in a read does it hear its source hang up. `wg` is the set of goroutines counted, so `Add` and `Done` are visible. |
| `ForwarderProofs` | the theorems about `Forwarder` | |
| `ImageCache` | `ResolveLayers` from the lookup of the source to the row in the index, and `Reclaim` | `dir` is the image directory, `entries` and `files` what of it has been fsynced, `index` is `build_keys`, `litter` says that kraft's package store holds a temporary package nobody works on, `flight` the singleflight group, `dead` the calls whose errgroup ctx is cancelled. A version is a build key, and several sources may offer the same one (`Offers`): tags of one digest, forks at one commit. One action per phase of a job; a source in `Pulled` is an OCI image and skips the build (`Pack`, `Export`). `Crash` and `PowerLoss` end with the `Reclaim` of the next process. |
| `ImageStore` | abstract: what resolving promises | a `store` of whole images, of which a power loss spares those in `kept`; a `maker` for each key, the key each job `asks` for and its `answer`. `Ask`, `Add`, `Settle`, `Renew`, `Restart`; no staging, index, ctx or kraft. |
| `ImageCacheProofs` | the theorems about `ImageCache` | |
| `ImageStoreProofs` | that `ImageCache` implements `ImageStore`, and what follows for the layers | extends `ImageCacheProofs` |
| `LayerLinks` | `resolveLinks`, `resolveVolumes` (`links.go`), `dataSourceMounts`, `resolveEventLinks` (`run.go`) | operators on a chart body and on what the host shows at each path when a layer is looked at. `LinksVetted` and `VolumesVetted` are the look of the resolver, `Undeclared` what the second look refuses; that one does not look at the host. |
| `ChartRegistry` | the handlers of `cmd/server`, `GetChart` (`cmd/starmap`), `SaveChart` and `GetChartByRef` (`persistence/charts.go`), and `InstantiateChart` and `KillChart` once more, coarsely; extends `LayerLinks` | `saved` is the `charts` table, `from` the copy of the chart each machine was booted from. A reference is a name (with namespace and maintainer) and a version; rows need not differ in theirs. A call has a control point `at`, its request, the `copy` it was given or loaded and the layers it has yet to boot. Each query, each command loop and each boot is one action; the steps within `clearStaleMachines` or `teardownChart` are `Orchestrator`'s. |
| `RunnerLifecycle` | `New`, `Close` (`runner.go`), `run`, `closeWithin` (`cmd/main.go`) around the calls of `ChartRegistry`, which it extends | `main` is the control point of `run`, `open` what the process holds, `server` the state of the gRPC server, `cut` the calls a forced stop has given up on. One action per step of `New`, and one per clean-up: `persistence.Open`'s own, the `s.Close` of the four steps after it, and the `Runner.Close` of a failed `Reconcile`, with a step each for forwarder and store (`RepairFails`, `Undo`); `GracefulStop`, its deadline (`ForceStop`), the goroutine in `Runner.Close` and its deadline (`CloseTimesOut`) interleave with the calls. |
| `RunnerProofs` | the theorems about `RunnerLifecycle` | |
| `BrokerNetwork` | `EnsureBrokerNetwork` (`networks.go`) over a host that reboots | `bridge` is what the kernel says of `gprunner0`, `record` what kraft has on file, `links` what other interfaces hold. `at` walks through one start of the runner; an address is a number and a mask the size of its blocks. |
| `BrokerNetworkProofs` | the theorems about `BrokerNetwork` | |
| `MCOrchestrator`, `MCImageCache`, `MCBrokerNetwork`, `MCRunner` | instances for TLC; `Forwarder` needs none | |

The composition is by extension (`Kraft` in `Orchestrator`, `LayerLinks` in
`ChartRegistry` in `RunnerLifecycle`) and by refinement: `Orchestrator` contains
`Contract == INSTANCE ChartContract WITH ...`, which keeps the rows and machines
of the charts whose callers keep apart and forgets the other charts and every
control point; `ImageCache` contains `Store == INSTANCE ImageStore WITH ...`,
which keeps the whole images, the flights and the results. `RefinesContract` and
`RefinesStore` are those instances' specifications, checked by TLC and proved.

Several operators come in a second form named for what it gets wrong
(`TearListByChart`, `SyncTreeNot`, ...). They are used by no specification. Each
is a plausible mistake in the code, and with it in place of the operator it
varies, TLC finds one of the properties violated.

### What the abstractions leave out

* A layer and its machine name are one identity, and a machine belongs to one
  chart ID. A chart ID with the separator in it would make one chart's prefix a
  prefix of another's (`machines.go:62`); nothing in the runner checks the IDs
  starmap gives out, so this is an assumption about starmap.
* A version and its build key are one identity, an image and its content key
  another: the hashes are taken to be injective. A build key does not say what
  source it came from (`images.go:423`), so one version may be offered by several.
* `kraft` commands are atomic and do not outlive a runner that is killed. A
  foreground `kraft run` that creates its machine after `Reconcile` has listed
  them is therefore not modelled.
* A statement or command that reports an error may or may not have had its
  effect: both are behaviours of the models.
* `RunLayer` ignores the ctx of the call (`run.go`), and so does the model: a
  cancellation is seen only between two layers.
* `resolve` in `Orchestrator` (topics and `ResolveLayers`) may succeed or fail
  for any chart: it changes neither machines nor rows. `ImageCache` is the
  detail of it.
* In `ChartRegistry` any call may pull and kill any chart, and `Starts` names the
  charts each may start; nothing in the code restricts that. Two starts of one
  chart at a time are `Orchestrator`'s subject (`two_starts`), so `OneCopyRuns`
  is about the charts that one call at most starts (`SoleStarter`) and
  `KillTakesAll` about a kill with nobody else to start the chart
  (`StartsAlone`); what the other charts go through is arbitrary.
* `ResolveLayers` looks at each layer at a time of its own, and what the host shows
  may be another thing each time; between that and the boot it may change again. A
  `kraft run` that fails because a path has gone is one of the boots that fail.

## Runs

| Run | Question | Properties |
|---|---|---|
| `serial_faults` | Do row and machines keep the contract under every fault, cancellation and crash when callers do not overlap on a chart? | `StoppedMeansDown`, `IInv`, `RefinesContract`, `TakedownIsDeclared` |
| `clean` | Is a failed start rolled back before its caller hears of it, and does the repair leave nothing of a previous process, two callers on one chart included? Does what the proofs rely on hold beside them? | `CleanInv`, `AbortTakesDown`, `RepairLeavesClean` |
| `answers` | Does every call return and every repair end with overlapping calls and failing commands? | `CallsReturn`, `RepairFinishes` |
| `half_started` | (violation) Is a chart "either fully up or fully down"? | `FailedStartTakesDown` |
| `two_starts` | (violation) Is a chart "instantiated once at a time"? | `OneStartAtATime` |
| `forwarder` | Does `Close` miss nothing, does no relay leak, and does nothing wait for ever? | `ShutdownMissesNone`, `NothingLeft`, `NoLeak`, `IInv`, `NeverRevived`, `GuestsAnswered`, `CloseReturns`, `HangUpEndsBoth`, `CopiesEnd` |
| `network` | Does a runner go on only with the bridge it was configured for, and does a rebooted host start? | `GatewayHeld`, `IInv`, `CreatedApart`, `StartsAfterReboot` |
| `cache_power` | Is every image handed out whole, across crashes and power losses, is a version built once, does no layer get an image of a source that its own shares no build key with, and is the cache, seen from outside, a store of whole images with one maker per key? | `ResolvedIsWhole`, `OneBuildPerKey`, `IInv`, `NoForeignImage`, `RefinesStore` |
| `cache_live` | Does every layer get an answer, is what was published indexed, what is indexed there, and what was only for the build gone? | `IndexIsBacked`, `PublishedIsIndexed`, `PackagesGo`, `ResolutionsReturn` |
| `moving_head` | (violation) Is "a build key deterministic"? | `KeyNamesBuild` |
| `service` | With charts replaced by pulls between any two steps, links that are looked at twice, steps of `New` that fail and shutdowns that do not wait: does a chart run from one copy, does a kill take all of it, and does the process end and close what it holds? | `TypeOK`, `IInv`, `OneCopyRuns`, `OnlySoftLinksAreRefused`, `OnlyCutCallsMeetAClosedStore`, `KillTakesAll`, `PulledIsStarted`, `ExitCloses`, `ShutdownEnds` |
| `empty_pull` | (violation) Does a pull that says OK save the chart? | `PulledIsSaved` |

All of them check for deadlock except `forwarder`, which really stops after
`Close`. Each module has a `TypeOK`; where the run does not list it, it is a
conjunct of the run's `IInv` (`Orchestrator`, `Forwarder`, `BrokerNetwork`) or
proved only (`ImageCache`).

### Bounds

There are no counters to bound: the state spaces are finite by their constants.

* **Orchestrator.** Chart `c1` has a foreground stored procedure and a detached
  event, `c2` one detached trigger: both ways to boot, more than one stage, a
  chart that is half up, and a second chart for `Reconcile` to go on to after
  one it cannot repair. `a2` is booted with `--rm` in `serial_faults`, no layer in
  `clean`, whose properties are about the charts without such layers: both are, the
  one two callers share as well. Two calls, with
  a chart each (`SerialCalls`) or sharing `c1` (`SharedCalls`), and in `clean`
  three, of which two share `c2` (`MixedCalls`): a caller that overlaps and one
  that does not, next to each other. The two that share `c2` are interchangeable,
  so that run takes their permutations as a symmetry, which is sound for its
  properties: an invariant and two action properties, none of which names a call.
  Any number of calls
  follow one another and the runner restarts any number of times. 200 000 to
  3.6 million states.
* **Forwarder.** One guest and two callers of `Close`, so that a relay meets a
  `Close` at each of its points, and a `Close` another one. Guests touch each
  other only through `f.mu` and the wait group, and the safety properties are
  proved for any number of guests and closers; with a single guest, liveness can
  be checked without symmetry. 7 100 states.
* **ImageCache.** Three jobs in two calls of `ResolveLayers`, each with a source of
  its own: one that moves between two versions, a fork (or second tag) that stays at
  the first of them, so that two sources share a build key of which one moves on, and
  one that builds the same image under a key of its own, so that two keys race for
  one directory. One image has no kernel.
  `Limit` is 2, so that jobs of one call run together, and 1 in `cache_live`,
  where a waiting job holds the only slot of its call. In `cache_power`
  all sources are OCI images, so that every comparison with the abstract store
  fits beside crashes, power losses and moving sources; in `cache_live` the first
  two are repositories, whose packages go through kraft's store. A
  package that kraft refuses to remove is in no run: `PackagesAreRemoved` is
  proved with that fault. 735 000 states with faults, 93 000 for liveness.
* **Runner.** A chart with two copies, of which the second drops a layer of the
  first and adds one with an undeclared soft link, and a second chart with an
  undeclared hard link. Starmap may answer a reference with any of the three: the
  first copy has another version than was asked for (none), the second another
  name, and the second chart bears the reference of the first copy, so that a start
  finds its own row, none, or the other chart's. An answer without an ID is possible
  for every reference. One call starts the charts, the other pulls or kills them
  meanwhile; any number of them follow one another, and the process is started
  any number of times. One path of the host is enough, as links are looked at one
  by one. One starting call is enough because the properties are about the
  charts that have no other; the theorems hold for any number of both, with any
  `Starts`. 517 000 states.
* **BrokerNetwork.** Three-bit addresses with all four masks: /31- and /32-like
  subnets without a host address, equal, nested (either way) and disjoint ranges,
  and mismatches in the address or in the mask alone. One other interface at a
  time is enough, since the check looks at each by itself. 660 000 states.

`Faults` names what may go wrong in an instance. A run leaves a kind out where
its property needs it to: `AbortTakesDown` and `RepairLeavesClean` are about
rollbacks and repairs whose own commands succeed, `PublishedIsIndexed` about
statements that succeed, `IndexIsBacked` about a host that stays up. The last is
a real limit, see below.

### Fairness

* `Orchestrator`: weak fairness of each call's steps and of the repair: a
  goroutine that can run does, and every kraft command ends, by its timeout if
  need be (`machines.go`, `runMachineCmd`). Weak fairness of the guests of
  *foreground* layers: `kraft run` without `--detach` blocks its call until the
  guest is gone (`run.go`), so that `CallsReturn` holds only for guests that end
  is a fact about the program, and nothing in the code enforces it. No fairness
  for detached guests, `--rm`, cancellations, crashes or new calls.
* `Forwarder`: weak fairness of the relays and closers, and strong
  fairness of `Accept` for each guest: an `Accept` that fails now and then does
  not fail for ever on an open listener. A copy ends when its own side of the relay
  is closed, whether it reads or writes (weak fairness), and when it is back in a
  read again and again with its source gone (strong fairness of `CopyEnds`): nothing
  is assumed of a write, which blocks for as long as the peer does not read.
  `HangUpEndsBoth` therefore says of a copy whose writes return (`WritesReturn`) that
  the hang-up of its source closes both sides; a copy blocked in a write to a peer
  that has stopped reading keeps the relay until that peer goes or `Close` comes. No
  peer has to hang up, read or write, and nobody has to call `Close`; dials end by
  `brokerDialTimeout`.
* `ImageCache`: weak fairness of each job, commands being under timeouts; that
  covers a job waiting for a slot because errgroup hands a free slot to any
  waiting job.
* `RunnerLifecycle`: weak fairness of `MainStep`, the goroutine of `run` with its
  timers (`shutdownTimeout`, and the bound of `closeWithin`), and of nothing
  else. The `Runner.Close` of a `New` whose repair failed (`runner.go:143`) is a part
  of it: no timer bounds that one, and that it ends rests on `CloseReturns` of
  `Forwarder` and on SQLite. The calls, the guests they may wait for and the goroutine in
  `Runner.Close` may hang for ever: `ShutdownEnds` says that a signal ends the
  process all the same.
* `BrokerNetwork`: weak fairness of the steps of a start. `Heal` marks the moment
  after which commands work and nothing interrupts a start; only starts after it
  have to succeed.

## What is proved

`OrchestratorProofs`, `RollbackProofs`, `RunnerProofs`, `ImageCacheProofs`,
`ImageStoreProofs`, `ForwarderProofs` and `BrokerNetworkProofs` are checked by
TLAPS to the last leaf, for every value of the constants that satisfies the named
assumptions of the modules (`KraftAssumption`, `OrchestratorAssumption`,
`RegistryAssumption`, `CacheAssumption`, `ForwarderAssumption`,
`NetworkAssumption`, `NamesAssumption`). They give the types of the constants,
distinct names and masks that nest, and nothing about which chart bears a reference
or which source has a build key; TLC evaluates them in every run.

| Theorem | Says | Assumes |
|---|---|---|
| `TypeCorrect` | `Spec => []TypeOK` | |
| `Invariance` | `Spec => []IInv` | |
| `StoppedIsDown` | `Spec => []StoppedMeansDown` | |
| `TakedownDeclared` | `Spec => TakedownIsDeclared` | |
| `Implementation` | `Spec => RefinesContract` | |
| `CleanInvariance` | `Spec => []CleanInv` | |
| `RepairClean` | `Spec => RepairLeavesClean` | `RepairSucceeds`: `Reconcile`'s commands and statements do not fail |
| `AbortComplete` | `Spec => AbortTakesDown` | `CallsSucceed`: a call's commands and statements do not fail |
| `RunnerTypes`, `RunnerInvariance` | `Spec => []TypeOK`, `Spec => []IInv` | |
| `OneCopy` | `Spec => []OneCopyRuns` | |
| `SecondLookOnlySoft` | `Spec => []OnlySoftLinksAreRefused` | |
| `StoreOutlivesCalls` | `Spec => []OnlyCutCallsMeetAClosedStore` | |
| `KillComplete`, `PulledStarts`, `ExitClean` | `Spec => KillTakesAll`, `PulledIsStarted`, `ExitCloses` | |
| `CacheTypes`, `CacheInvariance` | `Spec => []TypeOK`, `Spec => [](TypeOK /\ IInv)` | |
| `ResolvedImagesWhole`, `BuildsAreSingle` | `Spec => []ResolvedIsWhole`, `Spec => []OneBuildPerKey` | |
| `IndexBacked` | `Spec => []IndexIsBacked` | no power loss |
| `PublishedIndexed` | `Spec => PublishedIsIndexed` | the store and the disk work |
| `PackagesAreRemoved` | `Spec => PackagesGo` | |
| `StoreImplementation` | `Spec => RefinesStore` | |
| `NoForeignAnswers` | `Spec => []NoForeignImage` | |
| `ForwarderTypes`, `ForwarderInvariance` | `Spec => []TypeOK`, `Spec => []IInv` | |
| `ShutdownComplete`, `CloseLeavesNothing`, `RelaysDoNotLeak` | the forwarder's safety properties | |
| `WaitGroupSound` | `Spec => NeverRevived` | |
| `InUseIsOverlap` | looking at one address of each side decides whether two ranges overlap | |
| `NetworkInvariance`, `NetworkTypes`, `GatewayIsHeld` | `Spec => []IInv`, `[]TypeOK`, `[]GatewayHeld` | |
| `CreatedBridgesApart` | `Spec => CreatedApart` | |

No theorem assumes anything of the callers. Nothing in the runner keeps two calls
from working on one chart, and `two_starts` shows that it matters, so the
properties that need it say of which charts they speak: those whose callers keep
apart (`Apart`, `SoleStarter`, `StartsAlone`), while the callers of every other
chart do what they like. The hypotheses of `RepairClean`, `AbortComplete`,
`IndexBacked` and `PublishedIndexed` exclude a kind of fault that does break the
property: a `kraft rm` that fails in a teardown leaves its machine there, a
statement that fails leaves an image without its row, and a power loss may take an
entry that was not synced (see below). Each leaves the rest of the faults in, boots
that fail, cancellations and crashes among them.

**Orchestrator.** `StoppedMeansDown` is not inductive: `MarkStopped` writes the
row without looking at the machines. `IInv` adds what the process knows when it
gets there, for `Main` and for each call without a rival on its chart (`Solo`);
of the others it says only that their loops stay within their chart (`OwnLayers`),
which is what keeps them away from everybody else's. While `teardownChart` loops,
every machine of the chart is still ahead of it (`Ahead`), so nothing is left when
the loop ends; that survives because only an own step can boot a layer of the
chart, and guests and `--rm` only take machines away. The loop of `clearStaleMachines` knows
besides that nothing of the chart runs. While a chart boots, what is no longer
to boot was booted, and the row says `starting`; while it is torn down by a
call the row says `stopping`. `Reconcile` and the calls exclude each other
(`RepairAlone`). The proof has three kinds of lemmas: a step stays within its
chart (`...Contained`), what another process knows survives such a step
(`Undisturbed`), and the process that moves learns what its next point promises
(`...Knows`). The refinement and `TakedownIsDeclared` are read off the invariant,
step by step (`StepKeepsContract`, `StepDeclares`).

**Rollback and repair.** That `abortStart` and `Reconcile` take everything down
needs more: a loop must not fail on a machine that is not there. `CleanInv` adds
that every machine ahead of a loop exists, for charts without `--rm` layers
(`Kept`), whose machines only their own processes remove; that an `abortStart`
stays within its teardown until it returns; and that the listing `Reconcile` took
at its start still tells what the charts it has not handled have, so that acting
on that listing after the teardowns is sound. `RepairCovers` is the progress of
the repair: a chart it has handled is down and its row says so, and what exists
beyond the rows is ahead of the orphan loop. That part alone needs
`RepairSucceeds`; the rest is inductive under any faults.

**Runner.** `OneCopyRuns` alone does not survive a boot: the call must know that
what runs comes from the copy it loaded. `IInv` says so from the moment
`clearStaleMachines` has emptied the chart's prefix (`MachinesKnow`), which
holds because pulls replace `saved` but never the `copy` of a call, kills only
take machines away, and nobody else boots layers of a chart it starts alone.
For that no call may stray to a chart it was not asked to start, whatever version
starmap answers with: `StartsKnow` follows the reference from the request over the
pull and the row to the copy at work, over every chart that bears what is looked
up (`Named`), since the query takes any. `CallsKnow` carries the
version of the chart a start was given from `Save` to `Load`; with the name that was
asked for it is the chart's reference, so `GetChartByRef` finds its row if no other
bears it (`PulledIsStarted`). `MainKnows` ties `main` to the server and the calls:
none is in flight before the server is up, and after it only calls in `cut` are left.
`MainHolds` says what is open at each point of `main`. The seven ways to the end of
the process close different sets of it: `ExitCloses` is that each of them closes
what is open where it starts, the clean-ups of `New` by themselves, the rest with
the deferred calls of `run`.

**Image cache.** An image is renamed into place only with its files flushed, so a
present directory is whole and stays whole (`CacheWhole`): a power loss may take
the directory entry, never a file of it. `JobsKnow` carries what a job has fetched
and flushed to the rename, and `FlightsAreLed` says that a flight has one leader
at work and a job that waits has a flight. `OneBuildPerKey` follows because two
builders of a key would both be its leader; `IndexIsBacked` because a directory
only goes with the power; `PublishedIsIndexed` because nothing between the rename
and the row looks at the caller's ctx.

**The image store.** The mapping calls a job one that asks from the moment it
leads or follows a flight until its answer. A step of the cache is then a step of
the store or none: `Join` is `Ask`, the rename of a staging directory is `Add`,
and every way out of a build, in success, failure or cancellation, is a `Settle` that
answers the leader and all its followers at once. This rests on two strengthenings
of the invariant that whole images alone do not need. `Provenance`: a job looks up
and fetches what its own source shows, and the row of a key holds an image of a
source that may have that key (`Gives`), so that a `Settle` answers with such a one.
Whose it is among the sources that share the key the code does not tell. `Unanswered`: a job at
work has no answer yet. And every synced directory entry is a whole image, so that
a power loss takes from the store only what was never kept. `NoForeignImage` is
proved of the abstract steps alone, where it takes six short cases, and carried
over by the refinement.

**Forwarder.** `IInv` ties where a relay is to what it holds: which of its two
sockets may be open, which are in `f.conns`, and that it is in the wait group;
and ties each caller of `Close` to `f.mu`, to `closed` and to the listener.
`ShutdownMissesNone` is a conjunct: once `closed`, `track` refuses, and `Close`
releases `f.mu` only after it has closed every connection in the map.

**Broker network.** `InUseIsOverlap` is the heart of it: `checkSubnetFree` asks
whether the subnet contains the other address or the other range contains the
subnet's first address. Masks nest, so what the longer prefix keeps together the
shorter one does not separate, and a common address carries over to the address
that was looked at. `IInv` says what a start knows at each of its points: the
configured address is assignable, the ranges are free, no bridge was there.

### Checked by TLC only

* Liveness (`CallsReturn`, `RepairFinishes`, `GuestsAnswered`, `CloseReturns`,
  `HangUpEndsBoth`, `CopiesEnd`, `ResolutionsReturn`, `StartsAfterReboot`,
  `ShutdownEnds`): the prover does not reason about fairness or `ENABLED`.
  Every invariant and every action property of a passing run is a theorem.

No module needs a recursive definition: the loops of the code run over sets, in
any order, and the order the code does keep (the stages of a boot) is a guard.

## Where code and comments disagree

* **`half_started`.** `orchestrator.go:52` promises that a chart is "either fully
  up or fully down: any failure from here on, including a cancelled ctx, takes
  down what already booted". The last `UpdateChartState` (`orchestrator.go:90`)
  returns its error without `abortStart`: a caller that gives up after the last
  layer booted gets an error and leaves the chart running, with its row at
  `starting` until the next kill or restart.
* **`two_starts`.** `runner.go:40` says a chart "is instantiated once at a time".
  `clearStaleMachines` looks at the machines once, and until the first layer is
  booted nothing keeps a second call out: both boot, and the one that loses a
  machine name rolls back the other's layers. For the same reason a `KillChart`
  that lists the machines while a start is under way misses the layers booted
  after it, writes `stopped` and returns no error; `StoppedMeansDown` holds only
  for charts whose callers keep apart.
* **`moving_head`.** `persistence/images.go:50` calls a build key deterministic.
  The key is derived from the head that `git ls-remote` showed, the clone takes
  whatever the head is later, so a push in between stores the new commit's image
  under the old commit's key. The key does not name the repository either, nor an OCI
  key the image reference (`images.go:423`): a fork at the old commit, or a second
  tag of the old digest, is then given the new image as well. `NoForeignImage` says
  that it goes no further than that.

* **`empty_pull`.** `server.go:29` says "Pull fetches the chart from starmap and
  saves it". A chart without an ID is refused by the client with an error that
  wraps none (`client.go:65`). `pull` asks `status.FromError` for the status of
  `errors.Unwrap(err)`, which is nil then, and the status of no error is OK
  (`server.go:89`): `Pull` answers OK with an empty chart and nothing saved, and
  `Instantiate` goes on with a reference without a version: it answers `NotFound`,
  or starts what an earlier pull has saved without one.

Read off the models, without a run of their own:

* `main.go:80` says that the server "must be stopped before the runner it calls
  into goes away". When `Serve` returns an error nobody stops the server, and a
  forced `Stop` does not wait for the handlers it cuts off: calls of both kinds
  can meet the closed store. `OnlyCutCallsMeetAClosedStore` says that no other
  call does.
* `main.go:78` says that every path closes the runner. It does (a `New` that fails has
  closed what it opened itself, at `runner.go:143` without a bound), but a
  `Runner.Close` that exceeds `closeWithin` leaves the store unclosed, since the
  forwarder comes first (`ExitCloses` excepts `CloseTimesOut`). `CloseReturns`
  says the forwarder does not hang by itself.
* `links.go:18`: "soft links aren't mandatory for layer start up". One that the chart does not declare
  passes the resolver and stops the boot in `dataSourceMounts`, with the layers
  before it already up (`OnlySoftLinksAreRefused` says that no other name does). A
  hard source or a volume that vanished after it was looked at is passed to `kraft
  run` all the same (`run.go:137`), which fails with half of the chart up; what is
  promised then is the rollback (`AbortTakesDown`).
* `server.go:38`: "Instantiate starts a saved chart, re-pulling it first when asked
  to". Of the chart it was given it takes over the version only (`server.go:50`), and
  `charts` has no constraint on references: if the answer bears another name, or
  another chart bears the same reference, the start answers `NotFound` or starts the
  other row's chart. `PulledIsStarted` without either condition is violated.
* `forwarder.go:92` waits for "whichever side hangs up first".
  `io.Copy` hears of a hang-up when it reads: a copy blocked in a write to a peer that
  has stopped reading, which has no deadline, leaves both connections open.
* A chart that runs answers `NotFound` under the version it was started with once
  a newer version was pulled: `SaveChart` replaces the row. It can be killed
  under the new one, and then entirely (`KillTakesAll`).
* A follower of a singleflight gets its leader's cancellation, although its own
  ctx is alive.
* When two keys build the same image, the second may index a directory whose
  entry the first has not synced yet, so after a power loss a row can name a
  directory that is gone. The next lookup treats it as a miss (`hasKernel`),
  which is why `ResolvedIsWhole` holds all the same.
* `kraft pkg` that is cut short may leave its package in kraft's store until the
  next process reclaims it; an error of a later step may not (`PackagesGo`).

## Not modelled, and why

* The wording of `kraft`'s arguments (`BuildArgs`, `volumeSpec`), log messages,
  the gRPC codes beyond the ones callers tell apart, conversions of charts: no
  state and no order.
* `pkg/model` (types) and the generated API.
* The bytes of an image (`extractPackage`, `untar`, hashing, the OCI index): an
  image is an identity, whole or torn.
* `TouchImage`, which only moves a timestamp; `GetChartState` and
  `DeleteChartState`, which have no caller.
* A `kraft` that outlives a killed runner (`run.go:51`): its machine could appear
  after `Reconcile` has listed them.
* A staging directory that `Reclaim` cannot remove: its name is never used again.
* An interface whose addresses cannot be read, which `checkSubnetFree` skips, and
  an interface that appears between that check and the creation of the bridge:
  `CreatedApart` does not hold with either, and the code does not say it should.
* Time: a timeout is a command that may fail.

## Plan

The order of work was `Kraft`, `ChartContract`, `Orchestrator` and its proofs,
`Forwarder`, `ImageCache`, `BrokerNetwork`, then `LayerLinks`, `ChartRegistry`,
`RunnerLifecycle` and the proofs of those and of the cache, then the theorems
without assumptions on the callers, `RollbackProofs` and `ImageStore`. What is
left, in the order of what it is worth:

1. `ChartRegistry` implements `ChartContract` chart by chart: its calls are coarser
   than those of `Orchestrator` and keep no row, so the row has to be added to it
   or read off its control points.
2. An abstract specification of the forwarder's shutdown (connections served and
   closed, nothing else), which `Forwarder` implements.
3. `kraft run` as a process of its own in `Kraft`, which outlives its runner, and
   what `Reconcile` can still promise then.
4. Machine names as sequences, for chart IDs that contain the separator.
