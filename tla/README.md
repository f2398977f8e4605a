# Landscaper: a TLA+ model of installations, executions and deploy items

The landscaper rolls out software into target clusters.  An *Installation*
imports data, is split into subinstallations, and is rendered into an
*Execution*, a list of deploy item templates with dependencies; the execution
controller turns every template into a *DeployItem*; a *deployer* (manifest,
helm, container) deploys it; what it exports becomes the import of other
installations.  All of these
are Kubernetes objects: the controllers share no memory and talk to each other
only by reading objects through informer caches and writing them through the
API server, and any of them can be restarted at any time.  What can go wrong
goes wrong between two such calls, which is where these modules look.

All paths below are relative to the root of the repository.

## 1. Inventory

| Component | State it keeps | Operations | Talks to |
|---|---|---|---|
| Execution controller (`pkg/landscaper/controllers/execution`, `pkg/landscaper/execution`) | `Execution`: phase, observed generation, last error, references to its deploy items, `execGenerations`; the data object with the exports | `HandleAnnotationsAndGeneration`, `HandleDeployItemPhaseAndGenerationChanges`, `Operation.Reconcile`, `Operation.Delete`, `cleanupOrphanedDeployItems`, `collectAndUpdateExports`, the error handler | woken by every change of the Execution or of a DeployItem it owns; creates, updates and deletes DeployItems |
| Deploy item controller (`pkg/landscaper/controllers/deployitem`) | nothing of its own; delayed entries in its work queue | pickup, aborting and progressing timeout | writes phase and annotations of DeployItems behind the deployer's back |
| Deployer library (`pkg/deployer/lib`) | `DeployItem` status and annotations, the export secret | `Reconcile` (dispatch), `HandleAnnotationsAndGeneration`, `PrepareReconcile`, `HandleErrorFunc`, `CreateOrUpdateExport`, extension hooks, continuous reconciliation | reads DeployItems, calls a deployer |
| Manifest deployer (`pkg/deployer/manifest`), resource manager (`pkg/deployer/lib/resourcemanager`), readiness checks | list of managed resources in the provider status; resources in the target cluster | `Reconcile`, `CheckResourcesReady`, `Delete`, `ForceReconcile`, `Abort` | target cluster |
| Container deployer (`pkg/deployer/container`) | pods on a host cluster with finalizer and generation label, secrets, RBAC, the backup of the state | one `Reconcile` run by two controllers, `shouldRunNewPod`, `generatePod`, `CleanupPod`, `Delete`, the garbage collector of pods | host cluster; woken by DeployItems and by pods |
| Helm deployer (`pkg/deployer/helm`), mock deployer | as the manifest deployer | as the manifest deployer | target cluster |
| Installation controller (`pkg/landscaper/controllers/installations`, `pkg/landscaper/installations`) | `Installation`: phase, observed generation, config generation, the config generation of every import; subinstallations; data objects and targets | `Reconcile`, `HandleSubComponentPhaseChanges`, `CheckDependentInstallations`, `ImportsSatisfied`, `Constructor.Construct` of imports and exports, `subinstallations.Ensure`, `executions.Ensure`, `CreateOrUpdateExports`, `TriggerDependants`, `handleDelete`, forced variants, the error handler | writes Executions and Installations; woken by its own, its children's and its execution's changes |
| Deployer management, agent (`pkg/deployermanagement`, `pkg/agent`) | registrations, environments, their installations | create and delete one installation per pair | writes Installations |
| Phase and error helpers (`apis/core/v1alpha1/helper`, `apis/errors`) | none | `CombinedExecutionPhase`, `GetPhaseForLastError`, predicates | used by all controllers |
| Context and component-overwrite controllers, blueprints, registries, JSON schemas, templating, commands, webhooks, CRD manager | derived objects, in-memory maps | data transformation, start-up | - |

What is hard here:

- *interleaving*: three controllers, users and the garbage collector write one
  DeployItem; two controllers of one process run the same Reconcile of the
  container deployer; the installation controller edits an Execution whose
  Reconcile is half way through its list, and installations that import from
  each other are reconciled side by side;
- *atomicity and crashes*: one Reconcile is up to a dozen writes; every prefix
  of it can be all that happened, because of a refused write or a restart;
- *stale state*: reads come from caches, the list of items is read once and used
  through the whole loop, a merge patch does not check the resource version;
- *timeouts*: a timestamp annotation is judged by one controller and removed by
  another;
- *liveness*: nobody polls; a phase changes only if some event brings the
  controller back.

What makes the parts correct, in short: items appear in the order of their
dependencies and disappear in the opposite order, installations likewise along
their imports; the status of an Execution describes its items, the config
generation of an Installation what it has published; `Succeeded` means that everything of the present spec is
rolled out and exported; a finalizer goes after what it protects; every request
and every deletion comes to an end.  `PROJECT.json` lists the components, the
hazards with the line where they bite, and which definition stands for which
lines.

## 2. Modules

| Module | Content |
|---|---|
| `Phases` | phases, `CombinedPhase`, `PhaseForLastError` |
| `PhaseLoop` | the loop of `CombinedInstallationPhase` and the accumulation in `Operation.Reconcile`, step by step, against `CombinedPhase` |
| `Execution` | the execution controller with its environment |
| `MCExecution` | its instances for TLC: two templates, chained or independent |
| `DeployItem` | one DeployItem between execution controller, deployer and deploy item controller |
| `DeployerContract` | what the landscaper relies on for any deployer: the abstract specification of a DeployItem, which `DeployItem` implements |
| `ContainerDeployer` | one DeployItem between the two controllers of the container deployer, its pods and their garbage collector |
| `Installation` | the installation controller on a forest of installations, with executions as it sees them |
| `MCInstallation` | three forests for TLC: two roots in a chain, a tree with an importer beside it, a parent with a pair |
| `PhaseLoopProofs`, `ExecutionTypes`, `ExecutionOrder`, `ExecutionBookkeeping`, `DeployItemProofs`, `ContainerProofs`, `InstallationProofs`, `InstallationCurrent` | theorems |

`Phases` is shared by all.  The modules compose along the objects: `Installation`
writes the Execution that `Execution` works on (there the event
`EnsureExecution`), `Execution` triggers the item that `DeployItem` follows
through a deployer (there the event `Trigger`).  Each module replaces the layer
below by what it may see of it; `DeployerContract` is that view for the deploy
items, and that the shipped deployer stays within it is checked and proved.

### Execution

`exec`, `di` and `exports` are the objects in the API server; `cexec` and
`citems` are what the informers know of them when they may lag (`Lag`).  `pc`,
`l`, `loc` are the running Reconcile: the next API call, its copy of the
Execution and its other local variables.  `queued` is the work queue, `done` a
history variable used by one property.

Each value of `pc` is an API call, each action the code from one call to the
next: `Get`, `ResetPhase`, `DropOperation`, `ForceReset` (controller.go and
`HandleAnnotationsAndGeneration`), `Recheck` and `ExportAgain` (a completed
execution), `AddFinalizer`, `ListItems` (the list, matching with the templates,
clean-up of orphans), `LoopItem`, `ApplyItem`, `RecordItem`, `EndLoop`,
`RemoveForce`, `Export` (`Operation.Reconcile` and `deployOrTrigger`),
`DeleteList`, `DeleteItem`, `RemoveFinalizer` (`Operation.Delete`) and
`HandleError` (the deferred error handler).  `CallFails` is the failure of any
call that is not an optimistic write; those fail inside their own actions.

Three facts about the API server carry most of the behaviour.  A full `Update`
or `Status().Update` is refused when the object changed since it was read
(`cur`).  A `Status().Patch` is not, it carries the changed fields only, and its
answer replaces the copy in memory (`RecordItem`).  A deletion only marks an
object that has a finalizer, and counts as a new generation (`Deleted`).  A nil
dereference in `addExports` ends the process and is a `Restart`.

Abstractions:

- The content of a template is the generation of the execution in which it got
  this content (`spec[t]`), so "the item has the content of the template" is an
  equation of numbers.
- The deployer follows the documented contract
  (`docs/technical/deployer_contract.md`): pick up, begin, succeed or fail,
  release.  `DeployItem` models the shipped deployers instead.
- Steps of the loop that call nobody only touch local variables; no other actor
  moves between them (`pc # "loop"` in `Next`).  They commute with every step of
  the others, so nothing is lost.
- A last error has no time: one of the same kind counts as the same error when
  `HandleError` compares the one it finds with the one at the start of the run.
- Edits, deletions, retries, failures, refused calls and crashes are *events*: at
  most `MaxEvents` of the kinds in `Events`, each at any point of the behaviour.

### DeployItem

`di` is the item, `cluster` and `doomed` the target cluster, `secret` the export
secret.  `dpc`, `dl`, `dcur`, `derr` are a run of the deployer, `tpc`, `tcur`,
`timer` a run of the deploy item controller and its delayed queue entry.

The deployer's actions follow `controller.go` of the library and then
`manifest/ensure.go`: `Get`, `Prepare`, `DropAnnotations`,
`ShouldReconcileHook`, then by `Dispatch` either `AddFinalizer`, `Apply`,
`StoreProgress`, `CheckReady`, `WriteExports`, `Publish`, or `Delete` and
`RemoveFinalizer`; `HandleError` stores the outcome.  The deploy item controller
decides in `CheckDeadlines` and makes one write: `FailPickup`, `FailAbort`,
`ForgetAbort` or `SetAbort`.  `Trigger` is what the execution controller writes.

Abstractions: all manifests of an item are one resource, deployed at one version
of the spec, in part (`Partial`) or not at all; a timestamp is absent, fresh or
past its deadline; `managed` says whether the list of managed resources is
non-empty.

### DeployerContract

Eight variables in the terms of the contract: is the item alive, leaving, in
which phase, has somebody asked for work, is what the present spec describes
deployed.  `Contract` in `DeployItem` is the refinement mapping and
`ImplementsContract == Contract!Spec`.  It says for instance that a request only
disappears after a start or under another operation, that `Succeeded` is
reported from a working phase and with the present spec applied, that work goes
on after a timeout but never on a succeeded item, and that an item goes when
what its status lists is gone.

### ContainerDeployer

`di` is the item, `pods` the pods in order of creation (with the finalizer, how
they ended, and whether that has been stored in the item).  Everything a run
remembers is indexed by the worker: "item" is the controller of the deployer
library, "pods" the `PodReconciler`, which looks neither at the annotations nor
at the phase.  The actions follow `container_reconcile.go`: `Look` lists the
pods and decides (`StillRunning`, `CannotStart`, `BeginPod`, `NothingToDo`,
`Complete`), then `CreatePod`, `PatchStatus`, `DropOperation` start one, and
`StoreOutcome`, `ReleasePod`, `DeletePod` end one.  `Prepare`, `DropAnnotation`,
`AddFinalizer`, `RemoveFinalizer`, `HandleError` are the library's.  `Collect`
is the garbage collector.

Abstractions: a pod is running, stuck (its image cannot be pulled), succeeded or
failed; the informers are current; pods have distinct creation times.
`NoStartUnderWay` is a timing assumption: a pod lives longer than the calls that
take up a request and record its start.  Without it every round of conflicts
between the two controllers may start one more pod, without end.

### Installation

`inst`, `exec` and `data` are the objects; `run[i]` is the Reconcile of
installation `i` (next call, copy of the Installation, decisions taken so far);
`fresh[i]` says of which objects it holds the current resource version, and a
write with another one is refused.  At most `Workers` runs are under way.

A Reconcile is one step per write and one per group of reads whose results are
used after others may have written: `Get`, `AddFinalizer`, `DropReconcile`;
`CheckChildren` (are the children done), `InitPrerequisites` (parent and siblings),
`CheckEligible` (is there something new, are the dependencies complete);
`ReadValues` and `WriteImports` (an import's value and its config
generation are read by different calls); `EnsureSubs`, `CreateSub`,
`TriggerSubs`, `EnsureExecution`; `WriteExports`, `Publish`,
`TriggerDependants`; `Recheck` and `Rephase` for a completed installation;
`Delete`, `DeleteAll`, `RemoveFinalizer`; `Finish` is the error handler.

Abstractions: the phases of the execution and of the subinstallations are read in
one step, so are the parent and the siblings, and what decides on eligibility;
between these steps, but not within one, another run may write.  A data object is
known by what it was computed from (version of
the spec and imported values), so a stale value is a different value; the
config generation, a hash in the code, is the pair it is computed from; the
execution starts, ends and disappears by itself, and exports what it was
rendered from.  The fields of `Imports` and `Exports` are the mappings of the
blueprints, and `DataFlowAssumption` is what the uniqueness checks of exports
and the topological order guarantee.

## 3. Runs

Two templates of which the second depends on the first are the smallest
execution in which order, partial progress and "one item is done, the other is
not" exist, and a chain of two installations the smallest in which data flows;
two generations are enough for an object to be behind; a third item is there so
that a deleted or duplicated one can be followed by another.  An event is
of any of the kinds listed and happens at any step at which its object is in the
state it needs (only a failed item is retried), so two give every pair of an edit,
failure, refusal or crash in the middle of every write sequence, and one, where the
caches lag or two controllers share the item, each of them.  The budget
bounds the environment only, the controllers run without bound.

`CHECK_DEADLOCK FALSE` everywhere but in `phase_loop`: a system in which nothing
is left to do rests, which is the goal.

| Run | Instance | Shows |
|---|---|---|
| `rollout` | `Execution`, two chained templates, 2 events of nine kinds | items are created in order (`OrderedCreation`) and deleted in reverse order (`OrderedDeletion`); what is recorded as applied is applied (`RecordedGenerationApplied`); `Succeeded` without error is complete, exports included (`SucceededIsComplete`); the Execution outlives its items (`FinalizerProtectsItems`) |
| `settling` | `Execution` with fairness, 2 events | the execution comes to rest (`Settles`), a deletion ends (`DeletionCompletes`) |
| `stale_items` | `Execution`, the cache of DeployItems lags | order and bookkeeping survive stale lists |
| `stale_execution` | `Execution`, its own cache lags | types, bookkeeping, one item per template |
| `item_chaos` | `DeployItem`, 2 events of ten kinds, all timeouts | `SucceededIsDeployed`, `RecordedResourcesGoFirst`, `FinalUntilTriggered`, types; every step is one of the contract (`ImplementsContract`) |
| `item_liveness` | `DeployItem`, 2 events of six kinds, all timeouts | the timeouts alone bring an item to an end (`WorkEnds`); if the deployer is fair, a request is served (`RequestServed`) and a deleted item disappears or has failed (`DeletionEnds`) |
| `phase_loop` | `PhaseLoop` | the loop and the accumulation compute `CombinedPhase` in any order |
| `two_workers` | `Installation`, two roots in a chain, 2 workers, 2 events of eight kinds | an installation goes after all it has created (`GoneIsClean`), and not while a sibling has deployed with its exports (`ImportedIsKept`), types |
| `converging` | `Installation`, the chain, 1 worker, 2 events of five kinds | sources finish before an importer rolls out (`SourcesFinishFirst`), one config generation is one value (`CurrentIsDeployed`), all is deployed with what is published in the end (`Converges`) |
| `subinstallations` | `Installation`, a parent with two children of which one imports from the other, 2 events of three kinds | `GoneIsClean`; a recorded generation has been handed down (`RecordedIsEnsured`); a deletion ends (`DeletionEnds`) |
| `stale_export` | `Installation`, a parent with a child, and an importer beside it, one change of data | violates `CurrentIsDeployed`, see below |
| `container` | `ContainerDeployer`, 1 event of six kinds, at most six pods | few pods are started (`FewPods`), a pod goes after its outcome was stored (`LastOutcomeIsRecorded`), success comes from a pod (`SuccessComesFromPod`), an item ends (`RunEnds`), no finished pod stays (`PodsEnd`) |

What a passing run leaves out, and why:

- `rollout` has neither `remove` nor `deleteItem`: the orphans of removed
  templates are ignored by `Delete` (delete.go:31), and an item that disappears
  during the deletion makes the finalizer go too early; its templates are
  chained because for independent ones `RecordedGenerationApplied` fails.  The
  observations below have both.
- `settling` has no `apiError`, `remove` or lag, see the observations.
- `stale_items` does not claim `OneItemPerTemplate`: names are generated, so a
  stale list leads to a second item.
- `item_liveness` has no `apiError`, `force` or `due`.  `RequestServed` excepts a
  request that an abort or a forced reconcile has overwritten; `DeletionEnds`
  excepts an item that a timeout has failed, as the contract intends, and one
  with the force annotation.
- `converging` has one worker, the default (defaults.go:96): between two workers
  the phases that `CheckDependentInstallations` looked at may be outdated when
  the result is used, and `SourcesFinishFirst` fails.  It has neither failures
  nor refused calls: a refused write after `TriggerDependants` leaves importers
  that nobody triggers.
- `subinstallations` checks `RecordedIsEnsured` while all templates are present:
  see *Orphan first* below.
- `container`: by `FewPods` at most three pods are started with one event, so
  the constant `MaxPods` never stops a controller from creating one.

### Fairness

`Execution`: weak fairness of the controller (it has a worker, and a queued key is
worked on), of the informers, of the deployer of each item and of the garbage
collector.  `DeployItem`: `UnattendedSpec` has weak fairness of the deploy item
controller and of time (a delayed queue entry becomes due); the properties that
need a deployer that runs state `DeployerFairness` as their hypothesis.
`Installation`: strong fairness of `Get` for every installation (the queue is
first in, first out, so a key is not passed over for ever by keys that come
back), weak fairness of the steps of a run, of executions and of the garbage
collector.  `ContainerDeployer`: weak fairness of both controllers, of the end of
some running pod and of the garbage collector, which sees all pods when its
cache is listed again.  Controller-runtime keeps a key in the queue until a
worker takes it and requeues it after an error, which is what justifies the
fairness of the controllers.  Nothing is assumed of users, edits, failures,
timeouts' relative order or crashes.

## 4. Findings

`stale_export` (`controllers/installations/reconcile.go:96`).  A parent passes
the export of its subinstallation on.  New data arrives: the parent hands it
down and marks the subinstallation with a reconcile annotation
(subinstallations.go:36), which does not change its generation.  If the parent
is reconciled before the subinstallation has started, `CombinedPhase` compares
generations only (subinstallations/helper.go:169), finds it `Succeeded`, and the
parent publishes the old export under the config generation of the new imports
(operation.go:605).  A sibling that imports it rolls out the old value.  The new
export follows later, under the same config generation, so that the sibling is
never outdated: everything is `Succeeded`, with old data.  The type says
"ConfigGeneration is the generation of the exported values."
(`apis/core/v1alpha1/types_installation.go:181`).

### Further observations

Behaviours the models show with other settings, or that were met while reading;
no document of the repository contradicts them plainly, so they are not kept as
runs.

*Installation*

- **Orphan first.**  `Ensure` returns without applying the templates when it has
  deleted an orphan (subinstallations.go:45), and the caller records the
  generation: the other changes of the same edit are never applied.
- **Partial creation.**  A refused status update after an importer was created
  before its sibling leaves a subinstallation whose imports nobody will export
  until the parent is edited, and which keeps the parent from going on.
- **Lost requests.**  The reconcile annotation is removed before the work is done:
  a crash in between drops the request.  `TriggerDependants` runs before
  `Succeeded` is stored and stops at the first sibling that was changed since
  the context was read; the others are not triggered again.
- **Deletion is blocked** by an invalid blueprint, by unsatisfied imports of the
  installation to be deleted, and by a missing parent.
- **Forced deletion** skips the check of the siblings when there is no execution
  and no subinstallation, and its first run always fails: the annotation is
  written with a copy that the deletion before it has outdated
  (reconcile_delete.go:153).  It is not handed down to the subinstallations,
  because the loop variable shadows the parent (reconcile_delete.go:177).
- **Targets** are not protected by `checkIfSiblingImports`, which looks for their
  names among the data imports.
- **Abort.**  The abort annotation is never removed by the controller.
- **Value and generation of an import** are read by two calls (operation.go:214):
  a new value may be recorded under the old generation and the reverse.
- **Old value, new generation.**  Without subinstallations too, an installation may
  stay `Succeeded` on an old value and not be outdated.  Three in a row, `a`, `b`,
  `c`: a status of `b` refused after its rollout leaves it outdated while `a` has not
  finished, so the recheck publishes the new exports of `b` under the config
  generation of its old imports (`alter`, `reconcile`, 3 events).  A source without
  deploy items reads its data after it was found up to date, and again after a
  crash (`data`, `reconcile`, `crash`).  Two workers reach it with `data` and `alter`; a
  lasting error (`data`, `reconcile`, `apiError`, `lasting`) and an abort (`data`,
  `abort`, `reconcile`, `crash`) make a run final that has rolled out imports it did
  not record, and the recheck does the rest.  (`CurrentIsDeployed`.)
- **Empty phase.**  `HandleSubComponentPhaseChanges` may set a completed
  installation back to the empty phase while its subinstallations have none;
  its parent's `CombinedPhase` then counts it like one that is not there.  When a
  subinstallation has failed with an error of five minutes before its first
  update, and a deletion follows, the parent's finalizer is removed while the
  subinstallation and its execution exist.  (`GoneIsClean` in a forest with
  subinstallations, with `force`, `apiError`, `lasting`, `abort`, `delete`.)
- **Re-created child.**  The `Update` in the deletion of a parent (delete mode, after
  the children were removed by force) creates a subinstallation anew; it is
  then deleted before it has a finalizer, so `checkIfSiblingImports` is not asked,
  while its importer is still deployed.  (`ImportedIsKept` in a forest with
  subinstallations, with `delete`, `force`, `data`.)

*Execution*

- **Edit during apply.**  `deployOrTrigger` records an item with `Status().Patch`
  (reconcile.go:203).  The answer replaces the Execution in memory, generation
  included, while the loop goes on with the templates read before.  If the spec
  was edited in between, the next item gets the old template and the new
  generation, and counts as up-to-date.  (`RecordedGenerationApplied` with two
  independent templates and `ensure`; `SucceededIsComplete` as well with `ensure`
  and `alter`, 2 events.)
- **Item gone early.**  `Delete` sets `allDeleted = true` when an item turns out to
  be gone (delete.go:49), forgetting the items earlier in the list that still
  exist; the finalizer is removed too early.  (`FinalizerProtectsItems` with
  `deleteItem`, `delete`.)
- **Late pickup.**  A completed execution is recomputed from the items it has
  references to only (helper.go:115).  If it had failed with its first item and
  that item is retried and succeeds, it becomes `Succeeded` although other
  templates have no item yet, and `addExports` dereferences nil.  (`ensure`,
  `retryItem`, `fail`, `pickupTimeout`.)  The last error stays in its status,
  which is why `SucceededIsComplete` speaks of executions without one.
- **Retriggering.**  `checkRunnable` (reconcile.go:264) accepts a dependency
  that the same loop has triggered a moment before when its template is
  unchanged; and `Succeeded` is set while items still carry the reconcile
  annotation (reconcile.go:85).  (`ensure`, `alter`, 1 event.)
- **Removed template.**  Its reference is never dropped (helper.go:101), the
  recheck finds the item missing, and the execution alternates between
  `Progressing` and `Succeeded`.  (`Settles` with `ensure`, `remove`.)
- **Stale list.**  With a lagging item cache a template gets a second item.
  (`OneItemPerTemplate` with `Lag = {"items"}`, no events.)  The new one starts
  at generation 1, and so does the record of the template: after an edit the
  item with the old spec counts as up-to-date, because only generations are
  compared, and the execution becomes `Succeeded` with its exports.
  (`SucceededIsComplete` with `Lag = {"items"}`, `ensure`, `alter`, 1 event.)
- **Lost status update.**  A status update refused in the error handler is
  retried only if the run had an error anyway (controllers/execution/
  controller.go:172).  (`Settles` with `apiError`.)
- **Export not retried.**  helper.go:118 stores the phase before it collects the
  exports; if that fails nothing asks for them again.  (`retryItem`, `fail`,
  `apiError`.)
- **Orphans at deletion.**  `Delete` looks at items of present templates only
  (delete.go:31); the others are left to the garbage collector.
- **Failed deletion.**  An execution whose item failed to be deleted is
  reconciled on every event without an end.

*DeployItem*

- **Missing exports.**  `CheckResourcesReady` sets `Succeeded` in memory before the
  exports are read (manifest/ensure.go:146); when that fails the error handler
  stores `Succeeded`, and the retry skips the item.  (`SucceededIsExported`.)
- **Pickup timeout between two writes.**  The deployer stores `Init` first and
  removes the timestamp in a second write (lib/utils.go:49-66); a timeout in
  between fails an item that has been picked up
  (controllers/deployitem/controller.go:178).
- **Stale abort timestamp.**  The timestamp of an abort that was overtaken by a
  new request is judged against the new work (controller.go:212).
- **Lost request.**  `SetAbort` overwrites a reconcile annotation
  (controller.go:266).  (`RequestServed` with all timeouts.)
- **Leaked resources.**  When the status update after `Apply` is refused the list
  of managed resources is lost, and a `Delete` with an empty list looks for
  nothing (manifest/ensure.go:80, 155).  `RecordedResourcesGoFirst` therefore
  speaks of the stored list.
- **Forced deletion.**  `ForceReconcile` removes its annotation in memory only
  (manifest/controller.go:72), so an item with it is deployed again and again
  instead of being deleted.  (`DeletionEnds` with `force`.)

*Manifest applier* (read, not modelled)

- The fallback policy of the clean-up looks at the label of the manifest and not
  at that of the resource in the cluster (docs/deployer/manifest.md:147); the
  list of managed resources is replaced before the clean-up when a manifest
  could not be applied (objectapplier.go:138); errors of concurrent deletions
  are appended to one slice without a lock (objectapplier.go:302).

*Container deployer*

- **Edit while a pod runs.**  The new generation is recorded as observed, no pod is
  started for it (the phase is not `Init` any more when the pod ends), and the
  item becomes `Succeeded` with the old configuration.
- **Two pods.**  Both controllers may find the phase `Init` and start a pod.
  `shouldRunNewPod` means to compare the generation of the pod, but reads it
  from an annotation (container_reconcile.go:225) and it is written as a label
  (pod.go:312).
- **Deletion does not wait.**  `Delete` returns without an error while the pod of the
  deletion runs, and the library removes the finalizer of the item at once
  (lib/controller.go:372); the clean-up of RBAC and of the state is not reached.
  When the pod ends before a refused removal is repeated, nothing removes the
  item.
- **After a timeout** the pod reconciler sets the item back to `Progressing` or
  `Succeeded`, and it clears the last error.
- **Older pod.**  With two pods the outcome of the older one may be stored last.
- **Delayed patch.**  `PatchStatus` checks no version; delayed by a whole life of the
  pod it leaves the item `Progressing` for good.  `NoStartUnderWay` excludes it.
- **Stuck pod.**  A pod whose image cannot be pulled and that has lost its finalizer
  but could not be deleted is never collected; the collector returns "not
  found" as an error (garbage_collector.go:148).

## 5. Proofs

The theorems hold for every set of templates, every acyclic `DependsOn`, every
bound and, where no hypothesis is named, every set of events, lagging caches
included.  They rest on `OrderAssumption` and `DependsOnAssumption` (what
`ValidateDeployItemTemplateList` accepts) and `BoundsAssumption` (the constants
have their types).  A theorem may have a hypothesis on the events, the caches or the dependencies
(`ASSUME ... PROVE`).  Without it the theorem is false, and the observations of
section 4 are the counterexamples TLC finds, with one exception: `FreshExecution`,
under which `RecordedIsApplied` and `SuccessIsComplete` are proved, is what their
proofs need and not known to be necessary.  TLC finds no counterexample without it.  The runs that check
the property are within the hypothesis.

- **`TypeCorrect`** (`ExecutionTypes`).  `TypeOK` is inductive once it is known
  that `loc.at` points into the list at "apply" and "record"
  (`TypeInv == TypeOK /\ InLoop`).  One lemma per action.
- **`CreationIsOrdered`** (`ExecutionOrder`).  `OrderedCreation` says nothing
  about the copies the controller decides on.  `OrderInv` adds what they are
  evidence for: a live item has a name already given out, and the cached item of
  that name is of the same template (`Identities`); an item that shows
  `Succeeded`, in the server, in the cache or in the list of the running loop, is
  of a template in `done` (`Evidence`, `LoopEvidence`); at "apply" all
  dependencies are in `done` (`ApplyEvidence`).  Stale evidence stays valid
  because `done` only grows and a name is never given to another template; the
  lemma `Evolution` states this for all steps of the other actors.
- **`OneItem`** (`ExecutionOrder`), when the cache of the deploy items does not lag
  (`FreshItems`).  `ListComplete`: a running loop knows every item of the templates
  it has still to come to.  The controller alone creates items, one for the
  template the loop is at and only without an item in its list, so what the list
  does not show of later templates does not exist.  The cache of the execution
  may lag: the references in it play no part in who owns an item.
- **`DeletionIsOrdered`** (`ExecutionOrder`), with `FreshItems` and when templates
  are not removed from the spec (`NothingRemoved`; the orphans of removed ones
  are not in the list of `Delete`).  `DeletionListed`: the list of a deletion has
  every live item, under its own template.  As nothing is created during the
  deletion, and an item is reached only past the check of its dependents in that
  list, none of these is left.
- **`FinalizerProtects`** (`ExecutionOrder`), in addition when nobody deletes items
  behind the controller's back (`ItemsLeftAlone`; observation *Item gone early*).
  `DeletionCounts`: an item the pass has not reached and that was not marked when
  it was listed is alive and not marked, and one it has passed has cleared
  `allDeleted`; so `allDeleted` at the end means that the list was empty.
  `Guarded`: items, and steps that may create one, exist only with the finalizer
  in place, and a run on a copy from before the deletion is over before the
  finalizer goes.
- **`BookkeepingIsSound`** (`ExecutionBookkeeping`).  `BookInv` adds to `OrderInv`
  that generations and references are sound in the stored, the cached and the
  running copy, that none of them is newer than the stored one, and that a
  reference about to be recorded is sound.
- **`RecordedIsApplied`** (`ExecutionBookkeeping`), when the execution is read as it
  is (`FreshExecution`) and all templates but the first of the order have
  dependencies (`RootFirst`; observation *Edit during apply*).  `AppliedInv` adds
  to `BookInv` what a recorded generation means in the stored status and in the
  copy of the run (`Applied`), that both agree until the run ends (`Agreed`), and
  that one generation has one content (`OneContent`).  The delicate part is
  `LoopContent`: the templates a loop applies are those of the copy, or an edit
  has come in with the answer to a patch, and then no template is recorded at
  new generation, so a template with dependencies is not applied before the
  next run reads the spec again.  The copy is never outdated at the start of a
  run, which is where the proof uses `FreshExecution`.
- **`SuccessIsComplete`** (`ExecutionBookkeeping`), with `FreshExecution`,
  and with `RootFirst` and `FreshItems` (observations *Edit during apply*, *Stale
  list*): `SucceededIsComplete`.  An execution becomes `Succeeded` at the end
  of a loop that has seen every item finished, and many runs after its spec was
  read.  `ContentInv`: when the generation is recorded, or the run has come with
  its loop to the end, every template has an item with the present content.
  `Passed`: behind the loop each template is followed, or was not runnable;
  the first template of the order that is not followed would have been runnable
  (a minimal rank, `WFMin`), so a loop that met no reason to wait has followed all.
  What is finished stays so in the copy a run writes later (`FinishReady`), also
  through the export (`ExportReady`) and the recheck of a completed phase
  (`AgainReady`).
- **`ItemTypeCorrect`, `SuccessIsDeployed`, `ResourcesGoFirst`,
  `FinalStaysFinal`** (`DeployItemProofs`).  `IInv` relates the run of the deployer
  to the item: a copy with the current resource version has the current spec
  (`CopyInv`); from the end of `Apply` to the write of the phase the cluster
  holds the version of the copy (`WorkInv`, `AppliedInv`); resources are only
  deleted for an item that is marked (`DeletionInv`); at "release" the listed
  resources are gone (`ReleaseInv`); at "prepare" there is a request
  (`PrepareInv`).  The two action properties follow from it.
- **`LoopIsCorrect`, `AccumulationIsCorrect`** (`PhaseLoopProofs`), for lists of
  phases of any length and order.
- **`ContractImplemented`** (`DeployItemProofs`):
  `SafetySpec => ImplementsContract`, the refinement, for all bounds, events and
  faults.  The invariant is `IInv` with `PhaseInv`: nothing is announced or in work
  for an item that is gone (`ExistsInv`); a run past its start has a working
  copy, and the item is in a working phase unless a timeout has intervened
  (`InWorkInv`); the outcome a run carries to the error handler is one it may
  report (`ReportInv`); annotations in the copy are those the run has seen
  (`AnnotationsInv`); a timeout that has decided still finds its reason
  (`TimeoutInv`).  One lemma per action shows that its image under the mapping is
  a step of the contract or a stutter.
- **`ContainerTypeCorrect`, `OutcomeIsRecorded`, `SuccessIsOfAPod`**
  (`ContainerProofs`), for any number of pods, generations and events.  `PodInv`
  follows the finalizers: what carries one, or has its outcome stored, is a pod
  that was started, and a worker that stores an outcome or releases a pod holds
  such a pod; the youngest one (`LatestIsYoungest`, by well-foundedness of the
  order of the numbers) is released only once it is stored, unless a younger one
  appeared.  `SuccessInv` says the same of `Succeeded` in the item and in the two
  working copies, because either controller may write what it read long ago.

- **`FinalizerProtects`** (`InstallationProofs`), for every forest and any number
  of workers.  The parent goes when the combined phase of what is below it is
  empty, so the proof is about what a phase is evidence for.  `ObjectInv`: what is
  live has a generation, and a phase once that was observed (`Handled`); a
  subinstallation that is not leaving and has an observed generation has created
  all of its own (`Ensured`), and one with a completed phase has seen them start
  (`Started`).  So its phase cannot become empty again.  `RunInv` says the same
  of the copy a run holds (`CopyInv`) and what it knows at its next call
  (`StageInv`): at "removeFinalizer" nothing is left, and as the parent is marked
  by then nobody but its own run could create anything.  `OtherKeeps` shows
  that what happens to one installation disturbs neither its parent nor its
  children, `OwnStep` and `FamilyStep` lift that to a step.  Hypothesis
  `NothingLasts`: there are no subinstallations, or no error lasts five minutes;
  without it the theorem is false (observation *Empty phase*).  Both runs that
  check `GoneIsClean` are within it.
- **`TemplatesAreApplied`** (`InstallationProofs`), for every forest, any number of
  workers and all events, lasting errors included: `RecordedIsEnsured`.
  `RecordInv` says what the run of an installation knows on its way from "subs" to
  the end of `Update` (`HandsDown`): the children it has passed exist, are not
  being deleted and have the version of its copy - provided that the copy is still
  of the present generation.  `Follows` ties the copy to the stored object: it has
  no newer generation, the same spec at the same generation, and when the stored
  generation is recorded the copy is of that generation, so a run with an outdated
  copy cannot spoil what is recorded.  A status is written with the current
  version only, and what others do to an installation either leaves these fields,
  bumps its generation beyond what is recorded, or makes it a new one
  (`Elsewhere`).  A child leaves this state only by an `Update` of its parent or
  after the parent is marked (`StaysHanded`).
- **`SourcesAreFinished`** (`InstallationProofs`), for every forest and all events,
  with one worker (`Workers = 1`, the default): `SourcesFinishFirst`.  What the
  checks have seen must still hold several calls later, when the execution is
  written.  `SourceInv`: a single `Reconcile` runs; past the checks
  (`Pipeline`) all upstream installations exist and are completed.  Nobody but
  their own runs writes their phases, and `UpstreamSiblings` shows that they are
  siblings of the installation and not the installation itself: `Upstream` is the
  smallest closed set, and the siblings of a lower rank in the data flow are a
  closed set.
- **`ImportsAreKept`** (`InstallationProofs`), for every forest and any number of
  workers: `ImportedIsKept`.  `handleDelete` looks for importers once, and the
  finalizer goes many calls later, while other workers roll importers out.
  `KeepInv` explains why this is safe: a run that was `Granted` the deletion has no
  live user left, and whatever may disappear (`Loose`: without its finalizer, or a
  subinstallation that does not exist) has no deployed user and none on its way to
  be deployed (`Unused`), because an importer needs its sources live, and a
  source that is to be deleted keeps its finalizer until its run is granted.
  Hypotheses `NothingLasts`, as above, and `ForceIsFinal`: only roots are removed by
  force (observation *Re-created child*).  `two_workers` is within both.
- **`InstallationTypeCorrect`** (`InstallationProofs`), without a hypothesis.  Three
  parts of `TypeOK` are more than types.  No generation is observed before it
  exists, although statuses are written from copies that may be outdated: by
  `Follows` no copy is ahead of its object.  The imports are recorded all or not
  at all: `LegalInv` follows what a run has imported from the construction of the
  values to the status it writes.  No more runs are under way than there are
  workers: `ScheduleInv` counts them.

- **`DeployedIsCurrent`** (`InstallationCurrent`), for any number of installations:
  `CurrentIsDeployed`.  The controller compares config generations, not values; the
  proof shows when that is enough.  A value carries the versions it was computed
  from, and so does a config generation; both only grow.  `CurrentInv` orders them
  along the data flow (`Older`): the imports a status records are not newer than
  those its execution was rolled out from (`Reports`), and these are not newer than
  what the sources publish (`Rolled`, `Fits`).  A settled installation that is not
  outdated has recorded what is published, so what lies between is the same
  (`Ordered`).  `Knows` carries the order through the calls of a run: values read
  from sources found ready are those of their config generations, and what is
  published is what the execution has exported (`Exporting`).  Others disturb none of
  this, because what they publish is newer (`Grows`, `CurrentStays`).  It rests on
  `SourceInv` and `RecordInv`.  Hypotheses: one worker, `SideBySide` (no
  subinstallations; what a deploying installation imports comes from users or from
  one that deploys what it renders from users' data), no lasting error, no abort; the
  theorem is false without any of them (`stale_export`, observation *Old value, new
  generation*).  `converging` is within them.

`SourcesAreFinished`, `ImportsAreKept` and `DeployedIsCurrent` rest on one description of what a step
of a run may do to the objects (`Effects`, with one lemma per action of
`Reconcile`) and of what the environment may do (`OutsideChange`), and on what
the objects are evidence for (`ShownInv`).

Only model-checked: everything with fairness (`Settles`, `DeletionCompletes`,
`WorkEnds`, `RequestServed`, `DeletionEnds`, `Converges`, `RunEnds`, `PodsEnd`), which
is beyond the prover; and `FewPods` of `ContainerDeployer`, an argument about all
rounds of conflicts that an event can cause, on top of `NoStartUnderWay`.

## 6. Not modelled

- Manifest applier below `Apply` (policies, execution groups, clean-up of single
  resources), exporter, readiness checks, target selectors: outcomes of calls to
  a target cluster, which `DeployItem` leaves open.
- Helm deployer: the same steps on the deploy item as the manifest deployer after
  rendering a chart.  Mock deployer: for tests.
- Extension hooks other than continuous reconciliation, of which the shipped
  deployers have none; the depth-first search of the template validation:
  sequential code with unit tests.
- Of the installations: target lists, component descriptors, conditional imports,
  references to secrets and config maps, schemas and templates; conditions and
  events; grandchildren are possible in `Installation` but no run has them.
- Of the container deployer: secrets, RBAC, the backup of the state, image pull
  credentials, the force clean-up annotation, the program in the init and wait
  containers.
- Deployer management and agent, which create installations and mostly set up
  clients; context and component overwrite controllers; blueprints, registries,
  JSON schemas, templating, commands, webhooks, CRD manager: data transformation
  and I/O.  Most lines of the repository are of this kind, or generated.

`PROJECT.json` gives the reason for each.

## 7. Plan

Done: `Phases`, `PhaseLoop`, `Execution`, `DeployItem`, `DeployerContract`,
`ContainerDeployer`, `Installation`, their runs and theorems.  Next, in this order:

1. `Execution` on top of `DeployerContract` in place of its own picture of a
   deployer, and `Installation` on top of an abstract execution.
2. That `ContainerDeployer` implements the contract, as far as it does: the
   observations say where it does not.
3. Deployer management: the installations it creates per environment and
   registration, and their removal.
4. A theorem for `FewPods`.

## 8. Running

    tlc -workers 2 -config rollout.cfg MCExecution
    tlc -workers 2 -config item_chaos.cfg DeployItem
    tlc -workers 2 -config converging.cfg MCInstallation
    tlapm ExecutionOrder.tla
