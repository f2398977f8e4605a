---------------------------- MODULE Installation ----------------------------
(***************************************************************************)
(* The installation controller of the landscaper: it waits until the       *)
(* imports of an installation are satisfied, hands them to its             *)
(* subinstallations and its execution, publishes the exports when these    *)
(* have succeeded, triggers the siblings that import them, and deletes     *)
(* everything in the opposite direction.                                   *)
(*                                                                         *)
(* The installations form a forest.  Data flows between the installations  *)
(* of one context (the subinstallations of one parent, or the roots) and   *)
(* from a parent into its context.  Each installation is reconciled by at  *)
(* most one worker at a time; different ones are reconciled concurrently,  *)
(* so a Reconcile is split into one step per write and one per group of    *)
(* reads whose results are used after others may have written.  The        *)
(* execution is represented by what the controller sees of it.             *)
(*                                                                         *)
(* Translated from pkg/landscaper/controllers/installations/*.go and       *)
(* pkg/landscaper/installations/{context,helper,operation,generation}.go   *)
(* with the packages imports, exports, subinstallations and executions.    *)
(***************************************************************************)
EXTENDS Naturals, FiniteSets, Phases

CONSTANTS
    Insts,      \* installations, whether they exist or not
    Root,       \* the context of the root installations; not an installation
    Parent,     \* Parent[i]: the installation whose blueprint has i, or Root
    Rank,       \* the order of the templates in the blueprints
    Keys,       \* keys of data objects and targets
    Targets,    \* the keys that name targets and not data objects
    Imports,    \* Imports[i]: the keys i imports from its context
    Exports,    \* Exports[i]: the keys i exports into its context
    Deploys,    \* the installations whose blueprint has deploy items
    Workers,    \* the number of concurrent Reconciles
    MaxVersion, \* bound: versions of the specs and of the users' data
    MaxEvents,  \* bound: how many events of the environment may happen
    Events      \* which events those are

EventKinds == {"alter", "drop", "data", "delete", "reconcile", "force",
               "abort", "drift", "fail", "lasting", "apiError", "crash"}

Children(i) == {j \in Insts : Parent[j] = i}
Siblings(i) == {j \in Insts \ {i} : Parent[j] = Parent[i]}
Roots == {i \in Insts : Parent[i] = Root}

ASSUME ForestAssumption ==
    /\ IsFiniteSet(Insts) /\ Root \notin Insts
    /\ Parent \in [Insts -> Insts \cup {Root}] /\ Rank \in [Insts -> Nat]
    /\ \E depth \in [Insts -> 1..Cardinality(Insts)] :
          \A i \in Insts \ Roots : depth[Parent[i]] < depth[i]

\* A key has one producer in a context, and the imports have no cycle.
ASSUME DataFlowAssumption ==
    /\ Targets \subseteq Keys /\ Deploys \subseteq Insts
    /\ Imports \in [Insts -> SUBSET Keys] /\ Exports \in [Insts -> SUBSET Keys]
    /\ \A i \in Insts : \A j \in Siblings(i) : Exports[i] \cap Exports[j] = {}
    /\ \A i \in Insts \ Roots : Exports[i] \cap Imports[Parent[i]] = {}
    /\ \E rank \in [Insts -> 1..Cardinality(Insts)] :
          \A i \in Insts : \A j \in Siblings(i) \cup {i} :
              Exports[i] \cap Imports[j] # {} => rank[i] < rank[j]

ASSUME BoundsAssumption ==
    /\ Workers \in Nat \ {0} /\ MaxVersion \in Nat \ {0} /\ MaxEvents \in Nat
    /\ Events \subseteq EventKinds

VARIABLES
    inst,    \* the Installations in the API server
    exec,    \* the Executions, one per installation that deploys
    data,    \* data[c][k]: the data object or target of key k in context c
    queued,  \* the installations in the work queue
    run,     \* the local variables of the Reconcile of each installation
    fresh,   \* fresh[i]: of which objects it holds the current version
    budget   \* how many events of the environment are left

vars == <<inst, exec, data, queued, run, fresh, budget>>

-----------------------------------------------------------------------------
(* Data.  What a user wrote is known by its version.  What an installation *)
(* computes depends on the version of its spec and on what it imported.    *)

None == <<>>
Computed(version, imports) == [version |-> version, imports |-> imports]
NoValue == Computed(0, None)

\* The installation that owns the data object of key k in context c: the
\* installation of the context imported it, or a member exports it; Root
\* stands for an owner that is not an installation.
Owner(c, k) ==
    IF c # Root /\ k \in Imports[c] THEN c
    ELSE IF \E j \in Children(c) : k \in Exports[j]
    THEN CHOOSE j \in Children(c) : k \in Exports[j]
    ELSE Root

Source(i, k) == Owner(Parent[i], k)
SiblingSources(i) == {Source(i, k) : k \in Imports[i]} \cap Siblings(i)
FromParent(i) == {k \in Imports[i] : Parent[i] # Root /\ Source(i, k) = Parent[i]}

\* What is reached from each installation in one or more steps of next.
Closed(next, i) ==
    {S \in SUBSET Insts : next[i] \subseteq S /\ \A x \in S : next[x] \subseteq S}
Reached(next) == [i \in Insts |-> {j \in Insts : \A S \in Closed(next, i) : j \in S}]

\* The siblings that i imports from, directly or through other siblings, and
\* the installations i is encompassed by.
Sources == Reached([i \in Insts |-> SiblingSources(i)])
Upstream(i) == Sources[i]

Parents == Reached([i \in Insts |-> {Parent[i]} \ {Root}])
Ancestors(i) == Parents[i]

-----------------------------------------------------------------------------
(* The objects.                                                            *)

Ops == {"none", "reconcile", "force", "abort"}

\* spec.version is the version of the blueprint, which has the content of the
\* subinstallation templates; spec.subs are the templates.  imports is
\* status.imports: the config generation recorded for each import.
NewInstallation(i, version) ==
    [live |-> TRUE, gen |-> 1, del |-> FALSE, fin |-> FALSE, op |-> "none",
     spec |-> [version |-> version, subs |-> Children(i)],
     obs |-> 0, phase |-> NoPhase, err |-> "none", imports |-> None,
     conf |-> NoValue, eref |-> FALSE]

NoInstallation ==
    [live |-> FALSE, gen |-> 0, del |-> FALSE, fin |-> FALSE, op |-> "none",
     spec |-> [version |-> 0, subs |-> {}],
     obs |-> 0, phase |-> NoPhase, err |-> "none", imports |-> None,
     conf |-> NoValue, eref |-> FALSE]

Status(o) == [obs |-> o.obs, phase |-> o.phase, err |-> o.err,
              imports |-> o.imports, conf |-> o.conf, eref |-> o.eref]

WithStatus(stored, o) ==
    [stored EXCEPT !.obs = o.obs, !.phase = o.phase, !.err = o.err,
                   !.imports = o.imports, !.conf = o.conf, !.eref = o.eref]

\* in is what the deploy item templates were rendered from, out what the
\* deploy items export.
NoExecution ==
    [live |-> FALSE, gen |-> 0, obs |-> 0, phase |-> NoPhase, op |-> "none",
     del |-> FALSE, in |-> NoValue, out |-> NoValue]

\* Deleting an installation with a finalizer marks it and bumps its generation.
Deleted(o) ==
    IF ~o.live \/ ~o.fin THEN NoInstallation
    ELSE IF o.del THEN o
    ELSE [o EXCEPT !.del = TRUE, !.gen = @ + 1]

LiveSubs(i) == {j \in Children(i) : inst[j].live}

PCs == {"idle", "finalizer", "dropOp", "check", "context", "eligible", "values",
        "confs", "ensure", "subs", "trigger", "exec", "dropForce", "exports",
        "publish", "rephase", "dependants", "recheck", "delete", "deleteAll",
        "removeFinalizer", "finish"}

\* mode: what the run is in the middle of.  ready: the parent and the siblings
\* in the context that was read were in a phase that allows to import.
Idle ==
    [pc |-> "idle", l |-> NoInstallation, mode |-> "none", ready |-> FALSE,
     vals |-> None, confs |-> None, refs |-> {}, todo |-> {}, err |-> "none"]

Running == {i \in Insts : run[i].pc # "idle"}

-----------------------------------------------------------------------------
(* The API server, the informers and the work queue.                       *)

\* Every change of an installation wakes it and its parent, every change of an
\* execution its installation (For, Owns); an error returned by Reconcile puts
\* the installation back.
Wake(retry) ==
    LET changed == {i \in Insts : inst'[i] # inst[i]}
        affected == changed \cup ({Parent[i] : i \in changed} \ {Root})
                    \cup {i \in Insts : exec'[i] # exec[i]}
    IN  queued' = queued \cup affected \cup retry

\* A held version of an object is outdated when another one has written it.
Outdate(i) ==
    fresh' = [r \in Insts |->
                {j \in fresh[r] : inst'[j] = inst[j] \/ (r = i /\ j = i)}]

\* The run of i goes on with the local variables r.
Continue(i, r) == run' = [run EXCEPT ![i] = r] /\ Outdate(i) /\ Wake({})

Return(i, failed) ==
    /\ run' = [run EXCEPT ![i] = Idle]
    /\ fresh' = [r \in Insts |-> IF r = i THEN {}
                                 ELSE {j \in fresh[r] : inst'[j] = inst[j]}]
    /\ Wake(IF failed THEN {i} ELSE {})

\* The context was read: the versions of the siblings are current now.
ReadContext(i, r) ==
    /\ run' = [run EXCEPT ![i] = r]
    /\ fresh' = [fresh EXCEPT ![i] = (@ \cap {i}) \cup Siblings(i)]
    /\ Wake({})

Spend(kind) == kind \in Events /\ budget > 0 /\ budget' = budget - 1

\* An optimistic write of i's own installation is refused when its version is
\* outdated; any call may also fail for a reason of its own.
Refused(i) ==
    \/ i \notin fresh[i] /\ UNCHANGED budget
    \/ i \in fresh[i] /\ Spend("apiError")

\* An error that carries its operation and reason, and one that does not.
Fails(r) == [r EXCEPT !.pc = "finish", !.err = "error"]
FailsPlain(r) == [r EXCEPT !.pc = "finish", !.err = "plain"]

At(i, p) == run[i].pc = p

-----------------------------------------------------------------------------
(* Reconcile, and HandleErrorFunc around the business logic.               *)

Get(i) ==
    /\ At(i, "idle") /\ i \in queued
    /\ Cardinality(Running) < Workers
    /\ LET o == inst[i]
           p == IF ~o.del /\ ~o.fin THEN "finalizer"
                ELSE IF o.del THEN "delete"
                ELSE IF o.op = "reconcile" THEN "dropOp"
                ELSE IF o.op = "force" THEN "context"
                ELSE IF IsCompleted(o.phase) /\ o.obs = o.gen THEN "recheck"
                ELSE "check"
       IN  IF o.live
           THEN /\ run' = [run EXCEPT ![i] = [Idle EXCEPT !.pc = p, !.l = o]]
                /\ fresh' = [fresh EXCEPT ![i] = {i}]
           ELSE UNCHANGED <<run, fresh>>
    /\ queued' = queued \ {i}
    /\ UNCHANGED <<inst, exec, data, budget>>

AddFinalizer(i) ==
    /\ At(i, "finalizer")
    /\ \/ /\ i \in fresh[i] /\ UNCHANGED budget
          /\ inst' = [inst EXCEPT ![i].fin = TRUE]
          /\ UNCHANGED <<exec, data>>
          /\ Return(i, FALSE)
       \/ /\ Refused(i) /\ UNCHANGED <<inst, exec, data>>
          /\ Return(i, TRUE)

\* The reconcile annotation is removed before the work is done.
DropReconcile(i) ==
    /\ At(i, "dropOp")
    /\ \/ /\ i \in fresh[i] /\ UNCHANGED budget
          /\ inst' = [inst EXCEPT ![i].op = "none"]
          /\ UNCHANGED <<exec, data>>
          /\ Continue(i, [run[i] EXCEPT !.pc = "check", !.l.op = "none"])
       \/ /\ Refused(i) /\ UNCHANGED <<inst, exec, data>>
          /\ Return(i, TRUE)

\* HandleErrorFunc.  An error that stays for five minutes fails the
\* installation; a status update that is refused after a run without error is
\* forgotten, but for the one that reconcile makes itself after an abort.
Finish(i) ==
    /\ At(i, "finish")
    /\ UNCHANGED <<exec, data>>
    /\ LET r == run[i]
           settle(e) == LET o == [r.l EXCEPT !.err = e,
                                    !.phase = PhaseForLastError(@, e)]
                        IN  /\ inst' = [inst EXCEPT ![i] = WithStatus(@, o)]
                            /\ Return(i, r.err # "none")
           aborted == r.l.op = "abort" /\ r.l.phase = "Aborted"
       IN  \/ /\ i \in fresh[i] /\ UNCHANGED budget
              /\ settle(IF r.err = "error" THEN "recent" ELSE "none")
           \/ /\ i \in fresh[i] /\ r.err = "error" /\ r.l.err # "none"
              /\ Spend("lasting")
              /\ settle("lasting")
           \/ /\ Refused(i) /\ UNCHANGED inst
              /\ Return(i, r.err # "none" \/ aborted)

-----------------------------------------------------------------------------
(* When an installation may import, and when it has to.                    *)

\* Mutants: what is being deleted counts as gone.
MutantExecPhase(i) ==
    IF ~exec[i].live \/ exec[i].del THEN NoPhase
    ELSE IF exec[i].gen # exec[i].obs THEN "Progressing" ELSE exec[i].phase
MutantSubPhase(i) ==
    CombinedPhase({IF inst[j].gen # inst[j].obs THEN "Progressing"
                   ELSE inst[j].phase : j \in {x \in LiveSubs(i) : ~inst[x].del}})

\* executions.CombinedPhase and subinstallations.CombinedPhase
ExecPhase(i) ==
    IF ~exec[i].live THEN NoPhase
    ELSE IF exec[i].gen # exec[i].obs THEN "Progressing" ELSE exec[i].phase
SubPhase(i) ==
    CombinedPhase({IF inst[j].gen # inst[j].obs THEN "Progressing"
                   ELSE inst[j].phase : j \in LiveSubs(i)})
ChildPhase(i) == CombinedPhase({ExecPhase(i), SubPhase(i)})

ParentExists(i) == Parent[i] # Root => inst[Parent[i]].live

\* GetDataImport of every import, and the Get of the owning installation.
Present(i) ==
    \A k \in Imports[i] :
        /\ data[Parent[i]][k] # NoValue
        /\ Source(i, k) # Root => inst[Source(i, k)].live

\* The config generation of an import: that of the installation it comes from,
\* or the hash of the data.
ConfOf(i, k) ==
    IF Source(i, k) = Root THEN data[Parent[i]][k] ELSE inst[Source(i, k)].conf

OutdatedImports(i, o) ==
    \E k \in Imports[i] : k \in DOMAIN o.imports => o.imports[k] # ConfOf(i, k)

\* CheckCompletedSiblingDependents
SourcesCompleted(i) ==
    \A j \in Upstream(i) :
        inst[j].live /\ IsCompleted(inst[j].phase) /\ inst[j].gen = inst[j].obs

\* CheckDependentInstallations: of a subinstallation only the dependencies of
\* its parents are looked at.
DependenciesCompleted(i) ==
    IF Parent[i] = Root THEN SourcesCompleted(i)
    ELSE \A a \in Ancestors(i) : SourcesCompleted(a)

EligibleToUpdate(i, o) ==
    o.gen # o.obs \/ (OutdatedImports(i, o) /\ DependenciesCompleted(i))

\* Mutant: the direction is confused.
MutantImporters(i) ==
    {j \in Siblings(i) : inst[j].live /\ Exports[j] \cap Imports[i] # {}}

\* The siblings of which importsAnyExport holds.
Importers(i) ==
    {j \in Siblings(i) : inst[j].live /\ Exports[i] \cap Imports[j] # {}}

\* Mutant: the phase of the siblings is not looked at.
MutantContextReady(i) ==
    /\ FromParent(i) # {} => inst[Parent[i]].phase \in RunningPhases
    /\ \A j \in SiblingSources(i) : inst[j].live

\* What ImportsSatisfied asks of the parent and of the siblings, answered by
\* the copies in the context.
ContextReady(i) ==
    /\ FromParent(i) # {} => inst[Parent[i]].phase \in RunningPhases
    /\ \A j \in SiblingSources(i) : inst[j].live /\ inst[j].phase = "Succeeded"

\* reconcile: the phases of the execution and of the subinstallations, combined.
CheckChildren(i) ==
    /\ At(i, "check")
    /\ UNCHANGED <<inst, exec, data, budget>>
    /\ LET r == run[i]
           p == IF ChildPhase(i) = NoPhase THEN "Succeeded" ELSE ChildPhase(i)
       IN  \/ /\ ~IsCompleted(p)
              /\ Continue(i, [r EXCEPT !.pc = "finish", !.l.phase = "Progressing"])
           \/ /\ IsCompleted(p) /\ r.l.op = "abort"
              /\ Continue(i, [r EXCEPT !.pc = "finish", !.l.phase = "Aborted"])
           \/ /\ IsCompleted(p) /\ r.l.op # "abort"
              /\ Continue(i, [r EXCEPT !.pc = "context", !.mode = p])

\* initPrerequisites: the parent and the siblings, as they are now.  A forced
\* run begins here and updates in any case.
InitPrerequisites(i) ==
    /\ At(i, "context")
    /\ UNCHANGED <<inst, exec, data, budget>>
    /\ LET r == [run[i] EXCEPT !.ready = ContextReady(i)]
       IN  \/ ~ParentExists(i) /\ Continue(i, Fails(run[i]))
           \/ /\ ParentExists(i) /\ r.l.op = "force"
              /\ ReadContext(i, [r EXCEPT !.pc = "values", !.mode = "force",
                                          !.l.phase = "Pending"])
           \/ /\ ParentExists(i) /\ r.l.op # "force"
              /\ ReadContext(i, [r EXCEPT !.pc = "eligible", !.refs = Importers(i)])

\* eligibleToUpdate, and which way the run goes on.
CheckEligible(i) ==
    /\ At(i, "eligible")
    /\ UNCHANGED <<inst, exec, data, budget>>
    /\ LET r == run[i]
           eligible == EligibleToUpdate(i, r.l)
       IN  \/ r.l.gen = r.l.obs /\ ~Present(i) /\ Continue(i, Fails(r))
           \/ /\ r.l.gen = r.l.obs => Present(i)
              /\ \/ /\ eligible
                    /\ Continue(i, [r EXCEPT !.pc = "values", !.mode = "update",
                                             !.l.phase = "Pending"])
                 \/ /\ ~eligible /\ r.mode # "Succeeded"
                    /\ Continue(i, [r EXCEPT !.pc = "finish", !.l.phase = r.mode])
                 \/ /\ ~eligible /\ r.mode = "Succeeded"
                    /\ Continue(i, [r EXCEPT !.pc = "values", !.mode = "complete"])

-----------------------------------------------------------------------------
(* ConstructImports.  The values and the config generations are read one   *)
(* after the other; the imports are copied into the installation's own     *)
(* context.                                                                *)

\* ImportsSatisfied, and the first half of GetImportedDataObjects
ReadValues(i) ==
    /\ At(i, "values")
    /\ UNCHANGED <<inst, exec, data, budget>>
    /\ LET r == run[i]
           satisfied == /\ r.ready /\ Present(i)
                        /\ \A j \in SiblingSources(i) : SourcesCompleted(j)
       IN  Continue(i, IF satisfied
                       THEN [r EXCEPT !.pc = "confs", !.vals =
                               [k \in Imports[i] |-> data[Parent[i]][k]]]
                       ELSE Fails(r))

\* The second half, and CreateOrUpdateImports.
WriteImports(i) ==
    /\ At(i, "confs")
    /\ UNCHANGED <<inst, exec>>
    /\ LET r == run[i]
           confs == [k \in Imports[i] |->
                       IF Source(i, k) = Root THEN r.vals[k] ELSE ConfOf(i, k)]
           update == [r EXCEPT !.pc = "ensure", !.confs = confs,
                               !.l.phase = "Progressing"]
       IN  \/ /\ \A k \in Imports[i] : Source(i, k) # Root => inst[Source(i, k)].live
              /\ data' = [data EXCEPT ![i] = [k \in Keys |->
                            IF k \in Imports[i] THEN r.vals[k] ELSE @[k]]]
              /\ UNCHANGED budget
              /\ Continue(i, IF r.mode = "complete"
                             THEN [r EXCEPT !.pc = "exports"] ELSE update)
           \/ /\ \/ UNCHANGED budget /\ \E k \in Imports[i] :
                       Source(i, k) # Root /\ ~inst[Source(i, k)].live
                 \/ Spend("apiError")
              /\ UNCHANGED data
              /\ Continue(i, Fails(r))

-----------------------------------------------------------------------------
(* Update: subinstallations.Ensure, TriggerSubInstallations and            *)
(* executions.Ensure.                                                      *)

\* ValidateSatisfiedImports: what a template imports is exported by a template
\* or imported by the installation.
ValidTemplates(i, subs) ==
    \A j \in subs : \A k \in Imports[j] :
        k \in Imports[i] \/ \E x \in subs : k \in Exports[x]

\* Ensure up to cleanupOrphanedSubInstallations.  When an orphan was deleted
\* the templates are not applied.
EnsureSubs(i) ==
    /\ At(i, "ensure")
    /\ UNCHANGED <<exec, data, budget>>
    /\ LET r == run[i]
           refused == \/ \E j \in LiveSubs(i) :
                            inst[j].del \/ inst[j].phase = "Progressing"
                      \/ ~ValidTemplates(i, r.l.spec.subs)
           orphans == LiveSubs(i) \ r.l.spec.subs
       IN  \/ /\ refused /\ UNCHANGED inst
              /\ Continue(i, Fails(r))
           \/ /\ ~refused
              /\ inst' = [j \in Insts |-> IF j \in orphans THEN Deleted(inst[j])
                                          ELSE inst[j]]
              /\ Continue(i, [r EXCEPT !.refs = LiveSubs(i),
                                !.pc = IF orphans = {} THEN "subs" ELSE "trigger",
                                !.todo = IF orphans = {} THEN r.l.spec.subs ELSE {}])

\* Mutant: the spec of an existing subinstallation is not updated.
MutantTemplated(j, version) ==
    IF inst[j].live THEN [inst[j] EXCEPT !.op = "none"]
    ELSE NewInstallation(j, version)

\* createOrUpdateNewInstallation: the annotations are replaced, the spec is
\* taken from the template.
Templated(j, version) ==
    LET o == inst[j] IN
    IF ~o.live THEN NewInstallation(j, version)
    ELSE IF o.spec.version = version THEN [o EXCEPT !.op = "none"]
    ELSE [o EXCEPT !.op = "none", !.spec.version = version, !.gen = @ + 1]

\* One subinstallation, and the status of the installation after it; at the
\* end UpdateInstallationStatus.
CreateSub(i) ==
    /\ At(i, "subs")
    /\ UNCHANGED <<exec, data>>
    /\ LET r == run[i]
           stored(I, goOn, failed) ==
               \/ /\ i \in fresh[i] /\ UNCHANGED budget
                  /\ inst' = [I EXCEPT ![i] = WithStatus(@, r.l)]
                  /\ Continue(i, goOn)
               \/ /\ Refused(i)
                  /\ inst' = I
                  /\ Continue(i, failed)
       IN  \/ /\ r.todo = {}
              /\ stored(inst, [r EXCEPT !.pc = "trigger"], FailsPlain(r))
           \/ \E j \in r.todo : (\A x \in r.todo : Rank[j] <= Rank[x]) /\
                 stored([inst EXCEPT ![j] = Templated(j, r.l.spec.version)],
                        [r EXCEPT !.todo = @ \ {j}, !.refs = @ \cup {j}],
                        Fails(r))
           \/ /\ r.todo # {} /\ Spend("apiError")
              /\ UNCHANGED inst
              /\ Continue(i, Fails(r))

\* Every referenced subinstallation gets the reconcile annotation, until one
\* of them turns out to be gone.
TriggerSubs(i) ==
    /\ At(i, "trigger")
    /\ UNCHANGED <<exec, data>>
    /\ LET r == run[i]
           gone == {j \in r.refs : ~inst[j].live}
           mark(js) == inst' = [j \in Insts |-> IF j \in js
                           THEN [inst[j] EXCEPT !.op = "reconcile"] ELSE inst[j]]
       IN  \/ /\ gone = {} /\ UNCHANGED budget
              /\ mark(r.refs)
              /\ Continue(i, [r EXCEPT !.pc = "exec"])
           \/ /\ r.refs # {}
              /\ (gone # {} /\ UNCHANGED budget) \/ Spend("apiError")
              /\ \E js \in SUBSET (r.refs \ gone) : mark(js)
              /\ Continue(i, Fails(r))

\* The execution i needs for what it imported.
Rendered(o, vals) == Computed(o.spec.version, vals)

Rollout(i) ==
    LET e == exec[i]
        in == Rendered(run[i].l, run[i].vals)
        op == IF run[i].l.op = "force" THEN "force" ELSE "reconcile"
    IN  IF ~e.live THEN [NoExecution EXCEPT !.live = TRUE, !.gen = 1, !.op = op,
                                            !.in = in]
        ELSE [e EXCEPT !.op = op, !.in = in,
                       !.gen = IF in = e.in THEN @ ELSE @ + 1]

\* The end of Update: only now the imports and the generation are recorded.
Updated(r) ==
    [r EXCEPT !.l.imports = r.confs, !.l.obs = r.l.gen,
              !.l.phase = "Progressing", !.l.err = "none",
              !.pc = CASE r.mode = "update" -> "finish"
                       [] r.mode = "force" -> "dropForce"
                       [] OTHER -> "deleteAll"]

EnsureExecution(i) ==
    /\ At(i, "exec")
    /\ UNCHANGED data
    /\ LET r == [run[i] EXCEPT !.l.eref = TRUE] IN
       \/ /\ i \notin Deploys
          /\ UNCHANGED <<inst, exec, budget>>
          /\ Continue(i, Updated(run[i]))
       \/ /\ i \in Deploys /\ i \in fresh[i] /\ UNCHANGED budget
          /\ exec' = [exec EXCEPT ![i] = Rollout(i)]
          /\ inst' = [inst EXCEPT ![i] = WithStatus(@, r.l)]
          /\ Continue(i, Updated(r))
       \/ /\ i \in Deploys /\ Refused(i)
          /\ exec' = [exec EXCEPT ![i] = Rollout(i)]
          /\ UNCHANGED inst
          /\ Continue(i, Fails(r))
       \/ /\ i \in Deploys /\ Spend("apiError")
          /\ inst' = IF i \in fresh[i]
                     THEN [inst EXCEPT ![i] = WithStatus(@, run[i].l)] ELSE inst
          /\ UNCHANGED exec
          /\ Continue(i, Fails(run[i]))

\* The force annotation is removed when the work is done; the answer to the
\* write brings back the stored status.
DropForce(i) ==
    /\ At(i, "dropForce")
    /\ UNCHANGED <<exec, data>>
    /\ LET r == run[i]
           o == [inst[i] EXCEPT !.op = "none"]
           l == IF r.mode = "force"
                THEN [o EXCEPT !.obs = o.gen, !.phase = "Progressing"] ELSE o
       IN  \/ /\ i \in fresh[i] /\ UNCHANGED budget
              /\ inst' = [inst EXCEPT ![i] = o]
              /\ Continue(i, [r EXCEPT !.pc = "finish", !.l = l])
           \/ /\ Refused(i) /\ UNCHANGED inst
              /\ Continue(i, IF r.mode = "force" THEN FailsPlain(r) ELSE Fails(r))

-----------------------------------------------------------------------------
(* The exports of an installation whose execution and subinstallations     *)
(* have succeeded.                                                         *)

\* exports.Construct: a key comes from the subinstallation that exports it,
\* from the deploy items, or from what was imported.
ExportOf(i, k) ==
    IF \E j \in Children(i) : k \in Exports[j] THEN data[i][k]
    ELSE IF i \in Deploys THEN exec[i].out
    ELSE Rendered(run[i].l, run[i].vals)

ExportsComplete(i) ==
    /\ \A k \in Exports[i] : ExportOf(i, k) # NoValue
    /\ exec[i].live => exec[i].out # NoValue

\* The first half of CreateOrUpdateExports: the data objects and the targets.
WriteExports(i) ==
    /\ At(i, "exports")
    /\ LET r == run[i]
           failed == r.mode = "complete"
       IN  \/ /\ ExportsComplete(i) /\ UNCHANGED budget
              /\ data' = [data EXCEPT ![Parent[i]] = [k \in Keys |->
                            IF k \in Exports[i] THEN ExportOf(i, k) ELSE @[k]]]
              /\ UNCHANGED <<inst, exec>>
              /\ Continue(i, [r EXCEPT !.pc = "publish"])
           \/ /\ (~ExportsComplete(i) /\ UNCHANGED budget) \/ Spend("apiError")
              /\ UNCHANGED <<inst, exec, data>>
              /\ IF failed THEN Continue(i, Fails(r)) ELSE Return(i, TRUE)

\* Mutant: the imports do not count.
MutantConfigGeneration(o) == Computed(o.gen, None)

\* CreateGenerationHash: the hash of the generation and the recorded imports.
ConfigGeneration(o) == Computed(o.gen, o.imports)

\* The second half: the config generation, with the phase as it was.
Publish(i) ==
    /\ At(i, "publish")
    /\ UNCHANGED <<exec, data>>
    /\ LET r == run[i]
           o == [r.l EXCEPT !.conf = ConfigGeneration(r.l)]
       IN  \/ /\ i \in fresh[i] /\ UNCHANGED budget
              /\ inst' = [inst EXCEPT ![i] = WithStatus(@, o)]
              /\ Continue(i, IF r.mode = "complete"
                             THEN [r EXCEPT !.l = [o EXCEPT !.phase = "Succeeded"],
                                            !.pc = "dependants"]
                             ELSE [r EXCEPT !.l = o, !.pc = "rephase"])
           \/ /\ Refused(i) /\ UNCHANGED inst
              /\ IF r.mode = "complete"
                 THEN Continue(i, Fails([r EXCEPT !.l = o]))
                 ELSE Return(i, TRUE)

\* TriggerDependants writes the copies of the siblings that were read with the
\* context; it stops at the first one that is outdated.
TriggerDependants(i) ==
    /\ At(i, "dependants")
    /\ UNCHANGED <<exec, data>>
    /\ LET r == run[i]
           deps == r.refs
           mark(js) == inst' = [j \in Insts |-> IF j \in js
                           THEN [inst[j] EXCEPT !.op = "reconcile"] ELSE inst[j]]
       IN  \/ /\ deps \subseteq fresh[i] /\ UNCHANGED budget
              /\ mark(deps)
              /\ IF r.mode = "complete"
                 THEN Continue(i, [r EXCEPT !.pc = "finish"])
                 ELSE Return(i, FALSE)
           \/ /\ deps # {}
              /\ (~(deps \subseteq fresh[i]) /\ UNCHANGED budget) \/ Spend("apiError")
              /\ \E js \in SUBSET (deps \cap fresh[i]) : mark(js)
              /\ IF r.mode = "complete" THEN Continue(i, Fails(r))
                 ELSE Return(i, TRUE)

-----------------------------------------------------------------------------
(* HandleSubComponentPhaseChanges, for a completed installation: the       *)
(* phases count as they are, whatever generation they belong to.           *)

RawPhases(i) ==
    {inst[j].phase : j \in LiveSubs(i)}
    \cup (IF run[i].l.eref THEN {exec[i].phase} ELSE {})

Recheck(i) ==
    /\ At(i, "recheck")
    /\ UNCHANGED <<inst, exec, data, budget>>
    /\ LET r == run[i]
           cp == CombinedPhase(RawPhases(i))
       IN  \/ /\ r.l.eref /\ ~exec[i].live
              /\ Return(i, TRUE)
           \/ /\ r.l.eref => exec[i].live
              /\ RawPhases(i) = {} \/ cp = r.l.phase
              /\ Return(i, FALSE)
           \/ /\ r.l.eref => exec[i].live
              /\ RawPhases(i) # {} /\ cp # r.l.phase
              /\ IF ~ParentExists(i) THEN Return(i, TRUE)
                 ELSE ReadContext(i, [r EXCEPT !.mode = cp, !.refs = Importers(i),
                        !.pc = IF cp = "Succeeded" THEN "exports" ELSE "rephase"])

Rephase(i) ==
    /\ At(i, "rephase")
    /\ UNCHANGED <<exec, data>>
    /\ LET r == run[i]
           o == [r.l EXCEPT !.phase = r.mode]
       IN  \/ /\ i \in fresh[i] /\ UNCHANGED budget
              /\ inst' = [inst EXCEPT ![i] = WithStatus(@, o)]
              /\ IF r.mode = "Succeeded"
                 THEN Continue(i, [r EXCEPT !.pc = "dependants", !.l = o])
                 ELSE Return(i, FALSE)
           \/ /\ Refused(i) /\ UNCHANGED inst
              /\ Return(i, TRUE)

-----------------------------------------------------------------------------
(* handleDelete.                                                           *)

\* Mutants: the direction is confused; any import of a sibling counts.
MutantImported(i) ==
    \E j \in Siblings(i) : inst[j].live /\ Exports[j] \cap Imports[i] # {}
MutantImportedAny(i) ==
    \E j \in Siblings(i) : inst[j].live /\ Imports[j] # {}

\* checkIfSiblingImports: the names of the exported targets are looked up
\* among the data imports of the siblings, where they never are.
Imported(i) ==
    \E j \in Siblings(i) :
        inst[j].live /\ (Exports[i] \ Targets) \cap (Imports[j] \ Targets) # {}

Delete(i) ==
    /\ At(i, "delete")
    /\ UNCHANGED <<inst, exec, data, budget>>
    /\ LET r == run[i]
           o == r.l
           update == ReadContext(i, [r EXCEPT !.pc = "values", !.mode = "delete",
                                      !.ready = ContextReady(i),
                                      !.l.phase = IF o.op = "force" THEN @
                                                  ELSE "Pending"])
           waits == ChildPhase(i) # NoPhase /\ ~IsCompleted(ChildPhase(i))
       IN  \/ /\ ~ParentExists(i)
              /\ Continue(i, Fails(r))
           \/ /\ ParentExists(i) /\ o.op = "force"
              /\ update
           \/ /\ ParentExists(i) /\ o.op # "force"
              /\ \/ Imported(i) /\ Continue(i, Fails(r))
                 \/ /\ ~Imported(i)
                    /\ ExecPhase(i) = NoPhase /\ SubPhase(i) = NoPhase
                    /\ Continue(i, [r EXCEPT !.pc = "removeFinalizer"])
                 \/ /\ ~Imported(i) /\ waits
                    /\ Continue(i, [r EXCEPT !.pc = "finish", !.l.phase = "Deleting"])
                 \/ /\ ~Imported(i) /\ ~waits /\ ChildPhase(i) # NoPhase
                    /\ \/ /\ o.gen = o.obs /\ ~Present(i)
                          /\ Continue(i, Fails(r))
                       \/ /\ o.gen = o.obs => Present(i)
                          /\ IF EligibleToUpdate(i, o) THEN update
                             ELSE Continue(i, [r EXCEPT !.pc = "deleteAll"])

\* DeleteExecutionAndSubinstallations.  An annotation is written with a copy
\* that the deletion before it has outdated, so the first forced run fails.
DeleteAll(i) ==
    /\ At(i, "deleteAll")
    /\ UNCHANGED data
    /\ LET r == [run[i] EXCEPT !.l.phase = "Deleting"]
           e == exec[i]
           subs == LiveSubs(i)
           first == r.l.op = "force" /\ e.live /\ ~e.del
           stuck == {j \in subs : inst[j].op = "force" /\ ~inst[j].del}
           deleteExec ==
               exec' = IF ~e.live THEN exec
                       ELSE IF ~e.del
                       THEN [exec EXCEPT ![i].del = TRUE, ![i].gen = @ + 1]
                       ELSE IF r.l.op = "force"
                       THEN [exec EXCEPT ![i].op = "force"] ELSE exec
           deleteSubs(js) ==
               inst' = [j \in Insts |-> IF j \in js THEN Deleted(inst[j])
                                        ELSE inst[j]]
       IN  \/ /\ ~first /\ stuck = {} /\ UNCHANGED budget
              /\ deleteExec /\ deleteSubs(subs)
              /\ Continue(i, [r EXCEPT !.pc =
                     IF ~e.live /\ subs = {} THEN "removeFinalizer"
                     ELSE IF r.l.op = "force" THEN "dropForce" ELSE "finish"])
           \/ /\ ~first /\ stuck # {} /\ UNCHANGED budget
              /\ deleteExec
              /\ \E j \in stuck, js \in SUBSET (subs \ stuck) :
                    deleteSubs(js \cup {j})
              /\ Continue(i, Fails(r))
           \/ /\ first /\ UNCHANGED <<inst, budget>>
              /\ deleteExec
              /\ Continue(i, Fails(r))
           \/ /\ Spend("apiError")
              /\ \/ UNCHANGED <<inst, exec>>
                 \/ ~first /\ deleteExec
                    /\ \E js \in SUBSET (subs \ stuck) : deleteSubs(js)
              /\ Continue(i, Fails(r))

RemoveFinalizer(i) ==
    /\ At(i, "removeFinalizer")
    /\ \/ /\ i \in fresh[i] /\ UNCHANGED budget
          /\ inst' = [inst EXCEPT ![i] = NoInstallation]
          /\ UNCHANGED <<exec, data>>
          /\ Return(i, FALSE)
       \/ /\ Refused(i) /\ UNCHANGED <<inst, exec, data>>
          /\ Continue(i, FailsPlain(run[i]))

-----------------------------------------------------------------------------
(* The environment: the execution controller, the garbage collector, the   *)
(* users, and the faults.                                                  *)

Others == UNCHANGED run /\ Outdate(Root) /\ Wake({})
SetInstallation(i, o) ==
    inst' = [inst EXCEPT ![i] = o] /\ UNCHANGED <<exec, data>> /\ Others
SetExecution(i, e) ==
    exec' = [exec EXCEPT ![i] = e] /\ UNCHANGED <<inst, data>> /\ Others

\* An execution with a new generation or an operation starts again; it ends
\* succeeded, and then exports what it was rendered from, or failed.
StartExecution(i) ==
    /\ exec[i].live /\ (exec[i].gen # exec[i].obs \/ exec[i].op # "none")
    /\ UNCHANGED budget
    /\ SetExecution(i, [exec[i] EXCEPT !.obs = exec[i].gen, !.op = "none",
                          !.phase = IF exec[i].del THEN "Deleting" ELSE "Progressing"])

UpToDate(e) == e.live /\ e.gen = e.obs /\ e.op = "none"

EndExecution(i) ==
    /\ UpToDate(exec[i]) /\ exec[i].phase = "Progressing"
    /\ \/ /\ UNCHANGED budget
          /\ SetExecution(i, [exec[i] EXCEPT !.phase = "Succeeded",
                                             !.out = exec[i].in])
       \/ /\ Spend("fail")
          /\ SetExecution(i, [exec[i] EXCEPT !.phase = "Failed"])

EndDeletion(i) ==
    /\ UpToDate(exec[i]) /\ exec[i].phase = "Deleting"
    /\ UNCHANGED budget
    /\ SetExecution(i, NoExecution)

\* A deploy item of a completed execution is deployed again.
Drift(i) ==
    /\ UpToDate(exec[i]) /\ IsCompleted(exec[i].phase)
    /\ Spend("drift")
    /\ SetExecution(i, [exec[i] EXCEPT !.phase = "Progressing"])

CollectGarbage(i) ==
    /\ ~inst[i].live
    /\ data' = [c \in Insts \cup {Root} |-> [k \in Keys |->
                  IF Owner(c, k) = i THEN NoValue ELSE data[c][k]]]
    /\ data' # data
    /\ UNCHANGED <<inst, exec, budget>> /\ Others

\* A user changes a root installation, its set of subinstallations, or data
\* that root installations import, and triggers these.
Alter(i) ==
    /\ inst[i].live /\ ~inst[i].del /\ inst[i].spec.version < MaxVersion
    /\ Spend("alter")
    /\ SetInstallation(i, [inst[i] EXCEPT !.spec.version = @ + 1, !.gen = @ + 1])

Drop(i, j) ==
    /\ inst[i].live /\ ~inst[i].del /\ j \in inst[i].spec.subs
    /\ Spend("drop")
    /\ SetInstallation(i, [inst[i] EXCEPT !.spec.subs = @ \ {j}, !.gen = @ + 1])

ChangeData(k) ==
    /\ Owner(Root, k) = Root /\ data[Root][k].version < MaxVersion
    /\ Spend("data")
    /\ data' = [data EXCEPT ![Root][k].version = @ + 1]
    /\ inst' = [i \in Insts |-> IF i \in Roots /\ inst[i].live /\ k \in Imports[i]
                                THEN [inst[i] EXCEPT !.op = "reconcile"]
                                ELSE inst[i]]
    /\ UNCHANGED exec /\ Others

DeleteInstallation(i) ==
    /\ inst[i].live /\ ~inst[i].del
    /\ Spend("delete")
    /\ SetInstallation(i, Deleted(inst[i]))

SetOperation(i, op) ==
    /\ inst[i].live
    /\ Spend(op)
    /\ SetInstallation(i, [inst[i] EXCEPT !.op = op])

Crash ==
    /\ Spend("crash")
    /\ run' = [i \in Insts |-> Idle]
    /\ fresh' = [i \in Insts |-> {}]
    /\ queued' = {i \in Insts : inst[i].live}
    /\ UNCHANGED <<inst, exec, data>>

-----------------------------------------------------------------------------
Init ==
    /\ inst = [i \in Insts |-> IF i \in Roots THEN NewInstallation(i, 1)
                               ELSE NoInstallation]
    /\ exec = [i \in Insts |-> NoExecution]
    /\ data = [c \in Insts \cup {Root} |-> [k \in Keys |->
                 IF c = Root /\ Owner(c, k) = Root THEN Computed(1, None)
                 ELSE NoValue]]
    /\ queued = Roots
    /\ run = [i \in Insts |-> Idle]
    /\ fresh = [i \in Insts |-> {}]
    /\ budget = MaxEvents

Step(i) ==
    \/ AddFinalizer(i) \/ DropReconcile(i) \/ Finish(i)
    \/ CheckChildren(i) \/ InitPrerequisites(i) \/ CheckEligible(i)
    \/ ReadValues(i) \/ WriteImports(i) \/ EnsureSubs(i) \/ CreateSub(i)
    \/ TriggerSubs(i) \/ EnsureExecution(i) \/ DropForce(i)
    \/ WriteExports(i) \/ Publish(i) \/ TriggerDependants(i)
    \/ Recheck(i) \/ Rephase(i) \/ Delete(i) \/ DeleteAll(i)
    \/ RemoveFinalizer(i)

ExecutionStep(i) == StartExecution(i) \/ EndExecution(i) \/ EndDeletion(i)

Environment(i) ==
    \/ Drift(i)
    \/ i \in Roots /\ (Alter(i) \/ DeleteInstallation(i))
    \/ \E j \in Children(i) : i \in Roots /\ Drop(i, j)
    \/ \E op \in Ops \ {"none"} : SetOperation(i, op)

Next ==
    \/ \E i \in Insts :
          Get(i) \/ Step(i) \/ ExecutionStep(i) \/ CollectGarbage(i)
          \/ Environment(i)
    \/ \E k \in Keys : ChangeData(k)
    \/ Crash

\* The queue is first in, first out, and an error is retried after a while.
Fairness ==
    \A i \in Insts :
        /\ SF_vars(Get(i)) /\ WF_vars(Step(i))
        /\ WF_vars(ExecutionStep(i)) /\ WF_vars(CollectGarbage(i))

SafetySpec == Init /\ [][Next]_vars
Spec == SafetySpec /\ Fairness

-----------------------------------------------------------------------------
(* Types.                                                                  *)

\* The statuses, the queue and the runs hold what they can hold; a generation
\* is never observed before it exists; the workers are not exceeded.
TypeOK ==
    /\ \A i \in Insts :
          /\ inst[i].phase \in Phase /\ inst[i].err \in LastErrors
          /\ inst[i].op \in Ops /\ inst[i].obs <= inst[i].gen
          /\ DOMAIN inst[i].imports \in {{}, Imports[i]}
          /\ exec[i].phase \in Phase /\ exec[i].obs <= exec[i].gen
          /\ run[i].pc \in PCs /\ run[i].refs \subseteq Insts
          /\ fresh[i] \subseteq {i} \cup Siblings(i)
    /\ queued \subseteq Insts
    /\ Cardinality(Running) <= Workers
    /\ budget \in 0..MaxEvents

-----------------------------------------------------------------------------
(* What the reconciliation guarantees.                                     *)

\* The finalizer keeps an installation until its execution and all of its
\* subinstallations are gone, whatever was created by a run that failed later;
\* a subinstallation that an error has failed before its first update is the
\* exception, as its phase may become empty.
GoneIsClean ==
    \A i \in Insts : ~inst[i].live => LiveSubs(i) = {} /\ ~exec[i].live

\* An installation whose data a deployed sibling imports is not removed by
\* handleDelete, also when the sibling was deployed after the deletion began;
\* a forced deletion is the exception.
ImportedIsKept ==
    [][\A i \in Insts :
          inst[i].live /\ ~inst'[i].live /\ inst[i].op # "force" =>
              \A j \in Siblings(i) :
                  exec[j].live => (Exports[i] \ Targets) \cap Imports[j] = {}]_vars

\* A new version or new imports are rolled out only when all installations
\* they come from, directly or not, have finished.  One worker is enough for
\* it; between two the phases that were checked may be stale.
SourcesFinishFirst ==
    [][\A i \in Insts :
          exec'[i].live /\ exec'[i].in # exec[i].in =>
              \A j \in Upstream(i) : inst[j].live /\ IsCompleted(inst[j].phase)]_vars

\* When the generation of an installation is recorded as observed, each of its
\* templates has a subinstallation with the content of the template, also
\* after Updates that failed half way.
RecordedIsEnsured ==
    \A i \in Insts :
        /\ inst[i].live /\ ~inst[i].del /\ inst[i].obs = inst[i].gen
        /\ inst[i].spec.subs = Children(i)
        => \A j \in Children(i) :
              inst[j].live /\ inst[j].spec.version = inst[i].spec.version

Settled(i) ==
    /\ inst[i].live /\ run[i].pc = "idle" /\ inst[i].phase = "Succeeded"
    /\ inst[i].obs = inst[i].gen /\ inst[i].op = "none"

\* The recorded config generation identifies the imported value: when it is
\* the one its settled source publishes, the value that was deployed is the
\* value that is published.
CurrentIsDeployed ==
    \A i \in Deploys :
        /\ Settled(i)
        /\ \A k \in Imports[i] : Source(i, k) # Root => Settled(Source(i, k))
        /\ ~OutdatedImports(i, inst[i])
        => \A k \in Imports[i] : exec[i].in.imports[k] = data[Parent[i]][k]

\* However the changes of specs and data overlap the reconciliations, in the
\* end every installation has succeeded and has deployed its present version
\* with the data that is then published.
Converges ==
    <>[](\A i \in Insts : inst[i].live =>
            /\ inst[i].phase = "Succeeded" /\ inst[i].obs = inst[i].gen
            /\ i \in Deploys =>
                  exec[i].in = Computed(inst[i].spec.version,
                                 [k \in Imports[i] |-> data[Parent[i]][k]]))

\* An installation that is to be deleted disappears, after its execution and
\* its subinstallations, unless its blueprint is not valid.
DeletionEnds ==
    \A i \in Insts :
        inst[i].del /\ ValidTemplates(i, inst[i].spec.subs) ~> ~inst[i].live
=============================================================================
