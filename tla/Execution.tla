----------------------------- MODULE Execution ------------------------------
(***************************************************************************)
(* The execution controller of the landscaper: it expands the deploy item  *)
(* templates of one Execution into DeployItems in the order of their       *)
(* dependencies, follows their phases, collects their exports and, when    *)
(* the Execution is deleted, deletes them in the opposite order.           *)
(*                                                                         *)
(* Everything the controller knows it reads from informer caches and       *)
(* everything it does is a call to the API server, so one run of Reconcile *)
(* is split into one step per call.  Between two steps the installation    *)
(* controller, the deployers, the timeout controller and users change the  *)
(* same objects.  A full Update carries the resource version it read and   *)
(* fails when the object has changed since (cur); a Patch does not.        *)
(*                                                                         *)
(* Translated from pkg/landscaper/controllers/execution/controller.go and  *)
(* pkg/landscaper/execution/{reconcile,delete,gc,helper,execution}.go.     *)
(***************************************************************************)
EXTENDS Naturals, Sequences, FiniteSets, Phases

CONSTANTS
    Names,      \* names of deploy item templates
    Order,      \* the order of the templates in spec.deployItems
    DependsOn,  \* DependsOn[t]: the templates t lists in dependsOn
    MaxItems,   \* bound: how many deploy items may ever be created
    MaxGen,     \* bound: generations of the execution's spec
    MaxEvents,  \* bound: how many events of the environment may happen
    Events,     \* which events those are
    Lag         \* kinds of objects whose informer cache may lag behind

EventKinds == {"ensure", "force", "alter", "remove", "delete",
               "retryItem", "deleteItem", "pickupTimeout", "fail", "apiError",
               "crash"}

\* ValidateDeployItemTemplateList rejects templates with the same name and
\* undefined or cyclic dependencies.  The rank says that there is no cycle.
ASSUME OrderAssumption ==
    /\ Order \in Seq(Names)
    /\ \A t \in Names : \E k \in 1..Len(Order) : Order[k] = t
    /\ \A j, k \in 1..Len(Order) : Order[j] = Order[k] => j = k
ASSUME DependsOnAssumption ==
    /\ DependsOn \in [Names -> SUBSET Names]
    /\ \E rank \in [Names -> 1..Len(Order)] :
          \A t \in Names : \A dep \in DependsOn[t] : rank[dep] < rank[t]
ASSUME BoundsAssumption ==
    /\ MaxItems \in Nat /\ MaxGen \in Nat \ {0} /\ MaxEvents \in Nat
    /\ Events \subseteq EventKinds
    /\ Lag \subseteq {"exec", "items"}
    /\ Len(Order) > 0

VARIABLES
    exec,     \* the Execution in the API server
    di,       \* the DeployItems in the API server
    next,     \* the next name the API server generates for a DeployItem
    exports,  \* the data object with the collected exports, by template
    cexec,    \* the informer's copy of the Execution, if it may lag
    citems,   \* the informer's copy of the DeployItems, if it may lag
    queued,   \* the Execution is in the work queue of the controller
    pc,       \* the next API call of the running Reconcile
    l,        \* the Execution as the running Reconcile holds it
    cur,      \* l carries the current resource version
    loc,      \* the other local variables of the running Reconcile
    budget,   \* how many events of the environment are left
    done      \* history: templates of which some item has once succeeded

server == <<exec, di, next, exports>>
caches == <<cexec, citems>>
vars == <<exec, di, next, exports, cexec, citems, queued, pc, l, cur, loc,
          budget, done>>

Items == 1..MaxItems
Ops == {"none", "reconcile", "force"}
PCs == {"idle", "reset", "dropOp", "forceReset", "recheck", "rexport",
        "finalizer", "list", "loop", "apply", "record", "unforce", "export",
        "deleteList", "deleteItem", "finish"}

\* spec[t] is the generation of the execution in which template t got its
\* present content; 0 when the execution has no template t.
Spec0 == [t \in Names |-> 1]
NoRef == [id |-> 0, gen |-> 0]

NewExecution ==
    [live |-> TRUE, gen |-> 1, del |-> FALSE, fin |-> FALSE,
     op |-> "reconcile", spec |-> Spec0, obs |-> 0, phase |-> NoPhase,
     err |-> "none", refs |-> [t \in Names |-> NoRef],
     egens |-> [t \in Names |-> 0], exported |-> FALSE]

\* out is the version of the spec whose deployment the exported data describes.
NoItem ==
    [live |-> FALSE, tmpl |-> Order[1], gen |-> 0, spec |-> 0, op |-> "none",
     del |-> FALSE, fin |-> FALSE, obs |-> 0, phase |-> NoPhase,
     pickup |-> FALSE, out |-> 0]

\* What the controller looks at in its copy of a deploy item.
Missing == [id |-> 0, gen |-> 0, obs |-> 0, phase |-> NoPhase,
            pickup |-> FALSE, del |-> FALSE, out |-> 0]
Copy(i, d) == [id |-> i, gen |-> d.gen, obs |-> d.obs, phase |-> d.phase,
               pickup |-> d.pickup, del |-> d.del, out |-> d.out]

Status(o) == [obs |-> o.obs, phase |-> o.phase, err |-> o.err,
              refs |-> o.refs, egens |-> o.egens, exported |-> o.exported]

\* What a Status().Update of o makes of the stored object e.
WithStatus(e, o) ==
    [e EXCEPT !.obs = o.obs, !.phase = o.phase, !.err = o.err,
              !.refs = o.refs, !.egens = o.egens, !.exported = o.exported]

Locals ==
    [old |-> Status(NewExecution), force |-> FALSE, tspec |-> Spec0,
     items |-> [t \in Names |-> Missing], at |-> 1, acc |-> NoPhase,
     ref |-> NoRef, err |-> FALSE, touched |-> FALSE, allDeleted |-> TRUE]

-----------------------------------------------------------------------------
(* The API server and the informers.                                       *)

ViewExec == IF "exec" \in Lag THEN cexec ELSE exec
ViewItems == IF "items" \in Lag THEN citems ELSE di

\* Mutant: the controller watches executions but not the items they own.
MutantWake(retry) ==
    queued' = \/ retry
              \/ "exec" \notin Lag /\ exec' # exec
              \/ cexec' # cexec

\* The work queue: every change the informers report puts the execution back,
\* and so does the controller when a Reconcile returned an error (retry).
Wake(retry) ==
    queued' = \/ retry
              \/ "exec" \notin Lag /\ exec' # exec
              \/ "items" \notin Lag /\ di' # di
              \/ caches' # caches

\* Deleting an object with a finalizer only marks it, and bumps its generation.
Deleted(d) ==
    IF ~d.fin THEN NoItem
    ELSE IF d.del THEN d
    ELSE [d EXCEPT !.del = TRUE, !.gen = @ + 1]

SyncExec ==
    /\ "exec" \in Lag /\ cexec # exec
    /\ cexec' = exec
    /\ UNCHANGED <<server, citems, pc, l, cur, loc, budget, done>>
    /\ Wake(queued)

SyncItems ==
    /\ "items" \in Lag /\ citems # di
    /\ citems' = di
    /\ UNCHANGED <<server, cexec, pc, l, cur, loc, budget, done>>
    /\ Wake(queued)

-----------------------------------------------------------------------------
(* Reconcile: the frame around the business logic.                         *)

\* One of the bounded number of events that need not happen.
Spend(kind) == kind \in Events /\ budget > 0 /\ budget' = budget - 1

Goto(p) == pc' = p /\ l' = l /\ cur' = cur

Return(retry) ==
    /\ pc' = "idle" /\ l' = NewExecution /\ cur' = FALSE /\ loc' = Locals
    /\ Wake(queued \/ retry)

\* The API server refuses an optimistic write with an outdated resource
\* version; any call may also fail for a reason of its own.
Conflict == ~cur /\ UNCHANGED budget
Refused == Conflict \/ (cur /\ Spend("apiError"))

\* An Update or Status().Update of l with the content o: it is stored and the
\* run goes on at p, or it is refused and the run returns an error, with o in
\* memory, through the error handler.
Update(o, p) ==
    /\ \/ /\ cur /\ UNCHANGED <<budget, loc>>
          /\ exec' = o /\ pc' = p
       \/ /\ Refused /\ UNCHANGED exec
          /\ loc' = [loc EXCEPT !.err = TRUE] /\ pc' = "finish"
    /\ l' = o /\ cur' = cur
    /\ UNCHANGED <<di, next, exports, caches, done>>
    /\ Wake(queued)

\* The end of a step inside a Reconcile that goes on.
Continue == UNCHANGED <<caches, budget, done>> /\ Wake(queued)

\* A Delete, Create, Patch or List that fails.
Fail == loc' = [loc EXCEPT !.err = TRUE] /\ Goto("finish")

\* Mutant: a deletion timestamp is not looked at.
MutantEnsure(o) == IF ~o.fin THEN "finalizer" ELSE "list"

\* Ensure: which branch follows for a phase that is not completed.
Ensure(o) ==
    IF o.del THEN "deleteList" ELSE IF ~o.fin THEN "finalizer" ELSE "list"

PhaseGate(o) == IF IsCompleted(o.phase) THEN "recheck" ELSE Ensure(o)

AfterReset(o) ==
    IF o.op = "force" /\ IsCompleted(o.phase) THEN "forceReset"
    ELSE PhaseGate(o)

Get ==
    /\ pc = "idle" /\ queued
    /\ IF ViewExec.live
       THEN /\ l' = ViewExec
            /\ cur' = (ViewExec = exec)
            /\ loc' = [Locals EXCEPT !.old = Status(ViewExec)]
            /\ pc' = IF ViewExec.op = "reconcile" \/ ViewExec.obs # ViewExec.gen
                     THEN "reset" ELSE AfterReset(ViewExec)
       ELSE UNCHANGED <<l, cur, loc, pc>>
    /\ queued' = FALSE
    /\ UNCHANGED <<server, caches, budget, done>>

\* HandleAnnotationsAndGeneration is three optimistic writes, each optional.
ResetPhase ==
    /\ pc = "reset"
    /\ LET o == [l EXCEPT !.obs = l.gen, !.phase = "Init"]
       IN  Update(o, IF l.op = "reconcile" THEN "dropOp" ELSE AfterReset(o))

DropOperation ==
    /\ pc = "dropOp"
    /\ LET o == [l EXCEPT !.op = "none"] IN Update(o, AfterReset(o))

ForceReset ==
    /\ pc = "forceReset"
    /\ LET o == [l EXCEPT !.phase = "Init"] IN Update(o, PhaseGate(o))

AddFinalizer ==
    /\ pc = "finalizer"
    /\ Update([l EXCEPT !.fin = TRUE], "list")

\* HandleErrorFunc: the last error is dropped after a run without error if it is
\* the one the run began with; one that the run set, or that the answer to a
\* patch brought in, stays (as errors have no time here, one of the same kind is
\* taken for the same), and a returned error leaves it as it is.  A status
\* update that fails is not retried unless the run returned an error.
HandleError ==
    /\ pc = "finish"
    /\ LET kept == loc.err \/ loc.touched \/ l.err # loc.old.err
           e == IF kept THEN l.err ELSE "none"
           o == [l EXCEPT !.err = e, !.phase = PhaseForLastError(l.phase, e)]
       IN  IF loc.touched \/ Status(o) # loc.old
           THEN \/ /\ cur /\ exec.live /\ UNCHANGED budget
                   /\ exec' = WithStatus(exec, o)
                \/ /\ Refused \/ (~exec.live /\ UNCHANGED budget)
                   /\ UNCHANGED exec
           ELSE UNCHANGED <<exec, budget>>
    /\ UNCHANGED <<di, next, exports, caches, done>>
    /\ Return(loc.err)

-----------------------------------------------------------------------------
(* HandleDeployItemPhaseAndGenerationChanges, for a completed execution.   *)

Referenced == {t \in Names : l.refs[t].id # 0}

\* A referenced deploy item does not exist or has another generation.
Outdated(items) ==
    \E t \in Referenced :
        LET d == items[l.refs[t].id] IN ~d.live \/ d.gen # l.refs[t].gen

Recheck ==
    /\ pc = "recheck"
    /\ LET items == ViewItems
           cp == CombinedPhase({items[l.refs[t].id].phase : t \in Referenced})
           p == IF Outdated(items) THEN "Progressing" ELSE cp
           o == [l EXCEPT !.phase = p]
       IN  \/ /\ ~Outdated(items) /\ cp = l.phase
              /\ UNCHANGED <<server, caches, budget, done>>
              /\ Return(FALSE)
           \/ /\ p # l.phase /\ Refused
              /\ UNCHANGED <<server, caches, done>>
              /\ Return(TRUE)
           \/ /\ p # l.phase /\ cur
              /\ exec' = o
              /\ UNCHANGED <<di, next, exports, caches, budget, done>>
              /\ IF IsCompleted(p) /\ p # "Succeeded" THEN Return(FALSE)
                 ELSE /\ l' = o /\ cur' = cur
                      /\ pc' = IF p = "Succeeded" THEN "rexport" ELSE Ensure(o)
                      /\ loc' = [loc EXCEPT !.items =
                           [t \in Names |-> IF t \in Referenced
                                THEN Copy(l.refs[t].id, items[l.refs[t].id])
                                ELSE Missing]]
                      /\ Wake(queued)

-----------------------------------------------------------------------------
(* Crash, and the panics of the controller, which end the process.         *)

\* A restarted controller lists all objects, so its caches are filled anew
\* and every execution is queued.
Restart ==
    /\ pc' = "idle" /\ l' = NewExecution /\ cur' = FALSE /\ loc' = Locals
    /\ cexec' = exec /\ citems' = di /\ queued' = TRUE

-----------------------------------------------------------------------------
(* collectAndUpdateExports                                                 *)

Templates(spec) == {t \in Names : spec[t] # 0}

\* addExports dereferences the deploy item of every template and reads the
\* secret with its exports, if it has one; the secret of an item that is gone
\* is gone, or will be.
AllPresent(spec) == \A t \in Templates(spec) : loc.items[t].id # 0
Exporting(spec) == {t \in Templates(spec) : loc.items[t].out # 0}
SecretMissing(spec) == \E t \in Exporting(spec) : ~di[loc.items[t].id].live

\* Mutant: a value that was collected before is kept.
MutantCollected(spec) ==
    [t \in Names |-> IF t \notin Exporting(spec) THEN 0
                     ELSE IF exports[t] # 0 THEN exports[t]
                     ELSE di[loc.items[t].id].out]

Collected(spec) ==
    [t \in Names |-> IF t \notin Exporting(spec) THEN 0
                     ELSE IF di[loc.items[t].id].live THEN di[loc.items[t].id].out
                     ELSE loc.items[t].out]

\* After a completed execution's phase went (back) to Succeeded: the errors of
\* this branch are returned without the error handler.
ExportAgain ==
    /\ pc = "rexport"
    /\ UNCHANGED <<di, next, done>>
    /\ \/ /\ ~AllPresent(l.spec)
          /\ Restart
          /\ UNCHANGED <<exec, exports, budget>>
       \/ /\ AllPresent(l.spec)
          /\ \/ SecretMissing(l.spec) /\ UNCHANGED budget
             \/ Spend("apiError")
          /\ UNCHANGED <<exec, exports, caches>>
          /\ Return(TRUE)
       \/ /\ AllPresent(l.spec)
          /\ exports' = Collected(l.spec)
          /\ exec' = IF cur THEN [l EXCEPT !.exported = TRUE] ELSE exec
          /\ UNCHANGED <<caches, budget>>
          /\ Return(~cur)

\* At the end of a Reconcile whose deploy items are all completed.  The
\* data object is written first, then the status, optimistically, and only
\* then the phase is set, for the error handler to store.
Export ==
    /\ pc = "export"
    /\ UNCHANGED <<di, next, budget, done>>
    /\ \/ /\ ~AllPresent(loc.tspec)
          /\ Restart
          /\ UNCHANGED <<exec, exports>>
       \/ /\ AllPresent(loc.tspec) /\ SecretMissing(loc.tspec)
          /\ Fail
          /\ UNCHANGED <<exec, exports, caches>>
          /\ Wake(queued)
       \/ /\ AllPresent(loc.tspec)
          /\ exports' = Collected(loc.tspec)
          /\ LET o == [l EXCEPT !.exported = TRUE]
             IN  /\ exec' = IF cur THEN o ELSE exec
                 /\ l' = IF cur THEN [o EXCEPT !.phase = "Succeeded"] ELSE o
          /\ cur' = cur
          /\ loc' = [loc EXCEPT !.err = ~cur]
          /\ pc' = "finish"
          /\ UNCHANGED caches
          /\ Wake(queued)

-----------------------------------------------------------------------------
(* Operation.Reconcile                                                     *)

\* Mutant: the items are not matched with the names of the templates.
MutantAssignments(items) ==
    {a \in [Names -> 0..MaxItems] :
        \A t \in Names :
            LET mine == {i \in Items : items[i].live}
            IN  IF l.spec[t] # 0 /\ mine # {} THEN a[t] \in mine ELSE a[t] = 0}

\* getExecutionItems: which of several items of a template comes first in the
\* list of an informer cache is arbitrary.
Assignments(items) ==
    {a \in [Names -> 0..MaxItems] :
        \A t \in Names :
            LET mine == {i \in Items : items[i].live /\ items[i].tmpl = t}
            IN  IF l.spec[t] # 0 /\ mine # {} THEN a[t] \in mine ELSE a[t] = 0}

\* Mutant: only items their deployer has already seen are found.
MutantCopies(a, items) ==
    [t \in Names |-> IF a[t] = 0 \/ items[a[t]].obs = 0 THEN Missing
                     ELSE Copy(a[t], items[a[t]])]

Copies(a, items) ==
    [t \in Names |-> IF a[t] = 0 THEN Missing ELSE Copy(a[t], items[a[t]])]

Orphans(a, items) == {i \in Items : items[i].live /\ \A t \in Names : a[t] # i}

\* checkGCDeletable
GCDeletable(i, orphans, items) ==
    \A j \in orphans \ {i} : items[i].tmpl \notin DependsOn[items[j].tmpl]

\* listManagedDeployItems, getExecutionItems, cleanupOrphanedDeployItems.
\* Items that are not in the server any more are deleted without effect.
ListItems ==
    /\ pc = "list"
    /\ l' = [l EXCEPT !.phase = "Progressing"] /\ cur' = cur
    /\ LET items == ViewItems IN
       \E a \in Assignments(items) :
          LET orphans == Orphans(a, items)
              doomed == {i \in orphans : ~items[i].del /\ GCDeletable(i, orphans, items)}
          IN  /\ di' = [i \in Items |-> IF i \in doomed /\ di[i].live
                                        THEN Deleted(di[i]) ELSE di[i]]
              /\ loc' = [loc EXCEPT !.force = (l.op = "force"),
                                    !.tspec = l.spec,
                                    !.items = Copies(a, items),
                                    !.at = 1,
                                    !.acc = NoPhase,
                                    !.err = (orphans # {})]
              /\ pc' = IF orphans = {} THEN "loop" ELSE "finish"
    /\ UNCHANGED <<exec, next, exports>>
    /\ Continue

\* generations.IsUpToDate
IsUpToDate(t) ==
    l.egens[t] = l.gen /\ l.refs[t].gen = loc.items[t].gen

\* Mutant: the phase of the dependencies is not looked at.
MutantRunnable(t) ==
    \A dep \in DependsOn[t] :
        LET e == loc.items[dep]
        IN  e.id # 0 /\ IsUpToDate(dep) /\ e.obs = e.gen

\* checkRunnable
Runnable(t) ==
    \A dep \in DependsOn[t] :
        LET e == loc.items[dep]
        IN  /\ e.id # 0 /\ IsUpToDate(dep)
            /\ e.obs = e.gen /\ e.phase = "Succeeded"

LocalStep == UNCHANGED <<server, caches, budget, done>> /\ Wake(queued)

\* Mutant: the loop variable is incremented twice.
MutantNextItem(acc) == loc' = [loc EXCEPT !.at = @ + 2, !.acc = acc]

NextItem(acc) == loc' = [loc EXCEPT !.at = @ + 1, !.acc = acc]

\* The execution fails with the deploy item: Reconcile returns without error
\* and with a new last error, which lasts if there already was one.
FailWithItem ==
    /\ \E e \in {"recent", "lasting"} :
        /\ l.err = "none" => e = "recent"
        /\ l.err = "lasting" => e = "lasting"
        /\ l' = [l EXCEPT !.obs = l.gen, !.phase = "Failed", !.err = e]
    /\ cur' = cur
    /\ loc' = [loc EXCEPT !.touched = TRUE]
    /\ pc' = "finish"

\* A deploy item that exists, is up-to-date and is not forced to run again.
FollowItem(t) ==
    LET d == loc.items[t]
        acc == CombinedPhase({loc.acc, d.phase})
    IN  \/ /\ d.phase = "Failed" /\ (d.pickup \/ d.obs = d.gen)
           /\ FailWithItem
        \/ /\ ~(d.phase = "Failed" /\ d.pickup)
           /\ ~IsCompleted(d.phase) \/ d.obs # d.gen
           /\ l' = [l EXCEPT !.phase = "Progressing"] /\ cur' = cur
           /\ NextItem("Progressing") /\ pc' = "loop"
        \/ /\ IsCompleted(d.phase) /\ d.phase # "Failed" /\ d.obs = d.gen
           /\ NextItem(acc) /\ Goto("loop")

LoopItem ==
    /\ pc = "loop" /\ loc.at <= Len(Order)
    /\ LET t == Order[loc.at]
           follow == loc.items[t].id # 0 /\ IsUpToDate(t) /\ ~loc.force
       IN  \/ /\ loc.tspec[t] = 0
              /\ NextItem(loc.acc) /\ Goto("loop")
           \/ /\ loc.tspec[t] # 0 /\ follow
              /\ FollowItem(t)
           \/ /\ loc.tspec[t] # 0 /\ ~follow /\ ~Runnable(t)
              /\ NextItem(loc.acc) /\ Goto("loop")
           \/ /\ loc.tspec[t] # 0 /\ ~follow /\ Runnable(t)
              /\ loc' = loc /\ Goto("apply")
    /\ LocalStep

AfterLoop == IF IsCompleted(loc.acc) THEN "export" ELSE "finish"

EndLoop ==
    /\ pc = "loop" /\ loc.at > Len(Order)
    /\ Goto(IF loc.force THEN "unforce" ELSE AfterLoop)
    /\ loc' = loc
    /\ LocalStep

-----------------------------------------------------------------------------
(* deployOrTrigger                                                         *)

\* Mutant: an existing item is only annotated, its spec stays as it is.
MutantTriggered(d, version) == [d EXCEPT !.op = "reconcile"]

\* ApplyDeployItemTemplate on an existing deploy item; the generation counts
\* the changes of the spec.
Triggered(d, version) ==
    [d EXCEPT !.op = "reconcile", !.spec = version,
              !.gen = IF d.spec = version THEN @ ELSE @ + 1]

NewItem(t, version) ==
    [NoItem EXCEPT !.live = TRUE, !.tmpl = t, !.gen = 1, !.spec = version,
                   !.op = "reconcile"]

\* CreateOrUpdate of the deploy item.  A new item is not entered into the
\* list that the rest of the loop looks at, an updated one is.
ApplyItem ==
    /\ pc = "apply"
    /\ LET t == Order[loc.at]
           i == loc.items[t].id
           version == loc.tspec[t]
       IN  \/ /\ i = 0 /\ next <= MaxItems
              /\ di' = [di EXCEPT ![next] = NewItem(t, version)]
              /\ next' = next + 1
              /\ loc' = [loc EXCEPT !.ref = [id |-> next, gen |-> 1]]
              /\ Goto("record")
           \/ /\ i # 0 /\ ViewItems[i].live /\ ViewItems[i] = di[i]
              /\ LET d == Triggered(di[i], version)
                 IN  /\ di' = [di EXCEPT ![i] = d]
                     /\ loc' = [loc EXCEPT !.ref = [id |-> i, gen |-> d.gen],
                                           !.items[t] = Copy(i, d)]
              /\ next' = next
              /\ Goto("record")
           \/ /\ i # 0 /\ ~(ViewItems[i].live /\ ViewItems[i] = di[i])
              /\ UNCHANGED <<di, next>>
              /\ Fail
    /\ UNCHANGED <<exec, exports>>
    /\ Continue

\* Status().Patch: a merge patch carries only the fields that differ from the
\* copy taken before, is applied to whatever the server holds, and the answer
\* replaces l, its spec and its generation included.
Recorded ==
    [l EXCEPT !.refs[Order[loc.at]] = loc.ref, !.egens[Order[loc.at]] = l.gen,
              !.phase = "Progressing"]

Patched ==
    [exec EXCEPT
        !.refs = IF Recorded.refs # l.refs THEN Recorded.refs ELSE @,
        !.egens = IF Recorded.egens # l.egens THEN Recorded.egens ELSE @,
        !.phase = IF Recorded.phase # l.phase THEN Recorded.phase ELSE @]

RecordItem ==
    /\ pc = "record"
    /\ \/ /\ exec.live
          /\ exec' = Patched /\ l' = Patched /\ cur' = TRUE
          /\ loc' = [loc EXCEPT !.at = @ + 1, !.ref = NoRef,
                                !.acc = CombinedPhase({@, "Init"})]
          /\ pc' = "loop"
       \/ /\ ~exec.live
          /\ UNCHANGED exec /\ Fail
    /\ UNCHANGED <<di, next, exports>>
    /\ Continue

\* Removes the operation annotation, whichever it is by now, with a patch.
RemoveForce ==
    /\ pc = "unforce"
    /\ \/ /\ exec.live
          /\ LET o == IF l.op = "none" THEN exec ELSE [exec EXCEPT !.op = "none"]
             IN  exec' = o /\ l' = o /\ cur' = TRUE
          /\ loc' = loc /\ pc' = AfterLoop
       \/ /\ ~exec.live
          /\ UNCHANGED exec /\ Fail
    /\ UNCHANGED <<di, next, exports>>
    /\ Continue

-----------------------------------------------------------------------------
(* Operation.Delete                                                        *)

DeleteList ==
    /\ pc = "deleteList"
    /\ l' = [l EXCEPT !.phase = "Deleting"] /\ cur' = cur
    /\ \E a \in Assignments(ViewItems) :
          loc' = [loc EXCEPT !.items = Copies(a, ViewItems), !.tspec = l.spec,
                             !.at = 1, !.allDeleted = TRUE]
    /\ pc' = "deleteItem"
    /\ LocalStep

\* Mutant: the items are deleted in the order of the list.
MutantDeletable(t) == TRUE

\* checkDeletable
Deletable(t) ==
    \A s \in Names \ {t} :
        loc.tspec[s] # 0 /\ t \in DependsOn[s] => loc.items[s].id = 0

\* One deploy item of the list: delete it, or look at its phase.  An item that
\* turns out to be gone counts as if all were.
DeleteItem ==
    /\ pc = "deleteItem" /\ loc.at <= Len(Order)
    /\ LET t == Order[loc.at]
           d == loc.items[t]
           delete == ~d.del /\ Deletable(t)
       IN  \/ /\ d.id = 0
              /\ loc' = [loc EXCEPT !.at = @ + 1]
              /\ Goto("deleteItem") /\ UNCHANGED di
           \/ /\ d.id # 0 /\ delete
              /\ loc' = [loc EXCEPT !.at = @ + 1, !.allDeleted = ~di[d.id].live]
              /\ Goto("deleteItem")
              /\ di' = IF di[d.id].live
                       THEN [di EXCEPT ![d.id] = Deleted(@)] ELSE di
           \/ /\ d.id # 0 /\ ~delete
              /\ loc' = [loc EXCEPT !.at = @ + 1, !.allDeleted = FALSE]
              /\ l' = IF d.phase = "Failed" THEN [l EXCEPT !.phase = "Failed"] ELSE l
              /\ cur' = cur /\ pc' = "deleteItem" /\ UNCHANGED di
    /\ UNCHANGED <<exec, next, exports>>
    /\ Continue

\* Mutant: the finalizer is removed in the pass that deletes the items.
MutantRemoveFinalizer ==
    /\ pc = "deleteItem" /\ loc.at > Len(Order)
    /\ pc' = "finish" /\ cur' = cur
    /\ \/ /\ cur
          /\ exec' = [exec EXCEPT !.fin = FALSE, !.live = FALSE]
          /\ l' = exec'
          /\ UNCHANGED <<loc, budget>>
       \/ /\ Refused
          /\ loc' = [loc EXCEPT !.err = TRUE]
          /\ UNCHANGED <<exec, l>>
    /\ UNCHANGED <<di, next, exports, caches, done>>
    /\ Wake(queued)

\* The last finalizer of a deleted object gone, the object is gone.
RemoveFinalizer ==
    /\ pc = "deleteItem" /\ loc.at > Len(Order)
    /\ pc' = "finish" /\ cur' = cur
    /\ \/ /\ ~loc.allDeleted
          /\ UNCHANGED <<exec, l, loc, budget>>
       \/ /\ loc.allDeleted /\ cur
          /\ exec' = [exec EXCEPT !.fin = FALSE, !.live = FALSE]
          /\ l' = exec'
          /\ UNCHANGED <<loc, budget>>
       \/ /\ loc.allDeleted /\ Refused
          /\ loc' = [loc EXCEPT !.err = TRUE]
          /\ UNCHANGED <<exec, l>>
    /\ UNCHANGED <<di, next, exports, caches, done>>
    /\ Wake(queued)

\* A call of Reconcile or Delete fails: the run returns the error, with what it
\* has changed in memory so far.
CallFails ==
    /\ Spend("apiError")
    /\ \/ pc \in {"list", "apply", "record", "unforce", "export", "deleteList"}
       \/ pc = "deleteItem" /\ loc.at <= Len(Order)
    /\ l' = CASE pc = "list" -> [l EXCEPT !.phase = "Progressing"]
              [] pc = "deleteList" -> [l EXCEPT !.phase = "Deleting"]
              [] pc = "record" -> Recorded
              [] OTHER -> l
    /\ cur' = cur
    /\ loc' = [loc EXCEPT !.err = TRUE] /\ pc' = "finish"
    /\ UNCHANGED <<server, caches, done>>
    /\ Wake(queued)

-----------------------------------------------------------------------------
(* The deployer of an item and the garbage collector.  Their writes are    *)
(* optimistic, so each is one step on the stored deploy item.              *)

Others == UNCHANGED <<exec, next, exports, caches, pc, l, cur, loc>>
SetItem(i, d) == di' = [di EXCEPT ![i] = d] /\ Others /\ Wake(queued)

\* HandleAnnotationsAndGeneration of the deployer library: the item is
\* (re)started, for its annotation or for a new generation.
Pickup(i) ==
    /\ di[i].live
    /\ di[i].op = "reconcile" \/ di[i].obs # di[i].gen
    /\ SetItem(i, [di[i] EXCEPT !.obs = di[i].gen, !.phase = "Init",
                                !.pickup = FALSE])
    /\ UNCHANGED <<budget, done>>

PickedUp(i) == di[i].live /\ di[i].obs = di[i].gen

\* The annotation is removed, the finalizer added and the work begun.
Begin(i) ==
    /\ PickedUp(i) /\ di[i].phase = "Init" /\ ~di[i].del
    /\ SetItem(i, [di[i] EXCEPT !.op = "none", !.fin = TRUE,
                                !.phase = "Progressing"])
    /\ UNCHANGED <<budget, done>>

\* Work on an item that was triggered again meanwhile has no effect: the
\* deployer's status update is refused and the item is picked up anew.
Working(i) ==
    /\ PickedUp(i) /\ di[i].op # "reconcile" /\ di[i].phase = "Progressing"

Succeed(i) ==
    /\ Working(i) /\ ~di[i].del
    /\ SetItem(i, [di[i] EXCEPT !.phase = "Succeeded", !.out = di[i].spec])
    /\ done' = done \cup {di[i].tmpl}
    /\ UNCHANGED budget

\* The deployed resources of a deleted item are gone: the finalizer is removed.
Release(i) ==
    /\ PickedUp(i) /\ di[i].del /\ di[i].phase = "Init"
    /\ SetItem(i, NoItem)
    /\ UNCHANGED <<budget, done>>

\* Kubernetes deletes what an execution that is gone owned.
CollectGarbage(i) ==
    /\ ~exec.live /\ di[i].live /\ ~di[i].del
    /\ SetItem(i, Deleted(di[i]))
    /\ UNCHANGED <<budget, done>>

-----------------------------------------------------------------------------
(* Events of the environment, at most MaxEvents of the kinds in Events.    *)

\* The specs the installation controller may write: some templates altered or
\* added, some removed, nothing a remaining template depends on missing.
SpecChoices ==
    {s \in [Names -> 0..MaxGen] :
        /\ \A t \in Names :
              \/ s[t] = exec.spec[t]
              \/ "alter" \in Events /\ s[t] = exec.gen + 1
              \/ "remove" \in Events /\ s[t] = 0
        /\ \A t \in Templates(s) : DependsOn[t] \subseteq Templates(s)
        /\ Templates(s) # {}}

\* ExecutionOperation.Ensure: one Update with the rendered templates and the
\* operation annotation, from the installation controller or from a user.
EnsureExecution(op) ==
    /\ exec.live /\ ~exec.del
    /\ Spend(IF op = "force" THEN "force" ELSE "ensure")
    /\ \E s \in SpecChoices :
        exec' = [exec EXCEPT !.spec = s, !.op = op,
                             !.gen = IF s = exec.spec THEN @ ELSE @ + 1]
    /\ cur' = FALSE
    /\ UNCHANGED <<di, next, exports, caches, pc, l, loc, done>>
    /\ Wake(queued)

DeleteExecution ==
    /\ exec.live /\ ~exec.del
    /\ Spend("delete")
    /\ exec' = IF exec.fin THEN [exec EXCEPT !.del = TRUE, !.gen = @ + 1]
               ELSE [exec EXCEPT !.live = FALSE]
    /\ cur' = FALSE
    /\ UNCHANGED <<di, next, exports, caches, pc, l, loc, done>>
    /\ Wake(queued)

\* A user asks for one deploy item to be reconciled (or its deployer does,
\* by continuous reconciliation).
RetryItem(i) ==
    /\ di[i].live /\ di[i].op = "none"
    /\ Spend("retryItem")
    /\ SetItem(i, [di[i] EXCEPT !.op = "reconcile"])
    /\ UNCHANGED done

RemoveItem(i) ==
    /\ di[i].live /\ ~di[i].del
    /\ Spend("deleteItem")
    /\ SetItem(i, Deleted(di[i]))
    /\ UNCHANGED done

\* The deploy item controller: no deployer picked the item up in time.
PickupTimeout(i) ==
    /\ di[i].live /\ di[i].op = "reconcile"
    /\ ~(di[i].phase = "Failed" /\ di[i].pickup)
    /\ Spend("pickupTimeout")
    /\ SetItem(i, [di[i] EXCEPT !.phase = "Failed", !.pickup = TRUE])
    /\ UNCHANGED done

\* The deployer gives up, or the item is aborted.
ItemFails(i) ==
    /\ Working(i) \/ (PickedUp(i) /\ di[i].del /\ di[i].phase = "Init")
    /\ Spend("fail")
    /\ SetItem(i, [di[i] EXCEPT !.phase = "Failed", !.op = "none"])
    /\ UNCHANGED done

Crash ==
    /\ pc # "idle"
    /\ Spend("crash")
    /\ Restart
    /\ UNCHANGED <<server, done>>

-----------------------------------------------------------------------------
Init ==
    /\ exec = NewExecution
    /\ di = [i \in Items |-> NoItem]
    /\ next = 1
    /\ exports = [t \in Names |-> 0]
    /\ cexec = exec /\ citems = di
    /\ queued = TRUE
    /\ pc = "idle" /\ l = NewExecution /\ cur = FALSE /\ loc = Locals
    /\ budget = MaxEvents
    /\ done = {}

\* Reconcile of the execution controller, one API call after the other.
Controller ==
    \/ Get \/ ResetPhase \/ DropOperation \/ ForceReset \/ Recheck
    \/ ExportAgain \/ AddFinalizer \/ ListItems \/ LoopItem \/ EndLoop
    \/ ApplyItem \/ RecordItem \/ RemoveForce \/ Export
    \/ DeleteList \/ DeleteItem \/ RemoveFinalizer \/ HandleError

Deployer(i) ==
    \/ Pickup(i) \/ Begin(i) \/ Succeed(i) \/ Release(i)

Environment ==
    \/ \E op \in {"reconcile", "force"} : EnsureExecution(op)
    \/ DeleteExecution
    \/ \E i \in Items :
        RetryItem(i) \/ RemoveItem(i) \/ PickupTimeout(i) \/ ItemFails(i)
    \/ CallFails \/ Crash

\* The steps of the loop that call nobody read and write local variables only,
\* so no step of another actor needs to come between them.
Next ==
    \/ Controller
    \/ /\ pc # "loop"
       /\ \/ SyncExec \/ SyncItems
          \/ \E i \in Items : Deployer(i) \/ CollectGarbage(i)
          \/ Environment

\* The controller has a worker, informers deliver, deployers run: each of
\* them eventually takes a step it can take.  Nothing is assumed of users,
\* timeouts, failures and crashes.
Fairness ==
    /\ WF_vars(Controller)
    /\ WF_vars(SyncExec) /\ WF_vars(SyncItems)
    /\ \A i \in Items : /\ WF_vars(Deployer(i))
                        /\ WF_vars(CollectGarbage(i))

SafetySpec == Init /\ [][Next]_vars
Spec == SafetySpec /\ Fairness

-----------------------------------------------------------------------------
(* Types.                                                                  *)

Refs == [id : 0..MaxItems, gen : Nat]

Executions ==
    [live : BOOLEAN, gen : Nat \ {0}, del : BOOLEAN, fin : BOOLEAN, op : Ops,
     spec : [Names -> 0..MaxGen], obs : Nat, phase : Phase,
     err : {"none", "recent", "lasting"}, refs : [Names -> Refs],
     egens : [Names -> Nat], exported : BOOLEAN]

DeployItems ==
    [live : BOOLEAN, tmpl : Names, gen : Nat, spec : 0..MaxGen, op : Ops,
     del : BOOLEAN, fin : BOOLEAN, obs : Nat, phase : Phase,
     pickup : BOOLEAN, out : 0..MaxGen]

ItemCopies ==
    [id : 0..MaxItems, gen : Nat, obs : Nat, phase : Phase, pickup : BOOLEAN,
     del : BOOLEAN, out : 0..MaxGen]

LocalVars ==
    [old : [obs : Nat, phase : Phase, err : {"none", "recent", "lasting"},
            refs : [Names -> Refs], egens : [Names -> Nat], exported : BOOLEAN],
     force : BOOLEAN, tspec : [Names -> 0..MaxGen],
     items : [Names -> ItemCopies], at : 1..(Len(Order) + 1), acc : Phase,
     ref : Refs, err : BOOLEAN, touched : BOOLEAN, allDeleted : BOOLEAN]

\* The variables hold what the API types of Execution and DeployItem and the
\* local variables of Reconcile can hold.
TypeOK ==
    /\ exec \in Executions /\ cexec \in Executions /\ l \in Executions
    /\ di \in [Items -> DeployItems] /\ citems \in [Items -> DeployItems]
    /\ next \in 1..(MaxItems + 1)
    /\ exports \in [Names -> 0..MaxGen]
    /\ queued \in BOOLEAN /\ pc \in PCs /\ cur \in BOOLEAN
    /\ loc \in LocalVars
    /\ budget \in 0..MaxEvents
    /\ done \subseteq Names

-----------------------------------------------------------------------------
(* What the execution controller guarantees.                               *)

\* dependsOn orders the creation: a deploy item exists only if an item of each
\* template it depends on has succeeded before (checkRunnable), whatever the
\* caches, crashes, edits and retries do in between.
OrderedCreation ==
    \A i \in Items : di[i].live => DependsOn[di[i].tmpl] \subseteq done

\* The bookkeeping in the execution's status never runs ahead of the objects:
\* every reference names a deploy item of that template that was created,
\* with a generation it has reached, and every recorded generation of the
\* execution was one of its generations (deployOrTrigger).
BookkeepingSound ==
    /\ exec.obs <= exec.gen
    /\ \A t \in Names :
        LET ref == exec.refs[t]
        IN  /\ exec.egens[t] <= exec.gen
            /\ ref.id < next
            /\ ref.id # 0 /\ di[ref.id].live =>
                  di[ref.id].tmpl = t /\ ref.gen <= di[ref.id].gen

\* A template has one deploy item: deployOrTrigger triggers the item of a
\* template if it exists and creates another one only if it does not.
OneItemPerTemplate ==
    \A i, j \in Items :
        di[i].live /\ di[j].live /\ di[i].tmpl = di[j].tmpl => i = j

\* status.execGenerations holds the generation the execution had when it last
\* applied an item: an item recorded as up-to-date has the template's content.
RecordedGenerationApplied ==
    \A t \in Templates(exec.spec) :
        LET d == di[exec.refs[t].id]
        IN  /\ exec.live /\ exec.egens[t] = exec.gen
            /\ exec.refs[t].id # 0 /\ d.live /\ d.gen = exec.refs[t].gen
            => d.spec = exec.spec[t]

\* A Succeeded execution without an error has rolled out every template of its
\* current spec and its exports come from those deployments.
SucceededIsComplete ==
    exec.live /\ ~exec.del /\ exec.phase = "Succeeded" /\ exec.err = "none"
      /\ exec.obs = exec.gen
    => \A t \in Templates(exec.spec) :
          exec.egens[t] = exec.gen /\ exports[t] = exec.spec[t]

\* The finalizer keeps the execution until its deploy items are gone (Delete).
FinalizerProtectsItems ==
    ~exec.live => \A i \in Items : ~di[i].live

\* The deletion is done in the opposite order of the dependencies: the
\* controller deletes an item only when no item that depends on it is left.
OrderedDeletion ==
    [][\A i \in Items :
          pc = "deleteItem" /\ loc' # loc /\ di'[i] # di[i] =>
             \A j \in Items :
                di[j].live => di[i].tmpl \notin DependsOn[di[j].tmpl]]_vars

\* An execution that is to be deleted disappears, unless the deletion of one of
\* its items has failed: every item that is gone brings the controller back for
\* the next one (Owns), also when edits and other runs come in between.
DeletionCompletes ==
    exec.del ~> \/ ~exec.live
                \/ \E i \in Items : di[i].live /\ di[i].phase = "Failed"

\* When nothing happens any more an execution comes to rest in a final phase, or
\* is (being) deleted: no run is forgotten (Owns, the retries) and none repeats
\* forever.
Settles == <>[](exec.live => exec.del \/ IsCompleted(exec.phase))
=============================================================================
