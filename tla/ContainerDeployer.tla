-------------------------- MODULE ContainerDeployer --------------------------
(***************************************************************************)
(* The container deployer runs the program of a DeployItem in a pod on its *)
(* host cluster.  Two controllers of one process run the same Reconcile on *)
(* the same item: the controller of the deployer library on events of the  *)
(* item, and the pod reconciler on events of its pods, which looks neither *)
(* at the annotations nor at the phase.  A garbage collector removes the   *)
(* pods that are left over.                                                *)
(*                                                                         *)
(* Translated from pkg/deployer/container/{container_reconcile,            *)
(* container_delete,pod,reconciler_pod,cleanup,garbage_collector}.go and   *)
(* pkg/deployer/lib/{controller,utils,error}.go.                           *)
(***************************************************************************)
EXTENDS Naturals, FiniteSets, FiniteSetsExt, Phases

CONSTANTS
    MaxPods,    \* bound: how many pods are created
    MaxGen,     \* bound: generations of the item
    MaxEvents,  \* bound: how many events of the environment may happen
    Events      \* which events those are

EventKinds == {"alter", "delete", "timeout", "imageError",
               "apiError", "crash"}

ASSUME BoundsAssumption ==
    /\ MaxPods \in Nat \ {0} /\ MaxGen \in Nat \ {0} /\ MaxEvents \in Nat
    /\ Events \subseteq EventKinds

Workers == {"item", "pods"}
PodIds == 1..MaxPods

VARIABLES
    di,      \* the DeployItem in the API server
    pods,    \* the pods, numbered by their creation
    queued,  \* which of the two controllers has the item in its work queue
    pc,      \* the next call of a controller's running Reconcile
    dl,      \* the DeployItem as this run holds it
    cur,     \* dl carries the current resource version
    old,     \* phase and observed generation when the run began to start a pod
    pod,     \* the pod this run looks at, 0 for none
    pcur,    \* with its current resource version
    err,     \* this run is about to return an error
    budget   \* how many events of the environment are left

run == <<pc, dl, cur, old, pod, pcur, err>>
vars == <<di, pods, queued, pc, dl, cur, old, pod, pcur, err, budget>>

PCs == {"idle", "prepare", "annotations", "addFinalizer", "look", "createPod",
        "patchStatus", "dropOperation", "storeOutcome", "releasePod",
        "deletePod", "removeFinalizer", "handleError"}

Final == {"Succeeded", "Failed"}
Working == {"Init", "Progressing", "Deleting"}

\* asked: the operation annotation is reconcile.
NewItem == [live |-> TRUE, gen |-> 1, obs |-> 0, phase |-> NoPhase,
            asked |-> TRUE, del |-> FALSE, fin |-> FALSE]
Gone == [NewItem EXCEPT !.live = FALSE]

\* What a run remembers of the item before it starts a pod.
Before(d) == [phase |-> d.phase, obs |-> d.obs]

\* exists: the pod has not been deleted; stored: what became of it has been
\* stored in the item.
NoPod == [state |-> "none", exists |-> FALSE, fin |-> FALSE, stored |-> FALSE]
NewPod == [state |-> "running", exists |-> TRUE, fin |-> TRUE, stored |-> FALSE]

Finished(i) == pods[i].exists /\ pods[i].state \in {"succeeded", "failed"}
Started(i) == pods[i].state # "none"

\* getPod: the youngest of the pods that still have the finalizer, 0 for none.
Latest == Max({0} \cup {i \in PodIds : pods[i].fin})

-----------------------------------------------------------------------------
(* The frame of a step.                                                    *)

Spend(kind) == kind \in Events /\ budget > 0 /\ budget' = budget - 1

\* The pod in the API server of the host is not the same any more.
Changed(before, after) == after # [before EXCEPT !.stored = after.stored]

\* Mutant: the pod reconciler watches only the creation of pods.
MutantPodEvent(before, after) == before.state = "none" /\ Changed(before, after)

\* PodEventHandler: every event of a pod reconciles its item.
PodEvent(before, after) == Changed(before, after)

\* The item becomes d and the pods ps by a step of w, whose run goes on (its
\* copy is current after a patch), returns, or returns an error and is queued
\* again: the copies of others are stale, and the controllers that watch wake up.
Store(w, d, ps, then) ==
    /\ di' = d /\ pods' = ps
    /\ cur' = [v \in Workers |->
                 \/ cur[v] /\ IF v = w THEN then = "goesOn" ELSE d = di
                 \/ v = w /\ then = "patched"]
    /\ pcur' = [v \in Workers |->
                  pcur[v] /\ IF v = w THEN then \in {"goesOn", "patched"}
                             ELSE pod[v] = 0 \/ ~Changed(pods[pod[v]], ps[pod[v]])]
    /\ queued' = [v \in Workers |->
                    \/ queued[v]
                    \/ v = w /\ then = "again"
                    \/ v = "item" /\ d # di
                    \/ v = "pods" /\ \E i \in PodIds : PodEvent(pods[i], ps[i])]

At(w, p) == pc[w] = p

\* The run goes on at p with its copy d.
Goes(w, d, p) == pc' = [pc EXCEPT ![w] = p] /\ dl' = [dl EXCEPT ![w] = d]

\* The same after a write that made the item d and the pods ps.
Writes(w, d, ps, copy, p) ==
    Goes(w, copy, p) /\ Store(w, d, ps, "goesOn") /\ UNCHANGED <<old, pod, err>>

\* The run leaves with an error, through the error handler.
Leave(w, copy) ==
    /\ Goes(w, copy, "handleError") /\ Store(w, di, pods, "goesOn")
    /\ err' = [err EXCEPT ![w] = TRUE] /\ UNCHANGED <<old, pod>>

\* The run is over; after an error the item is queued again.
Return(w, d, again) ==
    /\ Goes(w, Gone, "idle") /\ Store(w, d, pods, IF again THEN "again" ELSE "returns")
    /\ old' = [old EXCEPT ![w] = Before(Gone)] /\ pod' = [pod EXCEPT ![w] = 0]
    /\ err' = [err EXCEPT ![w] = FALSE]

\* A write of the item that checks the version: one that is refused, because
\* the copy is stale or the call fails, and one that is accepted.
Refused(w) ==
    \/ ~cur[w] /\ UNCHANGED budget
    \/ cur[w] /\ Spend("apiError")
Accepted(w, d, p) == cur[w] /\ Writes(w, d, pods, d, p) /\ UNCHANGED budget

-----------------------------------------------------------------------------
(* The controller of the deployer library.                                 *)

Requested(d) == d.asked \/ d.obs # d.gen

\* ShouldReconcile; Delete of the container deployer looks at the pods like
\* its Reconcile.
Gate(d) ==
    IF d.phase \notin Working THEN "idle"
    ELSE IF ~d.del /\ ~d.fin THEN "addFinalizer" ELSE "look"

\* GetAndCheckReconcile for the pods: neither annotations nor the phase count.
Get(w) ==
    /\ At(w, "idle") /\ queued[w]
    /\ queued' = [queued EXCEPT ![w] = FALSE]
    /\ LET p == IF w = "pods" THEN "look"
                ELSE IF Requested(di) THEN "prepare" ELSE Gate(di)
       IN  IF di.live /\ p # "idle"
           THEN Goes(w, di, p) /\ cur' = [cur EXCEPT ![w] = TRUE]
           ELSE UNCHANGED <<pc, dl, cur>>
    /\ UNCHANGED <<di, pods, old, pod, pcur, err, budget>>

\* HandleAnnotationsAndGeneration: the status is prepared, and the annotation
\* removed in a second write.  The error handler is not called.
Prepare ==
    /\ At("item", "prepare")
    /\ LET d == [di EXCEPT !.obs = di.gen, !.phase = "Init"]
       IN  \/ Accepted("item", d, IF d.asked THEN "annotations" ELSE Gate(d))
           \/ Refused("item") /\ Return("item", di, TRUE)

DropAnnotation ==
    /\ At("item", "annotations")
    /\ LET d == [di EXCEPT !.asked = FALSE]
       IN  \/ Accepted("item", d, Gate(d))
           \/ Refused("item") /\ Return("item", di, TRUE)

AddFinalizer ==
    /\ At("item", "addFinalizer")
    /\ \/ Accepted("item", [di EXCEPT !.fin = TRUE], "look")
       \/ Refused("item") /\ Leave("item", dl["item"])

\* Delete of the library: the finalizer goes when Delete of the deployer has
\* returned without an error.
Done(w, d) == IF w = "item" /\ d.del /\ d.fin THEN "removeFinalizer" ELSE "handleError"

RemoveFinalizer ==
    /\ At("item", "removeFinalizer")
    /\ \/ Accepted("item", Gone, "handleError")
       \/ Refused("item") /\ Leave("item", dl["item"])

\* HandleErrorFunc: the phase of the copy is stored, also when the run failed; a
\* status that cannot be stored is forgotten.  That an error that lasts for
\* minutes turns the phase to Failed is left to DeployItem.
HandleError(w) ==
    /\ At(w, "handleError")
    /\ \/ /\ cur[w] /\ UNCHANGED budget
          /\ Return(w, [di EXCEPT !.phase = dl[w].phase], err[w])
       \/ Refused(w) /\ Return(w, di, err[w])

-----------------------------------------------------------------------------
(* Reconcile of the container deployer.                                    *)

\* Mutant: a pod is started again for an item that is already worked on.
MutantShouldRunNewPod(d) == d.phase \in Working

\* shouldRunNewPod: the generation of the pod is read from an annotation that
\* no pod has, so only the phase counts.
ShouldRunNewPod(d) == d.phase = "Init"

\* Mutant: the outcome is not read from the pod.
MutantOutcome(state) == "Succeeded"

\* Mutant: the phase of the pod is stored as it is.
MutantOutcomeAsIs(state) == state

Outcome(state) == IF state = "succeeded" THEN "Succeeded" ELSE "Failed"

Fails(w) ==
    /\ Goes(w, dl[w], "handleError") /\ err' = [err EXCEPT ![w] = TRUE]
    /\ UNCHANGED old

StillRunning(w, state) ==
    /\ state = "running"
    /\ LET d == [dl[w] EXCEPT !.phase = "Progressing"] IN Goes(w, d, Done(w, d))
    /\ UNCHANGED <<old, err, budget>>

\* podIsInErrorState
CannotStart(w, state) ==
    /\ state = "stuck"
    /\ Goes(w, [dl[w] EXCEPT !.phase = "Failed"], "storeOutcome")
    /\ UNCHANGED <<old, err, budget>>

\* The item is read again; the secrets and the service accounts of the pod
\* are written before the pod is created.
BeginPod(w, state) ==
    /\ state \notin {"running", "stuck"} /\ ShouldRunNewPod(dl[w])
    /\ \/ /\ di.live
          /\ Goes(w, dl[w], "createPod") /\ old' = [old EXCEPT ![w] = Before(di)]
          /\ UNCHANGED <<err, budget>>
       \/ ~di.live /\ Fails(w) /\ UNCHANGED budget
       \/ di.live /\ Fails(w) /\ Spend("apiError")

NothingToDo(w, state) ==
    /\ state = "none" /\ ~ShouldRunNewPod(dl[w])
    /\ Goes(w, dl[w], Done(w, dl[w])) /\ UNCHANGED <<old, err, budget>>

\* SyncExport may fail.
Complete(w, state) ==
    /\ state \in {"succeeded", "failed"} /\ ~ShouldRunNewPod(dl[w])
    /\ \/ /\ Goes(w, [dl[w] EXCEPT !.phase = Outcome(state)], "storeOutcome")
          /\ UNCHANGED <<old, err, budget>>
       \/ state = "succeeded" /\ Fails(w) /\ Spend("apiError")

\* The pods are listed and the youngest is looked at.
Look(w) ==
    /\ At(w, "look")
    /\ LET state == IF Latest = 0 THEN "none" ELSE pods[Latest].state
       IN  \/ StillRunning(w, state) \/ CannotStart(w, state)
           \/ BeginPod(w, state) \/ NothingToDo(w, state) \/ Complete(w, state)
    /\ pod' = [pod EXCEPT ![w] = Latest] /\ pcur' = [pcur EXCEPT ![w] = TRUE]
    /\ UNCHANGED <<di, pods, queued, cur>>

CreatePod(w) ==
    /\ At(w, "createPod")
    /\ \/ \E i \in PodIds :
             /\ {j \in PodIds : Started(j)} = 1..(i - 1)
             /\ Goes(w, dl[w], "patchStatus") /\ pod' = [pod EXCEPT ![w] = i]
             /\ Store(w, di, [pods EXCEPT ![i] = NewPod], "goesOn")
             /\ UNCHANGED <<old, err, budget>>
       \/ Spend("apiError") /\ Leave(w, dl[w])

\* The patch checks no version and carries only what differs from the item as
\* it was read before the pod was created.  Its answer replaces the copy, but
\* whether the library reconciles or deletes was decided before the run: dl.del
\* remains what it was.
PatchStatus(w) ==
    /\ At(w, "patchStatus")
    /\ LET phase == IF w = "item" /\ dl[w].del THEN "Deleting" ELSE "Progressing"
           d == [di EXCEPT !.phase = IF phase = old[w].phase THEN @ ELSE phase,
                           !.obs = IF dl[w].obs = old[w].obs THEN @ ELSE dl[w].obs]
           copy == [d EXCEPT !.del = dl[w].del]
       IN  \/ /\ di.live
              /\ Goes(w, copy, IF d.asked THEN "dropOperation" ELSE Done(w, copy))
              /\ Store(w, d, pods, "patched")
              /\ UNCHANGED <<old, pod, err, budget>>
           \/ /\ ~di.live /\ UNCHANGED budget
              /\ Leave(w, [dl[w] EXCEPT !.phase = phase])
           \/ /\ di.live /\ Spend("apiError")
              /\ Leave(w, [dl[w] EXCEPT !.phase = phase])

DropOperation(w) ==
    /\ At(w, "dropOperation")
    /\ LET d == [di EXCEPT !.asked = FALSE]
       IN  \/ Accepted(w, d, Done(w, dl[w]))
           \/ Refused(w) /\ Leave(w, dl[w])

\* The phase and the status of the pod are stored in the item.
StoreOutcome(w) ==
    /\ At(w, "storeOutcome")
    /\ LET d == [di EXCEPT !.phase = dl[w].phase]
       IN  \/ /\ cur[w] /\ UNCHANGED budget
              /\ Writes(w, d, [pods EXCEPT ![pod[w]].stored = TRUE], d, "releasePod")
           \/ Refused(w) /\ Leave(w, dl[w])

\* CleanupPod: the finalizer goes, then the pod.
ReleasePod(w) ==
    /\ At(w, "releasePod")
    /\ \/ /\ pcur[w] /\ UNCHANGED budget
          /\ Writes(w, di, [pods EXCEPT ![pod[w]].fin = FALSE], dl[w], "deletePod")
       \/ /\ \/ ~pcur[w] /\ UNCHANGED budget
             \/ pcur[w] /\ Spend("apiError")
          /\ Leave(w, dl[w])

\* The last error is reset; an image that cannot be pulled remains an error.
DeletePod(w) ==
    /\ At(w, "deletePod")
    /\ LET exists == pods[pod[w]].exists
           stuck == pods[pod[w]].state = "stuck"
       IN  \/ /\ exists /\ UNCHANGED <<old, pod, budget>>
              /\ Goes(w, dl[w], IF stuck THEN "handleError" ELSE Done(w, dl[w]))
              /\ Store(w, di, [pods EXCEPT ![pod[w]].exists = FALSE], "goesOn")
              /\ err' = [err EXCEPT ![w] = stuck]
           \/ /\ \/ ~exists /\ UNCHANGED budget
                 \/ exists /\ Spend("apiError")
              /\ Leave(w, dl[w])

-----------------------------------------------------------------------------
(* The garbage collector of the pods.                                      *)

\* Mutant: the pods of an item that is gone are kept.
MutantCollectable(i) == ~pods[i].fin \/ i # Latest

\* Mutant: every pod that has finished is collected.
MutantCollectableAny(i) == TRUE

\* cleanupPod, shouldGarbageCollect and isLatestPod
Collectable(i) == ~di.live \/ ~pods[i].fin \/ i # Latest

\* The finalizer goes in one call and the pod in another.
Collect(i) ==
    /\ Finished(i) /\ Collectable(i)
    /\ UNCHANGED <<pc, dl, old, pod, err, budget>>
    /\ Store("none", di,
             [pods EXCEPT ![i] = IF @.fin THEN [@ EXCEPT !.fin = FALSE]
                                 ELSE [@ EXCEPT !.exists = FALSE]], "goesOn")

-----------------------------------------------------------------------------
(* The cluster and the users.                                              *)

\* A write of somebody else.
Written(d, ps) ==
    Store("none", d, ps, "goesOn") /\ UNCHANGED <<pc, dl, old, pod, err>>

\* Timing: a pod takes longer than the calls by which the controllers take up a
\* request, start a pod for it and record the start.  (Without this each round
\* of conflicts between the two may start one more pod, without a bound.)
NoStartUnderWay ==
    /\ di.live => ~Requested(di)
    /\ \A w \in Workers : dl[w].phase # "Init"

FinishPod(i) ==
    /\ pods[i].state = "running" /\ NoStartUnderWay /\ UNCHANGED budget
    /\ \E state \in {"succeeded", "failed"} :
           Written(di, [pods EXCEPT ![i].state = state])

ImageError(i) ==
    /\ pods[i].state = "running" /\ NoStartUnderWay /\ Spend("imageError")
    /\ Written(di, [pods EXCEPT ![i].state = "stuck"])

\* The execution controller writes a new configuration, whether or not the item
\* has come to an end.  Bound: MaxGen generations.
Trigger ==
    /\ di.live /\ ~di.del /\ Spend("alter") /\ di.gen < MaxGen
    /\ Written([di EXCEPT !.gen = @ + 1, !.asked = TRUE], pods)

RequestDeletion ==
    /\ di.live /\ ~di.del /\ Spend("delete")
    /\ Written(IF di.fin THEN [di EXCEPT !.del = TRUE, !.gen = @ + 1] ELSE Gone, pods)

\* The deploy item controller gives up on the item.
Timeout ==
    /\ di.live /\ di.phase \in Working /\ Spend("timeout")
    /\ Written([di EXCEPT !.phase = "Failed"], pods)

\* The process restarts: the item and every pod are events again.
Crash ==
    /\ Spend("crash")
    /\ pc' = [w \in Workers |-> "idle"] /\ dl' = [w \in Workers |-> Gone]
    /\ old' = [w \in Workers |-> Before(Gone)] /\ pod' = [w \in Workers |-> 0]
    /\ err' = [w \in Workers |-> FALSE]
    /\ cur' = [w \in Workers |-> FALSE] /\ pcur' = [w \in Workers |-> FALSE]
    /\ queued' = [w \in Workers |-> w = "item" \/ \E i \in PodIds : pods[i].exists]
    /\ UNCHANGED <<di, pods>>

-----------------------------------------------------------------------------
(* The specification.                                                      *)

Init ==
    /\ di = NewItem /\ pods = [i \in PodIds |-> NoPod]
    /\ queued = [w \in Workers |-> w = "item"]
    /\ pc = [w \in Workers |-> "idle"] /\ dl = [w \in Workers |-> Gone]
    /\ cur = [w \in Workers |-> FALSE] /\ old = [w \in Workers |-> Before(Gone)]
    /\ pod = [w \in Workers |-> 0] /\ pcur = [w \in Workers |-> FALSE]
    /\ err = [w \in Workers |-> FALSE] /\ budget = MaxEvents

LibraryStep ==
    Prepare \/ DropAnnotation \/ AddFinalizer \/ RemoveFinalizer

Step(w) ==
    \/ Get(w) \/ Look(w) \/ CreatePod(w) \/ PatchStatus(w) \/ DropOperation(w)
    \/ StoreOutcome(w) \/ ReleasePod(w) \/ DeletePod(w) \/ HandleError(w)
    \/ w = "item" /\ LibraryStep

Cluster(i) == FinishPod(i) \/ ImageError(i) \/ Collect(i)

Next ==
    \/ \E w \in Workers : Step(w)
    \/ \E i \in PodIds : Cluster(i)
    \/ Trigger \/ RequestDeletion \/ Timeout \/ Crash

\* The workers of both controllers run, a pod comes to an end, and the garbage
\* collector sees every pod, if only when its cache is listed again.
Fairness ==
    /\ \A w \in Workers : WF_vars(Step(w))
    /\ WF_vars(\E i \in PodIds : FinishPod(i))
    /\ WF_vars(\E i \in PodIds : Collect(i))

Spec == Init /\ [][Next]_vars /\ Fairness

-----------------------------------------------------------------------------
(* Properties.                                                             *)

ItemType ==
    [live : BOOLEAN, gen : 1..(MaxGen + 1), obs : 0..(MaxGen + 1), phase : Phase,
     asked : BOOLEAN, del : BOOLEAN, fin : BOOLEAN]

PodType ==
    [state : {"none", "running", "stuck", "succeeded", "failed"},
     exists : BOOLEAN, fin : BOOLEAN, stored : BOOLEAN]

\* Every variable has a value of its type: phases stay phases of a DeployItem,
\* although what is stored is computed from the state of a pod.
TypeOK ==
    /\ di \in ItemType /\ dl \in [Workers -> ItemType]
    /\ pods \in [PodIds -> PodType] /\ pod \in [Workers -> 0..MaxPods]
    /\ pc \in [Workers -> PCs] /\ err \in [Workers -> BOOLEAN]
    /\ queued \in [Workers -> BOOLEAN] /\ cur \in [Workers -> BOOLEAN]
    /\ pcur \in [Workers -> BOOLEAN]
    /\ old \in [Workers -> [phase : Phase, obs : 0..(MaxGen + 1)]]
    /\ budget \in 0..MaxEvents

\* The first request starts one pod, and each event since then (an edit, a
\* failed call, a restart, ...) adds two at most, one by each controller, because
\* both may find the phase Init before either has recorded its start
\* (shouldRunNewPod).  No conflicts between the two start more.
FewPods ==
    Cardinality({i \in PodIds : Started(i)}) <= 1 + 2 * (MaxEvents - budget)

\* While its item lives, the pod that was started last loses its finalizer
\* only after what became of it has been stored in the item, whichever of the
\* two controllers or the garbage collector removes it, with conflicts, failing
\* calls and restarts (CleanupPod, isLatestPod).
LastOutcomeIsRecorded ==
    [][\A i \in PodIds :
           pods[i].fin /\ ~pods'[i].fin /\ di.live =>
               pods[i].stored \/ \E j \in PodIds : j > i /\ Started(j)]_vars

\* The item becomes Succeeded only if a pod of it has succeeded, although both
\* controllers write the phase, from copies of the item and of a pod that they
\* have read earlier, and the deploy item controller writes it too.
SuccessComesFromPod ==
    [][di'.live /\ di'.phase = "Succeeded" /\ di.phase # "Succeeded" =>
           \E i \in PodIds : pods[i].state = "succeeded"]_vars

\* An item that is worked on comes to its end, whatever happens to the pods and
\* between the two controllers.
RunEnds ==
    di.live /\ di.phase \in Working ~> ~di.live \/ di.phase \in Final

\* In the end no finished pod is left on the host cluster, also when its item is
\* removed, or a newer pod started, before it was looked at.
PodsEnd == <>[](\A i \in PodIds : ~Finished(i))
=============================================================================
