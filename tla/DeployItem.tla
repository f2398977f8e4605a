----------------------------- MODULE DeployItem -----------------------------
(***************************************************************************)
(* The life of one DeployItem between the three controllers that write it: *)
(* the execution controller triggers it, a deployer built on the deployer  *)
(* library works on it, and the deploy item controller of the landscaper   *)
(* watches its deadlines.  The deployer is the manifest deployer; the helm *)
(* deployer takes the same steps.                                          *)
(*                                                                         *)
(* A run of either controller is split at its API calls and at its work on *)
(* the target cluster.  Every write carries the resource version that was  *)
(* read (dcur, tcur) and is refused when the item has changed since; a     *)
(* Status().Update stores the status only, an Update everything else.      *)
(*                                                                         *)
(* Translated from pkg/deployer/lib/{controller,utils,error}.go,           *)
(* pkg/deployer/manifest/{controller,ensure}.go and                        *)
(* pkg/landscaper/controllers/deployitem/controller.go.                    *)
(***************************************************************************)
EXTENDS Naturals, Phases

CONSTANTS
    MaxGen,     \* bound: versions of the spec
    MaxEvents,  \* bound: how many events of the environment may happen
    Events,     \* which events those are
    Timeouts,   \* the timeouts that are configured, i.e. not zero
    Exports     \* the versions of the spec that ask for exports

EventKinds == {"trigger", "alter", "delete", "reconcile", "abort", "force",
               "due", "workFails", "apiError", "crash"}
Deadlines == {"pickup", "abort", "progress"}

ASSUME BoundsAssumption ==
    /\ MaxGen \in Nat \ {0} /\ MaxEvents \in Nat
    /\ Events \subseteq EventKinds
    /\ Timeouts \subseteq Deadlines
    /\ Exports \subseteq 1..MaxGen

VARIABLES
    di,       \* the DeployItem in the API server
    cluster,  \* the version of the spec that is deployed, 0 for none
    doomed,   \* the deployed resources are being deleted
    secret,   \* the version of the spec whose exports the secret holds
    due,      \* continuous reconciliation asks for a run
    dq,       \* the item is in the work queue of the deployer
    dpc,      \* the next call of the deployer's running Reconcile
    dl,       \* the DeployItem as this run holds it
    dcur,     \* dl carries the current resource version
    derr,     \* the error this run is about to return
    tq,       \* the item is in the work queue of the deploy item controller
    tpc,      \* the write its running Reconcile has decided on
    tcur,     \* that write carries the current resource version
    timer,    \* its work queue holds a delayed entry (RequeueAfter)
    budget    \* how many events of the environment are left

deployer == <<dpc, dl, dcur, derr>>
watcher == <<tpc, tcur, timer>>
target == <<cluster, doomed, secret>>
vars == <<di, cluster, doomed, secret, due, dq, dpc, dl, dcur, derr, tq, tpc,
          tcur, timer, budget>>

\* Timestamps: rts is the reconcile-time annotation, ats the abort-time
\* annotation, lrt status.lastReconcileTime.  Each is past its deadline or not.
Stamps == {"none", "fresh", "expired"}
Final == {"Succeeded", "Failed"}
Partial == MaxGen + 1

\* As the execution controller creates it.  managed: the provider status lists
\* the resources that were deployed.
NewDeployItem ==
    [live |-> TRUE, gen |-> 1, spec |-> 1, del |-> FALSE, fin |-> FALSE,
     op |-> "reconcile", rts |-> "fresh", ats |-> "none",
     obs |-> 0, phase |-> NoPhase, lrt |-> "none", err |-> "none",
     managed |-> FALSE]
Gone == [NewDeployItem EXCEPT !.live = FALSE]

-----------------------------------------------------------------------------
(* The steps of a run of the deployer.                                     *)

\* One of the bounded number of events that need not happen.
Spend(kind) == kind \in Events /\ budget > 0 /\ budget' = budget - 1

\* A change of the item is an event for both controllers and makes the copy of
\* the other one stale.
DeployerWrote(retry) ==
    /\ dq' = (dq \/ retry \/ di' # di)
    /\ tq' = (tq \/ di' # di)
    /\ tcur' = (tcur /\ di' = di)
    /\ UNCHANGED <<tpc, timer>>

DeployerReturns(retry) ==
    /\ dpc' = "idle" /\ dl' = Gone /\ dcur' = FALSE /\ derr' = "none"
    /\ DeployerWrote(retry)

Denied == (~dcur /\ UNCHANGED budget) \/ (dcur /\ Spend("apiError"))

\* A write that is accepted: its answer replaces the copy, the run goes on at p.
Accepted(d, p) ==
    /\ dcur /\ UNCHANGED budget
    /\ di' = d /\ dl' = d /\ dcur' = dcur /\ derr' = derr /\ dpc' = p
    /\ DeployerWrote(FALSE)

\* The run goes on at p with the copy d; nothing was written to the item.
Proceed(d, p) ==
    /\ dl' = d /\ dpc' = p /\ dcur' = dcur /\ derr' = derr
    /\ di' = di /\ DeployerWrote(FALSE)

\* The run leaves with an error, through the error handler.
Leave(d, e) ==
    /\ dl' = d /\ dpc' = "finish" /\ dcur' = dcur /\ derr' = e
    /\ di' = di /\ DeployerWrote(FALSE)

\* The work on the target cluster fails: with an error of the landscaper, which
\* lasts only if there was one before, or with any other error.
WorkErrors ==
    {"plain", "recent", "unrecoverable"}
        \cup (IF dl.err \in {"recent", "lasting"} THEN {"lasting"} ELSE {})

\* Mutant: the annotation is removed without starting the item.
MutantRequested(d) == d.obs # d.gen

\* HandleAnnotationsAndGeneration: is there something new to do?
Requested(d) == d.op = "reconcile" \/ d.obs # d.gen

\* Mutant: a failed item is worked on again.
MutantInWork(d) == d.phase # "Succeeded"

\* ShouldReconcile
InWork(d) == d.phase \in {"Init", "Progressing", "Deleting"}

\* Mutant: the deletion timestamp is looked at after everything else.
MutantDispatch(d) ==
    IF d.op = "abort" THEN "finish"
    ELSE IF d.op = "force" \/ d.fin THEN "apply"
    ELSE IF d.del THEN "delete" ELSE "finalizer"

\* The switch of Reconcile.  Abort is not implemented: it does nothing and
\* succeeds.  ForceReconcile does not add the finalizer.
Dispatch(d) ==
    IF d.op = "abort" THEN "finish"
    ELSE IF d.op = "force" THEN "apply"
    ELSE IF d.del THEN "delete"
    ELSE IF ~d.fin THEN "finalizer" ELSE "apply"

Gate(d) == IF InWork(d) THEN Dispatch(d) ELSE "hook"

AfterPrepare(d) ==
    IF d.op = "reconcile" \/ d.rts # "none" THEN "annotations" ELSE Gate(d)

Get ==
    /\ dpc = "idle" /\ dq
    /\ dq' = FALSE
    /\ IF di.live
       THEN /\ dl' = di /\ dcur' = TRUE /\ derr' = "none"
            /\ dpc' = IF Requested(di) THEN "prepare" ELSE AfterPrepare(di)
       ELSE UNCHANGED deployer
    /\ UNCHANGED <<di, target, due, tq, watcher, budget>>

\* PrepareReconcile
Prepared(d) ==
    [d EXCEPT !.obs = d.gen, !.phase = "Init", !.lrt = "fresh"]

Prepare ==
    /\ dpc = "prepare"
    /\ \/ Accepted(Prepared(di), AfterPrepare(Prepared(di))) /\ due' = FALSE
       \/ Denied /\ UNCHANGED <<di, due>> /\ DeployerReturns(TRUE)
    /\ UNCHANGED target

DropAnnotations ==
    /\ dpc = "annotations"
    /\ \/ LET d == [di EXCEPT !.op = IF @ = "reconcile" THEN "none" ELSE @,
                              !.rts = "none"]
          IN  Accepted(d, Gate(d))
       \/ Denied /\ UNCHANGED di /\ DeployerReturns(TRUE)
    /\ UNCHANGED <<target, due>>

\* An item in a final phase: only the hook of continuous reconciliation can
\* start it again.
ShouldReconcileHook ==
    /\ dpc = "hook"
    /\ \/ /\ ~due /\ UNCHANGED <<di, due, budget>> /\ DeployerReturns(FALSE)
       \/ /\ due /\ Accepted(Prepared(di), Dispatch(di)) /\ due' = FALSE
       \/ /\ due /\ Denied /\ UNCHANGED <<di, due>> /\ DeployerReturns(TRUE)
    /\ UNCHANGED target

AddFinalizer ==
    /\ dpc = "finalizer"
    /\ \/ Accepted([di EXCEPT !.fin = TRUE], "apply")
       \/ Denied /\ Leave(dl, "recent")
    /\ UNCHANGED <<target, due>>

\* Mutant: the errors of single resources are not looked at.
MutantApply ==
    /\ dpc = "apply"
    /\ \/ cluster' = dl.spec /\ UNCHANGED budget
       \/ cluster' = Partial /\ Spend("workFails")
    /\ Proceed([dl EXCEPT !.phase = "Progressing", !.managed = TRUE], "progress")
    /\ UNCHANGED <<doomed, secret, due>>

\* ManifestApplier.Apply.  The target cluster cannot be reached at all, or the
\* failure leaves some resources applied and the list of managed resources
\* knows of them or does not.
Apply ==
    /\ dpc = "apply"
    /\ \/ /\ cluster' = dl.spec
          /\ Proceed([dl EXCEPT !.phase = "Progressing", !.managed = TRUE],
                     "progress")
          /\ UNCHANGED budget
       \/ /\ Spend("workFails")
          /\ UNCHANGED cluster
          /\ \E e \in WorkErrors : Leave([dl EXCEPT !.phase = "Progressing"], e)
       \/ /\ Spend("workFails")
          /\ cluster' = Partial
          /\ \E e \in WorkErrors, m \in BOOLEAN :
                Leave([dl EXCEPT !.phase = "Progressing", !.managed = m], e)
    /\ UNCHANGED <<doomed, secret, due>>

\* The provider status is stored, and the phase with it.
StoreProgress ==
    /\ dpc = "progress"
    /\ \/ Accepted([di EXCEPT !.phase = "Progressing", !.managed = TRUE], "ready")
       \/ Denied /\ Leave(dl, "recent")
    /\ UNCHANGED <<target, due>>

\* CheckResourcesReady sets the phase, which is stored later.
CheckReady ==
    /\ dpc = "ready"
    /\ \/ /\ Proceed([dl EXCEPT !.phase = "Succeeded", !.err = "none"],
                     IF dl.spec \in Exports THEN "export" ELSE "finish")
          /\ UNCHANGED budget
       \/ /\ Spend("workFails")
          /\ \E e \in WorkErrors : Leave(dl, e)
    /\ UNCHANGED <<target, due>>

\* The values are read from the target cluster and written to the secret, whose
\* reference is then stored in the status.
WriteExports ==
    /\ dpc = "export"
    /\ \/ /\ secret' = dl.spec /\ Proceed(dl, "publish") /\ UNCHANGED budget
       \/ /\ Spend("workFails")
          /\ \E e \in {"recent", "unrecoverable"} : Leave(dl, e)
          /\ UNCHANGED secret
    /\ UNCHANGED <<cluster, doomed, due>>

Publish ==
    /\ dpc = "publish"
    /\ \/ Accepted([di EXCEPT !.phase = dl.phase, !.err = dl.err], "finish")
       \/ Denied /\ Leave(dl, "recent")
    /\ UNCHANGED <<target, due>>

\* Mutant: the finalizer is removed as soon as the resources are being deleted.
MutantDelete ==
    /\ dpc = "delete"
    /\ doomed' = (dl.managed /\ cluster # 0)
    /\ Proceed([dl EXCEPT !.phase = "Deleting"], "release")
    /\ UNCHANGED <<cluster, secret, due, budget>>

\* Manifest.Delete: resources that are not listed are not looked for.
Delete ==
    /\ dpc = "delete"
    /\ LET d == [dl EXCEPT !.phase = "Deleting"]
       IN  \/ /\ ~dl.managed \/ cluster = 0
              /\ Proceed(d, "release")
              /\ UNCHANGED <<doomed, budget>>
           \/ /\ dl.managed /\ cluster # 0
              /\ doomed' = TRUE
              /\ Leave(d, "plain") /\ UNCHANGED budget
           \/ /\ Spend("workFails")
              /\ \E e \in WorkErrors : Leave(d, e)
              /\ UNCHANGED doomed
    /\ UNCHANGED <<cluster, secret, due>>

RemoveFinalizer ==
    /\ dpc = "release"
    /\ \/ Accepted(Gone, "finish")
       \/ Denied /\ Leave(dl, "plain")
    /\ UNCHANGED <<target, due>>

\* HandleErrorFunc of the deployer library: a status that cannot be stored is
\* not tried again unless the run has failed anyway.
HandleError ==
    /\ dpc = "finish"
    /\ LET e == IF derr = "plain" THEN "none" ELSE derr
           p == PhaseForLastError(dl.phase, e)
       IN  \/ /\ dcur /\ di.live /\ UNCHANGED budget
              /\ di' = [di EXCEPT !.phase = p, !.err = e, !.managed = dl.managed]
           \/ /\ Denied \/ (~di.live /\ UNCHANGED budget)
              /\ UNCHANGED di
    /\ DeployerReturns(derr # "none")
    /\ UNCHANGED <<target, due>>

\* The deleted resources disappear from the target cluster.
Vanish ==
    /\ doomed
    /\ doomed' = FALSE /\ cluster' = 0
    /\ UNCHANGED <<di, secret, due, dq, deployer, tq, watcher, budget>>

-----------------------------------------------------------------------------
(* The deploy item controller: Reconcile makes at most one write.          *)

WatcherWrote(retry) ==
    /\ tq' = (tq \/ retry \/ di' # di)
    /\ dq' = (dq \/ di' # di)
    /\ dcur' = (dcur /\ di' = di)
    /\ UNCHANGED <<dpc, dl, derr>>

FailedFor(reason) == di.phase = "Failed" /\ di.err = reason

\* detectPickupTimeouts
PickupExpired ==
    "pickup" \in Timeouts /\ ~FailedFor("pickup") /\ di.rts = "expired"

\* detectAbortingTimeouts
AbortExpired ==
    /\ "abort" \in Timeouts /\ ~FailedFor("abort")
    /\ di.ats = "expired" /\ di.phase \notin Final

AbortOver ==
    /\ "abort" \in Timeouts /\ FailedFor("abort")
    /\ di.op = "abort" \/ di.ats # "none"

\* detectProgressingTimeouts; the annotation is not written again when it would
\* say the same.
ProgressExpired ==
    /\ "progress" \in Timeouts /\ di.phase \notin Final /\ di.lrt = "expired"
    /\ ~(di.op = "abort" /\ di.ats = "fresh")

\* Mutant: the item is not requeued for the aborting timeout.
MutantWaiting ==
    \/ "pickup" \in Timeouts /\ ~FailedFor("pickup") /\ di.rts = "fresh"
    \/ "progress" \in Timeouts /\ di.lrt = "fresh" /\ di.phase \notin Final

\* A deadline lies ahead: the item is requeued shortly after it.
Waiting ==
    \/ "pickup" \in Timeouts /\ ~FailedFor("pickup") /\ di.rts = "fresh"
    \/ "abort" \in Timeouts /\ di.ats = "fresh" /\ di.phase \notin Final
    \/ "progress" \in Timeouts /\ di.lrt = "fresh" /\ di.phase \notin Final

CheckDeadlines ==
    /\ tpc = "idle" /\ tq
    /\ tq' = FALSE /\ tcur' = TRUE
    /\ \/ /\ ~di.live
          /\ UNCHANGED <<tpc, timer>>
       \/ /\ di.live /\ PickupExpired
          /\ tpc' = "failPickup" /\ UNCHANGED timer
       \/ /\ di.live /\ ~PickupExpired /\ AbortExpired
          /\ tpc' = "failAbort" /\ UNCHANGED timer
       \/ /\ di.live /\ ~PickupExpired /\ ~AbortExpired
          /\ tpc' = IF AbortOver THEN "forget"
                    ELSE IF ProgressExpired THEN "cancel" ELSE "idle"
          /\ timer' = (timer \/ Waiting)
    /\ UNCHANGED <<di, target, due, dq, deployer, budget>>

\* A write with the content d; an error is returned and the item requeued.
WatcherWrites(d) ==
    /\ \/ tcur /\ di' = d /\ WatcherWrote(FALSE) /\ UNCHANGED budget
       \/ /\ \/ ~tcur /\ UNCHANGED budget
             \/ tcur /\ Spend("apiError")
          /\ UNCHANGED di /\ WatcherWrote(TRUE)
    /\ tpc' = "idle" /\ tcur' = FALSE /\ UNCHANGED timer
    /\ UNCHANGED <<target, due>>

FailPickup ==
    /\ tpc = "failPickup"
    /\ WatcherWrites([di EXCEPT !.phase = "Failed", !.err = "pickup"])

FailAbort ==
    /\ tpc = "failAbort"
    /\ WatcherWrites([di EXCEPT !.phase = "Failed", !.err = "abort"])

\* RemoveAbortOperationAndTimestamp
ForgetAbort ==
    /\ tpc = "forget"
    /\ WatcherWrites([di EXCEPT !.op = IF @ = "abort" THEN "none" ELSE @,
                                !.ats = "none"])

\* SetAbortOperationAndTimestamp
SetAbort ==
    /\ tpc = "cancel"
    /\ WatcherWrites([di EXCEPT !.op = "abort", !.ats = "fresh"])

-----------------------------------------------------------------------------
(* Time, users and the execution controller.                               *)

\* A deadline passes; the delayed entry of the work queue becomes due.
TimePasses(d) ==
    /\ tq' = (tq \/ timer) /\ timer' = FALSE
    /\ di' = d
    /\ UNCHANGED <<target, due, dq, deployer, tpc, tcur, budget>>

Expire(deadline) ==
    /\ di.live
    /\ \/ /\ deadline = "pickup" /\ di.rts = "fresh"
          /\ TimePasses([di EXCEPT !.rts = "expired"])
       \/ /\ deadline = "abort" /\ di.ats = "fresh"
          /\ TimePasses([di EXCEPT !.ats = "expired"])
       \/ /\ deadline = "progress" /\ di.lrt = "fresh"
          /\ TimePasses([di EXCEPT !.lrt = "expired"])

\* A write of somebody else.
Written(d) ==
    /\ di' = d /\ dq' = TRUE /\ tq' = TRUE /\ dcur' = FALSE /\ tcur' = FALSE
    /\ UNCHANGED <<target, due, dpc, dl, derr, tpc, timer>>

\* ApplyDeployItemTemplate of the execution controller, with the spec as it is
\* or with a new one.
Trigger ==
    /\ di.live
    /\ \/ /\ Spend("trigger")
          /\ Written([di EXCEPT !.op = "reconcile", !.rts = "fresh"])
       \/ /\ Spend("alter") /\ di.spec < MaxGen
          /\ Written([di EXCEPT !.op = "reconcile", !.rts = "fresh",
                                !.spec = @ + 1, !.gen = @ + 1])

RequestDeletion ==
    /\ di.live /\ ~di.del
    /\ Spend("delete")
    /\ Written(IF di.fin THEN [di EXCEPT !.del = TRUE, !.gen = @ + 1] ELSE Gone)

\* A user sets the operation annotation.
SetOperation(op) ==
    /\ di.live
    /\ Spend(op)
    /\ Written([di EXCEPT !.op = op])

\* The next time of the schedule of continuous reconciliation has come.
BecomesDue ==
    /\ di.live /\ ~due
    /\ Spend("due")
    /\ due' = TRUE /\ dq' = TRUE
    /\ UNCHANGED <<di, target, deployer, tq, watcher>>

\* A restarted controller finds all items in its work queue.
DeployerCrash ==
    /\ dpc # "idle"
    /\ Spend("crash")
    /\ dpc' = "idle" /\ dl' = Gone /\ dcur' = FALSE /\ derr' = "none"
    /\ dq' = TRUE
    /\ UNCHANGED <<di, target, due, tq, watcher>>

WatcherCrash ==
    /\ Spend("crash")
    /\ tpc' = "idle" /\ tcur' = FALSE /\ timer' = FALSE /\ tq' = TRUE
    /\ UNCHANGED <<di, target, due, dq, deployer>>

-----------------------------------------------------------------------------
Init ==
    /\ di = NewDeployItem
    /\ cluster = 0 /\ doomed = FALSE /\ secret = 0 /\ due = FALSE
    /\ dq = TRUE /\ dpc = "idle" /\ dl = Gone /\ dcur = FALSE /\ derr = "none"
    /\ tq = TRUE /\ tpc = "idle" /\ tcur = FALSE /\ timer = FALSE
    /\ budget = MaxEvents

Deployer ==
    \/ Get \/ Prepare \/ DropAnnotations \/ ShouldReconcileHook
    \/ AddFinalizer \/ Apply \/ StoreProgress \/ CheckReady \/ WriteExports
    \/ Publish \/ Delete \/ RemoveFinalizer \/ HandleError

Watcher ==
    CheckDeadlines \/ FailPickup \/ FailAbort \/ ForgetAbort \/ SetAbort

Environment ==
    \/ Trigger \/ RequestDeletion \/ BecomesDue \/ DeployerCrash \/ WatcherCrash
    \/ \E op \in {"reconcile", "abort", "force"} : SetOperation(op)

Next ==
    \/ Deployer \/ Watcher \/ Vanish
    \/ \E deadline \in Timeouts : Expire(deadline)
    \/ Environment

\* Time passes and the landscaper has a worker for the item.
WatcherFairness ==
    /\ WF_vars(Watcher)
    /\ \A deadline \in Timeouts : WF_vars(Expire(deadline))

\* So has the deployer, and what is deleted in the target cluster disappears.
DeployerFairness == WF_vars(Deployer) /\ WF_vars(Vanish)

SafetySpec == Init /\ [][Next]_vars
\* The deployer may hang, be scaled down or never have been installed.
UnattendedSpec == SafetySpec /\ WatcherFairness
Spec == SafetySpec /\ WatcherFairness /\ DeployerFairness

-----------------------------------------------------------------------------
(* Types.                                                                  *)

Versions == 0..Partial
DeployItems ==
    [live : BOOLEAN, gen : Nat, spec : 1..MaxGen, del : BOOLEAN,
     fin : BOOLEAN, op : {"none", "reconcile", "abort", "force"},
     rts : Stamps, ats : Stamps, obs : Nat, phase : Phase, lrt : Stamps,
     err : LastErrors \cup {"pickup", "abort"}, managed : BOOLEAN]

\* The variables hold what the API type of a DeployItem and the two runs can
\* hold.
TypeOK ==
    /\ di \in DeployItems /\ dl \in DeployItems
    /\ cluster \in Versions /\ secret \in Versions
    /\ doomed \in BOOLEAN /\ due \in BOOLEAN
    /\ dq \in BOOLEAN /\ dcur \in BOOLEAN
    /\ dpc \in {"idle", "prepare", "annotations", "hook", "finalizer", "apply",
                "progress", "ready", "export", "publish", "delete", "release",
                "finish"}
    /\ derr \in LastErrors \cup {"plain"}
    /\ tq \in BOOLEAN /\ tcur \in BOOLEAN /\ timer \in BOOLEAN
    /\ tpc \in {"idle", "failPickup", "failAbort", "forget", "cancel"}
    /\ budget \in 0..MaxEvents

-----------------------------------------------------------------------------
(* What the three controllers guarantee together.                          *)

\* When an item is reported Succeeded for its present generation, this version
\* of its spec is what is deployed, whoever changed it during the work.
SucceededIsDeployed ==
    di.live /\ di.phase = "Succeeded" /\ di.obs = di.gen /\ ~di.del
    => cluster = di.spec

\* All effects of a Succeeded item have been applied: its exports as well.
SucceededIsExported ==
    di.live /\ di.phase = "Succeeded" /\ di.obs = di.gen /\ ~di.del
      /\ di.spec \in Exports
    => secret = di.spec

\* The item goes away only when the resources listed in its status are gone.
RecordedResourcesGoFirst ==
    [][di.live /\ di.fin /\ di.managed /\ ~di'.live => cluster = 0]_vars

\* Nobody works on an item in a final phase unless it was triggered.
FinalUntilTriggered ==
    [][di.phase \in Final /\ di'.phase \notin Final /\ di'.live
        => /\ di'.phase = "Init"
           /\ Requested(di) \/ due]_vars

\* Whatever becomes of its deployer, an item does not stay in work forever.
WorkEnds ==
    di.live /\ di.phase \notin Final ~> ~di.live \/ di.phase \in Final

\* Where a deployer is at work, a reconcile request is picked up, also after the
\* pickup timeout, unless the progress timeout or a user replaces it by another
\* operation.
RequestServed ==
    DeployerFairness =>
        (di.live /\ di.op = "reconcile" ~>
            ~di.live \/ di.phase = "Init" \/ di.op \in {"abort", "force"})

\* Where a deployer is at work, an item that is to be deleted disappears, or it
\* is reported Failed and awaits a retry; a forced reconciliation, whose
\* annotation no deployer removes, stops it.
DeletionEnds ==
    DeployerFairness =>
        (di.del ~> ~di.live \/ di.phase = "Failed" \/ di.op = "force")

-----------------------------------------------------------------------------
(* The abstract specification.                                             *)

\* A request, a new generation or the schedule asks for work.
Asked == di.op = "reconcile" \/ di.obs # di.gen \/ due

\* What the item describes is deployed; nothing that its status lists is.
Applied == cluster = di.spec
Clean == ~(di.fin /\ di.managed) \/ cluster = 0

Contract == INSTANCE DeployerContract WITH
    live <- di.live, leaving <- di.del, phase <- di.phase, asked <- Asked,
    other <- di.op \in {"abort", "force"}, announced <- di.rts # "none",
    applied <- Applied, clean <- Clean

\* The deployer library, the manifest deployer and the timeouts together keep
\* what the landscaper relies on: a request is not lost, final phases are final,
\* success is reported of what is deployed, nothing listed is left behind.
ImplementsContract == Contract!Spec
=============================================================================
