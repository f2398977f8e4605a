-------------------------- MODULE DeployItemProofs ---------------------------
(***************************************************************************)
(* What is proved of the life of a DeployItem, for every number of         *)
(* versions and of events, with any timeouts: type correctness, that an    *)
(* item reported Succeeded is deployed, that recorded resources go first,  *)
(* that nobody works on an item in a final phase uninvited, and that the   *)
(* deployer library, the manifest deployer and the timeouts implement the  *)
(* deployer contract.                                                      *)
(*                                                                         *)
(* The argument is one inductive invariant.  It says what the copy a run   *)
(* of the deployer holds (dl) has to do with the stored item (di) at each  *)
(* point of the run: the run trusts its copy only as far as the resource   *)
(* version is current (dcur), and everything it has done on the target     *)
(* cluster without looking at the item again was done for dl.spec.         *)
(***************************************************************************)
EXTENDS DeployItem, TLAPS

\* The points of a run at which the deployer has decided to work on the item.
Working == {"finalizer", "apply", "progress", "ready", "export", "publish",
            "delete", "release"}

Leaving == di.del \/ ~di.live

GenerationsInv == di.obs <= di.gen

\* With a current resource version the copy has the spec of the item.
CopyInv == dcur => dl.spec = di.spec

\* Resources are deleted only for an item that is to go.
DeletionInv == doomed \/ dpc \in {"delete", "release"} => Leaving

\* During the work the item is not reported Succeeded, and as long as nobody
\* else writes it, it is in no final phase.
WorkInv ==
    /\ dpc \in Working => di.phase # "Succeeded"
    /\ dpc \in Working => (dl.phase = "Succeeded" <=> dpc \in {"export", "publish"})
    /\ dcur /\ dpc \in Working \cup {"finish"} =>
          di.phase \notin Final \/ (dpc = "finish" /\ dl.phase = "Succeeded")

\* After the apply step the version in the copy is deployed.
AppliedInv ==
    \/ dpc \in {"progress", "ready", "export", "publish"}
    \/ dpc = "finish" /\ dl.phase = "Succeeded"
    => cluster = dl.spec \/ Leaving

\* The run starts an item only when it was asked to.
PrepareInv == dpc = "prepare" /\ dcur => Requested(di)

\* The finalizer is removed when the listed resources are gone.
ReleaseInv ==
    /\ dpc \in {"delete", "release"} /\ dcur => dl.managed = di.managed
    /\ dpc = "release" /\ dl.managed => cluster = 0

RunInv ==
    /\ GenerationsInv /\ CopyInv /\ DeletionInv /\ WorkInv
    /\ AppliedInv /\ PrepareInv /\ ReleaseInv /\ SucceededIsDeployed

IInv == TypeOK /\ RunInv

-----------------------------------------------------------------------------
(* Facts about the operators the model is built from.                      *)

\* The phases the two controllers write are phases.
LEMMA PhaseFacts ==
    /\ NoPhase \in Phase
    /\ {"Init", "Progressing", "Deleting", "Succeeded", "Failed"} \subseteq Phase
BY DEF NoPhase, Phase, RunningPhases, CompletedPhases

\* An error leaves the phase as it is or turns it into Failed.
LEMMA PhaseForLastErrorFacts ==
    \A p, e : PhaseForLastError(p, e) \in {p, "Failed"}
BY DEF PhaseForLastError

Reasons == LastErrors \cup {"pickup", "abort"}

\* The fields of an item.
LEMMA ItemFields ==
    ASSUME NEW d \in DeployItems
    PROVE  /\ d.live \in BOOLEAN /\ d.del \in BOOLEAN /\ d.fin \in BOOLEAN
           /\ d.managed \in BOOLEAN /\ d.gen \in Nat /\ d.obs \in Nat
           /\ d.spec \in 1..MaxGen /\ d.phase \in Phase /\ d.err \in Reasons
           /\ d.op \in {"none", "reconcile", "abort", "force"}
           /\ d.rts \in Stamps /\ d.ats \in Stamps /\ d.lrt \in Stamps
BY DEF DeployItems, Reasons

\* What a controller may put in the place of the fields of the status.
LEMMA StatusFields ==
    ASSUME NEW d \in DeployItems, NEW p \in Phase, NEW e \in Reasons,
           NEW m \in BOOLEAN
    PROVE  /\ [d EXCEPT !.phase = p] \in DeployItems
           /\ [d EXCEPT !.phase = p, !.managed = m] \in DeployItems
           /\ [d EXCEPT !.phase = p, !.err = e] \in DeployItems
           /\ [d EXCEPT !.phase = p, !.err = e, !.managed = m] \in DeployItems
BY DEF DeployItems, Reasons

\* What a controller or a user may put in the place of the annotations.
LEMMA AnnotationFields ==
    ASSUME NEW d \in DeployItems, NEW t \in Stamps,
           NEW o \in {"none", "reconcile", "abort", "force"}
    PROVE  /\ [d EXCEPT !.op = o] \in DeployItems
           /\ [d EXCEPT !.op = o, !.rts = t] \in DeployItems
           /\ [d EXCEPT !.op = o, !.ats = t] \in DeployItems
           /\ [d EXCEPT !.rts = t] \in DeployItems
           /\ [d EXCEPT !.ats = t] \in DeployItems
           /\ [d EXCEPT !.lrt = t] \in DeployItems
BY DEF DeployItems

\* The finalizer, the mark of deletion and a new version of the spec.
LEMMA MetaFields ==
    ASSUME NEW d \in DeployItems
    PROVE  /\ [d EXCEPT !.fin = TRUE] \in DeployItems
           /\ [d EXCEPT !.del = TRUE, !.gen = @ + 1] \in DeployItems
           /\ d.spec < MaxGen =>
                 [d EXCEPT !.op = "reconcile", !.rts = "fresh", !.spec = @ + 1,
                           !.gen = @ + 1] \in DeployItems
<1>1. d.gen \in Nat /\ d.spec \in 1..MaxGen
  BY DEF DeployItems
<1>2. d.gen + 1 \in Nat
  BY <1>1
<1>3. d.spec < MaxGen => d.spec + 1 \in 1..MaxGen
  BY <1>1, BoundsAssumption
<1> QED BY <1>2, <1>3 DEF DeployItems, Stamps

\* Nothing, every version of the spec and a partly applied one are versions.
LEMMA VersionFacts == 0 \in Versions /\ Partial \in Versions /\ 1..MaxGen \subseteq Versions
BY BoundsAssumption DEF Versions, Partial

\* A new item has the type of an item.
LEMMA NewDeployItemType == NewDeployItem \in DeployItems
<1>1. 1 \in 1..MaxGen
  BY BoundsAssumption
<1> QED BY <1>1, PhaseFacts DEF NewDeployItem, DeployItems, Stamps, LastErrors

\* What is left of an item that is gone has the type of an item.
LEMMA GoneType == Gone \in DeployItems
BY NewDeployItemType DEF Gone, DeployItems

\* A started item has the type of an item.
LEMMA PreparedType ==
    ASSUME NEW d \in DeployItems
    PROVE  Prepared(d) \in DeployItems
BY PhaseFacts DEF Prepared, DeployItems, Stamps

\* Where the branches of a run lead, and for which items.
LEMMA BranchFacts ==
    ASSUME NEW d
    PROVE  /\ Dispatch(d) \in {"finish", "apply", "delete", "finalizer"}
           /\ Gate(d) \in {"finish", "apply", "delete", "finalizer", "hook"}
           /\ AfterPrepare(d) \in {"finish", "apply", "delete", "finalizer",
                                   "hook", "annotations"}
           /\ Gate(d) # "hook" => d.phase \in {"Init", "Progressing", "Deleting"}
           /\ AfterPrepare(d) \notin {"hook", "annotations"} =>
                 d.phase \in {"Init", "Progressing", "Deleting"}
           /\ Dispatch(d) = "delete" => d.del
           /\ Gate(d) = "delete" => d.del
           /\ AfterPrepare(d) = "delete" => d.del
BY DEF Dispatch, Gate, AfterPrepare, InWork

-----------------------------------------------------------------------------
(* Type correctness.                                                       *)

Points == {"idle", "prepare", "annotations", "hook", "finalizer", "apply",
           "progress", "ready", "export", "publish", "delete", "release",
           "finish"}

\* The part of the type invariant that the frame of a run takes care of.
RunType ==
    /\ di \in DeployItems /\ dl \in DeployItems
    /\ dcur \in BOOLEAN /\ dpc \in Points /\ derr \in LastErrors \cup {"plain"}
QueueType ==
    /\ dq \in BOOLEAN /\ tq \in BOOLEAN /\ tcur \in BOOLEAN
    /\ timer \in BOOLEAN
    /\ tpc \in {"idle", "failPickup", "failAbort", "forget", "cancel"}
TargetType ==
    /\ cluster \in Versions /\ secret \in Versions
    /\ doomed \in BOOLEAN /\ due \in BOOLEAN

\* The type invariant, by parts.
LEMMA TypeParts ==
    TypeOK <=> RunType /\ QueueType /\ TargetType /\ budget \in 0..MaxEvents
BY DEF TypeOK, RunType, QueueType, TargetType, Points

\* An event leaves a smaller budget.
LEMMA SpendType ==
    ASSUME budget \in 0..MaxEvents, NEW kind, Spend(kind)
    PROVE  budget' \in 0..MaxEvents
BY BoundsAssumption DEF Spend

\* The frame of a step of the deployer keeps the types.
LEMMA DeployerWroteType ==
    ASSUME QueueType, NEW retry, DeployerWrote(retry)
    PROVE  QueueType'
BY DEF QueueType, DeployerWrote

\* A write that was accepted keeps the types.
LEMMA AcceptedType ==
    ASSUME RunType, QueueType, NEW d \in DeployItems, NEW p \in Points,
           Accepted(d, p)
    PROVE  RunType' /\ QueueType'
BY DeployerWroteType DEF Accepted, RunType

\* So does a step without a write.
LEMMA ProceedType ==
    ASSUME RunType, QueueType, NEW d \in DeployItems, NEW p \in Points,
           Proceed(d, p)
    PROVE  RunType' /\ QueueType'
BY DeployerWroteType DEF Proceed, RunType

\* So does leaving with an error.
LEMMA LeaveType ==
    ASSUME RunType, QueueType, NEW d \in DeployItems,
           NEW e \in LastErrors \cup {"plain"}, Leave(d, e)
    PROVE  RunType' /\ QueueType'
BY DeployerWroteType DEF Leave, RunType, Points

\* So does the end of a run.
LEMMA ReturnsType ==
    ASSUME RunType, QueueType, NEW retry, DeployerReturns(retry),
           di' \in DeployItems
    PROVE  RunType' /\ QueueType'
BY DeployerWroteType, GoneType DEF DeployerReturns, RunType, Points, LastErrors

\* A write that was refused keeps the budget in its bounds.
LEMMA DeniedType ==
    ASSUME budget \in 0..MaxEvents, Denied
    PROVE  budget' \in 0..MaxEvents
BY SpendType DEF Denied

\* The writes of the deploy item controller keep the types.
LEMMA WatcherWritesType ==
    ASSUME RunType, QueueType, TargetType, budget \in 0..MaxEvents,
           NEW d \in DeployItems, WatcherWrites(d)
    PROVE  RunType' /\ QueueType' /\ TargetType' /\ budget' \in 0..MaxEvents
<1>1. budget' \in 0..MaxEvents
  BY SpendType DEF WatcherWrites
<1>2. di' \in DeployItems /\ UNCHANGED <<dpc, dl, derr>>
  BY DEF WatcherWrites, WatcherWrote, RunType
<1>3. QueueType' /\ dcur' \in BOOLEAN
  BY DEF WatcherWrites, WatcherWrote, QueueType
<1> QED BY <1>1, <1>2, <1>3 DEF WatcherWrites, target, RunType, TargetType

\* So do the writes of everybody else.
LEMMA WrittenType ==
    ASSUME RunType, QueueType, TargetType, NEW d \in DeployItems, Written(d)
    PROVE  RunType' /\ QueueType' /\ TargetType'
BY DEF Written, target, RunType, QueueType, TargetType

\* The inductive step, action by action.
LEMMA TypeStep == TypeOK /\ [Next]_vars => TypeOK'
<1> SUFFICES ASSUME RunType, QueueType, TargetType, budget \in 0..MaxEvents,
                    [Next]_vars
             PROVE  RunType' /\ QueueType' /\ TargetType' /\ budget' \in 0..MaxEvents
  BY TypeParts DEF TypeOK, RunType, QueueType, TargetType, Points
<1>0. di \in DeployItems /\ dl \in DeployItems
  BY DEF RunType
<1>1. CASE Get
  <2>1. (IF Requested(di) THEN "prepare" ELSE AfterPrepare(di)) \in Points
    BY BranchFacts DEF Points
  <2> QED BY <1>1, <2>1, ZenonT(40) DEF Get, deployer, target, watcher, RunType, QueueType,
                            TargetType, LastErrors
<1>2. CASE Prepare
  <2>1. Prepared(di) \in DeployItems /\ AfterPrepare(Prepared(di)) \in Points
    BY <1>0, PreparedType, BranchFacts DEF Points
  <2>2. RunType' /\ QueueType'
    BY <1>0, <1>2, <2>1, AcceptedType, ReturnsType DEF Prepare
  <2>3. budget' \in 0..MaxEvents
    BY <1>2, DeniedType DEF Prepare, Accepted
  <2> QED BY <1>2, <2>2, <2>3 DEF Prepare, target, TargetType
<1>3. CASE DropAnnotations
  <2> DEFINE d == [di EXCEPT !.op = IF @ = "reconcile" THEN "none" ELSE @,
                             !.rts = "none"]
  <2>1. d \in DeployItems /\ Gate(d) \in Points
    BY <1>0, ItemFields, AnnotationFields, BranchFacts DEF Points, Stamps
  <2> HIDE DEF d
  <2>2. RunType' /\ QueueType'
    BY <1>0, <1>3, <2>1, AcceptedType, ReturnsType DEF DropAnnotations, d
  <2>3. budget' \in 0..MaxEvents
    BY <1>3, DeniedType DEF DropAnnotations, Accepted
  <2> QED BY <1>3, <2>2, <2>3 DEF DropAnnotations, target, TargetType
<1>4. CASE ShouldReconcileHook
  <2>1. Prepared(di) \in DeployItems /\ Dispatch(di) \in Points
    BY <1>0, PreparedType, BranchFacts DEF Points
  <2>2. RunType' /\ QueueType'
    BY <1>0, <1>4, <2>1, AcceptedType, ReturnsType DEF ShouldReconcileHook
  <2>3. budget' \in 0..MaxEvents
    BY <1>4, DeniedType DEF ShouldReconcileHook, Accepted
  <2> QED BY <1>4, <2>2, <2>3 DEF ShouldReconcileHook, target, TargetType
<1>5. CASE AddFinalizer
  <2>1. RunType' /\ QueueType'
    BY <1>0, <1>5, MetaFields, AcceptedType, LeaveType DEF AddFinalizer, Points, LastErrors
  <2>2. budget' \in 0..MaxEvents
    BY <1>5, DeniedType DEF AddFinalizer, Accepted
  <2> QED BY <1>5, <2>1, <2>2 DEF AddFinalizer, target, TargetType
<1>6. CASE Apply
  <2>1. \A m \in BOOLEAN :
           [dl EXCEPT !.phase = "Progressing", !.managed = m] \in DeployItems
    BY <1>0, StatusFields, PhaseFacts DEF Reasons, LastErrors
  <2>0. [dl EXCEPT !.phase = "Progressing"] \in DeployItems
    BY <1>0, StatusFields, PhaseFacts DEF Reasons, LastErrors
  <2>2. WorkErrors \subseteq LastErrors \cup {"plain"}
    BY DEF WorkErrors, LastErrors
  <2>3. RunType' /\ QueueType'
    BY <1>6, <2>0, <2>1, <2>2, ProceedType, LeaveType DEF Apply, Points
  <2>4. budget' \in 0..MaxEvents
    BY <1>6, SpendType DEF Apply
  <2>5. cluster' \in Versions
    BY <1>0, <1>6, ItemFields, VersionFacts DEF Apply, TargetType
  <2> QED BY <1>6, <2>3, <2>4, <2>5 DEF Apply, TargetType
<1>7. CASE StoreProgress
  <2>1. [di EXCEPT !.phase = "Progressing", !.managed = TRUE] \in DeployItems
    BY <1>0, StatusFields, PhaseFacts DEF Reasons, LastErrors
  <2>2. RunType' /\ QueueType'
    BY <1>0, <1>7, <2>1, AcceptedType, LeaveType DEF StoreProgress, Points, LastErrors
  <2>3. budget' \in 0..MaxEvents
    BY <1>7, DeniedType DEF StoreProgress, Accepted
  <2> QED BY <1>7, <2>2, <2>3 DEF StoreProgress, target, TargetType
<1>8. CASE CheckReady
  <2>1. [dl EXCEPT !.phase = "Succeeded", !.err = "none"] \in DeployItems
    BY <1>0, StatusFields, PhaseFacts DEF Reasons, LastErrors
  <2>2. WorkErrors \subseteq LastErrors \cup {"plain"}
    BY DEF WorkErrors, LastErrors
  <2>3. RunType' /\ QueueType'
    BY <1>0, <1>8, <2>1, <2>2, ProceedType, LeaveType DEF CheckReady, Points
  <2>4. budget' \in 0..MaxEvents
    BY <1>8, SpendType DEF CheckReady
  <2> QED BY <1>8, <2>3, <2>4 DEF CheckReady, target, TargetType
<1>9. CASE WriteExports
  <2>1. RunType' /\ QueueType'
    BY <1>0, <1>9, ProceedType, LeaveType DEF WriteExports, Points, LastErrors
  <2>2. budget' \in 0..MaxEvents
    BY <1>9, SpendType DEF WriteExports
  <2>3. secret' \in Versions
    BY <1>0, <1>9, ItemFields, VersionFacts DEF WriteExports, TargetType
  <2> QED BY <1>9, <2>1, <2>2, <2>3 DEF WriteExports, TargetType
<1>10. CASE Publish
  <2>1. [di EXCEPT !.phase = dl.phase, !.err = dl.err] \in DeployItems
    BY <1>0, ItemFields, StatusFields
  <2>2. RunType' /\ QueueType'
    BY <1>0, <1>10, <2>1, AcceptedType, LeaveType DEF Publish, Points, LastErrors
  <2>3. budget' \in 0..MaxEvents
    BY <1>10, DeniedType DEF Publish, Accepted
  <2> QED BY <1>10, <2>2, <2>3 DEF Publish, target, TargetType
<1>11. CASE Delete
  <2>1. [dl EXCEPT !.phase = "Deleting"] \in DeployItems
    BY <1>0, StatusFields, PhaseFacts DEF Reasons, LastErrors
  <2>2. WorkErrors \subseteq LastErrors \cup {"plain"}
    BY DEF WorkErrors, LastErrors
  <2>3. RunType' /\ QueueType'
    BY <1>11, <2>1, <2>2, ProceedType, LeaveType DEF Delete, Points
  <2>4. budget' \in 0..MaxEvents
    BY <1>11, SpendType DEF Delete
  <2> QED BY <1>11, <2>3, <2>4 DEF Delete, TargetType
<1>12. CASE RemoveFinalizer
  <2>1. RunType' /\ QueueType'
    BY <1>0, <1>12, GoneType, AcceptedType, LeaveType DEF RemoveFinalizer, Points
  <2>2. budget' \in 0..MaxEvents
    BY <1>12, DeniedType DEF RemoveFinalizer, Accepted
  <2> QED BY <1>12, <2>1, <2>2 DEF RemoveFinalizer, target, TargetType
<1>13. CASE HandleError
  <2> DEFINE e == IF derr = "plain" THEN "none" ELSE derr
             p == PhaseForLastError(dl.phase, e)
  <2>1. e \in Reasons
    BY DEF RunType, LastErrors, Reasons
  <2>2. p \in Phase
    BY <1>0, ItemFields, PhaseFacts, PhaseForLastErrorFacts
  <2>3. [di EXCEPT !.phase = p, !.err = e, !.managed = dl.managed] \in DeployItems
    BY <1>0, <2>1, <2>2, ItemFields, StatusFields
  <2> HIDE DEF e, p
  <2>4. di' \in DeployItems
    BY <1>0, <1>13, <2>3 DEF HandleError, e, p
  <2>5. RunType' /\ QueueType'
    BY <1>13, <2>4, ReturnsType DEF HandleError
  <2>6. budget' \in 0..MaxEvents
    BY <1>13, DeniedType DEF HandleError
  <2> QED BY <1>13, <2>5, <2>6 DEF HandleError, target, TargetType
<1>14. CASE Vanish
  BY <1>14, VersionFacts
     DEF Vanish, deployer, watcher, RunType, QueueType, TargetType
<1>15. CASE CheckDeadlines
  <2>1. QueueType'
    BY <1>15, Zenon DEF CheckDeadlines, QueueType
  <2> QED BY <1>15, <2>1 DEF CheckDeadlines, deployer, target, RunType, TargetType
<1>16. CASE FailPickup \/ FailAbort \/ ForgetAbort \/ SetAbort
  <2>1. /\ [di EXCEPT !.phase = "Failed", !.err = "pickup"] \in DeployItems
        /\ [di EXCEPT !.phase = "Failed", !.err = "abort"] \in DeployItems
        /\ [di EXCEPT !.op = IF @ = "abort" THEN "none" ELSE @,
                      !.ats = "none"] \in DeployItems
        /\ [di EXCEPT !.op = "abort", !.ats = "fresh"] \in DeployItems
    BY <1>0, ItemFields, StatusFields, AnnotationFields, PhaseFacts DEF Reasons, Stamps
  <2> QED BY <1>16, <2>1, WatcherWritesType DEF FailPickup, FailAbort, ForgetAbort, SetAbort
<1>17. CASE \E deadline \in Timeouts : Expire(deadline)
  <2>1. di' \in DeployItems
    BY <1>0, <1>17, AnnotationFields, ZenonT(40) DEF Expire, TimePasses, Stamps
  <2>2. QueueType'
    BY <1>17 DEF Expire, TimePasses, QueueType
  <2> QED BY <1>17, <2>1, <2>2 DEF Expire, TimePasses, target, deployer, RunType, TargetType
<1>18. CASE Trigger
  <2>1. [di EXCEPT !.op = "reconcile", !.rts = "fresh"] \in DeployItems
    BY <1>0, AnnotationFields DEF Stamps
  <2>3. RunType' /\ QueueType' /\ TargetType'
    BY <1>0, <1>18, <2>1, MetaFields, WrittenType DEF Trigger
  <2> QED BY <1>18, <2>3, SpendType DEF Trigger
<1>19. CASE RequestDeletion
  <2>1. RunType' /\ QueueType' /\ TargetType'
    BY <1>0, <1>19, MetaFields, GoneType, WrittenType DEF RequestDeletion
  <2> QED BY <1>19, <2>1, SpendType DEF RequestDeletion
<1>20. CASE \E op \in {"reconcile", "abort", "force"} : SetOperation(op)
  <2>1. RunType' /\ QueueType' /\ TargetType'
    BY <1>0, <1>20, AnnotationFields, WrittenType DEF SetOperation, Stamps
  <2> QED BY <1>20, <2>1, SpendType DEF SetOperation
<1>21. CASE BecomesDue \/ DeployerCrash \/ WatcherCrash
  <2>1. budget' \in 0..MaxEvents
    BY <1>21, SpendType DEF BecomesDue, DeployerCrash, WatcherCrash
  <2>2. CASE BecomesDue
    BY <2>1, <2>2 DEF BecomesDue, target, deployer, watcher, RunType, QueueType, TargetType
  <2>3. CASE DeployerCrash
    BY <2>1, <2>3, GoneType
       DEF DeployerCrash, target, watcher, RunType, QueueType, TargetType, Points, LastErrors
  <2>4. CASE WatcherCrash
    BY <2>1, <2>4 DEF WatcherCrash, target, deployer, RunType, QueueType, TargetType
  <2> QED BY <1>21, <2>2, <2>3, <2>4
<1>22. CASE UNCHANGED vars
  BY <1>22 DEF vars, RunType, QueueType, TargetType
<1> QED
  BY <1>1, <1>2, <1>3, <1>4, <1>5, <1>6, <1>7, <1>8, <1>9, <1>10, <1>11, <1>12,
     <1>13, <1>14, <1>15, <1>16, <1>17, <1>18, <1>19, <1>20, <1>21, <1>22, Zenon
     DEF Next, Deployer, Watcher, Environment

-----------------------------------------------------------------------------
(* The invariant.                                                          *)

\* A new item that no run has looked at satisfies the invariant.
LEMMA InitInv == Init => IInv
<1> SUFFICES ASSUME Init PROVE IInv
  OBVIOUS
<1>1. NewDeployItem \in DeployItems
  BY NewDeployItemType
<1>2. TypeOK
  <2>1. RunType /\ QueueType
    BY <1>1, GoneType DEF Init, RunType, QueueType, Points, LastErrors
  <2>2. TargetType
    BY VersionFacts DEF Init, TargetType
  <2>3. budget \in 0..MaxEvents
    BY BoundsAssumption DEF Init
  <2> QED BY <2>1, <2>2, <2>3, TypeParts
<1>3. /\ dpc = "idle" /\ ~dcur /\ ~doomed
      /\ di.obs = 0 /\ di.gen = 1 /\ di.phase = NoPhase
  BY DEF Init, NewDeployItem
<1>4. GenerationsInv
  BY <1>3 DEF GenerationsInv
<1>5. CopyInv /\ DeletionInv /\ PrepareInv
  BY <1>3 DEF CopyInv, DeletionInv, PrepareInv
<1>6. WorkInv /\ AppliedInv /\ ReleaseInv
  BY <1>3 DEF WorkInv, AppliedInv, ReleaseInv, Working
<1>7. SucceededIsDeployed
  BY <1>3 DEF SucceededIsDeployed
<1> QED BY <1>2, <1>4, <1>5, <1>6, <1>7 DEF IInv, RunInv

\* A step that concerns neither the deployer's run nor the target cluster, and
\* of the item only what the invariant does not speak about.
LEMMA Undisturbed ==
    ASSUME IInv, UNCHANGED <<dpc, dl, cluster>>,
           dcur' => dcur,
           doomed' => doomed,
           \/ di' = di
           \/ /\ ~dcur' /\ ~di'.live /\ di'.obs <= di'.gen /\ di'.phase = NoPhase
           \/ /\ ~dcur' /\ di'.obs = di.obs /\ (di'.live <=> di.live)
              /\ di'.phase \in {di.phase, "Failed"}
              /\ di.del => di'.del
              /\ di'.gen \in Nat /\ di.gen <= di'.gen
              /\ di'.spec = di.spec \/ di.gen < di'.gen
           \/ /\ di'.obs = di.obs /\ (di'.live <=> di.live) /\ di'.phase = di.phase
              /\ (di'.del <=> di.del) /\ di'.gen = di.gen /\ di'.spec = di.spec
              /\ di'.op = di.op /\ di'.managed = di.managed
    PROVE  RunInv'
<1> USE DEF IInv, RunInv
<1>0. di \in DeployItems /\ dl \in DeployItems
  BY DEF TypeOK
<1>1. di.gen \in Nat /\ di.obs \in Nat
  BY <1>0, ItemFields
<1>2. GenerationsInv' /\ CopyInv' /\ DeletionInv' /\ PrepareInv' /\ ReleaseInv'
  BY <1>1 DEF GenerationsInv, CopyInv, DeletionInv, PrepareInv, ReleaseInv, Leaving, Requested
<1>3. WorkInv'
  BY DEF WorkInv, NoPhase
<1>4. AppliedInv'
  BY DEF AppliedInv, Leaving
<1>5. SucceededIsDeployed'
  BY <1>1 DEF SucceededIsDeployed, GenerationsInv, NoPhase
<1> QED BY <1>2, <1>3, <1>4, <1>5

\* A run returns without having written the item or the cluster.
LEMMA Returned ==
    ASSUME IInv, UNCHANGED <<di, cluster, doomed>>, NEW retry, DeployerReturns(retry)
    PROVE  RunInv'
<1>1. dpc' = "idle" /\ ~dcur'
  BY DEF DeployerReturns
<1>2. GenerationsInv' /\ SucceededIsDeployed'
  BY DEF IInv, RunInv, GenerationsInv, SucceededIsDeployed
<1>3. CopyInv' /\ DeletionInv' /\ PrepareInv'
  BY <1>1 DEF IInv, RunInv, CopyInv, DeletionInv, PrepareInv, Leaving
<1>4. WorkInv' /\ AppliedInv' /\ ReleaseInv'
  BY <1>1 DEF WorkInv, AppliedInv, ReleaseInv, Working
<1> QED BY <1>2, <1>3, <1>4 DEF RunInv

\* A run has stored a started item and goes on to any point before the work on
\* the target cluster is done.
LEMMA Started ==
    ASSUME IInv, TypeOK', dl' = di', UNCHANGED <<cluster, doomed>>,
           di'.phase = "Init", di'.obs = di'.gen, di'.del = di.del, di'.live = di.live,
           dpc' \in {"finish", "apply", "delete", "finalizer", "hook", "annotations"},
           dpc' = "delete" => di'.del
    PROVE  RunInv'
<1>0. di'.gen \in Nat
  BY ItemFields DEF TypeOK
<1>1. GenerationsInv' /\ SucceededIsDeployed'
  BY <1>0 DEF GenerationsInv, SucceededIsDeployed
<1>2. CopyInv' /\ PrepareInv' /\ ReleaseInv'
  BY DEF CopyInv, PrepareInv, ReleaseInv
<1>3. DeletionInv'
  BY DEF IInv, RunInv, DeletionInv, Leaving
<1>4. WorkInv' /\ AppliedInv'
  BY DEF WorkInv, AppliedInv, Working, Final
<1> QED BY <1>1, <1>2, <1>3, <1>4 DEF RunInv

\* A run ends its work, or gives it up, and goes to the error handler.
LEMMA Left ==
    ASSUME IInv, dpc \in Working, NEW d, NEW e, Leave(d, e) \/ Proceed(d, "finish"),
           d.spec = dl.spec,
           doomed' => Leaving,
           \/ d.phase # "Succeeded"
           \/ (d.phase = dl.phase \/ dpc = "ready") /\ cluster' = cluster,
           cluster' = cluster \/ dpc = "apply"
    PROVE  RunInv'
<1> USE DEF IInv, RunInv
<1>1. dl' = d /\ dpc' = "finish" /\ UNCHANGED <<di, dcur>>
  BY DEF Leave, Proceed
<1>2. GenerationsInv' /\ CopyInv' /\ PrepareInv' /\ ReleaseInv'
  BY <1>1 DEF GenerationsInv, CopyInv, PrepareInv, ReleaseInv
<1>3. DeletionInv'
  BY <1>1 DEF DeletionInv, Leaving
<1>4. WorkInv'
  BY <1>1 DEF WorkInv, Working
<1>5. AppliedInv'
  BY <1>1 DEF AppliedInv, WorkInv, Leaving, Working
<1>6. SucceededIsDeployed'
  BY <1>1 DEF SucceededIsDeployed, WorkInv
<1> QED BY <1>2, <1>3, <1>4, <1>5, <1>6

\* A run goes on without having written the item.
LEMMA WentOn ==
    ASSUME IInv, dpc \in Working, NEW d, NEW p \in Working, Proceed(d, p),
           d.spec = dl.spec, UNCHANGED doomed,
           p \in {"delete", "release"} => p = "release" /\ dpc = "delete" /\ d.managed = dl.managed,
           p = "release" /\ d.managed => cluster' = 0,
           d.phase = "Succeeded" <=> p \in {"export", "publish"},
           p \in {"progress", "export", "publish", "release"},
           p = "progress" => cluster' = dl.spec,
           p = "export" => dpc = "ready", p = "publish" => dpc = "export",
           cluster' = cluster \/ dpc = "apply"
    PROVE  RunInv'
<1> USE DEF IInv, RunInv
<1>1. dl' = d /\ dpc' = p /\ UNCHANGED <<di, dcur>>
  BY DEF Proceed
<1>2. GenerationsInv' /\ CopyInv' /\ PrepareInv'
  BY <1>1 DEF GenerationsInv, CopyInv, PrepareInv
<1>3. DeletionInv' /\ ReleaseInv'
  BY <1>1 DEF DeletionInv, ReleaseInv, Leaving
<1>4. WorkInv'
  BY <1>1 DEF WorkInv, Working
<1>5. AppliedInv'
  BY <1>1 DEF AppliedInv, Leaving, Working
<1>6. SucceededIsDeployed'
  BY <1>1 DEF SucceededIsDeployed, WorkInv
<1> QED BY <1>2, <1>3, <1>4, <1>5, <1>6

\* A run of the deployer begins, ends or reaches another point, and the item
\* is written at most with its own resource version.
LEMMA DeployerStep ==
    ASSUME IInv, TypeOK', Deployer
    PROVE  RunInv'
<1> USE DEF IInv, RunInv
<1>0. di \in DeployItems /\ dl \in DeployItems
  BY DEF TypeOK
<1>1. di.gen \in Nat /\ di.obs \in Nat
  BY <1>0, ItemFields
<1>2. CASE Get
  <2>1. UNCHANGED <<di, cluster, doomed>>
    BY <1>2 DEF Get, target
  <2>2. CASE ~di.live
    BY <1>2, <2>1, <2>2, Undisturbed DEF Get, deployer
  <2>3. CASE di.live
    <3>1. /\ dl' = di /\ dcur'
          /\ dpc' = IF Requested(di) THEN "prepare" ELSE AfterPrepare(di)
      BY <1>2, <2>3 DEF Get
    <3>2. /\ dpc' \in {"prepare", "finish", "apply", "delete", "finalizer", "hook",
                       "annotations"}
          /\ dpc' = "prepare" => Requested(di)
          /\ dpc' = "delete" => di.del
          /\ dpc' \in {"finish", "apply", "delete", "finalizer"} =>
                di.phase \in {"Init", "Progressing", "Deleting"}
      BY <3>1, BranchFacts
    <3> QED BY <2>1, <3>1, <3>2
       DEF GenerationsInv, CopyInv, DeletionInv, WorkInv, AppliedInv, PrepareInv,
           ReleaseInv, SucceededIsDeployed, Leaving, Working, Final, Requested
  <2> QED BY <2>2, <2>3
<1>3. CASE Prepare
  <2>1. CASE DeployerReturns(TRUE) /\ UNCHANGED di
    BY <1>3, <2>1, Returned DEF Prepare, target
  <2>2. CASE Accepted(Prepared(di), AfterPrepare(Prepared(di)))
    <3>1. /\ di' = Prepared(di) /\ dl' = di' /\ UNCHANGED <<cluster, doomed>>
          /\ dpc' = AfterPrepare(di')
      BY <1>3, <2>2 DEF Prepare, Accepted, target
    <3>2. di'.obs = di'.gen /\ di'.phase = "Init" /\ di'.del = di.del /\ di'.live = di.live
      BY <1>0, <3>1 DEF Prepared, DeployItems
    <3>3. /\ dpc' \in {"finish", "apply", "delete", "finalizer", "hook", "annotations"}
          /\ dpc' = "delete" => di'.del
      BY <3>1, BranchFacts
    <3> QED BY <3>1, <3>2, <3>3, Started
  <2> QED BY <1>3, <2>1, <2>2 DEF Prepare
<1>4. CASE DropAnnotations
  <2> DEFINE d == [di EXCEPT !.op = IF @ = "reconcile" THEN "none" ELSE @,
                             !.rts = "none"]
  <2>1. CASE DeployerReturns(TRUE) /\ UNCHANGED di
    BY <1>4, <2>1, Returned DEF DropAnnotations, target
  <2>2. CASE Accepted(d, Gate(d))
    <3>1. /\ di' = d /\ dl' = di' /\ UNCHANGED <<cluster, doomed>>
          /\ dpc' = Gate(di')
      BY <1>4, <2>2 DEF DropAnnotations, Accepted, target
    <3>2. /\ di'.obs = di.obs /\ di'.gen = di.gen /\ di'.phase = di.phase
          /\ di'.spec = di.spec /\ di'.del = di.del /\ di'.live = di.live
      BY <1>0, <3>1 DEF DeployItems
    <3> HIDE DEF d
    <3>3. /\ dpc' \in {"finish", "apply", "delete", "finalizer", "hook"}
          /\ dpc' = "delete" => di'.del
          /\ dpc' # "hook" => di'.phase \in {"Init", "Progressing", "Deleting"}
      BY <3>1, BranchFacts
    <3> QED BY <1>1, <3>1, <3>2, <3>3
       DEF GenerationsInv, CopyInv, DeletionInv, WorkInv, AppliedInv, PrepareInv,
           ReleaseInv, SucceededIsDeployed, Leaving, Working, Final
  <2> QED BY <1>4, <2>1, <2>2 DEF DropAnnotations
<1>5. CASE ShouldReconcileHook
  <2>1. CASE UNCHANGED di /\ \E retry \in BOOLEAN : DeployerReturns(retry)
    BY <1>5, <2>1, Returned DEF ShouldReconcileHook, target
  <2>2. CASE Accepted(Prepared(di), Dispatch(di))
    <3>1. /\ di' = Prepared(di) /\ dl' = di' /\ UNCHANGED <<cluster, doomed>>
          /\ dpc' = Dispatch(di)
      BY <1>5, <2>2 DEF ShouldReconcileHook, Accepted, target
    <3>2. di'.obs = di'.gen /\ di'.phase = "Init" /\ di'.del = di.del /\ di'.live = di.live
      BY <1>0, <3>1 DEF Prepared, DeployItems
    <3>3. dpc' \in {"finish", "apply", "delete", "finalizer"} /\ (dpc' = "delete" => di.del)
      BY <3>1, BranchFacts
    <3> QED BY <3>1, <3>2, <3>3, Started
  <2> QED BY <1>5, <2>1, <2>2 DEF ShouldReconcileHook
<1>6. CASE AddFinalizer
  <2>1. dpc = "finalizer" /\ dpc \in Working /\ UNCHANGED <<cluster, doomed>>
    BY <1>6 DEF AddFinalizer, target, Working
  <2>2. CASE Leave(dl, "recent")
    BY <2>1, <2>2, Left DEF DeletionInv
  <2>3. CASE Accepted([di EXCEPT !.fin = TRUE], "apply")
    <3>1. /\ di' = [di EXCEPT !.fin = TRUE] /\ dl' = di' /\ dpc' = "apply" /\ dcur /\ dcur'
      BY <2>3 DEF Accepted
    <3>2. /\ di'.obs = di.obs /\ di'.gen = di.gen /\ di'.phase = di.phase
          /\ di'.spec = di.spec /\ di'.del = di.del /\ di'.live = di.live
      BY <1>0, <3>1 DEF DeployItems
    <3> QED BY <2>1, <3>1, <3>2
       DEF GenerationsInv, CopyInv, DeletionInv, WorkInv, AppliedInv, PrepareInv,
           ReleaseInv, SucceededIsDeployed, Leaving, Working
  <2> QED BY <1>6, <2>2, <2>3 DEF AddFinalizer
<1>7. CASE Apply
  <2>1. dpc = "apply" /\ dpc \in Working /\ UNCHANGED doomed
    BY <1>7 DEF Apply, Working
  <2>2. \A m \in BOOLEAN :
          LET d == [dl EXCEPT !.phase = "Progressing", !.managed = m]
          IN  d.spec = dl.spec /\ d.phase = "Progressing"
    BY <1>0 DEF DeployItems
  <2>3. LET d == [dl EXCEPT !.phase = "Progressing"]
        IN  d.spec = dl.spec /\ d.phase = "Progressing"
    BY <1>0 DEF DeployItems
  <2>4. CASE Proceed([dl EXCEPT !.phase = "Progressing", !.managed = TRUE], "progress")
             /\ cluster' = dl.spec
    BY <2>1, <2>2, <2>4, WentOn DEF Working
  <2>5. CASE \E e \in WorkErrors, m \in BOOLEAN :
                Leave([dl EXCEPT !.phase = "Progressing", !.managed = m], e)
    BY <2>1, <2>2, <2>5, Left DEF DeletionInv
  <2>6. CASE UNCHANGED cluster /\ \E e : Leave([dl EXCEPT !.phase = "Progressing"], e)
    BY <2>1, <2>3, <2>6, Left DEF DeletionInv
  <2> QED BY <1>7, <2>4, <2>5, <2>6 DEF Apply
<1>8. CASE StoreProgress
  <2>1. dpc = "progress" /\ dpc \in Working /\ UNCHANGED <<cluster, doomed>>
    BY <1>8 DEF StoreProgress, target, Working
  <2>2. CASE Leave(dl, "recent")
    BY <2>1, <2>2, Left DEF DeletionInv
  <2>3. CASE Accepted([di EXCEPT !.phase = "Progressing", !.managed = TRUE], "ready")
    <3>1. /\ di' = [di EXCEPT !.phase = "Progressing", !.managed = TRUE]
          /\ dl' = di' /\ dpc' = "ready" /\ dcur /\ dcur'
      BY <2>3 DEF Accepted
    <3>2. /\ di'.obs = di.obs /\ di'.gen = di.gen /\ di'.phase = "Progressing"
          /\ di'.spec = di.spec /\ di'.del = di.del /\ di'.live = di.live
      BY <1>0, <3>1 DEF DeployItems
    <3> QED BY <2>1, <3>1, <3>2
       DEF GenerationsInv, CopyInv, DeletionInv, WorkInv, AppliedInv, PrepareInv,
           ReleaseInv, SucceededIsDeployed, Leaving, Working, Final
  <2> QED BY <1>8, <2>2, <2>3 DEF StoreProgress
<1>9. CASE CheckReady
  <2>1. dpc = "ready" /\ dpc \in Working /\ UNCHANGED <<cluster, doomed>>
    BY <1>9 DEF CheckReady, target, Working
  <2>2. CASE \E e \in WorkErrors : Leave(dl, e)
    BY <2>1, <2>2, Left DEF DeletionInv
  <2> DEFINE d == [dl EXCEPT !.phase = "Succeeded", !.err = "none"]
  <2>3. d.spec = dl.spec /\ d.phase = "Succeeded"
    BY <1>0 DEF DeployItems
  <2> HIDE DEF d
  <2>4. CASE Proceed(d, "export")
    BY <2>1, <2>3, <2>4, WentOn DEF Working
  <2>5. CASE Proceed(d, "finish")
    BY <2>1, <2>3, <2>5, Left DEF DeletionInv
  <2> QED BY <1>9, <2>2, <2>4, <2>5 DEF CheckReady, d
<1>10. CASE WriteExports
  <2>1. dpc = "export" /\ dpc \in Working /\ UNCHANGED <<cluster, doomed>>
    BY <1>10 DEF WriteExports, Working
  <2>2. CASE \E e \in {"recent", "unrecoverable"} : Leave(dl, e)
    BY <2>1, <2>2, Left DEF DeletionInv
  <2>3. CASE Proceed(dl, "publish")
    BY <2>1, <2>3, WentOn DEF Working, WorkInv
  <2> QED BY <1>10, <2>2, <2>3 DEF WriteExports
<1>11. CASE Publish
  <2>1. dpc = "publish" /\ dpc \in Working /\ UNCHANGED <<cluster, doomed>>
    BY <1>11 DEF Publish, target, Working
  <2>2. CASE Leave(dl, "recent")
    BY <2>1, <2>2, Left DEF DeletionInv
  <2>3. CASE Accepted([di EXCEPT !.phase = dl.phase, !.err = dl.err], "finish")
    <3>1. /\ di' = [di EXCEPT !.phase = dl.phase, !.err = dl.err]
          /\ dl' = di' /\ dpc' = "finish" /\ dcur /\ dcur'
      BY <2>3 DEF Accepted
    <3>2. /\ di'.obs = di.obs /\ di'.gen = di.gen /\ di'.phase = dl.phase
          /\ di'.spec = di.spec /\ di'.del = di.del /\ di'.live = di.live
      BY <1>0, <3>1 DEF DeployItems
    <3>3. dl.phase = "Succeeded"
      BY <2>1 DEF WorkInv
    <3>4. cluster = dl.spec \/ Leaving
      BY <2>1 DEF AppliedInv
    <3> QED BY <2>1, <3>1, <3>2, <3>3, <3>4
       DEF GenerationsInv, CopyInv, DeletionInv, WorkInv, AppliedInv, PrepareInv,
           ReleaseInv, SucceededIsDeployed, Leaving, Working, Final
  <2> QED BY <1>11, <2>2, <2>3 DEF Publish
<1>12. CASE Delete
  <2> DEFINE d == [dl EXCEPT !.phase = "Deleting"]
  <2>1. dpc = "delete" /\ dpc \in Working /\ UNCHANGED cluster /\ Leaving
    BY <1>12 DEF Delete, Working, DeletionInv
  <2>2. d.spec = dl.spec /\ d.phase = "Deleting" /\ d.managed = dl.managed
    BY <1>0 DEF DeployItems
  <2> HIDE DEF d
  <2>3. CASE \E e : Leave(d, e)
    BY <2>1, <2>2, <2>3, Left
  <2>4. CASE Proceed(d, "release") /\ (~dl.managed \/ cluster = 0) /\ UNCHANGED doomed
    BY <2>1, <2>2, <2>4, WentOn DEF Working
  <2> QED BY <1>12, <2>3, <2>4 DEF Delete, d
<1>13. CASE RemoveFinalizer
  <2>1. dpc = "release" /\ dpc \in Working /\ UNCHANGED <<cluster, doomed>>
    BY <1>13 DEF RemoveFinalizer, target, Working
  <2>2. CASE Leave(dl, "plain")
    BY <2>1, <2>2, Left DEF DeletionInv
  <2>3. CASE Accepted(Gone, "finish")
    <3>1. di' = Gone /\ dl' = Gone /\ dpc' = "finish"
      BY <2>3 DEF Accepted
    <3>2. ~Gone.live /\ Gone.obs = 0 /\ Gone.gen = 1 /\ Gone.phase = NoPhase
      BY DEF Gone, NewDeployItem
    <3>3. GenerationsInv' /\ SucceededIsDeployed' /\ DeletionInv'
      BY <3>1, <3>2 DEF GenerationsInv, SucceededIsDeployed, DeletionInv, Leaving
    <3>4. CopyInv' /\ PrepareInv' /\ ReleaseInv'
      BY <3>1 DEF CopyInv, PrepareInv, ReleaseInv
    <3>5. WorkInv' /\ AppliedInv'
      BY <3>1, <3>2 DEF WorkInv, AppliedInv, Working, Final, NoPhase, Leaving
    <3> QED BY <3>3, <3>4, <3>5
  <2> QED BY <1>13, <2>2, <2>3 DEF RemoveFinalizer
<1>14. CASE HandleError
  <2> DEFINE e == IF derr = "plain" THEN "none" ELSE derr
             p == PhaseForLastError(dl.phase, e)
  <2>1. dpc = "finish" /\ UNCHANGED <<cluster, doomed>>
    BY <1>14 DEF HandleError, target
  <2>2. CASE UNCHANGED di
    BY <1>14, <2>1, <2>2, Returned DEF HandleError
  <2>3. CASE dcur /\ di' = [di EXCEPT !.phase = p, !.err = e, !.managed = dl.managed]
    <3>1. p \in {dl.phase, "Failed"}
      BY PhaseForLastErrorFacts
    <3> HIDE DEF p, e
    <3>2. /\ di'.obs = di.obs /\ di'.gen = di.gen /\ di'.phase = p
          /\ di'.spec = di.spec /\ di'.del = di.del /\ di'.live = di.live
      BY <1>0, <2>3 DEF DeployItems
    <3>3. dpc' = "idle" /\ ~dcur'
      BY <1>14 DEF HandleError, DeployerReturns
    <3>4. SucceededIsDeployed'
      BY <2>1, <2>3, <3>1, <3>2 DEF SucceededIsDeployed, AppliedInv, CopyInv, Leaving
    <3>5. GenerationsInv' /\ CopyInv' /\ DeletionInv' /\ PrepareInv'
      BY <2>1, <3>2, <3>3 DEF GenerationsInv, CopyInv, DeletionInv, PrepareInv, Leaving
    <3>6. WorkInv' /\ AppliedInv' /\ ReleaseInv'
      BY <3>3 DEF WorkInv, AppliedInv, ReleaseInv, Working
    <3> QED BY <3>4, <3>5, <3>6
  <2> QED BY <1>14, <2>2, <2>3 DEF HandleError
<1> QED
  BY <1>2, <1>3, <1>4, <1>5, <1>6, <1>7, <1>8, <1>9, <1>10, <1>11, <1>12, <1>13,
     <1>14, Zenon DEF Deployer

\* The deploy item controller, time, users and crashes.
LEMMA OtherStep ==
    ASSUME IInv, TypeOK', Watcher \/ Vanish \/ Environment \/ UNCHANGED vars
                         \/ \E deadline \in Timeouts : Expire(deadline)
    PROVE  RunInv'
<1>0. di \in DeployItems /\ dl \in DeployItems
  BY DEF IInv, TypeOK
<1>1. di.gen \in Nat /\ di.obs \in Nat
  BY <1>0, ItemFields
<1>2. CASE Watcher
  <2>1. UNCHANGED <<cluster, doomed>>
    BY <1>2 DEF Watcher, CheckDeadlines, FailPickup, FailAbort, ForgetAbort,
                SetAbort, WatcherWrites, target
  <2>2. UNCHANGED <<dpc, dl>> /\ (dcur' => dcur)
    <3>1. ASSUME NEW retry, WatcherWrote(retry)
          PROVE  UNCHANGED <<dpc, dl>> /\ (dcur' => dcur)
      BY <3>1 DEF WatcherWrote
    <3>2. CASE CheckDeadlines
      BY <3>2 DEF CheckDeadlines, deployer
    <3> QED BY <1>2, <3>1, <3>2 DEF Watcher, FailPickup, FailAbort, ForgetAbort,
                                    SetAbort, WatcherWrites
  <2>3. CASE di' = di
    BY <2>1, <2>2, <2>3, Undisturbed
  <2>4. CASE di' # di
    <3>1. ~dcur'
      BY <1>2, <2>4 DEF Watcher, CheckDeadlines, FailPickup, FailAbort, ForgetAbort,
                SetAbort, WatcherWrites, WatcherWrote
    <3>2. \/ di' = [di EXCEPT !.phase = "Failed", !.err = "pickup"]
          \/ di' = [di EXCEPT !.phase = "Failed", !.err = "abort"]
          \/ di' = [di EXCEPT !.op = IF @ = "abort" THEN "none" ELSE @,
                              !.ats = "none"]
          \/ di' = [di EXCEPT !.op = "abort", !.ats = "fresh"]
      BY <1>2, <2>4 DEF Watcher, CheckDeadlines, FailPickup, FailAbort, ForgetAbort,
                SetAbort, WatcherWrites
    <3>3. /\ di'.obs = di.obs /\ di'.gen = di.gen /\ di'.phase \in {di.phase, "Failed"}
          /\ di'.spec = di.spec /\ di'.del = di.del /\ di'.live = di.live
      <4>1. CASE di' = [di EXCEPT !.phase = "Failed", !.err = "pickup"]
        BY <1>0, <4>1 DEF DeployItems
      <4>2. CASE di' = [di EXCEPT !.phase = "Failed", !.err = "abort"]
        BY <1>0, <4>2 DEF DeployItems
      <4>3. CASE di' = [di EXCEPT !.op = IF @ = "abort" THEN "none" ELSE @,
                                  !.ats = "none"]
        BY <1>0, <4>3 DEF DeployItems
      <4>4. CASE di' = [di EXCEPT !.op = "abort", !.ats = "fresh"]
        BY <1>0, <4>4 DEF DeployItems
      <4> QED BY <3>2, <4>1, <4>2, <4>3, <4>4
    <3> QED BY <1>1, <2>1, <2>2, <3>1, <3>3, Undisturbed
  <2> QED BY <2>3, <2>4
<1>3. CASE Vanish
  <2>1. doomed /\ ~doomed' /\ cluster' = 0 /\ UNCHANGED <<di, dpc, dl, dcur>>
    BY <1>3 DEF Vanish, deployer
  <2>2. Leaving
    BY <2>1 DEF IInv, RunInv, DeletionInv
  <2>3. GenerationsInv' /\ CopyInv' /\ WorkInv' /\ PrepareInv' /\ ReleaseInv'
    BY <2>1 DEF IInv, RunInv, GenerationsInv, CopyInv, WorkInv, PrepareInv, ReleaseInv
  <2>4. DeletionInv' /\ AppliedInv' /\ SucceededIsDeployed'
    BY <2>1, <2>2 DEF DeletionInv, AppliedInv, SucceededIsDeployed, Leaving
  <2> QED BY <2>3, <2>4 DEF RunInv
<1>4. CASE \E deadline \in Timeouts : Expire(deadline)
  <2>1. UNCHANGED <<cluster, doomed, dpc, dl, dcur>>
    BY <1>4 DEF Expire, TimePasses, target, deployer
  <2>2. \/ di' = [di EXCEPT !.rts = "expired"] \/ di' = [di EXCEPT !.ats = "expired"]
        \/ di' = [di EXCEPT !.lrt = "expired"]
    BY <1>4 DEF Expire, TimePasses
  <2>3. /\ di'.obs = di.obs /\ di'.gen = di.gen /\ di'.phase = di.phase
        /\ di'.spec = di.spec /\ di'.del = di.del /\ di'.live = di.live
        /\ di'.op = di.op /\ di'.managed = di.managed
    BY <1>0, <2>2 DEF DeployItems
  <2> QED BY <2>1, <2>3, Undisturbed
<1>5. CASE Trigger \/ RequestDeletion
           \/ \E op \in {"reconcile", "abort", "force"} : SetOperation(op)
  <2>1. UNCHANGED <<cluster, doomed, dpc, dl>> /\ ~dcur'
    BY <1>5 DEF Trigger, RequestDeletion, SetOperation, Written, target
  <2>2. \/ di' = Gone
        \/ di' = [di EXCEPT !.op = "reconcile", !.rts = "fresh"]
        \/ di' = [di EXCEPT !.op = "reconcile", !.rts = "fresh", !.spec = @ + 1,
                            !.gen = @ + 1]
        \/ di' = [di EXCEPT !.del = TRUE, !.gen = @ + 1]
        \/ \E op \in {"reconcile", "abort", "force"} : di' = [di EXCEPT !.op = op]
    BY <1>5 DEF Trigger, RequestDeletion, SetOperation, Written
  <2>3. CASE di' = Gone
    <3>1. ~di'.live /\ di'.obs <= di'.gen /\ di'.phase = NoPhase
      BY <2>3 DEF Gone, NewDeployItem
    <3> QED BY <2>1, <3>1, Undisturbed
  <2>4. CASE di' # Gone
    <3> DEFINE Kept == /\ di'.obs = di.obs /\ (di'.live <=> di.live)
                       /\ di'.phase = di.phase /\ (di.del => di'.del)
               Newer == \/ di'.gen = di.gen /\ di'.spec = di.spec
                        \/ di'.gen = di.gen + 1
    <3>0. Kept /\ Newer
      <4>1. CASE di' = [di EXCEPT !.op = "reconcile", !.rts = "fresh"]
        BY <1>0, <4>1 DEF DeployItems
      <4>2. CASE di' = [di EXCEPT !.op = "reconcile", !.rts = "fresh",
                                  !.spec = @ + 1, !.gen = @ + 1]
        BY <1>0, <4>2 DEF DeployItems
      <4>3. CASE di' = [di EXCEPT !.del = TRUE, !.gen = @ + 1]
        BY <1>0, <4>3 DEF DeployItems
      <4>4. ASSUME NEW op \in {"reconcile", "abort", "force"},
                   di' = [di EXCEPT !.op = op]
            PROVE  Kept /\ Newer
        BY <1>0, <4>4 DEF DeployItems
      <4> HIDE DEF Kept, Newer
      <4> QED BY <2>2, <2>4, <4>1, <4>2, <4>3, <4>4
    <3>1. Kept
      BY <3>0
    <3>2. Newer
      BY <3>0
    <3>3. di'.gen \in Nat /\ di.gen <= di'.gen /\ (di'.spec = di.spec \/ di.gen < di'.gen)
      BY <1>1, <3>2
    <3> QED BY <2>1, <3>1, <3>3, Undisturbed
  <2> QED BY <2>3, <2>4
<1>6. CASE BecomesDue \/ WatcherCrash \/ UNCHANGED vars
  <2>1. UNCHANGED <<di, cluster, doomed, dpc, dl, dcur>>
    BY <1>6 DEF BecomesDue, WatcherCrash, target, deployer, vars
  <2> QED BY <2>1, Undisturbed
<1>7. CASE DeployerCrash
  <2>1. UNCHANGED <<di, cluster, doomed>> /\ dpc' = "idle" /\ ~dcur'
    BY <1>7 DEF DeployerCrash, target
  <2>2. GenerationsInv' /\ SucceededIsDeployed'
    BY <2>1 DEF IInv, RunInv, GenerationsInv, SucceededIsDeployed
  <2>3. CopyInv' /\ DeletionInv' /\ PrepareInv'
    BY <2>1 DEF IInv, RunInv, CopyInv, DeletionInv, PrepareInv, Leaving
  <2>4. WorkInv' /\ AppliedInv' /\ ReleaseInv'
    BY <2>1 DEF WorkInv, AppliedInv, ReleaseInv, Working
  <2> QED BY <2>2, <2>3, <2>4 DEF RunInv
<1> QED
  BY <1>2, <1>3, <1>4, <1>5, <1>6, <1>7, Zenon DEF Environment

\* The inductive step.
LEMMA InvStep == IInv /\ [Next]_vars => IInv'
<1> SUFFICES ASSUME IInv, [Next]_vars PROVE IInv'
  OBVIOUS
<1>1. TypeOK'
  BY TypeStep DEF IInv
<1>2. RunInv'
  BY <1>1, DeployerStep, OtherStep, Zenon DEF Next
<1> QED BY <1>1, <1>2 DEF IInv

-----------------------------------------------------------------------------
(* How a step changes the item.                                            *)

ItemChange ==
    \/ di'.phase \in {di.phase, "Failed", "Succeeded"} /\ (di.live => di'.live)
    \/ /\ (dpc = "prepare" /\ dcur) \/ (dpc = "hook" /\ due)
       /\ di'.phase = "Init" /\ (di.live => di'.live)
    \/ /\ dpc = "progress" /\ dcur /\ (di.live => di'.live)
    \/ /\ dpc = "finish" /\ dcur /\ di'.phase \in {dl.phase, "Failed"}
       /\ (di.live => di'.live)
    \/ /\ (dpc = "release" /\ dcur) \/ ~di.fin
       /\ ~di'.live

\* Apart from failures and successes the phase changes only when an item is
\* started, is worked on or is reported; it goes away when the deployer or,
\* without a finalizer, a user takes it away.
LEMMA StepChangesItem == ASSUME TypeOK, [Next]_vars, WorkInv PROVE ItemChange
<1>0. di \in DeployItems /\ dl \in DeployItems
  BY DEF TypeOK
<1>1. CASE UNCHANGED di
  BY <1>1 DEF ItemChange
<1>2. CASE Prepare \/ ShouldReconcileHook
  <2>1. CASE UNCHANGED di
    BY <2>1, <1>1
  <2>2. CASE di' # di
    <3>1. /\ (dpc = "prepare" /\ dcur) \/ (dpc = "hook" /\ due)
          /\ di' = Prepared(di)
      BY <1>2, <2>2 DEF Prepare, ShouldReconcileHook, Accepted
    <3>2. di'.phase = "Init" /\ (di.live => di'.live)
      BY <1>0, <3>1 DEF Prepared, DeployItems
    <3> QED BY <3>1, <3>2 DEF ItemChange
  <2> QED BY <2>1, <2>2
<1>3. CASE DropAnnotations \/ AddFinalizer \/ StoreProgress \/ Publish
  <2>1. CASE di' # di
    <3>1. \/ di' = [di EXCEPT !.op = IF @ = "reconcile" THEN "none" ELSE @,
                              !.rts = "none"]
          \/ di' = [di EXCEPT !.fin = TRUE]
          \/ /\ dpc = "progress" /\ dcur
             /\ di' = [di EXCEPT !.phase = "Progressing", !.managed = TRUE]
          \/ dpc = "publish" /\ di' = [di EXCEPT !.phase = dl.phase, !.err = dl.err]
      BY <1>3, <2>1 DEF DropAnnotations, AddFinalizer, StoreProgress, Publish,
                        Accepted, Leave
    <3>2. dpc = "publish" => dl.phase = "Succeeded"
      BY DEF WorkInv, Working
    <3>3. \/ di'.phase \in {di.phase, "Succeeded"} /\ (di.live => di'.live)
          \/ dpc = "progress" /\ dcur /\ (di.live => di'.live)
      BY <1>0, <3>1, <3>2, ZenonT(40) DEF DeployItems
    <3> QED BY <3>3 DEF ItemChange
  <2> QED BY <1>1, <2>1
<1>4. CASE Apply \/ CheckReady \/ WriteExports \/ Delete \/ Get
  BY <1>1, <1>4 DEF Apply, CheckReady, WriteExports, Delete, Get, Proceed, Leave
<1>5. CASE RemoveFinalizer
  <2>1. di' = di \/ (dpc = "release" /\ dcur /\ di' = Gone)
    BY <1>5 DEF RemoveFinalizer, Accepted, Leave
  <2>2. ~Gone.live
    BY DEF Gone, NewDeployItem
  <2> QED BY <1>1, <2>1, <2>2 DEF ItemChange
<1>6. CASE HandleError
  <2> DEFINE e == IF derr = "plain" THEN "none" ELSE derr
             p == PhaseForLastError(dl.phase, e)
  <2>1. \/ di' = di
        \/ /\ dpc = "finish" /\ dcur
           /\ di' = [di EXCEPT !.phase = p, !.err = e, !.managed = dl.managed]
    BY <1>6 DEF HandleError
  <2>2. p \in {dl.phase, "Failed"}
    BY PhaseForLastErrorFacts
  <2> HIDE DEF p, e
  <2>3. di' = di \/ (dpc = "finish" /\ dcur /\ di'.phase = p /\ (di.live => di'.live))
    BY <1>0, <2>1 DEF DeployItems
  <2> QED BY <1>1, <2>2, <2>3 DEF ItemChange
<1>7. CASE Watcher
  <2>1. \/ di' = di
        \/ di' = [di EXCEPT !.phase = "Failed", !.err = "pickup"]
        \/ di' = [di EXCEPT !.phase = "Failed", !.err = "abort"]
        \/ di' = [di EXCEPT !.op = IF @ = "abort" THEN "none" ELSE @,
                            !.ats = "none"]
        \/ di' = [di EXCEPT !.op = "abort", !.ats = "fresh"]
    BY <1>7 DEF Watcher, CheckDeadlines, FailPickup, FailAbort, ForgetAbort,
                SetAbort, WatcherWrites
  <2>2. di'.phase \in {di.phase, "Failed"} /\ (di.live => di'.live)
    BY <1>0, <2>1, ZenonT(40) DEF DeployItems
  <2> QED BY <2>2 DEF ItemChange
<1>8. CASE \E deadline \in Timeouts : Expire(deadline)
  <2>1. \/ di' = [di EXCEPT !.rts = "expired"] \/ di' = [di EXCEPT !.ats = "expired"]
        \/ di' = [di EXCEPT !.lrt = "expired"]
    BY <1>8 DEF Expire, TimePasses
  <2>2. di'.phase = di.phase /\ (di.live => di'.live)
    BY <1>0, <2>1 DEF DeployItems
  <2> QED BY <2>2 DEF ItemChange
<1>9. CASE Trigger \/ RequestDeletion
           \/ \E op \in {"reconcile", "abort", "force"} : SetOperation(op)
  <2>1. \/ ~di.fin /\ di' = Gone
        \/ di' = [di EXCEPT !.op = "reconcile", !.rts = "fresh"]
        \/ di' = [di EXCEPT !.op = "reconcile", !.rts = "fresh", !.spec = @ + 1,
                            !.gen = @ + 1]
        \/ di' = [di EXCEPT !.del = TRUE, !.gen = @ + 1]
        \/ \E op \in {"reconcile", "abort", "force"} : di' = [di EXCEPT !.op = op]
    BY <1>9 DEF Trigger, RequestDeletion, SetOperation, Written
  <2>2. ~Gone.live
    BY DEF Gone, NewDeployItem
  <2>3. (~di.fin /\ di' = Gone) \/ (di'.phase = di.phase /\ (di.live => di'.live))
    BY <1>0, <2>1 DEF DeployItems
  <2> QED BY <2>2, <2>3 DEF ItemChange
<1>10. CASE Vanish \/ BecomesDue \/ DeployerCrash \/ WatcherCrash \/ UNCHANGED vars
  BY <1>1, <1>10 DEF Vanish, BecomesDue, DeployerCrash, WatcherCrash, vars
<1> QED
  BY <1>2, <1>3, <1>4, <1>5, <1>6, <1>7, <1>8, <1>9, <1>10, Zenon
     DEF Next, Deployer, Environment

-----------------------------------------------------------------------------
(* The theorems.                                                           *)

\* The variables of the model keep the types of the API objects and of the two
\* runs, for all bounds.
THEOREM ItemTypeCorrect == SafetySpec => []TypeOK
<1>1. IInv => TypeOK
  BY DEF IInv
<1> QED BY InitInv, InvStep, <1>1, PTL DEF SafetySpec

\* An item that is reported Succeeded for its present generation is deployed
\* with its present spec, for every number of edits, triggers, aborts, crashes,
\* timeouts and refused writes between the steps of the deployer's Reconcile.
THEOREM SuccessIsDeployed == SafetySpec => []SucceededIsDeployed
<1>1. IInv => SucceededIsDeployed
  BY DEF IInv, RunInv
<1> QED BY InitInv, InvStep, <1>1, PTL DEF SafetySpec

\* A deploy item with a finalizer whose status lists deployed resources goes
\* away only after they are gone: the run that removes the finalizer has found
\* them gone, and its copy of the list is the stored one.
THEOREM ResourcesGoFirst == SafetySpec => RecordedResourcesGoFirst
<1>1. IInv /\ [Next]_vars =>
         [di.live /\ di.fin /\ di.managed /\ ~di'.live => cluster = 0]_vars
  <2> SUFFICES ASSUME IInv, [Next]_vars, di.live, di.fin, di.managed, ~di'.live
               PROVE  cluster = 0
    OBVIOUS
  <2>1. dpc = "release" /\ dcur
    BY StepChangesItem DEF IInv, RunInv, ItemChange
  <2> QED BY <2>1 DEF IInv, RunInv, ReleaseInv
<1> QED BY InitInv, InvStep, <1>1, PTL DEF SafetySpec, RecordedResourcesGoFirst

\* An item in a final phase leaves it only for Init, and only when a request, a
\* new generation or the schedule of continuous reconciliation asks for it: no
\* leftover of an earlier run revives it.
THEOREM FinalStaysFinal == SafetySpec => FinalUntilTriggered
<1>1. IInv /\ [Next]_vars =>
         [di.phase \in Final /\ di'.phase \notin Final /\ di'.live
            => /\ di'.phase = "Init"
               /\ Requested(di) \/ due]_vars
  <2> SUFFICES ASSUME IInv, [Next]_vars, di.phase \in Final, di'.phase \notin Final,
                      di'.live
               PROVE  di'.phase = "Init" /\ (Requested(di) \/ due)
    OBVIOUS
  <2>1. ItemChange
    BY StepChangesItem DEF IInv, RunInv
  <2>2. /\ dpc = "progress" => ~dcur
        /\ dpc = "finish" /\ dcur => dl.phase = "Succeeded"
    BY DEF IInv, RunInv, WorkInv, Working
  <2>3. /\ (dpc = "prepare" /\ dcur) \/ (dpc = "hook" /\ due)
        /\ di'.phase = "Init"
    BY <2>1, <2>2 DEF ItemChange, Final
  <2> QED BY <2>3 DEF IInv, RunInv, PrepareInv
<1> QED BY InitInv, InvStep, <1>1, PTL DEF SafetySpec, FinalUntilTriggered

-----------------------------------------------------------------------------
(* The deployer contract.  The invariant above says what a run knows of    *)
(* the spec and of the target cluster.  Here it is strengthened by what a  *)
(* run knows of the phase: a write that is accepted meets the item in the  *)
(* phase in which the run, or the deploy item controller, has found it.    *)


\* A write can be accepted only while the item exists.
ExistsInv ==
    /\ dcur /\ dpc # "finish" => di.live
    /\ tcur /\ tpc # "idle" => di.live

\* The deployer works on an item that is in one of the working phases.
InWorkInv ==
    /\ dcur /\ dpc \in Working => InWork(di)
    /\ dpc \in Working \ {"export", "publish"} => InWork(dl)

\* What the error handler finds: work that is to be reported, or a success that
\* is stored already.
ReportInv ==
    /\ dpc # "finish" => derr = "none"
    /\ dcur /\ dpc = "finish" /\ di.live =>
          \/ InWork(di) /\ (InWork(dl) \/ dl.phase = "Succeeded")
          \/ /\ di.phase = "Succeeded" /\ dl.phase = "Succeeded"
             /\ derr = "none" /\ dl.managed = di.managed

\* The request is taken away from an item that was started.
AnnotationsInv ==
    dcur /\ dpc = "annotations" /\ di.op = "reconcile" => di.phase = "Init"

\* A timeout strikes an item that is waiting.
TimeoutInv ==
    /\ tcur /\ tpc = "failPickup" => di.rts = "expired"
    /\ tcur /\ tpc = "failAbort" => di.phase \notin Final

PhaseInv ==
    ExistsInv /\ InWorkInv /\ ReportInv /\ AnnotationsInv /\ TimeoutInv

-----------------------------------------------------------------------------
(* The invariant.                                                          *)

\* A new item satisfies it.
LEMMA InitPhaseInv == Init => PhaseInv
<1> SUFFICES ASSUME Init PROVE PhaseInv
  OBVIOUS
<1>1. dpc = "idle" /\ ~dcur /\ derr = "none" /\ tpc = "idle"
  BY DEF Init
<1> QED BY <1>1 DEF PhaseInv, ExistsInv, InWorkInv, ReportInv, AnnotationsInv,
                    TimeoutInv, Working

\* What the deploy item controller knows is not disturbed by the deployer.
LEMMA WatcherUndisturbed ==
    ASSUME PhaseInv, tpc' = tpc, tcur' => tcur /\ di' = di
    PROVE  (tcur' /\ tpc' # "idle" => di'.live) /\ TimeoutInv'
BY DEF PhaseInv, ExistsInv, TimeoutInv

\* What the deployer knows is not disturbed by a step that does not concern its
\* run and either makes its copy stale or leaves the phase and the operation.
LEMMA RunUndisturbed ==
    ASSUME PhaseInv, UNCHANGED <<dpc, dl, derr>>, dcur' => dcur,
           \/ ~dcur'
           \/ /\ di'.live = di.live /\ di'.phase = di.phase
              /\ di'.op = di.op /\ di'.managed = di.managed
    PROVE  /\ dcur' /\ dpc' # "finish" => di'.live
           /\ InWorkInv' /\ ReportInv' /\ AnnotationsInv'
<1>1. dcur' /\ dpc' # "finish" => di'.live
  BY DEF PhaseInv, ExistsInv
<1>2. InWorkInv' /\ AnnotationsInv'
  BY DEF PhaseInv, InWorkInv, AnnotationsInv, InWork
<1>3. ReportInv'
  BY DEF PhaseInv, ReportInv, InWork
<1> QED BY <1>1, <1>2, <1>3

\* The frames of a step of the deployer leave the other controller alone.
LEMMA FrameFacts ==
    ASSUME \/ \E retry : DeployerReturns(retry)
           \/ \E d, p : Accepted(d, p) \/ Proceed(d, p) \/ Leave(d, p)
    PROVE  tpc' = tpc /\ (tcur' => tcur /\ di' = di)
BY DEF DeployerReturns, Accepted, Proceed, Leave, DeployerWrote

\* The end of a run.
LEMMA ReturnedPhase ==
    ASSUME PhaseInv, NEW retry, DeployerReturns(retry)
    PROVE  PhaseInv'
<1>1. dpc' = "idle" /\ ~dcur' /\ derr' = "none"
  BY DEF DeployerReturns
<1>2. (tcur' /\ tpc' # "idle" => di'.live) /\ TimeoutInv'
  BY FrameFacts, WatcherUndisturbed
<1> QED BY <1>1, <1>2 DEF PhaseInv, ExistsInv, InWorkInv, ReportInv, AnnotationsInv, Working

\* A run stores a status in which the item is in work, and goes on with the
\* work or to the error handler.
LEMMA AcceptedPhase ==
    ASSUME PhaseInv, NEW d, NEW p, Accepted(d, p), dpc # "finish",
           d.live = di.live, InWork(d),
           p = "annotations" /\ d.op = "reconcile" => d.phase = "Init",
           p \notin {"export", "publish"}
    PROVE  PhaseInv'
<1>1. /\ dcur /\ dcur' /\ di' = d /\ dl' = d /\ dpc' = p /\ derr' = derr
  BY DEF Accepted
<1>2. derr = "none" /\ di.live
  BY <1>1 DEF PhaseInv, ReportInv, ExistsInv
<1>3. (tcur' /\ tpc' # "idle" => di'.live) /\ TimeoutInv'
  BY FrameFacts, WatcherUndisturbed
<1> QED BY <1>1, <1>2, <1>3
       DEF PhaseInv, ExistsInv, InWorkInv, ReportInv, AnnotationsInv

\* A run goes on with the work, or ends it, without having written the item.
LEMMA WorkedPhase ==
    ASSUME PhaseInv, dpc \in Working, NEW d, NEW p, NEW e,
           \/ Proceed(d, p) /\ p \in Working \cup {"finish"}
           \/ Leave(d, e) /\ p = "finish",
           IF d.phase = "Succeeded" THEN p \in {"export", "publish", "finish"}
                                    ELSE InWork(d)
    PROVE  PhaseInv'
<1>1. dl' = d /\ dpc' = p /\ UNCHANGED <<di, dcur>>
  BY DEF Proceed, Leave
<1>2. p # "finish" => derr' = "none"
  BY DEF Proceed, Leave, PhaseInv, ReportInv, Working
<1>3. (tcur' /\ tpc' # "idle" => di'.live) /\ TimeoutInv'
  BY FrameFacts, WatcherUndisturbed
<1>4. dcur => di.live /\ InWork(di)
  BY DEF PhaseInv, ExistsInv, InWorkInv, Working
<1>5. ReportInv'
  BY <1>1, <1>2, <1>4 DEF ReportInv, InWork
<1>6. InWorkInv' /\ AnnotationsInv'
  BY <1>1, <1>4 DEF InWorkInv, AnnotationsInv, InWork, Working
<1> QED BY <1>1, <1>3, <1>4, <1>5, <1>6 DEF PhaseInv, ExistsInv

\* The steps of the deployer keep the invariant.
LEMMA DeployerPhaseStep ==
    ASSUME IInv, PhaseInv, Deployer
    PROVE  PhaseInv'
<1>0. di \in DeployItems /\ dl \in DeployItems
  BY DEF IInv, TypeOK
<1>1. CASE Get
  <2>1. UNCHANGED <<di, tpc, tcur>>
    BY <1>1 DEF Get, watcher
  <2>2. (tcur' /\ tpc' # "idle" => di'.live) /\ TimeoutInv'
    BY <2>1, WatcherUndisturbed
  <2>3. CASE ~di.live
    <3>1. UNCHANGED <<dpc, dl, dcur, derr>>
      BY <1>1, <2>3 DEF Get, deployer
    <3> QED BY <2>1, <2>2, <3>1, RunUndisturbed DEF PhaseInv, ExistsInv
  <2>4. CASE di.live
    <3>1. /\ dl' = di /\ dcur' /\ derr' = "none"
          /\ dpc' = IF Requested(di) THEN "prepare" ELSE AfterPrepare(di)
      BY <1>1, <2>4 DEF Get
    <3>2. /\ dpc' \in {"prepare", "finish", "apply", "delete", "finalizer", "hook",
                       "annotations"}
          /\ dpc' \in {"finish", "apply", "delete", "finalizer"} => InWork(di)
          /\ dpc' = "annotations" => di.op # "reconcile"
      BY <3>1, BranchFacts DEF InWork, Requested
    <3> QED BY <2>1, <2>2, <2>4, <3>1, <3>2
           DEF PhaseInv, ExistsInv, InWorkInv, ReportInv, AnnotationsInv, Working, InWork
  <2> QED BY <2>3, <2>4
<1>2. CASE Prepare
  <2>1. CASE DeployerReturns(TRUE)
    BY <2>1, ReturnedPhase
  <2> DEFINE d == Prepared(di)
  <2>2. CASE Accepted(d, AfterPrepare(d))
    <3>1. d.live = di.live /\ d.phase = "Init"
      BY <1>0 DEF Prepared, DeployItems
    <3>2. AfterPrepare(d) \notin {"export", "publish"}
      BY BranchFacts
    <3>3. dpc # "finish"
      BY <1>2 DEF Prepare
    <3> QED BY <2>2, <3>1, <3>2, <3>3, AcceptedPhase DEF InWork
  <2> QED BY <1>2, <2>1, <2>2 DEF Prepare
<1>3. CASE DropAnnotations
  <2>1. CASE DeployerReturns(TRUE)
    BY <2>1, ReturnedPhase
  <2> DEFINE d == [di EXCEPT !.op = IF @ = "reconcile" THEN "none" ELSE @,
                             !.rts = "none"]
  <2>2. CASE Accepted(d, Gate(d))
    <3>1. d.live = di.live /\ d.op # "reconcile"
      BY <1>0 DEF DeployItems
    <3> HIDE DEF d
    <3>2. /\ Gate(d) \in {"finish", "apply", "delete", "finalizer", "hook"}
          /\ Gate(d) # "hook" => InWork(d)
      BY BranchFacts DEF InWork
    <3>3. /\ dcur /\ dcur' /\ di' = d /\ dl' = d /\ dpc' = Gate(d) /\ derr' = derr
      BY <2>2 DEF Accepted
    <3>4. derr = "none" /\ di.live
      BY <1>3, <3>3 DEF DropAnnotations, PhaseInv, ReportInv, ExistsInv
    <3>5. (tcur' /\ tpc' # "idle" => di'.live) /\ TimeoutInv'
      BY <2>2, FrameFacts, WatcherUndisturbed
    <3> QED BY <3>1, <3>2, <3>3, <3>4, <3>5
           DEF PhaseInv, ExistsInv, InWorkInv, ReportInv, AnnotationsInv, Working
  <2> QED BY <1>3, <2>1, <2>2 DEF DropAnnotations
<1>4. CASE ShouldReconcileHook
  <2>1. CASE \E retry \in BOOLEAN : DeployerReturns(retry)
    BY <2>1, ReturnedPhase
  <2> DEFINE d == Prepared(di)
  <2>2. CASE Accepted(d, Dispatch(di))
    <3>1. d.live = di.live /\ d.phase = "Init"
      BY <1>0 DEF Prepared, DeployItems
    <3>2. Dispatch(di) \notin {"export", "publish", "annotations"}
      BY BranchFacts
    <3>3. dpc # "finish"
      BY <1>4 DEF ShouldReconcileHook
    <3> QED BY <2>2, <3>1, <3>2, <3>3, AcceptedPhase DEF InWork
  <2> QED BY <1>4, <2>1, <2>2 DEF ShouldReconcileHook
<1>5. CASE AddFinalizer \/ StoreProgress
  <2>1. dpc \in {"finalizer", "progress"} /\ dpc \in Working /\ InWork(dl)
    BY <1>5 DEF AddFinalizer, StoreProgress, Working, PhaseInv, InWorkInv
  <2>2. CASE Leave(dl, "recent")
    BY <2>1, <2>2, WorkedPhase DEF InWork
  <2>3. CASE Accepted([di EXCEPT !.fin = TRUE], "apply")
    <3> DEFINE d == [di EXCEPT !.fin = TRUE]
    <3>1. d.live = di.live /\ d.phase = di.phase
      BY <1>0 DEF DeployItems
    <3>2. InWork(d)
      BY <2>1, <2>3, <3>1 DEF PhaseInv, InWorkInv, InWork, Accepted
    <3>3. Accepted(d, "apply") /\ dpc # "finish"
      BY <2>1, <2>3
    <3> HIDE DEF d
    <3> QED BY <3>1, <3>2, <3>3, AcceptedPhase
  <2>4. CASE Accepted([di EXCEPT !.phase = "Progressing", !.managed = TRUE], "ready")
    <3> DEFINE d == [di EXCEPT !.phase = "Progressing", !.managed = TRUE]
    <3>1. d.live = di.live /\ d.phase = "Progressing"
      BY <1>0 DEF DeployItems
    <3>2. Accepted(d, "ready") /\ dpc # "finish"
      BY <2>1, <2>4
    <3> HIDE DEF d
    <3> QED BY <3>1, <3>2, AcceptedPhase DEF InWork
  <2> QED BY <1>5, <2>2, <2>3, <2>4 DEF AddFinalizer, StoreProgress
<1>6. CASE Apply
  <2>1. dpc \in Working
    BY <1>6 DEF Apply, Working
  <2>2. \A m \in BOOLEAN : InWork([dl EXCEPT !.phase = "Progressing", !.managed = m])
    BY <1>0 DEF DeployItems, InWork
  <2>3. InWork([dl EXCEPT !.phase = "Progressing"])
    BY <1>0 DEF DeployItems, InWork
  <2>4. CASE Proceed([dl EXCEPT !.phase = "Progressing", !.managed = TRUE], "progress")
    BY <2>1, <2>2, <2>4, WorkedPhase DEF Working, InWork
  <2>5. CASE \E e \in WorkErrors, m \in BOOLEAN :
                Leave([dl EXCEPT !.phase = "Progressing", !.managed = m], e)
    BY <2>1, <2>2, <2>5, WorkedPhase DEF InWork
  <2>6. CASE \E e : Leave([dl EXCEPT !.phase = "Progressing"], e)
    BY <2>1, <2>3, <2>6, WorkedPhase DEF InWork
  <2> QED BY <1>6, <2>4, <2>5, <2>6 DEF Apply
<1>7. CASE CheckReady
  <2>1. dpc \in Working /\ InWork(dl)
    BY <1>7 DEF CheckReady, Working, PhaseInv, InWorkInv
  <2>2. CASE \E e \in WorkErrors : Leave(dl, e)
    BY <2>1, <2>2, WorkedPhase DEF InWork
  <2> DEFINE d == [dl EXCEPT !.phase = "Succeeded", !.err = "none"]
  <2>3. d.phase = "Succeeded"
    BY <1>0 DEF DeployItems
  <2> HIDE DEF d
  <2>4. CASE Proceed(d, "export")
    BY <2>1, <2>3, <2>4, WorkedPhase DEF Working
  <2>5. CASE Proceed(d, "finish")
    BY <2>1, <2>3, <2>5, WorkedPhase
  <2> QED BY <1>7, <2>2, <2>4, <2>5 DEF CheckReady, d
<1>8. CASE WriteExports
  <2>1. dpc \in Working /\ dl.phase = "Succeeded"
    BY <1>8 DEF WriteExports, Working, IInv, RunInv, WorkInv
  <2>2. CASE \E e \in {"recent", "unrecoverable"} : Leave(dl, e)
    BY <2>1, <2>2, WorkedPhase
  <2>3. CASE Proceed(dl, "publish")
    BY <2>1, <2>3, WorkedPhase DEF Working
  <2> QED BY <1>8, <2>2, <2>3 DEF WriteExports
<1>9. CASE Publish
  <2>1. dpc = "publish" /\ dpc \in Working /\ dl.phase = "Succeeded"
    BY <1>9 DEF Publish, Working, IInv, RunInv, WorkInv
  <2>2. CASE Leave(dl, "recent")
    BY <2>1, <2>2, WorkedPhase
  <2> DEFINE d == [di EXCEPT !.phase = dl.phase, !.err = dl.err]
  <2>3. CASE Accepted(d, "finish")
    <3>1. d.live = di.live /\ d.phase = "Succeeded"
      BY <1>0, <2>1 DEF DeployItems
    <3> HIDE DEF d
    <3>2. dcur /\ dcur' /\ di' = d /\ dl' = d /\ dpc' = "finish" /\ derr' = derr
      BY <2>3 DEF Accepted
    <3>3. derr = "none"
      BY <2>1 DEF PhaseInv, ReportInv
    <3>4. (tcur' /\ tpc' # "idle" => di'.live) /\ TimeoutInv'
      BY <2>3, FrameFacts, WatcherUndisturbed
    <3> QED BY <3>1, <3>2, <3>3, <3>4
           DEF PhaseInv, ExistsInv, InWorkInv, ReportInv, AnnotationsInv, Working
  <2> QED BY <1>9, <2>2, <2>3 DEF Publish
<1>10. CASE Delete
  <2> DEFINE d == [dl EXCEPT !.phase = "Deleting"]
  <2>1. dpc \in Working
    BY <1>10 DEF Delete, Working
  <2>2. InWork(d) /\ d.phase # "Succeeded"
    BY <1>0 DEF DeployItems, InWork
  <2> HIDE DEF d
  <2>3. CASE Proceed(d, "release")
    BY <2>1, <2>2, <2>3, WorkedPhase DEF Working
  <2>4. CASE \E e : Leave(d, e)
    BY <2>1, <2>2, <2>4, WorkedPhase
  <2> QED BY <1>10, <2>3, <2>4 DEF Delete, d
<1>11. CASE RemoveFinalizer
  <2>1. dpc = "release" /\ dpc \in Working /\ InWork(dl)
    BY <1>11 DEF RemoveFinalizer, Working, PhaseInv, InWorkInv
  <2>2. CASE Leave(dl, "plain")
    BY <2>1, <2>2, WorkedPhase DEF InWork
  <2>3. CASE Accepted(Gone, "finish")
    <3>1. dcur /\ di' = Gone /\ dpc' = "finish"
      BY <2>3 DEF Accepted
    <3>2. ~di'.live
      BY <3>1 DEF Gone, NewDeployItem
    <3>3. (tcur' /\ tpc' # "idle" => di'.live) /\ TimeoutInv'
      BY <2>3, FrameFacts, WatcherUndisturbed
    <3> QED BY <3>1, <3>2, <3>3
           DEF PhaseInv, ExistsInv, InWorkInv, ReportInv, AnnotationsInv, Working
  <2> QED BY <1>11, <2>2, <2>3 DEF RemoveFinalizer
<1>12. CASE HandleError
  BY <1>12, ReturnedPhase DEF HandleError
<1> QED
  BY <1>1, <1>2, <1>3, <1>4, <1>5, <1>6, <1>7, <1>8, <1>9, <1>10, <1>11, <1>12, Zenon
     DEF Deployer

\* So do the steps of the deploy item controller, of time and of everybody else.
LEMMA OtherPhaseStep ==
    ASSUME IInv, PhaseInv,
           \/ Watcher \/ Vanish \/ Environment \/ UNCHANGED vars
           \/ \E deadline \in Timeouts : Expire(deadline)
    PROVE  PhaseInv'
<1>0. di \in DeployItems
  BY DEF IInv, TypeOK
<1>1. CASE CheckDeadlines
  <2>1. UNCHANGED <<di, dpc, dl, dcur, derr>>
    BY <1>1 DEF CheckDeadlines, deployer
  <2>2. /\ tpc' # "idle" => di.live
        /\ tpc' = "failPickup" => PickupExpired
        /\ tpc' = "failAbort" => AbortExpired
    BY <1>1 DEF CheckDeadlines
  <2>3. TimeoutInv'
    BY <2>1, <2>2 DEF TimeoutInv, PickupExpired, AbortExpired
  <2> QED BY <2>1, <2>2, <2>3, RunUndisturbed DEF PhaseInv, ExistsInv
<1>2. CASE FailPickup \/ FailAbort \/ ForgetAbort \/ SetAbort
  <2>1. /\ UNCHANGED <<dpc, dl, derr>> /\ (dcur' => dcur /\ di' = di)
        /\ tpc' = "idle"
    BY <1>2 DEF FailPickup, FailAbort, ForgetAbort, SetAbort, WatcherWrites, WatcherWrote
  <2> QED BY <2>1, RunUndisturbed DEF PhaseInv, ExistsInv, TimeoutInv
<1>3. CASE Vanish \/ BecomesDue \/ UNCHANGED vars
  <2>1. UNCHANGED <<di, dpc, dl, dcur, derr, tpc, tcur>>
    BY <1>3 DEF Vanish, BecomesDue, vars, deployer, watcher
  <2> QED BY <2>1, RunUndisturbed, WatcherUndisturbed DEF PhaseInv, ExistsInv
<1>4. CASE \E deadline \in Timeouts : Expire(deadline)
  <2>1. UNCHANGED <<dpc, dl, dcur, derr, tpc, tcur>>
    BY <1>4 DEF Expire, TimePasses, deployer
  <2>2. \/ di' = [di EXCEPT !.rts = "expired"] \/ di' = [di EXCEPT !.ats = "expired"]
        \/ di' = [di EXCEPT !.lrt = "expired"]
    BY <1>4 DEF Expire, TimePasses
  <2>3. /\ di'.live = di.live /\ di'.phase = di.phase
        /\ di'.op = di.op /\ di'.managed = di.managed
        /\ di.rts = "expired" => di'.rts = "expired"
    BY <1>0, <2>2 DEF DeployItems
  <2>4. (tcur' /\ tpc' # "idle" => di'.live) /\ TimeoutInv'
    BY <2>1, <2>3 DEF PhaseInv, ExistsInv, TimeoutInv
  <2> QED BY <2>1, <2>3, <2>4, RunUndisturbed DEF PhaseInv, ExistsInv
<1>5. CASE Trigger \/ RequestDeletion
           \/ \E op \in {"reconcile", "abort", "force"} : SetOperation(op)
  <2>1. UNCHANGED <<dpc, dl, derr, tpc>> /\ ~dcur' /\ ~tcur'
    BY <1>5 DEF Trigger, RequestDeletion, SetOperation, Written
  <2> QED BY <2>1, RunUndisturbed DEF PhaseInv, ExistsInv, TimeoutInv
<1>6. CASE DeployerCrash
  <2>1. UNCHANGED <<di, tpc, tcur>> /\ dpc' = "idle" /\ ~dcur' /\ derr' = "none"
    BY <1>6 DEF DeployerCrash, watcher
  <2>2. (tcur' /\ tpc' # "idle" => di'.live) /\ TimeoutInv'
    BY <2>1, WatcherUndisturbed
  <2> QED BY <2>1, <2>2
         DEF PhaseInv, ExistsInv, InWorkInv, ReportInv, AnnotationsInv, Working
<1>7. CASE WatcherCrash
  <2>1. UNCHANGED <<di, dpc, dl, dcur, derr>> /\ tpc' = "idle"
    BY <1>7 DEF WatcherCrash, deployer
  <2> QED BY <2>1, RunUndisturbed DEF PhaseInv, ExistsInv, TimeoutInv
<1> QED
  BY <1>1, <1>2, <1>3, <1>4, <1>5, <1>6, <1>7, Zenon DEF Watcher, Environment

\* The inductive step.
LEMMA PhaseInvStep == IInv /\ PhaseInv /\ [Next]_vars => PhaseInv'
BY DeployerPhaseStep, OtherPhaseStep, Zenon DEF Next

-----------------------------------------------------------------------------
(* The refinement mapping.                                                 *)

\* A new item is what the contract begins with.
LEMMA InitMaps == Init => Contract!Init
<1> SUFFICES ASSUME Init PROVE Contract!Init
  OBVIOUS
<1>1. di = NewDeployItem /\ cluster = 0
  BY DEF Init
<1>2. /\ di.live = TRUE /\ di.del = FALSE /\ di.phase = NoPhase /\ di.op = "reconcile"
      /\ di.rts = "fresh" /\ di.fin = FALSE /\ di.spec = 1
  BY <1>1 DEF NewDeployItem
<1>3. Asked = TRUE /\ Applied = FALSE /\ Clean = TRUE
  BY <1>1, <1>2 DEF Asked, Applied, Clean
<1>4. (di.op \in {"abort", "force"}) = FALSE /\ (di.rts # "none") = TRUE
  BY <1>2
<1> QED BY <1>2, <1>3, <1>4, Zenon DEF Contract!Init, Contract!NoPhase, NoPhase

\* What the contract says of a step that leaves everything it speaks about.
LEMMA Stutters ==
    ASSUME UNCHANGED <<di, cluster, due>>
    PROVE  UNCHANGED Contract!vars
BY DEF Contract!vars, Asked, Applied, Clean

\* Starting an item.
LEMMA StartMaps ==
    ASSUME IInv, PhaseInv, Prepare \/ ShouldReconcileHook
    PROVE  Contract!Start \/ UNCHANGED Contract!vars
<1>0. di \in DeployItems
  BY DEF IInv, TypeOK
<1>1. CASE UNCHANGED <<di, due>>
  BY <1>1, Stutters DEF Prepare, ShouldReconcileHook, target
<1>2. CASE ~UNCHANGED <<di, due>>
  <2>1. /\ dcur /\ di' = Prepared(di) /\ cluster' = cluster
        /\ dpc = "prepare" \/ (dpc = "hook" /\ due)
    BY <1>2 DEF Prepare, ShouldReconcileHook, Accepted, target
  <2>2. di.live /\ Asked
    BY <2>1 DEF PhaseInv, ExistsInv, IInv, RunInv, PrepareInv, Requested, Asked
  <2>3. /\ di'.phase = "Init" /\ di'.live = di.live /\ di'.del = di.del
        /\ di'.op = di.op /\ di'.spec = di.spec /\ di'.fin = di.fin
        /\ di'.managed = di.managed
    BY <1>0, <2>1 DEF Prepared, DeployItems
  <2> QED BY <2>1, <2>2, <2>3 DEF Contract!Start, Applied, Clean
<1> QED BY <1>1, <1>2

\* Taking the annotations away.
LEMMA DropMaps ==
    ASSUME IInv, PhaseInv, DropAnnotations
    PROVE  Contract!Annotate \/ UNCHANGED Contract!vars
<1>0. di \in DeployItems
  BY DEF IInv, TypeOK
<1>1. CASE UNCHANGED di
  BY <1>1, Stutters DEF DropAnnotations, target
<1>2. CASE di' # di
  <2>1. /\ dcur /\ dpc = "annotations" /\ UNCHANGED <<cluster, due>>
        /\ di' = [di EXCEPT !.op = IF @ = "reconcile" THEN "none" ELSE @,
                            !.rts = "none"]
    BY <1>2 DEF DropAnnotations, Accepted, target
  <2>2. /\ di'.live = di.live /\ di'.del = di.del /\ di'.phase = di.phase
        /\ di'.spec = di.spec /\ di'.fin = di.fin /\ di'.managed = di.managed
        /\ di'.obs = di.obs /\ di'.gen = di.gen
        /\ di.op # "reconcile" => di'.op = di.op
    BY <1>0, <2>1 DEF DeployItems
  <2>3. di.live /\ (Asked /\ ~Asked' => di.phase = "Init")
    BY <2>1, <2>2 DEF PhaseInv, ExistsInv, AnnotationsInv, Asked
  <2> QED BY <2>1, <2>2, <2>3 DEF Contract!Annotate, Applied, Clean
<1> QED BY <1>1, <1>2

\* Adding the finalizer, applying, and the end of a deletion on the cluster.
LEMMA WorkMaps ==
    ASSUME IInv, PhaseInv, AddFinalizer \/ Apply \/ Vanish
    PROVE  Contract!Work \/ UNCHANGED Contract!vars
<1>0. di \in DeployItems
  BY DEF IInv, TypeOK
<1>1. CASE Apply \/ Vanish
  <2>1. UNCHANGED <<di, due>>
    BY <1>1 DEF Apply, Vanish, Proceed, Leave
  <2>2. di.live => di.phase # "Succeeded" \/ di.del
    BY <1>1 DEF Apply, Vanish, IInv, RunInv, WorkInv, DeletionInv, Leaving, Working
  <2> QED BY <2>1, <2>2 DEF Contract!Work, Asked
<1>2. CASE AddFinalizer
  <2>1. CASE UNCHANGED di
    BY <1>2, <2>1, Stutters DEF AddFinalizer, target
  <2>2. CASE di' # di
    <3>1. /\ di' = [di EXCEPT !.fin = TRUE] /\ di.phase # "Succeeded" /\ due' = due
      BY <1>2, <2>2 DEF AddFinalizer, Accepted, Leave, IInv, RunInv, WorkInv, Working
    <3>2. /\ di'.live = di.live /\ di'.del = di.del /\ di'.phase = di.phase
          /\ di'.op = di.op /\ di'.rts = di.rts /\ di'.obs = di.obs /\ di'.gen = di.gen
      BY <1>0, <3>1 DEF DeployItems
    <3> QED BY <3>1, <3>2 DEF Contract!Work, Asked
  <2> QED BY <2>1, <2>2
<1> QED BY <1>1, <1>2

\* What a write of the status leaves alone.
SameItem ==
    /\ di'.live = di.live /\ di'.del = di.del /\ di'.op = di.op
    /\ di'.rts = di.rts /\ di'.obs = di.obs /\ di'.gen = di.gen
    /\ di'.spec = di.spec /\ UNCHANGED <<cluster, due>>

\* Reporting progress, success or failure.
LEMMA ReportMaps ==
    ASSUME IInv, PhaseInv, StoreProgress \/ Publish \/ HandleError
    PROVE  \/ Contract!Report \/ Contract!Succeed \/ Contract!Fail
           \/ UNCHANGED Contract!vars
<1>0. di \in DeployItems
  BY DEF IInv, TypeOK
<1>1. CASE StoreProgress /\ di' # di
  <2>1. /\ dcur /\ dpc = "progress" /\ UNCHANGED <<cluster, due>>
        /\ di' = [di EXCEPT !.phase = "Progressing", !.managed = TRUE]
    BY <1>1 DEF StoreProgress, Accepted, Leave, target
  <2>2. SameItem /\ di'.phase = "Progressing"
    BY <1>0, <2>1 DEF DeployItems, SameItem
  <2>3. di.live /\ InWork(di)
    BY <2>1 DEF PhaseInv, ExistsInv, InWorkInv, Working
  <2> QED BY <2>2, <2>3
         DEF Contract!Report, Contract!Working, InWork, SameItem, Asked, Applied
<1>2. CASE Publish /\ di' # di
  <2>1. /\ dcur /\ dpc = "publish" /\ UNCHANGED <<cluster, due>>
        /\ di' = [di EXCEPT !.phase = dl.phase, !.err = dl.err]
    BY <1>2 DEF Publish, Accepted, Leave, target
  <2>2. dl.phase = "Succeeded" /\ (cluster = dl.spec \/ Leaving) /\ dl.spec = di.spec
    BY <2>1 DEF IInv, RunInv, WorkInv, AppliedInv, CopyInv, Working
  <2>3. SameItem /\ di'.phase = "Succeeded"
    BY <1>0, <2>1, <2>2 DEF DeployItems, SameItem
  <2>4. di.live /\ InWork(di)
    BY <2>1 DEF PhaseInv, ExistsInv, InWorkInv, Working
  <2> QED BY <2>2, <2>3, <2>4
         DEF Contract!Succeed, Contract!Working, InWork, SameItem, Asked, Applied, Leaving
<1>3. CASE HandleError /\ di' # di
  <2> DEFINE e == IF derr = "plain" THEN "none" ELSE derr
             p == PhaseForLastError(dl.phase, e)
  <2>1. dcur /\ di.live /\ dpc = "finish" /\ UNCHANGED <<cluster, due>>
    BY <1>3 DEF HandleError, target
  <2>6. di' = [di EXCEPT !.phase = p, !.err = e, !.managed = dl.managed]
    BY <1>3 DEF HandleError
  <2>2. p \in {dl.phase, "Failed"} /\ (derr = "none" => p = dl.phase)
    BY DEF PhaseForLastError
  <2> HIDE DEF p, e
  <2>3. SameItem /\ di'.phase = p /\ di'.fin = di.fin /\ di'.managed = dl.managed
    BY <1>0, <2>1, <2>6 DEF DeployItems, SameItem
  <2>4. CASE InWork(di) /\ (InWork(dl) \/ dl.phase = "Succeeded")
    <3>1. CASE p = "Failed"
      BY <2>1, <2>3, <2>4, <3>1 DEF Contract!Fail, InWork, SameItem, Asked, Applied
    <3>2. CASE p # "Failed" /\ InWork(dl)
      BY <2>1, <2>2, <2>3, <2>4, <3>2
         DEF Contract!Report, Contract!Working, InWork, SameItem, Asked, Applied
    <3>3. CASE p # "Failed" /\ dl.phase = "Succeeded"
      <4>1. (cluster = dl.spec \/ di.del) /\ dl.spec = di.spec
        BY <2>1, <3>3 DEF IInv, RunInv, AppliedInv, CopyInv, Leaving
      <4> QED BY <2>1, <2>2, <2>3, <2>4, <3>3, <4>1
             DEF Contract!Succeed, Contract!Working, InWork, SameItem, Asked, Applied
    <3> QED BY <2>4, <3>1, <3>2, <3>3
  <2>5. CASE /\ di.phase = "Succeeded" /\ dl.phase = "Succeeded"
             /\ derr = "none" /\ dl.managed = di.managed
    BY <2>2, <2>3, <2>5 DEF Contract!vars, SameItem, Asked, Applied, Clean
  <2> QED BY <2>1, <2>4, <2>5 DEF PhaseInv, ReportInv
<1>4. CASE UNCHANGED di
  BY <1>4, Stutters DEF StoreProgress, Publish, HandleError, target
<1> QED BY <1>1, <1>2, <1>3, <1>4

\* Taking the item away: the deployer, when it has deleted what is listed, or
\* whoever deletes an item without a finalizer.
LEMMA RemoveMaps ==
    ASSUME IInv, PhaseInv, RemoveFinalizer \/ RequestDeletion, di' = Gone
    PROVE  Contract!Remove \/ UNCHANGED Contract!vars
<1>0. di \in DeployItems
  BY DEF IInv, TypeOK
<1>1. ~di'.live
  BY DEF Gone, NewDeployItem
<1>2. di' # [di EXCEPT !.del = TRUE, !.gen = @ + 1] \/ ~di.live
  BY <1>0, <1>1 DEF DeployItems
<1>3. CASE RemoveFinalizer /\ di' # di
  <2>1. dcur /\ dpc = "release"
    BY <1>3 DEF RemoveFinalizer, Accepted, Leave
  <2>2. di.live
    BY <2>1 DEF PhaseInv, ExistsInv
  <2>3. di.managed => cluster = 0
    BY <2>1 DEF IInv, RunInv, ReleaseInv
  <2> QED BY <1>1, <2>2, <2>3 DEF Contract!Remove, Clean
<1>4. CASE RequestDeletion
  <2>1. di.live /\ ~di.fin
    BY <1>2, <1>4 DEF RequestDeletion, Written
  <2> QED BY <1>1, <2>1 DEF Contract!Remove, Clean
<1>5. CASE RemoveFinalizer /\ di' = di
  BY <1>5, Stutters DEF RemoveFinalizer, target
<1> QED BY <1>3, <1>4, <1>5

\* Failing the item for the pickup or the aborting timeout, and the abort
\* operation.
LEMMA TimeoutMaps ==
    ASSUME IInv, PhaseInv, FailPickup \/ FailAbort \/ ForgetAbort \/ SetAbort
    PROVE  Contract!Fail \/ Contract!Annotate \/ UNCHANGED Contract!vars
<1>0. di \in DeployItems
  BY DEF IInv, TypeOK
<1>1. UNCHANGED <<cluster, due>> /\ (di' # di => tcur)
  BY DEF FailPickup, FailAbort, ForgetAbort, SetAbort, WatcherWrites, target
<1>2. CASE di' = di
  BY <1>1, <1>2, Stutters
<1>3. CASE (FailPickup \/ FailAbort) /\ di' # di
  <2>1. \/ di' = [di EXCEPT !.phase = "Failed", !.err = "pickup"]
        \/ di' = [di EXCEPT !.phase = "Failed", !.err = "abort"]
    BY <1>3 DEF FailPickup, FailAbort, WatcherWrites
  <2>2. di.live /\ (di.rts = "expired" \/ di.phase \notin Final)
    BY <1>1, <1>3 DEF FailPickup, FailAbort, PhaseInv, ExistsInv, TimeoutInv
  <2>3. SameItem /\ di'.phase = "Failed"
    BY <1>0, <1>1, <2>1 DEF DeployItems, SameItem
  <2> QED BY <2>2, <2>3 DEF Contract!Fail, SameItem, Asked, Applied, Final
<1>4. CASE (ForgetAbort \/ SetAbort) /\ di' # di
  <2>1. \/ di' = [di EXCEPT !.op = IF @ = "abort" THEN "none" ELSE @, !.ats = "none"]
        \/ di' = [di EXCEPT !.op = "abort", !.ats = "fresh"]
    BY <1>4 DEF ForgetAbort, SetAbort, WatcherWrites
  <2>2. di.live
    BY <1>1, <1>4 DEF ForgetAbort, SetAbort, PhaseInv, ExistsInv
  <2>3. /\ di'.live = di.live /\ di'.del = di.del /\ di'.phase = di.phase
        /\ di'.spec = di.spec /\ di'.fin = di.fin /\ di'.managed = di.managed
        /\ di'.obs = di.obs /\ di'.gen = di.gen
        /\ di'.op = "abort" \/ (di.op = "reconcile" => di'.op = "reconcile")
    BY <1>0, <2>1 DEF DeployItems
  <2>4. di'.op \in {"abort", "force"} \/ (Asked => Asked')
    BY <1>1, <2>3 DEF Asked
  <2> QED BY <1>1, <2>2, <2>3, <2>4 DEF Contract!Annotate, Applied, Clean
<1> QED BY <1>2, <1>3, <1>4

\* A trigger, a new version, the mark of deletion, an operation, the schedule.
LEMMA RequestMaps ==
    ASSUME IInv, PhaseInv, di' # Gone,
           \/ Trigger \/ RequestDeletion \/ BecomesDue
           \/ \E op \in {"reconcile", "abort", "force"} : SetOperation(op)
    PROVE  Contract!Annotate
<1>0. di \in DeployItems
  BY DEF IInv, TypeOK
<1>1. di.live /\ cluster' = cluster /\ (due' = due \/ (due' /\ di' = di))
  BY DEF Trigger, RequestDeletion, BecomesDue, SetOperation, Written, target
<1>2. \/ di' = di
      \/ di' = [di EXCEPT !.op = "reconcile", !.rts = "fresh"]
      \/ di' = [di EXCEPT !.op = "reconcile", !.rts = "fresh", !.spec = @ + 1,
                          !.gen = @ + 1]
      \/ di' = [di EXCEPT !.del = TRUE, !.gen = @ + 1]
      \/ \E op \in {"reconcile", "abort", "force"} : di' = [di EXCEPT !.op = op]
  BY DEF Trigger, RequestDeletion, BecomesDue, SetOperation, Written
<1> DEFINE Kept == /\ di'.live = di.live /\ (di.del => di'.del)
                   /\ di'.phase = di.phase /\ di'.fin = di.fin
                   /\ di'.managed = di.managed
           Asking == \/ di'.op = "reconcile" /\ di'.obs = di.obs
                     \/ di'.obs = di.obs /\ di'.gen = di.gen + 1 /\ di'.spec = di.spec
                     \/ di'.op \in {"abort", "force"} /\ di'.spec = di.spec
                     \/ di' = di
<1>3. Kept /\ Asking
  <2>1. CASE di' = [di EXCEPT !.op = "reconcile", !.rts = "fresh"]
    BY <1>0, <2>1 DEF DeployItems
  <2>2. CASE di' = [di EXCEPT !.op = "reconcile", !.rts = "fresh", !.spec = @ + 1,
                              !.gen = @ + 1]
    BY <1>0, <2>2 DEF DeployItems
  <2>3. CASE di' = [di EXCEPT !.del = TRUE, !.gen = @ + 1]
    BY <1>0, <2>3 DEF DeployItems
  <2>4. ASSUME NEW op \in {"reconcile", "abort", "force"}, di' = [di EXCEPT !.op = op]
        PROVE  Kept /\ Asking
    BY <1>0, <2>4 DEF DeployItems
  <2>5. CASE di' = di
    BY <2>5
  <2> HIDE DEF Kept, Asking
  <2> QED BY <1>2, <2>1, <2>2, <2>3, <2>4, <2>5
<1>4. Kept
  BY <1>3
<1>5. Asking
  BY <1>3
<1>6. di.obs \in Nat /\ di.gen \in Nat /\ di.obs <= di.gen
  BY <1>0, ItemFields DEF IInv, RunInv, GenerationsInv
<1>7. /\ Asked' \/ di'.op \in {"abort", "force"} \/ (di' = di /\ (Asked => Asked'))
      /\ Asked' \/ di'.spec = di.spec
  BY <1>1, <1>5, <1>6 DEF Asked
<1> HIDE DEF Asking
<1> QED BY <1>1, <1>4, <1>7 DEF Contract!Annotate, Applied, Clean

\* Every step of the three controllers is a step of the contract or changes
\* nothing it speaks about.
LEMMA StepMaps ==
    ASSUME IInv, PhaseInv, [Next]_vars
    PROVE  [Contract!Next]_(Contract!vars)
<1> USE DEF Contract!Next
<1>0. di \in DeployItems
  BY DEF IInv, TypeOK
<1>1. CASE Get \/ CheckReady \/ WriteExports \/ Delete
  BY <1>1, Stutters DEF Get, CheckReady, WriteExports, Delete, Proceed, Leave, target
<1>2. CASE Prepare \/ ShouldReconcileHook
  BY <1>2, StartMaps
<1>3. CASE DropAnnotations
  BY <1>3, DropMaps
<1>4. CASE AddFinalizer \/ Apply \/ Vanish
  BY <1>4, WorkMaps
<1>5. CASE StoreProgress \/ Publish \/ HandleError
  BY <1>5, ReportMaps
<1>6. CASE RemoveFinalizer
  <2>1. di' = Gone \/ UNCHANGED <<di, cluster, due>>
    BY <1>6 DEF RemoveFinalizer, Accepted, Leave, target
  <2> QED BY <1>6, <2>1, RemoveMaps, Stutters
<1>7. CASE FailPickup \/ FailAbort \/ ForgetAbort \/ SetAbort
  BY <1>7, TimeoutMaps
<1>8. CASE \E deadline \in Timeouts : Expire(deadline)
  <2>1. UNCHANGED <<cluster, due>>
    BY <1>8 DEF Expire, TimePasses, target
  <2>2. \/ di.rts = "fresh" /\ di' = [di EXCEPT !.rts = "expired"]
        \/ di' = [di EXCEPT !.ats = "expired"]
        \/ di' = [di EXCEPT !.lrt = "expired"]
    BY <1>8 DEF Expire, TimePasses
  <2>3. /\ di'.live = di.live /\ di'.del = di.del /\ di'.phase = di.phase
        /\ di'.spec = di.spec /\ di'.fin = di.fin /\ di'.managed = di.managed
        /\ di'.obs = di.obs /\ di'.gen = di.gen /\ di'.op = di.op
        /\ (di'.rts # "none") = (di.rts # "none")
    BY <1>0, <2>2 DEF DeployItems
  <2>4. UNCHANGED Contract!vars
    BY <2>1, <2>3 DEF Contract!vars, Asked, Applied, Clean
  <2> QED BY <2>4
<1>9. CASE Trigger \/ RequestDeletion \/ BecomesDue
           \/ \E op \in {"reconcile", "abort", "force"} : SetOperation(op)
  <2>1. CASE di' # Gone
    BY <1>9, <2>1, RequestMaps
  <2>2. CASE di' = Gone
    <3>1. di.live /\ ~Gone.live
      BY <1>9 DEF Trigger, RequestDeletion, BecomesDue, SetOperation, Gone, NewDeployItem
    <3>2. RequestDeletion
      BY <1>0, <1>9, <2>2, <3>1
         DEF Trigger, BecomesDue, SetOperation, Written, DeployItems
    <3> QED BY <2>2, <3>2, RemoveMaps
  <2> QED BY <2>1, <2>2
<1>10. CASE CheckDeadlines \/ DeployerCrash \/ WatcherCrash \/ UNCHANGED vars
  BY <1>10, Stutters DEF CheckDeadlines, DeployerCrash, WatcherCrash, target, vars
<1> QED
  BY <1>1, <1>2, <1>3, <1>4, <1>5, <1>6, <1>7, <1>8, <1>9, <1>10, Zenon
     DEF Next, Deployer, Watcher, Environment

\* The life of a DeployItem between its three controllers implements the deployer
\* contract: a request is taken away only after it was picked up or replaced, a
\* final phase is left only through a start, success is reported of what is
\* deployed, and the item goes when what its status lists is gone.
THEOREM ContractImplemented == SafetySpec => ImplementsContract
<1>1. IInv /\ PhaseInv /\ [Next]_vars => [Contract!Next]_(Contract!vars)
  BY StepMaps
<1> QED
  BY InitMaps, InitInv, InitPhaseInv, InvStep, PhaseInvStep, <1>1, PTL
     DEF SafetySpec, ImplementsContract, Contract!Spec
=============================================================================
