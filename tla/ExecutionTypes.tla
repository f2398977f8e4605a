--------------------------- MODULE ExecutionTypes ----------------------------
(***************************************************************************)
(* Type correctness of the execution controller, for every number of       *)
(* templates, every dependency graph, every kind and number of events and  *)
(* with or without lagging informer caches: one lemma per operator that    *)
(* builds an object and one per action.                                    *)
(***************************************************************************)
EXTENDS Execution, TLAPS

\* The loop over the templates is inside the list whenever an item is applied
\* or recorded.
InLoop == pc \in {"apply", "record"} => loc.at <= Len(Order)

TypeInv == TypeOK /\ InLoop

-----------------------------------------------------------------------------
(* Facts about the operators the model is built from.                      *)

\* The list of templates is not empty and holds names of templates.
LEMMA OrderFacts ==
    /\ Len(Order) \in Nat /\ Len(Order) > 0
    /\ \A k \in 1..Len(Order) : Order[k] \in Names
BY OrderAssumption, BoundsAssumption

\* Combining phases, or replacing one for an error, gives a phase.
LEMMA PhaseFacts ==
    /\ NoPhase \in Phase
    /\ \A S : CombinedPhase(S) \in Phase
    /\ \A p \in Phase, e \in {"none", "recent", "lasting"} :
          PhaseForLastError(p, e) \in Phase
BY DEF NoPhase, Phase, RunningPhases, CompletedPhases, CombinedPhase,
       PhaseForLastError

\* The phases, spelled out.
LEMMA PhaseNames ==
    {"Progressing", "Pending", "Deleting", "Failed", "Aborted", "Succeeded",
     "Init", ""} = Phase
BY DEF NoPhase, Phase, RunningPhases, CompletedPhases

\* What a new execution, an absent item and a fresh Reconcile look like.
LEMMA NewTypes ==
    /\ Spec0 \in [Names -> 0..MaxGen]
    /\ NewExecution \in Executions
    /\ NoItem \in DeployItems
    /\ Missing \in ItemCopies
    /\ Locals \in LocalVars
<1>1. Spec0 \in [Names -> 0..MaxGen]
  BY BoundsAssumption DEF Spec0
<1>2. NoRef \in Refs
  BY BoundsAssumption DEF NoRef, Refs
<1>3. NewExecution \in Executions
  BY <1>1, <1>2, PhaseFacts DEF NewExecution, Executions, Ops
<1>4. NoItem \in DeployItems
  BY OrderFacts, PhaseFacts, BoundsAssumption DEF NoItem, DeployItems, Ops
<1>5. Missing \in ItemCopies
  BY PhaseFacts, BoundsAssumption DEF Missing, ItemCopies
<1>6. Locals \in LocalVars
  BY <1>1, <1>2, <1>3, <1>5, OrderFacts, PhaseFacts
     DEF Locals, LocalVars, Status, Executions
<1> QED BY <1>1, <1>3, <1>4, <1>5, <1>6

\* What the controller keeps of a deploy item has the type of a copy.
LEMMA CopyType ==
    ASSUME NEW i \in 0..MaxItems, NEW d \in DeployItems
    PROVE  Copy(i, d) \in ItemCopies
BY DEF Copy, DeployItems, ItemCopies

\* A deploy item that was deleted, marked or gone, is a deploy item.
LEMMA DeletedType ==
    ASSUME NEW d \in DeployItems
    PROVE  Deleted(d) \in DeployItems
<1>1. d.gen + 1 \in Nat
  BY DEF DeployItems
<1>2. [d EXCEPT !.del = TRUE, !.gen = d.gen + 1] \in DeployItems
  BY <1>1 DEF DeployItems
<1> QED BY <1>2, NewTypes, Zenon DEF Deleted

\* A status can be taken from an execution and written to another one.
LEMMA StatusType ==
    ASSUME NEW o \in Executions
    PROVE  Status(o) \in [obs : Nat, phase : Phase,
                          err : {"none", "recent", "lasting"},
                          refs : [Names -> Refs], egens : [Names -> Nat],
                          exported : BOOLEAN]
BY DEF Status, Executions

\* Whether or not a cache lags, the controller sees well-typed objects.
LEMMA ViewType ==
    ASSUME TypeOK
    PROVE  ViewExec \in Executions /\ ViewItems \in [Items -> DeployItems]
BY DEF TypeOK, ViewExec, ViewItems

Errors == {"none", "recent", "lasting"}

\* Assigning a value of its type to a field keeps the type of the object.
LEMMA ExecutionFields ==
    ASSUME NEW e \in Executions
    PROVE  /\ \A x \in BOOLEAN : [e EXCEPT !.live = x] \in Executions
           /\ \A x \in Nat \ {0} : [e EXCEPT !.gen = x] \in Executions
           /\ \A x \in BOOLEAN : [e EXCEPT !.del = x] \in Executions
           /\ \A x \in BOOLEAN : [e EXCEPT !.fin = x] \in Executions
           /\ \A x \in Ops : [e EXCEPT !.op = x] \in Executions
           /\ \A x \in [Names -> 0..MaxGen] : [e EXCEPT !.spec = x] \in Executions
           /\ \A x \in Nat : [e EXCEPT !.obs = x] \in Executions
           /\ \A x \in Phase : [e EXCEPT !.phase = x] \in Executions
           /\ \A x \in Errors : [e EXCEPT !.err = x] \in Executions
           /\ \A x \in [Names -> Refs] : [e EXCEPT !.refs = x] \in Executions
           /\ \A x \in [Names -> Nat] : [e EXCEPT !.egens = x] \in Executions
           /\ \A x \in BOOLEAN : [e EXCEPT !.exported = x] \in Executions
BY DEF Executions, Errors

\* Each field of a deploy item can be replaced.
LEMMA ItemFields ==
    ASSUME NEW d \in DeployItems
    PROVE  /\ \A x \in BOOLEAN : [d EXCEPT !.live = x] \in DeployItems
           /\ \A x \in Names : [d EXCEPT !.tmpl = x] \in DeployItems
           /\ \A x \in Nat : [d EXCEPT !.gen = x] \in DeployItems
           /\ \A x \in 0..MaxGen : [d EXCEPT !.spec = x] \in DeployItems
           /\ \A x \in Ops : [d EXCEPT !.op = x] \in DeployItems
           /\ \A x \in BOOLEAN : [d EXCEPT !.del = x] \in DeployItems
           /\ \A x \in BOOLEAN : [d EXCEPT !.fin = x] \in DeployItems
           /\ \A x \in Nat : [d EXCEPT !.obs = x] \in DeployItems
           /\ \A x \in Phase : [d EXCEPT !.phase = x] \in DeployItems
           /\ \A x \in BOOLEAN : [d EXCEPT !.pickup = x] \in DeployItems
           /\ \A x \in 0..MaxGen : [d EXCEPT !.out = x] \in DeployItems
BY DEF DeployItems

\* Each local variable of Reconcile can be replaced.
LEMMA LocalFields ==
    ASSUME NEW v \in LocalVars
    PROVE  /\ \A x \in Executions : [v EXCEPT !.old = Status(x)] \in LocalVars
           /\ \A x \in BOOLEAN : [v EXCEPT !.force = x] \in LocalVars
           /\ \A x \in [Names -> 0..MaxGen] : [v EXCEPT !.tspec = x] \in LocalVars
           /\ \A x \in [Names -> ItemCopies] : [v EXCEPT !.items = x] \in LocalVars
           /\ \A x \in 1..(Len(Order) + 1) : [v EXCEPT !.at = x] \in LocalVars
           /\ \A x \in Phase : [v EXCEPT !.acc = x] \in LocalVars
           /\ \A x \in Refs : [v EXCEPT !.ref = x] \in LocalVars
           /\ \A x \in BOOLEAN : [v EXCEPT !.err = x] \in LocalVars
           /\ \A x \in BOOLEAN : [v EXCEPT !.touched = x] \in LocalVars
           /\ \A x \in BOOLEAN : [v EXCEPT !.allDeleted = x] \in LocalVars
BY StatusType DEF LocalVars

-----------------------------------------------------------------------------
\* The initial state is well-typed.
LEMMA TypeInit == Init => TypeInv
<1> SUFFICES ASSUME Init PROVE TypeInv OBVIOUS
<1>1. di \in [Items -> DeployItems]
  BY NewTypes DEF Init
<1>2. exports \in [Names -> 0..MaxGen]
  BY BoundsAssumption DEF Init
<1>3. /\ exec \in Executions /\ cexec \in Executions /\ l \in Executions
      /\ citems \in [Items -> DeployItems] /\ loc \in LocalVars
  <2>1. exec = NewExecution /\ cexec = exec /\ l = NewExecution
        /\ citems = di /\ loc = Locals
    BY DEF Init
  <2> QED BY <2>1, <1>1, NewTypes
<1>4. /\ next \in 1..(MaxItems + 1) /\ budget \in 0..MaxEvents
      /\ queued \in BOOLEAN /\ cur \in BOOLEAN /\ done \subseteq Names
  <2>1. next = 1 /\ budget = MaxEvents
    BY DEF Init
  <2>2. queued = TRUE /\ cur = FALSE /\ done = {}
    BY DEF Init
  <2>3. 1 \in 1..(MaxItems + 1) /\ MaxEvents \in 0..MaxEvents
    BY BoundsAssumption
  <2> QED BY <2>1, <2>2, <2>3
<1>5. pc \in PCs /\ pc \notin {"apply", "record"}
  BY DEF Init, PCs
<1> QED BY <1>1, <1>2, <1>3, <1>4, <1>5 DEF TypeInv, TypeOK, InLoop

-----------------------------------------------------------------------------
\* An event leaves a number of events.
LEMMA SpendType ==
    ASSUME TypeInv, NEW kind, Spend(kind)
    PROVE  budget' \in 0..MaxEvents
BY BoundsAssumption DEF Spend, TypeInv, TypeOK

\* The places of a run outside the loop.
Outside == PCs \ {"apply", "record"}

\* Update, of an object and with a continuation of the right type.
LEMMA UpdateType ==
    ASSUME TypeInv, NEW o \in Executions, NEW p \in Outside, Update(o, p)
    PROVE  TypeInv'
<1>1. exec' \in Executions /\ l' \in Executions
  BY DEF Update, TypeInv, TypeOK
<1>2. loc' \in LocalVars
  BY LocalFields DEF Update, TypeInv, TypeOK
<1>3. pc' \in Outside
  BY DEF Update, Outside, PCs
<1>4. budget' \in 0..MaxEvents
  BY SpendType DEF Update, Refused, Conflict, TypeInv, TypeOK
<1>5. queued' \in BOOLEAN
  BY DEF Update, Wake
<1> QED
  BY <1>1, <1>2, <1>3, <1>4, <1>5
     DEF Update, caches, TypeInv, TypeOK, InLoop, Outside

\* The end of a Reconcile.
LEMMA ReturnType ==
    ASSUME NEW retry, Return(retry)
    PROVE  /\ pc' \in Outside /\ l' \in Executions /\ cur' \in BOOLEAN
           /\ loc' \in LocalVars /\ queued' \in BOOLEAN
BY NewTypes DEF Return, Wake, Outside, PCs

\* The optimistic writes of HandleAnnotationsAndGeneration and Ensure.
LEMMA FrameTypes ==
    ASSUME TypeInv, ResetPhase \/ DropOperation \/ ForceReset \/ AddFinalizer
    PROVE  TypeInv'
<1>1. CASE ResetPhase
  <2> DEFINE u == [l EXCEPT !.obs = l.gen, !.phase = "Init"]
  <2>1. u \in Executions
    <3>1. l \in Executions /\ l.gen \in Nat
      BY DEF TypeInv, TypeOK, Executions
    <3>2. [l EXCEPT !.obs = l.gen] \in Executions
      BY <3>1, ExecutionFields
    <3> QED BY <3>2, ExecutionFields, PhaseNames
  <2>2. PICK o, p : o = u /\ p \in Outside /\ Update(o, p)
    BY <1>1 DEF ResetPhase, AfterReset, PhaseGate, Ensure, Outside, PCs
  <2> QED BY <2>1, <2>2, UpdateType
<1>2. CASE DropOperation
  <2> DEFINE u == [l EXCEPT !.op = "none"]
  <2>1. u \in Executions
    BY ExecutionFields DEF Ops, TypeInv, TypeOK
  <2>2. PICK o, p : o = u /\ p \in Outside /\ Update(o, p)
    BY <1>2 DEF DropOperation, AfterReset, PhaseGate, Ensure, Outside, PCs
  <2> QED BY <2>1, <2>2, UpdateType
<1>3. CASE ForceReset
  <2> DEFINE u == [l EXCEPT !.phase = "Init"]
  <2>1. u \in Executions
    BY ExecutionFields, PhaseNames DEF TypeInv, TypeOK
  <2>2. PICK o, p : o = u /\ p \in Outside /\ Update(o, p)
    BY <1>3 DEF ForceReset, PhaseGate, Ensure, Outside, PCs
  <2> QED BY <2>1, <2>2, UpdateType
<1>4. CASE AddFinalizer
  <2> DEFINE u == [l EXCEPT !.fin = TRUE]
  <2>1. u \in Executions
    BY ExecutionFields DEF TypeInv, TypeOK
  <2>2. PICK o, p : o = u /\ p \in Outside /\ Update(o, p)
    BY <1>4 DEF AddFinalizer, Outside, PCs
  <2> QED BY <2>1, <2>2, UpdateType
<1> QED BY <1>1, <1>2, <1>3, <1>4

\* Reconcile begins with a well-typed copy of the execution.
LEMMA GetType == ASSUME TypeInv, Get PROVE TypeInv'
<1>1. ViewExec \in Executions
  BY ViewType DEF TypeInv
<1>2. [Locals EXCEPT !.old = Status(ViewExec)] \in LocalVars
  BY <1>1, NewTypes, LocalFields
<1>3. pc' \in Outside
  BY <1>1 DEF Get, Outside, PCs, AfterReset, PhaseGate, Ensure, TypeInv, TypeOK
<1> QED
  BY <1>1, <1>2, <1>3 DEF Get, server, caches, InLoop, Outside, TypeInv, TypeOK

\* HandleErrorFunc stores a well-typed status.
LEMMA HandleErrorType == ASSUME TypeInv, HandleError PROVE TypeInv'
<1> DEFINE kept == loc.err \/ loc.touched \/ l.err # loc.old.err
           e == IF kept THEN l.err ELSE "none"
           o == [l EXCEPT !.err = e, !.phase = PhaseForLastError(l.phase, e)]
<1>1. o \in Executions
  <2>1. l \in Executions /\ l.phase \in Phase /\ e \in Errors
    BY DEF Executions, Errors, TypeInv, TypeOK
  <2>2. [l EXCEPT !.err = e] \in Executions
    BY <2>1, ExecutionFields
  <2>3. PhaseForLastError(l.phase, e) \in Phase
    BY <2>1, PhaseFacts DEF Errors
  <2> QED BY <2>2, <2>3, ExecutionFields
<1>2. WithStatus(exec, o) \in Executions
  <2> HIDE DEF o
  <2>1. exec \in Executions
    BY DEF TypeInv, TypeOK
  <2> QED BY <1>1, <2>1 DEF WithStatus, Executions
<1>3. exec' \in Executions
  BY <1>2 DEF HandleError, TypeInv, TypeOK
<1>4. budget' \in 0..MaxEvents
  BY SpendType DEF HandleError, Refused, Conflict, TypeInv, TypeOK
<1>5. PICK retry : Return(retry)
  BY DEF HandleError
<1> QED
  BY <1>3, <1>4, <1>5, ReturnType
     DEF HandleError, caches, InLoop, Outside, TypeInv, TypeOK

\* The informers copy well-typed objects.
LEMMA SyncType == ASSUME TypeInv, SyncExec \/ SyncItems PROVE TypeInv'
BY DEF SyncExec, SyncItems, Wake, server, InLoop, TypeInv, TypeOK

\* HandleDeployItemPhaseAndGenerationChanges stores a phase.
LEMMA RecheckType == ASSUME TypeInv, Recheck PROVE TypeInv'
<1> DEFINE items == ViewItems
           cp == CombinedPhase({items[l.refs[t].id].phase : t \in Referenced})
           p == IF Outdated(items) THEN "Progressing" ELSE cp
           o == [l EXCEPT !.phase = p]
           copies == [t \in Names |-> IF t \in Referenced
                        THEN Copy(l.refs[t].id, items[l.refs[t].id]) ELSE Missing]
<1>1. o \in Executions
  <2>1. p \in Phase
    BY PhaseFacts, PhaseNames
  <2> QED BY <2>1, ExecutionFields DEF TypeInv, TypeOK
<1>2. copies \in [Names -> ItemCopies]
  <2> SUFFICES ASSUME NEW t \in Names, t \in Referenced
               PROVE  Copy(l.refs[t].id, items[l.refs[t].id]) \in ItemCopies
    BY NewTypes
  <2>1. l.refs[t].id \in 0..MaxItems /\ l.refs[t].id # 0
    BY DEF Referenced, TypeInv, TypeOK, Executions, Refs
  <2>2. l.refs[t].id \in Items
    BY <2>1, BoundsAssumption DEF Items
  <2>3. items[l.refs[t].id] \in DeployItems
    BY <2>2, ViewType DEF TypeInv
  <2> QED BY <2>1, <2>3, CopyType
<1>3. [loc EXCEPT !.items = copies] \in LocalVars
  BY <1>2, LocalFields DEF TypeInv, TypeOK
<1> HIDE DEF items, cp, p, o, copies
<1>4. /\ UNCHANGED <<di, next, exports, caches, done>>
      /\ exec' = exec \/ exec' = o
      /\ UNCHANGED budget \/ Spend("apiError")
      /\ \/ \E retry : Return(retry)
         \/ /\ l' = o /\ cur' = cur
            /\ pc' \in {"rexport", "deleteList", "finalizer", "list"}
            /\ loc' = [loc EXCEPT !.items = copies]
            /\ Wake(queued)
  BY DEF Recheck, items, cp, p, o, copies, Ensure, server, Refused, Conflict
<1>5. exec' \in Executions
  BY <1>1, <1>4 DEF TypeInv, TypeOK
<1>6. budget' \in 0..MaxEvents
  BY <1>4, SpendType DEF TypeInv, TypeOK
<1>7. /\ pc' \in Outside /\ l' \in Executions /\ cur' \in BOOLEAN
      /\ loc' \in LocalVars /\ queued' \in BOOLEAN
  BY <1>1, <1>3, <1>4, ReturnType DEF Outside, PCs, Wake, TypeInv, TypeOK
<1> QED
  BY <1>4, <1>5, <1>6, <1>7 DEF caches, InLoop, Outside, TypeInv, TypeOK

\* The exported data is of versions that existed.
LEMMA CollectedType ==
    ASSUME TypeInv, NEW spec \in [Names -> 0..MaxGen], AllPresent(spec)
    PROVE  Collected(spec) \in [Names -> 0..MaxGen]
<1> SUFFICES ASSUME NEW t \in Names
             PROVE  /\ t \in Exporting(spec) /\ di[loc.items[t].id].live
                          => di[loc.items[t].id].out \in 0..MaxGen
                    /\ loc.items[t].out \in 0..MaxGen
  BY BoundsAssumption DEF Collected
<1>1. loc.items[t] \in ItemCopies
  BY DEF TypeInv, TypeOK, LocalVars
<1>2. ASSUME t \in Exporting(spec)
      PROVE  di[loc.items[t].id].out \in 0..MaxGen
  <2>1. loc.items[t].id \in Items
    BY <1>1, <1>2, BoundsAssumption
       DEF ItemCopies, Items, Exporting, AllPresent
  <2> QED BY <2>1 DEF TypeInv, TypeOK, DeployItems
<1> QED BY <1>1, <1>2 DEF ItemCopies

\* The state of a controller that has just started.
LEMMA RestartType ==
    ASSUME TypeInv, Restart
    PROVE  /\ pc' \in Outside /\ l' \in Executions /\ cur' \in BOOLEAN
           /\ loc' \in LocalVars /\ queued' \in BOOLEAN
           /\ cexec' \in Executions /\ citems' \in [Items -> DeployItems]
BY NewTypes DEF Restart, Outside, PCs, TypeInv, TypeOK

\* The exports after a recheck.
LEMMA ExportAgainType == ASSUME TypeInv, ExportAgain PROVE TypeInv'
<1>1. l.spec \in [Names -> 0..MaxGen]
  BY DEF TypeInv, TypeOK, Executions
<1>2. [l EXCEPT !.exported = TRUE] \in Executions
  BY ExecutionFields DEF TypeInv, TypeOK
<1>3. exec' \in Executions
  BY <1>2 DEF ExportAgain, TypeInv, TypeOK
<1>4. exports' \in [Names -> 0..MaxGen]
  BY <1>1, CollectedType DEF ExportAgain, TypeInv, TypeOK
<1>5. budget' \in 0..MaxEvents
  BY SpendType DEF ExportAgain, TypeInv, TypeOK
<1>6. Restart \/ (UNCHANGED caches /\ \E retry : Return(retry))
  BY DEF ExportAgain
<1>7. /\ pc' \in Outside /\ l' \in Executions /\ cur' \in BOOLEAN
      /\ loc' \in LocalVars /\ queued' \in BOOLEAN
      /\ cexec' \in Executions /\ citems' \in [Items -> DeployItems]
  BY <1>6, RestartType, ReturnType DEF caches, TypeInv, TypeOK
<1> QED
  BY <1>3, <1>4, <1>5, <1>7 DEF ExportAgain, InLoop, Outside, TypeInv, TypeOK

\* The exports at the end of a Reconcile.
LEMMA ExportType == ASSUME TypeInv, Export PROVE TypeInv'
<1> DEFINE o == [l EXCEPT !.exported = TRUE]
<1>1. loc.tspec \in [Names -> 0..MaxGen]
  BY DEF TypeInv, TypeOK, LocalVars
<1>2. o \in Executions /\ [o EXCEPT !.phase = "Succeeded"] \in Executions
  <2>1. o \in Executions
    BY ExecutionFields DEF TypeInv, TypeOK
  <2> QED BY <2>1, ExecutionFields, PhaseNames
<1>3. \A b \in BOOLEAN : [loc EXCEPT !.err = b] \in LocalVars
  BY LocalFields DEF TypeInv, TypeOK
<1> HIDE DEF o
<1>4. CASE Restart /\ UNCHANGED <<exec, exports>>
  BY <1>4, RestartType DEF Export, InLoop, Outside, TypeInv, TypeOK
<1>5. CASE /\ Fail /\ Wake(queued)
           /\ UNCHANGED <<exec, exports, caches>>
  BY <1>3, <1>5
     DEF Export, Fail, Goto, Wake, caches, PCs, InLoop, TypeInv, TypeOK
<1>6. CASE /\ AllPresent(loc.tspec)
           /\ exports' = Collected(loc.tspec)
           /\ exec' = IF cur THEN o ELSE exec
           /\ l' = IF cur THEN [o EXCEPT !.phase = "Succeeded"] ELSE o
           /\ cur' = cur
           /\ loc' = [loc EXCEPT !.err = ~cur]
           /\ pc' = "finish"
           /\ UNCHANGED caches
           /\ Wake(queued)
  <2>1. exports' \in [Names -> 0..MaxGen]
    BY <1>1, <1>6, CollectedType
  <2>2. exec' \in Executions /\ l' \in Executions
    BY <1>2, <1>6 DEF TypeInv, TypeOK
  <2>3. loc' \in LocalVars
    BY <1>3, <1>6
  <2> QED
    BY <1>6, <2>1, <2>2, <2>3
       DEF Export, Wake, caches, PCs, InLoop, TypeInv, TypeOK
<1> QED BY <1>4, <1>5, <1>6 DEF Export, o

-----------------------------------------------------------------------------
\* What getExecutionItems returns.
LEMMA CopiesType ==
    ASSUME TypeInv, NEW a \in Assignments(ViewItems)
    PROVE  Copies(a, ViewItems) \in [Names -> ItemCopies]
<1> SUFFICES ASSUME NEW t \in Names, a[t] # 0
             PROVE  Copy(a[t], ViewItems[a[t]]) \in ItemCopies
  BY NewTypes DEF Copies
<1>1. a[t] \in 0..MaxItems
  BY DEF Assignments
<1>2. a[t] \in Items
  BY <1>1, BoundsAssumption DEF Items
<1> QED BY <1>1, <1>2, ViewType, CopyType DEF TypeInv

\* Listing the items and deleting the orphans.
LEMMA ListItemsType == ASSUME TypeInv, ListItems PROVE TypeInv'
<1> DEFINE orphans(a) == Orphans(a, ViewItems)
           doomed(a) == {i \in orphans(a) : /\ ~ViewItems[i].del
                                           /\ GCDeletable(i, orphans(a), ViewItems)}
<1>1. PICK a \in Assignments(ViewItems) :
        /\ di' = [i \in Items |-> IF i \in doomed(a) /\ di[i].live
                                  THEN Deleted(di[i]) ELSE di[i]]
        /\ loc' = [loc EXCEPT !.force = (l.op = "force"), !.tspec = l.spec,
                              !.items = Copies(a, ViewItems), !.at = 1,
                              !.acc = NoPhase, !.err = (orphans(a) # {})]
        /\ pc' = IF orphans(a) = {} THEN "loop" ELSE "finish"
  BY Zenon DEF ListItems
<1> HIDE DEF orphans, doomed
<1>2. di' \in [Items -> DeployItems]
  BY <1>1, DeletedType DEF TypeInv, TypeOK
<1>3. loc' \in LocalVars
  <2> DEFINE v1 == [loc EXCEPT !.force = (l.op = "force")]
             v2 == [v1 EXCEPT !.tspec = l.spec]
             v3 == [v2 EXCEPT !.items = Copies(a, ViewItems)]
             v4 == [v3 EXCEPT !.at = 1]
             v5 == [v4 EXCEPT !.acc = NoPhase]
  <2>1. v1 \in LocalVars
    BY LocalFields DEF TypeInv, TypeOK
  <2>2. l.spec \in [Names -> 0..MaxGen]
    BY DEF TypeInv, TypeOK, Executions
  <2>3. v2 \in LocalVars
    BY <2>1, <2>2, LocalFields
  <2>4. v3 \in LocalVars
    BY <2>3, CopiesType, LocalFields
  <2>5. 1 \in 1..(Len(Order) + 1)
    BY OrderFacts
  <2>6. v4 \in LocalVars
    BY <2>4, <2>5, LocalFields
  <2>7. v5 \in LocalVars
    BY <2>6, PhaseFacts, LocalFields
  <2>8. [v5 EXCEPT !.err = (orphans(a) # {})] \in LocalVars
    BY <2>7, LocalFields
  <2> QED BY <1>1, <2>8
<1>4. l' \in Executions
  BY ExecutionFields, PhaseNames DEF ListItems, TypeInv, TypeOK
<1>5. pc' \in Outside
  BY <1>1 DEF Outside, PCs
<1> QED
  BY <1>2, <1>3, <1>4, <1>5
     DEF ListItems, Continue, Wake, caches, InLoop, Outside, TypeInv, TypeOK

\* The loop over the templates stays inside the list.
LEMMA LoopType == ASSUME TypeInv, LoopItem \/ EndLoop PROVE TypeInv'
<1>1. ASSUME NEW acc \in Phase, loc.at <= Len(Order), NextItem(acc)
      PROVE  loc' \in LocalVars
  <2>1. loc \in LocalVars /\ loc.at + 1 \in 1..(Len(Order) + 1)
    BY <1>1, OrderFacts DEF TypeInv, TypeOK, LocalVars
  <2>2. [loc EXCEPT !.at = loc.at + 1] \in LocalVars
    BY <2>1, LocalFields
  <2> QED BY <1>1, <2>2, LocalFields DEF NextItem
<1>2. loc.acc \in Phase
  BY DEF TypeInv, TypeOK, LocalVars
<1>3. ASSUME FailWithItem
      PROVE  l' \in Executions /\ cur' \in BOOLEAN /\ loc' \in LocalVars
             /\ pc' \in Outside
  <2>1. PICK e \in {"recent", "lasting"} :
           l' = [l EXCEPT !.obs = l.gen, !.phase = "Failed", !.err = e]
    BY <1>3 DEF FailWithItem
  <2>2. l \in Executions /\ l.gen \in Nat
    BY DEF TypeInv, TypeOK, Executions
  <2>3. [l EXCEPT !.obs = l.gen] \in Executions
    BY <2>2, ExecutionFields
  <2>4. [l EXCEPT !.obs = l.gen, !.phase = "Failed"] \in Executions
    BY <2>3, ExecutionFields, PhaseNames
  <2>5. l' \in Executions
    BY <2>1, <2>4, ExecutionFields DEF Errors
  <2>6. loc' \in LocalVars
    BY <1>3, LocalFields DEF FailWithItem, TypeInv, TypeOK
  <2> QED
    BY <1>3, <2>5, <2>6 DEF FailWithItem, Outside, PCs, TypeInv, TypeOK
<1>4. ASSUME LoopItem
      PROVE  /\ l' \in Executions /\ cur' \in BOOLEAN /\ loc' \in LocalVars
             /\ pc' \in PCs
             /\ pc' \in {"apply", "record"} => loc' = loc /\ loc.at <= Len(Order)
  <2> DEFINE t == Order[loc.at]
  <2>0. loc.at <= Len(Order)
    BY <1>4 DEF LoopItem
  <2>1. CASE \E acc \in Phase : NextItem(acc) /\ Goto("loop")
    BY <1>1, <2>0, <2>1 DEF Goto, PCs, TypeInv, TypeOK
  <2>2. CASE FollowItem(t)
    <3>1. CASE FailWithItem
      BY <1>3, <3>1 DEF Outside
    <3>2. CASE /\ l' = [l EXCEPT !.phase = "Progressing"] /\ cur' = cur
               /\ NextItem("Progressing") /\ pc' = "loop"
      BY <1>1, <2>0, <3>2, ExecutionFields, PhaseNames DEF PCs, TypeInv, TypeOK
    <3>3. CASE \E S : NextItem(CombinedPhase(S)) /\ Goto("loop")
      BY <1>1, <2>0, <3>3, PhaseFacts DEF Goto, PCs, TypeInv, TypeOK
    <3> QED BY <2>2, <3>1, <3>2, <3>3 DEF FollowItem
  <2>3. CASE loc' = loc /\ Goto("apply")
    BY <2>0, <2>3 DEF Goto, PCs, TypeInv, TypeOK
  <2> QED BY <1>2, <1>4, <2>1, <2>2, <2>3 DEF LoopItem
<1>5. ASSUME EndLoop
      PROVE  /\ l' \in Executions /\ cur' \in BOOLEAN /\ loc' \in LocalVars
             /\ pc' \in Outside
  BY <1>5 DEF EndLoop, Goto, AfterLoop, Outside, PCs, TypeInv, TypeOK
<1>6. LocalStep
  BY DEF LoopItem, EndLoop
<1> QED
  BY <1>4, <1>5, <1>6
     DEF LocalStep, Wake, server, caches, InLoop, Outside, TypeInv, TypeOK

\* An applied template gives a deploy item, new or changed.
LEMMA TriggeredType ==
    ASSUME NEW d \in DeployItems, NEW version \in 0..MaxGen
    PROVE  Triggered(d, version) \in DeployItems
<1> DEFINE d1 == [d EXCEPT !.op = "reconcile"]
           d2 == [d1 EXCEPT !.spec = version]
           g == IF d.spec = version THEN d.gen ELSE d.gen + 1
<1>1. d2 \in DeployItems
  BY ItemFields DEF Ops
<1>2. g \in Nat
  BY DEF DeployItems
<1>3. [d2 EXCEPT !.gen = g] \in DeployItems
  BY <1>1, <1>2, ItemFields
<1>4. Triggered(d, version) = [d2 EXCEPT !.gen = g]
  BY DEF Triggered, DeployItems
<1> QED BY <1>3, <1>4

\* deployOrTrigger stores a well-typed deploy item.
LEMMA ApplyItemType == ASSUME TypeInv, ApplyItem PROVE TypeInv'
<1> DEFINE t == Order[loc.at]
           i == loc.items[t].id
           version == loc.tspec[t]
<1>1. loc.at \in 1..Len(Order) /\ t \in Names
  <2>1. pc = "apply" /\ loc.at \in 1..(Len(Order) + 1)
    BY DEF ApplyItem, TypeInv, TypeOK, LocalVars
  <2>2. loc.at <= Len(Order)
    BY <2>1 DEF InLoop, TypeInv
  <2>3. loc.at \in 1..Len(Order)
    BY <2>1, <2>2, OrderFacts
  <2> QED BY <2>3, OrderFacts
<1>2. version \in 0..MaxGen /\ i \in 0..MaxItems
  BY <1>1 DEF TypeInv, TypeOK, LocalVars, ItemCopies
<1> HIDE DEF version, i, t
<1>3. ASSUME /\ i = 0 /\ next <= MaxItems
             /\ di' = [di EXCEPT ![next] = NewItem(t, version)]
             /\ next' = next + 1
             /\ loc' = [loc EXCEPT !.ref = [id |-> next, gen |-> 1]]
             /\ Goto("record")
      PROVE  /\ di' \in [Items -> DeployItems] /\ next' \in 1..(MaxItems + 1)
             /\ loc' \in LocalVars /\ loc'.at = loc.at
  <2>1. next \in Items /\ next' \in 1..(MaxItems + 1) /\ next \in 0..MaxItems
    BY <1>3, BoundsAssumption DEF Items, TypeInv, TypeOK
  <2>2. NewItem(t, version) \in DeployItems
    BY <1>1, <1>2, NewTypes DEF NewItem, DeployItems, Ops
  <2>3. [id |-> next, gen |-> 1] \in Refs
    BY <2>1 DEF Refs
  <2>4. loc' \in LocalVars
    BY <1>3, <2>3, LocalFields DEF TypeInv, TypeOK
  <2>5. loc'.at = loc.at
    BY <1>3 DEF TypeInv, TypeOK, LocalVars
  <2> QED BY <1>3, <2>1, <2>2, <2>4, <2>5 DEF TypeInv, TypeOK
<1>4. ASSUME i # 0,
             NEW d, d = Triggered(di[i], version),
             di' = [di EXCEPT ![i] = d],
             loc' = [loc EXCEPT !.ref = [id |-> i, gen |-> d.gen],
                                !.items[t] = Copy(i, d)]
      PROVE  /\ di' \in [Items -> DeployItems]
             /\ loc' \in LocalVars /\ loc'.at = loc.at
  <2>1. i \in Items
    BY <1>2, <1>4, BoundsAssumption DEF Items
  <2>2. di[i] \in DeployItems
    BY <2>1 DEF TypeInv, TypeOK
  <2>3. d \in DeployItems
    BY <1>2, <1>4, <2>2, TriggeredType
  <2>4. Copy(i, d) \in ItemCopies /\ [id |-> i, gen |-> d.gen] \in Refs
    BY <1>2, <2>3, CopyType DEF DeployItems, Refs
  <2>5. [loc.items EXCEPT ![t] = Copy(i, d)] \in [Names -> ItemCopies]
    BY <2>4 DEF TypeInv, TypeOK, LocalVars
  <2>6. [loc EXCEPT !.ref = [id |-> i, gen |-> d.gen]] \in LocalVars
    BY <2>4, LocalFields DEF TypeInv, TypeOK
  <2>7. loc' = [[loc EXCEPT !.ref = [id |-> i, gen |-> d.gen]]
                  EXCEPT !.items = [loc.items EXCEPT ![t] = Copy(i, d)]]
    BY <1>4 DEF TypeInv, TypeOK, LocalVars
  <2>8. loc' \in LocalVars
    BY <2>5, <2>6, <2>7, LocalFields
  <2>9. loc'.at = loc.at
    BY <2>7 DEF TypeInv, TypeOK, LocalVars
  <2> QED BY <1>4, <2>1, <2>3, <2>8, <2>9 DEF TypeInv, TypeOK
<1>5. ASSUME UNCHANGED <<di, next>>, Fail
      PROVE  di' \in [Items -> DeployItems] /\ loc' \in LocalVars
  BY <1>5, LocalFields DEF Fail, TypeInv, TypeOK
<1>6. \/ /\ i = 0 /\ next <= MaxItems
         /\ di' = [di EXCEPT ![next] = NewItem(t, version)]
         /\ next' = next + 1
         /\ loc' = [loc EXCEPT !.ref = [id |-> next, gen |-> 1]]
         /\ Goto("record")
      \/ /\ i # 0
         /\ \E d : /\ d = Triggered(di[i], version)
                   /\ di' = [di EXCEPT ![i] = d]
                   /\ loc' = [loc EXCEPT !.ref = [id |-> i, gen |-> d.gen],
                                         !.items[t] = Copy(i, d)]
         /\ next' = next
         /\ Goto("record")
      \/ UNCHANGED <<di, next>> /\ Fail
  BY Zenon DEF ApplyItem, i, t, version
<1>7. /\ di' \in [Items -> DeployItems] /\ next' \in 1..(MaxItems + 1)
      /\ loc' \in LocalVars
      /\ pc' \in PCs /\ (pc' \in {"apply", "record"} => loc'.at = loc.at)
  BY <1>3, <1>4, <1>5, <1>6 DEF Goto, Fail, PCs, TypeInv, TypeOK
<1>8. l' = l /\ cur' = cur
  BY <1>6 DEF Goto, Fail
<1> QED
  BY <1>1, <1>7, <1>8
     DEF ApplyItem, Continue, Wake, caches, InLoop, TypeInv, TypeOK

\* What deployOrTrigger records, in memory and at the server.
LEMMA RecordedType ==
    ASSUME TypeInv, pc = "record"
    PROVE  Recorded \in Executions /\ Patched \in Executions
<1>1. Order[loc.at] \in Names
  <2>1. loc.at \in 1..(Len(Order) + 1) /\ loc.at <= Len(Order)
    BY DEF InLoop, TypeInv, TypeOK, LocalVars
  <2> QED BY <2>1, OrderFacts
<1>2. l \in Executions /\ exec \in Executions /\ loc.ref \in Refs /\ l.gen \in Nat
  BY DEF TypeInv, TypeOK, LocalVars, Executions
<1> DEFINE r == [l.refs EXCEPT ![Order[loc.at]] = loc.ref]
           g == [l.egens EXCEPT ![Order[loc.at]] = l.gen]
<1>3. r \in [Names -> Refs] /\ g \in [Names -> Nat]
  BY <1>1, <1>2 DEF Executions
<1>4. Recorded = [[[l EXCEPT !.refs = r] EXCEPT !.egens = g] EXCEPT !.phase = "Progressing"]
  BY <1>2 DEF Recorded, Executions
<1> HIDE DEF r, g
<1>5. Recorded \in Executions
  <2>1. [l EXCEPT !.refs = r] \in Executions
    BY <1>2, <1>3, ExecutionFields
  <2>2. [[l EXCEPT !.refs = r] EXCEPT !.egens = g] \in Executions
    BY <1>3, <2>1, ExecutionFields
  <2> QED BY <1>4, <2>2, ExecutionFields, PhaseNames
<1>6. Patched \in Executions
  <2> DEFINE pr == IF Recorded.refs # l.refs THEN Recorded.refs ELSE exec.refs
             pg == IF Recorded.egens # l.egens THEN Recorded.egens ELSE exec.egens
             pp == IF Recorded.phase # l.phase THEN Recorded.phase ELSE exec.phase
  <2>1. pr \in [Names -> Refs] /\ pg \in [Names -> Nat] /\ pp \in Phase
    BY <1>2, <1>5 DEF Executions
  <2>2. Patched = [[[exec EXCEPT !.refs = pr] EXCEPT !.egens = pg] EXCEPT !.phase = pp]
    BY <1>2 DEF Patched, Executions
  <2> HIDE DEF pr, pg, pp
  <2>3. [exec EXCEPT !.refs = pr] \in Executions
    BY <1>2, <2>1, ExecutionFields
  <2>4. [[exec EXCEPT !.refs = pr] EXCEPT !.egens = pg] \in Executions
    BY <2>1, <2>3, ExecutionFields
  <2> QED BY <2>1, <2>2, <2>4, ExecutionFields
<1> QED BY <1>5, <1>6

\* The patch of the status, and the answer that replaces l.
LEMMA RecordItemType == ASSUME TypeInv, RecordItem PROVE TypeInv'
<1>1. Patched \in Executions
  BY RecordedType DEF RecordItem
<1>2. loc \in LocalVars /\ loc.at + 1 \in 1..(Len(Order) + 1)
  BY OrderFacts DEF RecordItem, InLoop, TypeInv, TypeOK, LocalVars
<1> DEFINE acc == CombinedPhase({loc.acc, "Init"})
<1>3. acc \in Phase /\ NoRef \in Refs
  BY PhaseFacts, BoundsAssumption DEF NoRef, Refs
<1> HIDE DEF acc
<1>4. [[[loc EXCEPT !.at = loc.at + 1] EXCEPT !.ref = NoRef] EXCEPT !.acc = acc] \in LocalVars
  <2>1. [loc EXCEPT !.at = loc.at + 1] \in LocalVars
    BY <1>2, LocalFields
  <2>2. [[loc EXCEPT !.at = loc.at + 1] EXCEPT !.ref = NoRef] \in LocalVars
    BY <1>3, <2>1, LocalFields
  <2> QED BY <1>3, <2>2, LocalFields
<1>5. \/ /\ exec' = Patched /\ l' = Patched /\ cur' = TRUE /\ pc' = "loop"
         /\ loc' = [[[loc EXCEPT !.at = loc.at + 1] EXCEPT !.ref = NoRef] EXCEPT !.acc = acc]
      \/ /\ UNCHANGED <<exec, l, cur>> /\ pc' = "finish"
         /\ loc' = [loc EXCEPT !.err = TRUE]
  BY DEF RecordItem, Fail, Goto, acc
<1>6. /\ exec' \in Executions /\ l' \in Executions /\ cur' \in BOOLEAN
      /\ pc' \in Outside /\ loc' \in LocalVars
  BY <1>1, <1>4, <1>5, LocalFields DEF Outside, PCs, TypeInv, TypeOK
<1> QED
  BY <1>6 DEF RecordItem, Continue, Wake, caches, InLoop, Outside, TypeInv, TypeOK

\* The patch that removes the force annotation.
LEMMA RemoveForceType == ASSUME TypeInv, RemoveForce PROVE TypeInv'
<1>1. [exec EXCEPT !.op = "none"] \in Executions
  BY ExecutionFields DEF Ops, TypeInv, TypeOK
<1>2. /\ exec' \in Executions /\ l' \in Executions /\ cur' \in BOOLEAN
      /\ pc' \in Outside /\ loc' \in LocalVars
  BY <1>1, LocalFields
     DEF RemoveForce, Fail, Goto, AfterLoop, Outside, PCs, TypeInv, TypeOK
<1> QED
  BY <1>2 DEF RemoveForce, Continue, Wake, caches, InLoop, Outside, TypeInv, TypeOK

-----------------------------------------------------------------------------
\* Delete begins with well-typed copies.
LEMMA DeleteListType == ASSUME TypeInv, DeleteList PROVE TypeInv'
<1>1. PICK a \in Assignments(ViewItems) :
        loc' = [loc EXCEPT !.items = Copies(a, ViewItems), !.tspec = l.spec,
                           !.at = 1, !.allDeleted = TRUE]
  BY DEF DeleteList
<1>2. loc' \in LocalVars
  <2> DEFINE v1 == [loc EXCEPT !.items = Copies(a, ViewItems)]
             v2 == [v1 EXCEPT !.tspec = l.spec]
             v3 == [v2 EXCEPT !.at = 1]
  <2>1. v1 \in LocalVars
    BY CopiesType, LocalFields DEF TypeInv, TypeOK
  <2>2. l.spec \in [Names -> 0..MaxGen]
    BY DEF TypeInv, TypeOK, Executions
  <2>3. v2 \in LocalVars
    BY <2>1, <2>2, LocalFields
  <2>4. 1 \in 1..(Len(Order) + 1)
    BY OrderFacts
  <2>5. v3 \in LocalVars
    BY <2>3, <2>4, LocalFields
  <2>6. [v3 EXCEPT !.allDeleted = TRUE] \in LocalVars
    BY <2>5, LocalFields
  <2> QED BY <1>1, <2>6
<1>3. l' \in Executions
  BY ExecutionFields, PhaseNames DEF DeleteList, TypeInv, TypeOK
<1> QED
  BY <1>2, <1>3
     DEF DeleteList, LocalStep, Wake, server, caches, PCs, InLoop, TypeInv, TypeOK

\* One round of the loop of Delete.
LEMMA DeleteItemType == ASSUME TypeInv, DeleteItem PROVE TypeInv'
<1> DEFINE d == loc.items[Order[loc.at]]
<1>1. loc \in LocalVars /\ loc.at + 1 \in 1..(Len(Order) + 1) /\ d \in ItemCopies
  <2>1. loc.at \in 1..(Len(Order) + 1) /\ loc.at <= Len(Order)
    BY DEF DeleteItem, TypeInv, TypeOK, LocalVars
  <2>2. Order[loc.at] \in Names
    BY <2>1, OrderFacts
  <2>3. loc \in LocalVars /\ d \in ItemCopies
    BY <2>2 DEF TypeInv, TypeOK, LocalVars
  <2>4. loc.at + 1 \in 1..(Len(Order) + 1)
    BY <2>1, OrderFacts
  <2> HIDE DEF d
  <2> QED BY <2>3, <2>4
<1> HIDE DEF d
<1>2. [loc EXCEPT !.at = loc.at + 1] \in LocalVars
  BY <1>1, LocalFields
<1>3. \A b \in BOOLEAN : [[loc EXCEPT !.at = loc.at + 1] EXCEPT !.allDeleted = b] \in LocalVars
  BY <1>2, LocalFields
<1>4. [l EXCEPT !.phase = "Failed"] \in Executions
  BY ExecutionFields, PhaseNames DEF TypeInv, TypeOK
<1>5. \/ /\ loc' = [loc EXCEPT !.at = loc.at + 1]
         /\ Goto("deleteItem") /\ UNCHANGED di
      \/ /\ d.id # 0
         /\ loc' = [[loc EXCEPT !.at = loc.at + 1] EXCEPT !.allDeleted = ~di[d.id].live]
         /\ Goto("deleteItem")
         /\ di' = IF di[d.id].live THEN [di EXCEPT ![d.id] = Deleted(di[d.id])] ELSE di
      \/ /\ loc' = [[loc EXCEPT !.at = loc.at + 1] EXCEPT !.allDeleted = FALSE]
         /\ l' = IF d.phase = "Failed" THEN [l EXCEPT !.phase = "Failed"] ELSE l
         /\ cur' = cur /\ pc' = "deleteItem" /\ UNCHANGED di
  BY DEF DeleteItem, d
<1>6. /\ l' \in Executions /\ cur' \in BOOLEAN /\ pc' = "deleteItem"
      /\ loc' \in LocalVars
  BY <1>2, <1>3, <1>4, <1>5 DEF Goto, TypeInv, TypeOK
<1>7. di' \in [Items -> DeployItems]
  <2>1. ASSUME d.id # 0 PROVE d.id \in Items
    BY <1>1, <2>1, BoundsAssumption DEF ItemCopies, Items
  <2> QED BY <1>5, <2>1, DeletedType DEF TypeInv, TypeOK
<1> QED
  BY <1>6, <1>7
     DEF DeleteItem, Continue, Wake, caches, PCs, InLoop, TypeInv, TypeOK

\* The end of Delete.
LEMMA RemoveFinalizerType == ASSUME TypeInv, RemoveFinalizer PROVE TypeInv'
<1>1. [exec EXCEPT !.fin = FALSE] \in Executions
  BY ExecutionFields DEF TypeInv, TypeOK
<1>2. [exec EXCEPT !.fin = FALSE, !.live = FALSE] \in Executions
  BY <1>1, ExecutionFields
<1>3. exec' \in Executions /\ l' \in Executions
  BY <1>2 DEF RemoveFinalizer, TypeInv, TypeOK
<1>4. loc' \in LocalVars
  BY LocalFields DEF RemoveFinalizer, TypeInv, TypeOK
<1>5. budget' \in 0..MaxEvents
  BY SpendType DEF RemoveFinalizer, Refused, Conflict, TypeInv, TypeOK
<1> QED
  BY <1>3, <1>4, <1>5
     DEF RemoveFinalizer, Wake, caches, PCs, InLoop, TypeInv, TypeOK

\* A failing call leaves a well-typed execution in memory.
LEMMA CallFailsType == ASSUME TypeInv, CallFails PROVE TypeInv'
<1>1. /\ [l EXCEPT !.phase = "Progressing"] \in Executions
      /\ [l EXCEPT !.phase = "Deleting"] \in Executions
  BY ExecutionFields, PhaseNames DEF TypeInv, TypeOK
<1>2. l' \in Executions
  BY <1>1, RecordedType DEF CallFails, TypeInv, TypeOK
<1>3. loc' \in LocalVars
  BY LocalFields DEF CallFails, TypeInv, TypeOK
<1>4. budget' \in 0..MaxEvents
  BY SpendType DEF CallFails
<1> QED
  BY <1>2, <1>3, <1>4
     DEF CallFails, Wake, server, caches, PCs, InLoop, TypeInv, TypeOK

-----------------------------------------------------------------------------
\* Replacing one deploy item by another one.
LEMMA SetItemType ==
    ASSUME TypeInv, NEW i \in Items, NEW d \in DeployItems, SetItem(i, d),
           budget' \in 0..MaxEvents, done' \subseteq Names
    PROVE  TypeInv'
<1>1. di' \in [Items -> DeployItems]
  BY DEF SetItem, TypeInv, TypeOK
<1> QED
  BY <1>1 DEF SetItem, Others, Wake, caches, InLoop, TypeInv, TypeOK

\* The deployers and the garbage collector.
LEMMA DeployerType ==
    ASSUME TypeInv, NEW i \in Items, Deployer(i) \/ CollectGarbage(i)
    PROVE  TypeInv'
<1> USE DEF Deployer
<1>0. di[i] \in DeployItems /\ di[i].gen \in Nat /\ di[i].spec \in 0..MaxGen
      /\ di[i].tmpl \in Names /\ budget \in 0..MaxEvents /\ done \subseteq Names
  BY DEF TypeInv, TypeOK, DeployItems
<1>1. CASE Pickup(i)
  <2> DEFINE u == [di[i] EXCEPT !.obs = di[i].gen, !.phase = "Init", !.pickup = FALSE]
  <2>1. [di[i] EXCEPT !.obs = di[i].gen] \in DeployItems
    BY <1>0, ItemFields
  <2>2. [di[i] EXCEPT !.obs = di[i].gen, !.phase = "Init"] \in DeployItems
    BY <2>1, ItemFields, PhaseNames
  <2>3. u \in DeployItems
    BY <2>2, ItemFields
  <2>4. PICK d : d = u /\ SetItem(i, d)
    BY <1>1 DEF Pickup
  <2> QED BY <1>0, <1>1, <2>3, <2>4, SetItemType DEF Pickup
<1>2. CASE Begin(i)
  <2> DEFINE u == [di[i] EXCEPT !.op = "none", !.fin = TRUE, !.phase = "Progressing"]
  <2>1. [di[i] EXCEPT !.op = "none"] \in DeployItems
    BY <1>0, ItemFields DEF Ops
  <2>2. [di[i] EXCEPT !.op = "none", !.fin = TRUE] \in DeployItems
    BY <2>1, ItemFields
  <2>3. u \in DeployItems
    BY <2>2, ItemFields, PhaseNames
  <2>4. PICK d : d = u /\ SetItem(i, d)
    BY <1>2 DEF Begin
  <2> QED BY <1>0, <1>2, <2>3, <2>4, SetItemType DEF Begin
<1>3. CASE Succeed(i)
  <2> DEFINE u == [di[i] EXCEPT !.phase = "Succeeded", !.out = di[i].spec]
  <2>1. [di[i] EXCEPT !.phase = "Succeeded"] \in DeployItems
    BY <1>0, ItemFields, PhaseNames
  <2>2. u \in DeployItems
    BY <1>0, <2>1, ItemFields
  <2>3. PICK d : d = u /\ SetItem(i, d)
    BY <1>3 DEF Succeed
  <2> QED BY <1>0, <1>3, <2>2, <2>3, SetItemType DEF Succeed
<1>4. CASE Release(i)
  BY <1>0, <1>4, NewTypes, SetItemType DEF Release
<1>5. CASE CollectGarbage(i)
  <2>1. PICK d : d = Deleted(di[i]) /\ SetItem(i, d)
    BY <1>5 DEF CollectGarbage
  <2> QED BY <1>0, <1>5, <2>1, DeletedType, SetItemType DEF CollectGarbage
<1> QED BY <1>1, <1>2, <1>3, <1>4, <1>5

\* Users and the timeout controller on a deploy item.
LEMMA ItemEventType ==
    ASSUME TypeInv, NEW i \in Items,
           RetryItem(i) \/ RemoveItem(i) \/ PickupTimeout(i) \/ ItemFails(i)
    PROVE  TypeInv'
<1>0. di[i] \in DeployItems /\ done \subseteq Names
  BY DEF TypeInv, TypeOK
<1>1. CASE RetryItem(i)
  <2>1. [di[i] EXCEPT !.op = "reconcile"] \in DeployItems
    BY <1>0, ItemFields DEF Ops
  <2>2. PICK d : d = [di[i] EXCEPT !.op = "reconcile"] /\ SetItem(i, d)
    BY <1>1 DEF RetryItem
  <2> QED BY <1>0, <1>1, <2>1, <2>2, SpendType, SetItemType DEF RetryItem
<1>2. CASE RemoveItem(i)
  <2>1. PICK d : d = Deleted(di[i]) /\ SetItem(i, d)
    BY <1>2 DEF RemoveItem
  <2> QED BY <1>0, <1>2, <2>1, DeletedType, SpendType, SetItemType DEF RemoveItem
<1>3. CASE PickupTimeout(i)
  <2> DEFINE u == [di[i] EXCEPT !.phase = "Failed", !.pickup = TRUE]
  <2>1. [di[i] EXCEPT !.phase = "Failed"] \in DeployItems
    BY <1>0, ItemFields, PhaseNames
  <2>2. u \in DeployItems
    BY <2>1, ItemFields
  <2>3. PICK d : d = u /\ SetItem(i, d)
    BY <1>3 DEF PickupTimeout
  <2> QED BY <1>0, <1>3, <2>2, <2>3, SpendType, SetItemType DEF PickupTimeout
<1>4. CASE ItemFails(i)
  <2> DEFINE u == [di[i] EXCEPT !.phase = "Failed", !.op = "none"]
  <2>1. [di[i] EXCEPT !.phase = "Failed"] \in DeployItems
    BY <1>0, ItemFields, PhaseNames
  <2>2. u \in DeployItems
    BY <2>1, ItemFields DEF Ops
  <2>3. PICK d : d = u /\ SetItem(i, d)
    BY <1>4 DEF ItemFails
  <2> QED BY <1>0, <1>4, <2>2, <2>3, SpendType, SetItemType DEF ItemFails
<1> QED BY <1>1, <1>2, <1>3, <1>4

\* The installation controller writes a new spec.
LEMMA EnsureExecutionType ==
    ASSUME TypeInv, NEW op \in {"reconcile", "force"}, EnsureExecution(op)
    PROVE  TypeInv'
<1>1. PICK s \in SpecChoices :
        exec' = [exec EXCEPT !.spec = s, !.op = op,
                             !.gen = IF s = exec.spec THEN @ ELSE @ + 1]
  BY DEF EnsureExecution
<1>2. exec \in Executions /\ s \in [Names -> 0..MaxGen]
  BY DEF SpecChoices, TypeInv, TypeOK
<1> DEFINE g == IF s = exec.spec THEN exec.gen ELSE exec.gen + 1
<1>3. g \in Nat \ {0}
  BY <1>2 DEF Executions
<1> HIDE DEF g
<1>4. [exec EXCEPT !.spec = s] \in Executions
  BY <1>2, ExecutionFields
<1>5. [[exec EXCEPT !.spec = s] EXCEPT !.op = op] \in Executions
  BY <1>4, ExecutionFields DEF Ops
<1>6. [[[exec EXCEPT !.spec = s] EXCEPT !.op = op] EXCEPT !.gen = g] \in Executions
  BY <1>3, <1>5, ExecutionFields
<1>7. exec' = [[[exec EXCEPT !.spec = s] EXCEPT !.op = op] EXCEPT !.gen = g]
  BY <1>1, <1>2 DEF g, Executions
<1>8. budget' \in 0..MaxEvents
  BY SpendType DEF EnsureExecution
<1> QED
  BY <1>6, <1>7, <1>8 DEF EnsureExecution, Wake, caches, InLoop, TypeInv, TypeOK

\* The execution is deleted.
LEMMA DeleteExecutionType == ASSUME TypeInv, DeleteExecution PROVE TypeInv'
<1>1. exec \in Executions /\ exec.gen + 1 \in Nat \ {0}
  BY DEF TypeInv, TypeOK, Executions
<1>2. [exec EXCEPT !.del = TRUE] \in Executions /\ [exec EXCEPT !.live = FALSE] \in Executions
  BY <1>1, ExecutionFields
<1>3. [[exec EXCEPT !.del = TRUE] EXCEPT !.gen = exec.gen + 1] \in Executions
  BY <1>1, <1>2, ExecutionFields
<1>4. exec' \in Executions
  BY <1>1, <1>2, <1>3 DEF DeleteExecution, Executions
<1>5. budget' \in 0..MaxEvents
  BY SpendType DEF DeleteExecution
<1> QED
  BY <1>4, <1>5 DEF DeleteExecution, Wake, caches, InLoop, TypeInv, TypeOK

\* A crash resets the local variables and refills the caches.
LEMMA CrashType == ASSUME TypeInv, Crash PROVE TypeInv'
<1>1. budget' \in 0..MaxEvents
  BY SpendType DEF Crash
<1> QED
  BY <1>1, RestartType DEF Crash, server, InLoop, Outside, TypeInv, TypeOK

\* Every step of the system keeps the types.
LEMMA TypeStep == TypeInv /\ [Next]_vars => TypeInv'
<1> SUFFICES ASSUME TypeInv, [Next]_vars PROVE TypeInv'
  OBVIOUS
<1>1. CASE Controller
  BY <1>1, GetType, FrameTypes, RecheckType, ExportAgainType, ListItemsType,
     LoopType, ApplyItemType, RecordItemType, RemoveForceType, ExportType,
     DeleteListType, DeleteItemType, RemoveFinalizerType, HandleErrorType
     DEF Controller
<1>2. CASE SyncExec \/ SyncItems
  BY <1>2, SyncType
<1>3. CASE \E i \in Items : Deployer(i) \/ CollectGarbage(i)
  BY <1>3, DeployerType
<1>4. CASE Environment
  BY <1>4, EnsureExecutionType, DeleteExecutionType, ItemEventType,
     CallFailsType, CrashType DEF Environment
<1>5. CASE UNCHANGED vars
  BY <1>5 DEF vars, InLoop, TypeInv, TypeOK
<1> QED BY <1>1, <1>2, <1>3, <1>4, <1>5 DEF Next

\* Whatever the interleaving of the controller with users, deployers, timeouts,
\* failing calls and crashes, every object the controller reads or writes has
\* the phases, references and positions its code knows how to handle.
THEOREM TypeCorrect == SafetySpec => []TypeOK
<1>1. SafetySpec => []TypeInv
  BY TypeInit, TypeStep, PTL DEF SafetySpec
<1> QED BY <1>1, PTL DEF TypeInv
=============================================================================
