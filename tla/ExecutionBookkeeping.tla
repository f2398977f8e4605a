------------------------ MODULE ExecutionBookkeeping -------------------------
(***************************************************************************)
(* The references and generations in the status of an execution never run  *)
(* ahead of the objects they are about.  The proof follows the places an   *)
(* execution is held in (the API server, the informer, the running         *)
(* Reconcile) and shows where each of them can come from in one step.      *)
(* And what they record as applied is applied: the proof relates the       *)
(* content of an item to the generation that is recorded for it, over the  *)
(* steps between reading the templates, applying one and recording it.     *)
(* An execution that claims success has rolled out and exported what it    *)
(* describes: the proof follows one run of the loop that skipped nothing.  *)
(***************************************************************************)
EXTENDS ExecutionOrder, WellFoundedInduction

-----------------------------------------------------------------------------
(* The bookkeeping in the status of the execution.                         *)

\* The generations in the status are generations the execution has had.
GensSound(e) == e.obs <= e.gen /\ \A t \in Names : e.egens[t] <= e.gen

\* A reference of template t names one of its items and a generation it has had.
RefSound(t, r) ==
    /\ r.id < next
    /\ r.id # 0 /\ di[r.id].live => di[r.id].tmpl = t /\ r.gen <= di[r.id].gen

RefsSound(e) == \A t \in Names : RefSound(t, e.refs[t])

\* The same holds of the informer's copy and of the one the running Reconcile
\* holds, which are not newer than the stored execution; a reference about to
\* be recorded is sound; and an optimistic write cannot lose a generation.
BookInv ==
    /\ OrderInv
    /\ GensSound(exec) /\ GensSound(cexec) /\ GensSound(l)
    /\ cexec.gen <= exec.gen /\ l.gen <= exec.gen
    /\ cur => l.gen = exec.gen
    /\ RefsSound(exec) /\ RefsSound(cexec) /\ RefsSound(l)
    /\ pc = "record" => loc.ref.id # 0 /\ RefSound(Order[loc.at], loc.ref)

\* A new execution has empty bookkeeping.
LEMMA NewSound == GensSound(NewExecution) /\ NewExecution.gen = 1
                  /\ \A t \in Names : NewExecution.refs[t] = NoRef
BY DEF GensSound, NewExecution

\* The bookkeeping is sound at the beginning.
LEMMA BookInit == Init => BookInv
<1> SUFFICES ASSUME Init PROVE BookInv
  OBVIOUS
<1>1. exec = NewExecution /\ cexec = NewExecution /\ l = NewExecution
      /\ next = 1 /\ pc = "idle" /\ cur = FALSE
  BY DEF Init
<1>2. RefsSound(exec) /\ RefsSound(cexec) /\ RefsSound(l)
  BY <1>1, NewSound DEF RefsSound, RefSound, NoRef
<1> QED BY <1>1, <1>2, OrderInit, NewSound DEF BookInv

\* The generations and names that are compared are natural numbers.
LEMMA Numbers ==
    ASSUME TypeInv
    PROVE  /\ exec.gen \in Nat \ {0} /\ cexec.gen \in Nat /\ l.gen \in Nat
           /\ exec.obs \in Nat /\ cexec.obs \in Nat /\ l.obs \in Nat
           /\ exec.egens \in [Names -> Nat] /\ l.egens \in [Names -> Nat]
           /\ cexec.egens \in [Names -> Nat]
BY DEF TypeInv, TypeOK, Executions

\* What a step does to the copies of the execution.
ExecStep ==
    /\ exec.gen <= exec'.gen /\ l'.gen <= exec'.gen
    /\ cur' => l'.gen = exec'.gen
    /\ GensSound(exec') /\ GensSound(l')
    /\ exec'.refs \in {exec.refs, l.refs}
       \/ (pc = "record" /\ exec'.refs = Recorded.refs)
    /\ l'.refs \in {exec.refs, cexec.refs, l.refs, NewExecution.refs}
       \/ (pc = "record" /\ l'.refs = Recorded.refs)
    /\ UNCHANGED cexec \/ (cexec' = exec /\ UNCHANGED exec)

\* A step that leaves the execution and the copy of the run alone.
LEMMA SameExec ==
    ASSUME BookInv, UNCHANGED <<exec, l, cexec>>, cur' => cur
    PROVE  ExecStep
BY Numbers DEF BookInv, OrderInv, ExecStep

\* The copy of the run changes to o, which is stored if it is current, or not.
LEMMA WriteExec ==
    ASSUME BookInv, NEW o, GensSound(o), o.gen = l.gen, o.refs = l.refs,
           l' = o, cur' = cur, UNCHANGED cexec,
           UNCHANGED exec
           \/ (cur /\ exec'.gen = o.gen /\ exec'.refs = o.refs /\ GensSound(exec'))
    PROVE  ExecStep
BY Numbers DEF BookInv, OrderInv, ExecStep

\* The run ends.
LEMMA EndExec ==
    ASSUME BookInv, l' = NewExecution, cur' = FALSE,
           UNCHANGED cexec \/ (cexec' = exec /\ UNCHANGED exec),
           UNCHANGED exec
           \/ (cur /\ exec'.gen = exec.gen /\ exec'.refs = l.refs /\ GensSound(exec'))
    PROVE  ExecStep
BY Numbers, NewSound DEF BookInv, OrderInv, ExecStep

\* An Update of an object that differs from l in other fields only.
LEMMA UpdateStep ==
    ASSUME BookInv, NEW o, NEW p, Update(o, p), GensSound(o),
           o.gen = l.gen, o.refs = l.refs
    PROVE  ExecStep
<1>1. l' = o /\ cur' = cur /\ UNCHANGED cexec /\ (UNCHANGED exec \/ (cur /\ exec' = o))
  BY DEF Update, caches
<1> QED BY <1>1, WriteExec

\* The optimistic writes of HandleAnnotationsAndGeneration and Ensure.
LEMMA FrameSteps ==
    ASSUME BookInv, ResetPhase \/ DropOperation \/ ForceReset \/ AddFinalizer
    PROVE  ExecStep
<1>0. l \in Executions /\ GensSound(l)
  BY DEF BookInv, OrderInv, TypeInv, TypeOK
<1>1. CASE ResetPhase
  <2>1. PICK o, p : o = [l EXCEPT !.obs = l.gen, !.phase = "Init"] /\ Update(o, p)
    BY <1>1 DEF ResetPhase
  <2>2. o.gen = l.gen /\ o.refs = l.refs /\ o.obs = l.gen /\ o.egens = l.egens
    BY <1>0, <2>1 DEF Executions
  <2>3. GensSound(o)
    BY <1>0, <2>2 DEF GensSound, Executions
  <2> QED BY <2>1, <2>2, <2>3, UpdateStep
<1>2. CASE DropOperation \/ ForceReset \/ AddFinalizer
  <2>1. PICK o, p : /\ \/ o = [l EXCEPT !.op = "none"]
                       \/ o = [l EXCEPT !.phase = "Init"]
                       \/ o = [l EXCEPT !.fin = TRUE]
                    /\ Update(o, p)
    BY <1>2 DEF DropOperation, ForceReset, AddFinalizer
  <2>2. o.gen = l.gen /\ o.refs = l.refs /\ o.obs = l.obs /\ o.egens = l.egens
    BY <1>0, <2>1 DEF Executions
  <2>3. GensSound(o)
    BY <1>0, <2>2 DEF GensSound
  <2> QED BY <2>1, <2>2, <2>3, UpdateStep
<1> QED BY <1>1, <1>2

\* Reconcile begins with the copy of the informer.
LEMMA GetStep == ASSUME BookInv, Get PROVE ExecStep
<1>1. /\ UNCHANGED <<exec, cexec>>
      /\ l' = l \/ l' = ViewExec
      /\ cur' => (cur /\ l' = l) \/ l' = exec
  BY DEF Get, server, caches
<1>2. ViewExec = exec \/ ViewExec = cexec
  BY DEF ViewExec
<1> QED BY <1>1, <1>2, Numbers DEF BookInv, OrderInv, ExecStep

\* HandleErrorFunc writes the status of l back.
LEMMA HandleErrorStep == ASSUME BookInv, HandleError PROVE ExecStep
<1> DEFINE kept == loc.err \/ loc.touched \/ l.err # loc.old.err
           e == IF kept THEN l.err ELSE "none"
           o == [l EXCEPT !.err = e, !.phase = PhaseForLastError(l.phase, e)]
<1>1. l' = NewExecution /\ cur' = FALSE /\ UNCHANGED cexec
      /\ (UNCHANGED exec \/ (cur /\ exec' = WithStatus(exec, o)))
  BY DEF HandleError, Return, caches
<1>2. exec \in Executions /\ l \in Executions
  BY DEF BookInv, OrderInv, TypeInv, TypeOK
<1>3. o.refs = l.refs /\ o.obs = l.obs /\ o.egens = l.egens
  BY <1>2 DEF Executions
<1> HIDE DEF o
<1>4. /\ WithStatus(exec, o).gen = exec.gen /\ WithStatus(exec, o).refs = l.refs
      /\ WithStatus(exec, o).obs = l.obs /\ WithStatus(exec, o).egens = l.egens
  BY <1>2, <1>3 DEF WithStatus, Executions
<1>5. GensSound(WithStatus(exec, o))
  BY <1>4, Numbers DEF GensSound, BookInv, OrderInv
<1> QED BY <1>1, <1>4, <1>5, EndExec

\* HandleDeployItemPhaseAndGenerationChanges changes the phase only.
LEMMA RecheckStep == ASSUME BookInv, Recheck PROVE ExecStep
<1> DEFINE items == ViewItems
           cp == CombinedPhase({items[l.refs[t].id].phase : t \in Referenced})
           p == IF Outdated(items) THEN "Progressing" ELSE cp
           o == [l EXCEPT !.phase = p]
<1>1. /\ UNCHANGED cexec
      /\ UNCHANGED exec \/ (cur /\ exec' = o)
      /\ (l' = NewExecution /\ cur' = FALSE) \/ (l' = o /\ cur' = cur)
  BY DEF Recheck, Return, caches, server
<1>2. l \in Executions
  BY DEF BookInv, OrderInv, TypeInv, TypeOK
<1>3. o.gen = l.gen /\ o.refs = l.refs /\ o.obs = l.obs /\ o.egens = l.egens
  BY <1>2 DEF Executions
<1>4. GensSound(o) /\ (cur => o.gen = exec.gen)
  BY <1>3 DEF GensSound, BookInv
<1> HIDE DEF o
<1> QED BY <1>1, <1>3, <1>4, WriteExec, EndExec

\* Writing the export reference changes no reference to an item.
LEMMA ExportSteps == ASSUME BookInv, ExportAgain \/ Export PROVE ExecStep
<1> DEFINE o == [l EXCEPT !.exported = TRUE]
           q == [o EXCEPT !.phase = "Succeeded"]
<1>1. l \in Executions
  BY DEF BookInv, OrderInv, TypeInv, TypeOK
<1>2. /\ o.gen = l.gen /\ o.refs = l.refs /\ o.obs = l.obs /\ o.egens = l.egens
      /\ q.gen = l.gen /\ q.refs = l.refs /\ q.obs = l.obs /\ q.egens = l.egens
  BY <1>1 DEF Executions
<1>3. GensSound(o) /\ GensSound(q) /\ (cur => o.gen = exec.gen)
  BY <1>2 DEF GensSound, BookInv
<1>4. \/ /\ l' = NewExecution /\ cur' = FALSE
         /\ UNCHANGED cexec \/ (cexec' = exec /\ UNCHANGED exec)
         /\ UNCHANGED exec \/ (cur /\ exec' = o)
      \/ UNCHANGED <<exec, l, cexec, cur>>
      \/ /\ UNCHANGED cexec /\ cur' = cur
         /\ \/ cur /\ exec' = o /\ l' = q
            \/ UNCHANGED exec /\ l' = o
  BY DEF ExportAgain, Export, Return, Restart, Fail, Goto, caches
<1> HIDE DEF o, q
<1>5. CASE /\ l' = NewExecution /\ cur' = FALSE
           /\ UNCHANGED cexec \/ (cexec' = exec /\ UNCHANGED exec)
           /\ UNCHANGED exec \/ (cur /\ exec' = o)
  BY <1>2, <1>3, <1>5, EndExec
<1>6. CASE UNCHANGED <<exec, l, cexec, cur>>
  BY <1>6, SameExec
<1>7. CASE UNCHANGED cexec /\ cur' = cur /\ cur /\ exec' = o /\ l' = q
  BY <1>2, <1>3, <1>7, WriteExec
<1>8. CASE UNCHANGED cexec /\ cur' = cur /\ UNCHANGED exec /\ l' = o
  BY <1>2, <1>3, <1>8, WriteExec
<1> QED BY <1>4, <1>5, <1>6, <1>7, <1>8

\* The steps that look at items, with the new phase in memory.
LEMMA MemorySteps ==
    ASSUME BookInv,
           \/ ListItems \/ LoopItem \/ EndLoop \/ ApplyItem \/ DeleteList
           \/ DeleteItem
    PROVE  ExecStep
<1>0. l \in Executions /\ GensSound(l)
  BY DEF BookInv, OrderInv, TypeInv, TypeOK
<1>1. UNCHANGED <<exec, cexec>> /\ cur' = cur
  BY InMemory
<1>3. l'.gen = l.gen /\ l'.refs = l.refs /\ l'.obs \in {l.obs, l.gen}
      /\ l'.egens = l.egens
  BY <1>0, InMemory DEF Executions
<1>4. GensSound(l')
  BY <1>0, <1>3 DEF GensSound, Executions
<1> QED BY <1>1, <1>3, <1>4, Numbers DEF BookInv, OrderInv, ExecStep

\* deployOrTrigger records the reference and the generation of l.
LEMMA RecordedSound ==
    ASSUME BookInv, pc = "record"
    PROVE  /\ GensSound(Recorded) /\ Recorded.gen = l.gen
           /\ \A t \in Names : Recorded.egens[t] <= l.gen
<1>1. l \in Executions /\ GensSound(l) /\ l.gen \in Nat
  BY DEF BookInv, OrderInv, TypeInv, TypeOK, Executions
<1>2. /\ Recorded.gen = l.gen /\ Recorded.obs = l.obs
      /\ Recorded.egens = [l.egens EXCEPT ![Order[loc.at]] = l.gen]
  BY <1>1 DEF Recorded, Executions
<1>3. \A t \in Names : Recorded.egens[t] <= l.gen
  BY <1>1, <1>2 DEF GensSound, Executions
<1> QED BY <1>1, <1>2, <1>3 DEF GensSound

\* The patch records the item that was just applied.
LEMMA RecordItemStep == ASSUME BookInv, RecordItem PROVE ExecStep
<1>0. pc = "record" /\ UNCHANGED cexec
  BY DEF RecordItem, Continue, caches
<1>1. CASE UNCHANGED <<exec, l, cur>>
  BY <1>0, <1>1, SameExec
<1>2. CASE exec' = Patched /\ l' = Patched
  <2>1. exec \in Executions /\ Recorded \in Executions
    BY <1>0, RecordedType DEF BookInv, OrderInv, TypeInv, TypeOK
  <2>2. /\ Patched.gen = exec.gen /\ Patched.obs = exec.obs
        /\ Patched.refs \in {Recorded.refs, exec.refs}
        /\ Patched.egens \in {Recorded.egens, exec.egens}
    BY <2>1 DEF Patched, Executions
  <2>3. GensSound(Patched)
    <3>1. /\ GensSound(exec) /\ l.gen <= exec.gen /\ l.gen \in Nat /\ exec.gen \in Nat
          /\ Recorded.egens \in [Names -> Nat]
      BY <2>1, Numbers DEF BookInv, OrderInv, Executions
    <3>2. \A t \in Names : Recorded.egens[t] <= exec.gen
      BY <1>0, <3>1, RecordedSound
    <3> QED BY <2>2, <3>1, <3>2 DEF GensSound
  <2> QED BY <1>0, <1>2, <2>2, <2>3, Numbers DEF BookInv, OrderInv, ExecStep
<1> QED BY <1>1, <1>2 DEF RecordItem, Fail, Goto

\* The force annotation or the finalizer is removed.
LEMMA RemoveSteps == ASSUME BookInv, RemoveForce \/ RemoveFinalizer PROVE ExecStep
<1>0. exec \in Executions /\ GensSound(exec) /\ UNCHANGED cexec
  BY DEF BookInv, OrderInv, TypeInv, TypeOK, RemoveForce, RemoveFinalizer,
         Continue, caches
<1>1. CASE UNCHANGED <<exec, l, cur>>
  BY <1>0, <1>1, SameExec
<1>2. CASE /\ l' = exec'
           /\ \/ exec' = exec
              \/ exec' = [exec EXCEPT !.op = "none"]
              \/ exec' = [exec EXCEPT !.fin = FALSE, !.live = FALSE]
  <2>1. /\ exec'.gen = exec.gen /\ exec'.refs = exec.refs
        /\ exec'.obs = exec.obs /\ exec'.egens = exec.egens
    BY <1>0, <1>2 DEF Executions
  <2>2. GensSound(exec')
    BY <1>0, <2>1 DEF GensSound
  <2> QED BY <1>0, <1>2, <2>1, <2>2, Numbers DEF BookInv, OrderInv, ExecStep
<1> QED BY <1>1, <1>2 DEF RemoveForce, RemoveFinalizer, Fail, Goto

\* A failed call leaves in memory at most what was to be written.
LEMMA CallFailsStep == ASSUME BookInv, CallFails PROVE ExecStep
<1>0. /\ UNCHANGED <<exec, cexec>> /\ cur' = cur /\ l \in Executions
      /\ l.gen \in Nat /\ GensSound(l)
  BY DEF BookInv, OrderInv, TypeInv, TypeOK, Executions, CallFails, server, caches
<1>1. CASE pc = "record" /\ l' = Recorded
  BY <1>0, <1>1, RecordedSound, Numbers DEF BookInv, OrderInv, ExecStep
<1>2. CASE l' = l \/ \E p : l' = [l EXCEPT !.phase = p]
  <2>1. l'.gen = l.gen /\ l'.refs = l.refs /\ l'.obs = l.obs /\ l'.egens = l.egens
    BY <1>0, <1>2 DEF Executions
  <2>2. GensSound(l')
    BY <1>0, <2>1 DEF GensSound
  <2> QED BY <1>0, <2>1, <2>2, Numbers DEF BookInv, OrderInv, ExecStep
<1> QED BY <1>1, <1>2 DEF CallFails

\* New specs and deletion only raise the generation.
LEMMA UserSteps ==
    ASSUME BookInv, NEW op, EnsureExecution(op) \/ DeleteExecution
    PROVE  ExecStep
<1>0. /\ exec \in Executions /\ exec.gen \in Nat /\ GensSound(exec)
      /\ UNCHANGED <<l, cexec>> /\ cur' = FALSE
  BY DEF BookInv, OrderInv, TypeInv, TypeOK, Executions, EnsureExecution,
         DeleteExecution, caches
<1>1. /\ exec'.refs = exec.refs /\ exec'.obs = exec.obs /\ exec'.egens = exec.egens
      /\ exec'.gen \in {exec.gen, exec.gen + 1}
  <2>1. CASE EnsureExecution(op)
    BY <1>0, <2>1 DEF EnsureExecution, Executions
  <2>2. CASE DeleteExecution
    BY <1>0, <2>2 DEF DeleteExecution, Executions
  <2> QED BY <2>1, <2>2
<1>2. GensSound(exec')
  BY <1>0, <1>1 DEF GensSound, Executions
<1> QED BY <1>0, <1>1, <1>2, Numbers DEF BookInv, OrderInv, ExecStep

\* Every step of the system.
LEMMA ExecSteps == ASSUME BookInv, [Next]_vars PROVE ExecStep
<1>1. CASE Controller
  BY <1>1, GetStep, FrameSteps, RecheckStep, ExportSteps, MemorySteps,
     RecordItemStep, RemoveSteps, HandleErrorStep DEF Controller
<1>2. CASE \/ DeleteExecution \/ CallFails
           \/ \E op \in {"reconcile", "force"} : EnsureExecution(op)
  BY <1>2, UserSteps, CallFailsStep
<1>3. CASE \/ SyncItems \/ UNCHANGED vars
           \/ \E i \in Items :
                \/ Deployer(i) \/ CollectGarbage(i)
                \/ RetryItem(i) \/ RemoveItem(i) \/ PickupTimeout(i) \/ ItemFails(i)
  <2>1. UNCHANGED <<exec, l, cexec, cur>>
    BY <1>3 DEF SyncItems, vars, server, caches, Deployer, Pickup, Begin, Succeed,
       Release, CollectGarbage, RetryItem, RemoveItem, PickupTimeout, ItemFails,
       SetItem, Others
  <2> QED BY <2>1, SameExec
<1>4. CASE SyncExec
  BY <1>4, Numbers DEF SyncExec, server, BookInv, OrderInv, ExecStep
<1>5. CASE Crash
  BY <1>5, EndExec DEF Crash, Restart, server
<1> QED BY <1>1, <1>2, <1>3, <1>4, <1>5 DEF Next, Environment

\* A sound reference stays sound: items keep their names and templates.
LEMMA KeptRef ==
    ASSUME OrderInv, Evolution, TypeInv', NEW t \in Names, NEW r \in Refs,
           RefSound(t, r)
    PROVE  RefSound(t, r)'
<1>1. /\ next \in Nat /\ next' \in Nat /\ next <= next' /\ r.id \in 0..MaxItems
      /\ r.gen \in Nat /\ r.id < next
  BY DEF Evolution, ItemsEvolve, OrderInv, TypeInv, TypeOK, Refs, RefSound
<1>2. ASSUME r.id # 0, di'[r.id].live
      PROVE  di'[r.id].tmpl = t /\ r.gen <= di'[r.id].gen
  <2>1. r.id \in Items
    BY <1>1, <1>2, BoundsAssumption DEF Items
  <2>2. /\ di[r.id].live /\ di'[r.id].tmpl = di[r.id].tmpl
        /\ di[r.id].gen <= di'[r.id].gen
    BY <1>1, <1>2, <2>1 DEF Evolution, ItemsEvolve
  <2>3. di[r.id].gen \in Nat /\ di'[r.id].gen \in Nat
    BY <2>1 DEF OrderInv, TypeInv, TypeOK, DeployItems
  <2>4. di[r.id].tmpl = t /\ r.gen <= di[r.id].gen
    BY <1>2, <2>2 DEF RefSound
  <2> QED BY <1>1, <2>2, <2>3, <2>4
<1> QED BY <1>1, <1>2 DEF RefSound

\* A reference about to be recorded is the one of the item just applied.
LEMMA AppliedRef ==
    ASSUME BookInv, [Next]_vars, Evolution, TypeInv', pc' = "record"
    PROVE  loc'.ref.id # 0 /\ RefSound(Order[loc.at], loc.ref)'
<1>0. OrderInv /\ TypeInv /\ next \in Nat /\ next >= 1
  BY DEF BookInv, OrderInv, TypeInv, TypeOK
<1>1. CASE UNCHANGED <<pc, loc>>
  <2>1. loc.at \in 1..(Len(Order) + 1) /\ loc.at <= Len(Order) /\ loc.ref \in Refs
    BY <1>0, <1>1 DEF TypeInv, TypeOK, InLoop, LocalVars
  <2>2. Order[loc.at] \in Names
    BY <2>1, OrderFacts
  <2>3. PICK r, t : /\ r = loc.ref /\ t = Order[loc.at] /\ RefSound(t, r) /\ r.id # 0
    BY <1>1 DEF BookInv
  <2>4. RefSound(t, r)'
    BY <1>0, <2>1, <2>2, <2>3, KeptRef
  <2> QED BY <1>1, <2>3, <2>4 DEF RefSound
<1>2. CASE ApplyItem
  <2> DEFINE t == Order[loc.at]
             i == loc.items[t].id
             version == loc.tspec[t]
  <2>1. pc = "apply" /\ t \in Names
    <3>1. pc = "apply" /\ loc.at \in 1..(Len(Order) + 1)
      BY <1>0, <1>2 DEF ApplyItem, TypeInv, TypeOK, LocalVars
    <3>2. loc.at <= Len(Order)
      BY <1>0, <3>1 DEF InLoop, TypeInv
    <3> QED BY <3>1, <3>2, OrderFacts
  <2>2. CASE /\ i = 0 /\ next <= MaxItems
             /\ di' = [di EXCEPT ![next] = NewItem(t, version)]
             /\ next' = next + 1
             /\ loc' = [loc EXCEPT !.ref = [id |-> next, gen |-> 1]]
    <3>1. next \in Items
      BY <1>0, <2>2, BoundsAssumption DEF Items
    <3>2. loc'.ref = [id |-> next, gen |-> 1] /\ loc'.at = loc.at
      BY <1>0, <2>2 DEF TypeInv, TypeOK, LocalVars
    <3>3. di'[next] = NewItem(t, version)
      BY <1>0, <2>2, <3>1 DEF TypeInv, TypeOK
    <3>4. NewItem(t, version).tmpl = t /\ NewItem(t, version).gen = 1
      BY DEF NewItem, NoItem
    <3> QED BY <1>0, <2>2, <3>2, <3>3, <3>4 DEF RefSound
  <2>3. CASE /\ i # 0 /\ ViewItems[i].live /\ ViewItems[i] = di[i]
             /\ di' = [di EXCEPT ![i] = Triggered(di[i], version)]
             /\ loc' = [loc EXCEPT !.ref = [id |-> i, gen |-> Triggered(di[i], version).gen],
                                   !.items[t] = Copy(i, Triggered(di[i], version))]
             /\ next' = next
    <3>1. i \in Items
      <4>1. i \in 0..MaxItems
        BY <1>0, <2>1 DEF TypeInv, TypeOK, LocalVars, ItemCopies
      <4>2. i # 0
        BY <2>3
      <4> HIDE DEF i
      <4> QED BY <4>1, <4>2, BoundsAssumption DEF Items
    <3>2. i < next /\ di[i].tmpl = t
      BY <1>0, <2>1, <2>3 DEF OrderInv, LoopEvidence, Looping
    <3>3. loc'.ref = [id |-> i, gen |-> Triggered(di[i], version).gen] /\ loc'.at = loc.at
      BY <1>0, <2>3 DEF TypeInv, TypeOK, LocalVars
    <3> HIDE DEF i, version, t
    <3>4. di'[i] = Triggered(di[i], version) /\ di[i] \in DeployItems
      BY <1>0, <2>3, <3>1 DEF TypeInv, TypeOK
    <3>5. Triggered(di[i], version).tmpl = t
      BY <3>2, <3>4 DEF Triggered, DeployItems
    <3>6. di'[i].gen \in Nat
      BY <3>1 DEF TypeInv, TypeOK, DeployItems
    <3>7. Order[loc'.at] = t
      BY <3>3 DEF t
    <3> QED BY <2>3, <3>2, <3>3, <3>4, <3>5, <3>6, <3>7 DEF RefSound
  <2>4. ~Fail
    BY DEF Fail, Goto
  <2> QED BY <1>2, <2>2, <2>3, <2>4, Zenon DEF ApplyItem
<1>3. ~ListItems /\ ~LoopItem /\ ~RecordItem
  BY DEF ListItems, LoopItem, FollowItem, FailWithItem, RecordItem, Fail, Goto
<1> QED BY <1>0, <1>1, <1>2, <1>3, LoopSteps DEF Looping

\* Every step preserves the invariant.
LEMMA BookStep == BookInv /\ [Next]_vars => BookInv'
<1> SUFFICES ASSUME BookInv, [Next]_vars PROVE BookInv'
  OBVIOUS
<1>1. OrderInv /\ TypeInv /\ OrderInv' /\ TypeInv' /\ Evolution
  BY OrderStep, StepEvolution DEF BookInv, OrderInv
<1>2. ExecStep
  BY ExecSteps
<1>3. /\ GensSound(exec)' /\ GensSound(cexec)' /\ GensSound(l)'
      /\ cexec'.gen <= exec'.gen /\ l'.gen <= exec'.gen
      /\ cur' => l'.gen = exec'.gen
  <2>1. exec'.gen \in Nat
    BY <1>1 DEF TypeInv, TypeOK, Executions
  <2>2. CASE UNCHANGED cexec
    BY <1>1, <1>2, <2>1, <2>2, Numbers DEF BookInv, ExecStep, GensSound
  <2>3. CASE cexec' = exec /\ UNCHANGED exec
    BY <1>1, <1>2, <2>1, <2>3, Numbers DEF BookInv, ExecStep, GensSound
  <2> QED BY <1>2, <2>2, <2>3 DEF ExecStep
<1>4. ASSUME NEW t \in Names, NEW r \in Refs, RefSound(t, r)
      PROVE  RefSound(t, r)'
  BY <1>1, <1>4, KeptRef
<1>5. ASSUME NEW t \in Names
      PROVE  /\ RefSound(t, exec.refs[t])' /\ RefSound(t, l.refs[t])'
             /\ RefSound(t, cexec.refs[t])'
  <2>1. /\ exec.refs[t] \in Refs /\ l.refs[t] \in Refs /\ cexec.refs[t] \in Refs
        /\ loc.ref \in Refs /\ l.refs \in [Names -> Refs] /\ l \in Executions
    BY <1>1 DEF TypeInv, TypeOK, Executions, LocalVars
  <2>2. PICK re, rl, rc : /\ re = exec.refs[t] /\ rl = l.refs[t] /\ rc = cexec.refs[t]
                          /\ re \in Refs /\ rl \in Refs /\ rc \in Refs
    BY <2>1
  <2>3. RefSound(t, re)' /\ RefSound(t, rl)' /\ RefSound(t, rc)'
    BY <1>4, <2>2 DEF BookInv, RefsSound
  <2>4. RefSound(t, NoRef)'
    BY <1>1 DEF RefSound, NoRef, TypeInv, TypeOK
  <2>5. PICK rr : /\ rr = Recorded.refs[t]
                  /\ pc = "record" => RefSound(t, rr)'
    <3>1. Recorded.refs[t] = IF t = Order[loc.at] THEN loc.ref ELSE l.refs[t]
      BY <2>1 DEF Recorded, Executions
    <3>2. PICK ra : ra = loc.ref /\ ra \in Refs
      BY <2>1
    <3>3. pc = "record" /\ t = Order[loc.at] => RefSound(t, ra)'
      BY <1>4, <3>2 DEF BookInv
    <3> QED BY <2>2, <2>3, <3>1, <3>2, <3>3
  <2>6. exec'.refs[t] \in {re, rl} \/ (pc = "record" /\ exec'.refs[t] = rr)
    BY <1>2, <2>2, <2>5 DEF ExecStep
  <2>7. l'.refs[t] \in {re, rc, rl, NoRef} \/ (pc = "record" /\ l'.refs[t] = rr)
    BY <1>2, <2>2, <2>5, NewSound DEF ExecStep
  <2>8. cexec'.refs[t] \in {re, rc}
    BY <1>2, <2>2 DEF ExecStep
  <2> QED BY <2>3, <2>4, <2>5, <2>6, <2>7, <2>8 DEF RefSound
<1>6. RefsSound(exec)' /\ RefsSound(cexec)' /\ RefsSound(l)'
  BY <1>5 DEF RefsSound
<1>7. pc' = "record" => loc'.ref.id # 0 /\ RefSound(Order[loc.at], loc.ref)'
  BY <1>1, AppliedRef
<1> QED BY <1>1, <1>3, <1>6, <1>7 DEF BookInv

\* The status of an execution never runs ahead of the objects it describes:
\* deployOrTrigger creates or updates the deploy item first and records it
\* afterwards, and no crash, conflict, stale cache, edit or deletion in between
\* makes a reference or a recorded generation untrue.
THEOREM BookkeepingIsSound == SafetySpec => []BookkeepingSound
<1>1. BookInv => BookkeepingSound
  BY DEF BookInv, GensSound, RefsSound, RefSound, BookkeepingSound
<1> QED BY BookInit, BookStep, <1>1, PTL DEF SafetySpec

-----------------------------------------------------------------------------
(* What is recorded as applied is applied.                                 *)

\* Executions are read fresh.  Deploy items may lag.
FreshExecution == "exec" \notin Lag

\* Only the first template of the list may have no dependencies: otherwise the
\* rest of a loop may apply templates of an older spec than it then records.
RootFirst == \A k \in 2..Len(Order) : DependsOn[Order[k]] # {}

\* If g is the present generation and the referenced item has not changed since
\* the reference r to it was recorded, then it has the content of the template.
AppliedSound(t, r, g) ==
    g = exec.gen /\ r.id # 0 /\ di[r.id].live /\ di[r.id].gen = r.gen
    => di[r.id].spec = exec.spec[t]

Applied(e) == \A t \in Names : AppliedSound(t, e.refs[t], e.egens[t])

SameBook(e, o) == e.refs = o.refs /\ e.egens = o.egens

\* Before its end a run holds the bookkeeping that is stored: nobody else
\* writes it.
Agreed == pc \notin {"idle", "finish"} => SameBook(l, exec)

\* A generation stands for one content of the spec.
OneContent ==
    /\ l.gen = exec.gen => l.spec = exec.spec
    /\ exec.gen = 1 => exec.spec = Spec0

\* The templates a loop applies are those of the execution it holds, or else an
\* edit came in between, and nothing is recorded as applied since.
LoopContent ==
    /\ pc \in {"apply", "record"} => loc.tspec = l.spec
    /\ pc = "loop" =>
          \/ loc.tspec = l.spec
          \/ loc.at > 1 /\ \A t \in Names : l.egens[t] < l.gen

\* An item that was just applied, and not changed since, has the content of the
\* template it was applied for.
JustApplied ==
    pc = "record" =>
        (di[loc.ref.id].live /\ di[loc.ref.id].gen = loc.ref.gen
         => di[loc.ref.id].spec = loc.tspec[Order[loc.at]])

AppliedInv ==
    /\ BookInv /\ Current
    /\ Applied(exec) /\ Applied(l)
    /\ Agreed /\ OneContent /\ LoopContent /\ JustApplied

\* The invariant holds at the beginning.
LEMMA AppliedInit == Init => AppliedInv
<1> SUFFICES ASSUME Init PROVE AppliedInv
  OBVIOUS
<1>1. /\ exec = NewExecution /\ l = NewExecution /\ pc = "idle" /\ cur = FALSE
  BY DEF Init
<1>2. Applied(exec) /\ Applied(l)
  BY <1>1, NewSound DEF Applied, AppliedSound, NoRef
<1>3. OneContent
  BY <1>1 DEF OneContent, NewExecution
<1> QED
  BY <1>1, <1>2, <1>3, BookInit DEF AppliedInv, Current, Agreed, LoopContent,
     JustApplied

\* The generation of the stored execution grows when its spec changes.
LEMMA SpecKept ==
    ASSUME TypeInv, Current, [Next]_vars
    PROVE  exec.gen <= exec'.gen /\ (exec'.gen = exec.gen => exec'.spec = exec.spec)
<1>0. exec \in Executions /\ exec.gen \in Nat /\ l \in Executions
  BY DEF TypeInv, TypeOK, Executions
<1>1. CASE Quiet \/ Get
  BY <1>0, <1>1, GetHead DEF Quiet, SameHead
<1>2. CASE AddFinalizer
  <2>1. l'.gen = l.gen /\ l'.spec = l.spec /\ pc # "finish"
    BY <1>0, <1>2, AddFinalizerHead DEF Executions
  <2> QED BY <1>0, <1>2, <2>1, AddFinalizerHead DEF Current
<1>3. CASE RemoveFinalizer
  <2>1. exec' = exec \/ exec' = [exec EXCEPT !.fin = FALSE, !.live = FALSE]
    BY <1>3, RemoveFinalizerHead
  <2>2. exec'.gen = exec.gen /\ exec'.spec = exec.spec
    BY <1>0, <2>1 DEF Executions
  <2> QED BY <1>0, <2>2
<1>4. CASE DeleteExecution \/ \E op \in {"reconcile", "force"} : EnsureExecution(op)
  <2>1. /\ exec'.gen \in {exec.gen, exec.gen + 1}
        /\ exec'.spec = exec.spec
           \/ exec'.gen = IF exec'.spec = exec.spec THEN exec.gen ELSE exec.gen + 1
    BY <1>4, UserHead
  <2> QED BY <1>0, <2>1
<1> QED BY <1>1, <1>2, <1>3, <1>4, HeadSteps

\* An item that has the content of a template has it until it changes.
LEMMA KeptItem ==
    ASSUME OrderInv, Evolution, NEW t \in Names, NEW r \in Refs, RefSound(t, r),
           r.id # 0, di'[r.id].live, di'[r.id].gen = r.gen
    PROVE  di[r.id].live /\ di[r.id].gen = r.gen /\ di'[r.id].spec = di[r.id].spec
<1>1. /\ next \in Nat /\ r.id \in 0..MaxItems /\ r.gen \in Nat /\ r.id < next
  BY DEF OrderInv, TypeInv, TypeOK, Refs, RefSound
<1>2. r.id \in Items
  BY <1>1, BoundsAssumption DEF Items
<1>3. /\ di[r.id].live /\ di[r.id].gen <= di'[r.id].gen
      /\ di'[r.id].gen = di[r.id].gen => di'[r.id].spec = di[r.id].spec
  BY <1>1, <1>2 DEF Evolution, ItemsEvolve
<1>4. di[r.id].gen \in Nat /\ r.gen <= di[r.id].gen
  BY <1>2, <1>3 DEF OrderInv, TypeInv, TypeOK, DeployItems, RefSound
<1> QED BY <1>1, <1>3, <1>4

\* What was recorded as applied stays so: an edit makes the record outdated.
LEMMA KeptApplied ==
    ASSUME BookInv, Current, [Next]_vars, NEW t \in Names, NEW r \in Refs,
           NEW g \in Nat, RefSound(t, r), g <= exec.gen, AppliedSound(t, r, g)
    PROVE  AppliedSound(t, r, g)'
<1> SUFFICES ASSUME g = exec'.gen, r.id # 0, di'[r.id].live, di'[r.id].gen = r.gen
             PROVE  di'[r.id].spec = exec'.spec[t]
  BY DEF AppliedSound
<1>1. OrderInv /\ TypeInv /\ Evolution
  BY StepEvolution DEF BookInv, OrderInv
<1>2. di[r.id].live /\ di[r.id].gen = r.gen /\ di'[r.id].spec = di[r.id].spec
  BY <1>1, KeptItem
<1>3. exec.gen \in Nat /\ exec.gen <= exec'.gen
      /\ (exec'.gen = exec.gen => exec'.spec = exec.spec)
  BY <1>1, SpecKept, Numbers
<1>4. exec'.gen = exec.gen
  BY <1>3
<1> QED BY <1>2, <1>3, <1>4 DEF AppliedSound

\* Where the references and the recorded generations of the stored execution
\* and of the running Reconcile come from in one step.
BookMoves ==
    /\ \/ SameBook(exec', exec) \/ SameBook(exec', l)
       \/ pc = "record" /\ SameBook(exec', Recorded)
    /\ \/ SameBook(l', l) \/ SameBook(l', exec) \/ SameBook(l', NewExecution)
       \/ pc = "record" /\ SameBook(l', Recorded)
    /\ \/ pc' \in {"idle", "finish"} \/ SameBook(l', exec')
       \/ SameBook(exec', exec) /\ SameBook(l', l) /\ pc \notin {"idle", "finish"}

\* The run goes on with o, which is stored or refused, or ends with it.
LEMMA WriteMoves ==
    ASSUME NEW o, SameBook(o, l), UNCHANGED exec \/ SameBook(exec', o),
           \/ l' = o /\ (SameBook(exec', o) \/ pc' = "finish")
           \/ l' = NewExecution /\ pc' = "idle"
    PROVE  BookMoves
BY DEF BookMoves, SameBook

\* The optimistic writes and the reading of the run.
LEMMA FrontMoves ==
    ASSUME TypeInv, FreshExecution,
           \/ Get \/ ResetPhase \/ DropOperation \/ ForceReset \/ AddFinalizer
           \/ Recheck
    PROVE  BookMoves
<1>0. l \in Executions
  BY DEF TypeInv, TypeOK
<1>1. CASE Get
  <2>1. /\ UNCHANGED exec
        /\ l' = exec \/ (l' = l /\ pc' = "idle")
    BY <1>1 DEF Get, server, ViewExec, FreshExecution
  <2> QED BY <2>1 DEF BookMoves, SameBook
<1>2. CASE ResetPhase \/ DropOperation \/ ForceReset \/ AddFinalizer
  <2>1. PICK o, p : /\ \/ o = [l EXCEPT !.obs = l.gen, !.phase = "Init"]
                       \/ o = [l EXCEPT !.op = "none"]
                       \/ o = [l EXCEPT !.phase = "Init"]
                       \/ o = [l EXCEPT !.fin = TRUE]
                    /\ Update(o, p)
    BY <1>2 DEF ResetPhase, DropOperation, ForceReset, AddFinalizer
  <2>2. SameBook(o, l)
    BY <1>0, <2>1 DEF SameBook, Executions
  <2>3. l' = o /\ (exec' = o \/ (pc' = "finish" /\ UNCHANGED exec))
    BY <2>1 DEF Update
  <2> QED BY <2>2, <2>3, WriteMoves DEF SameBook
<1>3. CASE Recheck
  <2> DEFINE items == ViewItems
             cp == CombinedPhase({items[l.refs[t].id].phase : t \in Referenced})
             p == IF Outdated(items) THEN "Progressing" ELSE cp
             o == [l EXCEPT !.phase = p]
  <2>1. \/ (UNCHANGED exec \/ exec' = o) /\ l' = NewExecution /\ pc' = "idle"
        \/ exec' = o /\ l' = o
    BY <1>3 DEF Recheck, Return, server
  <2>2. SameBook(o, l)
    BY <1>0 DEF SameBook, Executions
  <2> HIDE DEF o
  <2> QED BY <2>1, <2>2, WriteMoves DEF SameBook
<1> QED BY <1>1, <1>2, <1>3

\* The end of a run.
LEMMA EndMoves ==
    ASSUME TypeInv, ExportAgain \/ Export \/ HandleError \/ Crash
    PROVE  BookMoves
<1>0. l \in Executions /\ exec \in Executions
  BY DEF TypeInv, TypeOK
<1>1. CASE ExportAgain \/ Export
  <2> DEFINE o == [l EXCEPT !.exported = TRUE]
             q == [o EXCEPT !.phase = "Succeeded"]
  <2>1. SameBook(o, l) /\ SameBook(q, l)
    BY <1>0 DEF SameBook, Executions
  <2>2. /\ UNCHANGED exec \/ exec' = o
        /\ \/ pc' = "idle" /\ l' = NewExecution
           \/ pc' = "finish" /\ l' \in {l, o, q}
    BY <1>1 DEF ExportAgain, Export, Return, Restart, Fail, Goto
  <2> HIDE DEF o, q
  <2> QED BY <2>1, <2>2 DEF BookMoves, SameBook
<1>2. CASE HandleError
  <2> DEFINE kept == loc.err \/ loc.touched \/ l.err # loc.old.err
             e == IF kept THEN l.err ELSE "none"
             o == [l EXCEPT !.err = e, !.phase = PhaseForLastError(l.phase, e)]
  <2>1. l' = NewExecution /\ pc' = "idle"
        /\ (UNCHANGED exec \/ exec' = WithStatus(exec, o))
    BY <1>2 DEF HandleError, Return
  <2>2. SameBook(o, l)
    BY <1>0 DEF SameBook, Executions
  <2> HIDE DEF o
  <2>3. SameBook(WithStatus(exec, o), o)
    BY <1>0 DEF WithStatus, SameBook, Executions
  <2> QED BY <2>1, <2>2, <2>3 DEF BookMoves, SameBook
<1>3. CASE Crash
  BY <1>3 DEF Crash, Restart, server, BookMoves, SameBook
<1> QED BY <1>1, <1>2, <1>3

\* The steps that look at items.
LEMMA ItemsMoves ==
    ASSUME TypeInv, Current,
           \/ ListItems \/ LoopItem \/ EndLoop \/ ApplyItem \/ DeleteList
           \/ DeleteItem
    PROVE  BookMoves
<1>1. l \in Executions /\ UNCHANGED exec
  BY InMemory DEF TypeInv, TypeOK
<1>2. l'.refs = l.refs /\ l'.egens = l.egens
  BY <1>1, InMemory DEF Executions
<1>3. pc \notin {"idle", "finish"}
  BY Zenon DEF ListItems, LoopItem, EndLoop, ApplyItem, DeleteList, DeleteItem
<1> QED BY <1>1, <1>2, <1>3 DEF BookMoves, SameBook

\* The writes whose answer replaces the copy of the run, and failing calls.
LEMMA AnswerMoves ==
    ASSUME TypeInv, Agreed,
           RecordItem \/ RemoveForce \/ RemoveFinalizer \/ CallFails
    PROVE  BookMoves
<1>0. l \in Executions /\ exec \in Executions
  BY DEF TypeInv, TypeOK
<1>1. CASE RecordItem
  <2>1. pc = "record" /\ \/ exec' = Patched /\ l' = Patched
                         \/ UNCHANGED <<exec, l>> /\ pc' = "finish"
    BY <1>1 DEF RecordItem, Fail, Goto
  <2>2. SameBook(l, exec)
    BY <2>1 DEF Agreed
  <2>3. SameBook(Patched, Recorded)
    BY <1>0, <2>2 DEF SameBook, Patched, Executions
  <2> QED BY <2>1, <2>3 DEF BookMoves, SameBook
<1>2. CASE RemoveForce
  <2>1. \/ l' = exec' /\ exec' \in {exec, [exec EXCEPT !.op = "none"]}
        \/ UNCHANGED <<exec, l>> /\ pc' = "finish"
    BY <1>2 DEF RemoveForce, Fail, Goto
  <2>2. SameBook(exec', exec)
    BY <1>0, <2>1 DEF SameBook, Executions
  <2> QED BY <2>1, <2>2 DEF BookMoves, SameBook
<1>3. CASE RemoveFinalizer
  <2>1. /\ pc' = "finish"
        /\ \/ UNCHANGED <<exec, l>>
           \/ l' = exec' /\ exec' = [exec EXCEPT !.fin = FALSE, !.live = FALSE]
    BY <1>3, RemoveFinalizerHead
  <2>2. SameBook(exec', exec)
    BY <1>0, <2>1 DEF SameBook, Executions
  <2> QED BY <2>1, <2>2 DEF BookMoves, SameBook
<1>4. CASE CallFails
  <2>1. /\ UNCHANGED exec /\ pc' = "finish"
        /\ \/ l' = l \/ \E p : l' = [l EXCEPT !.phase = p]
           \/ pc = "record" /\ l' = Recorded
    BY <1>4 DEF CallFails, server
  <2>2. SameBook(l', l) \/ (pc = "record" /\ SameBook(l', Recorded))
    BY <1>0, <2>1 DEF SameBook, Executions
  <2> QED BY <2>1, <2>2 DEF BookMoves, SameBook
<1> QED BY <1>1, <1>2, <1>3, <1>4

\* Every step of the system.
LEMMA MovesStep ==
    ASSUME TypeInv, Current, Agreed, FreshExecution, [Next]_vars
    PROVE  BookMoves
<1>1. CASE Controller
  BY <1>1, FrontMoves, EndMoves, ItemsMoves, AnswerMoves DEF Controller
<1>2. CASE Crash \/ CallFails
  BY <1>2, EndMoves, AnswerMoves
<1>3. CASE \/ SyncExec \/ SyncItems \/ UNCHANGED vars
           \/ DeleteExecution \/ \E op \in {"reconcile", "force"} : EnsureExecution(op)
           \/ \E i \in Items :
                \/ Deployer(i) \/ CollectGarbage(i)
                \/ RetryItem(i) \/ RemoveItem(i) \/ PickupTimeout(i) \/ ItemFails(i)
  <2>1. UNCHANGED <<l, pc>>
    BY <1>3 DEF SyncExec, SyncItems, vars, server, caches, Deployer, Pickup, Begin,
       Succeed, Release, CollectGarbage, RetryItem, RemoveItem, PickupTimeout,
       ItemFails, SetItem, Others, DeleteExecution, EnsureExecution
  <2>2. SameBook(exec', exec)
    <3>1. CASE DeleteExecution \/ \E op \in {"reconcile", "force"} : EnsureExecution(op)
      BY <3>1, ZenonT(40) DEF DeleteExecution, EnsureExecution, SameBook, TypeInv, TypeOK, Executions
    <3>2. CASE UNCHANGED exec
      BY <3>2 DEF SameBook
    <3> QED
      BY <1>3, <3>1, <3>2 DEF SyncExec, SyncItems, vars, server, Deployer, Pickup,
         Begin, Succeed, Release, CollectGarbage, RetryItem, RemoveItem,
         PickupTimeout, ItemFails, SetItem, Others
  <2> QED BY <2>1, <2>2 DEF BookMoves, SameBook
<1> QED BY <1>1, <1>2, <1>3 DEF Next, Environment

\* What the patch records is applied: no edit came between ApplyItem and the
\* generation the patch records, or else that generation is outdated.
LEMMA RecordedApplied == ASSUME AppliedInv, pc = "record" PROVE Applied(Recorded)
<1>0. /\ l \in Executions /\ loc.ref \in Refs /\ loc.at \in 1..Len(Order)
      /\ Order[loc.at] \in Names
  <2>1. /\ l \in Executions /\ loc.ref \in Refs /\ loc.at \in 1..(Len(Order) + 1)
        /\ loc.at <= Len(Order)
    BY DEF AppliedInv, BookInv, OrderInv, TypeInv, TypeOK, InLoop, LocalVars
  <2> QED BY <2>1, OrderFacts
<1>1. /\ Recorded.refs = [l.refs EXCEPT ![Order[loc.at]] = loc.ref]
      /\ Recorded.egens = [l.egens EXCEPT ![Order[loc.at]] = l.gen]
  BY <1>0 DEF Recorded, Executions
<1>2. AppliedSound(Order[loc.at], loc.ref, l.gen)
  BY DEF AppliedInv, OneContent, LoopContent, JustApplied, AppliedSound
<1>3. ASSUME NEW t \in Names
      PROVE  AppliedSound(t, Recorded.refs[t], Recorded.egens[t])
  <2>1. l.refs \in [Names -> Refs] /\ l.egens \in [Names -> Nat]
    BY <1>0 DEF Executions
  <2>2. CASE t = Order[loc.at]
    <3>1. Recorded.refs[t] = loc.ref /\ Recorded.egens[t] = l.gen
      BY <1>1, <2>1, <2>2
    <3> QED BY <1>2, <2>2, <3>1
  <2>3. CASE t # Order[loc.at]
    <3>1. Recorded.refs[t] = l.refs[t] /\ Recorded.egens[t] = l.egens[t]
      BY <1>1, <2>1, <2>3
    <3> QED BY <3>1 DEF AppliedInv, Applied
  <2> QED BY <2>2, <2>3
<1> QED BY <1>3 DEF Applied

\* What is recorded stays applied wherever it is kept.
LEMMA AppliedStays ==
    ASSUME AppliedInv, FreshExecution, [Next]_vars
    PROVE  Applied(exec)' /\ Applied(l)'
<1>0. TypeInv /\ BookInv /\ Current
  BY DEF AppliedInv, BookInv, OrderInv
<1>1. BookMoves
  BY <1>0, MovesStep DEF AppliedInv
<1>2. ASSUME NEW t \in Names
      PROVE  /\ AppliedSound(t, exec.refs[t], exec.egens[t])'
             /\ AppliedSound(t, l.refs[t], l.egens[t])'
  <2>1. /\ exec.refs[t] \in Refs /\ l.refs[t] \in Refs
        /\ exec.egens[t] \in Nat /\ l.egens[t] \in Nat
        /\ exec.egens[t] <= exec.gen /\ l.egens[t] <= l.gen /\ l.gen <= exec.gen
        /\ exec.gen \in Nat /\ l.gen \in Nat
    BY <1>0, Numbers DEF BookInv, GensSound, TypeInv, TypeOK, Executions
  <2>2. PICK re, ge : /\ re = exec.refs[t] /\ ge = exec.egens[t]
                      /\ AppliedSound(t, re, ge)'
    <3>1. PICK re \in Refs, ge \in Nat : re = exec.refs[t] /\ ge = exec.egens[t]
      BY <2>1
    <3>2. RefSound(t, re) /\ ge <= exec.gen /\ AppliedSound(t, re, ge)
      BY <2>1, <3>1 DEF AppliedInv, BookInv, RefsSound, Applied
    <3>3. AppliedSound(t, re, ge)'
      BY <1>0, <3>2, KeptApplied
    <3> QED BY <3>1, <3>3
  <2>3. PICK rl, gl : /\ rl = l.refs[t] /\ gl = l.egens[t]
                      /\ AppliedSound(t, rl, gl)'
    <3>1. PICK rl \in Refs, gl \in Nat : rl = l.refs[t] /\ gl = l.egens[t]
      BY <2>1
    <3>2. RefSound(t, rl) /\ gl <= exec.gen /\ AppliedSound(t, rl, gl)
      BY <2>1, <3>1 DEF AppliedInv, BookInv, RefsSound, Applied
    <3>3. AppliedSound(t, rl, gl)'
      BY <1>0, <3>2, KeptApplied
    <3> QED BY <3>1, <3>3
  <2>4. PICK rr, gr : /\ rr = Recorded.refs[t] /\ gr = Recorded.egens[t]
                      /\ pc = "record" => AppliedSound(t, rr, gr)'
    <3>1. CASE pc # "record"
      BY <3>1
    <3>2. CASE pc = "record"
      <4>1. Recorded \in Executions
        BY <1>0, <3>2, RecordedType
      <4>2. PICK rr \in Refs, gr \in Nat : rr = Recorded.refs[t] /\ gr = Recorded.egens[t]
        BY <4>1 DEF Executions
      <4>3. gr <= exec.gen
        BY <1>0, <2>1, <3>2, <4>2, RecordedSound
      <4>4. RefSound(t, rr)
        <5>1. rr = IF t = Order[loc.at] THEN loc.ref ELSE l.refs[t]
          BY <1>0, <4>2 DEF Recorded, TypeInv, TypeOK, Executions
        <5> QED BY <1>0, <3>2, <5>1 DEF BookInv, RefsSound
      <4>5. AppliedSound(t, rr, gr)
        BY <3>2, <4>2, RecordedApplied DEF Applied
      <4>6. AppliedSound(t, rr, gr)'
        BY <1>0, <4>3, <4>4, <4>5, KeptApplied
      <4> QED BY <4>2, <4>6
    <3> QED BY <3>1, <3>2
  <2>5. PICK rn, gn : /\ rn = NewExecution.refs[t] /\ gn = NewExecution.egens[t]
                      /\ AppliedSound(t, rn, gn)'
    BY NewSound DEF AppliedSound, NoRef
  <2>6. \/ exec'.refs[t] = re /\ exec'.egens[t] = ge
        \/ exec'.refs[t] = rl /\ exec'.egens[t] = gl
        \/ pc = "record" /\ exec'.refs[t] = rr /\ exec'.egens[t] = gr
    BY <1>1, <2>2, <2>3, <2>4 DEF BookMoves, SameBook
  <2>7. \/ l'.refs[t] = re /\ l'.egens[t] = ge
        \/ l'.refs[t] = rl /\ l'.egens[t] = gl
        \/ l'.refs[t] = rn /\ l'.egens[t] = gn
        \/ pc = "record" /\ l'.refs[t] = rr /\ l'.egens[t] = gr
    BY <1>1, <2>2, <2>3, <2>4, <2>5 DEF BookMoves, SameBook
  <2>8. AppliedSound(t, exec.refs[t], exec.egens[t])'
    BY <2>2, <2>3, <2>4, <2>6 DEF AppliedSound
  <2>9. AppliedSound(t, l.refs[t], l.egens[t])'
    BY <2>2, <2>3, <2>4, <2>5, <2>7 DEF AppliedSound
  <2> QED BY <2>8, <2>9
<1> QED BY <1>2 DEF Applied

\* A run agrees with the server about the bookkeeping until its end.
LEMMA AgreedStep == ASSUME BookMoves, Agreed PROVE Agreed'
BY DEF BookMoves, Agreed, SameBook

\* A generation stands for one content of the spec.
LEMMA OneContentStep ==
    ASSUME AppliedInv, FreshExecution, [Next]_vars
    PROVE  OneContent'
<1>0. TypeInv /\ Current /\ OneContent
  BY DEF AppliedInv, BookInv, OrderInv
<1>1. /\ exec.gen <= exec'.gen /\ (exec'.gen = exec.gen => exec'.spec = exec.spec)
      /\ exec.gen \in Nat \ {0} /\ l.gen \in Nat /\ l.gen <= exec.gen
  BY <1>0, SpecKept, Numbers DEF AppliedInv, BookInv
<1>2. exec'.gen = 1 => exec'.spec = Spec0
  <2>1. exec'.gen = 1 => exec.gen = 1
    BY <1>1
  <2> QED BY <1>0, <1>1, <2>1 DEF OneContent
<1>3. ASSUME SameHead(l', l) PROVE OneContent'
  <2>1. ASSUME l'.gen = exec'.gen PROVE l'.spec = exec'.spec
    <3>1. l.gen = exec.gen /\ exec'.gen = exec.gen
      BY <1>1, <1>3, <2>1 DEF SameHead
    <3> QED BY <1>0, <1>1, <1>3, <3>1 DEF SameHead, OneContent
  <2> QED BY <1>2, <2>1 DEF OneContent
<1>4. ASSUME l'.spec = exec'.spec PROVE OneContent'
  BY <1>2, <1>4 DEF OneContent
<1>5. ASSUME l' = NewExecution PROVE OneContent'
  BY <1>2, <1>5 DEF OneContent, NewExecution
<1>6. CASE Quiet
  BY <1>3, <1>4, <1>5, <1>6 DEF Quiet, SameHead
<1>7. CASE Get
  <2>1. SameHead(l', l) \/ l'.spec = exec'.spec
    BY <1>7, GetHead DEF ViewExec, FreshExecution, SameHead
  <2> QED BY <1>3, <1>4, <2>1
<1>8. CASE AddFinalizer
  <2>1. l'.gen = l.gen /\ l'.spec = l.spec
    BY <1>0, <1>8, AddFinalizerHead DEF TypeInv, TypeOK, Executions
  <2>2. ASSUME l'.gen = exec'.gen PROVE l'.spec = exec'.spec
    <3>1. l.gen = exec.gen /\ exec'.gen = exec.gen
      BY <1>0, <1>1, <1>8, <2>1, <2>2, AddFinalizerHead DEF Current
    <3> QED BY <1>0, <1>1, <2>1, <3>1 DEF OneContent
  <2> QED BY <1>2, <2>2 DEF OneContent
<1>9. CASE RemoveFinalizer
  <2>1. SameHead(l', l) \/ l'.spec = exec'.spec
    BY <1>9, RemoveFinalizerHead DEF SameHead
  <2> QED BY <1>3, <1>4, <2>1
<1>10. CASE DeleteExecution \/ \E op \in {"reconcile", "force"} : EnsureExecution(op)
  <2>1. SameHead(l', l)
    BY <1>0, <1>10, UserHead DEF SameHead
  <2> QED BY <1>3, <2>1
<1> QED BY <1>0, <1>6, <1>7, <1>8, <1>9, <1>10, HeadSteps

\* The loop applies the spec of the generation it records: if a patch brings in
\* a newer spec, no other template is runnable in this loop.
LEMMA LoopContentStep ==
    ASSUME AppliedInv, RootFirst, [Next]_vars
    PROVE  LoopContent'
<1>0. /\ TypeInv /\ LoopContent /\ l \in Executions /\ exec \in Executions
      /\ loc.at \in 1..(Len(Order) + 1) /\ l.gen \in Nat /\ exec.gen \in Nat
  BY DEF AppliedInv, BookInv, OrderInv, TypeInv, TypeOK, LocalVars, Executions
<1>1. CASE pc' \notin Looping
  BY <1>1 DEF LoopContent, Looping
<1>2. CASE UNCHANGED <<pc, loc, l>>
  BY <1>0, <1>2 DEF LoopContent
<1>3. CASE ListItems
  <2>1. pc' \in {"loop", "finish"} /\ l' = [l EXCEPT !.phase = "Progressing"]
    BY <1>3 DEF ListItems
  <2>2. PICK a \in Assignments(ViewItems) :
          loc' = [loc EXCEPT !.force = (l.op = "force"), !.tspec = l.spec,
                             !.items = Copies(a, ViewItems), !.at = 1,
                             !.acc = NoPhase, !.err = (Orphans(a, ViewItems) # {})]
    BY <1>3, Zenon DEF ListItems
  <2>3. l'.spec = l.spec /\ loc'.tspec = l.spec
    BY <1>0, <2>1, <2>2 DEF Executions, TypeInv, TypeOK, LocalVars
  <2> QED BY <2>1, <2>3 DEF LoopContent
<1>4. CASE LoopItem
  <2>0. pc = "loop" /\ loc.at <= Len(Order)
    BY <1>4 DEF LoopItem
  <2>1. CASE pc' = "loop"
    <3>1. /\ l'.spec = l.spec /\ l'.egens = l.egens /\ l'.gen = l.gen
      <4>1. l' = l \/ l' = [l EXCEPT !.phase = "Progressing"]
        BY <1>4, <2>1 DEF LoopItem, FollowItem, FailWithItem, Goto
      <4> QED BY <1>0, <4>1 DEF Executions
    <3>2. loc'.tspec = loc.tspec /\ loc'.at = loc.at + 1
      <4>1. \E acc : NextItem(acc)
        BY <1>4, <2>1 DEF LoopItem, FollowItem, FailWithItem, Goto
      <4>2. PICK acc : loc' = [loc EXCEPT !.at = loc.at + 1, !.acc = acc]
        BY <4>1 DEF NextItem
      <4> QED BY <1>0, <4>2 DEF TypeInv, TypeOK, LocalVars
    <3> QED BY <1>0, <2>0, <2>1, <3>1, <3>2 DEF LoopContent
  <2>2. CASE pc' = "apply"
    <3>1. /\ l' = l /\ loc' = loc /\ Runnable(Order[loc.at])
      BY <1>4, <2>2 DEF LoopItem, FollowItem, FailWithItem, Goto
    <3>2. loc.tspec = l.spec
      <4> SUFFICES ASSUME loc.at > 1, \A t \in Names : l.egens[t] < l.gen
                   PROVE  FALSE
        BY <1>0, <2>0 DEF LoopContent
      <4>1. Order[loc.at] \in Names /\ loc.at \in 2..Len(Order)
        BY <1>0, <2>0, OrderFacts
      <4>2. PICK dep \in DependsOn[Order[loc.at]] : TRUE
        BY <4>1 DEF RootFirst
      <4>3. dep \in Names
        BY <4>1, <4>2, DependsOnAssumption
      <4>4. l.egens[dep] = l.gen
        BY <3>1, <4>2 DEF Runnable, IsUpToDate
      <4> QED BY <1>0, <4>3, <4>4
    <3> QED BY <2>2, <3>1, <3>2 DEF LoopContent
  <2>3. pc' \in {"loop", "apply", "finish"}
    BY <1>4 DEF LoopItem, FollowItem, FailWithItem, Goto
  <2> QED BY <2>1, <2>2, <2>3 DEF LoopContent
<1>5. CASE ApplyItem
  <2>1. pc = "apply" /\ l' = l /\ pc' \in {"record", "finish"}
    BY <1>5, Zenon DEF ApplyItem, Goto, Fail
  <2> DEFINE t == Order[loc.at]
             i == loc.items[t].id
             d == Triggered(di[i], loc.tspec[t])
  <2>2. \/ loc' = [loc EXCEPT !.ref = [id |-> next, gen |-> 1]]
        \/ loc' = [loc EXCEPT !.ref = [id |-> i, gen |-> d.gen], !.items[t] = Copy(i, d)]
        \/ loc' = [loc EXCEPT !.err = TRUE]
    BY <1>5, Zenon DEF ApplyItem, Goto, Fail
  <2> HIDE DEF d, i, t
  <2>3. loc'.tspec = loc.tspec
    BY <1>0, <2>2 DEF TypeInv, TypeOK, LocalVars
  <2> QED BY <1>0, <2>1, <2>3 DEF LoopContent
<1>6. CASE RecordItem
  <2>1. pc = "record" /\ pc' \in {"loop", "finish"}
    BY <1>6 DEF RecordItem, Fail, Goto
  <2>2. ASSUME pc' = "loop"
        PROVE  /\ l' = Patched
               /\ loc' = [loc EXCEPT !.at = loc.at + 1, !.ref = NoRef,
                                     !.acc = CombinedPhase({loc.acc, "Init"})]
    BY <1>6, <2>2 DEF RecordItem, Fail, Goto
  <2>3. ASSUME pc' = "loop" PROVE loc'.at = loc.at + 1 /\ loc'.tspec = loc.tspec
    BY <1>0, <2>2, <2>3 DEF TypeInv, TypeOK, LocalVars
  <2>4. SameBook(Patched, Recorded) /\ Patched.gen = exec.gen /\ Patched.spec = exec.spec
    <3>1. SameBook(l, exec)
      BY <2>1 DEF AppliedInv, Agreed
    <3> QED BY <1>0, <3>1 DEF SameBook, Patched, Executions
  <2>5. l.gen <= exec.gen /\ \A t \in Names : Recorded.egens[t] <= l.gen
    BY <2>1, RecordedSound DEF AppliedInv, BookInv
  <2>6. CASE l.gen = exec.gen
    <3>1. loc.tspec = exec.spec
      BY <1>0, <2>1, <2>6 DEF AppliedInv, LoopContent, OneContent
    <3> QED BY <2>1, <2>2, <2>3, <2>4, <3>1 DEF LoopContent
  <2>7. CASE l.gen < exec.gen
    <3>1. \A t \in Names : Patched.egens[t] < Patched.gen
      <4>1. Recorded \in Executions
        BY <1>0, <2>1, RecordedType
      <4>2. \A t \in Names : Recorded.egens[t] \in Nat
        BY <4>1 DEF Executions
      <4> QED BY <1>0, <2>4, <2>5, <2>7, <4>2 DEF SameBook
    <3>2. pc' = "loop" => l'.egens = Patched.egens /\ l'.gen = Patched.gen
      BY <2>2
    <3>3. pc' = "loop" => loc'.at > 1
      BY <1>0, <2>3
    <3> QED BY <2>1, <3>1, <3>2, <3>3 DEF LoopContent
  <2>8. l.gen = exec.gen \/ l.gen < exec.gen
    BY <1>0, <2>5
  <2> QED BY <2>6, <2>7, <2>8
<1> QED BY <1>0, <1>1, <1>2, <1>3, <1>4, <1>5, <1>6, LoopSteps

\* An item that was just applied has the content of its template.
LEMMA JustAppliedStep ==
    ASSUME AppliedInv, [Next]_vars
    PROVE  JustApplied'
<1>0. /\ BookInv /\ OrderInv /\ TypeInv /\ Evolution /\ next \in Nat /\ next >= 1
      /\ loc.at \in 1..(Len(Order) + 1)
  <2>1. BookInv /\ OrderInv /\ TypeInv
    BY DEF AppliedInv, BookInv, OrderInv
  <2>2. Evolution
    BY <2>1, StepEvolution
  <2>3. next \in Nat /\ next >= 1 /\ loc \in LocalVars
    BY <2>1 DEF TypeInv, TypeOK
  <2>4. loc.at \in 1..(Len(Order) + 1)
    BY <2>3 DEF LocalVars
  <2> QED BY <2>1, <2>2, <2>3, <2>4
<1>1. CASE UNCHANGED <<pc, loc, l>>
  <2> SUFFICES ASSUME pc = "record", di'[loc.ref.id].live, di'[loc.ref.id].gen = loc.ref.gen
               PROVE  di'[loc.ref.id].spec = loc.tspec[Order[loc.at]]
    BY <1>1 DEF JustApplied
  <2>1. loc.ref \in Refs /\ Order[loc.at] \in Names
    <3>1. loc.at <= Len(Order) /\ loc.ref \in Refs
      BY <1>0 DEF TypeInv, TypeOK, InLoop, LocalVars
    <3> QED BY <1>0, <3>1, OrderFacts
  <2>2. loc.ref.id # 0 /\ RefSound(Order[loc.at], loc.ref)
    BY <1>0 DEF BookInv
  <2>3. PICK r \in Refs, t \in Names : r = loc.ref /\ t = Order[loc.at]
    BY <2>1
  <2>4. /\ di[r.id].live /\ di[r.id].gen = r.gen /\ di'[r.id].spec = di[r.id].spec
    BY <1>0, <2>2, <2>3, KeptItem
  <2>5. di[r.id].spec = loc.tspec[t]
    BY <2>3, <2>4 DEF AppliedInv, JustApplied
  <2> QED BY <2>3, <2>4, <2>5
<1>2. CASE ApplyItem
  <2> DEFINE t == Order[loc.at]
             i == loc.items[t].id
             version == loc.tspec[t]
  <2>1. pc = "apply" /\ t \in Names
    <3>1. pc = "apply"
      BY <1>2 DEF ApplyItem
    <3>2. loc.at <= Len(Order)
      BY <1>0, <3>1 DEF InLoop, TypeInv
    <3> QED BY <1>0, <3>1, <3>2, OrderFacts
  <2>2. CASE /\ i = 0 /\ next <= MaxItems
             /\ di' = [di EXCEPT ![next] = NewItem(t, version)]
             /\ next' = next + 1
             /\ loc' = [loc EXCEPT !.ref = [id |-> next, gen |-> 1]]
    <3>1. next \in Items
      BY <1>0, <2>2, BoundsAssumption DEF Items
    <3>2. loc'.ref.id = next /\ loc'.at = loc.at /\ loc'.tspec = loc.tspec
      BY <1>0, <2>2 DEF TypeInv, TypeOK, LocalVars
    <3>3. di'[next].spec = version
      BY <1>0, <2>2, <3>1 DEF TypeInv, TypeOK, NewItem, NoItem
    <3> QED BY <3>2, <3>3 DEF JustApplied
  <2>3. CASE /\ i # 0 /\ ViewItems[i].live /\ ViewItems[i] = di[i]
             /\ di' = [di EXCEPT ![i] = Triggered(di[i], version)]
             /\ loc' = [loc EXCEPT !.ref = [id |-> i, gen |-> Triggered(di[i], version).gen],
                                   !.items[t] = Copy(i, Triggered(di[i], version))]
             /\ next' = next
    <3>1. i \in Items
      BY <1>0, <2>1, <2>3, ListedItem
    <3>2. PICK d : d = Triggered(di[i], version)
      OBVIOUS
    <3>3. d.spec = version
      <4>1. di[i] \in DeployItems
        BY <1>0, <3>1 DEF TypeInv, TypeOK
      <4> HIDE DEF i, version
      <4> QED BY <3>2, <4>1 DEF Triggered, DeployItems
    <3>4. di'[i] = d
      BY <1>0, <2>3, <3>1, <3>2 DEF TypeInv, TypeOK
    <3>5. loc' = [loc EXCEPT !.ref = [id |-> i, gen |-> d.gen], !.items[t] = Copy(i, d)]
      BY <2>3, <3>2
    <3> HIDE DEF i
    <3>6. loc'.ref.id = i /\ loc'.at = loc.at /\ loc'.tspec = loc.tspec
      BY <1>0, <3>5 DEF TypeInv, TypeOK, LocalVars
    <3> QED BY <3>3, <3>4, <3>6 DEF JustApplied
  <2>4. CASE pc' = "finish"
    BY <2>4 DEF JustApplied
  <2> QED BY <1>2, <2>2, <2>3, <2>4, Zenon DEF ApplyItem, Goto, Fail
<1>3. CASE ListItems \/ LoopItem \/ RecordItem
  BY <1>3 DEF ListItems, LoopItem, FollowItem, FailWithItem, RecordItem, Fail, Goto,
     JustApplied
<1>4. CASE pc' \notin Looping
  BY <1>4 DEF Looping, JustApplied
<1> QED BY <1>0, <1>1, <1>2, <1>3, <1>4, LoopSteps

\* The invariant is inductive.
LEMMA AppliedInvStep ==
    ASSUME FreshExecution, RootFirst, AppliedInv, [Next]_vars
    PROVE  AppliedInv'
<1>1. TypeInv /\ BookInv /\ Current /\ Agreed
  BY DEF AppliedInv, BookInv, OrderInv
<1>2. BookInv' /\ Current'
  BY <1>1, BookStep, CurrentStep
<1>3. Agreed'
  BY <1>1, MovesStep, AgreedStep
<1> QED
  BY <1>2, <1>3, AppliedStays, OneContentStep, LoopContentStep, JustAppliedStep
     DEF AppliedInv

\* status.execGenerations and the references beside it tell the truth about what
\* was rolled out (deployOrTrigger, generations.IsUpToDate): whatever edits,
\* crashes, failing calls, stale lists of items, retries and deletions come
\* between applying an item and recording it, an item that counts as up-to-date
\* has the content of its template.  This needs fresh reads of the execution,
\* and templates that all but the first wait for another: the patch that records
\* an item takes over the generation of an edit the loop has not seen.
THEOREM RecordedIsApplied ==
    ASSUME FreshExecution, RootFirst
    PROVE  SafetySpec => []RecordedGenerationApplied
<1>1. AppliedInv /\ [Next]_vars => AppliedInv'
  BY AppliedInvStep
<1>2. AppliedInv => RecordedGenerationApplied
  BY DEF AppliedInv, Applied, AppliedSound, RecordedGenerationApplied, Templates
<1> QED BY AppliedInit, <1>1, <1>2, PTL DEF SafetySpec

-----------------------------------------------------------------------------
(* How a step changes the content of the items and what they have exported. *)

ItemPhases == {NoPhase, "Init", "Progressing", "Succeeded", "Failed"}

\* An item that has succeeded in its present generation exports its content.
Honest(d) ==
    /\ d.obs <= d.gen /\ d.phase \in ItemPhases
    /\ d.phase = "Succeeded" /\ d.obs = d.gen => d.out = d.spec

Outcomes == \A i \in Items : di[i].live => Honest(di[i])

\* An item keeps its content, and its exports unless it succeeds; or the loop
\* has just applied its template.
KeepsContent(d, e) ==
    d.live /\ e.tmpl = d.tmpl /\ e.spec = d.spec /\ e.out \in {d.out, d.spec}

TakesContent(e) ==
    /\ pc = "apply" /\ pc' = "record"
    /\ loc'.at = loc.at /\ loc'.tspec = loc.tspec
    /\ e.tmpl = Order[loc.at] /\ e.spec = loc.tspec[Order[loc.at]]

ContentMoves ==
    \A i \in Items : di'[i].live =>
        Honest(di'[i]) /\ (KeepsContent(di[i], di'[i]) \/ TakesContent(di'[i]))

\* A deletion leaves content and exports, or nothing at all.
LEMMA DeletedKeeps ==
    ASSUME NEW d \in DeployItems, d.live => Honest(d), Deleted(d).live
    PROVE  KeepsContent(d, Deleted(d)) /\ Honest(Deleted(d))
<1>1. d.fin /\ d.live
  BY DeletedEvolves DEF Deleted, NoItem
<1>2. CASE d.del
  BY <1>1, <1>2 DEF Deleted, KeepsContent
<1>3. CASE ~d.del
  <2>1. PICK e : e = Deleted(d) /\ e = [d EXCEPT !.del = TRUE, !.gen = d.gen + 1]
    BY <1>1, <1>3 DEF Deleted
  <2>2. /\ e.tmpl = d.tmpl /\ e.spec = d.spec /\ e.out = d.out /\ e.obs = d.obs
        /\ e.phase = d.phase /\ e.gen = d.gen + 1 /\ d.gen \in Nat /\ d.obs \in Nat
    BY <2>1 DEF DeployItems
  <2>3. Honest(e)
    BY <1>1, <2>2 DEF Honest
  <2> QED BY <1>1, <2>1, <2>2, <2>3 DEF KeepsContent
<1> QED BY <1>2, <1>3

\* What deployers, users and timeouts make of one item.
LEMMA SetItemContent ==
    ASSUME TypeInv, Outcomes, NEW i \in Items, NEW d, SetItem(i, d),
           d.live => Honest(d) /\ KeepsContent(di[i], d)
    PROVE  ContentMoves
<1>1. \A j \in Items : di'[j] = IF j = i THEN d ELSE di[j]
  BY DEF SetItem, TypeInv, TypeOK
<1> QED BY <1>1 DEF ContentMoves, Outcomes, KeepsContent

LEMMA ItemContent ==
    ASSUME TypeInv, Outcomes, NEW i \in Items,
           \/ Deployer(i) \/ CollectGarbage(i)
           \/ RetryItem(i) \/ RemoveItem(i) \/ PickupTimeout(i) \/ ItemFails(i)
    PROVE  ContentMoves
<1>0. /\ di[i] \in DeployItems /\ di[i].gen \in Nat /\ di[i].obs \in Nat
      /\ di[i].live => Honest(di[i])
  BY DEF TypeInv, TypeOK, DeployItems, Outcomes
<1>1. CASE Release(i)
  BY <1>1, SetItemContent DEF Release, NoItem
<1>2. CASE CollectGarbage(i) \/ RemoveItem(i)
  BY <1>0, <1>2, DeletedKeeps, SetItemContent DEF CollectGarbage, RemoveItem
<1>3. CASE Pickup(i)
  <2>1. PICK d : /\ d = [di[i] EXCEPT !.obs = di[i].gen, !.phase = "Init", !.pickup = FALSE]
                 /\ SetItem(i, d) /\ di[i].live
    BY <1>3 DEF Pickup
  <2>2. /\ d.tmpl = di[i].tmpl /\ d.spec = di[i].spec /\ d.out = di[i].out
        /\ d.gen = di[i].gen /\ d.obs = di[i].gen /\ d.phase = "Init"
    BY <1>0, <2>1 DEF DeployItems
  <2>3. Honest(d)
    BY <1>0, <2>2 DEF Honest, ItemPhases
  <2>4. KeepsContent(di[i], d)
    BY <2>1, <2>2 DEF KeepsContent
  <2> QED BY <2>1, <2>3, <2>4, SetItemContent
<1>4. CASE Begin(i) \/ RetryItem(i) \/ PickupTimeout(i) \/ ItemFails(i)
  <2>1. PICK d : /\ \/ d = [di[i] EXCEPT !.op = "none", !.fin = TRUE, !.phase = "Progressing"]
                    \/ d = [di[i] EXCEPT !.op = "reconcile"]
                    \/ d = [di[i] EXCEPT !.phase = "Failed", !.pickup = TRUE]
                    \/ d = [di[i] EXCEPT !.phase = "Failed", !.op = "none"]
                 /\ SetItem(i, d) /\ di[i].live
    BY <1>4 DEF Begin, RetryItem, PickupTimeout, ItemFails, Working, PickedUp
  <2>2. /\ d.tmpl = di[i].tmpl /\ d.spec = di[i].spec /\ d.out = di[i].out
        /\ d.gen = di[i].gen /\ d.obs = di[i].obs
        /\ d.phase \in {"Progressing", "Failed", di[i].phase}
    BY <1>0, <2>1 DEF DeployItems
  <2>3. Honest(di[i])
    BY <1>0, <2>1
  <2>4. Honest(d)
    BY <2>2, <2>3 DEF Honest, ItemPhases
  <2>5. KeepsContent(di[i], d)
    BY <2>1, <2>2 DEF KeepsContent
  <2> QED BY <2>1, <2>4, <2>5, SetItemContent
<1>5. CASE Succeed(i)
  <2>1. PICK d : /\ d = [di[i] EXCEPT !.phase = "Succeeded", !.out = di[i].spec]
                 /\ SetItem(i, d) /\ di[i].live
    BY <1>5 DEF Succeed, Working, PickedUp
  <2>2. /\ d.tmpl = di[i].tmpl /\ d.spec = di[i].spec /\ d.out = di[i].spec
        /\ d.gen = di[i].gen /\ d.obs = di[i].obs /\ d.phase = "Succeeded"
    BY <1>0, <2>1 DEF DeployItems
  <2> QED BY <1>0, <2>1, <2>2, SetItemContent DEF Honest, ItemPhases, KeepsContent
<1> QED BY <1>1, <1>2, <1>3, <1>4, <1>5 DEF Deployer

\* A template that is applied gives its content to its item.
LEMMA ApplyContent ==
    ASSUME OrderInv, Outcomes, ApplyItem
    PROVE  ContentMoves
<1> DEFINE t == Order[loc.at]
           i == loc.items[t].id
           version == loc.tspec[t]
<1>0. /\ pc = "apply" /\ t \in Names /\ TypeInv /\ loc \in LocalVars
  <2>1. pc = "apply"
    BY DEF ApplyItem
  <2>2. loc.at \in 1..(Len(Order) + 1) /\ loc.at <= Len(Order)
    BY <2>1 DEF OrderInv, InLoop, TypeInv, TypeOK, LocalVars
  <2> QED BY <2>1, <2>2, OrderFacts DEF OrderInv, TypeInv, TypeOK
<1>a. \A j \in Items : di[j].live => Honest(di[j]) /\ KeepsContent(di[j], di[j])
  BY DEF Outcomes, KeepsContent
<1>1. CASE /\ i = 0 /\ next <= MaxItems
           /\ di' = [di EXCEPT ![next] = NewItem(t, version)]
           /\ loc' = [loc EXCEPT !.ref = [id |-> next, gen |-> 1]]
           /\ pc' = "record"
  <2>1. next \in Items
    BY <1>0, <1>1, BoundsAssumption DEF Items, TypeInv, TypeOK
  <2>2. di'[next] = NewItem(t, version) /\ \A j \in Items \ {next} : di'[j] = di[j]
    BY <1>0, <1>1, <2>1 DEF TypeInv, TypeOK
  <2>3. loc'.at = loc.at /\ loc'.tspec = loc.tspec
    BY <1>0, <1>1 DEF LocalVars
  <2>4. PICK e : e = NewItem(t, version)
    OBVIOUS
  <2>5. e.tmpl = t /\ e.spec = version /\ e.phase = NoPhase /\ e.obs = 0 /\ e.gen = 1
    BY <2>4 DEF NewItem, NoItem
  <2>6. Honest(e)
    BY <2>5 DEF Honest, ItemPhases
  <2>7. pc' = "record"
    BY <1>1
  <2>8. TakesContent(e)
    BY <1>0, <2>3, <2>5, <2>7 DEF TakesContent
  <2> QED BY <1>a, <2>2, <2>4, <2>6, <2>8 DEF ContentMoves
<1>2. CASE /\ i # 0 /\ ViewItems[i].live /\ ViewItems[i] = di[i]
           /\ di' = [di EXCEPT ![i] = Triggered(di[i], version)]
           /\ loc' = [loc EXCEPT !.ref = [id |-> i, gen |-> Triggered(di[i], version).gen],
                                 !.items[t] = Copy(i, Triggered(di[i], version))]
           /\ pc' = "record"
  <2>1. i \in Items
    BY <1>0, <1>2, ListedItem
  <2>2. di[i] \in DeployItems /\ di[i].live /\ di[i].tmpl = t
    BY <1>0, <1>2, <2>1 DEF TypeInv, TypeOK, OrderInv, LoopEvidence, Looping
  <2>3. PICK e : e = Triggered(di[i], version)
    OBVIOUS
  <2>4. loc' = [loc EXCEPT !.ref = [id |-> i, gen |-> e.gen], !.items[t] = Copy(i, e)]
    BY <1>2, <2>3
  <2>5. \A j \in Items : di'[j] = IF j = i THEN e ELSE di[j]
    BY <1>0, <1>2, <2>1, <2>3 DEF TypeInv, TypeOK
  <2> HIDE DEF i
  <2>6. loc'.at = loc.at /\ loc'.tspec = loc.tspec
    BY <1>0, <2>4 DEF LocalVars
  <2> HIDE DEF t, version
  <2>7. /\ e.tmpl = di[i].tmpl /\ e.spec = version /\ e.out = di[i].out
        /\ e.phase = di[i].phase /\ e.obs = di[i].obs
        /\ e.gen = IF di[i].spec = version THEN di[i].gen ELSE di[i].gen + 1
        /\ di[i].gen \in Nat /\ di[i].obs \in Nat
    BY <2>2, <2>3 DEF Triggered, DeployItems
  <2>8. Honest(e)
    BY <1>a, <2>1, <2>2, <2>7 DEF Honest
  <2>9. TakesContent(e)
    BY <1>0, <1>2, <2>2, <2>6, <2>7 DEF TakesContent, t, version
  <2> QED BY <1>a, <2>5, <2>8, <2>9 DEF ContentMoves
<1>3. CASE UNCHANGED di
  BY <1>a, <1>3 DEF ContentMoves
<1> QED BY <1>1, <1>2, <1>3, Zenon DEF ApplyItem, Goto

\* Every step changes contents and exports in this way.
LEMMA ContentStep ==
    ASSUME OrderInv, Outcomes, [Next]_vars
    PROVE  ContentMoves
<1>0. TypeInv /\ \A j \in Items : di[j].live => KeepsContent(di[j], di[j])
  BY DEF OrderInv, KeepsContent
<1>1. CASE ApplyItem
  BY <1>1, ApplyContent
<1>2. CASE ListItems
  <2> DEFINE orphans(a) == Orphans(a, ViewItems)
             doomed(a) == {i \in orphans(a) : /\ ~ViewItems[i].del
                                              /\ GCDeletable(i, orphans(a), ViewItems)}
  <2>1. PICK a \in Assignments(ViewItems) :
          di' = [i \in Items |-> IF i \in doomed(a) /\ di[i].live
                                 THEN Deleted(di[i]) ELSE di[i]]
    BY <1>2, Zenon DEF ListItems
  <2> HIDE DEF orphans, doomed
  <2>2. ASSUME NEW i \in Items, di'[i].live
        PROVE  Honest(di'[i]) /\ KeepsContent(di[i], di'[i])
    <3>1. di[i] \in DeployItems /\ di'[i] \in {Deleted(di[i]), di[i]}
      BY <1>0, <2>1 DEF TypeInv, TypeOK
    <3> QED BY <1>0, <2>2, <3>1, DeletedKeeps DEF Outcomes
  <2> QED BY <2>2 DEF ContentMoves
<1>3. CASE DeleteItem
  <2> DEFINE d == loc.items[Order[loc.at]]
  <2>1. UNCHANGED di \/ di' = [di EXCEPT ![d.id] = Deleted(di[d.id])]
    BY <1>3 DEF DeleteItem
  <2>2. ASSUME NEW i \in Items, di'[i].live
        PROVE  Honest(di'[i]) /\ KeepsContent(di[i], di'[i])
    <3>1. di[i] \in DeployItems /\ di'[i] \in {Deleted(di[i]), di[i]}
      BY <1>0, <2>1 DEF TypeInv, TypeOK
    <3> QED BY <1>0, <2>2, <3>1, DeletedKeeps DEF Outcomes
  <2> QED BY <2>2 DEF ContentMoves
<1>4. CASE \E i \in Items :
             \/ Deployer(i) \/ CollectGarbage(i)
             \/ RetryItem(i) \/ RemoveItem(i) \/ PickupTimeout(i) \/ ItemFails(i)
  BY <1>0, <1>4, ItemContent
<1>5. CASE UNCHANGED di
  BY <1>0, <1>5 DEF ContentMoves, Outcomes
<1>6. CASE Controller /\ ~ApplyItem /\ ~ListItems /\ ~DeleteItem
  <2>1. UNCHANGED di
    BY <1>6 DEF Controller, Get, ResetPhase, DropOperation, ForceReset, Recheck,
       AddFinalizer, LoopItem, EndLoop, RecordItem, RemoveForce, DeleteList,
       RemoveFinalizer, HandleError, ExportAgain, Export, Update, LocalStep, server
  <2> QED BY <1>5, <2>1
<1>7. CASE \/ SyncExec \/ SyncItems \/ CallFails \/ Crash \/ UNCHANGED vars
           \/ DeleteExecution \/ \E op \in {"reconcile", "force"} : EnsureExecution(op)
  <2>1. UNCHANGED di
    BY <1>7 DEF SyncExec, SyncItems, CallFails, Crash, vars, server,
       DeleteExecution, EnsureExecution
  <2> QED BY <1>5, <2>1
<1> QED BY <1>1, <1>2, <1>3, <1>4, <1>6, <1>7 DEF Next, Environment

-----------------------------------------------------------------------------
(* A recorded generation stands for the content of all items.              *)

HasContent(t, v) ==
    \A i \in Items : di[i].live /\ di[i].tmpl = t => di[i].spec = v

\* If g is the present generation then the template was applied with it.
ContentSound(t, g) == g = exec.gen => HasContent(t, exec.spec[t])

ContentInv ==
    /\ \A t \in Names : ContentSound(t, exec.egens[t]) /\ ContentSound(t, l.egens[t])
    /\ pc = "record" => HasContent(Order[loc.at], loc.tspec[Order[loc.at]])

\* No template depends on one that is missing.
ClosedSpec(s) == \A t \in Templates(s) : DependsOn[t] \subseteq Templates(s)

Closed == ClosedSpec(exec.spec) /\ ClosedSpec(l.spec)

BaseInv == AppliedInv /\ OneInv /\ Outcomes /\ ContentInv /\ Closed

\* What was applied with a generation is there as long as it is the present one:
\* a loop that still applies templates of an older one records the older one.
LEMMA KeptContent ==
    ASSUME BaseInv, [Next]_vars, NEW t \in Names, NEW g \in Nat,
           ContentSound(t, g), g <= exec.gen, pc = "apply" => g <= l.gen
    PROVE  ContentSound(t, g)'
<1> SUFFICES ASSUME g = exec'.gen, NEW i \in Items, di'[i].live, di'[i].tmpl = t
             PROVE  di'[i].spec = exec'.spec[t]
  BY DEF ContentSound, HasContent
<1>1. /\ OrderInv /\ TypeInv /\ Current /\ OneContent /\ LoopContent
      /\ l.gen <= exec.gen
  BY DEF BaseInv, AppliedInv, BookInv, OrderInv
<1>2. /\ exec.gen \in Nat /\ l.gen \in Nat /\ exec.gen <= exec'.gen
      /\ exec'.gen = exec.gen => exec'.spec = exec.spec
  BY <1>1, SpecKept, Numbers
<1>3. exec.gen = g /\ exec'.spec = exec.spec
  BY <1>2
<1>4. CASE KeepsContent(di[i], di'[i])
  <2>1. di[i].live /\ di[i].tmpl = t /\ di'[i].spec = di[i].spec
    BY <1>4 DEF KeepsContent
  <2>2. di[i].spec = exec.spec[t]
    BY <1>3, <2>1 DEF ContentSound, HasContent
  <2> QED BY <1>3, <2>1, <2>2
<1>5. CASE TakesContent(di'[i])
  <2>1. /\ pc = "apply" /\ t = Order[loc.at] /\ di'[i].spec = loc.tspec[t]
    BY <1>5 DEF TakesContent
  <2>2. l.gen = exec.gen
    BY <1>1, <1>2, <1>3, <2>1
  <2>3. loc.tspec = exec.spec
    BY <1>1, <2>1, <2>2 DEF OneContent, LoopContent
  <2> QED BY <1>3, <2>1, <2>3
<1>6. ContentMoves
  BY <1>1, ContentStep DEF BaseInv
<1> QED BY <1>4, <1>5, <1>6 DEF ContentMoves

\* The item that was applied is the only one of its template.
LEMMA AppliedContent ==
    ASSUME BaseInv, ApplyItem, pc' = "record"
    PROVE  HasContent(Order[loc.at], loc.tspec[Order[loc.at]])'
<1> DEFINE t == Order[loc.at]
           j == loc.items[t].id
           version == loc.tspec[t]
<1>0. /\ OrderInv /\ TypeInv /\ pc = "apply" /\ t \in Names /\ loc \in LocalVars
      /\ loc.at \in 1..Len(Order)
  <2>1. OrderInv /\ TypeInv /\ pc = "apply" /\ loc \in LocalVars
    BY DEF BaseInv, OneInv, OrderInv, ApplyItem, TypeInv, TypeOK
  <2>2. loc.at \in 1..Len(Order)
    BY <2>1 DEF InLoop, TypeInv, LocalVars
  <2> QED BY <2>1, <2>2, OrderFacts
<1>1. ASSUME NEW i \in Items, di[i].live, di[i].tmpl = t PROVE j = i
  BY <1>0, <1>1 DEF BaseInv, OneInv, ListComplete, Looping
<1>2. CASE /\ j = 0 /\ next <= MaxItems
           /\ di' = [di EXCEPT ![next] = NewItem(t, version)]
           /\ loc' = [loc EXCEPT !.ref = [id |-> next, gen |-> 1]]
  <2>1. loc'.at = loc.at /\ loc'.tspec = loc.tspec
    BY <1>0, <1>2 DEF LocalVars
  <2>2. ASSUME NEW i \in Items, di'[i].live, di'[i].tmpl = t
        PROVE  di'[i].spec = version
    <3>1. CASE i = next
      BY <1>0, <1>2, <2>2, <3>1 DEF TypeInv, TypeOK, NewItem, NoItem
    <3>2. CASE i # next
      <4>1. di'[i] = di[i]
        BY <1>0, <1>2, <3>2 DEF TypeInv, TypeOK
      <4> QED BY <1>1, <1>2, <2>2, <4>1, BoundsAssumption DEF Items
    <3> QED BY <3>1, <3>2
  <2> QED BY <2>1, <2>2 DEF HasContent
<1>3. CASE /\ j # 0
           /\ di' = [di EXCEPT ![j] = Triggered(di[j], version)]
           /\ loc' = [loc EXCEPT !.ref = [id |-> j, gen |-> Triggered(di[j], version).gen],
                                 !.items[t] = Copy(j, Triggered(di[j], version))]
  <2>1. j \in Items
    BY <1>0, <1>3, ListedItem
  <2>2. PICK e : e = Triggered(di[j], version)
    OBVIOUS
  <2>3. loc' = [loc EXCEPT !.ref = [id |-> j, gen |-> e.gen], !.items[t] = Copy(j, e)]
    BY <1>3, <2>2
  <2>4. \A i \in Items : di'[i] = IF i = j THEN e ELSE di[i]
    BY <1>0, <1>3, <2>1, <2>2 DEF TypeInv, TypeOK
  <2>5. di[j] \in DeployItems
    BY <1>0, <2>1 DEF TypeInv, TypeOK
  <2> HIDE DEF j
  <2>6. loc'.at = loc.at /\ loc'.tspec = loc.tspec
    BY <1>0, <2>3 DEF LocalVars
  <2> HIDE DEF version
  <2>7. e.spec = version
    BY <2>2, <2>5 DEF Triggered, DeployItems
  <2>8. ASSUME NEW i \in Items, di'[i].live, di'[i].tmpl = t
        PROVE  di'[i].spec = version
    BY <1>1, <2>4, <2>7, <2>8
  <2> QED BY <2>6, <2>8 DEF HasContent, version
<1> QED BY <1>2, <1>3, Zenon DEF ApplyItem, Goto, Fail

\* What is recorded as applied is the content of all items of the template.
LEMMA ContentInvStep ==
    ASSUME BaseInv, FreshExecution, [Next]_vars
    PROVE  ContentInv'
<1>0. /\ BookInv /\ OrderInv /\ TypeInv /\ Current /\ Agreed /\ OneContent /\ LoopContent
      /\ ContentInv /\ l \in Executions
  BY DEF BaseInv, AppliedInv, BookInv, OrderInv, TypeInv, TypeOK
<1>1. BookMoves
  BY <1>0, MovesStep
<1>2. ASSUME NEW t \in Names
      PROVE  ContentSound(t, exec.egens[t])' /\ ContentSound(t, l.egens[t])'
  <2>1. /\ exec.egens[t] \in Nat /\ l.egens[t] \in Nat /\ exec.gen \in Nat /\ l.gen \in Nat
        /\ exec.egens[t] <= exec.gen /\ l.egens[t] <= l.gen /\ l.gen <= exec.gen
        /\ exec'.gen # 0
    <3>1. exec'.gen \in Nat \ {0}
      BY <1>0, TypeStep DEF TypeInv, TypeOK, Executions
    <3> QED BY <1>0, <3>1, Numbers DEF BookInv, GensSound
  <2>2. PICK ge : ge = exec.egens[t] /\ ContentSound(t, ge)'
    <3>1. PICK ge \in Nat : ge = exec.egens[t]
      BY <2>1
    <3>2. pc = "apply" => ge <= l.gen
      BY <1>0, <2>1, <3>1 DEF Agreed, SameBook
    <3> QED BY <1>0, <2>1, <3>1, <3>2, KeptContent DEF ContentInv
  <2>3. PICK gl : gl = l.egens[t] /\ ContentSound(t, gl)'
    <3>1. PICK gl \in Nat : gl = l.egens[t]
      BY <2>1
    <3>2. gl <= exec.gen
      BY <2>1, <3>1
    <3> QED BY <1>0, <2>1, <3>1, <3>2, KeptContent DEF ContentInv
  <2>4. PICK gr : gr = Recorded.egens[t] /\ (pc = "record" => ContentSound(t, gr)')
    <3>1. PICK gr : gr = Recorded.egens[t]
      OBVIOUS
    <3>2. gr = IF t = Order[loc.at] THEN l.gen ELSE l.egens[t]
      BY <1>0, <3>1 DEF Recorded, Executions
    <3>3. ASSUME pc = "record", t = Order[loc.at] PROVE ContentSound(t, gr)'
      <4>1. ContentSound(t, gr)
        BY <1>0, <3>2, <3>3 DEF ContentInv, ContentSound, OneContent, LoopContent
      <4>2. gr \in Nat /\ gr <= exec.gen
        BY <2>1, <3>2
      <4> QED BY <3>3, <4>1, <4>2, KeptContent
    <3> QED BY <2>3, <3>1, <3>2, <3>3
  <2>5. PICK gn : gn = NewExecution.egens[t] /\ ContentSound(t, gn)'
    <3>1. PICK gn : gn = NewExecution.egens[t] /\ gn = 0
      BY DEF NewExecution
    <3> QED BY <2>1, <3>1 DEF ContentSound
  <2>6. exec'.egens[t] \in {ge, gl} \/ (pc = "record" /\ exec'.egens[t] = gr)
    BY <1>1, <2>2, <2>3, <2>4 DEF BookMoves, SameBook
  <2>7. l'.egens[t] \in {ge, gl, gn} \/ (pc = "record" /\ l'.egens[t] = gr)
    BY <1>1, <2>2, <2>3, <2>4, <2>5 DEF BookMoves, SameBook
  <2> QED BY <2>2, <2>3, <2>4, <2>5, <2>6, <2>7 DEF ContentSound
<1>3. pc' = "record" => HasContent(Order[loc.at], loc.tspec[Order[loc.at]])'
  <2>1. CASE UNCHANGED <<pc, loc, l>>
    <3> SUFFICES ASSUME pc = "record", NEW i \in Items, di'[i].live,
                        di'[i].tmpl = Order[loc.at]
                 PROVE  di'[i].spec = loc.tspec[Order[loc.at]]
      BY <2>1 DEF HasContent
    <3>1. KeepsContent(di[i], di'[i])
      BY <1>0, ContentStep DEF BaseInv, ContentMoves, TakesContent
    <3>2. di[i].live /\ di[i].tmpl = Order[loc.at] /\ di'[i].spec = di[i].spec
      BY <3>1 DEF KeepsContent
    <3> QED BY <1>0, <3>2 DEF ContentInv, HasContent
  <2>2. CASE ApplyItem
    BY <2>2, AppliedContent
  <2>3. CASE ListItems \/ LoopItem \/ RecordItem
    BY <2>3 DEF ListItems, LoopItem, FollowItem, FailWithItem, RecordItem, Fail, Goto
  <2>4. CASE pc' \notin Looping
    BY <2>4 DEF Looping
  <2> QED BY <1>0, <2>1, <2>2, <2>3, <2>4, LoopSteps
<1> QED BY <1>2, <1>3 DEF ContentInv

\* Nothing a template depends on is missing in a spec.
LEMMA ClosedStep ==
    ASSUME FreshExecution, TypeInv, Current, Closed, [Next]_vars
    PROVE  Closed'
<1>0. exec \in Executions /\ l \in Executions
  BY DEF TypeInv, TypeOK
<1>1. CASE Quiet
  <2>1. ClosedSpec(NewExecution.spec)
    BY DependsOnAssumption DEF ClosedSpec, Templates, NewExecution, Spec0
  <2> QED BY <1>1, <2>1 DEF Quiet, SameHead, Closed
<1>2. CASE Get
  <2>1. exec' = exec /\ (l' = l \/ l' = exec)
    BY <1>2, GetHead DEF ViewExec, FreshExecution
  <2> QED BY <2>1 DEF Closed
<1>3. CASE AddFinalizer
  <2>1. l'.spec = l.spec
    BY <1>0, <1>3, AddFinalizerHead DEF Executions
  <2> QED BY <1>3, <2>1, AddFinalizerHead DEF Closed
<1>4. CASE RemoveFinalizer
  <2>1. exec'.spec = exec.spec
    BY <1>0, <1>4, RemoveFinalizerHead DEF Executions
  <2> QED BY <1>4, <2>1, RemoveFinalizerHead DEF Closed
<1>5. CASE DeleteExecution \/ \E op \in {"reconcile", "force"} : EnsureExecution(op)
  <2>1. l' = l /\ (exec'.spec = exec.spec \/ exec'.spec \in SpecChoices)
    BY <1>5, UserHead
  <2>2. ASSUME NEW s \in SpecChoices PROVE ClosedSpec(s)
    BY DEF SpecChoices, ClosedSpec
  <2> QED BY <2>1, <2>2 DEF Closed
<1> QED BY <1>1, <1>2, <1>3, <1>4, <1>5, HeadSteps

\* These parts of the invariant keep each other.
LEMMA BaseInvStep ==
    ASSUME FreshExecution, FreshItems, RootFirst, BaseInv, [Next]_vars
    PROVE  BaseInv'
<1>1. TypeInv /\ Current /\ OrderInv
  BY DEF BaseInv, OneInv, AppliedInv, OrderInv
<1>2. AppliedInv' /\ OneInv'
  BY AppliedInvStep, OneInvStep DEF BaseInv
<1>3. Outcomes'
  <2>1. ContentMoves
    BY <1>1, ContentStep DEF BaseInv
  <2> QED BY <2>1 DEF ContentMoves, Outcomes
<1>4. ContentInv' /\ Closed'
  BY <1>1, ContentInvStep, ClosedStep DEF BaseInv
<1> QED BY <1>2, <1>3, <1>4 DEF BaseInv

\* There are no items in the beginning, and the spec is the first one.
LEMMA BaseInvInit == Init => BaseInv
<1> SUFFICES ASSUME Init PROVE BaseInv
  OBVIOUS
<1>1. /\ exec = NewExecution /\ l = NewExecution /\ pc = "idle"
      /\ \A i \in Items : ~di[i].live
  BY DEF Init, NoItem
<1>2. Outcomes /\ ContentInv
  BY <1>1 DEF Outcomes, ContentInv, ContentSound, HasContent
<1>3. Closed
  BY <1>1, DependsOnAssumption DEF Closed, ClosedSpec, Templates, NewExecution, Spec0
<1> QED BY <1>2, <1>3, AppliedInit, OneInvInit DEF BaseInv

-----------------------------------------------------------------------------
(* A finished execution has rolled out and exported its spec.              *)

HasExported(t, v) ==
    \A i \in Items : di[i].live /\ di[i].tmpl = t => di[i].out = v

\* Nothing is left to do: the phase is completed and there is no error.
Finished(e) ==
    e.obs = e.gen /\ IsCompleted(e.phase) /\ e.err = "none" /\ ~e.del

\* Every template was applied with the present generation, by the record egens,
\* its item exports its content, and those are the collected exports.
RolledOut(egens) ==
    \A t \in Templates(exec.spec) :
        /\ egens[t] = exec.gen
        /\ exports[t] = exec.spec[t]
        /\ HasExported(t, exec.spec[t])

FinishedInv == Finished(exec) => RolledOut(exec.egens)

\* A run holds the status that is stored, but for the phase of a rollout.
StatusHeld ==
    /\ pc \in Front \cup Rolling => l.obs = exec.obs /\ l.err = exec.err
    /\ pc \in Front => l.phase = exec.phase

\* What the branches have found out about the phase and the deletion.
Decided ==
    /\ pc \in Rolling \cup {"dropOp", "finalizer"} =>
          ~IsCompleted(exec.phase) /\ ~IsCompleted(l.phase)
    /\ pc \in {"recheck", "rexport"} => IsCompleted(l.phase)
    /\ pc \in Deleting => exec.del

\* The deploy item of template t is up-to-date and has succeeded.
Followed(t) ==
    /\ loc.items[t].id # 0 /\ IsUpToDate(t) /\ ~loc.force
    /\ loc.items[t].phase = "Succeeded" /\ loc.items[t].obs = loc.items[t].gen

\* The list of the loop has the items as they are.
Listed(t) ==
    LET i == loc.items[t].id
    IN  i # 0 => di[i].live /\ di[i].tmpl = t /\ loc.items[t] = Copy(i, di[i])

\* The loop has waited for no item and applied none.
Clean == loc.acc \in {NoPhase, "Succeeded"}

\* A clean loop has left only items behind it that have succeeded, and templates
\* that wait for another.
Passed ==
    /\ loc.tspec = l.spec
    /\ loc.acc = "Succeeded" => ~loc.force
    /\ \A t \in Names : Listed(t)
    /\ \A k \in 1..Len(Order) : k < loc.at /\ loc.tspec[Order[k]] # 0 =>
          Followed(Order[k]) \/ ~Runnable(Order[k])

LoopInv ==
    /\ pc \in Looping => /\ loc.acc \in {NoPhase, "Succeeded", "Init", "Progressing"}
                         /\ \A t \in Names : loc.items[t].phase \in ItemPhases
    /\ pc = "loop" /\ Clean => Passed
    /\ pc = "unforce" => ~IsCompleted(loc.acc)

\* A listed item has the template it is listed for, if it is still there.
Named(t) == di[loc.items[t].id].live => di[loc.items[t].id].tmpl = t

\* A run that exports has rolled out the generation it holds.
ExportReady ==
    pc = "export" =>
       /\ loc.tspec = l.spec
       /\ l.gen = exec.gen => \A t \in Templates(exec.spec) :
             /\ l.egens[t] = exec.gen
             /\ loc.items[t].id # 0 /\ loc.items[t].out = exec.spec[t]
             /\ Named(t)
             /\ HasExported(t, exec.spec[t])

\* One that exports again exports the same, if the execution is still finished.
AgainReady ==
    pc = "rexport" => \A t \in Names : loc.items[t].id # 0 =>
        /\ Named(t)
        /\ Finished(exec) /\ exec.spec[t] # 0 => loc.items[t].out = exec.spec[t]

\* A completed phase that is about to be stored is that of a deletion, comes with
\* an error, or the present generation is rolled out.
FinishReady ==
    pc = "finish" /\ IsCompleted(l.phase) =>
        \/ exec.del
        \/ loc.touched /\ l.err # "none"
        \/ l.obs = exec.gen => RolledOut(l.egens)

RunInv ==
    /\ StatusHeld /\ Decided /\ FinishedInv /\ LoopInv
    /\ ExportReady /\ AgainReady /\ FinishReady

\* The numbers and the parts of the invariant that most steps need.
LEMMA BaseFacts ==
    ASSUME BaseInv
    PROVE  /\ TypeInv /\ OrderInv /\ Current /\ Agreed /\ OneContent /\ BookInv
           /\ l \in Executions /\ exec \in Executions /\ loc \in LocalVars
           /\ exec.gen \in Nat /\ l.gen \in Nat /\ exec.obs \in Nat /\ l.obs \in Nat
           /\ exec.obs <= exec.gen /\ l.obs <= l.gen /\ l.gen <= exec.gen
<1>1. /\ TypeInv /\ OrderInv /\ Current /\ Agreed /\ OneContent /\ BookInv
      /\ l \in Executions /\ exec \in Executions /\ loc \in LocalVars
  BY DEF BaseInv, AppliedInv, BookInv, OrderInv, TypeInv, TypeOK
<1> QED BY <1>1, Numbers DEF BookInv, GensSound

\* Without an apply, items keep their content and export nothing else.
LEMMA AllKeep ==
    ASSUME BaseInv, [Next]_vars, ~(pc = "apply" /\ pc' = "record"),
           NEW i \in Items, di'[i].live
    PROVE  KeepsContent(di[i], di'[i])
<1>1. ContentMoves
  BY BaseFacts, ContentStep DEF BaseInv
<1> QED BY <1>1 DEF ContentMoves, TakesContent

\* What the items of a template have exported they still export.
LEMMA ExportedStays ==
    ASSUME BaseInv, [Next]_vars, ~(pc = "apply" /\ pc' = "record"), NEW t, NEW v,
           HasContent(t, v), HasExported(t, v)
    PROVE  HasExported(t, v)'
<1> SUFFICES ASSUME NEW i \in Items, di'[i].live, di'[i].tmpl = t
             PROVE  di'[i].out = v
  BY DEF HasExported
<1>1. KeepsContent(di[i], di'[i])
  BY AllKeep
<1>2. di[i].live /\ di[i].tmpl = t /\ di'[i].out \in {di[i].out, di[i].spec}
  BY <1>1 DEF KeepsContent
<1> QED BY <1>2 DEF HasContent, HasExported

\* What is rolled out stays so until the next generation.
LEMMA RolledStays ==
    ASSUME BaseInv, [Next]_vars, ~(pc = "apply" /\ pc' = "record"),
           NEW g, RolledOut(g), \A t \in Names : ContentSound(t, g[t]),
           exec'.gen = exec.gen, UNCHANGED exports
    PROVE  RolledOut(g)'
<1>1. exec'.spec = exec.spec
  BY BaseFacts, SpecKept
<1> SUFFICES ASSUME NEW t \in Names, exec.spec[t] # 0
             PROVE  g[t] = exec.gen /\ exports[t] = exec.spec[t]
                    /\ HasExported(t, exec.spec[t])'
  BY <1>1 DEF RolledOut, Templates
<1>2. PICK v : v = exec.spec[t]
  OBVIOUS
<1>3. g[t] = exec.gen /\ exports[t] = v /\ HasExported(t, v)
  BY <1>2 DEF RolledOut, Templates
<1>4. HasContent(t, v)
  BY <1>2, <1>3 DEF ContentSound
<1>5. HasExported(t, v)'
  BY <1>3, <1>4, ExportedStays
<1> QED BY <1>1, <1>2, <1>3, <1>5 DEF HasExported

\* A step that does not finish the execution.
LEMMA FinishedStays ==
    ASSUME BaseInv, FinishedInv, [Next]_vars, ~(pc = "apply" /\ pc' = "record"),
           UNCHANGED exports, exec'.egens = exec.egens,
           Finished(exec') => Finished(exec) /\ exec'.gen = exec.gen
    PROVE  FinishedInv'
<1> SUFFICES ASSUME Finished(exec') PROVE RolledOut(exec.egens)'
  BY DEF FinishedInv, Finished
<1>1. PICK g : g = exec.egens
  OBVIOUS
<1>2. RolledOut(g) /\ \A t \in Names : ContentSound(t, g[t])
  BY <1>1 DEF FinishedInv, BaseInv, ContentInv
<1>3. RolledOut(g)'
  BY <1>2, RolledStays
<1> QED BY <1>1, <1>3 DEF RolledOut

\* A run that is over leaves only the execution.
LEMMA RunOver ==
    ASSUME FinishedInv', pc' = "idle"
    PROVE  RunInv'
BY DEF RunInv, StatusHeld, Decided, LoopInv, ExportReady, AgainReady, FinishReady,
   Front, Rolling, Deleting, Looping

\* A run that has come to its end has no more in memory than a phase to store.
LEMMA RunEnds ==
    ASSUME FinishedInv', pc' = "finish", FinishReady'
    PROVE  RunInv'
BY DEF RunInv, StatusHeld, Decided, LoopInv, ExportReady, AgainReady,
   Front, Rolling, Deleting, Looping

\* A step of the others: the status is not theirs to write.
OthersMove ==
    /\ UNCHANGED <<pc, l, loc, exports>>
    /\ exec'.obs = exec.obs /\ exec'.phase = exec.phase /\ exec'.err = exec.err
    /\ exec'.egens = exec.egens
    /\ exec.del => exec'.del
    /\ pc = "loop" => UNCHANGED <<exec, di>>

LEMMA OutsideSteps ==
    ASSUME TypeInv,
           \/ UNCHANGED vars
           \/ pc # "loop" /\ \/ SyncExec \/ SyncItems \/ DeleteExecution
                             \/ \E op \in {"reconcile", "force"} : EnsureExecution(op)
                             \/ \E i \in Items :
                                  \/ Deployer(i) \/ CollectGarbage(i) \/ RetryItem(i)
                                  \/ RemoveItem(i) \/ PickupTimeout(i) \/ ItemFails(i)
    PROVE  OthersMove
<1>0. exec \in Executions
  BY DEF TypeInv, TypeOK
<1>1. CASE DeleteExecution \/ \E op \in {"reconcile", "force"} : EnsureExecution(op)
  <2>1. UNCHANGED <<pc, l, loc, exports>> /\ ~exec.del
    BY <1>1 DEF DeleteExecution, EnsureExecution
  <2>2. /\ exec'.obs = exec.obs /\ exec'.phase = exec.phase /\ exec'.err = exec.err
        /\ exec'.egens = exec.egens
    BY <1>0, <1>1 DEF DeleteExecution, EnsureExecution, Executions
  <2>3. pc = "loop" => UNCHANGED vars
    OBVIOUS
  <2> QED BY <2>1, <2>2, <2>3 DEF OthersMove, vars
<1>2. CASE ~(DeleteExecution \/ \E op \in {"reconcile", "force"} : EnsureExecution(op))
  <2>1. UNCHANGED <<pc, l, loc, exports, exec>> /\ (pc = "loop" => UNCHANGED di)
    BY <1>2 DEF SyncExec, SyncItems, vars, server, Deployer, Pickup, Begin, Succeed,
       Release, CollectGarbage, RetryItem, RemoveItem, PickupTimeout, ItemFails,
       SetItem, Others
  <2> QED BY <2>1 DEF OthersMove
<1> QED BY <1>1, <1>2

\* A listed item keeps its template.
LEMMA NamedStays ==
    ASSUME BaseInv, [Next]_vars, ~(pc = "apply" /\ pc' = "record"), NEW t \in Names,
           loc.items[t].id # 0, UNCHANGED loc, loc.items[t].id \in Items, Named(t)
    PROVE  Named(t)'
<1>1. PICK i \in Items : i = loc.items[t].id
  OBVIOUS
<1>2. di'[i].live => KeepsContent(di[i], di'[i])
  BY AllKeep
<1> QED BY <1>1, <1>2 DEF Named, KeepsContent

\* The copies in the list have names of items.
LEMMA ListedNames ==
    ASSUME BaseInv, NEW t \in Names, loc.items[t].id # 0
    PROVE  loc.items[t].id \in Items
BY BaseFacts, ListedItem

\* The others change what a run holds neither in memory nor in the status, and
\* what is rolled out they leave alone until they raise the generation.
LEMMA OutsideRun ==
    ASSUME BaseInv, RunInv, [Next]_vars, OthersMove
    PROVE  RunInv'
<1>0. UNCHANGED <<pc, l, loc, exports>> /\ ~(pc = "apply" /\ pc' = "record")
  BY DEF OthersMove
<1>1. /\ exec.gen \in Nat /\ exec'.gen \in Nat /\ exec.gen <= exec'.gen
      /\ exec'.gen = exec.gen => exec'.spec = exec.spec
  <2>1. exec'.gen \in Nat
    BY BaseFacts, TypeStep DEF TypeInv, TypeOK, Executions
  <2> QED BY <2>1, BaseFacts, SpecKept
<1>2. Finished(exec') => Finished(exec) /\ exec'.gen = exec.gen
  BY <1>1, BaseFacts DEF OthersMove, Finished
<1>3. FinishedInv'
  BY <1>0, <1>2, FinishedStays DEF RunInv, OthersMove
<1>4. StatusHeld' /\ Decided'
  BY DEF RunInv, StatusHeld, Decided, OthersMove
<1>5. LoopInv'
  <2>1. CASE pc = "loop"
    <3>1. UNCHANGED <<exec, di, pc, l, loc>>
      BY <2>1 DEF OthersMove
    <3>2. Passed => Passed'
      BY <3>1 DEF Passed, Listed, Followed, Runnable, IsUpToDate
    <3> QED BY <3>1, <3>2 DEF RunInv, LoopInv, Clean
  <2>2. CASE pc # "loop"
    BY <1>0, <2>2 DEF RunInv, LoopInv
  <2> QED BY <2>1, <2>2
<1>6. ExportReady'
  <2> SUFFICES ASSUME pc = "export", l.gen = exec'.gen
               PROVE  \A t \in Templates(exec'.spec) :
                         /\ l.egens[t] = exec'.gen
                         /\ loc.items[t].id # 0 /\ loc.items[t].out = exec'.spec[t]
                         /\ Named(t)'
                         /\ HasExported(t, exec.spec[t])'
    BY <1>0 DEF RunInv, ExportReady
  <2>1. l.gen = exec.gen /\ exec'.gen = exec.gen /\ exec'.spec = exec.spec
    BY <1>1, BaseFacts
  <2> TAKE t \in Templates(exec'.spec)
  <2>2. t \in Names /\ t \in Templates(exec.spec)
    BY <2>1 DEF Templates
  <2>3. PICK v : v = exec.spec[t]
    OBVIOUS
  <2>4. /\ l.egens[t] = exec.gen /\ loc.items[t].id # 0 /\ loc.items[t].out = v
        /\ Named(t) /\ HasExported(t, v)
    BY <2>1, <2>2, <2>3 DEF RunInv, ExportReady
  <2>5. HasContent(t, v)
    BY <2>2, <2>3, <2>4 DEF BaseInv, ContentInv, ContentSound
  <2>6. HasExported(t, v)'
    BY <1>0, <2>4, <2>5, ExportedStays
  <2>7. Named(t)'
    BY <1>0, <2>2, <2>4, NamedStays, ListedNames
  <2> QED BY <2>1, <2>3, <2>4, <2>6, <2>7 DEF HasExported
<1>7. AgainReady'
  <2> SUFFICES ASSUME pc = "rexport", NEW t \in Names, loc.items[t].id # 0
               PROVE  /\ Named(t)'
                      /\ Finished(exec') /\ exec'.spec[t] # 0 =>
                            loc.items[t].out = exec'.spec[t]
    BY <1>0 DEF AgainReady, Finished
  <2>1. Named(t)'
    BY <1>0, NamedStays, ListedNames DEF RunInv, AgainReady
  <2>2. Finished(exec') /\ exec'.spec[t] # 0 => loc.items[t].out = exec'.spec[t]
    BY <1>1, <1>2 DEF RunInv, AgainReady
  <2> QED BY <2>1, <2>2
<1>8. FinishReady'
  <2> SUFFICES ASSUME pc = "finish", IsCompleted(l.phase), ~exec.del,
                      ~(loc.touched /\ l.err # "none"), l.obs = exec'.gen
               PROVE  RolledOut(l.egens)'
    BY <1>0 DEF FinishReady, OthersMove
  <2>1. l.obs = exec.gen /\ exec'.gen = exec.gen
    BY <1>1, BaseFacts
  <2>2. PICK g : g = l.egens
    OBVIOUS
  <2>3. RolledOut(g) /\ \A t \in Names : ContentSound(t, g[t])
    BY <2>1, <2>2 DEF RunInv, FinishReady, BaseInv, ContentInv
  <2>4. RolledOut(g)'
    BY <1>0, <2>1, <2>3, RolledStays
  <2> QED BY <1>0, <2>2, <2>4 DEF RolledOut
<1> QED BY <1>3, <1>4, <1>5, <1>6, <1>7, <1>8 DEF RunInv

\* Where the branches of HandleAnnotationsAndGeneration and of Ensure lead.
Branch(p, o) ==
    /\ p \in {"reset", "dropOp", "forceReset", "recheck", "finalizer", "list",
              "deleteList"}
    /\ p = "recheck" => IsCompleted(o.phase)
    /\ p \in {"dropOp", "finalizer", "list"} => ~IsCompleted(o.phase)
    /\ p = "deleteList" => o.del

LEMMA BranchEnsure ==
    ASSUME NEW o, ~IsCompleted(o.phase)
    PROVE  Branch(Ensure(o), o)
BY DEF Branch, Ensure

LEMMA BranchAfter ==
    ASSUME NEW o
    PROVE  Branch(PhaseGate(o), o) /\ Branch(AfterReset(o), o)
BY BranchEnsure DEF Branch, PhaseGate, AfterReset

\* A run that holds what is stored and has just taken a branch.
LEMMA BranchRun ==
    ASSUME FinishedInv', NEW o, l' = o, exec' = o, Branch(pc', o)
    PROVE  RunInv'
<1>1. StatusHeld' /\ Decided'
  BY DEF StatusHeld, Decided, Branch, Front, Rolling, Deleting
<1>2. LoopInv' /\ ExportReady' /\ AgainReady' /\ FinishReady'
  BY DEF LoopInv, ExportReady, AgainReady, FinishReady, Branch, Looping
<1> QED BY <1>1, <1>2 DEF RunInv

\* A run begins with what is stored.
LEMMA GetRun ==
    ASSUME BaseInv, RunInv, FreshExecution, [Next]_vars, Get
    PROVE  RunInv'
<1>1. /\ UNCHANGED <<exec, exports>> /\ pc = "idle"
      /\ \/ UNCHANGED <<pc, l>>
         \/ /\ l' = exec /\ exec' = exec
            /\ pc' = "reset" \/ pc' = AfterReset(exec)
  BY DEF Get, ViewExec, FreshExecution, server
<1>2. FinishedInv'
  BY <1>1, FinishedStays DEF RunInv
<1>3. CASE UNCHANGED <<pc, l>>
  BY <1>1, <1>2, <1>3, RunOver
<1>4. CASE l' = exec /\ exec' = exec /\ (pc' = "reset" \/ pc' = AfterReset(exec))
  <2>1. Branch(pc', exec)
    BY <1>4, BranchAfter DEF Branch
  <2> QED BY <1>2, <1>4, <2>1, BranchRun
<1> QED BY <1>1, <1>3, <1>4

\* Each optimistic write of the frame stores a phase that is not completed.
LEMMA UpdateRun ==
    ASSUME BaseInv, RunInv, [Next]_vars, pc # "apply", NEW o, NEW p, Update(o, p),
           ~IsCompleted(o.phase), Branch(p, o)
    PROVE  RunInv'
<1>1. /\ l' = o /\ UNCHANGED exports
      /\ \/ exec' = o /\ pc' = p
         \/ UNCHANGED exec /\ pc' = "finish"
  BY DEF Update
<1>2. CASE exec' = o /\ pc' = p
  <2>1. FinishedInv'
    BY <1>2 DEF FinishedInv, Finished
  <2> QED BY <1>1, <1>2, <2>1, BranchRun
<1>3. CASE UNCHANGED exec /\ pc' = "finish"
  <2>1. FinishedInv'
    BY <1>1, <1>3, FinishedStays DEF RunInv
  <2>2. FinishReady'
    BY <1>1 DEF FinishReady
  <2> QED BY <1>3, <2>1, <2>2, RunEnds
<1> QED BY <1>1, <1>2, <1>3

\* The steps of a run up to its branch: reading, pickup, finalizer, dropping the
\* operation, and the decision between deletion, rollout and the completed phase.
LEMMA FrontRun ==
    ASSUME BaseInv, RunInv, [Next]_vars,
           ResetPhase \/ DropOperation \/ ForceReset \/ AddFinalizer
    PROVE  RunInv'
<1>0. l \in Executions
  BY BaseFacts
<1>1. CASE ResetPhase
  <2>1. PICK o, p : /\ o = [l EXCEPT !.obs = l.gen, !.phase = "Init"]
                    /\ p = IF l.op = "reconcile" THEN "dropOp" ELSE AfterReset(o)
                    /\ Update(o, p) /\ pc = "reset"
    BY <1>1 DEF ResetPhase
  <2>2. ~IsCompleted(o.phase)
    BY <1>0, <2>1 DEF Executions, IsCompleted, CompletedPhases
  <2>3. Branch(p, o)
    BY <2>1, <2>2, BranchAfter DEF Branch
  <2> QED BY <2>1, <2>2, <2>3, UpdateRun
<1>2. CASE DropOperation
  <2>1. PICK o, p : /\ o = [l EXCEPT !.op = "none"]
                    /\ p = AfterReset(o)
                    /\ Update(o, p) /\ pc = "dropOp"
    BY <1>2 DEF DropOperation
  <2>2. ~IsCompleted(o.phase)
    BY <1>0, <2>1 DEF Executions, RunInv, Decided
  <2> QED BY <2>1, <2>2, BranchAfter, UpdateRun
<1>3. CASE ForceReset
  <2>1. PICK o, p : /\ o = [l EXCEPT !.phase = "Init"]
                    /\ p = PhaseGate(o)
                    /\ Update(o, p) /\ pc = "forceReset"
    BY <1>3 DEF ForceReset
  <2>2. ~IsCompleted(o.phase)
    BY <1>0, <2>1 DEF Executions, IsCompleted, CompletedPhases
  <2> QED BY <2>1, <2>2, BranchAfter, UpdateRun
<1>4. CASE AddFinalizer
  <2>1. PICK o : /\ o = [l EXCEPT !.fin = TRUE]
                 /\ Update(o, "list") /\ pc = "finalizer"
    BY <1>4 DEF AddFinalizer
  <2>2. ~IsCompleted(o.phase)
    BY <1>0, <2>1 DEF Executions, RunInv, Decided
  <2> QED BY <2>1, <2>2, UpdateRun DEF Branch
<1> QED BY <1>1, <1>2, <1>3, <1>4

\* What Recheck does with the items w.
Rechecked(w) ==
    LET cp == CombinedPhase({w[l.refs[t].id].phase : t \in Referenced})
        p == IF Outdated(w) THEN "Progressing" ELSE cp
        o == [l EXCEPT !.phase = p]
        items == [t \in Names |-> IF t \in Referenced
                                  THEN Copy(l.refs[t].id, w[l.refs[t].id])
                                  ELSE Missing]
    IN  /\ UNCHANGED <<di, exports>> /\ pc = "recheck"
        /\ \/ UNCHANGED exec /\ pc' = "idle"
           \/ /\ cur /\ exec' = o
              /\ \/ pc' = "idle"
                 \/ /\ l' = o
                    /\ \/ p = "Succeeded" /\ pc' = "rexport"
                       \/ ~IsCompleted(p) /\ pc' = Ensure(o)
                    /\ loc' = [loc EXCEPT !.items = items]

\* A step of Recheck, without what it leaves open.
LEMMA RecheckCases ==
    ASSUME Recheck
    PROVE  Rechecked(ViewItems)
<1> DEFINE w == ViewItems
           cp == CombinedPhase({w[l.refs[t].id].phase : t \in Referenced})
           p == IF Outdated(w) THEN "Progressing" ELSE cp
           o == [l EXCEPT !.phase = p]
           items == [t \in Names |-> IF t \in Referenced
                                     THEN Copy(l.refs[t].id, w[l.refs[t].id])
                                     ELSE Missing]
<1>1. /\ pc = "recheck"
      /\ \/ UNCHANGED server /\ Return(FALSE)
         \/ UNCHANGED server /\ Return(TRUE)
         \/ /\ cur /\ exec' = o /\ UNCHANGED <<di, exports>>
            /\ IF IsCompleted(p) /\ p # "Succeeded" THEN Return(FALSE)
               ELSE /\ l' = o
                    /\ pc' = IF p = "Succeeded" THEN "rexport" ELSE Ensure(o)
                    /\ loc' = [loc EXCEPT !.items = items]
  BY DEF Recheck
<1>2. Return(FALSE) => pc' = "idle"
  BY DEF Return
<1>3. Return(TRUE) => pc' = "idle"
  BY DEF Return
<1>4. UNCHANGED server => UNCHANGED <<exec, di, exports>>
  BY DEF server
<1>5. /\ UNCHANGED <<di, exports>> /\ pc = "recheck"
      /\ \/ UNCHANGED exec /\ pc' = "idle"
         \/ /\ cur /\ exec' = o
            /\ \/ pc' = "idle"
               \/ /\ l' = o
                  /\ \/ p = "Succeeded" /\ pc' = "rexport"
                     \/ ~IsCompleted(p) /\ pc' = Ensure(o)
                  /\ loc' = [loc EXCEPT !.items = items]
  <2> HIDE DEF p, o, items
  <2> QED BY <1>1, <1>2, <1>3, <1>4
<1> QED BY <1>5 DEF Rechecked

\* A completed execution whose phase is computed anew was finished before, if it
\* is afterwards; and then what its items export is what it has exported.
LEMMA RecheckRun ==
    ASSUME BaseInv, RunInv, FreshItems, [Next]_vars, Recheck
    PROVE  RunInv'
<1> DEFINE cp == CombinedPhase({di[l.refs[t].id].phase : t \in Referenced})
           p == IF Outdated(di) THEN "Progressing" ELSE cp
           o == [l EXCEPT !.phase = p]
           items == [t \in Names |-> IF t \in Referenced
                                     THEN Copy(l.refs[t].id, di[l.refs[t].id])
                                     ELSE Missing]
<1>1. /\ UNCHANGED <<di, exports>> /\ pc = "recheck"
      /\ \/ UNCHANGED exec /\ pc' = "idle"
         \/ /\ cur /\ exec' = o
            /\ \/ pc' = "idle"
               \/ /\ l' = o
                  /\ \/ p = "Succeeded" /\ pc' = "rexport"
                     \/ ~IsCompleted(p) /\ pc' = Ensure(o)
                  /\ loc' = [loc EXCEPT !.items = items]
  <2>1. ViewItems = di
    BY DEF ViewItems, FreshItems
  <2>2. Rechecked(di)
    BY <2>1, RecheckCases
  <2> QED BY <2>2 DEF Rechecked
<1>2. /\ o.obs = l.obs /\ o.err = l.err /\ o.del = l.del /\ o.gen = l.gen
      /\ o.spec = l.spec /\ o.egens = l.egens /\ o.phase = p
  BY BaseFacts DEF Executions
<1>3. /\ l.obs = exec.obs /\ l.err = exec.err /\ l.phase = exec.phase
      /\ IsCompleted(exec.phase) /\ l.egens = exec.egens
      /\ cur => l.gen = exec.gen /\ l.del = exec.del /\ l.spec = exec.spec
  BY <1>1, BaseFacts
     DEF RunInv, StatusHeld, Decided, Front, Agreed, SameBook, Current
<1> HIDE DEF p, o
<1>4. CASE UNCHANGED exec /\ pc' = "idle"
  <2>1. FinishedInv'
    BY <1>1, <1>4, FinishedStays DEF RunInv
  <2> QED BY <1>4, <2>1, RunOver
<1>5. CASE cur /\ exec' = o
  <2>1. /\ exec'.gen = exec.gen /\ exec'.spec = exec.spec /\ exec'.egens = exec.egens
        /\ Finished(exec') => Finished(exec)
    BY <1>2, <1>3, <1>5 DEF Finished
  <2>2. FinishedInv'
    BY <1>1, <2>1, FinishedStays DEF RunInv
  <2>3. CASE pc' = "idle"
    BY <2>2, <2>3, RunOver
  <2>4. CASE ~IsCompleted(p) /\ pc' = Ensure(o) /\ l' = o
    <3>1. Branch(pc', o)
      BY <1>2, <2>4, BranchEnsure
    <3> QED BY <1>5, <2>2, <2>4, <3>1, BranchRun
  <2>5. CASE /\ p = "Succeeded" /\ pc' = "rexport" /\ l' = o
             /\ loc' = [loc EXCEPT !.items = items]
    <3>1. ~Outdated(di)
      BY <2>5 DEF p
    <3>2. loc'.items = items
      BY <2>5, BaseFacts DEF LocalVars
    <3>3. ASSUME NEW t \in Names, loc'.items[t].id # 0
          PROVE  /\ Named(t)'
                 /\ Finished(exec') /\ exec'.spec[t] # 0 => loc'.items[t].out = exec'.spec[t]
      <4>1. PICK i : i = l.refs[t].id
        OBVIOUS
      <4>2. t \in Referenced /\ loc'.items[t] = Copy(i, di[i])
        BY <3>2, <3>3, <4>1 DEF Missing
      <4>3. loc'.items[t].id = i /\ loc'.items[t].out = di[i].out /\ i # 0
        BY <4>1, <4>2 DEF Copy, Referenced
      <4>4. di[i].live
        BY <3>1, <4>1, <4>2 DEF Outdated
      <4>5. di[i].tmpl = t /\ i \in Items
        <5>1. RefSound(t, l.refs[t]) /\ l.refs[t] \in Refs
          BY BaseFacts DEF BookInv, RefsSound, Executions
        <5>2. i \in Items
          BY <4>1, <4>3, <5>1, BoundsAssumption DEF Refs, Items
        <5> QED BY <4>1, <4>3, <4>4, <5>1, <5>2 DEF RefSound
      <4>6. Named(t)'
        BY <1>1, <4>3, <4>5 DEF Named
      <4>7. ASSUME Finished(exec'), exec'.spec[t] # 0
            PROVE  loc'.items[t].out = exec'.spec[t]
        BY <2>1, <4>3, <4>4, <4>5, <4>7
           DEF RunInv, FinishedInv, RolledOut, Templates, HasExported
      <4> QED BY <4>6, <4>7
    <3>4. AgainReady'
      <4> HIDE DEF items
      <4> QED BY <3>3 DEF AgainReady, Finished
    <3>5. StatusHeld' /\ Decided'
      BY <1>2, <1>5, <2>5 DEF StatusHeld, Decided, Rolling, Deleting, IsCompleted,
         CompletedPhases
    <3>6. LoopInv' /\ ExportReady' /\ FinishReady'
      BY <2>5 DEF LoopInv, ExportReady, FinishReady, Looping
    <3> QED BY <2>2, <3>4, <3>5, <3>6 DEF RunInv
  <2> QED BY <1>1, <2>3, <2>4, <2>5
<1> QED BY <1>1, <1>4, <1>5

\* The loop begins with the items as they are.
LEMMA ListRun ==
    ASSUME BaseInv, RunInv, FreshItems, [Next]_vars, ListItems
    PROVE  RunInv'
<1>0. /\ pc = "list" /\ UNCHANGED <<exec, exports>> /\ l' = [l EXCEPT !.phase = "Progressing"]
      /\ pc' \in {"loop", "finish"} /\ loc \in LocalVars /\ l \in Executions
  BY BaseFacts DEF ListItems
<1>1. /\ l'.phase = "Progressing" /\ l'.obs = l.obs /\ l'.err = l.err /\ l'.spec = l.spec
      /\ ~IsCompleted(l'.phase)
  BY <1>0 DEF Executions, IsCompleted, CompletedPhases
<1>2. FinishedInv'
  BY <1>0, FinishedStays DEF RunInv
<1>3. CASE pc' = "finish"
  <2>1. FinishReady'
    BY <1>1 DEF FinishReady
  <2> QED BY <1>2, <1>3, <2>1, RunEnds
<1>4. CASE pc' = "loop"
  <2> DEFINE doomed(a) == {i \in Orphans(a, ViewItems) :
                             /\ ~ViewItems[i].del
                             /\ GCDeletable(i, Orphans(a, ViewItems), ViewItems)}
  <2>1. PICK a \in Assignments(ViewItems) :
          /\ di' = [i \in Items |-> IF i \in doomed(a) /\ di[i].live
                                    THEN Deleted(di[i]) ELSE di[i]]
          /\ loc' = [loc EXCEPT !.force = (l.op = "force"), !.tspec = l.spec,
                                !.items = Copies(a, ViewItems), !.at = 1,
                                !.acc = NoPhase,
                                !.err = (Orphans(a, ViewItems) # {})]
          /\ pc' = IF Orphans(a, ViewItems) = {} THEN "loop" ELSE "finish"
    BY Zenon DEF ListItems
  <2>2. ASSUME NEW i \in Items PROVE di'[i] = di[i]
    <3>1. i \notin doomed(a)
      BY <1>4, <2>1
    <3> HIDE DEF doomed
    <3> QED BY <2>1, <3>1
  <2>a. ViewItems = di
    BY DEF ViewItems, FreshItems
  <2> HIDE DEF doomed
  <2>3. /\ loc'.tspec = l.spec /\ loc'.items = Copies(a, di) /\ loc'.at = 1
        /\ loc'.acc = NoPhase
    BY <1>0, <2>1, <2>a DEF LocalVars
  <2>4. ASSUME NEW t \in Names
        PROVE  Listed(t)' /\ loc'.items[t].phase \in ItemPhases
    <3>1. loc'.items[t] = IF a[t] = 0 THEN Missing ELSE Copy(a[t], di[a[t]])
      BY <2>3 DEF Copies
    <3>2. CASE a[t] = 0
      BY <3>1, <3>2 DEF Listed, Missing, ItemPhases
    <3>3. CASE a[t] # 0
      <4>1. a[t] \in Items /\ di[a[t]].live /\ di[a[t]].tmpl = t
        BY <2>1, <2>a, <3>3 DEF Assignments
      <4>2. PICK i \in Items : i = a[t]
        BY <4>1
      <4>3. di'[i] = di[i] /\ loc'.items[t] = Copy(i, di[i])
        BY <2>2, <3>1, <3>3, <4>2
      <4>4. loc'.items[t].id = i /\ loc'.items[t].phase = di[i].phase
        BY <4>3 DEF Copy
      <4>5. di[i].phase \in ItemPhases
        BY <4>1, <4>2 DEF BaseInv, Outcomes, Honest
      <4> QED BY <4>1, <4>2, <4>3, <4>4, <4>5 DEF Listed
    <3> QED BY <3>2, <3>3
  <2>5. Passed'
    <3>1. \A k \in 1..Len(Order) : ~(k < loc'.at)
      BY <2>3, OrderFacts
    <3> QED BY <1>1, <2>3, <2>4, <3>1 DEF Passed, NoPhase
  <2>6. LoopInv'
    BY <1>4, <2>3, <2>4, <2>5 DEF LoopInv
  <2>7. StatusHeld' /\ Decided'
    BY <1>0, <1>1, <1>4
       DEF RunInv, StatusHeld, Decided, Front, Rolling, Deleting
  <2> QED
    BY <1>2, <1>4, <2>6, <2>7 DEF RunInv, ExportReady, AgainReady, FinishReady
<1> QED BY <1>0, <1>3, <1>4

\* A step of a rollout that goes on with the same status.
LEMMA RollsOn ==
    ASSUME BaseInv, RunInv, [Next]_vars, ~(pc = "apply" /\ pc' = "record"),
           pc \in Rolling, pc' \in Rolling, pc' # "export",
           UNCHANGED <<exec, exports>>,
           l'.obs = l.obs, l'.err = l.err, l'.phase \in {l.phase, "Progressing"},
           LoopInv'
    PROVE  RunInv'
<1>1. FinishedInv'
  BY FinishedStays DEF RunInv
<1>2. StatusHeld' /\ Decided'
  BY DEF RunInv, StatusHeld, Decided, Front, Rolling, Deleting, IsCompleted,
     CompletedPhases
<1>3. ExportReady' /\ AgainReady' /\ FinishReady'
  BY DEF ExportReady, AgainReady, FinishReady, Rolling
<1> QED BY <1>1, <1>2, <1>3 DEF RunInv

\* The combined phases that the loop goes on with.
LEMMA Combined ==
    ASSUME NEW acc \in {NoPhase, "Succeeded", "Init", "Progressing"}
    PROVE  /\ CombinedPhase({acc, "Init"}) \in {"Init", "Progressing"}
           /\ CombinedPhase({acc, "Succeeded"}) \in {"Succeeded", "Init", "Progressing"}
           /\ CombinedPhase({acc, "Succeeded"}) = "Succeeded" => acc \in {NoPhase, "Succeeded"}
<1>1. CASE acc = NoPhase
  BY <1>1 DEF CombinedPhase, RunningPhases, NoPhase
<1>2. CASE acc = "Succeeded"
  BY <1>2 DEF CombinedPhase, RunningPhases, NoPhase
<1>3. CASE acc = "Init"
  BY <1>3 DEF CombinedPhase, RunningPhases, NoPhase
<1>4. CASE acc = "Progressing"
  BY <1>4 DEF CombinedPhase, RunningPhases, NoPhase
<1> QED BY <1>1, <1>2, <1>3, <1>4

\* The loop is clean as long as the items it follows have succeeded.
LEMMA LoopRun ==
    ASSUME BaseInv, RunInv, [Next]_vars, LoopItem
    PROVE  RunInv'
<1> DEFINE t == Order[loc.at]
<1>0. /\ pc = "loop" /\ loc.at \in 1..Len(Order) /\ t \in Names
      /\ UNCHANGED <<exec, di, exports>> /\ loc \in LocalVars /\ l \in Executions
  <2>1. /\ pc = "loop" /\ loc.at <= Len(Order) /\ UNCHANGED <<exec, di, exports>>
    BY DEF LoopItem, LocalStep, server
  <2> QED BY <2>1, BaseFacts, OrderFacts DEF LocalVars
<1>1. /\ loc.acc \in {NoPhase, "Succeeded", "Init", "Progressing"}
      /\ loc.items[t].phase \in ItemPhases
      /\ Clean => Passed
  BY <1>0 DEF RunInv, LoopInv, Looping
<1>2. \/ /\ loc.tspec[t] = 0 \/ ~Runnable(t)
         /\ l' = l /\ pc' = "loop" /\ NextItem(loc.acc)
      \/ /\ l' = [l EXCEPT !.phase = "Progressing"]
         /\ pc' = "loop" /\ NextItem("Progressing")
      \/ /\ Followed(t)
         /\ l' = l /\ pc' = "loop" /\ NextItem(CombinedPhase({loc.acc, "Succeeded"}))
      \/ l' = l /\ pc' = "apply" /\ loc' = loc
      \/ FailWithItem
  <2>1. loc.items[t].phase # "Failed" /\ IsCompleted(loc.items[t].phase)
        => loc.items[t].phase = "Succeeded"
    BY <1>1 DEF ItemPhases, IsCompleted, CompletedPhases, NoPhase
  <2> QED BY <2>1 DEF LoopItem, FollowItem, Goto, Followed
<1> HIDE DEF t
<1>3. CASE FailWithItem
  <2>1. FinishedInv'
    BY <1>0, FinishedStays DEF RunInv
  <2>2. pc' = "finish" /\ loc'.touched /\ l'.err # "none"
    <3>1. PICK e : e \in {"recent", "lasting"} /\ l' = [l EXCEPT !.obs = l.gen, !.phase = "Failed", !.err = e]
      BY <1>3 DEF FailWithItem
    <3>2. l'.err = e
      BY <1>0, <3>1 DEF Executions
    <3>3. pc' = "finish" /\ loc'.touched
      BY <1>0, <1>3 DEF FailWithItem, LocalVars
    <3> QED BY <3>1, <3>2, <3>3
  <2>3. FinishReady'
    BY <2>2 DEF FinishReady
  <2> QED BY <2>1, <2>2, <2>3, RunEnds
<1>4. CASE l' = l /\ pc' = "apply" /\ loc' = loc
  <2>1. LoopInv'
    BY <1>0, <1>4 DEF RunInv, LoopInv, Looping
  <2> QED BY <1>0, <1>4, <2>1, RollsOn DEF Rolling
<1>5. ASSUME NEW acc, NextItem(acc), pc' = "loop",
             l' = l \/ l' = [l EXCEPT !.phase = "Progressing"],
             acc \in {NoPhase, "Succeeded", "Init", "Progressing"},
             acc \in {NoPhase, "Succeeded"} =>
                /\ l' = l /\ Clean /\ (acc = "Succeeded" => ~loc.force)
                /\ loc.tspec[t] = 0 \/ Followed(t) \/ ~Runnable(t)
      PROVE  RunInv'
  <2>1. /\ loc'.at = loc.at + 1 /\ loc'.acc = acc /\ loc'.items = loc.items
        /\ loc'.tspec = loc.tspec /\ loc'.force = loc.force
    BY <1>0, <1>5 DEF NextItem, LocalVars
  <2>2. l'.obs = l.obs /\ l'.err = l.err /\ l'.phase \in {l.phase, "Progressing"}
    BY <1>0, <1>5 DEF Executions
  <2>3. ASSUME Clean' PROVE Passed'
    <3>1. l' = l /\ Passed /\ (loc.tspec[t] = 0 \/ Followed(t) \/ ~Runnable(t))
      BY <1>1, <1>5, <2>1, <2>3 DEF Clean
    <3>2. ASSUME NEW s \in Names
          PROVE  /\ Listed(s) => Listed(s)'
                 /\ Followed(s) => Followed(s)'
                 /\ Runnable(s)' => Runnable(s)
      BY <1>0, <2>1, <3>1 DEF Listed, Followed, Runnable, IsUpToDate
    <3>3. \A s \in Names : Listed(s)'
      BY <3>1, <3>2 DEF Passed
    <3>4. ASSUME NEW k \in 1..Len(Order), k < loc'.at, loc'.tspec[Order[k]] # 0
          PROVE  Followed(Order[k])' \/ ~Runnable(Order[k])'
      <4>1. Order[k] \in Names
        BY OrderFacts
      <4>2. Followed(Order[k]) \/ ~Runnable(Order[k])
        <5>1. k < loc.at \/ k = loc.at
          BY <1>0, <2>1, <3>4
        <5> QED BY <2>1, <3>1, <3>4, <5>1 DEF Passed, t
      <4> QED BY <3>2, <4>1, <4>2
    <3>5. loc'.tspec = l'.spec /\ (loc'.acc = "Succeeded" => ~loc'.force)
      BY <1>5, <2>1, <2>3, <3>1 DEF Passed, Clean
    <3> QED BY <3>3, <3>4, <3>5 DEF Passed
  <2>4. LoopInv'
    BY <1>0, <1>5, <2>1, <2>3 DEF RunInv, LoopInv, Looping
  <2> QED BY <1>0, <1>5, <2>2, <2>4, RollsOn DEF Rolling
<1>6. CASE /\ loc.tspec[t] = 0 \/ ~Runnable(t)
           /\ l' = l /\ pc' = "loop" /\ NextItem(loc.acc)
  BY <1>1, <1>5, <1>6 DEF Clean, Passed
<1>7. CASE l' = [l EXCEPT !.phase = "Progressing"] /\ pc' = "loop" /\ NextItem("Progressing")
  BY <1>5, <1>7 DEF NoPhase
<1>8. CASE Followed(t) /\ l' = l /\ pc' = "loop"
           /\ NextItem(CombinedPhase({loc.acc, "Succeeded"}))
  <2>1. PICK acc : acc = CombinedPhase({loc.acc, "Succeeded"})
    OBVIOUS
  <2>2. /\ acc \in {"Succeeded", "Init", "Progressing"}
        /\ acc = "Succeeded" => loc.acc \in {NoPhase, "Succeeded"}
    BY <1>1, <2>1, Combined
  <2>3. NextItem(acc) /\ ~loc.force
    BY <1>8, <2>1 DEF Followed
  <2>4. acc \in {NoPhase, "Succeeded"} => Clean
    BY <2>2 DEF Clean, NoPhase
  <2> QED BY <1>5, <1>8, <2>2, <2>3, <2>4
<1> QED BY <1>2, <1>3, <1>4, <1>6, <1>7, <1>8

\* Dependencies have no cycles: in every set of templates one waits for none of
\* the others.
LEMMA FirstTemplate ==
    ASSUME NEW S \in SUBSET Names, S # {}
    PROVE  \E t \in S : \A dep \in DependsOn[t] : dep \notin S
<1>1. PICK rank \in [Names -> 1..Len(Order)] :
        \A t \in Names : \A dep \in DependsOn[t] : rank[dep] < rank[t]
  BY DependsOnAssumption
<1> DEFINE T == {rank[t] : t \in S}
<1>2. \A t \in Names : rank[t] \in Nat
  BY <1>1, OrderFacts
<1>3. T \subseteq Nat /\ T # {}
  BY <1>2
<1>4. PICK n \in T : \A m \in T : ~(<<m, n>> \in OpToRel(<, Nat))
  BY <1>3, NatLessThanWellFounded, WFMin
<1>5. PICK t \in S : n = rank[t]
  OBVIOUS
<1>6. ASSUME NEW dep \in DependsOn[t], dep \in S PROVE FALSE
  <2>1. rank[dep] \in Nat /\ n \in Nat /\ rank[dep] < n /\ rank[dep] \in T
    BY <1>1, <1>2, <1>5, <1>6
  <2>2. <<rank[dep], n>> \in {ss \in Nat \X Nat : ss[1] < ss[2]}
    BY <2>1
  <2> QED BY <1>4, <2>1, <2>2 DEF OpToRel
<1> QED BY <1>6

\* A clean loop that is at its end has followed every template: the first one it
\* has not waits for another it has not.
LEMMA AllFollowed ==
    ASSUME BaseInv, Passed, loc.at > Len(Order)
    PROVE  \A t \in Templates(l.spec) : Followed(t)
<1> DEFINE S == {t \in Templates(l.spec) : ~Followed(t)}
<1> SUFFICES ASSUME S # {} PROVE FALSE
  OBVIOUS
<1>1. PICK t \in S : \A dep \in DependsOn[t] : dep \notin S
  BY FirstTemplate DEF Templates
<1>2. t \in Names /\ l.spec[t] # 0 /\ ~Followed(t)
  BY DEF Templates
<1>3. PICK k \in 1..Len(Order) : Order[k] = t
  BY <1>2, OrderAssumption
<1>4. k < loc.at
  BY <1>3, OrderFacts, BaseFacts DEF LocalVars
<1>5. ~Runnable(t)
  BY <1>2, <1>3, <1>4 DEF Passed
<1>6. ASSUME NEW dep \in DependsOn[t] PROVE Followed(dep)
  BY <1>1, <1>2 DEF BaseInv, Closed, ClosedSpec, Templates
<1> QED BY <1>5, <1>6 DEF Runnable, Followed

\* What a clean loop makes of the execution.
LEMMA EndRun ==
    ASSUME BaseInv, RunInv, [Next]_vars, EndLoop
    PROVE  RunInv'
<1>0. /\ pc = "loop" /\ loc.at > Len(Order)
      /\ pc' = IF loc.force THEN "unforce" ELSE AfterLoop
      /\ UNCHANGED <<exec, di, exports, l, loc>>
  BY DEF EndLoop, Goto, LocalStep, server
<1>1. /\ loc.acc \in {NoPhase, "Succeeded", "Init", "Progressing"}
      /\ loc.acc = "Succeeded" => Passed
  BY <1>0 DEF RunInv, LoopInv, Looping, Clean
<1>2. FinishedInv'
  BY <1>0, FinishedStays DEF RunInv
<1>3. IsCompleted(loc.acc) => loc.acc = "Succeeded" /\ ~loc.force
  BY <1>1 DEF IsCompleted, CompletedPhases, NoPhase, Passed
<1>4. CASE pc' = "finish"
  <2>1. ~IsCompleted(l'.phase)
    BY <1>0 DEF RunInv, Decided, Rolling
  <2>2. FinishReady'
    BY <2>1 DEF FinishReady
  <2> QED BY <1>2, <1>4, <2>2, RunEnds
<1>5. CASE pc' = "unforce"
  <2>1. loc.force
    BY <1>0, <1>5 DEF AfterLoop
  <2>2. LoopInv'
    BY <1>0, <1>3, <1>5, <2>1 DEF LoopInv, Looping
  <2> QED BY <1>0, <1>5, <2>2, RollsOn DEF Rolling
<1>6. CASE pc' = "export"
  <2>1. IsCompleted(loc.acc)
    BY <1>0, <1>6 DEF AfterLoop
  <2>2. Passed
    BY <1>1, <1>3, <2>1
  <2>3. ASSUME l.gen = exec.gen, NEW t \in Templates(exec.spec)
        PROVE  /\ l.egens[t] = exec.gen
               /\ loc.items[t].id # 0 /\ loc.items[t].out = exec.spec[t]
               /\ Named(t) /\ HasExported(t, exec.spec[t])
    <3>1. l.spec = exec.spec /\ t \in Names
      BY <2>3, BaseFacts DEF OneContent, Templates
    <3>2. Followed(t) /\ Listed(t)
      BY <1>0, <2>2, <2>3, <3>1, AllFollowed DEF Passed
    <3>3. l.egens[t] = exec.gen /\ loc.items[t].id # 0
      BY <2>3, <3>2 DEF Followed, IsUpToDate
    <3>4. PICK i \in Items : i = loc.items[t].id
      BY <3>1, <3>3, ListedNames
    <3>5. di[i].live /\ di[i].tmpl = t /\ loc.items[t] = Copy(i, di[i])
      BY <3>2, <3>3, <3>4 DEF Listed
    <3>6. di[i].phase = "Succeeded" /\ di[i].obs = di[i].gen /\ loc.items[t].out = di[i].out
      BY <3>2, <3>5 DEF Followed, Copy
    <3>7. di[i].out = di[i].spec
      BY <3>5, <3>6 DEF BaseInv, Outcomes, Honest
    <3>8. di[i].spec = exec.spec[t]
      BY <3>1, <3>3, <3>5 DEF BaseInv, ContentInv, ContentSound, HasContent
    <3>9. HasExported(t, exec.spec[t])
      BY <3>5, <3>7, <3>8 DEF BaseInv, OneInv, OneItemPerTemplate, HasExported
    <3> QED BY <3>3, <3>4, <3>5, <3>6, <3>7, <3>8, <3>9 DEF Named
  <2>4. ExportReady'
    BY <1>0, <2>2, <2>3 DEF ExportReady, Templates, Passed, Named, HasExported
  <2>5. StatusHeld' /\ Decided'
    BY <1>0, <1>6 DEF RunInv, StatusHeld, Decided, Front, Rolling, Deleting
  <2> QED BY <1>2, <1>6, <2>4, <2>5 DEF RunInv, LoopInv, AgainReady, FinishReady, Looping
<1> QED BY <1>0, <1>4, <1>5, <1>6 DEF AfterLoop

\* An item that is applied ends the clean part of the loop.
LEMMA ApplyRun ==
    ASSUME BaseInv, RunInv, [Next]_vars, ApplyItem
    PROVE  RunInv'
<1> DEFINE t == Order[loc.at]
           i == loc.items[t].id
           d == Triggered(di[i], loc.tspec[t])
<1>0. /\ pc = "apply" /\ UNCHANGED <<exec, exports, l>>
      /\ loc.at \in 1..Len(Order) /\ t \in Names /\ loc \in LocalVars /\ TypeInv
  <2>1. pc = "apply" /\ UNCHANGED <<exec, exports, l>>
    BY Zenon DEF ApplyItem, Goto, Fail
  <2>2. loc.at \in 1..Len(Order)
    BY <2>1, BaseFacts DEF InLoop, TypeInv, LocalVars
  <2> QED BY <2>1, <2>2, OrderFacts, BaseFacts
<1>1. FinishedInv'
  BY <1>0 DEF RunInv, Decided, Rolling, FinishedInv, Finished
<1>2. CASE pc' = "finish"
  <2>1. FinishReady'
    BY <1>0 DEF RunInv, Decided, Rolling, FinishReady
  <2> QED BY <1>1, <1>2, <2>1, RunEnds
<1>3. CASE pc' = "record"
  <2>1. \/ loc' = [loc EXCEPT !.ref = [id |-> next, gen |-> 1]]
        \/ /\ i # 0 /\ di[i].live
           /\ loc' = [loc EXCEPT !.ref = [id |-> i, gen |-> d.gen], !.items[t] = Copy(i, d)]
    <3>1. \/ loc' = [loc EXCEPT !.ref = [id |-> next, gen |-> 1]]
          \/ /\ i # 0 /\ ViewItems[i].live /\ ViewItems[i] = di[i]
             /\ loc' = [loc EXCEPT !.ref = [id |-> i, gen |-> d.gen], !.items[t] = Copy(i, d)]
          \/ pc' = "finish"
      BY Zenon DEF ApplyItem, Goto, Fail
    <3> HIDE DEF d, i, t
    <3>2. i # 0 /\ ViewItems[i].live /\ ViewItems[i] = di[i] => di[i].live
      OBVIOUS
    <3> QED BY <1>3, <3>1, <3>2
  <2>2. Copy(i, d).phase \in ItemPhases \/ ~(i # 0 /\ di[i].live)
    <3> SUFFICES ASSUME i # 0, di[i].live PROVE Copy(i, d).phase \in ItemPhases
      OBVIOUS
    <3>1. i \in Items
      BY <1>0, ListedNames
    <3>2. di[i] \in DeployItems /\ di[i].phase \in ItemPhases
      BY <1>0, <3>1 DEF BaseInv, Outcomes, Honest, TypeInv, TypeOK
    <3> HIDE DEF i
    <3>3. d.phase = di[i].phase
      BY <3>2 DEF Triggered, DeployItems
    <3> HIDE DEF d
    <3> QED BY <3>2, <3>3 DEF Copy
  <2> HIDE DEF d, i, t
  <2>3. loc'.acc = loc.acc /\ \A s \in Names : loc'.items[s].phase \in ItemPhases
    <3>1. \A s \in Names : loc.items[s].phase \in ItemPhases
      BY <1>0 DEF RunInv, LoopInv, Looping
    <3>2. CASE loc' = [loc EXCEPT !.ref = [id |-> next, gen |-> 1]]
      BY <1>0, <3>1, <3>2 DEF LocalVars
    <3>3. CASE /\ i # 0 /\ di[i].live
               /\ loc' = [loc EXCEPT !.ref = [id |-> i, gen |-> d.gen], !.items[t] = Copy(i, d)]
      <4>1. PICK c : c = Copy(i, d) /\ c.phase \in ItemPhases
        BY <2>2, <3>3
      <4>2. loc' = [loc EXCEPT !.ref = [id |-> i, gen |-> d.gen], !.items[t] = c]
        BY <3>3, <4>1
      <4>3. loc'.acc = loc.acc /\ loc'.items = [loc.items EXCEPT ![t] = c]
        BY <1>0, <4>2 DEF LocalVars
      <4>4. loc.items \in [Names -> ItemCopies]
        BY <1>0 DEF LocalVars
      <4> QED BY <3>1, <4>1, <4>3, <4>4
    <3> QED BY <2>1, <3>2, <3>3
  <2>4. LoopInv'
    BY <1>0, <1>3, <2>3 DEF RunInv, LoopInv, Looping
  <2>5. StatusHeld' /\ Decided'
    BY <1>0, <1>3 DEF RunInv, StatusHeld, Decided, Front, Rolling, Deleting
  <2> QED
    BY <1>1, <1>3, <2>4, <2>5 DEF RunInv, ExportReady, AgainReady, FinishReady
<1>4. pc' \in {"record", "finish"}
  BY Zenon DEF ApplyItem, Goto, Fail
<1> QED BY <1>2, <1>3, <1>4

\* The patches of a rollout: the answer replaces what the run holds, and no
\* completed phase is in either.
LEMMA PatchRun ==
    ASSUME BaseInv, RunInv, [Next]_vars, RecordItem \/ RemoveForce
    PROVE  RunInv'
<1>0. /\ pc \in Rolling /\ pc \in {"record", "unforce"} /\ UNCHANGED exports
      /\ ~IsCompleted(exec.phase) /\ ~IsCompleted(l.phase)
      /\ l.obs = exec.obs /\ l.err = exec.err
      /\ exec \in Executions /\ l \in Executions /\ loc \in LocalVars
  <2>1. pc \in {"record", "unforce"} /\ UNCHANGED exports
    BY DEF RecordItem, RemoveForce
  <2> QED BY <2>1, BaseFacts DEF Rolling, RunInv, StatusHeld, Decided
<1>1. \/ UNCHANGED <<exec, l>> /\ pc' = "finish"
      \/ /\ pc = "record" /\ pc' = "loop" /\ exec' = Patched /\ l' = Patched
         /\ loc' = [loc EXCEPT !.at = @ + 1, !.ref = NoRef,
                               !.acc = CombinedPhase({loc.acc, "Init"})]
      \/ /\ pc = "unforce" /\ pc' = AfterLoop /\ l' = exec' /\ loc' = loc
         /\ exec' \in {exec, [exec EXCEPT !.op = "none"]}
  BY DEF RecordItem, RemoveForce, Fail, Goto
<1>2. CASE UNCHANGED <<exec, l>> /\ pc' = "finish"
  BY <1>0, <1>2, RunEnds DEF FinishedInv, Finished, FinishReady
<1>3. CASE /\ pc = "unforce" /\ pc' = AfterLoop /\ l' = exec'
           /\ exec' \in {exec, [exec EXCEPT !.op = "none"]}
  <2>1. exec'.phase = exec.phase
    BY <1>0, <1>3 DEF Executions
  <2>2. pc' = "finish"
    BY <1>3 DEF RunInv, LoopInv, AfterLoop
  <2> QED BY <1>0, <1>3, <2>1, <2>2, RunEnds DEF FinishedInv, Finished, FinishReady
<1>4. CASE /\ pc = "record" /\ pc' = "loop" /\ exec' = Patched /\ l' = Patched
           /\ loc' = [loc EXCEPT !.at = @ + 1, !.ref = NoRef,
                                 !.acc = CombinedPhase({loc.acc, "Init"})]
  <2>1. Patched.phase \in {"Progressing", exec.phase}
    <3>1. Recorded.phase = "Progressing"
      BY <1>0 DEF Recorded, Executions
    <3> QED BY <1>0, <3>1 DEF Patched, Executions
  <2>2. ~IsCompleted(Patched.phase)
    BY <1>0, <2>1 DEF IsCompleted, CompletedPhases
  <2>3. FinishedInv' /\ StatusHeld' /\ Decided'
    BY <1>4, <2>2 DEF FinishedInv, Finished, StatusHeld, Decided, Front, Rolling, Deleting
  <2>4. loc'.items = loc.items /\ loc'.acc \in {"Init", "Progressing"}
    <3>1. loc.acc \in {NoPhase, "Succeeded", "Init", "Progressing"}
      BY <1>4 DEF RunInv, LoopInv, Looping
    <3>2. CombinedPhase({loc.acc, "Init"}) \in {"Init", "Progressing"}
      BY <3>1, Combined
    <3> QED BY <1>0, <1>4, <3>2 DEF LocalVars
  <2>5. LoopInv'
    BY <1>4, <2>4 DEF RunInv, LoopInv, Looping, Clean, NoPhase
  <2> QED
    BY <1>4, <2>3, <2>5 DEF RunInv, ExportReady, AgainReady, FinishReady
<1> QED BY <1>1, <1>2, <1>3, <1>4

\* What a run that exports has collected.
LEMMA CollectedRight ==
    ASSUME BaseInv, NEW s, AllPresent(s), NEW t \in Templates(s), NEW v, v # 0,
           loc.items[t].out = v, Named(t), HasExported(t, v)
    PROVE  Collected(s)[t] = v
<1>1. t \in Names /\ loc.items[t].id # 0 /\ t \in Exporting(s)
  BY DEF Templates, AllPresent, Exporting
<1>2. PICK i \in Items : i = loc.items[t].id
  BY <1>1, ListedNames
<1>3. Collected(s)[t] = IF di[i].live THEN di[i].out ELSE v
  BY <1>1, <1>2 DEF Collected
<1> QED BY <1>2, <1>3 DEF Named, HasExported

\* The export at the end of a rollout.
LEMMA ExportRun ==
    ASSUME BaseInv, RunInv, [Next]_vars, Export
    PROVE  RunInv'
<1> DEFINE o == [l EXCEPT !.exported = TRUE]
           q == [o EXCEPT !.phase = "Succeeded"]
<1>0. /\ pc = "export" /\ ~IsCompleted(exec.phase) /\ ~IsCompleted(l.phase)
      /\ l \in Executions
  <2>1. pc = "export"
    BY DEF Export
  <2> QED BY <2>1, BaseFacts DEF RunInv, Decided, Rolling
<1>1. /\ UNCHANGED di
      /\ \/ pc' = "idle" /\ UNCHANGED exec
         \/ pc' = "finish" /\ UNCHANGED <<exec, l>>
         \/ /\ pc' = "finish" /\ AllPresent(loc.tspec)
            /\ exports' = Collected(loc.tspec)
            /\ \/ cur /\ exec' = o /\ l' = q
               \/ UNCHANGED exec /\ l' = o
  BY DEF Export, Restart, Fail, Goto
<1>2. /\ o.phase = l.phase /\ q.phase = "Succeeded" /\ o.gen = l.gen /\ o.spec = l.spec
      /\ q.egens = l.egens /\ q.obs = l.obs
  BY <1>0 DEF Executions
<1> HIDE DEF o, q
<1>3. ~IsCompleted(exec'.phase)
  BY <1>0, <1>1, <1>2
<1>4. FinishedInv'
  BY <1>3 DEF FinishedInv, Finished
<1>5. CASE pc' = "idle"
  BY <1>4, <1>5, RunOver
<1>6. CASE pc' = "finish" /\ l' \in {l, o}
  BY <1>0, <1>2, <1>4, <1>6, RunEnds DEF FinishReady
<1>7. CASE /\ pc' = "finish" /\ AllPresent(loc.tspec)
           /\ exports' = Collected(loc.tspec)
           /\ cur /\ exec' = o /\ l' = q
  <2>1. /\ l.gen = exec.gen /\ l.spec = exec.spec /\ exec'.gen = exec.gen
        /\ exec'.spec = exec.spec /\ loc.tspec = exec.spec
    BY <1>0, <1>2, <1>7, BaseFacts DEF Current, RunInv, ExportReady
  <2>2. ASSUME NEW t \in Templates(exec.spec)
        PROVE  /\ l.egens[t] = exec.gen /\ exports'[t] = exec.spec[t]
               /\ HasExported(t, exec.spec[t])
    <3>1. /\ l.egens[t] = exec.gen /\ loc.items[t].out = exec.spec[t]
          /\ Named(t) /\ HasExported(t, exec.spec[t]) /\ exec.spec[t] # 0
      BY <1>0, <2>1 DEF RunInv, ExportReady, Templates
    <3> QED BY <1>7, <2>1, <3>1, CollectedRight
  <2>3. RolledOut(l.egens)'
    BY <1>1, <1>2, <1>7, <2>1, <2>2 DEF RolledOut, HasExported, Templates
  <2>4. FinishReady'
    BY <2>3 DEF FinishReady
  <2> QED BY <1>4, <1>7, <2>4, RunEnds
<1> QED BY <1>1, <1>5, <1>6, <1>7

\* The export of an execution whose phase went back to Succeeded.
LEMMA ExportAgainRun ==
    ASSUME BaseInv, RunInv, [Next]_vars, ExportAgain
    PROVE  RunInv'
<1> DEFINE o == [l EXCEPT !.exported = TRUE]
<1>0. pc = "rexport" /\ l \in Executions /\ pc' = "idle" /\ UNCHANGED di
  <2>1. pc = "rexport" /\ pc' = "idle" /\ UNCHANGED di
    BY DEF ExportAgain, Restart, Return
  <2> QED BY <2>1, BaseFacts
<1>1. \/ UNCHANGED <<exec, exports>>
      \/ /\ AllPresent(l.spec) /\ exports' = Collected(l.spec)
         /\ UNCHANGED exec \/ (cur /\ exec' = o)
  BY DEF ExportAgain
<1>2. CASE UNCHANGED <<exec, exports>>
  <2>1. FinishedInv'
    BY <1>0, <1>2, FinishedStays DEF RunInv
  <2> QED BY <1>0, <2>1, RunOver
<1>3. CASE /\ AllPresent(l.spec) /\ exports' = Collected(l.spec)
           /\ UNCHANGED exec \/ (cur /\ exec' = o)
  <2>1. /\ o.obs = l.obs /\ o.err = l.err /\ o.del = l.del /\ o.gen = l.gen
        /\ o.spec = l.spec /\ o.egens = l.egens /\ o.phase = l.phase
    BY <1>0 DEF Executions
  <2>2. /\ l.obs = exec.obs /\ l.err = exec.err /\ l.phase = exec.phase
        /\ l.egens = exec.egens
        /\ cur => l.gen = exec.gen /\ l.del = exec.del /\ l.spec = exec.spec
    BY <1>0, BaseFacts
       DEF RunInv, StatusHeld, Front, Agreed, SameBook, Current
  <2> HIDE DEF o
  <2>3. /\ exec'.gen = exec.gen /\ exec'.spec = exec.spec /\ exec'.egens = exec.egens
        /\ Finished(exec') => Finished(exec)
    BY <1>3, <2>1, <2>2 DEF Finished
  <2>4. ASSUME Finished(exec), NEW t \in Templates(exec.spec)
        PROVE  /\ exec.egens[t] = exec.gen /\ exports'[t] = exec.spec[t]
               /\ HasExported(t, exec.spec[t])
    <3>1. /\ exec.egens[t] = exec.gen /\ HasExported(t, exec.spec[t])
          /\ t \in Names /\ exec.spec[t] # 0
      BY <2>4 DEF RunInv, FinishedInv, RolledOut, Templates
    <3>2. l.gen = exec.gen /\ l.spec = exec.spec
      <4>1. l.egens[t] <= l.gen /\ l.egens[t] = exec.gen
        BY <2>2, <3>1, BaseFacts DEF BookInv, GensSound
      <4> QED BY <4>1, BaseFacts DEF OneContent
    <3>3. loc.items[t].id # 0
      BY <1>3, <2>4, <3>2 DEF AllPresent
    <3>4. Named(t) /\ loc.items[t].out = exec.spec[t]
      BY <1>0, <2>4, <3>1, <3>3 DEF RunInv, AgainReady
    <3>5. exports'[t] = exec.spec[t]
      BY <1>3, <2>4, <3>1, <3>2, <3>4, CollectedRight
    <3> QED BY <3>1, <3>5
  <2>5. FinishedInv'
    BY <1>0, <2>3, <2>4 DEF FinishedInv, Finished, RolledOut, HasExported, Templates
  <2> QED BY <1>0, <2>5, RunOver
<1> QED BY <1>1, <1>2, <1>3

\* HandleErrorFunc stores the phase of the run and, if nothing went wrong, that
\* there is no error.
LEMMA HandleErrorRun ==
    ASSUME BaseInv, RunInv, [Next]_vars, HandleError
    PROVE  RunInv'
<1> DEFINE kept == loc.err \/ loc.touched \/ l.err # loc.old.err
           e == IF kept THEN l.err ELSE "none"
           o == [l EXCEPT !.err = e, !.phase = PhaseForLastError(l.phase, e)]
<1>0. /\ pc = "finish" /\ pc' = "idle" /\ UNCHANGED <<di, exports>>
      /\ l \in Executions /\ exec \in Executions
      /\ UNCHANGED exec \/ (cur /\ exec' = WithStatus(exec, o))
  <2>1. /\ pc = "finish" /\ pc' = "idle" /\ UNCHANGED <<di, exports>>
        /\ UNCHANGED exec \/ (cur /\ exec' = WithStatus(exec, o))
    BY DEF HandleError, Return
  <2> QED BY <2>1, BaseFacts
<1>1. CASE UNCHANGED exec
  <2>1. FinishedInv'
    BY <1>0, <1>1, FinishedStays DEF RunInv
  <2> QED BY <1>0, <2>1, RunOver
<1>2. CASE cur /\ exec' = WithStatus(exec, o)
  <2>1. /\ o.err = e /\ o.phase = PhaseForLastError(l.phase, e)
        /\ o.obs = l.obs /\ o.egens = l.egens
    BY <1>0 DEF Executions
  <2> HIDE DEF o
  <2>2. /\ exec'.err = e /\ exec'.phase = PhaseForLastError(l.phase, e)
        /\ exec'.obs = l.obs /\ exec'.egens = l.egens
        /\ exec'.gen = exec.gen /\ exec'.spec = exec.spec /\ exec'.del = exec.del
    <3>1. /\ WithStatus(exec, o).err = o.err /\ WithStatus(exec, o).phase = o.phase
          /\ WithStatus(exec, o).obs = o.obs /\ WithStatus(exec, o).egens = o.egens
          /\ WithStatus(exec, o).gen = exec.gen /\ WithStatus(exec, o).spec = exec.spec
          /\ WithStatus(exec, o).del = exec.del
      BY <1>0 DEF WithStatus, Executions
    <3> QED BY <1>2, <2>1, <3>1
  <2>3. ASSUME Finished(exec') PROVE RolledOut(l.egens)
    <3>1. /\ e = "none" /\ ~exec.del /\ l.obs = exec.gen
          /\ IsCompleted(PhaseForLastError(l.phase, e))
      BY <2>2, <2>3 DEF Finished
    <3>2. IsCompleted(l.phase)
      BY <3>1 DEF PhaseForLastError
    <3>3. ~(loc.touched /\ l.err # "none")
      BY <3>1
    <3> QED BY <1>0, <3>1, <3>2, <3>3 DEF RunInv, FinishReady
  <2>4. FinishedInv'
    BY <1>0, <2>2, <2>3 DEF FinishedInv, Finished, RolledOut, HasExported, Templates
  <2> QED BY <1>0, <2>4, RunOver
<1> QED BY <1>0, <1>1, <1>2

\* A failed call and a crash lose what was in memory or keep a phase that is not
\* completed, and so does a deletion.
LEMMA BrokenRun ==
    ASSUME BaseInv, RunInv, [Next]_vars, CallFails \/ Crash
    PROVE  RunInv'
<1>0. /\ UNCHANGED <<exec, exports>> /\ pc' \in {"idle", "finish"} /\ l \in Executions
  <2>1. UNCHANGED <<exec, exports>> /\ pc' \in {"idle", "finish"}
    BY DEF CallFails, Crash, Restart, server
  <2> QED BY <2>1, BaseFacts
<1>1. FinishedInv'
  BY <1>0, FinishedStays DEF RunInv
<1>2. CASE Crash
  BY <1>1, <1>2, RunOver DEF Crash, Restart
<1>3. CASE CallFails
  <2>1. /\ pc' = "finish" /\ pc \in Rolling \cup Deleting
        /\ \/ l' = l \/ l' = [l EXCEPT !.phase = "Progressing"] \/ l' = Recorded
           \/ pc \in Deleting
    BY <1>3 DEF CallFails, Rolling, Deleting
  <2>2. exec.del \/ ~IsCompleted(l'.phase)
    <3>1. CASE pc \in Deleting
      BY <3>1 DEF RunInv, Decided
    <3>2. CASE pc \in Rolling /\ l' = l
      BY <3>2 DEF RunInv, Decided
    <3>3. CASE l' = [l EXCEPT !.phase = "Progressing"] \/ l' = Recorded
      <4>1. l'.phase = "Progressing"
        BY <1>0, <3>3 DEF Recorded, Executions
      <4> QED BY <4>1 DEF IsCompleted, CompletedPhases
    <3> QED BY <2>1, <3>1, <3>2, <3>3
  <2>3. FinishReady'
    BY <1>0, <2>2 DEF FinishReady
  <2> QED BY <1>1, <2>1, <2>3, RunEnds
<1> QED BY <1>2, <1>3

\* Deletions are not about the rollout.
LEMMA DeleteRun ==
    ASSUME BaseInv, RunInv, [Next]_vars, DeleteList \/ DeleteItem \/ RemoveFinalizer
    PROVE  RunInv'
<1>0. /\ pc \in Deleting /\ pc' \in {"deleteItem", "finish"} /\ exec.del
      /\ exec' = exec \/ exec' = [exec EXCEPT !.fin = FALSE, !.live = FALSE]
  <2>1. /\ pc \in Deleting /\ pc' \in {"deleteItem", "finish"}
        /\ exec' = exec \/ exec' = [exec EXCEPT !.fin = FALSE, !.live = FALSE]
    BY DEF DeleteList, DeleteItem, RemoveFinalizer, Goto, LocalStep, server, Deleting
  <2> QED BY <2>1 DEF RunInv, Decided
<1>1. exec'.del
  BY <1>0, BaseFacts DEF Executions
<1>2. FinishedInv' /\ FinishReady'
  BY <1>1 DEF FinishedInv, Finished, FinishReady
<1>3. CASE pc' = "finish"
  BY <1>2, <1>3, RunEnds
<1>4. CASE pc' = "deleteItem"
  BY <1>1, <1>2, <1>4 DEF RunInv, StatusHeld, Decided, LoopInv, ExportReady,
     AgainReady, Front, Rolling, Deleting, Looping
<1> QED BY <1>0, <1>3, <1>4

\* Every step preserves the invariant.
LEMMA RunInvStep ==
    ASSUME FreshExecution, FreshItems, BaseInv, RunInv, [Next]_vars
    PROVE  RunInv'
<1>1. CASE Controller
  BY <1>1, GetRun, FrontRun, RecheckRun, ExportAgainRun, ListRun, LoopRun, EndRun,
     ApplyRun, PatchRun, ExportRun, DeleteRun, HandleErrorRun DEF Controller
<1>2. CASE CallFails \/ Crash
  BY <1>2, BrokenRun
<1>3. CASE ~Controller /\ ~CallFails /\ ~Crash
  BY <1>3, BaseFacts, OutsideSteps, OutsideRun DEF Next, Environment
<1> QED BY <1>1, <1>2, <1>3

\* No run has begun, and no phase is completed.
LEMMA RunInvInit == Init => RunInv
<1> SUFFICES ASSUME Init PROVE RunInv
  OBVIOUS
<1>1. pc = "idle" /\ exec.phase = NoPhase
  BY DEF Init, NewExecution
<1> QED
  BY <1>1 DEF RunInv, StatusHeld, Decided, FinishedInv, Finished, LoopInv, ExportReady,
     AgainReady, FinishReady, Front, Rolling, Deleting, Looping, IsCompleted,
     CompletedPhases, NoPhase

\* A Succeeded execution without an error has rolled out its current spec, and
\* its exports are those of that spec (Operation.Reconcile, helper.go,
\* collectAndUpdateExports, HandleErrorFunc): whatever edits, forced runs,
\* removed templates, deletions, retries, pickup timeouts, failed items, failed
\* calls and crashes come between the loop, the export, the phase that is set in
\* memory and the status update that stores it.  This needs fresh reads: an old
\* list makes the controller create another item of a template, with the same
\* generation as the one that was recorded, and it then takes the old item for
\* up-to-date.  And it needs that the templates but the first wait for another:
\* else the spec a patch brings in is recorded for items of an older one.
THEOREM SuccessIsComplete ==
    ASSUME FreshExecution, FreshItems, RootFirst
    PROVE  SafetySpec => []SucceededIsComplete
<1>1. Init => BaseInv /\ RunInv
  BY BaseInvInit, RunInvInit
<1>2. BaseInv /\ RunInv /\ [Next]_vars => (BaseInv /\ RunInv)'
  <2> SUFFICES ASSUME BaseInv, RunInv, [Next]_vars PROVE BaseInv' /\ RunInv'
    OBVIOUS
  <2> QED BY BaseInvStep, RunInvStep
<1>3. BaseInv /\ RunInv => SucceededIsComplete
  BY DEF RunInv, FinishedInv, Finished, RolledOut, SucceededIsComplete, IsCompleted,
     CompletedPhases
<1> QED BY <1>1, <1>2, <1>3, PTL DEF SafetySpec
=============================================================================
