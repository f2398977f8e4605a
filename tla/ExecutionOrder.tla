--------------------------- MODULE ExecutionOrder ----------------------------
(***************************************************************************)
(* The deploy items of an execution over their life, for every set of      *)
(* templates, with crashes and any events.  They are created in the order  *)
(* of the dependencies, also with lagging caches: any step changes the     *)
(* items in a few ways only (Evolution), and whatever the controller holds *)
(* in memory or in a cache about an item that succeeded is backed by the   *)
(* history of successes.  With a fresh list there is one item of each      *)
(* template, because a run knows all items of the templates it has not     *)
(* reached yet (ListComplete).  And because the list a deletion works on   *)
(* is complete too (DeletionListed), items are deleted in the opposite     *)
(* order and the execution is not gone before they are.                    *)
(***************************************************************************)
EXTENDS ExecutionTypes

-----------------------------------------------------------------------------
(* How a step changes the deploy items.                                    *)

\* Names are never reused, an item keeps its template, its generation grows
\* when its content changes, and only the controller makes a new one, applying
\* a template of which it has no item in its list.
ItemsEvolve ==
    /\ next' \in Nat /\ next <= next'
    /\ \A i \in Items : di'[i].live =>
          \/ /\ di[i].live /\ di'[i].tmpl = di[i].tmpl
             /\ di[i].gen <= di'[i].gen
             /\ di'[i].gen = di[i].gen => di'[i].spec = di[i].spec
          \/ /\ pc = "apply" /\ pc' = "record"
             /\ loc.items[Order[loc.at]].id = 0
             /\ i = next /\ next' = next + 1
             /\ di'[i] = NewItem(Order[loc.at], loc.tspec[Order[loc.at]])

\* The history of successes only grows, and an item that succeeds is in it.
DoneEvolves ==
    /\ done \subseteq done'
    /\ \A i \in Items : di'[i].live /\ di'[i].phase = "Succeeded" =>
          (di[i].live /\ di[i].phase = "Succeeded") \/ di'[i].tmpl \in done'

\* The informer's copies are older or present states of the items.
CacheEvolves == UNCHANGED citems \/ (citems' = di /\ UNCHANGED di)

Evolution == ItemsEvolve /\ DoneEvolves /\ CacheEvolves

\* An item in the list of the running loop is one of the possible items.
LEMMA ListedItem ==
    ASSUME TypeInv, NEW t \in Names, loc.items[t].id # 0
    PROVE  loc.items[t].id \in Items
<1>1. loc.items \in [Names -> ItemCopies]
  BY DEF TypeInv, TypeOK, LocalVars
<1>2. loc.items[t].id \in 0..MaxItems
  BY <1>1 DEF ItemCopies
<1> QED BY <1>2, BoundsAssumption DEF Items

\* A template does not depend on itself.
LEMMA NoSelfDependency == \A t \in Names : t \notin DependsOn[t]
<1> SUFFICES ASSUME NEW t \in Names, t \in DependsOn[t] PROVE FALSE
  OBVIOUS
<1>1. PICK rank \in [Names -> 1..Len(Order)] :
        \A s \in Names : \A dep \in DependsOn[s] : rank[dep] < rank[s]
  BY DependsOnAssumption
<1>2. rank[t] < rank[t] /\ rank[t] \in Nat
  BY <1>1, OrderFacts
<1> QED BY <1>2

\* Deleting an item leaves its template, content and phase, or nothing at all.
LEMMA DeletedEvolves ==
    ASSUME NEW d \in DeployItems, Deleted(d).live
    PROVE  /\ d.live /\ Deleted(d).tmpl = d.tmpl /\ d.gen <= Deleted(d).gen
           /\ Deleted(d).phase = d.phase /\ Deleted(d).spec = d.spec
<1>1. d.fin
  BY DEF Deleted, NoItem
<1>2. CASE d.del
  BY <1>1, <1>2 DEF Deleted, DeployItems
<1>3. CASE ~d.del
  <2>1. Deleted(d) = [d EXCEPT !.del = TRUE, !.gen = d.gen + 1]
    BY <1>1, <1>3 DEF Deleted
  <2> QED BY <2>1 DEF DeployItems
<1> QED BY <1>2, <1>3

\* A step that leaves the items alone.
LEMMA SameItems ==
    ASSUME TypeInv, UNCHANGED <<di, next, done>>
    PROVE  ItemsEvolve /\ DoneEvolves
BY DEF ItemsEvolve, DoneEvolves, TypeInv, TypeOK, DeployItems

\* A step that replaces items by what becomes of them.
LEMMA ChangedItems ==
    ASSUME TypeInv, UNCHANGED <<next>>, done \subseteq done',
           \A i \in Items : di'[i].live =>
              /\ di[i].live /\ di'[i].tmpl = di[i].tmpl /\ di[i].gen <= di'[i].gen
              /\ di'[i].gen = di[i].gen => di'[i].spec = di[i].spec
              /\ di'[i].phase = "Succeeded" =>
                    di[i].phase = "Succeeded" \/ di'[i].tmpl \in done'
    PROVE  ItemsEvolve /\ DoneEvolves
BY DEF ItemsEvolve, DoneEvolves, TypeInv, TypeOK

\* The steps of the controller: only ApplyItem makes a new item.
LEMMA ControllerEvolution ==
    ASSUME TypeInv, Controller
    PROVE  Evolution
<1>1. CASE \/ Get \/ ResetPhase \/ DropOperation \/ ForceReset \/ Recheck
           \/ AddFinalizer \/ LoopItem \/ EndLoop
           \/ RecordItem \/ RemoveForce \/ DeleteList \/ RemoveFinalizer
           \/ HandleError
  <2>1. UNCHANGED <<di, next, done, caches>>
    BY <1>1 DEF Get, ResetPhase, DropOperation, ForceReset, Recheck,
       AddFinalizer, LoopItem, EndLoop, RecordItem, RemoveForce, DeleteList,
       RemoveFinalizer, HandleError, Update, LocalStep, Continue, server
  <2> QED BY <2>1, SameItems DEF Evolution, CacheEvolves, caches
<1>2. CASE ExportAgain \/ Export
  <2>1. UNCHANGED <<di, next, done>> /\ (UNCHANGED caches \/ citems' = di)
    BY <1>2 DEF ExportAgain, Export, Restart
  <2> QED BY <2>1, SameItems DEF Evolution, CacheEvolves, caches
<1>3. CASE ListItems
  <2> DEFINE orphans(a) == Orphans(a, ViewItems)
             doomed(a) == {i \in orphans(a) : /\ ~ViewItems[i].del
                                              /\ GCDeletable(i, orphans(a), ViewItems)}
  <2>1. PICK a \in Assignments(ViewItems) :
          di' = [i \in Items |-> IF i \in doomed(a) /\ di[i].live
                                 THEN Deleted(di[i]) ELSE di[i]]
    BY <1>3, Zenon DEF ListItems
  <2> HIDE DEF orphans, doomed
  <2>2. UNCHANGED <<next, done, caches>>
    BY <1>3 DEF ListItems, Continue
  <2>3. ASSUME NEW i \in Items, di'[i].live
        PROVE  /\ di[i].live /\ di'[i].tmpl = di[i].tmpl /\ di[i].gen <= di'[i].gen
               /\ di'[i].phase = di[i].phase /\ di'[i].spec = di[i].spec
    <3>1. di[i] \in DeployItems /\ di[i].gen \in Nat
      BY DEF TypeInv, TypeOK, DeployItems
    <3>2. di'[i] = Deleted(di[i]) \/ di'[i] = di[i]
      BY <2>1
    <3> QED BY <2>3, <3>1, <3>2, DeletedEvolves
  <2>4. ItemsEvolve /\ DoneEvolves
    BY <2>2, <2>3, ChangedItems
  <2> QED BY <2>2, <2>4 DEF Evolution, CacheEvolves, caches
<1>4. CASE ApplyItem
  <2> DEFINE t == Order[loc.at]
             i == loc.items[t].id
             version == loc.tspec[t]
  <2>1. UNCHANGED <<done, caches>> /\ pc = "apply"
    BY <1>4 DEF ApplyItem, Continue
  <2>2. CASE /\ i = 0 /\ next <= MaxItems
             /\ di' = [di EXCEPT ![next] = NewItem(t, version)]
             /\ next' = next + 1 /\ pc' = "record"
    <3>1. next \in Items /\ next' \in Nat /\ next <= next'
      BY <2>2, BoundsAssumption DEF Items, TypeInv, TypeOK
    <3>2. di'[next] = NewItem(t, version)
          /\ \A j \in Items \ {next} : di'[j] = di[j]
      BY <2>2, <3>1 DEF TypeInv, TypeOK
    <3>3. NewItem(t, version).phase = NoPhase
      BY DEF NewItem, NoItem
    <3>4. ItemsEvolve
      <4>1. ASSUME NEW j \in Items \ {next}, di'[j].live
            PROVE  /\ di[j].live /\ di'[j].tmpl = di[j].tmpl
                   /\ di[j].gen <= di'[j].gen /\ di'[j].spec = di[j].spec
        <5>1. di'[j] = di[j]
          BY <3>2
        <5>2. di[j].gen \in Nat
          BY DEF TypeInv, TypeOK, DeployItems
        <5> QED BY <4>1, <5>1, <5>2
      <4>2. /\ pc = "apply" /\ pc' = "record" /\ next' = next + 1
            /\ loc.items[Order[loc.at]].id = 0
            /\ di'[next] = NewItem(Order[loc.at], loc.tspec[Order[loc.at]])
        BY <2>1, <2>2, <3>2
      <4> QED BY <3>1, <4>1, <4>2 DEF ItemsEvolve
    <3>5. DoneEvolves
      BY <2>1, <3>1, <3>2, <3>3 DEF DoneEvolves, NoPhase
    <3>6. CacheEvolves
      BY <2>1 DEF CacheEvolves, caches
    <3> QED BY <3>4, <3>5, <3>6 DEF Evolution
  <2>3. CASE /\ i # 0 /\ ViewItems[i].live /\ ViewItems[i] = di[i]
             /\ di' = [di EXCEPT ![i] = Triggered(di[i], version)]
             /\ next' = next
    <3>1. i \in Items
      <4>1. loc.at \in 1..(Len(Order) + 1) /\ loc.at <= Len(Order)
        BY <2>1 DEF InLoop, TypeInv, TypeOK, LocalVars
      <4>2. t \in Names
        BY <4>1, OrderFacts
      <4>3. i # 0
        BY <2>3
      <4> QED BY <4>2, <4>3, ListedItem
    <3>2. di[i] \in DeployItems /\ di[i].live
      BY <2>3, <3>1 DEF TypeInv, TypeOK
    <3> HIDE DEF i, version, t
    <3>3. /\ Triggered(di[i], version).tmpl = di[i].tmpl
          /\ di[i].gen <= Triggered(di[i], version).gen
          /\ Triggered(di[i], version).phase = di[i].phase
          /\ Triggered(di[i], version).gen = di[i].gen =>
                Triggered(di[i], version).spec = di[i].spec
      BY <3>2 DEF Triggered, DeployItems
    <3>4. \A j \in Items : di'[j] = IF j = i THEN Triggered(di[i], version) ELSE di[j]
      BY <2>3, <3>1 DEF TypeInv, TypeOK
    <3>5. \A j \in Items : di[j].gen \in Nat
      BY DEF TypeInv, TypeOK, DeployItems
    <3>6. ItemsEvolve /\ DoneEvolves
      BY <2>1, <2>3, <3>2, <3>3, <3>4, <3>5, ChangedItems
    <3> QED BY <2>1, <3>6 DEF Evolution, CacheEvolves, caches
  <2>4. CASE UNCHANGED <<di, next>>
    BY <2>1, <2>4, SameItems DEF Evolution, CacheEvolves, caches
  <2> QED BY <1>4, <2>2, <2>3, <2>4, Zenon DEF ApplyItem, Goto
<1>5. CASE DeleteItem
  <2> DEFINE d == loc.items[Order[loc.at]]
  <2>1. UNCHANGED <<next, done, caches>>
        /\ (UNCHANGED di \/ di' = [di EXCEPT ![d.id] = Deleted(di[d.id])])
    BY <1>5 DEF DeleteItem, Continue
  <2>2. ASSUME NEW i \in Items, di'[i].live
        PROVE  /\ di[i].live /\ di'[i].tmpl = di[i].tmpl /\ di[i].gen <= di'[i].gen
               /\ di'[i].phase = di[i].phase /\ di'[i].spec = di[i].spec
    <3>1. di[i] \in DeployItems /\ di[i].gen \in Nat
      BY DEF TypeInv, TypeOK, DeployItems
    <3>2. di'[i] = Deleted(di[i]) \/ di'[i] = di[i]
      BY <2>1 DEF TypeInv, TypeOK
    <3> QED BY <2>2, <3>1, <3>2, DeletedEvolves
  <2>3. ItemsEvolve /\ DoneEvolves
    BY <2>1, <2>2, ChangedItems
  <2> QED BY <2>1, <2>3 DEF Evolution, CacheEvolves, caches
<1> QED BY <1>1, <1>2, <1>3, <1>4, <1>5 DEF Controller

\* What deployers, users and timeouts make of a deploy item.
LEMMA SetItemEvolution ==
    ASSUME TypeInv, NEW i \in Items, NEW d, SetItem(i, d), done \subseteq done',
           d.live => /\ di[i].live /\ d.tmpl = di[i].tmpl /\ di[i].gen <= d.gen
                     /\ d.spec = di[i].spec
                     /\ d.phase = "Succeeded" =>
                           di[i].phase = "Succeeded" \/ d.tmpl \in done'
    PROVE  Evolution
<1>1. UNCHANGED <<next, caches>>
  BY DEF SetItem, Others
<1>2. \A j \in Items : di'[j] = IF j = i THEN d ELSE di[j]
  BY DEF SetItem, TypeInv, TypeOK
<1>3. \A j \in Items : di[j].gen \in Nat
  BY DEF TypeInv, TypeOK, DeployItems
<1>4. ItemsEvolve /\ DoneEvolves
  BY <1>1, <1>2, <1>3, ChangedItems
<1> QED BY <1>1, <1>4 DEF Evolution, CacheEvolves, caches

\* The steps of deployers, users, timeouts and the garbage collector.
LEMMA ItemEvolution ==
    ASSUME TypeInv, NEW i \in Items,
           \/ Deployer(i) \/ CollectGarbage(i)
           \/ RetryItem(i) \/ RemoveItem(i) \/ PickupTimeout(i) \/ ItemFails(i)
    PROVE  Evolution
<1>0. di[i] \in DeployItems
  BY DEF TypeInv, TypeOK
<1>1. CASE Pickup(i)
  <2>1. PICK d : /\ d = [di[i] EXCEPT !.obs = di[i].gen, !.phase = "Init", !.pickup = FALSE]
                 /\ SetItem(i, d) /\ di[i].live /\ done' = done
    BY <1>1 DEF Pickup
  <2>2. d.tmpl = di[i].tmpl /\ di[i].gen <= d.gen /\ d.spec = di[i].spec
        /\ d.phase = "Init"
    BY <1>0, <2>1 DEF DeployItems
  <2> QED BY <2>1, <2>2, SetItemEvolution
<1>2. CASE Begin(i)
  <2>1. PICK d : /\ d = [di[i] EXCEPT !.op = "none", !.fin = TRUE, !.phase = "Progressing"]
                 /\ SetItem(i, d) /\ di[i].live /\ done' = done
    BY <1>2 DEF Begin, PickedUp
  <2>2. d.tmpl = di[i].tmpl /\ di[i].gen <= d.gen /\ d.spec = di[i].spec
        /\ d.phase = "Progressing"
    BY <1>0, <2>1 DEF DeployItems
  <2> QED BY <2>1, <2>2, SetItemEvolution
<1>3. CASE Succeed(i)
  <2>1. PICK d : /\ d = [di[i] EXCEPT !.phase = "Succeeded", !.out = di[i].spec]
                 /\ SetItem(i, d) /\ di[i].live /\ done' = done \cup {di[i].tmpl}
    BY <1>3 DEF Succeed, Working, PickedUp
  <2>2. d.tmpl = di[i].tmpl /\ di[i].gen <= d.gen /\ d.spec = di[i].spec
    BY <1>0, <2>1 DEF DeployItems
  <2>3. done \subseteq done' /\ d.tmpl \in done'
    BY <2>1, <2>2
  <2> QED BY <2>1, <2>2, <2>3, SetItemEvolution
<1>4. CASE Release(i)
  BY <1>4, SetItemEvolution DEF Release, NoItem
<1>5. CASE CollectGarbage(i) \/ RemoveItem(i)
  <2>1. PICK d : d = Deleted(di[i]) /\ SetItem(i, d) /\ done' = done
    BY <1>5 DEF CollectGarbage, RemoveItem
  <2> QED BY <1>0, <2>1, DeletedEvolves, SetItemEvolution
<1>6. CASE RetryItem(i)
  <2>1. PICK d : /\ d = [di[i] EXCEPT !.op = "reconcile"]
                 /\ SetItem(i, d) /\ di[i].live /\ done' = done
    BY <1>6 DEF RetryItem
  <2>2. d.tmpl = di[i].tmpl /\ di[i].gen <= d.gen /\ d.spec = di[i].spec
        /\ d.phase = di[i].phase
    BY <1>0, <2>1 DEF DeployItems
  <2> QED BY <2>1, <2>2, SetItemEvolution
<1>7. CASE PickupTimeout(i)
  <2>1. PICK d : /\ d = [di[i] EXCEPT !.phase = "Failed", !.pickup = TRUE]
                 /\ SetItem(i, d) /\ di[i].live /\ done' = done
    BY <1>7 DEF PickupTimeout
  <2>2. d.tmpl = di[i].tmpl /\ di[i].gen <= d.gen /\ d.spec = di[i].spec
        /\ d.phase = "Failed"
    BY <1>0, <2>1 DEF DeployItems
  <2> QED BY <2>1, <2>2, SetItemEvolution
<1>8. CASE ItemFails(i)
  <2>1. PICK d : /\ d = [di[i] EXCEPT !.phase = "Failed", !.op = "none"]
                 /\ SetItem(i, d) /\ di[i].live /\ done' = done
    BY <1>8 DEF ItemFails, Working, PickedUp
  <2>2. d.tmpl = di[i].tmpl /\ di[i].gen <= d.gen /\ d.spec = di[i].spec
        /\ d.phase = "Failed"
    BY <1>0, <2>1 DEF DeployItems
  <2> QED BY <2>1, <2>2, SetItemEvolution
<1> QED BY <1>1, <1>2, <1>3, <1>4, <1>5, <1>6, <1>7, <1>8 DEF Deployer

\* Every step changes the deploy items in this way.
LEMMA StepEvolution == TypeInv /\ [Next]_vars => Evolution
<1> SUFFICES ASSUME TypeInv, [Next]_vars PROVE Evolution
  OBVIOUS
<1>1. CASE Controller
  BY <1>1, ControllerEvolution
<1>2. CASE \E i \in Items :
             \/ Deployer(i) \/ CollectGarbage(i)
             \/ RetryItem(i) \/ RemoveItem(i) \/ PickupTimeout(i) \/ ItemFails(i)
  BY <1>2, ItemEvolution
<1>3. CASE SyncExec \/ (\E op \in {"reconcile", "force"} : EnsureExecution(op))
           \/ DeleteExecution \/ CallFails \/ UNCHANGED vars
  <2>1. UNCHANGED <<di, next, done, citems>>
    BY <1>3 DEF SyncExec, EnsureExecution, DeleteExecution, CallFails, server,
                caches, vars
  <2> QED BY <2>1, SameItems DEF Evolution, CacheEvolves
<1>4. CASE SyncItems \/ Crash
  <2>1. UNCHANGED <<di, next, done>> /\ citems' = di
    BY <1>4 DEF SyncItems, Crash, Restart, server
  <2> QED BY <2>1, SameItems DEF Evolution, CacheEvolves
<1> QED BY <1>1, <1>2, <1>3, <1>4 DEF Next, Environment

-----------------------------------------------------------------------------
(* Ordered creation.                                                       *)

\* Places where loc.items is the list that the loop looks at.
Looping == {"loop", "apply", "record"}

\* Live items have names that were given out, and every copy of an item that
\* the informer or the running Reconcile holds agrees with it on the template.
Identities ==
    /\ \A i \in Items : di[i].live => i < next
    /\ \A i \in Items : citems[i].live =>
          i < next /\ (di[i].live => di[i].tmpl = citems[i].tmpl)

\* Whoever sees a Succeeded item has seen a member of the history.
Evidence ==
    /\ \A i \in Items : di[i].live /\ di[i].phase = "Succeeded" =>
          di[i].tmpl \in done
    /\ \A i \in Items : citems[i].live /\ citems[i].phase = "Succeeded" =>
          citems[i].tmpl \in done

LoopEvidence ==
    pc \in Looping => \A t \in Names : loc.items[t].id # 0 =>
        /\ loc.items[t].id < next
        /\ di[loc.items[t].id].live => di[loc.items[t].id].tmpl = t
        /\ loc.items[t].phase = "Succeeded" => t \in done

\* What checkRunnable has found out is still true when the item is applied.
ApplyEvidence == pc = "apply" => DependsOn[Order[loc.at]] \subseteq done

OrderInv ==
    /\ TypeInv /\ OrderedCreation
    /\ Identities /\ Evidence /\ LoopEvidence /\ ApplyEvidence

\* There are no items and no evidence at the beginning.
LEMMA OrderInit == Init => OrderInv
<1> SUFFICES ASSUME Init PROVE OrderInv
  OBVIOUS
<1>1. \A i \in Items : ~di[i].live /\ ~citems[i].live
  BY DEF Init, NoItem
<1>2. pc \notin Looping
  BY DEF Init, Looping
<1> QED
  BY <1>1, <1>2, TypeInit
     DEF OrderInv, OrderedCreation, Identities, Evidence, LoopEvidence,
         ApplyEvidence, Looping

\* The parts of the invariant about the objects follow from how they evolve.
LEMMA ObjectStep ==
    ASSUME OrderInv, Evolution, TypeInv'
    PROVE  OrderedCreation' /\ Identities' /\ Evidence'
<1> USE DEF OrderInv
<1>0. /\ next \in Nat /\ next' \in Nat /\ next <= next' /\ done \subseteq done'
      /\ Items \subseteq Nat
  BY BoundsAssumption
     DEF Evolution, ItemsEvolve, DoneEvolves, Items, TypeInv, TypeOK
<1>1. OrderedCreation'
  <2> SUFFICES ASSUME NEW i \in Items, di'[i].live
               PROVE  DependsOn[di'[i].tmpl] \subseteq done'
    BY DEF OrderedCreation
  <2>1. CASE di[i].live /\ di'[i].tmpl = di[i].tmpl
    BY <1>0, <2>1 DEF OrderedCreation
  <2>2. CASE pc = "apply" /\ di'[i] = NewItem(Order[loc.at], loc.tspec[Order[loc.at]])
    <3>1. di'[i].tmpl = Order[loc.at]
      BY <2>2 DEF NewItem, NoItem
    <3> QED BY <1>0, <2>2, <3>1 DEF ApplyEvidence
  <2> QED BY <2>1, <2>2 DEF Evolution, ItemsEvolve
<1>2. Identities'
  <2>1. ASSUME NEW i \in Items, di'[i].live
        PROVE  i < next'
    BY <1>0, <2>1 DEF Evolution, ItemsEvolve, Identities
  <2>2. ASSUME NEW i \in Items, citems'[i].live
        PROVE  i < next' /\ (di'[i].live => di'[i].tmpl = citems'[i].tmpl)
    <3>1. CASE citems' = di /\ UNCHANGED di
      BY <1>0, <2>2, <3>1 DEF Identities
    <3>2. CASE UNCHANGED citems
      <4>1. i < next /\ (di[i].live => di[i].tmpl = citems[i].tmpl)
        BY <2>2, <3>2 DEF Identities
      <4>2. di'[i].live => di[i].live /\ di'[i].tmpl = di[i].tmpl
        BY <1>0, <4>1 DEF Evolution, ItemsEvolve
      <4> QED BY <1>0, <3>2, <4>1, <4>2
    <3> QED BY <3>1, <3>2 DEF Evolution, CacheEvolves
  <2> QED BY <2>1, <2>2 DEF Identities
<1>3. Evidence'
  <2>1. ASSUME NEW i \in Items, di'[i].live, di'[i].phase = "Succeeded"
        PROVE  di'[i].tmpl \in done'
    <3>1. CASE di'[i].tmpl \in done'
      BY <3>1
    <3>2. CASE di[i].live /\ di[i].phase = "Succeeded"
      <4>1. i < next
        BY <3>2 DEF Identities
      <4>2. di'[i].tmpl = di[i].tmpl
        BY <1>0, <2>1, <4>1 DEF Evolution, ItemsEvolve
      <4> QED BY <1>0, <3>2, <4>2 DEF Evidence
    <3> QED BY <2>1, <3>1, <3>2 DEF Evolution, DoneEvolves
  <2>2. ASSUME NEW i \in Items, citems'[i].live, citems'[i].phase = "Succeeded"
        PROVE  citems'[i].tmpl \in done'
    BY <1>0, <2>2 DEF Evolution, CacheEvolves, Evidence
  <2> QED BY <2>1, <2>2 DEF Evidence
<1> QED BY <1>1, <1>2, <1>3

\* Where a run may go on in the loop.
LEMMA LoopSteps ==
    ASSUME TypeInv, [Next]_vars
    PROVE  \/ pc' \notin Looping
           \/ UNCHANGED <<pc, loc, l>>
           \/ ListItems \/ LoopItem \/ ApplyItem \/ RecordItem
<1>1. CASE Get \/ ResetPhase \/ DropOperation \/ ForceReset \/ AddFinalizer
  BY <1>1 DEF Get, ResetPhase, DropOperation, ForceReset, AddFinalizer, Update,
     AfterReset, PhaseGate, Ensure, Looping, TypeInv, TypeOK
<1>2. CASE Recheck \/ ExportAgain \/ Export \/ HandleError \/ Crash \/ CallFails
  BY <1>2 DEF Recheck, ExportAgain, Export, HandleError, Crash, CallFails,
     Return, Restart, Ensure, Fail, Goto, Looping
<1>3. CASE EndLoop \/ RemoveForce \/ DeleteList \/ DeleteItem \/ RemoveFinalizer
  BY <1>3 DEF EndLoop, RemoveForce, DeleteList, DeleteItem, RemoveFinalizer,
     AfterLoop, Fail, Goto, Looping
<1>4. CASE \E i \in Items :
             \/ Deployer(i) \/ CollectGarbage(i)
             \/ RetryItem(i) \/ RemoveItem(i) \/ PickupTimeout(i) \/ ItemFails(i)
  BY <1>4 DEF Deployer, Pickup, Begin, Succeed, Release, CollectGarbage,
     RetryItem, RemoveItem, PickupTimeout, ItemFails, SetItem, Others
<1>5. CASE \/ SyncExec \/ SyncItems \/ DeleteExecution \/ UNCHANGED vars
           \/ \E op \in {"reconcile", "force"} : EnsureExecution(op)
  BY <1>5 DEF SyncExec, SyncItems, DeleteExecution, EnsureExecution, vars
<1> QED
  BY <1>1, <1>2, <1>3, <1>4, <1>5 DEF Next, Controller, Environment

\* A list of items that was good evidence stays good evidence.
LEMMA KeptEvidence ==
    ASSUME OrderInv, Evolution, NEW i \in Items, NEW t \in Names,
           i < next, di[i].live => di[i].tmpl = t
    PROVE  i < next' /\ (di'[i].live => di'[i].tmpl = t)
<1>1. /\ next \in Nat /\ next' \in Nat /\ next <= next' /\ i \in Nat
  BY BoundsAssumption
     DEF Evolution, ItemsEvolve, Items, OrderInv, TypeInv, TypeOK
<1>2. di'[i].live => di[i].live /\ di'[i].tmpl = di[i].tmpl
  BY <1>1 DEF Evolution, ItemsEvolve
<1> QED BY <1>1, <1>2

\* The copies the loop decides on stay backed by the history.
LEMMA LoopEvidenceStep ==
    ASSUME OrderInv, [Next]_vars, Evolution
    PROVE  LoopEvidence'
<1> USE DEF OrderInv
<1>0. done \subseteq done'
  BY DEF Evolution, DoneEvolves
<1>1. ASSUME pc \in Looping, loc'.items = loc.items
      PROVE  LoopEvidence'
  <2> SUFFICES ASSUME NEW t \in Names, loc'.items[t].id # 0
               PROVE  /\ loc'.items[t].id < next'
                      /\ di'[loc'.items[t].id].live => di'[loc'.items[t].id].tmpl = t
                      /\ loc'.items[t].phase = "Succeeded" => t \in done'
    BY DEF LoopEvidence
  <2>1. loc.items[t].id \in Items
    BY <1>1, ListedItem
  <2> QED BY <1>0, <1>1, <2>1, KeptEvidence DEF LoopEvidence
<1>2. CASE pc' \notin Looping
  BY <1>2 DEF LoopEvidence
<1>3. CASE UNCHANGED <<pc, loc>>
  BY <1>1, <1>2, <1>3
<1>4. CASE LoopItem
  <2>1. loc'.items = loc.items
    BY <1>4 DEF LoopItem, FollowItem, FailWithItem, NextItem, TypeInv, TypeOK, LocalVars
  <2> QED BY <1>1, <1>4, <2>1 DEF LoopItem, Looping
<1>5. CASE RecordItem
  <2>1. loc'.items = loc.items
    BY <1>5 DEF RecordItem, Fail, TypeInv, TypeOK, LocalVars
  <2> QED BY <1>1, <1>5, <2>1 DEF RecordItem, Looping
<1>6. CASE ListItems
  <2>1. PICK a \in Assignments(ViewItems) : loc'.items = Copies(a, ViewItems)
    <3> DEFINE x(a) == Orphans(a, ViewItems) # {}
    <3>1. PICK a \in Assignments(ViewItems) :
            loc' = [loc EXCEPT !.force = (l.op = "force"), !.tspec = l.spec,
                               !.items = Copies(a, ViewItems), !.at = 1,
                               !.acc = NoPhase, !.err = x(a)]
      BY <1>6, Zenon DEF ListItems
    <3> HIDE DEF x
    <3> QED BY <3>1 DEF TypeInv, TypeOK, LocalVars
  <2> SUFFICES ASSUME NEW t \in Names, loc'.items[t].id # 0
               PROVE  /\ loc'.items[t].id < next'
                      /\ di'[loc'.items[t].id].live => di'[loc'.items[t].id].tmpl = t
                      /\ loc'.items[t].phase = "Succeeded" => t \in done'
    BY DEF LoopEvidence
  <2>2. /\ a[t] \in Items /\ ViewItems[a[t]].live /\ ViewItems[a[t]].tmpl = t
        /\ loc'.items[t].id = a[t] /\ loc'.items[t].phase = ViewItems[a[t]].phase
    BY <2>1, BoundsAssumption DEF Assignments, Copies, Copy, Missing, Items
  <2>3. /\ a[t] < next /\ (di[a[t]].live => di[a[t]].tmpl = t)
        /\ ViewItems[a[t]].phase = "Succeeded" => t \in done
    BY <2>2 DEF ViewItems, Identities, Evidence
  <2> QED BY <1>0, <2>2, <2>3, KeptEvidence
<1>7. CASE ApplyItem
  <2> DEFINE t == Order[loc.at]
             i == loc.items[t].id
             d == Triggered(di[i], loc.tspec[t])
  <2>0. pc = "apply" /\ t \in Names
    <3>1. pc = "apply" /\ loc.at \in 1..(Len(Order) + 1)
      BY <1>7 DEF ApplyItem, TypeInv, TypeOK, LocalVars
    <3>2. loc.at <= Len(Order)
      BY <3>1 DEF InLoop, TypeInv
    <3> QED BY <3>1, <3>2, OrderFacts
  <2>1. CASE loc' = [loc EXCEPT !.ref = [id |-> next, gen |-> 1]] \/ Fail
    <3>1. loc'.items = loc.items
      BY <2>1 DEF Fail, TypeInv, TypeOK, LocalVars
    <3> QED BY <1>1, <2>0, <3>1 DEF Looping
  <2>2. CASE /\ i # 0 /\ ViewItems[i].live /\ ViewItems[i] = di[i]
             /\ loc' = [loc EXCEPT !.ref = [id |-> i, gen |-> d.gen],
                                   !.items[t] = Copy(i, d)]
    <3>1. i \in Items
      <4>1. i # 0
        BY <2>2
      <4> QED BY <2>0, <4>1, ListedItem
    <3>2. /\ i < next /\ di[i].live /\ di[i].tmpl = t
          /\ di[i].phase = "Succeeded" => t \in done
      BY <2>0, <2>2, <3>1 DEF LoopEvidence, Looping, Evidence
    <3>3. loc'.items = [loc.items EXCEPT ![t] = Copy(i, d)]
      BY <2>2 DEF TypeInv, TypeOK, LocalVars
    <3>4. Copy(i, d).id = i /\ Copy(i, d).phase = di[i].phase
      <4>1. di[i] \in DeployItems
        BY <3>1 DEF TypeInv, TypeOK
      <4>2. d.phase = di[i].phase
        BY <4>1 DEF Triggered, DeployItems
      <4> QED BY <4>2 DEF Copy
    <3> HIDE DEF d, i, t
    <3> SUFFICES ASSUME NEW s \in Names, loc'.items[s].id # 0
                 PROVE  /\ loc'.items[s].id < next'
                        /\ di'[loc'.items[s].id].live => di'[loc'.items[s].id].tmpl = s
                        /\ loc'.items[s].phase = "Succeeded" => s \in done'
      BY DEF LoopEvidence
    <3>5. loc'.items[s] = IF s = t THEN Copy(i, d) ELSE loc.items[s]
      BY <3>3 DEF TypeInv, TypeOK, LocalVars
    <3>6. CASE s = t
      BY <1>0, <2>0, <3>1, <3>2, <3>4, <3>5, <3>6, KeptEvidence
    <3>7. CASE s # t
      <4>1. loc.items[s].id \in Items
        <5>1. loc.items[s].id # 0
          BY <3>5, <3>7
        <5> QED BY <5>1, ListedItem
      <4> QED BY <1>0, <2>0, <3>5, <3>7, <4>1, KeptEvidence DEF LoopEvidence, Looping
    <3> QED BY <3>6, <3>7
  <2> QED BY <1>7, <2>1, <2>2, Zenon DEF ApplyItem
<1> QED BY <1>2, <1>3, <1>4, <1>5, <1>6, <1>7, LoopSteps

\* The loop turns to apply only when the dependencies have succeeded.
LEMMA ApplyEvidenceStep ==
    ASSUME OrderInv, [Next]_vars, Evolution
    PROVE  ApplyEvidence'
<1> USE DEF OrderInv
<1> SUFFICES ASSUME pc' = "apply"
             PROVE  DependsOn[Order[loc'.at]] \subseteq done'
  BY DEF ApplyEvidence
<1>0. done \subseteq done'
  BY DEF Evolution, DoneEvolves
<1>1. CASE UNCHANGED <<pc, loc>>
  BY <1>0, <1>1 DEF ApplyEvidence
<1>2. CASE LoopItem
  <2>1. /\ pc = "loop" /\ loc' = loc /\ loc.at <= Len(Order)
        /\ Runnable(Order[loc.at])
    BY <1>2 DEF LoopItem, FollowItem, FailWithItem, Goto
  <2>2. Order[loc.at] \in Names
    <3>1. loc.at \in 1..(Len(Order) + 1)
      BY DEF TypeInv, TypeOK, LocalVars
    <3> QED BY <2>1, <3>1, OrderFacts
  <2>3. \A dep \in DependsOn[Order[loc.at]] : dep \in done
    BY <2>1, <2>2, DependsOnAssumption DEF Runnable, LoopEvidence, Looping
  <2> QED BY <1>0, <2>1, <2>3
<1>3. ~ListItems /\ ~ApplyItem /\ ~RecordItem
  BY DEF ListItems, ApplyItem, RecordItem, Fail, Goto
<1> QED BY <1>1, <1>2, <1>3, LoopSteps DEF Looping

\* The inductive step.
LEMMA OrderStep == OrderInv /\ [Next]_vars => OrderInv'
<1> SUFFICES ASSUME OrderInv, [Next]_vars PROVE OrderInv'
  OBVIOUS
<1>1. TypeInv' /\ Evolution
  BY TypeStep, StepEvolution DEF OrderInv
<1>2. OrderedCreation' /\ Identities' /\ Evidence'
  BY <1>1, ObjectStep
<1>3. LoopEvidence' /\ ApplyEvidence'
  BY <1>1, LoopEvidenceStep, ApplyEvidenceStep
<1> QED BY <1>1, <1>2, <1>3 DEF OrderInv

\* dependsOn orders the creation of deploy items, for every dependency graph,
\* every interleaving and every lag of the caches: the controller creates an
\* item only when it has seen, in a copy that may be outdated but was once
\* true, that items of all templates it depends on have succeeded.
THEOREM CreationIsOrdered == SafetySpec => []OrderedCreation
<1>1. OrderInv => OrderedCreation
  BY DEF OrderInv
<1> QED BY OrderInit, OrderStep, <1>1, PTL DEF SafetySpec
-----------------------------------------------------------------------------
(* One deploy item per template.                                           *)

\* Without a lag of its cache of deploy items the controller lists what there
\* is.  With one, it creates a second item of a template.
FreshItems == "items" \notin Lag

\* The list of the loop is complete for the templates that are still to come:
\* items are created only by the loop itself, each when it is its turn.
ListComplete ==
    pc \in Looping => \A i \in Items, k \in 1..Len(Order) :
        /\ di[i].live /\ di[i].tmpl = Order[k]
        /\ loc.at < k \/ (loc.at = k /\ pc # "record")
        => loc.items[Order[k]].id = i

OneInv == OrderInv /\ OneItemPerTemplate /\ ListComplete

\* A new item has the template it was made for.
LEMMA NewItemTemplate == \A t, version : NewItem(t, version).tmpl = t
BY DEF NewItem, NoItem

\* A new item is the only one of its template.
LEMMA OneItemStep ==
    ASSUME OneInv, Evolution
    PROVE  OneItemPerTemplate'
<1> SUFFICES ASSUME NEW i \in Items, NEW j \in Items, di'[i].live, di'[j].live,
                    di'[i].tmpl = di'[j].tmpl
             PROVE  i = j
  BY DEF OneItemPerTemplate
<1> DEFINE Old(x) == di[x].live /\ di'[x].tmpl = di[x].tmpl
           Made(x) == /\ pc = "apply" /\ loc.items[Order[loc.at]].id = 0
                      /\ x = next /\ di'[x].tmpl = Order[loc.at]
<1>1. (Old(i) \/ Made(i)) /\ (Old(j) \/ Made(j))
  BY NewItemTemplate DEF Evolution, ItemsEvolve
<1>2. ASSUME NEW x \in Items, NEW y \in Items, Old(x), Made(y),
             di'[x].tmpl = di'[y].tmpl
      PROVE  FALSE
  <2>1. loc.at \in 1..Len(Order)
    BY <1>2, OrderFacts DEF OneInv, OrderInv, TypeInv, TypeOK, LocalVars, InLoop
  <2>2. loc.items[Order[loc.at]].id = x
    BY <1>2, <2>1 DEF OneInv, ListComplete, Looping
  <2> QED BY <1>2, <2>2, BoundsAssumption DEF Items
<1>3. CASE Old(i) /\ Old(j)
  BY <1>3 DEF OneInv, OneItemPerTemplate
<1>4. CASE Made(i) /\ Made(j)
  BY <1>4
<1> HIDE DEF Old, Made
<1> QED BY <1>1, <1>2, <1>3, <1>4

\* A list that was complete stays so while the loop goes on to later templates.
LEMMA ListCompleteStep ==
    ASSUME FreshItems, OneInv, [Next]_vars, Evolution, TypeInv'
    PROVE  ListComplete'
<1>a. ListComplete /\ TypeInv
  BY DEF OneInv, OrderInv
<1> SUFFICES ASSUME pc' \in Looping, NEW i \in Items, NEW k \in 1..Len(Order),
                    di'[i].live, di'[i].tmpl = Order[k],
                    loc'.at < k \/ (loc'.at = k /\ pc' # "record")
             PROVE  loc'.items[Order[k]].id = i
  BY DEF ListComplete
<1>0. /\ loc \in LocalVars /\ loc' \in LocalVars
      /\ loc.at \in Nat /\ loc'.at \in Nat /\ k \in Nat
  <2>1. loc \in LocalVars /\ loc' \in LocalVars
    BY <1>a DEF TypeInv, TypeOK
  <2>2. loc.at \in Nat /\ loc'.at \in Nat
    BY <2>1 DEF LocalVars
  <2>3. k \in Nat
    BY OrderFacts
  <2> QED BY <2>1, <2>2, <2>3
<1>1. ASSUME pc \in Looping, pc' # "record", loc'.items = loc.items,
             loc.at < k \/ (loc.at = k /\ pc # "record")
      PROVE  loc'.items[Order[k]].id = i
  <2>1. di[i].live /\ di'[i].tmpl = di[i].tmpl
    BY <1>1 DEF Evolution, ItemsEvolve
  <2>2. di[i].tmpl = Order[k]
    BY <2>1
  <2>3. loc.items[Order[k]].id = i
    BY <1>a, <1>1, <2>1, <2>2 DEF ListComplete
  <2> QED BY <1>1, <2>3
<1>2. CASE UNCHANGED <<pc, loc>>
  <2>1. di[i].live /\ di'[i].tmpl = di[i].tmpl
    BY <1>2 DEF Evolution, ItemsEvolve
  <2> QED BY <1>a, <1>2, <2>1 DEF ListComplete
<1>3. CASE LoopItem
  <2>1. /\ loc'.items = loc.items /\ pc = "loop" /\ pc' # "record"
        /\ loc'.at \in {loc.at, loc.at + 1}
    BY <1>0, <1>3, ZenonT(40)
       DEF LoopItem, FollowItem, FailWithItem, NextItem, Goto, LocalVars
  <2> QED BY <1>0, <1>1, <2>1 DEF Looping
<1>4. CASE RecordItem
  <2>1. /\ loc'.items = loc.items /\ pc = "record" /\ pc' = "loop"
        /\ loc'.at = loc.at + 1
    BY <1>0, <1>4 DEF RecordItem, Fail, Goto, Looping, LocalVars
  <2> QED BY <1>0, <1>1, <2>1 DEF Looping
<1>5. CASE ListItems
  <2>1. PICK a \in Assignments(di) :
          /\ loc'.items = Copies(a, di) /\ Orphans(a, di) = {}
    <3>1. PICK a \in Assignments(ViewItems) :
            /\ loc' = [loc EXCEPT !.force = (l.op = "force"),
                                  !.tspec = l.spec,
                                  !.items = Copies(a, ViewItems),
                                  !.at = 1,
                                  !.acc = NoPhase,
                                  !.err = (Orphans(a, ViewItems) # {})]
            /\ pc' = IF Orphans(a, ViewItems) = {} THEN "loop" ELSE "finish"
      BY <1>5, Zenon DEF ListItems
    <3>2. loc'.items = Copies(a, ViewItems)
      BY <1>0, <3>1 DEF LocalVars
    <3>3. Orphans(a, ViewItems) = {}
      BY <3>1 DEF Looping
    <3> QED BY <3>2, <3>3 DEF ViewItems, FreshItems
  <2>2. di[i].live /\ di'[i].tmpl = di[i].tmpl
    <3>1. pc # "apply"
      BY <1>5 DEF ListItems
    <3> QED BY <3>1 DEF Evolution, ItemsEvolve
  <2>3. PICK t \in Names : a[t] = i
    BY <2>1, <2>2 DEF Orphans
  <2>4. i # 0 /\ di[i].tmpl = t
    BY <2>1, <2>3, BoundsAssumption DEF Assignments, Items
  <2> QED BY <2>1, <2>2, <2>3, <2>4 DEF Copies, Copy
<1>6. CASE ApplyItem
  <2>1. pc = "apply" /\ pc' = "record" /\ loc'.at = loc.at
        /\ \/ loc'.items = loc.items
           \/ \E c : /\ loc'.items = [loc.items EXCEPT ![Order[loc.at]] = c]
    <3> DEFINE t == Order[loc.at]
               j == loc.items[t].id
               d == Triggered(di[j], loc.tspec[t])
    <3>1. pc = "apply" /\ pc' = "record"
      BY <1>6, Zenon DEF ApplyItem, Looping, Fail, Goto
    <3>2. \/ loc' = [loc EXCEPT !.ref = [id |-> next, gen |-> 1]]
          \/ loc' = [loc EXCEPT !.ref = [id |-> j, gen |-> d.gen],
                                !.items[t] = Copy(j, d)]
      BY <1>6, <3>1, Zenon DEF ApplyItem, Fail, Goto
    <3> HIDE DEF d, j
    <3> QED BY <1>0, <3>1, <3>2, ZenonT(40) DEF LocalVars
  <2>2. k # loc.at /\ loc.at < k
    BY <1>0, <2>1
  <2>3. Order[k] # Order[loc.at] /\ Order[k] \in Names
    <3>1. loc.at \in 1..Len(Order)
      BY <1>0, <2>2, OrderFacts DEF LocalVars
    <3> QED BY <2>2, <3>1, OrderAssumption, OrderFacts
  <2>4. loc'.items[Order[k]] = loc.items[Order[k]]
    <3>1. loc.items \in [Names -> ItemCopies]
      BY <1>0 DEF LocalVars
    <3> QED BY <2>1, <2>3, <3>1
  <2>5. di[i].live /\ di'[i].tmpl = di[i].tmpl
    BY <2>3, NewItemTemplate DEF Evolution, ItemsEvolve
  <2>6. di[i].tmpl = Order[k]
    BY <2>5
  <2>7. loc.items[Order[k]].id = i
    BY <1>a, <2>1, <2>2, <2>5, <2>6 DEF ListComplete, Looping
  <2> QED BY <2>4, <2>7
<1> QED BY <1>2, <1>3, <1>4, <1>5, <1>6, LoopSteps DEF OneInv, OrderInv

\* The invariant is inductive.
LEMMA OneInvStep == ASSUME FreshItems PROVE OneInv /\ [Next]_vars => OneInv'
<1> SUFFICES ASSUME OneInv, [Next]_vars PROVE OneInv'
  OBVIOUS
<1>1. OrderInv' /\ TypeInv' /\ Evolution
  BY OrderStep, StepEvolution DEF OneInv, OrderInv
<1> QED BY <1>1, OneItemStep, ListCompleteStep DEF OneInv

\* There are no items at the beginning.
LEMMA OneInvInit == Init => OneInv
<1> SUFFICES ASSUME Init PROVE OneInv
  OBVIOUS
<1>1. pc \notin Looping /\ \A i \in Items : ~di[i].live
  BY DEF Init, NoItem, Looping
<1> QED BY <1>1, OrderInit DEF OneInv, OneItemPerTemplate, ListComplete

\* A template has at most one deploy item, for every set of templates and every
\* event, when the cache of deploy items does not lag: deployOrTrigger creates
\* an item only of a template without one in the list, and between the list and
\* the creation nobody else creates one.
THEOREM OneItem == ASSUME FreshItems PROVE SafetySpec => []OneItemPerTemplate
<1>1. OneInv => OneItemPerTemplate
  BY DEF OneInv
<1> QED BY OneInvInit, OneInvStep, <1>1, PTL DEF SafetySpec
-----------------------------------------------------------------------------
(* How a step changes the copies of the execution.                         *)

\* The steps before the decision what to do, those of a rollout, and those of
\* a deletion.
Front == {"reset", "dropOp", "forceReset", "recheck", "rexport", "finalizer"}
Rolling == {"list", "loop", "apply", "record", "unforce", "export"}
Deleting == {"deleteList", "deleteItem"}

\* What users and the finalizer's steps change of an execution, and no others.
SameHead(e, o) ==
    /\ e.live = o.live /\ e.gen = o.gen /\ e.del = o.del /\ e.fin = o.fin
    /\ e.spec = o.spec

\* A copy with the current resource version is the stored object, but for what
\* a refused write has left in memory.
Current ==
    cur => /\ l.live = exec.live /\ l.gen = exec.gen /\ l.del = exec.del
           /\ l.spec = exec.spec
           /\ pc # "finish" => l.fin = exec.fin

\* A step of the others, or one of the run that does not change the head of
\* the execution: where it may lead.
Quiet ==
    /\ SameHead(exec', exec)
    /\ UNCHANGED cexec \/ (cexec' = exec /\ exec' = exec)
    /\ \/ SameHead(l', l) \/ (SameHead(l', exec') /\ pc' \notin Front \cup Deleting)
       \/ pc' = "idle" /\ l' = NewExecution
    /\ pc' \in Front => pc \in Front
    /\ pc' \in Deleting => pc \in Deleting \/ (pc \in Front /\ l.del)
    /\ pc' \in Rolling => pc \in Rolling \/ (pc \in Front /\ l.fin /\ ~l.del)
    /\ Current'

\* The branches of HandleAnnotationsAndGeneration and of Ensure.
LEMMA Branches ==
    ASSUME NEW o, NEW p \in {AfterReset(o), PhaseGate(o), Ensure(o)}
    PROVE  \/ p \in Front
           \/ p = "deleteList" /\ o.del
           \/ p = "list" /\ o.fin /\ ~o.del
BY DEF AfterReset, PhaseGate, Ensure, Front

\* An Update of an object with the same head.
LEMMA QuietUpdate ==
    ASSUME Current, pc \in Front, NEW o, SameHead(o, l), NEW p, Update(o, p),
           \/ p \in Front
           \/ p = "deleteList" /\ o.del
           \/ p = "list" /\ o.fin /\ ~o.del
    PROVE  Quiet
<1>1. l' = o /\ cur' = cur /\ UNCHANGED cexec
      /\ \/ cur /\ exec' = o /\ pc' = p
         \/ UNCHANGED exec /\ pc' = "finish"
  BY DEF Update, caches
<1>2. SameHead(exec', exec) /\ SameHead(l', l) /\ Current'
  BY <1>1 DEF SameHead, Current, Front
<1> QED BY <1>1, <1>2 DEF Quiet, SameHead, Front, Rolling, Deleting

\* The optimistic writes of HandleAnnotationsAndGeneration.
LEMMA QuietFront ==
    ASSUME TypeInv, Current, ResetPhase \/ DropOperation \/ ForceReset
    PROVE  Quiet
<1>0. l \in Executions /\ pc \in Front
  BY DEF TypeInv, TypeOK, ResetPhase, DropOperation, ForceReset, Front
<1>1. CASE ResetPhase
  <2>1. PICK o : /\ o = [l EXCEPT !.obs = l.gen, !.phase = "Init"]
                 /\ Update(o, IF l.op = "reconcile" THEN "dropOp" ELSE AfterReset(o))
    BY <1>1 DEF ResetPhase
  <2>2. SameHead(o, l)
    BY <1>0, <2>1 DEF SameHead, Executions
  <2>3. PICK p : p = (IF l.op = "reconcile" THEN "dropOp" ELSE AfterReset(o))
    OBVIOUS
  <2>4. \/ p \in Front
        \/ p = "deleteList" /\ o.del
        \/ p = "list" /\ o.fin /\ ~o.del
    <3>1. CASE p = "dropOp"
      BY <3>1 DEF Front
    <3>2. CASE p = AfterReset(o)
      BY <3>2, Branches
    <3> QED BY <2>3, <3>1, <3>2
  <2>5. Update(o, p)
    BY <2>1, <2>3
  <2> QED BY <1>0, <2>2, <2>4, <2>5, QuietUpdate
<1>2. CASE DropOperation
  <2>1. PICK o : o = [l EXCEPT !.op = "none"] /\ Update(o, AfterReset(o))
    BY <1>2 DEF DropOperation
  <2>2. SameHead(o, l)
    BY <1>0, <2>1 DEF SameHead, Executions
  <2>3. PICK p : p = AfterReset(o)
    OBVIOUS
  <2>4. /\ Update(o, p)
        /\ \/ p \in Front
           \/ p = "deleteList" /\ o.del
           \/ p = "list" /\ o.fin /\ ~o.del
    BY <2>1, <2>3, Branches
  <2> QED BY <1>0, <2>2, <2>4, QuietUpdate
<1>3. CASE ForceReset
  <2>1. PICK o : o = [l EXCEPT !.phase = "Init"] /\ Update(o, PhaseGate(o))
    BY <1>3 DEF ForceReset
  <2>2. SameHead(o, l)
    BY <1>0, <2>1 DEF SameHead, Executions
  <2>3. PICK p : p = PhaseGate(o)
    OBVIOUS
  <2>4. /\ Update(o, p)
        /\ \/ p \in Front
           \/ p = "deleteList" /\ o.del
           \/ p = "list" /\ o.fin /\ ~o.del
    BY <2>1, <2>3, Branches
  <2> QED BY <1>0, <2>2, <2>4, QuietUpdate
<1> QED BY <1>1, <1>2, <1>3

\* HandleDeployItemPhaseAndGenerationChanges.
LEMMA QuietRecheck == ASSUME TypeInv, Current, Recheck PROVE Quiet
<1> DEFINE items == ViewItems
           cp == CombinedPhase({items[l.refs[t].id].phase : t \in Referenced})
           p == IF Outdated(items) THEN "Progressing" ELSE cp
           o == [l EXCEPT !.phase = p]
<1>1. /\ UNCHANGED cexec /\ pc = "recheck"
      /\ UNCHANGED exec \/ (cur /\ exec' = o)
      /\ \/ pc' = "idle" /\ l' = NewExecution /\ cur' = FALSE
         \/ l' = o /\ cur' = cur /\ exec' = o /\ pc' \in {"rexport", Ensure(o)}
  BY DEF Recheck, Return, caches, server
<1>2. SameHead(o, l)
  BY DEF SameHead, TypeInv, TypeOK, Executions
<1> HIDE DEF o
<1>3. SameHead(exec', exec)
  BY <1>1, <1>2 DEF SameHead, Current
<1>4. CASE pc' = "idle" /\ l' = NewExecution /\ cur' = FALSE
  BY <1>1, <1>3, <1>4 DEF Quiet, Current, Front, Rolling, Deleting
<1>5. CASE l' = o /\ cur' = cur /\ exec' = o /\ pc' \in {"rexport", Ensure(o)}
  <2>1. \/ pc' \in Front
        \/ pc' = "deleteList" /\ o.del
        \/ pc' = "list" /\ o.fin /\ ~o.del
    <3>1. CASE pc' = "rexport"
      BY <3>1 DEF Front
    <3>2. CASE pc' = Ensure(o)
      BY <3>2, Branches
    <3> QED BY <1>5, <3>1, <3>2
  <2>2. SameHead(l', l) /\ Current'
    BY <1>2, <1>5 DEF SameHead, Current
  <2> QED BY <1>1, <1>2, <1>3, <2>1, <2>2 DEF Quiet, SameHead, Front, Rolling, Deleting
<1> QED BY <1>1, <1>4, <1>5

\* The end of a run: its exports and HandleErrorFunc.
LEMMA QuietEnd ==
    ASSUME TypeInv, Current, ExportAgain \/ Export \/ HandleError
    PROVE  Quiet
<1>0. l \in Executions /\ exec \in Executions
  BY DEF TypeInv, TypeOK
<1>1. CASE ExportAgain \/ Export
  <2> DEFINE o == [l EXCEPT !.exported = TRUE]
             q == [o EXCEPT !.phase = "Succeeded"]
  <2>1. SameHead(o, l) /\ SameHead(q, l)
    BY <1>0 DEF SameHead, Executions
  <2>2. /\ pc \in {"rexport", "export"}
        /\ UNCHANGED cexec \/ (cexec' = exec /\ UNCHANGED exec)
        /\ UNCHANGED exec \/ (cur /\ exec' = o)
        /\ \/ pc' = "idle" /\ l' = NewExecution /\ cur' = FALSE
           \/ pc' = "finish" /\ l' \in {l, o, q} /\ cur' = cur
    BY <1>1 DEF ExportAgain, Export, Return, Restart, Fail, Goto, caches
  <2> HIDE DEF o, q
  <2>3. SameHead(exec', exec)
    BY <2>1, <2>2 DEF SameHead, Current
  <2>4. Current'
    BY <2>1, <2>2, <2>3 DEF SameHead, Current
  <2>5. SameHead(l', l) \/ (pc' = "idle" /\ l' = NewExecution)
    BY <2>1, <2>2 DEF SameHead
  <2>6. pc' \notin Front \cup Deleting \cup Rolling
    BY <2>2 DEF Front, Deleting, Rolling
  <2> QED BY <2>2, <2>3, <2>4, <2>5, <2>6 DEF Quiet
<1>2. CASE HandleError
  <2>1. /\ pc' = "idle" /\ l' = NewExecution /\ cur' = FALSE /\ UNCHANGED cexec
        /\ UNCHANGED exec \/ \E o : exec' = WithStatus(exec, o)
    BY <1>2 DEF HandleError, Return, caches
  <2>2. SameHead(exec', exec)
    <3>1. ASSUME NEW o PROVE SameHead(WithStatus(exec, o), exec)
      BY <1>0 DEF WithStatus, SameHead, Executions
    <3> QED BY <2>1, <3>1 DEF SameHead
  <2> QED BY <2>1, <2>2 DEF Quiet, Current, Front, Deleting, Rolling
<1> QED BY <1>1, <1>2

\* The steps that look at items have at most a new phase or error in memory.
LEMMA InMemory ==
    ASSUME \/ ListItems \/ LoopItem \/ EndLoop \/ ApplyItem \/ DeleteList
           \/ DeleteItem
    PROVE  /\ UNCHANGED <<exec, cexec>> /\ cur' = cur
           /\ \/ l' = l
              \/ \E p : l' = [l EXCEPT !.phase = p]
              \/ \E p, e : l' = [l EXCEPT !.obs = l.gen, !.phase = p, !.err = e]
<1>1. UNCHANGED <<exec, cexec>> /\ cur' = cur
  <2>1. CASE ListItems \/ DeleteList
    BY <2>1 DEF ListItems, DeleteList, LocalStep, Continue, caches, server
  <2>2. CASE LoopItem \/ EndLoop
    <3>1. UNCHANGED <<exec, cexec>>
      BY <2>2 DEF LoopItem, EndLoop, LocalStep, caches, server
    <3>2. cur' = cur
      BY <2>2 DEF LoopItem, EndLoop, FollowItem, FailWithItem, Goto
    <3> QED BY <3>1, <3>2
  <2>3. CASE ApplyItem \/ DeleteItem
    <3>1. UNCHANGED <<exec, cexec>>
      BY <2>3 DEF ApplyItem, DeleteItem, Continue, caches
    <3>2. cur' = cur
      BY <2>3, Zenon DEF ApplyItem, DeleteItem, Goto, Fail
    <3> QED BY <3>1, <3>2
  <2> QED BY <2>1, <2>2, <2>3
<1>2. \/ l' = l
      \/ \E p : l' = [l EXCEPT !.phase = p]
      \/ \E p, e : l' = [l EXCEPT !.obs = l.gen, !.phase = p, !.err = e]
  <2>1. CASE ListItems \/ DeleteList
    BY <2>1 DEF ListItems, DeleteList
  <2>2. CASE LoopItem
    <3>1. CASE FailWithItem
      BY <3>1 DEF FailWithItem
    <3>2. CASE ~FailWithItem
      BY <2>2, <3>2 DEF LoopItem, FollowItem, Goto
    <3> QED BY <3>1, <3>2
  <2>3. CASE EndLoop \/ ApplyItem
    BY <2>3, Zenon DEF EndLoop, ApplyItem, Goto, Fail
  <2>4. CASE DeleteItem
    <3>1. l' = l \/ l' = [l EXCEPT !.phase = "Failed"]
      BY <2>4 DEF DeleteItem, Goto
    <3> QED BY <3>1
  <2> QED BY <2>1, <2>2, <2>3, <2>4
<1> QED BY <1>1, <1>2

\* The steps that look at items, with the new phase in memory.
LEMMA QuietItems ==
    ASSUME TypeInv, Current,
           \/ ListItems \/ LoopItem \/ EndLoop \/ ApplyItem \/ DeleteList
           \/ DeleteItem
    PROVE  Quiet
<1>0. l \in Executions
  BY DEF TypeInv, TypeOK
<1>1. UNCHANGED <<exec, cexec>> /\ cur' = cur
  BY InMemory
<1>3. SameHead(l', l) /\ SameHead(exec', exec)
  BY <1>0, InMemory DEF SameHead, Executions
<1>4. \/ pc \in Rolling /\ pc' \in Rolling \cup {"finish"}
      \/ pc \in Deleting /\ pc' \in Deleting
  <2>1. CASE ListItems \/ DeleteList
    BY <2>1 DEF ListItems, DeleteList, Rolling, Deleting
  <2>2. CASE LoopItem \/ EndLoop
    BY <2>2 DEF LoopItem, EndLoop, FollowItem, FailWithItem, Goto, AfterLoop, Rolling
  <2>3. CASE ApplyItem
    <3>1. pc = "apply" /\ pc' \in {"record", "finish"}
      BY <2>3, Zenon DEF ApplyItem, Goto, Fail
    <3> QED BY <3>1 DEF Rolling
  <2>4. CASE DeleteItem
    BY <2>4 DEF DeleteItem, Goto, Deleting
  <2> QED BY <2>1, <2>2, <2>3, <2>4
<1>5. pc # "finish"
  BY <1>4 DEF Rolling, Deleting
<1>6. Current'
  BY <1>1, <1>3, <1>5 DEF SameHead, Current
<1> QED BY <1>1, <1>3, <1>4, <1>6 DEF Quiet, Rolling, Deleting, Front

\* The writes whose answer replaces the copy of the run.
LEMMA QuietAnswers == ASSUME TypeInv, Current, RecordItem \/ RemoveForce PROVE Quiet
<1>0. exec \in Executions
  BY DEF TypeInv, TypeOK
<1>1. /\ pc \in {"record", "unforce"} /\ UNCHANGED cexec
      /\ pc' \in {"loop", "finish", "export"}
      /\ \/ UNCHANGED <<exec, l, cur>>
         \/ exec' = Patched /\ l' = exec'
         \/ exec' \in {exec, [exec EXCEPT !.op = "none"]} /\ l' = exec'
  BY DEF RecordItem, RemoveForce, Fail, Goto, AfterLoop, Continue, caches
<1>2. SameHead(exec', exec)
  BY <1>0, <1>1, ZenonT(40) DEF SameHead, Patched, Executions
<1>3. (UNCHANGED <<l, cur>> /\ UNCHANGED exec) \/ l' = exec'
  BY <1>1
<1>4. Current' /\ (SameHead(l', l) \/ SameHead(l', exec'))
  BY <1>1, <1>3 DEF SameHead, Current
<1> QED BY <1>1, <1>2, <1>4 DEF Quiet, Front, Deleting, Rolling

\* The run ends or fails, or others act.
LEMMA QuietOthers ==
    ASSUME TypeInv, Current,
           \/ CallFails \/ Crash \/ SyncExec \/ SyncItems \/ UNCHANGED vars
           \/ \E i \in Items :
                \/ Deployer(i) \/ CollectGarbage(i)
                \/ RetryItem(i) \/ RemoveItem(i) \/ PickupTimeout(i) \/ ItemFails(i)
    PROVE  Quiet
<1>0. l \in Executions
  BY DEF TypeInv, TypeOK
<1>1. CASE CallFails
  <2>1. /\ UNCHANGED <<exec, cexec>> /\ cur' = cur /\ pc' = "finish"
        /\ l' = l \/ l' = Recorded \/ \E p : l' = [l EXCEPT !.phase = p]
    BY <1>1 DEF CallFails, server, caches
  <2>2. SameHead(l', l)
    BY <1>0, <2>1 DEF SameHead, Recorded, Executions
  <2>3. SameHead(exec', exec) /\ Current'
    BY <2>1, <2>2 DEF SameHead, Current
  <2> QED BY <2>1, <2>2, <2>3 DEF Quiet, Front, Deleting, Rolling
<1>2. CASE Crash
  BY <1>2 DEF Crash, Restart, server, Quiet, SameHead, Current, Front, Deleting,
     Rolling
<1>3. CASE SyncExec
  BY <1>3 DEF SyncExec, server, Quiet, SameHead, Current
<1>4. CASE ~CallFails /\ ~Crash /\ ~SyncExec
  <2>1. UNCHANGED <<exec, cexec, l, cur, pc>>
    BY <1>4 DEF SyncItems, vars, server, caches, Deployer, Pickup, Begin, Succeed,
       Release, CollectGarbage, RetryItem, RemoveItem, PickupTimeout, ItemFails,
       SetItem, Others
  <2> QED BY <2>1 DEF Quiet, SameHead, Current
<1> QED BY <1>1, <1>2, <1>3, <1>4

\* Every step is quiet or one of five.
LEMMA HeadSteps ==
    ASSUME TypeInv, Current, [Next]_vars
    PROVE  \/ Quiet \/ Get \/ AddFinalizer \/ RemoveFinalizer \/ DeleteExecution
           \/ \E op \in {"reconcile", "force"} : EnsureExecution(op)
<1>1. CASE Controller
  BY <1>1, QuietFront, QuietRecheck, QuietEnd, QuietItems, QuietAnswers
     DEF Controller
<1>2. CASE ~Controller
  BY <1>2, QuietOthers DEF Next, Environment
<1> QED BY <1>1, <1>2

\* What the five other steps make of the copies.
LEMMA GetHead ==
    ASSUME Get
    PROVE  /\ UNCHANGED <<exec, cexec, di>> /\ pc = "idle"
           /\ \/ /\ l' = ViewExec /\ ViewExec.live /\ cur' = (ViewExec = exec)
                 /\ \/ pc' \in Front
                    \/ pc' = "deleteList" /\ ViewExec.del
                    \/ pc' = "list" /\ ViewExec.fin /\ ~ViewExec.del
              \/ UNCHANGED <<l, cur, pc>>
<1>1. CASE ViewExec.live
  <2>1. \/ pc' \in Front
        \/ pc' = "deleteList" /\ ViewExec.del
        \/ pc' = "list" /\ ViewExec.fin /\ ~ViewExec.del
    <3>1. pc' = "reset" \/ pc' = AfterReset(ViewExec)
      BY <1>1 DEF Get
    <3>2. CASE pc' = "reset"
      BY <3>2 DEF Front
    <3>3. CASE pc' = AfterReset(ViewExec)
      BY <3>3, Branches
    <3> QED BY <3>1, <3>2, <3>3
  <2> QED BY <1>1, <2>1 DEF Get, server, caches
<1>2. CASE ~ViewExec.live
  BY <1>2 DEF Get, server, caches
<1> QED BY <1>1, <1>2

LEMMA AddFinalizerHead ==
    ASSUME TypeInv, AddFinalizer
    PROVE  /\ UNCHANGED <<cexec, di>> /\ cur' = cur /\ pc = "finalizer"
           /\ l' = [l EXCEPT !.fin = TRUE]
           /\ \/ cur /\ exec' = l' /\ pc' = "list"
              \/ UNCHANGED exec /\ pc' = "finish"
BY DEF AddFinalizer, Update, caches

LEMMA RemoveFinalizerHead ==
    ASSUME RemoveFinalizer
    PROVE  /\ UNCHANGED <<cexec, di>> /\ cur' = cur /\ pc' = "finish"
           /\ pc = "deleteItem" /\ loc.at > Len(Order)
           /\ \/ UNCHANGED <<exec, l>>
              \/ /\ loc.allDeleted /\ cur /\ l' = exec'
                 /\ exec' = [exec EXCEPT !.fin = FALSE, !.live = FALSE]
BY DEF RemoveFinalizer, caches

LEMMA UserHead ==
    ASSUME TypeInv,
           DeleteExecution \/ \E op \in {"reconcile", "force"} : EnsureExecution(op)
    PROVE  /\ UNCHANGED <<cexec, di, l, pc, loc>> /\ cur' = FALSE
           /\ exec.live /\ ~exec.del /\ exec'.fin = exec.fin
           /\ exec'.gen \in {exec.gen, exec.gen + 1}
           /\ \/ /\ exec.fin /\ exec'.live /\ exec'.del
                 /\ exec'.spec = exec.spec
              \/ /\ ~exec.fin /\ ~exec'.live
                 /\ exec'.spec = exec.spec
              \/ /\ exec'.live /\ ~exec'.del /\ exec'.spec \in SpecChoices
                 /\ exec'.gen = IF exec'.spec = exec.spec THEN exec.gen ELSE exec.gen + 1
<1>0. exec \in Executions
  BY DEF TypeInv, TypeOK
<1>1. CASE DeleteExecution
  BY <1>0, <1>1 DEF DeleteExecution, Executions, caches
<1>2. CASE \E op \in {"reconcile", "force"} : EnsureExecution(op)
  BY <1>0, <1>2, ZenonT(40) DEF EnsureExecution, Executions, caches
<1> QED BY <1>1, <1>2

\* A copy stays current as long as its version is.
LEMMA CurrentStep ==
    ASSUME TypeInv, Current, [Next]_vars
    PROVE  Current'
<1>0. exec \in Executions /\ l \in Executions
  BY DEF TypeInv, TypeOK
<1>1. CASE Get
  BY <1>1, GetHead DEF Current
<1>2. CASE AddFinalizer
  BY <1>0, <1>2, AddFinalizerHead DEF Current, Executions
<1>3. CASE RemoveFinalizer
  BY <1>3, RemoveFinalizerHead DEF Current
<1>4. CASE DeleteExecution \/ \E op \in {"reconcile", "force"} : EnsureExecution(op)
  BY <1>4, UserHead DEF Current
<1> QED BY <1>1, <1>2, <1>3, <1>4, HeadSteps DEF Quiet

-----------------------------------------------------------------------------
(* The order of deletion.                                                  *)

\* No template is taken out of the execution: the deploy items of a template
\* that was removed are not in the list that is deleted.
NothingRemoved == "remove" \notin Events

AllTemplates(e) == \A t \in Names : e.spec[t] # 0

Kept == AllTemplates(exec) /\ AllTemplates(cexec) /\ AllTemplates(l)

\* During a deletion the list has every deploy item there is, under the name of
\* its template.
DeletionListed ==
    pc = "deleteItem" =>
        /\ \A t \in Names :
              /\ loc.tspec[t] # 0
              /\ loc.items[t].id # 0 /\ di[loc.items[t].id].live =>
                    di[loc.items[t].id].tmpl = t
        /\ \A i \in Items : di[i].live => loc.items[di[i].tmpl].id = i

DeletionInv == OneInv /\ Current /\ Kept /\ DeletionListed

\* No step takes a template away.
LEMMA KeptStep ==
    ASSUME NothingRemoved, TypeInv, Current, Kept, [Next]_vars
    PROVE  Kept'
<1>0. exec \in Executions /\ l \in Executions /\ exec.gen \in Nat
  BY DEF TypeInv, TypeOK, Executions
<1>1. CASE Quiet
  <2>1. AllTemplates(NewExecution)
    BY DEF AllTemplates, NewExecution, Spec0
  <2> QED BY <1>1, <2>1 DEF Quiet, SameHead, Kept, AllTemplates
<1>2. CASE Get
  BY <1>2, GetHead DEF Kept, AllTemplates, ViewExec
<1>3. CASE AddFinalizer
  <2>1. l'.spec = l.spec
    BY <1>0, <1>3, AddFinalizerHead DEF Executions
  <2> QED BY <1>3, <2>1, AddFinalizerHead DEF Kept, AllTemplates
<1>4. CASE RemoveFinalizer
  <2>1. exec'.spec = exec.spec
    BY <1>0, <1>4, RemoveFinalizerHead DEF Executions
  <2> QED BY <1>4, <2>1, RemoveFinalizerHead DEF Kept, AllTemplates
<1>5. CASE DeleteExecution \/ \E op \in {"reconcile", "force"} : EnsureExecution(op)
  <2>1. UNCHANGED <<cexec, l>>
        /\ (exec'.spec = exec.spec \/ exec'.spec \in SpecChoices)
    BY <1>5, UserHead
  <2>2. ASSUME NEW t \in Names PROVE exec'.spec[t] # 0
    BY <1>0, <2>1 DEF SpecChoices, NothingRemoved, Kept, AllTemplates
  <2> QED BY <2>1, <2>2 DEF Kept, AllTemplates
<1> QED BY <1>1, <1>2, <1>3, <1>4, <1>5, HeadSteps

\* Where a run may go on with the deletion.
LEMMA DeletionSteps ==
    ASSUME TypeInv, [Next]_vars
    PROVE  \/ pc' # "deleteItem"
           \/ UNCHANGED <<pc, loc>>
           \/ DeleteList \/ DeleteItem
<1>1. CASE Get \/ ResetPhase \/ DropOperation \/ ForceReset \/ AddFinalizer
  BY <1>1 DEF Get, ResetPhase, DropOperation, ForceReset, AddFinalizer, Update,
     AfterReset, PhaseGate, Ensure, TypeInv, TypeOK
<1>2. CASE Recheck \/ ExportAgain \/ Export \/ HandleError \/ Crash \/ CallFails
  BY <1>2 DEF Recheck, ExportAgain, Export, HandleError, Crash, CallFails,
     Return, Restart, Ensure, Fail, Goto
<1>3. CASE \/ EndLoop \/ RemoveForce \/ RemoveFinalizer \/ ListItems \/ LoopItem
           \/ RecordItem
  BY <1>3 DEF EndLoop, RemoveForce, RemoveFinalizer, ListItems, LoopItem,
     RecordItem, FollowItem, FailWithItem, AfterLoop, Fail, Goto
<1>4. CASE ApplyItem
  BY <1>4, Zenon DEF ApplyItem, Fail, Goto
<1>5. CASE \E i \in Items :
             \/ Deployer(i) \/ CollectGarbage(i)
             \/ RetryItem(i) \/ RemoveItem(i) \/ PickupTimeout(i) \/ ItemFails(i)
  BY <1>5 DEF Deployer, Pickup, Begin, Succeed, Release, CollectGarbage,
     RetryItem, RemoveItem, PickupTimeout, ItemFails, SetItem, Others
<1>6. CASE \/ SyncExec \/ SyncItems \/ DeleteExecution \/ UNCHANGED vars
           \/ \E op \in {"reconcile", "force"} : EnsureExecution(op)
  BY <1>6 DEF SyncExec, SyncItems, DeleteExecution, EnsureExecution, vars
<1> QED
  BY <1>1, <1>2, <1>3, <1>4, <1>5, <1>6 DEF Next, Controller, Environment

\* What the list of a deletion has, for items that are not in a cache.
LEMMA DeleteListed ==
    ASSUME FreshItems, DeletionInv, DeleteList
    PROVE  \E a \in Assignments(di) :
              /\ loc'.items = Copies(a, di) /\ loc'.tspec = l.spec
              /\ loc'.at = 1 /\ loc'.allDeleted /\ UNCHANGED di
              /\ \A t \in Names :
                    IF a[t] = 0 THEN loc'.items[t] = Missing
                    ELSE /\ a[t] \in Items /\ di[a[t]].live /\ di[a[t]].tmpl = t
                         /\ loc'.items[t] = Copy(a[t], di[a[t]])
              /\ \A i \in Items : di[i].live => a[di[i].tmpl] = i
<1>1. PICK a \in Assignments(di) :
        loc' = [loc EXCEPT !.items = Copies(a, di), !.tspec = l.spec,
                           !.at = 1, !.allDeleted = TRUE]
  BY DEF DeleteList, ViewItems, FreshItems
<1>2. /\ loc'.items = Copies(a, di) /\ loc'.tspec = l.spec /\ loc'.at = 1
      /\ loc'.allDeleted /\ UNCHANGED di
  BY <1>1 DEF DeletionInv, OneInv, OrderInv, TypeInv, TypeOK, LocalVars,
     DeleteList, LocalStep, server
<1>3. ASSUME NEW t \in Names
      PROVE  IF a[t] = 0 THEN loc'.items[t] = Missing
             ELSE /\ a[t] \in Items /\ di[a[t]].live /\ di[a[t]].tmpl = t
                  /\ loc'.items[t] = Copy(a[t], di[a[t]])
  BY <1>2, BoundsAssumption DEF Assignments, Copies, Items
<1>4. ASSUME NEW i \in Items, di[i].live PROVE a[di[i].tmpl] = i
  <2>1. di[i].tmpl \in Names /\ l.spec[di[i].tmpl] # 0
    BY DEF DeletionInv, OneInv, OrderInv, TypeInv, TypeOK, DeployItems, Kept,
       AllTemplates
  <2>2. a[di[i].tmpl] \in {j \in Items : di[j].live /\ di[j].tmpl = di[i].tmpl}
    BY <1>4, <2>1 DEF Assignments
  <2> QED BY <1>4, <2>2 DEF DeletionInv, OneInv, OneItemPerTemplate
<1> QED BY <1>2, <1>3, <1>4

\* The list of a deletion stays complete.
LEMMA DeletionListedStep ==
    ASSUME FreshItems, DeletionInv, [Next]_vars, Evolution
    PROVE  DeletionListed'
<1> SUFFICES ASSUME pc' = "deleteItem"
             PROVE  DeletionListed'
  BY DEF DeletionListed
<1> USE DEF DeletionInv, OneInv, OrderInv
<1>1. ASSUME pc = "deleteItem", loc'.items = loc.items, loc'.tspec = loc.tspec
      PROVE  DeletionListed'
  <2>1. ASSUME NEW i \in Items, di'[i].live
        PROVE  di[i].live /\ di'[i].tmpl = di[i].tmpl
    BY <1>1, <2>1 DEF Evolution, ItemsEvolve
  <2>2. ASSUME NEW t \in Names
        PROVE  /\ loc'.tspec[t] # 0
               /\ loc'.items[t].id # 0 /\ di'[loc'.items[t].id].live =>
                     di'[loc'.items[t].id].tmpl = t
    <3>1. loc.items[t].id # 0 => loc.items[t].id \in Items
      BY ListedItem
    <3> QED BY <1>1, <2>1, <3>1 DEF DeletionListed
  <2> QED BY <1>1, <2>1, <2>2 DEF DeletionListed
<1>2. CASE UNCHANGED <<pc, loc>>
  BY <1>1, <1>2
<1>3. CASE DeleteItem
  <2>1. pc = "deleteItem" /\ loc'.items = loc.items /\ loc'.tspec = loc.tspec
    BY <1>3 DEF DeleteItem, TypeInv, TypeOK, LocalVars
  <2> QED BY <1>1, <2>1
<1>4. CASE DeleteList
  <2>1. PICK a \in Assignments(di) :
          /\ loc'.tspec = l.spec /\ UNCHANGED di
          /\ \A t \in Names :
                IF a[t] = 0 THEN loc'.items[t] = Missing
                ELSE /\ a[t] \in Items /\ di[a[t]].live /\ di[a[t]].tmpl = t
                     /\ loc'.items[t] = Copy(a[t], di[a[t]])
          /\ \A i \in Items : di[i].live => a[di[i].tmpl] = i
    BY <1>4, DeleteListed
  <2>2. \A t \in Names : loc'.items[t].id = a[t]
    <3>1. \A i, e : Copy(i, e).id = i
      BY DEF Copy
    <3>2. Missing.id = 0
      BY DEF Missing
    <3> QED BY <2>1, <3>1, <3>2
  <2>3. \A i \in Items : di[i].live => di[i].tmpl \in Names /\ i # 0
    BY BoundsAssumption DEF TypeInv, TypeOK, DeployItems, Items
  <2> QED BY <2>1, <2>2, <2>3 DEF DeletionListed, Kept, AllTemplates
<1> QED BY <1>2, <1>3, <1>4, DeletionSteps

\* The invariant of the deletion is inductive.
LEMMA DeletionInvStep ==
    ASSUME FreshItems, NothingRemoved
    PROVE  DeletionInv /\ [Next]_vars => DeletionInv'
<1> SUFFICES ASSUME DeletionInv, [Next]_vars PROVE DeletionInv'
  OBVIOUS
<1>1. OneInv' /\ TypeInv /\ Evolution
  BY OneInvStep, StepEvolution DEF DeletionInv, OneInv, OrderInv
<1> QED BY <1>1, CurrentStep, KeptStep, DeletionListedStep DEF DeletionInv

\* All templates are there at the beginning.
LEMMA DeletionInvInit == Init => DeletionInv
<1> SUFFICES ASSUME Init PROVE DeletionInv
  OBVIOUS
<1>1. /\ exec = NewExecution /\ cexec = NewExecution /\ l = NewExecution
      /\ cur = FALSE /\ pc = "idle"
  BY DEF Init
<1>2. Kept
  BY <1>1 DEF Kept, AllTemplates, NewExecution, Spec0
<1> QED BY <1>1, <1>2, OneInvInit DEF DeletionInv, Current, DeletionListed

\* An item that is deleted in the deletion of the execution has no item left
\* that depends on it.
LEMMA DeletesInOrder ==
    ASSUME DeletionInv, [Next]_vars, pc = "deleteItem", loc' # loc,
           NEW i \in Items, di'[i] # di[i], NEW j \in Items, di[j].live
    PROVE  di[i].tmpl \notin DependsOn[di[j].tmpl]
<1> USE DEF DeletionInv, OneInv, OrderInv
<1>1. DeleteItem
  <2>1. CASE Controller
    BY <2>1 DEF Controller, Get, ResetPhase, DropOperation, ForceReset, Recheck,
       ExportAgain, AddFinalizer, ListItems, LoopItem, EndLoop, ApplyItem,
       RecordItem, RemoveForce, Export, DeleteList, RemoveFinalizer, HandleError
  <2>2. CASE ~Controller
    BY <2>2 DEF Next, Environment, SyncExec, SyncItems, DeleteExecution,
       EnsureExecution, Deployer, Pickup, Begin, Succeed, Release, CollectGarbage,
       RetryItem, RemoveItem, PickupTimeout, ItemFails, SetItem, Others,
       CallFails, Crash, server, vars
  <2> QED BY <2>1, <2>2
<1> DEFINE t == Order[loc.at]
           d == loc.items[t]
<1>2. /\ loc.at \in 1..Len(Order) /\ d.id # 0 /\ Deletable(t)
      /\ di[d.id].live /\ di' = [di EXCEPT ![d.id] = Deleted(@)]
  <2>1. loc.at \in 1..(Len(Order) + 1) /\ loc.at <= Len(Order)
    BY <1>1 DEF DeleteItem, TypeInv, TypeOK, LocalVars
  <2>2. di' # di
    OBVIOUS
  <2>3. /\ d.id # 0 /\ Deletable(t)
        /\ di[d.id].live /\ di' = [di EXCEPT ![d.id] = Deleted(@)]
    BY <1>1, <2>2, Zenon DEF DeleteItem
  <2>4. loc.at \in 1..Len(Order)
    BY <2>1, OrderFacts
  <2> QED BY <2>3, <2>4
<1>3. i = d.id /\ t \in Names
  BY <1>2, OrderFacts DEF TypeInv, TypeOK
<1>4. di[i].tmpl = t
  BY <1>2, <1>3 DEF DeletionListed
<1> HIDE DEF d, t
<1>5. PICK s \in Names : s = di[j].tmpl
  BY DEF TypeInv, TypeOK, DeployItems
<1>6. loc.items[s].id = j /\ j # 0 /\ loc.tspec[s] # 0
  BY <1>5, BoundsAssumption DEF DeletionListed, Items
<1>7. CASE s = t
  BY <1>3, <1>4, <1>5, <1>7, NoSelfDependency
<1>8. CASE s # t
  BY <1>2, <1>4, <1>5, <1>6, <1>8 DEF Deletable
<1> QED BY <1>7, <1>8

\* Deletion is in the opposite order of the dependencies, for every set of
\* templates, with a lagging cache of executions, crashes and any events: the
\* list that Delete works on has every deploy item, and checkDeletable finds
\* in it whether one that depends on the item is left.
THEOREM DeletionIsOrdered ==
    ASSUME FreshItems, NothingRemoved
    PROVE  SafetySpec => OrderedDeletion
<1>1. DeletionInv /\ [Next]_vars =>
        [\A i \in Items :
            pc = "deleteItem" /\ loc' # loc /\ di'[i] # di[i] =>
               \A j \in Items :
                  di[j].live => di[i].tmpl \notin DependsOn[di[j].tmpl]]_vars
  BY DeletesInOrder
<1> QED BY DeletionInvInit, DeletionInvStep, <1>1, PTL DEF SafetySpec, OrderedDeletion
-----------------------------------------------------------------------------
(* The finalizer.                                                          *)

\* No user deletes a deploy item by itself: an item that is gone when it is its
\* turn in the deletion makes the ones before it count as deleted.
ItemsLeftAlone == "deleteItem" \notin Events

\* There are deploy items, and steps that may create one, only as long as the
\* execution has its finalizer; and a run that does not know of the deletion
\* works on a copy from the time before it, which ended before the finalizer
\* was removed.
Guarded ==
    /\ \A i \in Items : di[i].live => exec.live /\ exec.fin
    /\ ViewExec.live /\ ViewExec.fin /\ ~ViewExec.del => exec.live /\ exec.fin
    /\ cexec.del => exec.del
    /\ pc \in Rolling => exec.live /\ exec.fin
    /\ pc \in Front => l.live
    /\ pc \in Front /\ l.fin /\ ~l.del => exec.live /\ exec.fin
    /\ pc \in Deleting => l.del
    /\ pc \in Front \cup Deleting /\ l.del => ViewExec.del

\* An item of the list that is still to be looked at and was not marked is
\* there, unmarked; allDeleted holds only if there was none to look at.
DeletionCounts ==
    pc = "deleteItem" =>
        \A k \in 1..Len(Order) :
            LET e == loc.items[Order[k]]
            IN  e.id # 0 =>
                  /\ loc.at <= k /\ ~e.del => di[e.id].live /\ ~di[e.id].del
                  /\ k < loc.at => ~loc.allDeleted

FinalizerInv == DeletionInv /\ Guarded /\ DeletionCounts

\* What the pass has found out about one template of the list.
LEMMA Counted ==
    ASSUME FinalizerInv, pc = "deleteItem", NEW k \in 1..Len(Order),
           loc.items[Order[k]].id # 0
    PROVE  /\ loc.at <= k /\ ~loc.items[Order[k]].del =>
                  /\ di[loc.items[Order[k]].id].live
                  /\ ~di[loc.items[Order[k]].id].del
           /\ k < loc.at => ~loc.allDeleted
BY DEF FinalizerInv, DeletionCounts

\* When all items of the list count as deleted there is none.
LEMMA NoneLeft ==
    ASSUME FinalizerInv, pc = "deleteItem", loc.at > Len(Order), loc.allDeleted,
           NEW i \in Items
    PROVE  ~di[i].live
<1> SUFFICES ASSUME di[i].live PROVE FALSE
  OBVIOUS
<1>1. PICK k \in 1..Len(Order) : Order[k] = di[i].tmpl
  BY OrderAssumption DEF FinalizerInv, DeletionInv, OneInv, OrderInv, TypeInv,
     TypeOK, DeployItems
<1>2. loc.items[Order[k]].id = i /\ i # 0
  BY <1>1, BoundsAssumption DEF FinalizerInv, DeletionInv, DeletionListed, Items
<1>3. loc.at \in Nat /\ k < loc.at
  BY OrderFacts DEF FinalizerInv, DeletionInv, OneInv, OrderInv, TypeInv, TypeOK,
     LocalVars
<1> QED BY <1>2, <1>3 DEF FinalizerInv, DeletionCounts

\* The finalizer is added before and removed after everything it guards.
LEMMA GuardedStep ==
    ASSUME FinalizerInv, [Next]_vars, Evolution
    PROVE  Guarded'
<1> USE DEF FinalizerInv, DeletionInv, OneInv, OrderInv
<1>0. exec \in Executions /\ l \in Executions /\ exec' \in Executions
  BY TypeStep DEF TypeInv, TypeOK
<1>1. CASE Quiet
  <2>1. ASSUME NEW i \in Items, di'[i].live
        PROVE  exec.live /\ exec.fin
    <3>1. CASE di[i].live
      BY <3>1 DEF Guarded
    <3>2. CASE pc = "apply"
      BY <3>2 DEF Guarded, Rolling
    <3> QED BY <2>1, <3>1, <3>2 DEF Evolution, ItemsEvolve
  <2>2. /\ ViewExec'.live /\ ViewExec'.fin /\ ~ViewExec'.del => exec.live /\ exec.fin
        /\ cexec'.del => exec.del
        /\ ViewExec.del => ViewExec'.del
    BY <1>1 DEF Quiet, SameHead, Guarded, ViewExec
  <2>3. /\ exec'.live = exec.live /\ exec'.fin = exec.fin /\ exec'.del = exec.del
    BY <1>1 DEF Quiet, SameHead
  <2>4. pc' \in Rolling => exec.live /\ exec.fin
    BY <1>1 DEF Quiet, Guarded
  <2>5. pc' \in Front \cup Deleting => l'.live = l.live /\ l'.fin = l.fin /\ l'.del = l.del
    BY <1>1 DEF Quiet, SameHead, Front, Deleting
  <2>6. /\ pc' \in Front => pc \in Front
        /\ pc' \in Deleting => pc \in Deleting \/ (pc \in Front /\ l.del)
    BY <1>1 DEF Quiet
  <2> QED BY <2>1, <2>2, <2>3, <2>4, <2>5, <2>6 DEF Guarded
<1>2. CASE Get
  <2>1. /\ UNCHANGED <<exec, cexec, di>> /\ ViewExec' = ViewExec
    BY <1>2, GetHead DEF ViewExec
  <2>2. CASE UNCHANGED <<l, cur, pc>>
    BY <2>1, <2>2 DEF Guarded
  <2>3. CASE /\ l' = ViewExec /\ ViewExec.live
             /\ \/ pc' \in Front
                \/ pc' = "deleteList" /\ ViewExec.del
                \/ pc' = "list" /\ ViewExec.fin /\ ~ViewExec.del
    BY <2>1, <2>3 DEF Guarded, Front, Rolling, Deleting
  <2> QED BY <1>2, <2>2, <2>3, GetHead
<1>3. CASE AddFinalizer
  <2>1. UNCHANGED <<cexec, di>> /\ pc = "finalizer"
    BY <1>3, AddFinalizerHead
  <2>2. CASE UNCHANGED exec /\ pc' = "finish"
    BY <2>1, <2>2 DEF Guarded, Front, Rolling, Deleting, ViewExec
  <2>3. CASE cur /\ exec' = [l EXCEPT !.fin = TRUE] /\ pc' = "list"
    <3>1. exec'.live = l.live /\ exec'.fin /\ exec'.del = l.del
      BY <1>0, <2>3 DEF Executions
    <3>2. exec'.live /\ exec'.fin /\ exec'.del = exec.del
      BY <2>1, <2>3, <3>1 DEF Guarded, Front, Current
    <3> QED BY <2>1, <2>3, <3>2 DEF Guarded, Front, Rolling, Deleting
  <2> QED BY <1>3, <2>2, <2>3, AddFinalizerHead
<1>4. CASE RemoveFinalizer
  <2>1. /\ UNCHANGED <<cexec, di>> /\ pc = "deleteItem" /\ loc.at > Len(Order)
        /\ pc' = "finish"
    BY <1>4, RemoveFinalizerHead
  <2>2. CASE UNCHANGED exec
    BY <2>1, <2>2 DEF Guarded, Front, Rolling, Deleting, ViewExec
  <2>3. CASE loc.allDeleted /\ exec' = [exec EXCEPT !.fin = FALSE, !.live = FALSE]
    <3>1. \A i \in Items : ~di'[i].live
      BY <2>1, <2>3, NoneLeft
    <3>2. ~exec'.fin /\ exec'.del = exec.del
      BY <1>0, <2>3 DEF Executions
    <3>3. ViewExec.del
      BY <2>1 DEF Guarded, Deleting
    <3>4. ~(ViewExec'.live /\ ViewExec'.fin /\ ~ViewExec'.del)
      BY <2>1, <3>2, <3>3 DEF ViewExec
    <3> QED BY <2>1, <3>1, <3>2, <3>4 DEF Guarded, Front, Rolling, Deleting
  <2> QED BY <1>4, <2>2, <2>3, RemoveFinalizerHead
<1>5. CASE DeleteExecution \/ \E op \in {"reconcile", "force"} : EnsureExecution(op)
  <2>1. /\ UNCHANGED <<cexec, di, l, pc>> /\ exec'.fin = exec.fin /\ ~exec.del
        /\ \/ exec.fin /\ exec'.live /\ exec'.del
           \/ ~exec.fin /\ ~exec'.live
           \/ exec'.live /\ ~exec'.del
    BY <1>5, UserHead
  <2>2. exec.fin => exec.live /\ exec'.live
    BY <1>5, <2>1, UserHead
  <2>3. /\ ViewExec'.live /\ ViewExec'.fin /\ ~ViewExec'.del => exec'.live /\ exec'.fin
        /\ ViewExec.del => ViewExec'.del
    BY <2>1, <2>2 DEF Guarded, ViewExec
  <2> QED BY <2>1, <2>2, <2>3 DEF Guarded
<1> QED BY <1>1, <1>2, <1>3, <1>4, <1>5, HeadSteps

\* Each step of the deletion looks at the next item of the same list.
LEMMA DeletionMoves ==
    ASSUME TypeInv, DeleteItem
    PROVE  loc'.items = loc.items /\ loc'.at = loc.at + 1
<1>1. loc \in LocalVars
  BY DEF TypeInv, TypeOK
<1>2. \/ loc' = [loc EXCEPT !.at = loc.at + 1]
      \/ \E b : loc' = [loc EXCEPT !.at = loc.at + 1, !.allDeleted = b]
  BY DEF DeleteItem
<1> QED BY <1>1, <1>2 DEF LocalVars

\* While the run is in the deletion, nobody else marks or removes an item that
\* is not marked.
LEMMA UnmarkedStays ==
    ASSUME ItemsLeftAlone, FinalizerInv, [Next]_vars, pc = "deleteItem",
           UNCHANGED <<pc, loc>>, NEW i \in Items, di[i].live, ~di[i].del
    PROVE  di'[i].live /\ ~di'[i].del
<1> USE DEF FinalizerInv, DeletionInv, OneInv, OrderInv
<1>0. di[i] \in DeployItems /\ loc \in LocalVars /\ loc.at \in Nat
  BY DEF TypeInv, TypeOK, LocalVars
<1>1. ~Controller
  <2>1. CASE DeleteItem
    BY <1>0, <2>1, DeletionMoves
  <2>2. ~RemoveFinalizer
    BY RemoveFinalizerHead
  <2> QED BY <2>1, <2>2 DEF Controller, Get, ResetPhase, DropOperation, ForceReset,
       Recheck, ExportAgain, AddFinalizer, ListItems, LoopItem, EndLoop, ApplyItem,
       RecordItem, RemoveForce, Export, DeleteList, HandleError
<1>2. CASE \/ SyncExec \/ SyncItems \/ DeleteExecution \/ CallFails \/ Crash
           \/ UNCHANGED vars
           \/ \E op \in {"reconcile", "force"} : EnsureExecution(op)
  <2>1. UNCHANGED di
    BY <1>2 DEF SyncExec, SyncItems, DeleteExecution, CallFails, Crash,
       EnsureExecution, server, vars
  <2> QED BY <2>1
<1>3. ASSUME NEW j \in Items,
             \/ Deployer(j) \/ CollectGarbage(j)
             \/ RetryItem(j) \/ RemoveItem(j) \/ PickupTimeout(j) \/ ItemFails(j)
      PROVE  di'[i].live /\ ~di'[i].del
  <2>1. CASE j # i
    <3>1. \E d : di' = [di EXCEPT ![j] = d]
      BY <1>3 DEF Deployer, Pickup, Begin, Succeed, Release, CollectGarbage,
         RetryItem, RemoveItem, PickupTimeout, ItemFails, SetItem
    <3> QED BY <2>1, <3>1 DEF TypeInv, TypeOK
  <2>2. CASE j = i
    <3>1. ~Release(j) /\ ~RemoveItem(j)
      BY <2>2 DEF Release, RemoveItem, ItemsLeftAlone, Spend
    <3>2. ~CollectGarbage(j)
      BY <2>2 DEF CollectGarbage, Guarded
    <3>3. \E d : d.live /\ ~d.del /\ SetItem(i, d)
      <4>1. CASE Pickup(i)
        <5>1. PICK d : /\ d = [di[i] EXCEPT !.obs = di[i].gen, !.phase = "Init", !.pickup = FALSE]
                       /\ SetItem(i, d)
          BY <4>1 DEF Pickup
        <5> QED BY <1>0, <5>1 DEF DeployItems
      <4>2. CASE Begin(i)
        <5>1. PICK d : /\ d = [di[i] EXCEPT !.op = "none", !.fin = TRUE, !.phase = "Progressing"]
                       /\ SetItem(i, d)
          BY <4>2 DEF Begin
        <5> QED BY <1>0, <5>1 DEF DeployItems
      <4>3. CASE Succeed(i)
        <5>1. PICK d : /\ d = [di[i] EXCEPT !.phase = "Succeeded", !.out = di[i].spec]
                       /\ SetItem(i, d)
          BY <4>3 DEF Succeed
        <5> QED BY <1>0, <5>1 DEF DeployItems
      <4>4. CASE RetryItem(i)
        <5>1. PICK d : /\ d = [di[i] EXCEPT !.op = "reconcile"]
                       /\ SetItem(i, d)
          BY <4>4 DEF RetryItem
        <5> QED BY <1>0, <5>1 DEF DeployItems
      <4>5. CASE PickupTimeout(i)
        <5>1. PICK d : /\ d = [di[i] EXCEPT !.phase = "Failed", !.pickup = TRUE]
                       /\ SetItem(i, d)
          BY <4>5 DEF PickupTimeout
        <5> QED BY <1>0, <5>1 DEF DeployItems
      <4>6. CASE ItemFails(i)
        <5>1. PICK d : /\ d = [di[i] EXCEPT !.phase = "Failed", !.op = "none"]
                       /\ SetItem(i, d)
          BY <4>6 DEF ItemFails
        <5> QED BY <1>0, <5>1 DEF DeployItems
      <4> QED BY <1>3, <2>2, <3>1, <3>2, <4>1, <4>2, <4>3, <4>4, <4>5, <4>6 DEF Deployer
    <3> QED BY <1>0, <3>3 DEF SetItem, TypeInv, TypeOK
  <2> QED BY <2>1, <2>2
<1> QED BY <1>1, <1>2, <1>3 DEF Next, Environment

\* What is counted in the pass over the list.
LEMMA DeletionCountsStep ==
    ASSUME FreshItems, ItemsLeftAlone, FinalizerInv, [Next]_vars
    PROVE  DeletionCounts'
<1> USE DEF FinalizerInv, DeletionInv, OneInv, OrderInv
<1> SUFFICES ASSUME pc' = "deleteItem", NEW k \in 1..Len(Order),
                    loc'.items[Order[k]].id # 0
             PROVE  LET e == loc'.items[Order[k]]
                    IN  /\ loc'.at <= k /\ ~e.del => di'[e.id].live /\ ~di'[e.id].del
                        /\ k < loc'.at => ~loc'.allDeleted
  BY DEF DeletionCounts
<1>0. /\ loc \in LocalVars /\ loc.at \in Nat /\ k \in Nat /\ Order[k] \in Names
      /\ di \in [Items -> DeployItems]
  BY OrderFacts DEF TypeInv, TypeOK, LocalVars
<1>1. CASE UNCHANGED <<pc, loc>>
  <2>1. loc.items[Order[k]].id \in Items
    BY <1>0, <1>1, ListedItem
  <2> QED BY <1>0, <1>1, <2>1, UnmarkedStays DEF DeletionCounts
<1>2. CASE DeleteList
  <2>1. PICK a \in Assignments(di) :
          /\ loc'.at = 1 /\ UNCHANGED di
          /\ IF a[Order[k]] = 0 THEN loc'.items[Order[k]] = Missing
             ELSE /\ a[Order[k]] \in Items /\ di[a[Order[k]]].live
                  /\ loc'.items[Order[k]] = Copy(a[Order[k]], di[a[Order[k]]])
    BY <1>0, <1>2, DeleteListed
  <2>2. a[Order[k]] # 0
    BY <2>1 DEF Missing
  <2> QED BY <1>0, <2>1, <2>2 DEF Copy
<1>3. CASE DeleteItem
  <2> DEFINE t == Order[loc.at]
             d == loc.items[t]
  <2>1. /\ pc = "deleteItem" /\ loc.at <= Len(Order)
        /\ loc'.items = loc.items /\ loc'.at = loc.at + 1
        /\ \/ d.id = 0 /\ loc'.allDeleted = loc.allDeleted /\ UNCHANGED di
           \/ /\ d.id # 0 /\ ~d.del /\ loc'.allDeleted = ~di[d.id].live
              /\ di' = [di EXCEPT ![d.id] = Deleted(@)] \/ UNCHANGED di
           \/ d.id # 0 /\ loc'.allDeleted = FALSE /\ UNCHANGED di
    <3>1. pc = "deleteItem" /\ loc.at <= Len(Order)
      BY <1>3 DEF DeleteItem
    <3>2. \/ /\ d.id = 0 /\ UNCHANGED di
             /\ loc' = [loc EXCEPT !.at = loc.at + 1]
          \/ /\ d.id # 0 /\ ~d.del
             /\ loc' = [loc EXCEPT !.at = loc.at + 1, !.allDeleted = ~di[d.id].live]
             /\ di' = [di EXCEPT ![d.id] = Deleted(@)] \/ UNCHANGED di
          \/ /\ d.id # 0 /\ UNCHANGED di
             /\ loc' = [loc EXCEPT !.at = loc.at + 1, !.allDeleted = FALSE]
      BY <1>3 DEF DeleteItem
    <3>3. d.id # 0 => d.id \in Items
      <4>1. t \in Names
        BY <1>0, <3>1, OrderFacts DEF LocalVars
      <4> QED BY <4>1, ListedItem
    <3> QED BY <1>0, <3>1, <3>2 DEF LocalVars
  <2>2. loc.at \in 1..Len(Order)
    <3>1. loc.at \in 1..(Len(Order) + 1)
      BY <1>0 DEF LocalVars
    <3>2. loc.at <= Len(Order)
      BY <2>1
    <3> QED BY <3>1, <3>2, OrderFacts
  <2>3. d.id # 0 /\ ~d.del => di[d.id].live
    <3>1. loc.at <= loc.at
      BY <1>0
    <3> QED BY <2>1, <2>2, <3>1, Counted
  <2>4. ASSUME k < loc'.at PROVE ~loc'.allDeleted
    <3>1. CASE k < loc.at
      BY <1>0, <2>1, <2>3, <3>1 DEF DeletionCounts
    <3>2. CASE k = loc.at
      BY <2>1, <2>3, <3>2
    <3>3. k < loc.at \/ k = loc.at
      <4>1. loc'.at = loc.at + 1
        BY <2>1
      <4> QED BY <1>0, <2>4, <4>1
    <3> QED BY <3>1, <3>2, <3>3
  <2>5. ASSUME loc'.at <= k, ~loc'.items[Order[k]].del
        PROVE  di'[loc'.items[Order[k]].id].live /\ ~di'[loc'.items[Order[k]].id].del
    <3> DEFINE e == loc.items[Order[k]]
    <3>1. e.id \in Items /\ di[e.id].live /\ ~di[e.id].del
      <4>1. loc.at <= k /\ ~e.del
        <5>1. loc'.at = loc.at + 1 /\ loc'.items = loc.items
          BY <2>1
        <5> QED BY <1>0, <2>5, <5>1
      <4>2. e.id # 0 /\ pc = "deleteItem"
        BY <2>1
      <4>3. e.id \in Items
        BY <1>0, <4>2, ListedItem
      <4>4. di[e.id].live /\ ~di[e.id].del
        BY <4>1, <4>2, Counted
      <4> QED BY <4>3, <4>4
    <3>2. Order[k] # t
      <4>1. k # loc.at
        <5>1. loc'.at = loc.at + 1
          BY <2>1
        <5> QED BY <1>0, <2>5, <5>1
      <4> QED BY <2>2, <4>1, OrderAssumption
    <3>3. e.id # d.id
      <4> SUFFICES ASSUME e.id = d.id PROVE FALSE
        OBVIOUS
      <4>1. t \in Names /\ e.id # 0 /\ pc = "deleteItem"
        BY <2>1, <2>2, <3>1, OrderFacts, BoundsAssumption DEF Items
      <4>2. di[e.id].tmpl = Order[k]
        BY <1>0, <3>1, <4>1 DEF DeletionListed
      <4>3. di[d.id].tmpl = t
        BY <3>1, <4>1 DEF DeletionListed
      <4> QED BY <3>2, <4>2, <4>3
    <3>4. di'[e.id] = di[e.id]
      <4>1. di' = [di EXCEPT ![d.id] = Deleted(@)] \/ UNCHANGED di
        BY <2>1
      <4> QED BY <1>0, <3>1, <3>3, <4>1
    <3> QED BY <2>1, <3>1, <3>4
  <2> QED BY <2>4, <2>5
<1> QED BY <1>1, <1>2, <1>3, DeletionSteps

\* A new execution has no finalizer, no run and no items.
LEMMA FinalizerInvInit == Init => FinalizerInv
<1> SUFFICES ASSUME Init PROVE FinalizerInv
  OBVIOUS
<1>1. /\ exec = NewExecution /\ cexec = NewExecution /\ pc = "idle"
      /\ \A i \in Items : ~di[i].live
  BY DEF Init, NoItem
<1>2. NewExecution.live /\ ~NewExecution.fin /\ ~NewExecution.del
  BY DEF NewExecution
<1> QED BY <1>1, <1>2, DeletionInvInit
        DEF FinalizerInv, Guarded, DeletionCounts, ViewExec, Front, Rolling, Deleting

\* An execution is gone only when all its deploy items are, for every set of
\* templates, with a lagging cache of executions, crashes, errors and edits:
\* the finalizer is there before the first item, Delete removes it only after a
\* pass that found no item, and no run that began before can create one after.
THEOREM FinalizerProtects ==
    ASSUME FreshItems, NothingRemoved, ItemsLeftAlone
    PROVE  SafetySpec => []FinalizerProtectsItems
<1>1. FinalizerInv /\ [Next]_vars => FinalizerInv'
  <2> SUFFICES ASSUME FinalizerInv, [Next]_vars PROVE FinalizerInv'
    OBVIOUS
  <2>1. DeletionInv' /\ Evolution
    BY DeletionInvStep, StepEvolution DEF FinalizerInv, DeletionInv, OneInv, OrderInv
  <2> QED BY <2>1, GuardedStep, DeletionCountsStep DEF FinalizerInv
<1>2. FinalizerInv => FinalizerProtectsItems
  BY DEF FinalizerInv, Guarded, FinalizerProtectsItems
<1> QED BY FinalizerInvInit, <1>1, <1>2, PTL DEF SafetySpec
=============================================================================
