------------------------- MODULE InstallationProofs -------------------------
(***************************************************************************)
(* Theorems about Installation, for every forest of installations: the     *)
(* finalizer keeps an installation until its execution and all of its      *)
(* subinstallations are gone, a generation is recorded as observed when    *)
(* all of its templates have been applied, an importer is rolled out after *)
(* its sources have finished, what is imported is not removed, and         *)
(* everything keeps its type.                                              *)
(***************************************************************************)
EXTENDS Installation, Integers, FiniteSetTheorems, TLAPS

-----------------------------------------------------------------------------
(* Types: of the objects and the local variables only what the argument    *)
(* reads; their other fields may hold anything.                            *)

ObjectFields == {"live", "gen", "del", "fin", "op", "spec", "obs", "phase",
                 "err", "imports", "conf", "eref"}
ExecutionFields == {"live", "gen", "obs", "phase", "op", "del", "in", "out"}
RunFields == {"pc", "l", "mode", "ready", "vals", "confs", "refs", "todo", "err"}

IsObject(i, o) ==
    /\ DOMAIN o = ObjectFields
    /\ o.live \in BOOLEAN /\ o.del \in BOOLEAN /\ o.fin \in BOOLEAN
    /\ o.gen \in Nat /\ o.obs \in Nat /\ o.phase \in Phase
    /\ o.spec \in [version : Nat, subs : SUBSET Children(i)]

IsExecution(e) ==
    /\ DOMAIN e = ExecutionFields
    /\ e.live \in BOOLEAN /\ e.del \in BOOLEAN
    /\ e.gen \in Nat /\ e.obs \in Nat /\ e.phase \in Phase

IsRun(i, r) ==
    /\ DOMAIN r = RunFields
    /\ IsObject(i, r.l) /\ r.pc \in PCs /\ r.todo \in SUBSET Children(i)

TypeInv ==
    /\ DOMAIN inst = Insts /\ \A i \in Insts : IsObject(i, inst[i])
    /\ DOMAIN exec = Insts /\ \A i \in Insts : IsExecution(exec[i])
    /\ DOMAIN run = Insts /\ \A i \in Insts : IsRun(i, run[i])

LEMMA NewObjects ==
    ASSUME NEW i \in Insts
    PROVE  /\ IsObject(i, NoInstallation)
           /\ \A v \in Nat : IsObject(i, NewInstallation(i, v))
           /\ IsExecution(NoExecution) /\ IsRun(i, Idle)
<1>1. IsObject(i, NoInstallation)
    BY DEF IsObject, NoInstallation, ObjectFields, Phase, NoPhase
<1>2. ASSUME NEW v \in Nat PROVE IsObject(i, NewInstallation(i, v))
    BY DEF IsObject, NewInstallation, ObjectFields, Phase, NoPhase
<1>3. IsExecution(NoExecution)
    BY DEF IsExecution, NoExecution, ExecutionFields, Phase, NoPhase
<1>4. IsRun(i, Idle)
    BY <1>1 DEF IsRun, Idle, RunFields, PCs
<1> QED
    BY <1>1, <1>2, <1>3, <1>4

LEMMA DeletedObject ==
    ASSUME NEW i \in Insts, NEW o, IsObject(i, o)
    PROVE  IsObject(i, Deleted(o))
<1>1. CASE ~o.live \/ ~o.fin
    BY <1>1, NewObjects DEF Deleted
<1>2. CASE o.live /\ o.fin /\ o.del
    BY <1>2 DEF Deleted
<1>3. CASE o.live /\ o.fin /\ ~o.del
  <2>1. Deleted(o) = [o EXCEPT !.del = TRUE, !.gen = @ + 1]
      BY <1>3 DEF Deleted
  <2>2. IsObject(i, [o EXCEPT !.del = TRUE, !.gen = @ + 1])
      BY DEF IsObject, ObjectFields
  <2> QED
      BY <2>1, <2>2
<1> QED
    BY <1>1, <1>2, <1>3 DEF IsObject

LEMMA ChangedObject ==
    ASSUME NEW i \in Insts, NEW o, IsObject(i, o)
    PROVE  /\ \A s : IsObject(i, s) => IsObject(i, WithStatus(s, o))
           /\ \A op : IsObject(i, [o EXCEPT !.op = op])
           /\ IsObject(i, [o EXCEPT !.fin = TRUE])
           /\ \A p \in Phase : IsObject(i, [o EXCEPT !.phase = p])
           /\ \A v \in Nat :
                 IsObject(i, [o EXCEPT !.op = "none", !.spec.version = v, !.gen = @ + 1])
           /\ \A v \in Nat : IsObject(i, [o EXCEPT !.spec.version = v, !.gen = @ + 1])
           /\ \A j : IsObject(i, [o EXCEPT !.spec.subs = @ \ {j}, !.gen = @ + 1])
<1>1. \A s : IsObject(i, s) => IsObject(i, WithStatus(s, o))
    BY DEF IsObject, WithStatus, ObjectFields
<1>2. \A op : IsObject(i, [o EXCEPT !.op = op])
    BY DEF IsObject, ObjectFields
<1>3. IsObject(i, [o EXCEPT !.fin = TRUE])
    BY DEF IsObject, ObjectFields
<1>4. \A p \in Phase : IsObject(i, [o EXCEPT !.phase = p])
    BY DEF IsObject, ObjectFields
<1>5. \A v \in Nat :
         IsObject(i, [o EXCEPT !.op = "none", !.spec.version = v, !.gen = @ + 1])
    BY DEF IsObject, ObjectFields
<1>6. \A v \in Nat : IsObject(i, [o EXCEPT !.spec.version = v, !.gen = @ + 1])
    BY DEF IsObject, ObjectFields
<1>7. \A j : IsObject(i, [o EXCEPT !.spec.subs = @ \ {j}, !.gen = @ + 1])
    BY DEF IsObject, ObjectFields
<1> QED
    BY <1>1, <1>2, <1>3, <1>4, <1>5, <1>6, <1>7

-----------------------------------------------------------------------------
(* The invariant.  ObjectInv relates an installation to its execution and   *)
(* its subinstallations, RunInv its Reconcile to them.  Inner stands for   *)
(* the subinstallations, whose phases their parents rely on.               *)

Inner == Insts \ Roots
Busy(r) == r.pc \notin {"idle", "finalizer"}

\* The deletion is under way, and a run that has begun earlier is over.
Leaving(i) == inst[i].del /\ (Busy(run[i]) => run[i].l.del)
Staying(i) == inst[i].live /\ ~Leaving(i)

Clean(i) == ~exec[i].live /\ \A j \in Children(i) : ~inst[j].live

\* Everything the blueprint asks for exists; and it has been worked on.
Ensured(i) ==
    /\ \A j \in Children(i) : inst[j].live
    /\ i \in Deploys => exec[i].live
Started(i) ==
    /\ Ensured(i)
    /\ \A j \in Children(i) : inst[j].obs # 0
    /\ exec[i].live => exec[i].obs # 0

\* A phase is shown as soon as a generation has been observed.
Handled(o) == o.gen # 0 /\ (o.obs # 0 => o.phase # NoPhase)

\* What the status o of i, in the server or in the copy of a run, is
\* evidence for.
Evident(i, o) ==
    /\ o.obs # 0 => Ensured(i)
    /\ o.obs # 0 /\ IsCompleted(o.phase) => Started(i)

ObjectInv(i) ==
    /\ inst[i].del => inst[i].fin
    /\ ~(inst[i].live /\ inst[i].fin) => Clean(i)
    /\ exec[i].live => Handled(exec[i]) /\ (exec[i].phase = "Deleting" => exec[i].del)
    /\ i \in Inner =>
          /\ inst[i].live => Handled(inst[i]) /\ inst[i].spec.subs = Children(i)
          /\ exec[i].live /\ exec[i].del => Leaving(i)
          /\ \A j \in Children(i) : inst[j].live /\ inst[j].del => Leaving(i)
          /\ Staying(i) => Evident(i, inst[i])

\* The copy l of a run.
CopyInv(i, l) ==
    i \in Inner =>
        /\ Handled(l) /\ l.spec.subs = Children(i)
        /\ inst[i].obs # 0 => l.obs # 0
        /\ ~l.del => Evident(i, l)

Constructs == {"values", "confs", "ensure", "subs", "trigger", "exec"}
Publishes == {"exports", "publish", "dependants"}

\* What a run knows at its next call.
StageInv(i, r) ==
    /\ r.pc \in {"delete", "deleteAll", "removeFinalizer"} => r.l.del
    /\ r.pc = "recheck" => ~r.l.del
    /\ r.pc = "removeFinalizer" => Clean(i)
    /\ r.pc \in {"exports", "publish"} => r.mode \in {"complete", "Succeeded"}
    /\ r.pc = "rephase" => r.mode \in Phase
    /\ r.pc = "context" => r.l.op = "force" \/ r.mode \in CompletedPhases
    /\ r.pc = "eligible" => r.mode \in CompletedPhases
    /\ r.pc \in Constructs /\ ~r.l.del =>
          \/ r.mode \in {"update", "force"}
          \/ r.mode = "complete" /\ r.pc \in {"values", "confs"}
    /\ i \in Inner =>
          /\ r.pc = "rephase" => r.mode # NoPhase
          /\ ~r.l.del =>
                /\ r.pc = "subs" => \A j \in Children(i) \ r.todo : inst[j].live
                /\ r.pc \in {"trigger", "exec"} => \A j \in Children(i) : inst[j].live
                /\ r.pc = "dropForce" => Ensured(i)
                /\ r.pc \in Publishes \cup {"recheck", "rephase"} => Started(i)
                /\ r.pc \in {"values", "confs"} /\ r.mode = "complete" => Started(i)
                /\ r.pc = "context" /\ r.l.op # "force" /\ r.l.obs # 0 => Started(i)
                /\ r.pc = "eligible" /\ r.l.obs # 0 => Started(i)

RunInv(i, r) ==
    Busy(r) =>
        /\ inst[i].live /\ inst[i].fin /\ (r.l.del => inst[i].del)
        /\ CopyInv(i, r.l)
        /\ StageInv(i, r)

CleanInv == \A i \in Insts : ObjectInv(i) /\ RunInv(i, run[i])
IInv == TypeInv /\ CleanInv

-----------------------------------------------------------------------------
(* A step of the run of i and the other installations.                     *)

LEMMA Forest ==
    ASSUME NEW i \in Insts
    PROVE  /\ Children(i) \subseteq Inner /\ i \notin Children(i)
           /\ \A j \in Children(i) : i \notin Children(j)
           /\ \A j \in Children(i) : \A k \in Insts : j \in Children(k) => k = i
<1> PICK depth \in [Insts -> 1..Cardinality(Insts)] :
          \A j \in Insts \ Roots : depth[Parent[j]] < depth[j]
    BY ForestAssumption
<1>1. Children(i) \subseteq Inner
    BY ForestAssumption DEF Children, Inner, Roots
<1>2. \A j \in Children(i) : depth[i] < depth[j]
    BY <1>1 DEF Children, Inner
<1>3. \A k \in Insts : \A j \in Children(k) : depth[k] < depth[j]
    BY ForestAssumption DEF Children, Roots
<1>4. \A j \in Insts : depth[j] \in 1..Cardinality(Insts)
    OBVIOUS
<1>5. \A j \in Insts : depth[j] \in Int
    BY <1>4
<1> QED
    BY <1>1, <1>3, <1>5 DEF Children

\* The fields the invariant reads are as they were.
SameCore(o, p) ==
    /\ p.live = o.live /\ p.fin = o.fin /\ p.del = o.del
    /\ p.gen = o.gen /\ p.obs = o.obs /\ p.phase = o.phase /\ p.spec = o.spec

\* What others than its own run do to the installation k: they leave it, mark
\* or change it, create it, or delete it when it has no finalizer.
Kept(k) ==
    /\ inst'[k].live = inst[k].live /\ inst'[k].fin = inst[k].fin
    /\ inst'[k].obs = inst[k].obs /\ inst'[k].phase = inst[k].phase
    /\ inst[k].del => inst'[k].del
    /\ inst'[k].del => inst[k].del \/ inst[k].fin
    /\ inst[k].live /\ inst[k].gen # 0 => inst'[k].gen # 0
    /\ k \in Inner => inst'[k].spec.subs = inst[k].spec.subs
Created(k) ==
    /\ ~inst[k].live
    /\ inst'[k].live /\ ~inst'[k].del /\ inst'[k].gen # 0 /\ inst'[k].obs = 0
    /\ inst'[k].spec.subs = Children(k)
Vanished(k) ==
    /\ ~(inst[k].live /\ inst[k].fin)
    /\ ~inst'[k].live /\ ~inst'[k].del
Foreign(k) == Kept(k) \/ Created(k) \/ Vanished(k)

\* What its parent sees of a step of the run of j.
ChildMoves(j) ==
    /\ inst'[j].live => inst[j].live /\ (inst'[j].del => inst[j].del)
    /\ inst'[j].live /\ inst[j].obs # 0 => inst'[j].obs # 0
    /\ inst[j].live /\ ~inst'[j].live => inst[j].del

LEMMA OtherKeeps ==
    ASSUME NEW k \in Insts, TypeInv, TypeInv', ObjectInv(k), RunInv(k, run[k]),
           run'[k] = run[k], exec'[k] = exec[k], Foreign(k),
           \A j \in Children(k) : ChildMoves(j)
    PROVE  ObjectInv(k)' /\ RunInv(k, run[k])'
<1>1. CASE Kept(k)
  <2>1. Children(k) \subseteq Insts
      BY DEF Children
  <2>2. Clean(k) => Clean(k)'
      BY <2>1 DEF Clean, ChildMoves
  <2>3. (inst[k].live <=> inst'[k].live) /\ (inst[k].fin <=> inst'[k].fin)
      BY <1>1 DEF Kept
  <2>4. Leaving(k) => Leaving(k)'
      BY <1>1 DEF Leaving, Kept
  <2>5. Staying(k)' => Staying(k)
      BY <2>3, <2>4 DEF Staying
  <2>6. k \in Inner /\ Staying(k) => (Ensured(k) => Ensured(k)') /\ (Started(k) => Started(k)')
    <3>1. k \in Inner /\ Staying(k) => \A j \in Children(k) : inst[j].live => ~inst[j].del
        BY DEF ObjectInv, Staying
    <3> QED
        BY <3>1 DEF Ensured, Started, ChildMoves
  <2>7. ObjectInv(k)'
    <3>1. inst'[k].del => inst'[k].fin
        BY <1>1, <2>3 DEF ObjectInv, Kept
    <3>2. ~(inst'[k].live /\ inst'[k].fin) => Clean(k)'
        BY <2>2, <2>3 DEF ObjectInv
    <3>3. k \in Inner /\ inst'[k].live => Handled(inst'[k]) /\ inst'[k].spec.subs = Children(k)
        BY <1>1, <2>3 DEF ObjectInv, Kept, Handled
    <3>4. k \in Inner => /\ exec'[k].live /\ exec'[k].del => Leaving(k)'
                         /\ \A j \in Children(k) : inst'[j].live /\ inst'[j].del => Leaving(k)'
        BY <2>4 DEF ObjectInv, ChildMoves
    <3>5. k \in Inner /\ Staying(k)' => Evident(k, inst[k])'
        BY <1>1, <2>5, <2>6 DEF ObjectInv, Evident, Kept
    <3> QED
        BY <3>1, <3>2, <3>3, <3>4, <3>5 DEF ObjectInv
  <2>8. ASSUME Busy(run[k]) PROVE RunInv(k, run[k])'
    <3>1. inst'[k].live /\ inst'[k].fin /\ (run[k].l.del => inst'[k].del)
        BY <1>1, <2>3, <2>8 DEF RunInv, Kept
    <3>2. ~run[k].l.del => Staying(k)
        BY <2>8 DEF RunInv, Staying, Leaving
    <3>3. CopyInv(k, run[k].l)'
        BY <1>1, <2>6, <2>8, <3>2 DEF RunInv, CopyInv, Evident, Kept
    <3>4. k \in Inner /\ ~run[k].l.del => \A j \in Children(k) : inst[j].live => inst'[j].live
        BY <3>2 DEF ObjectInv, ChildMoves, Staying
    <3>5. StageInv(k, run[k])'
        BY <2>2, <2>6, <2>8, <3>2, <3>4 DEF RunInv, StageInv
    <3> QED
        BY <3>1, <3>3, <3>5 DEF RunInv
  <2> QED
      BY <2>7, <2>8 DEF RunInv
<1>2. CASE Created(k) \/ Vanished(k)
  <2>1. Clean(k) /\ ~Busy(run[k])
      BY <1>2 DEF Created, Vanished, ObjectInv, RunInv
  <2>2. Clean(k)'
      BY <2>1 DEF Clean, ChildMoves
  <2>3. ~inst'[k].del /\ (inst'[k].live => inst'[k].gen # 0 /\ inst'[k].obs = 0 /\ inst'[k].spec.subs = Children(k))
      BY <1>2 DEF Created, Vanished
  <2>4. ObjectInv(k)'
      BY <2>2, <2>3 DEF ObjectInv, Clean, Handled, Evident, Staying
  <2> QED
      BY <2>1, <2>4 DEF RunInv, Busy
<1> QED
    BY <1>1, <1>2 DEF Foreign

LEMMA OwnStep ==
    ASSUME NEW i \in Insts, IInv, TypeInv',
           \A k \in Insts \ {i} : run'[k] = run[k] /\ exec'[k] = exec[k],
           \A k \in Insts \ (Children(i) \cup {i}) : SameCore(inst[k], inst'[k]),
           \A k \in Children(i) : Foreign(k),
           i \in Inner => ChildMoves(i),
           ObjectInv(i)', RunInv(i, run[i])'
    PROVE  IInv'
<1>1. ASSUME NEW k \in Insts \ {i} PROVE ObjectInv(k)' /\ RunInv(k, run[k])'
  <2>1. Foreign(k)
    <3>1. ASSUME SameCore(inst[k], inst'[k]) PROVE Foreign(k)
        BY <3>1 DEF SameCore, Foreign, Kept
    <3> QED
        BY <3>1
  <2>2. ASSUME NEW j \in Children(k) PROVE ChildMoves(j)
    <3>1. j \in Inner /\ j \notin Children(i)
        BY Forest
    <3>2. CASE j = i
        BY <3>1, <3>2
    <3>3. CASE j # i
      <4>1. SameCore(inst[j], inst'[j])
          BY <3>1, <3>3 DEF Inner
      <4> QED
          BY <4>1 DEF SameCore, ChildMoves
    <3> QED
        BY <3>2, <3>3
  <2> QED
      BY <2>1, <2>2, OtherKeeps DEF IInv, CleanInv
<1> QED
    BY <1>1 DEF IInv, CleanInv

-----------------------------------------------------------------------------
(* Steps of the run of i that leave what the invariant reads of the        *)
(* objects.                                                                *)

\* Every write of operations only, and every step without a write.
SameObjects ==
    /\ exec' = exec
    /\ DOMAIN inst' = Insts
    /\ \A k \in Insts : IsObject(k, inst'[k]) /\ SameCore(inst[k], inst'[k])

\* The run goes on with r, which does not forget a deletion.
NextRun(i, r) ==
    /\ run' = [run EXCEPT ![i] = r] /\ IsRun(i, r)
    /\ Busy(r) /\ Busy(run[i]) => (run[i].l.del => r.l.del)
    /\ Busy(r) /\ ~Busy(run[i]) => (inst[i].del => r.l.del)

LEMMA RunSet ==
    ASSUME NEW i \in Insts, NEW r, TypeInv, IsRun(i, r),
           run' = [run EXCEPT ![i] = r]
    PROVE  /\ DOMAIN run' = Insts /\ \A k \in Insts : IsRun(k, run'[k])
           /\ run'[i] = r /\ \A k \in Insts \ {i} : run'[k] = run[k]
BY DEF TypeInv

LEMMA LocalStep ==
    ASSUME NEW i \in Insts, NEW r, IInv, SameObjects, NextRun(i, r), RunInv(i, r)
    PROVE  IInv'
<1>1. /\ DOMAIN run' = Insts /\ \A k \in Insts : IsRun(k, run'[k])
      /\ run'[i] = r /\ \A k \in Insts \ {i} : run'[k] = run[k]
    BY RunSet DEF IInv, NextRun
<1>2. TypeInv'
    BY <1>1 DEF IInv, TypeInv, SameObjects
<1>3. Children(i) \subseteq Insts
    BY DEF Children
<1>4. /\ Clean(i)' <=> Clean(i)
      /\ Ensured(i)' <=> Ensured(i)
      /\ Started(i)' <=> Started(i)
    BY <1>3 DEF Clean, Ensured, Started, SameObjects, SameCore
<1>5. inst'[i].del = inst[i].del /\ inst'[i].live = inst[i].live
    BY DEF SameObjects, SameCore
<1>6. Leaving(i) => Leaving(i)'
    BY <1>1, <1>5 DEF Leaving, NextRun
<1>7. Staying(i)' => Staying(i)
    BY <1>5, <1>6 DEF Staying
<1>8. ObjectInv(i)'
    BY <1>3, <1>4, <1>6, <1>7 DEF IInv, CleanInv, ObjectInv, SameObjects, SameCore, Handled, Evident
<1>9. RunInv(i, run[i])'
    BY <1>1, <1>3, <1>4 DEF RunInv, CopyInv, StageInv, Evident, SameObjects, SameCore
<1>10. \A k \in Insts : Foreign(k) /\ ChildMoves(k)
    BY DEF SameObjects, SameCore, Foreign, Kept, ChildMoves
<1> QED
    BY <1>1, <1>2, <1>3, <1>8, <1>9, <1>10, OwnStep DEF SameObjects

LEMMA Unwritten ==
    ASSUME IInv, UNCHANGED <<inst, exec>>
    PROVE  SameObjects
BY DEF IInv, TypeInv, SameObjects, SameCore

\* A run that ends without a write.
LEMMA EndStep ==
    ASSUME NEW i \in Insts, IInv, SameObjects, run' = [run EXCEPT ![i] = Idle]
    PROVE  IInv'
<1>1. IsRun(i, Idle) /\ ~Busy(Idle)
    BY NewObjects DEF Idle, Busy
<1>2. RunInv(i, Idle) /\ NextRun(i, Idle)
    BY <1>1 DEF RunInv, NextRun
<1> QED
    BY <1>2, LocalStep

\* What a run that goes on has in common with the run before: the copy, up to
\* a phase that is not completed.
Advances(i, r, s) ==
    /\ DOMAIN s = RunFields /\ IsObject(i, s.l) /\ s.pc \in PCs
    /\ s.todo \in SUBSET Children(i)
    /\ s.l.del = r.l.del /\ s.l.gen = r.l.gen /\ s.l.obs = r.l.obs /\ s.l.spec = r.l.spec
    /\ \/ s.l.phase = r.l.phase
       \/ s.l.phase # NoPhase /\ ~IsCompleted(s.l.phase)
       \/ s.l.phase # NoPhase /\ (s.l.obs # 0 /\ ~s.l.del /\ i \in Inner => Started(i))

LEMMA AdvanceStep ==
    ASSUME NEW i \in Insts, NEW s, IInv, SameObjects,
           run' = [run EXCEPT ![i] = s], Busy(run[i]), Busy(s),
           Advances(i, run[i], s), StageInv(i, s)
    PROVE  IInv'
<1>1. NextRun(i, s)
    BY DEF NextRun, Advances, IsRun
<1>2. CopyInv(i, s.l)
    BY DEF IInv, CleanInv, RunInv, CopyInv, Advances, Handled, Evident
<1>3. RunInv(i, s)
    BY <1>2 DEF IInv, CleanInv, RunInv, Advances
<1> QED
    BY <1>1, <1>3, LocalStep

\* An error keeps the copy.
LEMMA FailStep ==
    ASSUME NEW i \in Insts, NEW s, IInv, SameObjects, Busy(run[i]),
           run' = [run EXCEPT ![i] = s], s = Fails(run[i]) \/ s = FailsPlain(run[i])
    PROVE  IInv'
<1>1. IsRun(i, run[i])
    BY DEF IInv, TypeInv
<1>2. /\ DOMAIN s = RunFields /\ s.pc = "finish" /\ s.l = run[i].l
      /\ s.todo = run[i].todo
    BY <1>1 DEF Fails, FailsPlain, IsRun, RunFields
<1>3. Advances(i, run[i], s) /\ Busy(s)
    BY <1>1, <1>2 DEF Advances, IsRun, Busy, PCs
<1>4. StageInv(i, s)
    BY <1>2 DEF StageInv, Constructs, Publishes
<1> QED
    BY <1>3, <1>4, AdvanceStep

LEMMA Stutter ==
    ASSUME IInv, UNCHANGED <<inst, exec, run>>
    PROVE  IInv'
BY SMTT(30) DEF IInv, TypeInv, CleanInv, ObjectInv, RunInv, CopyInv, StageInv, Evident,
                Ensured, Started, Clean, Staying, Leaving

-----------------------------------------------------------------------------
(* The phases of what an installation has created.                         *)

LEMMA PhaseTypes ==
    ASSUME NEW i \in Insts, TypeInv
    PROVE  /\ \A S : CombinedPhase(S) \in Phase
           /\ ChildPhase(i) \in Phase
BY DEF CombinedPhase, ChildPhase, Phase, RunningPhases, CompletedPhases, NoPhase

LEMMA CombinedNothing ==
    ASSUME NEW S
    PROVE  /\ CombinedPhase(S) = NoPhase => S \subseteq {NoPhase}
           /\ "Progressing" \in S => CombinedPhase(S) = "Progressing"
BY DEF CombinedPhase, NoPhase, RunningPhases

\* executions.CombinedPhase and subinstallations.CombinedPhase are empty only
\* when nothing is left.
LEMMA EmptyIsClean ==
    ASSUME NEW i \in Insts, IInv, ExecPhase(i) = NoPhase, SubPhase(i) = NoPhase
    PROVE  Clean(i)
<1>1. ~exec[i].live
    BY DEF IInv, TypeInv, CleanInv, ObjectInv, Handled, ExecPhase, IsExecution, NoPhase
<1>2. ASSUME NEW j \in Children(i) PROVE ~inst[j].live
  <2>1. j \in Insts /\ j \in Inner
      BY Forest DEF Inner
  <2>2. inst[j].live => Handled(inst[j])
      BY <2>1 DEF IInv, CleanInv, ObjectInv
  <2>3. inst[j].live =>
          (IF inst[j].gen # inst[j].obs THEN "Progressing" ELSE inst[j].phase) = NoPhase
      BY CombinedNothing DEF SubPhase, LiveSubs
  <2> QED
      BY <2>2, <2>3 DEF Handled, NoPhase
<1> QED
    BY <1>1, <1>2 DEF Clean

\* When they are completed or empty, everything that exists has been observed.
LEMMA CompletedIsStarted ==
    ASSUME NEW i \in Insts, IInv, Ensured(i),
           ChildPhase(i) = NoPhase \/ IsCompleted(ChildPhase(i))
    PROVE  Started(i)
<1>1. ExecPhase(i) # "Progressing" /\ SubPhase(i) # "Progressing"
    BY CombinedNothing DEF ChildPhase, IsCompleted, CompletedPhases, NoPhase
<1>2. exec[i].live => exec[i].obs # 0
    BY <1>1 DEF ExecPhase, IInv, CleanInv, ObjectInv, Handled
<1>3. ASSUME NEW j \in Children(i) PROVE inst[j].obs # 0
  <2>1. j \in Insts /\ j \in Inner
      BY Forest DEF Inner
  <2>2. inst[j].live /\ Handled(inst[j])
      BY <2>1 DEF IInv, CleanInv, ObjectInv, Ensured
  <2>3. inst[j].gen = inst[j].obs
      BY <1>1, <2>2, CombinedNothing DEF SubPhase, LiveSubs
  <2> QED
      BY <2>2, <2>3 DEF Handled
<1> QED
    BY <1>2, <1>3 DEF Started

\* HandleSubComponentPhaseChanges finds a phase when all has been started.
LEMMA StartedIsHandled ==
    ASSUME NEW i \in Insts, IInv, Started(i), RawPhases(i) # {},
           run[i].l.eref => exec[i].live
    PROVE  CombinedPhase(RawPhases(i)) # NoPhase
<1>1. ASSUME NEW j \in LiveSubs(i) PROVE inst[j].phase # NoPhase
  <2>1. j \in Insts /\ j \in Inner /\ j \in Children(i) /\ inst[j].live
      BY Forest DEF Inner, LiveSubs
  <2> QED
      BY <2>1 DEF IInv, CleanInv, ObjectInv, Handled, Started
<1>2. exec[i].live => exec[i].phase # NoPhase
    BY DEF IInv, CleanInv, ObjectInv, Handled, Started
<1>3. \A p \in RawPhases(i) : p # NoPhase
    BY <1>1, <1>2 DEF RawPhases
<1> QED
    BY <1>3, CombinedNothing

-----------------------------------------------------------------------------
(* The actions without a write to what the invariant reads.                *)

LEMMA FinishStage ==
    ASSUME NEW i, NEW s, s.pc = "finish"
    PROVE  StageInv(i, s)
BY DEF StageInv, Constructs, Publishes

\* reconcile and the error handler are entered with another phase.
LEMMA NewPhase ==
    ASSUME NEW i \in Insts, NEW r, IsRun(i, r), NEW p \in Phase
    PROVE  LET s == [r EXCEPT !.pc = "finish", !.l.phase = p]
           IN  /\ DOMAIN s = RunFields /\ IsObject(i, s.l) /\ s.pc = "finish"
               /\ s.todo = r.todo
               /\ s.l.del = r.l.del /\ s.l.gen = r.l.gen /\ s.l.obs = r.l.obs
               /\ s.l.spec = r.l.spec /\ s.l.phase = p
BY DEF IsRun, RunFields, IsObject, ObjectFields

LEMMA PhaseStep ==
    ASSUME NEW i \in Insts, NEW p \in Phase, IInv, SameObjects, Busy(run[i]),
           run' = [run EXCEPT ![i] = [run[i] EXCEPT !.pc = "finish", !.l.phase = p]],
           p # NoPhase,
           ~IsCompleted(p)
           \/ (run[i].l.obs # 0 /\ ~run[i].l.del /\ i \in Inner => Started(i))
    PROVE  IInv'
<1> DEFINE s == [run[i] EXCEPT !.pc = "finish", !.l.phase = p]
<1>1. IsRun(i, run[i])
    BY DEF IInv, TypeInv
<1>2. /\ DOMAIN s = RunFields /\ IsObject(i, s.l) /\ s.pc = "finish"
      /\ s.todo = run[i].todo
      /\ s.l.del = run[i].l.del /\ s.l.gen = run[i].l.gen /\ s.l.obs = run[i].l.obs
      /\ s.l.spec = run[i].l.spec /\ s.l.phase = p
    BY <1>1, NewPhase
<1>3. run' = [run EXCEPT ![i] = s]
    OBVIOUS
<1> HIDE DEF s
<1>4. Advances(i, run[i], s) /\ Busy(s) /\ StageInv(i, s)
    BY <1>1, <1>2, FinishStage DEF Advances, IsRun, Busy, PCs
<1> QED
    BY <1>3, <1>4, AdvanceStep

LEMMA GetStep ==
    ASSUME NEW i \in Insts, IInv, Get(i)
    PROVE  IInv'
<1> DEFINE o == inst[i]
           p == IF ~o.del /\ ~o.fin THEN "finalizer"
                ELSE IF o.del THEN "delete"
                ELSE IF o.op = "reconcile" THEN "dropOp"
                ELSE IF o.op = "force" THEN "context"
                ELSE IF IsCompleted(o.phase) /\ o.obs = o.gen THEN "recheck"
                ELSE "check"
           s == [Idle EXCEPT !.pc = p, !.l = o]
<1>1. SameObjects
    BY Unwritten DEF Get
<1>2. /\ run[i].pc = "idle" /\ ~Busy(run[i])
      /\ \/ o.live /\ run' = [run EXCEPT ![i] = s]
         \/ run' = run
    BY DEF Get, At, Busy
<1>3. CASE o.live /\ run' = [run EXCEPT ![i] = s]
  <2>1. IsObject(i, o) /\ ObjectInv(i)
      BY DEF IInv, TypeInv, CleanInv
  <2>2. s.pc = p /\ s.l = o /\ s.mode = "none" /\ s.todo = {} /\ DOMAIN s = RunFields
      BY DEF Idle, RunFields
  <2>3. IsRun(i, s)
      BY <2>1, <2>2 DEF IsRun, PCs
  <2>4. CASE ~o.del /\ ~o.fin
      BY <1>1, <1>2, <1>3, <2>2, <2>3, <2>4, LocalStep DEF NextRun, RunInv, Busy
  <2>5. CASE o.fin
    <3>1. Busy(s)
        BY <2>2, <2>5 DEF Busy
    <3>2. o.del => Leaving(i)
        BY <1>2 DEF Leaving
    <3>3. ~o.del => Staying(i)
        BY <1>3 DEF Staying, Leaving
    <3>4. CopyInv(i, s.l)
        BY <1>3, <2>1, <2>2, <3>3 DEF CopyInv, ObjectInv
    <3>5. s.pc \in {"delete", "dropOp", "check", "context", "recheck"}
          /\ (s.pc = "delete" <=> o.del)
          /\ (s.pc = "context" => o.op = "force")
          /\ (s.pc = "recheck" => IsCompleted(o.phase) /\ o.obs = o.gen)
        BY <2>2, <2>5
    <3>6. i \in Inner /\ s.pc = "recheck" => Started(i)
        BY <1>3, <2>1, <3>3, <3>5 DEF ObjectInv, Evident, Handled
    <3>7. StageInv(i, s)
        BY <2>2, <3>5, <3>6 DEF StageInv, Constructs, Publishes
    <3>8. RunInv(i, s)
        BY <1>3, <2>2, <2>5, <3>4, <3>7 DEF RunInv
    <3>9. NextRun(i, s)
        BY <1>2, <1>3, <2>2, <2>3 DEF NextRun
    <3> QED
        BY <1>1, <3>8, <3>9, LocalStep
  <2> QED
      BY <2>1, <2>4, <2>5 DEF ObjectInv, IsObject
<1>4. CASE run' = run
    BY <1>4, Stutter DEF Get
<1> QED
    BY <1>2, <1>3, <1>4

\* Writes of operations.
LEMMA OperationsWritten ==
    ASSUME IInv, NEW J \in SUBSET Insts, NEW op, exec' = exec,
           inst' = [j \in Insts |-> IF j \in J THEN [inst[j] EXCEPT !.op = op]
                                    ELSE inst[j]]
    PROVE  SameObjects
<1>1. ASSUME NEW k \in Insts
      PROVE  /\ IsObject(k, [inst[k] EXCEPT !.op = op])
             /\ SameCore(inst[k], [inst[k] EXCEPT !.op = op])
    BY ChangedObject DEF IInv, TypeInv, SameCore, IsObject, ObjectFields
<1>2. \A k \in Insts : IsObject(k, inst'[k]) /\ SameCore(inst[k], inst'[k])
    BY <1>1 DEF IInv, TypeInv, SameCore
<1> QED
    BY <1>2 DEF SameObjects

LEMMA OperationWritten ==
    ASSUME IInv, NEW i \in Insts, NEW op, exec' = exec,
           inst' = [inst EXCEPT ![i].op = op]
    PROVE  SameObjects
<1>1. inst' = [j \in Insts |-> IF j \in {i} THEN [inst[j] EXCEPT !.op = op]
                               ELSE inst[j]]
    BY DEF IInv, TypeInv
<1> QED
    BY <1>1, OperationsWritten, ZenonT(40)

LEMMA DropReconcileStep ==
    ASSUME NEW i \in Insts, IInv, DropReconcile(i)
    PROVE  IInv'
<1> DEFINE s == [run[i] EXCEPT !.pc = "check", !.l.op = "none"]
<1>1. IsRun(i, run[i]) /\ Busy(run[i])
    BY DEF IInv, TypeInv, DropReconcile, At, Busy
<1>2. CASE inst' = [inst EXCEPT ![i].op = "none"] /\ run' = [run EXCEPT ![i] = s]
  <2>1. SameObjects
      BY <1>2, OperationWritten DEF DropReconcile
  <2>2. /\ DOMAIN s = RunFields /\ IsObject(i, s.l) /\ s.pc = "check" /\ s.todo = run[i].todo
        /\ s.l.del = run[i].l.del /\ s.l.gen = run[i].l.gen /\ s.l.obs = run[i].l.obs
        /\ s.l.spec = run[i].l.spec /\ s.l.phase = run[i].l.phase
      BY <1>1 DEF IsRun, RunFields, IsObject, ObjectFields
  <2> HIDE DEF s
  <2>3. Advances(i, run[i], s) /\ Busy(s) /\ StageInv(i, s)
      BY <1>1, <2>2 DEF Advances, Busy, StageInv, Constructs, Publishes, PCs, IsRun
  <2> QED
      BY <1>1, <1>2, <2>1, <2>3, AdvanceStep
<1>3. CASE UNCHANGED <<inst, exec>> /\ run' = [run EXCEPT ![i] = Idle]
    BY <1>3, Unwritten, EndStep
<1> QED
    BY <1>2, <1>3 DEF DropReconcile, Continue, Return

\* reconcile and forceReconcile, and the beginning of the construction of
\* imports: with the phase p, or as it was.
LEMMA ConstructStep ==
    ASSUME NEW i \in Insts, NEW s, IInv, SameObjects, Busy(run[i]),
           run' = [run EXCEPT ![i] = s],
           DOMAIN s = RunFields, s.pc \in {"values", "confs"}, IsObject(i, s.l),
           s.todo = run[i].todo,
           s.l.del = run[i].l.del, s.l.gen = run[i].l.gen,
           s.l.obs = run[i].l.obs, s.l.spec = run[i].l.spec,
           s.l.phase = run[i].l.phase \/ s.l.phase = "Pending",
           \/ s.l.del
           \/ s.mode \in {"update", "force"}
           \/ s.mode = "complete" /\ (i \in Inner => Started(i))
    PROVE  IInv'
<1>1. IsRun(i, run[i])
    BY DEF IInv, TypeInv
<1>2. Advances(i, run[i], s)
    BY <1>1 DEF Advances, PCs, IsRun, NoPhase, IsCompleted, CompletedPhases
<1>3. StageInv(i, s) /\ Busy(s)
    BY DEF StageInv, Constructs, Publishes, Busy
<1> QED
    BY <1>2, <1>3, AdvanceStep

LEMMA CheckChildrenStep ==
    ASSUME NEW i \in Insts, IInv, CheckChildren(i)
    PROVE  IInv'
<1> DEFINE r == run[i]
           p == IF ChildPhase(i) = NoPhase THEN "Succeeded" ELSE ChildPhase(i)
           To(q) == [r EXCEPT !.pc = "finish", !.l.phase = q]
           On == [r EXCEPT !.pc = "context", !.mode = p]
<1>1. IsRun(i, r) /\ Busy(r) /\ r.pc = "check"
    BY DEF IInv, TypeInv, CheckChildren, At, Busy
<1>2. SameObjects
    BY Unwritten DEF CheckChildren
<1>3. RunInv(i, r)
    BY DEF IInv, CleanInv
<1>4. i \in Inner /\ ~r.l.del /\ r.l.obs # 0 /\ IsCompleted(p) => Started(i)
  <2>1. i \in Inner /\ ~r.l.del /\ r.l.obs # 0 => Ensured(i)
      BY <1>1, <1>3 DEF RunInv, CopyInv, Evident
  <2> QED
      BY <2>1, CompletedIsStarted DEF IsCompleted
<1>5. \/ run' = [run EXCEPT ![i] = To("Progressing")]
      \/ IsCompleted(p) /\ run' = [run EXCEPT ![i] = To("Aborted")]
      \/ IsCompleted(p) /\ run' = [run EXCEPT ![i] = On]
    BY DEF CheckChildren, Continue
<1> HIDE DEF p
<1>6. CASE run' = [run EXCEPT ![i] = To("Progressing")]
    BY <1>1, <1>2, <1>6, PhaseStep DEF Phase, RunningPhases, IsCompleted, CompletedPhases, NoPhase
<1>7. CASE IsCompleted(p) /\ run' = [run EXCEPT ![i] = To("Aborted")]
  <2>1. i \in Inner /\ ~r.l.del /\ r.l.obs # 0 => Started(i)
      BY <1>4, <1>7
  <2> QED
      BY <1>1, <1>2, <1>7, <2>1, PhaseStep DEF Phase, CompletedPhases, NoPhase
<1>8. CASE IsCompleted(p) /\ run' = [run EXCEPT ![i] = On]
  <2> PICK s : s = On
      OBVIOUS
  <2>1. /\ DOMAIN s = RunFields /\ s.l = r.l /\ s.pc = "context" /\ s.todo = r.todo
        /\ s.mode = p
      BY <1>1 DEF IsRun, RunFields
  <2>2. StageInv(i, s) /\ Busy(s)
      BY <1>4, <1>8, <2>1 DEF StageInv, Constructs, Publishes, Busy, IsCompleted
  <2>3. Advances(i, r, s)
      BY <1>1, <2>1 DEF Advances, IsRun, PCs
  <2> QED
      BY <1>1, <1>2, <1>8, <2>2, <2>3, AdvanceStep
<1> QED
    BY <1>5, <1>6, <1>7, <1>8

LEMMA InitPrerequisitesStep ==
    ASSUME NEW i \in Insts, IInv, InitPrerequisites(i)
    PROVE  IInv'
<1> DEFINE r == run[i]
           Forced == [r EXCEPT !.ready = ContextReady(i), !.pc = "values",
                               !.mode = "force", !.l.phase = "Pending"]
           On == [r EXCEPT !.ready = ContextReady(i), !.pc = "eligible",
                           !.refs = Importers(i)]
<1>1. IsRun(i, r) /\ Busy(r) /\ r.pc = "context" /\ StageInv(i, r)
    BY DEF IInv, TypeInv, CleanInv, RunInv, InitPrerequisites, At, Busy
<1>2. SameObjects
    BY Unwritten DEF InitPrerequisites
<1>3. CASE run' = [run EXCEPT ![i] = Fails(r)]
    BY <1>1, <1>2, <1>3, FailStep
<1>4. CASE run' = [run EXCEPT ![i] = Forced]
  <2> PICK s : s = Forced
      OBVIOUS
  <2>1. /\ DOMAIN s = RunFields /\ IsObject(i, s.l) /\ s.pc = "values" /\ s.todo = r.todo
        /\ s.l.del = r.l.del /\ s.l.gen = r.l.gen /\ s.l.obs = r.l.obs
        /\ s.l.spec = r.l.spec /\ s.l.phase = "Pending" /\ s.mode = "force"
      BY <1>1 DEF IsRun, RunFields, IsObject, ObjectFields, Phase, RunningPhases
  <2> QED
      BY <1>1, <1>2, <1>4, <2>1, ConstructStep
<1>5. CASE r.l.op # "force" /\ run' = [run EXCEPT ![i] = On]
  <2> PICK s : s = On
      OBVIOUS
  <2>1. /\ DOMAIN s = RunFields /\ s.l = r.l /\ s.pc = "eligible" /\ s.todo = r.todo
        /\ s.mode = r.mode
      BY <1>1 DEF IsRun, RunFields
  <2>2. StageInv(i, s) /\ Busy(s)
      BY <1>1, <1>5, <2>1 DEF StageInv, Constructs, Publishes, Busy
  <2>3. Advances(i, r, s)
      BY <1>1, <2>1 DEF Advances, IsRun, PCs
  <2> QED
      BY <1>1, <1>2, <1>5, <2>2, <2>3, AdvanceStep
<1> QED
    BY <1>3, <1>4, <1>5 DEF InitPrerequisites, Continue, ReadContext

LEMMA CheckEligibleStep ==
    ASSUME NEW i \in Insts, IInv, CheckEligible(i)
    PROVE  IInv'
<1> DEFINE r == run[i]
           Update == [r EXCEPT !.pc = "values", !.mode = "update", !.l.phase = "Pending"]
           To == [r EXCEPT !.pc = "finish", !.l.phase = r.mode]
           Complete == [r EXCEPT !.pc = "values", !.mode = "complete"]
<1>1. IsRun(i, r) /\ Busy(r) /\ r.pc = "eligible" /\ RunInv(i, r) /\ StageInv(i, r)
    BY DEF IInv, TypeInv, CleanInv, RunInv, CheckEligible, At, Busy
<1>2. SameObjects
    BY Unwritten DEF CheckEligible
<1>3. i \in Inner /\ ~r.l.del /\ r.l.obs # 0 => Started(i)
    BY <1>1 DEF StageInv
<1>4. r.mode \in Phase /\ r.mode # NoPhase
    BY <1>1 DEF StageInv, Phase, NoPhase, CompletedPhases
<1>5. CASE run' = [run EXCEPT ![i] = Fails(r)]
    BY <1>1, <1>2, <1>5, FailStep
<1>6. CASE run' = [run EXCEPT ![i] = Update]
  <2> PICK s : s = Update
      OBVIOUS
  <2>1. /\ DOMAIN s = RunFields /\ IsObject(i, s.l) /\ s.pc = "values" /\ s.todo = r.todo
        /\ s.l.del = r.l.del /\ s.l.gen = r.l.gen /\ s.l.obs = r.l.obs
        /\ s.l.spec = r.l.spec /\ s.l.phase = "Pending" /\ s.mode = "update"
      BY <1>1 DEF IsRun, RunFields, IsObject, ObjectFields, Phase, RunningPhases
  <2> QED
      BY <1>1, <1>2, <1>6, <2>1, ConstructStep
<1>7. CASE run' = [run EXCEPT ![i] = To]
    BY <1>1, <1>2, <1>3, <1>4, <1>7, PhaseStep
<1>8. CASE ~EligibleToUpdate(i, r.l) /\ run' = [run EXCEPT ![i] = Complete]
  <2>1. i \in Inner /\ ~r.l.del => Started(i)
    <3>1. r.l.gen = r.l.obs
        BY <1>8 DEF EligibleToUpdate
    <3>2. i \in Inner => r.l.gen # 0
        BY <1>1 DEF RunInv, CopyInv, Handled
    <3> QED
        BY <1>3, <3>1, <3>2
  <2> PICK s : s = Complete
      OBVIOUS
  <2>2. /\ DOMAIN s = RunFields /\ s.l = r.l /\ s.pc = "values" /\ s.todo = r.todo
        /\ s.mode = "complete"
      BY <1>1 DEF IsRun, RunFields
  <2> QED
      BY <1>1, <1>2, <1>8, <2>1, <2>2, ConstructStep DEF IsRun
<1> QED
    BY <1>5, <1>6, <1>7, <1>8 DEF CheckEligible, Continue

LEMMA ReadValuesStep ==
    ASSUME NEW i \in Insts, IInv, ReadValues(i)
    PROVE  IInv'
<1> DEFINE r == run[i]
           s == [r EXCEPT !.pc = "confs", !.vals =
                            [k \in Imports[i] |-> data[Parent[i]][k]]]
<1>1. IsRun(i, r) /\ Busy(r) /\ r.pc = "values" /\ StageInv(i, r)
    BY DEF IInv, TypeInv, CleanInv, RunInv, ReadValues, At, Busy
<1>2. SameObjects
    BY Unwritten DEF ReadValues
<1>3. CASE run' = [run EXCEPT ![i] = s]
  <2>1. /\ DOMAIN s = RunFields /\ s.l = r.l /\ s.pc = "confs" /\ s.todo = r.todo
        /\ s.mode = r.mode
      BY <1>1 DEF IsRun, RunFields
  <2> HIDE DEF s
  <2>2. \/ r.l.del
        \/ r.mode \in {"update", "force"}
        \/ r.mode = "complete" /\ (i \in Inner => Started(i))
      BY <1>1 DEF StageInv, Constructs
  <2> QED
      BY <1>1, <1>2, <1>3, <2>1, <2>2, ConstructStep DEF IsRun
<1>4. CASE run' = [run EXCEPT ![i] = Fails(r)]
    BY <1>1, <1>2, <1>4, FailStep
<1> QED
    BY <1>3, <1>4 DEF ReadValues, Continue

\* A later stage of the run, with the copy as it was.
LEMMA StageStep ==
    ASSUME NEW i \in Insts, NEW s, IInv, SameObjects, Busy(run[i]), Busy(s),
           run' = [run EXCEPT ![i] = s],
           DOMAIN s = RunFields, s.pc \in PCs, s.l = run[i].l,
           s.todo \in SUBSET Children(i), StageInv(i, s)
    PROVE  IInv'
<1>1. IsRun(i, run[i])
    BY DEF IInv, TypeInv
<1>2. Advances(i, run[i], s)
    BY <1>1 DEF Advances, IsRun
<1> QED
    BY <1>2, AdvanceStep

LEMMA WriteImportsStep ==
    ASSUME NEW i \in Insts, IInv, WriteImports(i)
    PROVE  IInv'
<1> DEFINE r == run[i]
           confs == [k \in Imports[i] |->
                       IF Source(i, k) = Root THEN r.vals[k] ELSE ConfOf(i, k)]
           update == [r EXCEPT !.pc = "ensure", !.confs = confs,
                               !.l.phase = "Progressing"]
           complete == [r EXCEPT !.pc = "exports"]
<1>1. IsRun(i, r) /\ Busy(r) /\ r.pc = "confs" /\ StageInv(i, r)
    BY DEF IInv, TypeInv, CleanInv, RunInv, WriteImports, At, Busy
<1>2. SameObjects
    BY Unwritten DEF WriteImports
<1>3. CASE r.mode = "complete" /\ run' = [run EXCEPT ![i] = complete]
  <2> DEFINE s == complete
  <2>1. /\ DOMAIN s = RunFields /\ s.l = r.l /\ s.pc = "exports" /\ s.todo = r.todo
        /\ s.mode = r.mode
      BY <1>1 DEF IsRun, RunFields
  <2> HIDE DEF s
  <2>2. i \in Inner /\ ~r.l.del => Started(i)
      BY <1>1, <1>3 DEF StageInv
  <2>3. StageInv(i, s)
      BY <1>3, <2>1, <2>2 DEF StageInv, Constructs
  <2> QED
      BY <1>1, <1>2, <1>3, <2>1, <2>3, StageStep DEF s, IsRun, Busy, PCs
<1>4. CASE r.mode # "complete" /\ run' = [run EXCEPT ![i] = update]
  <2> DEFINE s == update
  <2>1. /\ DOMAIN s = RunFields /\ IsObject(i, s.l) /\ s.pc = "ensure" /\ s.todo = r.todo
        /\ s.l.del = r.l.del /\ s.l.gen = r.l.gen /\ s.l.obs = r.l.obs /\ s.l.spec = r.l.spec
        /\ s.l.phase = "Progressing" /\ s.mode = r.mode
      BY <1>1 DEF IsRun, RunFields, IsObject, ObjectFields, Phase, RunningPhases
  <2> HIDE DEF s
  <2>2. Advances(i, r, s) /\ Busy(s)
      BY <1>1, <2>1 DEF Advances, Busy, PCs, IsRun, NoPhase, IsCompleted, CompletedPhases
  <2>3. StageInv(i, s)
      BY <1>1, <1>4, <2>1 DEF StageInv, Constructs, Publishes
  <2> QED
      BY <1>1, <1>2, <1>4, <2>2, <2>3, AdvanceStep DEF s
<1>5. CASE run' = [run EXCEPT ![i] = Fails(r)]
    BY <1>1, <1>2, <1>5, FailStep
<1> QED
    BY <1>3, <1>4, <1>5 DEF WriteImports, Continue

LEMMA WriteExportsStep ==
    ASSUME NEW i \in Insts, IInv, WriteExports(i)
    PROVE  IInv'
<1> DEFINE r == run[i]
           s == [r EXCEPT !.pc = "publish"]
<1>1. IsRun(i, r) /\ Busy(r) /\ r.pc = "exports" /\ StageInv(i, r)
    BY DEF IInv, TypeInv, CleanInv, RunInv, WriteExports, At, Busy
<1>2. SameObjects
    BY Unwritten DEF WriteExports
<1>3. CASE run' = [run EXCEPT ![i] = s]
  <2>1. /\ DOMAIN s = RunFields /\ s.l = r.l /\ s.pc = "publish" /\ s.todo = r.todo
        /\ s.mode = r.mode
      BY <1>1 DEF IsRun, RunFields
  <2> HIDE DEF s
  <2>2. StageInv(i, s)
      BY <1>1, <2>1 DEF StageInv, Constructs, Publishes
  <2> QED
      BY <1>1, <1>2, <1>3, <2>1, <2>2, StageStep DEF IsRun, Busy, PCs
<1>4. CASE run' = [run EXCEPT ![i] = Fails(r)]
    BY <1>1, <1>2, <1>4, FailStep
<1>5. CASE run' = [run EXCEPT ![i] = Idle]
    BY <1>2, <1>5, EndStep
<1> QED
    BY <1>3, <1>4, <1>5 DEF WriteExports, Continue, Return

LEMMA TriggerSubsStep ==
    ASSUME NEW i \in Insts, IInv, TriggerSubs(i)
    PROVE  IInv'
<1> DEFINE r == run[i]
           s == [r EXCEPT !.pc = "exec"]
           gone == {j \in r.refs : ~inst[j].live}
           mark(js) == inst' = [j \in Insts |-> IF j \in js
                           THEN [inst[j] EXCEPT !.op = "reconcile"] ELSE inst[j]]
<1>1. IsRun(i, r) /\ Busy(r) /\ r.pc = "trigger" /\ StageInv(i, r)
    BY DEF IInv, TypeInv, CleanInv, RunInv, TriggerSubs, At, Busy
<1>2. exec' = exec
    BY DEF TriggerSubs
<1>3. \A js : mark(js) => SameObjects
  <2> SUFFICES ASSUME NEW js, mark(js) PROVE SameObjects
      OBVIOUS
  <2>1. inst' = [j \in Insts |-> IF j \in js \cap Insts
                    THEN [inst[j] EXCEPT !.op = "reconcile"] ELSE inst[j]]
      OBVIOUS
  <2> QED
      BY <1>2, <2>1, OperationsWritten, ZenonT(40)
<1>4. \/ mark(r.refs) /\ run' = [run EXCEPT ![i] = s]
      \/ (\E js \in SUBSET (r.refs \ gone) : mark(js)) /\ run' = [run EXCEPT ![i] = Fails(r)]
    BY DEF TriggerSubs, Continue
<1>5. CASE mark(r.refs) /\ run' = [run EXCEPT ![i] = s]
  <2>1. DOMAIN s = RunFields /\ s.l = r.l /\ s.pc = "exec" /\ s.todo = r.todo /\ s.mode = r.mode
      BY <1>1 DEF IsRun, RunFields
  <2>2. SameObjects
      BY <1>3, <1>5
  <2> HIDE DEF s, mark
  <2>3. StageInv(i, s)
      BY <1>1, <2>1 DEF StageInv, Constructs, Publishes
  <2> QED
      BY <1>1, <1>5, <2>1, <2>2, <2>3, StageStep DEF IsRun, Busy, PCs
<1>6. CASE (\E js \in SUBSET (r.refs \ gone) : mark(js)) /\ run' = [run EXCEPT ![i] = Fails(r)]
  <2>1. SameObjects
      BY <1>3, <1>6
  <2> QED
      BY <1>1, <1>6, <2>1, FailStep
<1> QED
    BY <1>4, <1>5, <1>6

LEMMA TriggerDependantsStep ==
    ASSUME NEW i \in Insts, IInv, TriggerDependants(i)
    PROVE  IInv'
<1> DEFINE r == run[i]
           s == [r EXCEPT !.pc = "finish"]
           mark(js) == inst' = [j \in Insts |-> IF j \in js
                           THEN [inst[j] EXCEPT !.op = "reconcile"] ELSE inst[j]]
<1>1. IsRun(i, r) /\ Busy(r)
    BY DEF IInv, TypeInv, CleanInv, TriggerDependants, At, Busy
<1>2. exec' = exec
    BY DEF TriggerDependants
<1>3. SameObjects
  <2>1. \E js : mark(js)
      BY DEF TriggerDependants
  <2> PICK js : mark(js)
      BY <2>1
  <2>2. inst' = [j \in Insts |-> IF j \in js \cap Insts
                    THEN [inst[j] EXCEPT !.op = "reconcile"] ELSE inst[j]]
      OBVIOUS
  <2> QED
      BY <1>2, <2>2, OperationsWritten, ZenonT(40)
<1>4. \/ run' = [run EXCEPT ![i] = s] \/ run' = [run EXCEPT ![i] = Fails(r)]
      \/ run' = [run EXCEPT ![i] = Idle]
    BY DEF TriggerDependants, Continue, Return
<1> HIDE DEF mark
<1>5. CASE run' = [run EXCEPT ![i] = s]
  <2>1. DOMAIN s = RunFields /\ s.l = r.l /\ s.pc = "finish" /\ s.todo = r.todo
      BY <1>1 DEF IsRun, RunFields
  <2> HIDE DEF s
  <2> QED
      BY <1>1, <1>3, <1>5, <2>1, FinishStage, StageStep DEF IsRun, Busy, PCs
<1>6. CASE run' = [run EXCEPT ![i] = Fails(r)]
    BY <1>1, <1>3, <1>6, FailStep
<1>7. CASE run' = [run EXCEPT ![i] = Idle]
    BY <1>3, <1>7, EndStep
<1> QED
    BY <1>4, <1>5, <1>6, <1>7

LEMMA RecheckStep ==
    ASSUME NEW i \in Insts, IInv, Recheck(i)
    PROVE  IInv'
<1> DEFINE r == run[i]
           cp == CombinedPhase(RawPhases(i))
           s == [r EXCEPT !.mode = cp, !.refs = Importers(i),
                          !.pc = IF cp = "Succeeded" THEN "exports" ELSE "rephase"]
<1>1. IsRun(i, r) /\ Busy(r) /\ StageInv(i, r) /\ r.pc = "recheck"
    BY DEF IInv, TypeInv, CleanInv, RunInv, Recheck, At, Busy
<1>2. SameObjects
    BY Unwritten DEF Recheck
<1>3. \/ run' = [run EXCEPT ![i] = Idle]
      \/ /\ RawPhases(i) # {} /\ (r.l.eref => exec[i].live)
         /\ run' = [run EXCEPT ![i] = s]
    BY DEF Recheck, Return, ReadContext
<1>4. CASE run' = [run EXCEPT ![i] = Idle]
    BY <1>2, <1>4, EndStep
<1>5. CASE /\ RawPhases(i) # {} /\ (r.l.eref => exec[i].live)
           /\ run' = [run EXCEPT ![i] = s]
  <2>1. i \in Inner => Started(i)
      BY <1>1 DEF StageInv
  <2>2. i \in Inner => cp # NoPhase
      BY <1>5, <2>1, StartedIsHandled
  <2>3. /\ DOMAIN s = RunFields /\ s.l = r.l /\ s.todo = r.todo /\ s.mode = cp
        /\ s.pc \in {"exports", "rephase"} /\ (s.pc = "exports" => cp = "Succeeded")
        /\ cp \in Phase
      BY <1>1, PhaseTypes DEF IsRun, RunFields, IInv
  <2> HIDE DEF s, cp
  <2>4. StageInv(i, s)
      BY <2>1, <2>2, <2>3 DEF StageInv, Constructs
  <2> QED
      BY <1>1, <1>2, <1>5, <2>3, <2>4, StageStep DEF IsRun, Busy, PCs
<1> QED
    BY <1>3, <1>4, <1>5

LEMMA DeleteStep ==
    ASSUME NEW i \in Insts, IInv, Delete(i)
    PROVE  IInv'
<1> DEFINE r == run[i]
           o == r.l
           Up(q) == [r EXCEPT !.pc = "values", !.mode = "delete",
                              !.ready = ContextReady(i), !.l.phase = q]
           To(p) == [r EXCEPT !.pc = p]
           Deleting == [r EXCEPT !.pc = "finish", !.l.phase = "Deleting"]
<1>1. IsRun(i, r) /\ Busy(r) /\ StageInv(i, r) /\ r.pc = "delete" /\ r.l.del
    BY DEF IInv, TypeInv, CleanInv, RunInv, StageInv, Delete, At, Busy
<1>2. SameObjects
    BY Unwritten DEF Delete
<1>3. \/ run' = [run EXCEPT ![i] = Fails(r)]
      \/ run' = [run EXCEPT ![i] = Up(IF o.op = "force" THEN o.phase ELSE "Pending")]
      \/ /\ ExecPhase(i) = NoPhase /\ SubPhase(i) = NoPhase
         /\ run' = [run EXCEPT ![i] = To("removeFinalizer")]
      \/ run' = [run EXCEPT ![i] = Deleting]
      \/ run' = [run EXCEPT ![i] = To("deleteAll")]
    BY DEF Delete, Continue, ReadContext
<1>4. CASE run' = [run EXCEPT ![i] = Fails(r)]
    BY <1>1, <1>2, <1>4, FailStep
<1>5. CASE run' = [run EXCEPT ![i] = Up(IF o.op = "force" THEN o.phase ELSE "Pending")]
  <2> DEFINE q == IF o.op = "force" THEN o.phase ELSE "Pending"
  <2>1. q \in Phase /\ (q = o.phase \/ q = "Pending")
      BY <1>1 DEF IsRun, IsObject, Phase, RunningPhases
  <2>0. run' = [run EXCEPT ![i] = Up(q)]
      BY <1>5
  <2> HIDE DEF q
  <2> DEFINE s == Up(q)
  <2>2. /\ DOMAIN s = RunFields /\ IsObject(i, s.l) /\ s.pc = "values" /\ s.todo = r.todo
        /\ s.l.del = o.del /\ s.l.gen = o.gen /\ s.l.obs = o.obs /\ s.l.spec = o.spec
        /\ s.l.phase = q
      BY <1>1, <2>1 DEF IsRun, RunFields, IsObject, ObjectFields
  <2>3. run' = [run EXCEPT ![i] = s]
      BY <2>0
  <2> HIDE DEF s
  <2> QED
      BY <1>1, <1>2, <2>1, <2>2, <2>3, ConstructStep
<1>6. CASE /\ ExecPhase(i) = NoPhase /\ SubPhase(i) = NoPhase
           /\ run' = [run EXCEPT ![i] = To("removeFinalizer")]
  <2> DEFINE s == To("removeFinalizer")
  <2>1. DOMAIN s = RunFields /\ s.l = o /\ s.pc = "removeFinalizer" /\ s.todo = r.todo
      BY <1>1 DEF IsRun, RunFields
  <2>2. Clean(i)
      BY <1>6, EmptyIsClean
  <2> HIDE DEF s
  <2>3. StageInv(i, s) /\ Busy(s)
      BY <1>1, <2>1, <2>2 DEF StageInv, Constructs, Publishes, Busy
  <2> QED
      BY <1>1, <1>2, <1>6, <2>1, <2>3, StageStep DEF s, IsRun, PCs
<1>7. CASE run' = [run EXCEPT ![i] = Deleting]
    BY <1>1, <1>2, <1>7, PhaseStep DEF Phase, RunningPhases, IsCompleted, CompletedPhases, NoPhase
<1>8. CASE run' = [run EXCEPT ![i] = To("deleteAll")]
  <2> DEFINE s == To("deleteAll")
  <2>1. DOMAIN s = RunFields /\ s.l = o /\ s.pc = "deleteAll" /\ s.todo = r.todo
      BY <1>1 DEF IsRun, RunFields
  <2> HIDE DEF s
  <2>2. StageInv(i, s) /\ Busy(s)
      BY <1>1, <2>1 DEF StageInv, Constructs, Publishes, Busy
  <2> QED
      BY <1>1, <1>2, <1>8, <2>1, <2>2, StageStep DEF s, IsRun, PCs
<1> QED
    BY <1>3, <1>4, <1>5, <1>6, <1>7, <1>8

LEMMA DropForceStep ==
    ASSUME NEW i \in Insts, IInv, DropForce(i)
    PROVE  IInv'
<1> DEFINE r == run[i]
           o == [inst[i] EXCEPT !.op = "none"]
           l == IF r.mode = "force"
                THEN [o EXCEPT !.obs = o.gen, !.phase = "Progressing"] ELSE o
           s == [r EXCEPT !.pc = "finish", !.l = l]
<1>1. IsRun(i, r) /\ Busy(r) /\ RunInv(i, r) /\ r.pc = "dropForce"
    BY DEF IInv, TypeInv, CleanInv, DropForce, At, Busy
<1>2. \/ inst' = [inst EXCEPT ![i] = o] /\ run' = [run EXCEPT ![i] = s]
      \/ inst' = inst /\ run' = [run EXCEPT ![i] = FailsPlain(r)]
      \/ inst' = inst /\ run' = [run EXCEPT ![i] = Fails(r)]
    BY DEF DropForce, Continue
<1>3. exec' = exec
    BY DEF DropForce
<1>4. CASE inst' = [inst EXCEPT ![i] = o] /\ run' = [run EXCEPT ![i] = s]
  <2>1. SameObjects
      BY <1>3, <1>4, OperationWritten
  <2>2. IsObject(i, inst[i]) /\ ObjectInv(i) /\ inst[i].live
      BY <1>1 DEF IInv, TypeInv, CleanInv, RunInv
  <2>3. /\ IsObject(i, l) /\ l.del = inst[i].del /\ l.gen = inst[i].gen /\ l.spec = inst[i].spec
        /\ \/ r.mode = "force" /\ l.obs = inst[i].gen /\ l.phase = "Progressing"
           \/ r.mode # "force" /\ l.obs = inst[i].obs /\ l.phase = inst[i].phase
    <3>1. CASE r.mode = "force"
        BY <2>2, <3>1 DEF IsObject, ObjectFields, Phase, RunningPhases
    <3>2. CASE r.mode # "force"
        BY <2>2, <3>2 DEF IsObject, ObjectFields
    <3> QED
        BY <3>1, <3>2
  <2> HIDE DEF l
  <2>4. /\ DOMAIN s = RunFields /\ s.l = l /\ s.pc = "finish" /\ s.todo = r.todo
      BY <1>1 DEF IsRun, RunFields
  <2> HIDE DEF s
  <2>5. ~l.del => Staying(i) /\ (i \in Inner => Ensured(i))
      BY <1>1, <2>2, <2>3 DEF RunInv, Staying, Leaving, StageInv
  <2>6. CopyInv(i, l)
      BY <2>2, <2>3, <2>5 DEF CopyInv, ObjectInv, Handled, Evident, NoPhase, IsCompleted, CompletedPhases
  <2>7. RunInv(i, s)
      BY <1>1, <2>3, <2>4, <2>6, FinishStage DEF RunInv
  <2>8. NextRun(i, s)
      BY <1>1, <1>4, <2>3, <2>4 DEF NextRun, IsRun, PCs, RunInv
  <2> QED
      BY <2>1, <2>7, <2>8, LocalStep
<1>5. CASE inst' = inst /\ (run' = [run EXCEPT ![i] = FailsPlain(r)] \/ run' = [run EXCEPT ![i] = Fails(r)])
    BY <1>1, <1>3, <1>5, Unwritten, FailStep
<1> QED
    BY <1>2, <1>4, <1>5

-----------------------------------------------------------------------------
(* Writes of the status.                                                   *)

\* The status of o is written; the run ends or goes on with r.
LEMMA StatusStep ==
    ASSUME NEW i \in Insts, NEW o, NEW r, IInv, Busy(run[i]), exec' = exec,
           inst' = [inst EXCEPT ![i] = WithStatus(@, o)],
           run' = [run EXCEPT ![i] = r],
           IsObject(i, o), CopyInv(i, o), o.del = run[i].l.del, IsRun(i, r),
           \/ r = Idle
           \/ /\ Busy(r) /\ RunInv(i, r) /\ r.l.del = run[i].l.del
              /\ o.obs # 0 => r.l.obs # 0
    PROVE  IInv'
<1>1. /\ DOMAIN run' = Insts /\ \A k \in Insts : IsRun(k, run'[k])
      /\ run'[i] = r /\ \A k \in Insts \ {i} : run'[k] = run[k]
    BY RunSet DEF IInv
<1>2. IsObject(i, WithStatus(inst[i], o))
    BY ChangedObject DEF IInv, TypeInv
<1>3. /\ inst'[i] = WithStatus(inst[i], o)
      /\ \A k \in Insts \ {i} : inst'[k] = inst[k]
      /\ DOMAIN inst' = Insts
    BY DEF IInv, TypeInv
<1>4. TypeInv'
    BY <1>1, <1>2, <1>3 DEF IInv, TypeInv
<1>5. /\ inst'[i].live = inst[i].live /\ inst'[i].fin = inst[i].fin
      /\ inst'[i].del = inst[i].del /\ inst'[i].gen = inst[i].gen
      /\ inst'[i].spec = inst[i].spec
      /\ inst'[i].obs = o.obs /\ inst'[i].phase = o.phase
    BY <1>3 DEF WithStatus, IInv, TypeInv, IsObject, ObjectFields
<1>6. /\ Clean(i)' <=> Clean(i)
      /\ Ensured(i)' <=> Ensured(i)
      /\ Started(i)' <=> Started(i)
      /\ \A j \in Children(i) : inst'[j] = inst[j]
    BY <1>3, Forest DEF Clean, Ensured, Started, Inner
<1>7. RunInv(i, run[i]) /\ ObjectInv(i)
    BY DEF IInv, CleanInv
<1>8. Leaving(i) => Leaving(i)'
  <2>1. ~Busy(Idle)
      BY DEF Idle, Busy
  <2>2. Busy(run'[i]) => run'[i].l.del = run[i].l.del
      BY <1>1, <2>1
  <2> QED
      BY <1>1, <1>5, <2>2 DEF Leaving
<1>9. Staying(i)' => ~o.del
    BY <1>5, <1>7, <1>8 DEF Staying, Leaving, RunInv
<1>10. ObjectInv(i)'
    BY <1>5, <1>6, <1>7, <1>8, <1>9 DEF ObjectInv, CopyInv, RunInv, Evident, Handled
<1>11. RunInv(i, run[i])'
    BY <1>1, <1>5, <1>6 DEF RunInv, CopyInv, StageInv, Evident, Idle, Busy
<1>12. i \in Inner => ChildMoves(i)
    BY <1>5, <1>7 DEF ChildMoves, RunInv, CopyInv
<1>13. /\ \A k \in Insts \ {i} : run'[k] = run[k] /\ exec'[k] = exec[k]
       /\ \A k \in Insts \ (Children(i) \cup {i}) : SameCore(inst[k], inst'[k])
       /\ \A k \in Children(i) : Foreign(k)
    BY <1>1, <1>3, <1>6 DEF SameCore, Foreign, Kept
<1> QED
    BY <1>4, <1>10, <1>11, <1>12, <1>13, OwnStep

\* The exception: an error that lasts for five minutes gives a subinstallation
\* the phase Failed although nothing of it has begun, and the empty phase that
\* HandleSubComponentPhaseChanges then computes makes its parent believe that
\* it is gone.
NothingLasts == "lasting" \notin Events \/ Insts = Roots

LEMMA FinishStep ==
    ASSUME NEW i \in Insts, IInv, NothingLasts, Finish(i)
    PROVE  IInv'
<1> DEFINE r == run[i]
           o(e) == [r.l EXCEPT !.err = e, !.phase = PhaseForLastError(@, e)]
<1>1. IsRun(i, r) /\ Busy(r) /\ RunInv(i, r)
    BY DEF IInv, TypeInv, CleanInv, Finish, At, Busy
<1>2. run' = [run EXCEPT ![i] = Idle] /\ exec' = exec
    BY DEF Finish, Return
<1>3. \/ inst' = inst
      \/ \E e \in {"none", "recent", "lasting"} :
            /\ inst' = [inst EXCEPT ![i] = WithStatus(@, o(e))]
            /\ e = "lasting" => "lasting" \in Events
    BY DEF Finish, Spend
<1>4. CASE inst' = inst
    BY <1>2, <1>4, Unwritten, EndStep
<1>5. ASSUME NEW e \in {"none", "recent", "lasting"},
             inst' = [inst EXCEPT ![i] = WithStatus(@, o(e))],
             e = "lasting" => "lasting" \in Events
      PROVE  IInv'
  <2> DEFINE p == PhaseForLastError(r.l.phase, e)
  <2>1. /\ p \in Phase
        /\ p = r.l.phase \/ p = "Failed"
        /\ i \in Inner => p = r.l.phase \/ r.l.phase = NoPhase
      BY <1>1, <1>5 DEF PhaseForLastError, Phase, CompletedPhases, IsRun, IsObject,
                        NothingLasts, Inner
  <2> HIDE DEF p
  <2>2. o(e) = [r.l EXCEPT !.err = e, !.phase = p]
      BY DEF p
  <2> DEFINE x == o(e)
  <2>3. /\ IsObject(i, x) /\ x.del = r.l.del /\ x.gen = r.l.gen /\ x.obs = r.l.obs
        /\ x.spec = r.l.spec /\ x.phase = p
      BY <1>1, <2>1, <2>2 DEF IsRun, IsObject, ObjectFields
  <2>4. inst' = [inst EXCEPT ![i] = WithStatus(@, x)]
      BY <1>5
  <2> HIDE DEF x
  <2>5. CopyInv(i, x)
      BY <1>1, <2>1, <2>3 DEF RunInv, CopyInv, Handled, Evident
  <2> QED
      BY <1>1, <1>2, <2>3, <2>4, <2>5, NewObjects, StatusStep
<1> QED
    BY <1>3, <1>4, <1>5

LEMMA PublishStep ==
    ASSUME NEW i \in Insts, IInv, Publish(i)
    PROVE  IInv'
<1> DEFINE r == run[i]
           o == [r.l EXCEPT !.conf = ConfigGeneration(r.l)]
           l == [o EXCEPT !.phase = "Succeeded"]
           complete == [r EXCEPT !.l = [o EXCEPT !.phase = "Succeeded"], !.pc = "dependants"]
           changed == [r EXCEPT !.l = o, !.pc = "rephase"]
           refused == Fails([r EXCEPT !.l = o])
<1>1. IsRun(i, r) /\ Busy(r) /\ RunInv(i, r) /\ r.pc = "publish" /\ StageInv(i, r)
    BY DEF IInv, TypeInv, CleanInv, RunInv, Publish, At, Busy
<1>2. /\ IsObject(i, o) /\ o.del = r.l.del /\ o.gen = r.l.gen /\ o.obs = r.l.obs
      /\ o.spec = r.l.spec /\ o.phase = r.l.phase
      /\ IsObject(i, l) /\ l.del = r.l.del /\ l.gen = r.l.gen /\ l.obs = r.l.obs
      /\ l.spec = r.l.spec /\ l.phase = "Succeeded"
    BY <1>1 DEF IsRun, IsObject, ObjectFields, Phase, CompletedPhases
<1>3. \/ /\ inst' = [inst EXCEPT ![i] = WithStatus(@, o)]
         /\ \/ run' = [run EXCEPT ![i] = complete]
            \/ r.mode # "complete" /\ run' = [run EXCEPT ![i] = changed]
      \/ inst' = inst /\ run' = [run EXCEPT ![i] = refused]
      \/ inst' = inst /\ run' = [run EXCEPT ![i] = Idle]
    BY DEF Publish, Continue, Return
<1>4. exec' = exec
    BY DEF Publish
<1>5. /\ DOMAIN complete = RunFields /\ complete.l = l /\ complete.pc = "dependants"
      /\ complete.todo = r.todo
      /\ DOMAIN changed = RunFields /\ changed.l = o /\ changed.pc = "rephase"
      /\ changed.todo = r.todo /\ changed.mode = r.mode
      /\ DOMAIN refused = RunFields /\ refused.l = o /\ refused.pc = "finish"
      /\ refused.todo = r.todo
    BY <1>1 DEF IsRun, RunFields, Fails
<1> HIDE DEF o, l, complete, changed, refused
<1>6. CopyInv(i, o) /\ CopyInv(i, l)
    BY <1>1, <1>2 DEF RunInv, CopyInv, StageInv, Publishes, Handled, Evident, NoPhase
<1>7. CASE inst' = [inst EXCEPT ![i] = WithStatus(@, o)] /\ run' = [run EXCEPT ![i] = complete]
  <2>1. StageInv(i, complete)
      BY <1>1, <1>2, <1>5 DEF StageInv, Constructs, Publishes
  <2>2. RunInv(i, complete) /\ Busy(complete) /\ IsRun(i, complete)
      BY <1>1, <1>2, <1>5, <1>6, <2>1 DEF RunInv, IsRun, Busy, PCs
  <2> QED
      BY <1>1, <1>2, <1>4, <1>5, <1>6, <1>7, <2>2, StatusStep
<1>8. CASE /\ inst' = [inst EXCEPT ![i] = WithStatus(@, o)]
           /\ r.mode # "complete" /\ run' = [run EXCEPT ![i] = changed]
  <2>1. StageInv(i, changed)
      BY <1>1, <1>2, <1>5, <1>8 DEF StageInv, Constructs, Publishes, Phase, CompletedPhases, NoPhase
  <2>2. RunInv(i, changed) /\ Busy(changed) /\ IsRun(i, changed)
      BY <1>1, <1>2, <1>5, <1>6, <2>1 DEF RunInv, IsRun, Busy, PCs
  <2> QED
      BY <1>1, <1>2, <1>4, <1>5, <1>6, <1>8, <2>2, StatusStep
<1>9. CASE inst' = inst /\ run' = [run EXCEPT ![i] = refused]
  <2>1. Advances(i, r, refused) /\ Busy(refused)
      BY <1>1, <1>2, <1>5 DEF Advances, IsRun, Busy, PCs
  <2> QED
      BY <1>1, <1>4, <1>5, <1>9, <2>1, Unwritten, FinishStage, AdvanceStep
<1>10. CASE inst' = inst /\ run' = [run EXCEPT ![i] = Idle]
    BY <1>4, <1>10, Unwritten, EndStep
<1> QED
    BY <1>3, <1>7, <1>8, <1>9, <1>10

LEMMA RephaseStep ==
    ASSUME NEW i \in Insts, IInv, Rephase(i)
    PROVE  IInv'
<1> DEFINE r == run[i]
           o == [r.l EXCEPT !.phase = r.mode]
           s == [r EXCEPT !.pc = "dependants", !.l = o]
<1>1. IsRun(i, r) /\ Busy(r) /\ RunInv(i, r) /\ r.pc = "rephase" /\ StageInv(i, r)
    BY DEF IInv, TypeInv, CleanInv, RunInv, Rephase, At, Busy
<1>2. /\ IsObject(i, o) /\ o.del = r.l.del /\ o.gen = r.l.gen /\ o.obs = r.l.obs
      /\ o.spec = r.l.spec /\ o.phase = r.mode
    BY <1>1 DEF IsRun, IsObject, ObjectFields, StageInv
<1>3. \/ /\ inst' = [inst EXCEPT ![i] = WithStatus(@, o)]
         /\ run' = [run EXCEPT ![i] = s] \/ run' = [run EXCEPT ![i] = Idle]
      \/ inst' = inst /\ run' = [run EXCEPT ![i] = Idle]
    BY DEF Rephase, Continue, Return
<1>4. exec' = exec
    BY DEF Rephase
<1>5. /\ DOMAIN s = RunFields /\ s.l = o /\ s.pc = "dependants" /\ s.todo = r.todo
    BY <1>1 DEF IsRun, RunFields
<1> HIDE DEF o, s
<1>6. CopyInv(i, o)
    BY <1>1, <1>2 DEF RunInv, CopyInv, StageInv, Publishes, Handled, Evident
<1>7. StageInv(i, s)
    BY <1>1, <1>2, <1>5 DEF StageInv, Constructs, Publishes
<1>8. RunInv(i, s) /\ Busy(s) /\ IsRun(i, s)
    BY <1>1, <1>2, <1>5, <1>6, <1>7 DEF RunInv, IsRun, Busy, PCs
<1>9. CASE inst' = inst
    BY <1>3, <1>4, <1>9, Unwritten, EndStep, <1>1, <1>2, <1>5, <1>6, <1>8, NewObjects, StatusStep
<1>10. CASE inst' = [inst EXCEPT ![i] = WithStatus(@, o)]
    BY <1>1, <1>2, <1>3, <1>4, <1>5, <1>6, <1>8, <1>10, NewObjects, Unwritten, EndStep, StatusStep
<1> QED
    BY <1>3, <1>9, <1>10

-----------------------------------------------------------------------------
(* The finalizer.                                                          *)

LEMMA AddFinalizerStep ==
    ASSUME NEW i \in Insts, IInv, AddFinalizer(i)
    PROVE  IInv'
<1>1. run' = [run EXCEPT ![i] = Idle] /\ exec' = exec /\ ~Busy(run[i])
    BY DEF AddFinalizer, Return, At, Busy
<1>2. CASE inst' = inst
    BY <1>1, <1>2, Unwritten, EndStep
<1>3. CASE inst' = [inst EXCEPT ![i].fin = TRUE]
  <2>1. /\ DOMAIN run' = Insts /\ \A k \in Insts : IsRun(k, run'[k])
        /\ run'[i] = Idle /\ \A k \in Insts \ {i} : run'[k] = run[k]
      BY <1>1, RunSet, NewObjects DEF IInv
  <2>2. /\ inst'[i] = [inst[i] EXCEPT !.fin = TRUE]
        /\ \A k \in Insts \ {i} : inst'[k] = inst[k]
        /\ DOMAIN inst' = Insts
      BY <1>3 DEF IInv, TypeInv
  <2>3. /\ inst'[i].live = inst[i].live /\ inst'[i].fin
        /\ inst'[i].del = inst[i].del /\ inst'[i].gen = inst[i].gen
        /\ inst'[i].spec = inst[i].spec
        /\ inst'[i].obs = inst[i].obs /\ inst'[i].phase = inst[i].phase
      BY <2>2 DEF IInv, TypeInv, IsObject, ObjectFields
  <2>4. TypeInv'
    <3>1. IsObject(i, inst[i])
        BY DEF IInv, TypeInv
    <3>2. IsObject(i, [inst[i] EXCEPT !.fin = TRUE])
        BY <3>1, ChangedObject
    <3>3. IsObject(i, inst'[i])
        BY <2>2, <3>2
    <3> QED
        BY <1>1, <2>1, <2>2, <3>3 DEF IInv, TypeInv
  <2>5. /\ Clean(i)' <=> Clean(i)
        /\ Ensured(i)' <=> Ensured(i)
        /\ Started(i)' <=> Started(i)
        /\ \A j \in Children(i) : inst'[j] = inst[j]
      BY <1>1, <2>2, Forest DEF Clean, Ensured, Started, Inner
  <2>6. ~Busy(run'[i])
      BY <2>1 DEF Idle, Busy
  <2>7. (Leaving(i)' <=> Leaving(i)) /\ (Staying(i)' <=> Staying(i))
      BY <1>1, <2>3, <2>6 DEF Leaving, Staying
  <2>8. ObjectInv(i)'
      BY <1>1, <2>3, <2>5, <2>7 DEF IInv, CleanInv, ObjectInv, Handled, Evident
  <2>9. RunInv(i, run[i])'
      BY <2>6 DEF RunInv
  <2>10. ChildMoves(i)
      BY <2>3 DEF ChildMoves
  <2>11. /\ \A k \in Insts \ {i} : run'[k] = run[k] /\ exec'[k] = exec[k]
         /\ \A k \in Insts \ (Children(i) \cup {i}) : SameCore(inst[k], inst'[k])
         /\ \A k \in Children(i) : Foreign(k)
      BY <1>1, <2>1, <2>2, <2>5 DEF SameCore, Foreign, Kept
  <2> QED
      BY <2>4, <2>8, <2>9, <2>10, <2>11, OwnStep
<1> QED
    BY <1>2, <1>3 DEF AddFinalizer

LEMMA RemoveFinalizerStep ==
    ASSUME NEW i \in Insts, IInv, RemoveFinalizer(i)
    PROVE  IInv'
<1>1. /\ Busy(run[i]) /\ RunInv(i, run[i]) /\ exec' = exec
      /\ Clean(i) /\ inst[i].del
    BY DEF RemoveFinalizer, At, Busy, IInv, CleanInv, RunInv, StageInv
<1>2. CASE inst' = inst /\ run' = [run EXCEPT ![i] = FailsPlain(run[i])]
    BY <1>1, <1>2, Unwritten, FailStep
<1>3. CASE inst' = [inst EXCEPT ![i] = NoInstallation] /\ run' = [run EXCEPT ![i] = Idle]
  <2>1. /\ DOMAIN run' = Insts /\ \A k \in Insts : IsRun(k, run'[k])
        /\ run'[i] = Idle /\ \A k \in Insts \ {i} : run'[k] = run[k]
      BY <1>3, RunSet, NewObjects DEF IInv
  <2>2. /\ inst'[i] = NoInstallation
        /\ \A k \in Insts \ {i} : inst'[k] = inst[k]
        /\ DOMAIN inst' = Insts
      BY <1>3 DEF IInv, TypeInv
  <2>3. ~inst'[i].live /\ ~inst'[i].del
      BY <2>2 DEF NoInstallation
  <2>4. TypeInv'
      BY <1>1, <2>1, <2>2, NewObjects DEF IInv, TypeInv
  <2>5. /\ Clean(i)'
        /\ \A j \in Children(i) : inst'[j] = inst[j]
      BY <1>1, <2>2, Forest DEF Clean, Inner
  <2>6. ~Busy(run'[i])
      BY <2>1 DEF Idle, Busy
  <2>7. ObjectInv(i)'
      BY <2>3, <2>5 DEF ObjectInv, Clean, Staying
  <2>8. RunInv(i, run[i])'
      BY <2>6 DEF RunInv
  <2>9. ChildMoves(i)
      BY <1>1, <2>3 DEF ChildMoves
  <2>10. /\ \A k \in Insts \ {i} : run'[k] = run[k] /\ exec'[k] = exec[k]
         /\ \A k \in Insts \ (Children(i) \cup {i}) : SameCore(inst[k], inst'[k])
         /\ \A k \in Children(i) : Foreign(k)
      BY <1>1, <2>1, <2>2, <2>5 DEF SameCore, Foreign, Kept
  <2> QED
      BY <2>4, <2>7, <2>8, <2>9, <2>10, OwnStep
<1> QED
    BY <1>2, <1>3 DEF RemoveFinalizer, Continue, Return

-----------------------------------------------------------------------------
(* Update: the execution.                                                  *)

\* The execution of i, its status, or both are written, and the run goes on.
LEMMA RolloutStep ==
    ASSUME NEW i \in Insts, NEW r, IInv, Busy(run[i]), Busy(r),
           run' = [run EXCEPT ![i] = r], IsRun(i, r), r.l.del = run[i].l.del,
           i \in Deploys,
           \/ exec' = exec
           \/ exec' = [exec EXCEPT ![i] = Rollout(i)],
           \/ inst' = inst
           \/ \E o : /\ inst' = [inst EXCEPT ![i] = WithStatus(@, o)]
                     /\ IsObject(i, o) /\ CopyInv(i, o) /\ o.del = run[i].l.del
                     /\ o.obs = run[i].l.obs,
           CopyInv(i, r.l)', StageInv(i, r)'
    PROVE  IInv'
<1>1. /\ DOMAIN run' = Insts /\ \A k \in Insts : IsRun(k, run'[k])
      /\ run'[i] = r /\ \A k \in Insts \ {i} : run'[k] = run[k]
    BY RunSet DEF IInv
<1>2. RunInv(i, run[i]) /\ ObjectInv(i) /\ IsObject(i, inst[i]) /\ IsExecution(exec[i])
    BY DEF IInv, TypeInv, CleanInv
<1>3. /\ DOMAIN inst' = Insts /\ IsObject(i, inst'[i])
      /\ \A k \in Insts \ {i} : inst'[k] = inst[k]
      /\ inst'[i].live = inst[i].live /\ inst'[i].fin = inst[i].fin
      /\ inst'[i].del = inst[i].del /\ inst'[i].gen = inst[i].gen
      /\ inst'[i].spec = inst[i].spec
      /\ i \in Inner => Handled(inst'[i]) /\ (inst[i].obs # 0 => inst'[i].obs # 0)
      /\ i \in Inner /\ ~run[i].l.del => Evident(i, inst'[i])
  <2>1. CASE inst' = inst
    <3>1. i \in Inner /\ ~run[i].l.del => Evident(i, inst[i])
        BY <1>2 DEF RunInv, ObjectInv, Staying, Leaving
    <3> QED
        BY <1>2, <2>1, <3>1 DEF IInv, TypeInv, RunInv, ObjectInv
  <2>2. CASE \E o : /\ inst' = [inst EXCEPT ![i] = WithStatus(@, o)]
                    /\ IsObject(i, o) /\ CopyInv(i, o) /\ o.del = run[i].l.del
                    /\ o.obs = run[i].l.obs
    <3> PICK o : /\ inst' = [inst EXCEPT ![i] = WithStatus(@, o)]
                 /\ IsObject(i, o) /\ CopyInv(i, o) /\ o.del = run[i].l.del
                 /\ o.obs = run[i].l.obs
        BY <2>2
    <3>1. /\ inst'[i] = WithStatus(inst[i], o) /\ DOMAIN inst' = Insts
          /\ \A k \in Insts \ {i} : inst'[k] = inst[k]
        BY DEF IInv, TypeInv
    <3>2. /\ inst'[i].live = inst[i].live /\ inst'[i].fin = inst[i].fin
          /\ inst'[i].del = inst[i].del /\ inst'[i].gen = inst[i].gen
          /\ inst'[i].spec = inst[i].spec
          /\ inst'[i].obs = o.obs /\ inst'[i].phase = o.phase
        BY <1>2, <3>1 DEF WithStatus, IsObject, ObjectFields
    <3>3. IsObject(i, inst'[i])
        BY <1>2, <3>1, ChangedObject
    <3> QED
        BY <1>2, <3>1, <3>2, <3>3 DEF CopyInv, RunInv, ObjectInv, Handled, Evident
  <2> QED
      BY <2>1, <2>2
<1>4. /\ DOMAIN exec' = Insts /\ IsExecution(exec'[i])
      /\ \A k \in Insts \ {i} : exec'[k] = exec[k]
      /\ exec'[i].live => Handled(exec'[i]) /\ (exec'[i].phase = "Deleting" => exec'[i].del)
      /\ exec[i].live => exec'[i].live /\ exec'[i].obs = exec[i].obs
      /\ exec'[i].live /\ exec'[i].del => exec[i].live /\ exec[i].del
  <2>1. CASE exec' = exec
      BY <1>2, <2>1 DEF IInv, TypeInv, ObjectInv
  <2>2. CASE exec' = [exec EXCEPT ![i] = Rollout(i)]
    <3> DEFINE in == Rendered(run[i].l, run[i].vals)
               op == IF run[i].l.op = "force" THEN "force" ELSE "reconcile"
    <3>1. exec'[i] = Rollout(i) /\ DOMAIN exec' = Insts
          /\ \A k \in Insts \ {i} : exec'[k] = exec[k]
        BY <2>2 DEF IInv, TypeInv
    <3>2. CASE ~exec[i].live
      <4>1. Rollout(i) = [NoExecution EXCEPT !.live = TRUE, !.gen = 1, !.op = op, !.in = in]
          BY <3>2 DEF Rollout
      <4> HIDE DEF in, op
      <4>2. /\ IsExecution(Rollout(i)) /\ Rollout(i).gen = 1 /\ Rollout(i).obs = 0
            /\ Rollout(i).phase = NoPhase /\ ~Rollout(i).del
          BY <4>1 DEF NoExecution, IsExecution, ExecutionFields, Phase
      <4>3. /\ IsExecution(exec'[i]) /\ exec'[i].gen = 1 /\ exec'[i].obs = 0
            /\ exec'[i].phase # "Deleting" /\ ~exec'[i].del
          BY <3>1, <4>2 DEF NoPhase
      <4> QED
          BY <3>1, <3>2, <4>3 DEF Handled
    <3>3. CASE exec[i].live
      <4>1. Rollout(i) = [exec[i] EXCEPT !.op = op, !.in = in,
                             !.gen = IF in = exec[i].in THEN @ ELSE @ + 1]
          BY <3>3 DEF Rollout
      <4> HIDE DEF in, op
      <4>2. /\ IsExecution(Rollout(i)) /\ Rollout(i).live = exec[i].live
            /\ Rollout(i).gen \in {exec[i].gen, exec[i].gen + 1}
            /\ Rollout(i).obs = exec[i].obs
            /\ Rollout(i).phase = exec[i].phase /\ Rollout(i).del = exec[i].del
          BY <1>2, <4>1 DEF IsExecution, ExecutionFields
      <4> QED
          BY <1>2, <3>1, <3>3, <4>2 DEF Handled, ObjectInv, IsExecution
    <3> QED
        BY <3>2, <3>3
  <2> QED
      BY <2>1, <2>2
<1>5. TypeInv'
    BY <1>1, <1>3, <1>4 DEF IInv, TypeInv
<1>6. /\ Ensured(i) => Ensured(i)'
      /\ Started(i) => Started(i)'
      /\ \A j \in Children(i) : inst'[j] = inst[j]
    BY <1>3, <1>4, Forest DEF Ensured, Started, Inner
<1>7. /\ Leaving(i) => Leaving(i)'
      /\ Staying(i)' => ~run[i].l.del
    BY <1>1, <1>2, <1>3 DEF Leaving, Staying, RunInv
<1>8. ObjectInv(i)'
  <2>1. inst'[i].live /\ inst'[i].fin
      BY <1>2, <1>3 DEF RunInv
  <2>2. i \in Inner => /\ Handled(inst'[i]) /\ inst'[i].spec.subs = Children(i)
                       /\ exec'[i].live /\ exec'[i].del => Leaving(i)'
                       /\ \A j \in Children(i) : inst'[j].live /\ inst'[j].del => Leaving(i)'
      BY <1>2, <1>3, <1>4, <1>6, <1>7, <2>1 DEF ObjectInv
  <2>3. i \in Inner /\ Staying(i)' => Evident(i, inst[i])'
      BY <1>3, <1>6, <1>7 DEF Evident
  <2> QED
      BY <1>4, <2>1, <2>2, <2>3 DEF ObjectInv
<1>9. RunInv(i, run[i])'
    BY <1>1, <1>2, <1>3 DEF RunInv
<1>10. i \in Inner => ChildMoves(i)
    BY <1>3 DEF ChildMoves
<1>11. /\ \A k \in Insts \ {i} : run'[k] = run[k] /\ exec'[k] = exec[k]
       /\ \A k \in Insts \ (Children(i) \cup {i}) : SameCore(inst[k], inst'[k])
       /\ \A k \in Children(i) : Foreign(k)
    BY <1>1, <1>3, <1>4, <1>6 DEF SameCore, Foreign, Kept
<1> QED
    BY <1>5, <1>8, <1>9, <1>10, <1>11, OwnStep

LEMMA UpdatedRun ==
    ASSUME NEW i \in Insts, NEW r, IsRun(i, r)
    PROVE  LET u == Updated(r) IN
           /\ IsRun(i, u) /\ u.l.del = r.l.del /\ u.l.gen = r.l.gen
           /\ u.l.obs = r.l.gen /\ u.l.spec = r.l.spec /\ u.l.phase = "Progressing"
           /\ u.pc = CASE r.mode = "update" -> "finish"
                       [] r.mode = "force" -> "dropForce"
                       [] OTHER -> "deleteAll"
<1> DEFINE p == CASE r.mode = "update" -> "finish"
                  [] r.mode = "force" -> "dropForce"
                  [] OTHER -> "deleteAll"
<1>1. p \in PCs
    BY DEF PCs
<1>2. Updated(r) = [r EXCEPT !.l.imports = r.confs, !.l.obs = r.l.gen,
                       !.l.phase = "Progressing", !.l.err = "none", !.pc = p]
    BY DEF Updated
<1> HIDE DEF p
<1>3. LET u == [r EXCEPT !.l.imports = r.confs, !.l.obs = r.l.gen,
                  !.l.phase = "Progressing", !.l.err = "none", !.pc = p]
      IN  /\ DOMAIN u = RunFields /\ u.pc = p /\ u.todo = r.todo
          /\ IsObject(i, u.l) /\ u.l.del = r.l.del /\ u.l.gen = r.l.gen
          /\ u.l.obs = r.l.gen /\ u.l.spec = r.l.spec /\ u.l.phase = "Progressing"
    BY DEF IsRun, RunFields, IsObject, ObjectFields, Phase, RunningPhases
<1>4. LET u == Updated(r)
      IN  /\ DOMAIN u = RunFields /\ u.pc = p /\ u.todo = r.todo
          /\ IsObject(i, u.l) /\ u.l.del = r.l.del /\ u.l.gen = r.l.gen
          /\ u.l.obs = r.l.gen /\ u.l.spec = r.l.spec /\ u.l.phase = "Progressing"
    BY <1>2, <1>3
<1>5. IsRun(i, Updated(r)) /\ Updated(r).pc = p
    BY <1>1, <1>4 DEF IsRun
<1> USE DEF p
<1> QED
    BY <1>4, <1>5

LEMMA EnsureExecutionStep ==
    ASSUME NEW i \in Insts, IInv, EnsureExecution(i)
    PROVE  IInv'
<1> DEFINE r == run[i]
           s == [r EXCEPT !.l.eref = TRUE]
<1>1. IsRun(i, r) /\ Busy(r) /\ RunInv(i, r) /\ CopyInv(i, r.l) /\ StageInv(i, r) /\ r.pc = "exec"
    BY DEF IInv, TypeInv, CleanInv, RunInv, EnsureExecution, At, Busy
<1>2. /\ IsRun(i, s) /\ s.l.del = r.l.del /\ s.l.gen = r.l.gen /\ s.l.obs = r.l.obs
      /\ s.l.spec = r.l.spec /\ s.l.phase = r.l.phase /\ s.pc = r.pc /\ s.mode = r.mode
    BY <1>1 DEF IsRun, RunFields, IsObject, ObjectFields
<1>3. CopyInv(i, s.l)
    BY <1>1, <1>2 DEF CopyInv, Handled, Evident
<1>4. \/ /\ i \notin Deploys /\ inst' = inst /\ exec' = exec
         /\ run' = [run EXCEPT ![i] = Updated(r)]
      \/ /\ i \in Deploys
         /\ exec' = [exec EXCEPT ![i] = Rollout(i)]
         /\ inst' = [inst EXCEPT ![i] = WithStatus(@, s.l)]
         /\ run' = [run EXCEPT ![i] = Updated(s)]
      \/ /\ i \in Deploys /\ inst' = inst
         /\ exec' = [exec EXCEPT ![i] = Rollout(i)]
         /\ run' = [run EXCEPT ![i] = Fails(s)]
      \/ /\ i \in Deploys /\ exec' = exec
         /\ inst' = inst \/ inst' = [inst EXCEPT ![i] = WithStatus(@, r.l)]
         /\ run' = [run EXCEPT ![i] = Fails(r)]
    BY DEF EnsureExecution, Continue
<1> HIDE DEF s
<1>5. \A x \in {r, s} : LET u == Updated(x) IN
         /\ IsRun(i, u) /\ Busy(u) /\ u.l.del = r.l.del
         /\ u.l.gen = r.l.gen /\ u.l.obs = r.l.gen /\ u.l.spec = r.l.spec
         /\ u.l.phase = "Progressing" /\ u.pc \in {"finish", "dropForce", "deleteAll"}
         /\ u.pc = "deleteAll" => r.l.del
  <2>1. r.mode \in {"update", "force"} \/ r.l.del
      BY <1>1 DEF StageInv, Constructs
  <2> QED
      BY <1>1, <1>2, <2>1, UpdatedRun DEF Busy
<1>6. \A x \in {r, s} : LET u == Fails(x) IN
         /\ IsRun(i, u) /\ Busy(u) /\ u.l = x.l /\ u.pc = "finish"
    BY <1>1, <1>2 DEF Fails, IsRun, RunFields, PCs, Busy
<1>7. CASE /\ i \notin Deploys /\ inst' = inst /\ exec' = exec
           /\ run' = [run EXCEPT ![i] = Updated(r)]
  <2> DEFINE u == Updated(r)
  <2>1. /\ IsRun(i, u) /\ Busy(u) /\ u.l.del = r.l.del
        /\ u.l.gen = r.l.gen /\ u.l.obs = r.l.gen /\ u.l.spec = r.l.spec
        /\ u.l.phase = "Progressing" /\ u.pc \in {"finish", "dropForce", "deleteAll"}
        /\ u.pc = "deleteAll" => r.l.del
      BY <1>5
  <2>2. run' = [run EXCEPT ![i] = u]
      BY <1>7
  <2> HIDE DEF u
  <2>3. i \in Inner /\ ~r.l.del => Ensured(i)
      BY <1>1, <1>7 DEF StageInv, Ensured
  <2>4. CopyInv(i, u.l)
      BY <1>1, <2>1, <2>3 DEF CopyInv, Handled, Evident, NoPhase, IsCompleted, CompletedPhases
  <2>5. StageInv(i, u)
      BY <2>1, <2>3 DEF StageInv, Constructs, Publishes
  <2>6. RunInv(i, u) /\ NextRun(i, u)
      BY <1>1, <2>1, <2>2, <2>4, <2>5 DEF RunInv, NextRun
  <2> QED
      BY <1>7, <2>6, Unwritten, LocalStep
<1>8. CASE /\ i \in Deploys
           /\ exec' = [exec EXCEPT ![i] = Rollout(i)]
           /\ inst' = [inst EXCEPT ![i] = WithStatus(@, s.l)]
           /\ run' = [run EXCEPT ![i] = Updated(s)]
  <2> PICK u : u = Updated(s)
      OBVIOUS
  <2>1. /\ IsRun(i, u) /\ Busy(u) /\ u.l.del = r.l.del
        /\ u.l.gen = r.l.gen /\ u.l.obs = r.l.gen /\ u.l.spec = r.l.spec
        /\ u.l.phase = "Progressing" /\ u.pc \in {"finish", "dropForce", "deleteAll"}
        /\ u.pc = "deleteAll" => r.l.del
      BY <1>5
  <2>2. run' = [run EXCEPT ![i] = u]
      BY <1>8
  <2>3. exec'[i].live
    <3>1. exec'[i] = Rollout(i) /\ IsExecution(exec[i])
        BY <1>8 DEF IInv, TypeInv
    <3> QED
        BY <3>1 DEF Rollout, NoExecution, IsExecution, ExecutionFields
  <2>4. \A j \in Children(i) : inst'[j] = inst[j]
      BY <1>8, Forest DEF IInv, TypeInv, Inner
  <2>5. i \in Inner /\ ~r.l.del => Ensured(i)'
      BY <1>1, <2>3, <2>4 DEF StageInv, Ensured
  <2>6. CopyInv(i, u.l)'
      BY <1>1, <2>1, <2>5 DEF CopyInv, Handled, Evident, NoPhase, IsCompleted, CompletedPhases
  <2>7. StageInv(i, u)'
      BY <2>1, <2>5 DEF StageInv, Constructs, Publishes
  <2> QED
      BY <1>1, <1>2, <1>3, <1>8, <2>1, <2>2, <2>6, <2>7, RolloutStep DEF IsRun
<1>9. CASE /\ i \in Deploys /\ inst' = inst
           /\ exec' = [exec EXCEPT ![i] = Rollout(i)]
           /\ run' = [run EXCEPT ![i] = Fails(s)]
  <2> PICK u : u = Fails(s)
      OBVIOUS
  <2>1. IsRun(i, u) /\ Busy(u) /\ u.l = s.l /\ u.pc = "finish"
      BY <1>6
  <2>2. run' = [run EXCEPT ![i] = u]
      BY <1>9
  <2>3. \A j \in Children(i) : inst'[j] = inst[j]
      BY <1>9
  <2>4. i \in Inner /\ Ensured(i) => Ensured(i)' /\ (Started(i) => Started(i)')
    <3>1. exec[i].live => exec'[i].live /\ exec'[i].obs = exec[i].obs
      <4>1. exec'[i] = Rollout(i) /\ IsExecution(exec[i])
          BY <1>9 DEF IInv, TypeInv
      <4> QED
          BY <4>1 DEF Rollout, IsExecution, ExecutionFields
    <3> QED
        BY <1>9, <2>3, <3>1 DEF Ensured, Started
  <2>5. CopyInv(i, u.l)'
      BY <1>2, <1>3, <1>9, <2>1, <2>4 DEF CopyInv, Handled, Evident, Started
  <2>6. StageInv(i, u)'
      BY <2>1 DEF StageInv, Constructs, Publishes
  <2> QED
      BY <1>1, <1>2, <1>9, <2>1, <2>2, <2>5, <2>6, RolloutStep
<1>10. CASE /\ i \in Deploys /\ exec' = exec
            /\ inst' = inst \/ inst' = [inst EXCEPT ![i] = WithStatus(@, r.l)]
            /\ run' = [run EXCEPT ![i] = Fails(r)]
  <2>2. CASE inst' = inst
      BY <1>1, <1>10, <2>2, Unwritten, FailStep
  <2>3. CASE inst' = [inst EXCEPT ![i] = WithStatus(@, r.l)]
    <3> DEFINE u == Fails(r)
    <3>1. IsRun(i, u) /\ Busy(u) /\ u.l = r.l /\ u.pc = "finish"
        BY <1>6
    <3>2. run' = [run EXCEPT ![i] = u]
        BY <1>10
    <3> HIDE DEF u
    <3>3. RunInv(i, u)
        BY <1>1, <3>1, FinishStage DEF RunInv
    <3> QED
        BY <1>1, <1>10, <2>3, <3>1, <3>2, <3>3, StatusStep DEF IsRun
  <2> QED
      BY <1>10, <2>2, <2>3
<1> QED
    BY <1>4, <1>7, <1>8, <1>9, <1>10


-----------------------------------------------------------------------------
(* Steps of the run of i that write its subinstallations.                  *)

\* DELETE removes what has no finalizer, and marks the rest.
LEMMA DeletedForeign ==
    ASSUME NEW k \in Insts, IInv, inst'[k] = Deleted(inst[k])
    PROVE  Foreign(k)
<1>1. IsObject(k, inst[k]) /\ ObjectInv(k)
    BY DEF IInv, TypeInv, CleanInv
<1>2. CASE ~inst[k].live \/ ~inst[k].fin
    BY <1>2 DEF Deleted, Foreign, Vanished, NoInstallation
<1>3. CASE inst[k].live /\ inst[k].fin /\ inst[k].del
    BY <1>3 DEF Deleted, Foreign, Kept
<1>4. CASE inst[k].live /\ inst[k].fin /\ ~inst[k].del
  <2>1. inst'[k] = [inst[k] EXCEPT !.del = TRUE, !.gen = @ + 1]
      BY <1>4 DEF Deleted
  <2>2. /\ inst'[k].live = inst[k].live /\ inst'[k].fin = inst[k].fin
        /\ inst'[k].obs = inst[k].obs /\ inst'[k].phase = inst[k].phase
        /\ inst'[k].gen = inst[k].gen + 1 /\ inst'[k].spec = inst[k].spec
      BY <1>1, <2>1 DEF IsObject, ObjectFields
  <2>3. inst[k].gen \in Nat /\ inst'[k].gen # 0
      BY <1>1, <2>2 DEF IsObject
  <2>4. Kept(k)
      BY <1>4, <2>2, <2>3 DEF Kept
  <2> QED
      BY <2>4 DEF Foreign
<1> QED
    BY <1>1, <1>2, <1>3, <1>4 DEF IsObject

LEMMA FamilyStep ==
    ASSUME NEW i \in Insts, NEW r, IInv, Busy(run[i]), Busy(r),
           run' = [run EXCEPT ![i] = r], IsRun(i, r), r.l.del = run[i].l.del,
           DOMAIN inst' = Insts, \A k \in Insts : IsObject(k, inst'[k]),
           \A k \in Insts \ (Children(i) \cup {i}) : inst'[k] = inst[k],
           \A k \in Children(i) : Foreign(k),
           inst'[i].live = inst[i].live, inst'[i].fin = inst[i].fin,
           inst'[i].del = inst[i].del, inst'[i].spec = inst[i].spec,
           DOMAIN exec' = Insts, \A k \in Insts \ {i} : exec'[k] = exec[k],
           IsExecution(exec'[i]),
           exec'[i].live => Handled(exec'[i])
                            /\ (exec'[i].phase = "Deleting" => exec'[i].del),
           i \in Inner =>
               /\ Handled(inst'[i]) /\ (inst[i].obs # 0 => inst'[i].obs # 0)
               /\ exec'[i].live /\ exec'[i].del => Leaving(i)
               /\ \A j \in Children(i) : inst'[j].live /\ inst'[j].del => Leaving(i)
               /\ ~run[i].l.del => Evident(i, inst[i])',
           CopyInv(i, r.l)', StageInv(i, r)'
    PROVE  IInv'
<1>1. /\ DOMAIN run' = Insts /\ \A k \in Insts : IsRun(k, run'[k])
      /\ run'[i] = r /\ \A k \in Insts \ {i} : run'[k] = run[k]
    BY RunSet DEF IInv
<1>2. RunInv(i, run[i]) /\ ObjectInv(i)
    BY DEF IInv, CleanInv
<1>3. TypeInv'
    BY <1>1 DEF IInv, TypeInv
<1>4. /\ Leaving(i) => Leaving(i)'
      /\ Staying(i)' => ~run[i].l.del
    BY <1>1, <1>2 DEF Leaving, Staying, RunInv
<1>5. inst'[i].live /\ inst'[i].fin
    BY <1>2 DEF RunInv
<1>6. ObjectInv(i)'
    BY <1>2, <1>4, <1>5 DEF ObjectInv
<1>7. RunInv(i, run[i])'
    BY <1>1, <1>2, <1>5 DEF RunInv
<1>8. i \in Inner => ChildMoves(i)
    BY <1>5 DEF ChildMoves
<1>9. /\ \A k \in Insts \ {i} : run'[k] = run[k] /\ exec'[k] = exec[k]
      /\ \A k \in Insts \ (Children(i) \cup {i}) : SameCore(inst[k], inst'[k])
    BY <1>1 DEF SameCore
<1> QED
    BY <1>3, <1>6, <1>7, <1>8, <1>9, OwnStep

LEMMA EnsureSubsStep ==
    ASSUME NEW i \in Insts, IInv, EnsureSubs(i)
    PROVE  IInv'
<1> DEFINE r == run[i]
           orphans == LiveSubs(i) \ r.l.spec.subs
           To(p, todo) == [r EXCEPT !.refs = LiveSubs(i), !.pc = p, !.todo = todo]
<1>1. IsRun(i, r) /\ Busy(r) /\ RunInv(i, r) /\ r.pc = "ensure" /\ exec' = exec
    BY DEF IInv, TypeInv, CleanInv, EnsureSubs, At, Busy
<1>2. \/ inst' = inst /\ run' = [run EXCEPT ![i] = Fails(r)]
      \/ /\ inst' = [j \in Insts |-> IF j \in orphans THEN Deleted(inst[j]) ELSE inst[j]]
         /\ orphans = {} /\ run' = [run EXCEPT ![i] = To("subs", r.l.spec.subs)]
      \/ /\ inst' = [j \in Insts |-> IF j \in orphans THEN Deleted(inst[j]) ELSE inst[j]]
         /\ orphans # {} /\ run' = [run EXCEPT ![i] = To("trigger", {})]
    BY DEF EnsureSubs, Continue
<1>3. r.l.spec.subs \in SUBSET Children(i)
    BY <1>1 DEF IsRun, IsObject
<1>4. ~r.l.del => r.mode \in {"update", "force"}
    BY <1>1 DEF RunInv, StageInv, Constructs
<1>5. ASSUME NEW p \in {"subs", "trigger"}, NEW todo \in SUBSET Children(i)
      PROVE  LET s == To(p, todo) IN
             /\ IsRun(i, s) /\ DOMAIN s = RunFields /\ s.l = r.l /\ s.mode = r.mode
             /\ s.todo = todo /\ s.pc = p
    BY <1>1 DEF IsRun, RunFields, PCs
<1> HIDE DEF orphans, To
<1>6. CASE inst' = inst /\ run' = [run EXCEPT ![i] = Fails(r)]
    BY <1>1, <1>6, Unwritten, FailStep
<1>7. CASE /\ inst' = [j \in Insts |-> IF j \in orphans THEN Deleted(inst[j]) ELSE inst[j]]
           /\ orphans = {} /\ run' = [run EXCEPT ![i] = To("subs", r.l.spec.subs)]
  <2> PICK s : s = To("subs", r.l.spec.subs)
      OBVIOUS
  <2>1. /\ DOMAIN s = RunFields /\ s.l = r.l /\ s.mode = r.mode
        /\ s.todo = r.l.spec.subs /\ s.pc = "subs"
      BY <1>3, <1>5
  <2>2. i \in Inner => r.l.spec.subs = Children(i)
      BY <1>1 DEF RunInv, CopyInv
  <2>3. StageInv(i, s)
      BY <1>4, <2>1, <2>2 DEF StageInv, Constructs, Publishes
  <2>4. SameObjects
      BY <1>1, <1>7 DEF SameObjects, SameCore, IInv, TypeInv
  <2> QED
      BY <1>1, <1>3, <1>7, <2>1, <2>3, <2>4, StageStep DEF PCs, Busy
<1>8. CASE /\ inst' = [j \in Insts |-> IF j \in orphans THEN Deleted(inst[j]) ELSE inst[j]]
           /\ orphans # {} /\ run' = [run EXCEPT ![i] = To("trigger", {})]
  <2> PICK s : s = To("trigger", {})
      OBVIOUS
  <2>1. IsRun(i, s) /\ s.l = r.l /\ s.mode = r.mode /\ s.pc = "trigger"
      BY <1>5
  <2>2. run' = [run EXCEPT ![i] = s] /\ Busy(s)
      BY <1>8, <2>1 DEF Busy
  <2>3. i \notin Inner
      BY <1>1, <1>8 DEF RunInv, CopyInv, LiveSubs, orphans
  <2>4. i \notin orphans /\ orphans \in SUBSET Children(i) /\ Children(i) \subseteq Insts
      BY Forest DEF LiveSubs, Inner, orphans
  <2>5. \A k \in Insts : IsObject(k, inst[k])
      BY DEF IInv, TypeInv
  <2>6. /\ DOMAIN inst' = Insts /\ \A k \in Insts : IsObject(k, inst'[k])
        /\ \A k \in Insts \ Children(i) : inst'[k] = inst[k]
      BY <1>8, <2>4, <2>5, DeletedObject
  <2>7. inst'[i] = inst[i]
      BY <1>8, <2>4
  <2>8. ASSUME NEW k \in Children(i) PROVE Foreign(k)
    <3>1. CASE k \in orphans
        BY <1>8, <2>4, <3>1, DeletedForeign
    <3>2. CASE k \notin orphans
        BY <1>8, <2>4, <3>2 DEF Foreign, Kept
    <3> QED
        BY <3>1, <3>2
  <2>9. /\ DOMAIN exec' = Insts /\ IsExecution(exec'[i])
        /\ exec'[i].live => Handled(exec'[i])
                            /\ (exec'[i].phase = "Deleting" => exec'[i].del)
      BY <1>1 DEF IInv, TypeInv, CleanInv, ObjectInv
  <2>10. CopyInv(i, s.l)' /\ StageInv(i, s)'
      BY <1>4, <2>1, <2>3 DEF CopyInv, StageInv, Constructs
  <2>11. s.l.del = run[i].l.del /\ \A k \in Insts \ {i} : exec'[k] = exec[k]
      BY <1>1, <2>1
  <2> QED
      BY <1>1, <2>1, <2>2, <2>3, <2>6, <2>7, <2>8, <2>9, <2>10, <2>11, FamilyStep
<1> QED
    BY <1>2, <1>6, <1>7, <1>8

\* The template is applied to j.
LEMMA TemplatedForeign ==
    ASSUME NEW j \in Insts, NEW v \in Nat, IInv, inst'[j] = Templated(j, v)
    PROVE  /\ Foreign(j) /\ IsObject(j, inst'[j]) /\ inst'[j].live
           /\ inst'[j].del => inst[j].live /\ inst[j].del
           /\ inst[j].live => inst'[j].obs = inst[j].obs
<1>1. IsObject(j, inst[j])
    BY DEF IInv, TypeInv
<1>2. CASE ~inst[j].live
  <2>1. inst'[j] = NewInstallation(j, v)
      BY <1>2 DEF Templated
  <2>2. IsObject(j, inst'[j])
      BY <2>1, NewObjects
  <2>3. Created(j) /\ inst'[j].live /\ ~inst'[j].del
      BY <1>2, <2>1 DEF NewInstallation, Created
  <2> QED
      BY <1>2, <2>2, <2>3 DEF Foreign
<1>3. CASE inst[j].live
  <2>1. \/ inst'[j] = [inst[j] EXCEPT !.op = "none"]
        \/ inst'[j] = [inst[j] EXCEPT !.op = "none", !.spec.version = v, !.gen = @ + 1]
      BY <1>3 DEF Templated
  <2>2. CASE inst'[j] = [inst[j] EXCEPT !.op = "none"]
    <3>1. IsObject(j, [inst[j] EXCEPT !.op = "none"])
        BY <1>1, ChangedObject
    <3>2. LET o == [inst[j] EXCEPT !.op = "none"] IN
          /\ o.live = inst[j].live /\ o.fin = inst[j].fin /\ o.obs = inst[j].obs
          /\ o.phase = inst[j].phase /\ o.del = inst[j].del /\ o.gen = inst[j].gen
          /\ o.spec = inst[j].spec
        BY <1>1 DEF IsObject, ObjectFields
    <3> QED
        BY <1>3, <2>2, <3>1, <3>2 DEF Kept, Foreign
  <2>3. CASE inst'[j] = [inst[j] EXCEPT !.op = "none", !.spec.version = v, !.gen = @ + 1]
    <3>1. IsObject(j, [inst[j] EXCEPT !.op = "none", !.spec.version = v, !.gen = @ + 1])
        BY <1>1, ChangedObject
    <3>2. LET o == [inst[j] EXCEPT !.op = "none", !.spec.version = v, !.gen = @ + 1] IN
          /\ o.live = inst[j].live /\ o.fin = inst[j].fin /\ o.obs = inst[j].obs
          /\ o.phase = inst[j].phase /\ o.del = inst[j].del /\ o.gen = inst[j].gen + 1
          /\ o.spec.subs = inst[j].spec.subs
        BY <1>1 DEF IsObject, ObjectFields
    <3>3. inst[j].gen \in Nat /\ inst[j].gen + 1 # 0
        BY <1>1 DEF IsObject
    <3> QED
        BY <1>3, <2>3, <3>1, <3>2, <3>3 DEF Kept, Foreign
  <2> QED
      BY <2>1, <2>2, <2>3
<1> QED
    BY <1>2, <1>3

LEMMA CreateSubStep ==
    ASSUME NEW i \in Insts, IInv, CreateSub(i)
    PROVE  IInv'
<1> DEFINE r == run[i]
           I(j) == [inst EXCEPT ![j] = Templated(j, r.l.spec.version)]
           created(j) == [r EXCEPT !.todo = @ \ {j}, !.refs = @ \cup {j}]
           done == [r EXCEPT !.pc = "trigger"]
           status(O) == [O EXCEPT ![i] = WithStatus(@, r.l)]
<1>1. /\ IsRun(i, r) /\ Busy(r) /\ RunInv(i, r) /\ CopyInv(i, r.l) /\ StageInv(i, r)
      /\ r.pc = "subs" /\ exec' = exec /\ IsObject(i, r.l)
    BY DEF IInv, TypeInv, CleanInv, RunInv, IsRun, CreateSub, At, Busy
<1>2. \/ /\ inst' = inst
         /\ run' = [run EXCEPT ![i] = Fails(r)] \/ run' = [run EXCEPT ![i] = FailsPlain(r)]
      \/ r.todo = {} /\ inst' = status(inst) /\ run' = [run EXCEPT ![i] = done]
      \/ \E j \in r.todo :
            \/ inst' = status(I(j)) /\ run' = [run EXCEPT ![i] = created(j)]
            \/ inst' = I(j) /\ run' = [run EXCEPT ![i] = Fails(r)]
    BY DEF CreateSub, Continue
<1>3. /\ IsRun(i, done) /\ done.l = r.l /\ done.mode = r.mode /\ done.todo = r.todo
      /\ done.pc = "trigger"
    BY <1>1 DEF IsRun, RunFields, PCs
<1>4. ASSUME NEW j PROVE
         /\ IsRun(i, created(j)) /\ created(j).l = r.l /\ created(j).mode = r.mode
         /\ created(j).todo = r.todo \ {j} /\ created(j).pc = "subs"
    BY <1>1 DEF IsRun, RunFields
<1>5. IsRun(i, Fails(r)) /\ Fails(r).l = r.l /\ Fails(r).pc = "finish"
    BY <1>1 DEF Fails, IsRun, RunFields, PCs
<1> HIDE DEF done, created
<1>6. ~r.l.del => r.mode \in {"update", "force"}
    BY <1>1 DEF StageInv, Constructs
<1>7. CASE /\ inst' = inst
           /\ run' = [run EXCEPT ![i] = Fails(r)] \/ run' = [run EXCEPT ![i] = FailsPlain(r)]
    BY <1>1, <1>7, Unwritten, FailStep
<1>8. CASE r.todo = {} /\ inst' = status(inst) /\ run' = [run EXCEPT ![i] = done]
  <2>1. StageInv(i, done)
      BY <1>1, <1>3, <1>6, <1>8 DEF StageInv, Constructs, Publishes
  <2>2. RunInv(i, done) /\ Busy(done)
      BY <1>1, <1>3, <2>1 DEF RunInv, Busy
  <2> QED
      BY <1>1, <1>3, <1>8, <2>2, StatusStep
<1>9. ASSUME NEW j \in r.todo,
             \/ inst' = status(I(j)) /\ run' = [run EXCEPT ![i] = created(j)]
             \/ inst' = I(j) /\ run' = [run EXCEPT ![i] = Fails(r)]
      PROVE  IInv'
  <2>1. j \in Children(i) /\ j \in Insts /\ j # i
      BY <1>1, Forest DEF IsRun, Inner
  <2>2. /\ DOMAIN inst' = Insts /\ inst'[j] = Templated(j, r.l.spec.version)
        /\ inst'[i] = inst[i] \/ inst'[i] = WithStatus(inst[i], r.l)
        /\ \A k \in Insts \ {i, j} : inst'[k] = inst[k]
      BY <1>9, <2>1 DEF IInv, TypeInv
  <2>3. r.l.spec.version \in Nat /\ IsObject(i, inst[i])
      BY <1>1 DEF IsObject, IInv, TypeInv
  <2>4. /\ Foreign(j) /\ IsObject(j, inst'[j]) /\ inst'[j].live
        /\ inst'[j].del => inst[j].live /\ inst[j].del
        /\ inst[j].live => inst'[j].obs = inst[j].obs
      BY <2>1, <2>2, <2>3, TemplatedForeign
  <2>5. /\ inst'[i].live = inst[i].live /\ inst'[i].fin = inst[i].fin
        /\ inst'[i].del = inst[i].del /\ inst'[i].gen = inst[i].gen
        /\ inst'[i].spec = inst[i].spec /\ IsObject(i, inst'[i])
        /\ \/ inst'[i].obs = inst[i].obs /\ inst'[i].phase = inst[i].phase
           \/ inst'[i].obs = r.l.obs /\ inst'[i].phase = r.l.phase
    <3>1. LET o == WithStatus(inst[i], r.l) IN
          /\ IsObject(i, o) /\ o.live = inst[i].live /\ o.fin = inst[i].fin
          /\ o.del = inst[i].del /\ o.gen = inst[i].gen /\ o.spec = inst[i].spec
          /\ o.obs = r.l.obs /\ o.phase = r.l.phase
        BY <1>1, <2>3, ChangedObject DEF WithStatus, IsObject, ObjectFields
    <3> QED
        BY <2>2, <2>3, <3>1
  <2>6. \A k \in Children(i) : (inst[k].live => inst'[k].live /\ inst'[k].obs = inst[k].obs)
                               /\ (inst'[k].live /\ inst'[k].del => inst[k].live /\ inst[k].del)
      BY <2>2, <2>4, Forest DEF Inner
  <2>7. (Ensured(i) => Ensured(i)') /\ (Started(i) => Started(i)')
      BY <1>1, <2>6 DEF Ensured, Started
  <2>8. ObjectInv(i) /\ IsExecution(exec'[i]) /\ DOMAIN exec' = Insts
      BY <1>1 DEF IInv, TypeInv, CleanInv
  <2>9. i \in Inner =>
            /\ Handled(inst'[i]) /\ (inst[i].obs # 0 => inst'[i].obs # 0)
            /\ exec'[i].live /\ exec'[i].del => Leaving(i)
            /\ \A k \in Children(i) : inst'[k].live /\ inst'[k].del => Leaving(i)
            /\ ~r.l.del => Evident(i, inst[i])'
    <3>1. ASSUME i \in Inner PROVE Handled(inst'[i]) /\ (inst[i].obs # 0 => inst'[i].obs # 0)
        BY <1>1, <2>5, <2>8, <3>1 DEF RunInv, CopyInv, ObjectInv, Handled
    <3>2. ASSUME i \in Inner, ~r.l.del PROVE Evident(i, inst[i])'
      <4>1. Evident(i, inst[i]) /\ Evident(i, r.l)
          BY <1>1, <2>8, <3>2 DEF RunInv, CopyInv, ObjectInv, Staying, Leaving
      <4> QED
          BY <2>5, <2>7, <4>1 DEF Evident
    <3> QED
        BY <1>1, <2>6, <2>8, <3>1, <3>2 DEF ObjectInv
  <2> PICK l : l = r.l
      OBVIOUS
  <2>10. CopyInv(i, l)'
      BY <1>1, <2>5, <2>7 DEF CopyInv, Evident
  <2>11. /\ \A k \in Children(i) : Foreign(k)
         /\ \A k \in Insts : IsObject(k, inst'[k])
         /\ \A k \in Insts \ (Children(i) \cup {i}) : inst'[k] = inst[k]
    <3>1. \A k \in Insts \ {i, j} : IsObject(k, inst[k]) /\ Foreign(k)
        BY <2>2 DEF Foreign, Kept, IInv, TypeInv
    <3> QED
        BY <2>1, <2>2, <2>4, <2>5, <3>1, Forest DEF Inner
  <2>12. exec'[i].live => Handled(exec'[i])
                          /\ (exec'[i].phase = "Deleting" => exec'[i].del)
      BY <1>1, <2>8 DEF ObjectInv
  <2>13. \E s : /\ run' = [run EXCEPT ![i] = s] /\ IsRun(i, s) /\ s.l = r.l /\ Busy(s)
                /\ StageInv(i, s)'
    <3>1. CASE run' = [run EXCEPT ![i] = created(j)]
      <4> PICK s : s = created(j)
          OBVIOUS
      <4>1. /\ IsRun(i, s) /\ s.l = r.l /\ s.mode = r.mode
            /\ s.todo = r.todo \ {j} /\ s.pc = "subs"
          BY <1>4
      <4>2. i \in Inner /\ ~r.l.del => \A k \in Children(i) \ s.todo : inst'[k].live
          BY <1>1, <2>4, <2>6, <4>1 DEF StageInv
      <4>3. StageInv(i, s)'
          BY <1>6, <4>1, <4>2 DEF StageInv, Constructs, Publishes
      <4> QED
          BY <3>1, <4>1, <4>3 DEF Busy
    <3>2. CASE run' = [run EXCEPT ![i] = Fails(r)]
      <4> PICK s : s = Fails(r)
          OBVIOUS
      <4>1. IsRun(i, s) /\ s.l = r.l /\ s.pc = "finish"
          BY <1>5
      <4>2. StageInv(i, s)'
          BY <4>1 DEF StageInv, Constructs, Publishes
      <4> QED
          BY <3>2, <4>1, <4>2 DEF Busy
    <3> QED
        BY <1>9, <3>1, <3>2
  <2> QED
    <3> PICK s : /\ run' = [run EXCEPT ![i] = s] /\ IsRun(i, s) /\ s.l = r.l /\ Busy(s)
                 /\ StageInv(i, s)'
        BY <2>13
    <3>1. s.l.del = run[i].l.del /\ CopyInv(i, s.l)'
        BY <2>10
    <3>2. \A k \in Insts \ {i} : exec'[k] = exec[k]
        BY <1>1
    <3> QED
        BY <1>1, <2>2, <2>5, <2>8, <2>9, <2>11, <2>12, <3>1, <3>2, FamilyStep
<1> QED
    BY <1>2, <1>7, <1>8, <1>9

LEMMA DeleteAllStep ==
    ASSUME NEW i \in Insts, IInv, DeleteAll(i)
    PROVE  IInv'
<1> DEFINE s == [run[i] EXCEPT !.l.phase = "Deleting"]
           To(p) == [s EXCEPT !.pc = p]
           deleted(js) == [j \in Insts |-> IF j \in js THEN Deleted(inst[j]) ELSE inst[j]]
           marked == [exec EXCEPT ![i].del = TRUE, ![i].gen = @ + 1]
           forced == [exec EXCEPT ![i].op = "force"]
<1>1. /\ IsRun(i, run[i]) /\ Busy(run[i]) /\ RunInv(i, run[i]) /\ run[i].l.del
      /\ CopyInv(i, run[i].l) /\ ObjectInv(i)
    BY DEF IInv, TypeInv, CleanInv, RunInv, StageInv, DeleteAll, At, Busy
<1>2. /\ inst[i].live /\ inst[i].fin /\ Leaving(i)
    BY <1>1 DEF RunInv, Leaving
<1>3. \/ exec' = exec
      \/ exec[i].live /\ ~exec[i].del /\ exec' = marked
      \/ exec[i].live /\ exec' = forced
    BY DEF DeleteAll
<1>4. inst' = inst \/ \E js \in SUBSET LiveSubs(i) : inst' = deleted(js)
  <2> DEFINE subs == LiveSubs(i)
             stuck == {j \in subs : inst[j].op = "force" /\ ~inst[j].del}
  <2>1. \/ inst' = inst \/ inst' = deleted(subs)
        \/ \E j \in stuck, js \in SUBSET (subs \ stuck) : inst' = deleted(js \cup {j})
        \/ \E js \in SUBSET (subs \ stuck) : inst' = deleted(js)
      BY DEF DeleteAll
  <2>2. stuck \in SUBSET subs
      OBVIOUS
  <2> HIDE DEF subs, stuck, deleted
  <2>3. inst' = inst \/ \E js \in SUBSET subs : inst' = deleted(js)
    <3>1. ASSUME NEW j \in stuck, NEW js \in SUBSET (subs \ stuck), inst' = deleted(js \cup {j})
          PROVE  \E ks \in SUBSET subs : inst' = deleted(ks)
      <4>1. js \cup {j} \in SUBSET subs
          BY <2>2
      <4> QED
          BY <3>1, <4>1
    <3>2. ASSUME NEW js \in SUBSET (subs \ stuck), inst' = deleted(js)
          PROVE  \E ks \in SUBSET subs : inst' = deleted(ks)
      <4>1. js \in SUBSET subs
          OBVIOUS
      <4> QED
          BY <3>2, <4>1
    <3>3. subs \in SUBSET subs
        OBVIOUS
    <3> QED
        BY <2>1, <3>1, <3>2, <3>3
  <2> QED
      BY <2>3 DEF subs, deleted
<1>5. \/ run' = [run EXCEPT ![i] = Fails(s)]
      \/ run' = [run EXCEPT ![i] = To("dropForce")]
      \/ run' = [run EXCEPT ![i] = To("finish")]
      \/ /\ run' = [run EXCEPT ![i] = To("removeFinalizer")]
         /\ ~exec[i].live /\ LiveSubs(i) = {} /\ exec' = exec
    BY DEF DeleteAll, Continue
<1>6. /\ DOMAIN s = RunFields /\ IsObject(i, s.l) /\ s.todo = run[i].todo
      /\ s.l.del /\ s.l.gen = run[i].l.gen /\ s.l.obs = run[i].l.obs
      /\ s.l.spec = run[i].l.spec /\ s.l.phase = "Deleting"
  <2>1. IsObject(i, run[i].l)
      BY <1>1 DEF IsRun
  <2> QED
      BY <1>1, <2>1 DEF IsRun, RunFields, IsObject, ObjectFields, Phase, RunningPhases
<1>7. \A p \in {"dropForce", "finish", "removeFinalizer"} :
         IsRun(i, To(p)) /\ To(p).l = s.l /\ To(p).pc = p
  <2> HIDE DEF s
  <2> QED
      BY <1>1, <1>6 DEF IsRun, RunFields, PCs
<1>8. IsRun(i, Fails(s)) /\ Fails(s).l = s.l /\ Fails(s).pc = "finish"
  <2> HIDE DEF s
  <2> QED
      BY <1>1, <1>6 DEF Fails, IsRun, RunFields, PCs
<1>9. \E u : /\ run' = [run EXCEPT ![i] = u] /\ IsRun(i, u) /\ u.l = s.l
             /\ u.pc \in {"dropForce", "finish", "removeFinalizer"}
             /\ u.pc = "removeFinalizer" => Clean(i) /\ LiveSubs(i) = {} /\ exec' = exec
  <2>1. LiveSubs(i) = {} /\ ~exec[i].live => Clean(i)
      BY DEF LiveSubs, Clean
  <2> HIDE DEF s, To
  <2> QED
      BY <1>5, <1>7, <1>8, <2>1
<1> PICK u : /\ run' = [run EXCEPT ![i] = u] /\ IsRun(i, u) /\ u.l = s.l
             /\ u.pc \in {"dropForce", "finish", "removeFinalizer"}
             /\ u.pc = "removeFinalizer" => Clean(i) /\ LiveSubs(i) = {} /\ exec' = exec
    BY <1>9
<1>10. /\ u.l.del /\ u.l.gen = run[i].l.gen /\ u.l.obs = run[i].l.obs
       /\ u.l.spec = run[i].l.spec /\ u.l.phase = "Deleting" /\ Busy(u)
    BY <1>6 DEF Busy
<1> HIDE DEF s, To
<1>11. \A k \in Insts : IsObject(k, inst[k]) /\ IsExecution(exec[k])
    BY DEF IInv, TypeInv
<1>12. /\ DOMAIN inst' = Insts /\ inst'[i] = inst[i]
       /\ \A k \in Insts : IsObject(k, inst'[k])
       /\ \A k \in Insts \ (Children(i) \cup {i}) : inst'[k] = inst[k]
       /\ \A k \in Children(i) : Foreign(k) /\ (~inst[k].live => ~inst'[k].live)
  <2>1. CASE inst' = inst
      BY <1>11, <2>1, Forest DEF IInv, TypeInv, Foreign, Kept
  <2>2. ASSUME NEW js \in SUBSET LiveSubs(i), inst' = deleted(js)
        PROVE  /\ DOMAIN inst' = Insts /\ inst'[i] = inst[i]
               /\ \A k \in Insts : IsObject(k, inst'[k])
               /\ \A k \in Insts \ (Children(i) \cup {i}) : inst'[k] = inst[k]
               /\ \A k \in Children(i) : Foreign(k) /\ (~inst[k].live => ~inst'[k].live)
    <3>1. /\ i \notin js /\ js \in SUBSET Children(i) /\ Children(i) \subseteq Insts
          /\ \A k \in js : inst[k].live
        BY Forest DEF LiveSubs, Inner
    <3>2. /\ DOMAIN inst' = Insts /\ \A k \in Insts \ js : inst'[k] = inst[k]
          /\ \A k \in js : inst'[k] = Deleted(inst[k])
        BY <2>2, <3>1
    <3>3. \A k \in js : IsObject(k, inst'[k]) /\ Foreign(k)
        BY <1>11, <3>1, <3>2, DeletedObject, DeletedForeign
    <3>4. \A k \in Insts \ js : IsObject(k, inst'[k]) /\ Foreign(k)
        BY <1>11, <3>2 DEF Foreign, Kept
    <3> QED
        BY <3>1, <3>2, <3>3, <3>4
  <2> QED
      BY <1>4, <2>1, <2>2
<1>13. /\ DOMAIN exec' = Insts /\ IsExecution(exec'[i])
       /\ \A k \in Insts \ {i} : exec'[k] = exec[k]
       /\ exec'[i].live => Handled(exec'[i])
                           /\ (exec'[i].phase = "Deleting" => exec'[i].del)
  <2>1. CASE exec' = exec
      BY <1>1, <1>11, <2>1 DEF IInv, TypeInv, ObjectInv
  <2>2. CASE exec[i].live /\ ~exec[i].del /\ exec' = marked
    <3>1. /\ DOMAIN exec' = Insts /\ exec'[i] = [exec[i] EXCEPT !.del = TRUE, !.gen = @ + 1]
          /\ \A k \in Insts \ {i} : exec'[k] = exec[k]
        BY <2>2 DEF IInv, TypeInv
    <3>2. LET e == [exec[i] EXCEPT !.del = TRUE, !.gen = @ + 1] IN
          /\ IsExecution(e) /\ e.del /\ e.gen = exec[i].gen + 1 /\ e.obs = exec[i].obs
          /\ e.phase = exec[i].phase
        BY <1>11 DEF IsExecution, ExecutionFields
    <3>3. exec[i].gen + 1 # 0
        BY <1>11 DEF IsExecution
    <3> QED
        BY <1>1, <2>2, <3>1, <3>2, <3>3 DEF ObjectInv, Handled
  <2>3. CASE exec[i].live /\ exec' = forced
    <3>1. /\ DOMAIN exec' = Insts /\ exec'[i] = [exec[i] EXCEPT !.op = "force"]
          /\ \A k \in Insts \ {i} : exec'[k] = exec[k]
        BY <2>3 DEF IInv, TypeInv
    <3>2. LET e == [exec[i] EXCEPT !.op = "force"] IN
          /\ IsExecution(e) /\ e.del = exec[i].del /\ e.gen = exec[i].gen
          /\ e.obs = exec[i].obs /\ e.phase = exec[i].phase
        BY <1>11 DEF IsExecution, ExecutionFields
    <3> QED
        BY <1>1, <2>3, <3>1, <3>2 DEF ObjectInv, Handled
  <2> QED
      BY <1>3, <2>1, <2>2, <2>3
<1>14. i \in Inner => /\ Handled(inst'[i]) /\ (inst[i].obs # 0 => inst'[i].obs # 0)
    BY <1>1, <1>2, <1>12 DEF ObjectInv
<1>15. CopyInv(i, u.l)'
    BY <1>1, <1>10, <1>12 DEF CopyInv, Handled, NoPhase
<1>16. StageInv(i, u)'
  <2>1. Clean(i) /\ exec' = exec => Clean(i)'
      BY <1>12 DEF Clean
  <2> QED
      BY <1>10, <2>1 DEF StageInv, Constructs, Publishes
<1> QED
    BY <1>1, <1>2, <1>10, <1>12, <1>13, <1>14, <1>15, <1>16, FamilyStep

-----------------------------------------------------------------------------
(* The environment: the execution controller, the users, the faults.       *)

LEMMA OutsideStep ==
    ASSUME IInv, TypeInv', run' = run, exec' = exec,
           \A k \in Insts : Foreign(k), \A j \in Inner : ChildMoves(j)
    PROVE  IInv'
<1>1. ASSUME NEW k \in Insts PROVE ObjectInv(k)' /\ RunInv(k, run[k])'
  <2>1. \A j \in Children(k) : ChildMoves(j)
      BY Forest
  <2> QED
      BY <2>1, OtherKeeps DEF IInv, CleanInv
<1> QED
    BY <1>1 DEF IInv, CleanInv

LEMMA InstallationStep ==
    ASSUME NEW i \in Insts, NEW o, IInv, SetInstallation(i, o), IsObject(i, o),
           Foreign(i), i \in Inner => ChildMoves(i)
    PROVE  IInv'
<1>1. /\ inst' = [inst EXCEPT ![i] = o] /\ exec' = exec /\ run' = run
    BY DEF SetInstallation, Others
<1>2. /\ DOMAIN inst' = Insts /\ inst'[i] = o
      /\ \A k \in Insts \ {i} : inst'[k] = inst[k]
    BY <1>1 DEF IInv, TypeInv
<1>3. TypeInv'
    BY <1>1, <1>2 DEF IInv, TypeInv
<1>4. \A k \in Insts \ {i} : Foreign(k) /\ ChildMoves(k)
    BY <1>2 DEF Foreign, Kept, ChildMoves
<1> QED
    BY <1>1, <1>3, <1>4, OutsideStep DEF Inner

LEMMA ExecutionMoves ==
    ASSUME NEW i \in Insts, NEW e, IInv, SetExecution(i, e), IsExecution(e),
           exec[i].live,
           e.live => /\ Handled(e) /\ (e.phase = "Deleting" => e.del)
                     /\ e.del = exec[i].del /\ (exec[i].obs # 0 => e.obs # 0),
           ~e.live => exec[i].del
    PROVE  IInv'
<1>1. /\ exec' = [exec EXCEPT ![i] = e] /\ inst' = inst /\ run' = run
    BY DEF SetExecution, Others
<1>2. /\ DOMAIN exec' = Insts /\ exec'[i] = e
      /\ \A k \in Insts \ {i} : exec'[k] = exec[k]
    BY <1>1 DEF IInv, TypeInv
<1>3. TypeInv'
    BY <1>1, <1>2 DEF IInv, TypeInv
<1>4. /\ Leaving(i)' <=> Leaving(i)
      /\ Staying(i)' <=> Staying(i)
    BY <1>1 DEF Leaving, Staying
<1>5. ObjectInv(i) /\ RunInv(i, run[i])
    BY DEF IInv, CleanInv
<1>6. Clean(i) => Clean(i)'
    BY <1>1 DEF Clean
<1>7. i \in Inner /\ ~Leaving(i) /\ inst[i].live =>
          (Ensured(i) => Ensured(i)') /\ (Started(i) => Started(i)')
    BY <1>1, <1>2, <1>5 DEF ObjectInv, Ensured, Started
<1>8. ObjectInv(i)'
    BY <1>1, <1>2, <1>4, <1>5, <1>6, <1>7 DEF ObjectInv, Staying, Evident
<1>9. RunInv(i, run[i])'
  <2>1. Busy(run[i]) /\ ~run[i].l.del => ~Leaving(i) /\ inst[i].live
      BY <1>5 DEF Leaving, RunInv
  <2>2. Busy(run[i]) => CopyInv(i, run[i].l)'
      BY <1>1, <1>5, <1>7, <2>1 DEF RunInv, CopyInv, Evident
  <2>3. Busy(run[i]) => StageInv(i, run[i])'
      BY <1>1, <1>5, <1>6, <1>7, <2>1 DEF RunInv, StageInv
  <2> QED
      BY <1>1, <1>5, <2>2, <2>3 DEF RunInv
<1>10. ASSUME NEW k \in Insts \ {i} PROVE ObjectInv(k)' /\ RunInv(k, run[k])'
  <2>1. Foreign(k) /\ (\A j \in Children(k) : ChildMoves(j))
        /\ exec'[k] = exec[k] /\ run'[k] = run[k]
      BY <1>1, <1>2, Forest DEF Foreign, Kept, ChildMoves
  <2> QED
      BY <1>3, <2>1, OtherKeeps DEF IInv, CleanInv
<1> QED
    BY <1>3, <1>8, <1>9, <1>10 DEF IInv, CleanInv

LEMMA ExecutionStepKeeps ==
    ASSUME NEW i \in Insts, IInv, ExecutionStep(i) \/ Drift(i)
    PROVE  IInv'
<1>1. IsExecution(exec[i]) /\ ObjectInv(i)
    BY DEF IInv, TypeInv, CleanInv
<1>2. CASE StartExecution(i)
  <2> DEFINE p == IF exec[i].del THEN "Deleting" ELSE "Progressing"
             e == [exec[i] EXCEPT !.obs = exec[i].gen, !.op = "none", !.phase = p]
  <2>1. exec[i].live /\ SetExecution(i, e)
      BY <1>2 DEF StartExecution
  <2>2. /\ p \in Phase /\ p # NoPhase /\ (p = "Deleting" => exec[i].del)
        /\ exec[i].gen # 0
      BY <1>1, <2>1 DEF Phase, RunningPhases, NoPhase, ObjectInv, Handled
  <2> HIDE DEF p
  <2>3. /\ IsExecution(e) /\ e.live = exec[i].live /\ e.del = exec[i].del
        /\ e.gen = exec[i].gen /\ e.obs = exec[i].gen /\ e.phase = p
      BY <1>1, <2>2 DEF IsExecution, ExecutionFields
  <2> HIDE DEF e
  <2> QED
      BY <2>1, <2>2, <2>3, ExecutionMoves DEF Handled
<1>3. ASSUME NEW e, SetExecution(i, e), exec[i].live,
             NEW p \in {"Progressing", "Succeeded", "Failed"},
             \/ e = [exec[i] EXCEPT !.phase = p]
             \/ e = [exec[i] EXCEPT !.phase = p, !.out = exec[i].in]
      PROVE  IInv'
  <2>1. /\ IsExecution(e) /\ e.live = exec[i].live /\ e.del = exec[i].del
        /\ e.gen = exec[i].gen /\ e.obs = exec[i].obs /\ e.phase = p
    <3>1. p \in Phase
        BY DEF Phase, RunningPhases, CompletedPhases
    <3> QED
        BY <1>1, <1>3, <3>1 DEF IsExecution, ExecutionFields
  <2> QED
      BY <1>1, <1>3, <2>1, ExecutionMoves DEF Handled, ObjectInv, NoPhase
<1>4. CASE EndExecution(i)
  <2>1. \/ SetExecution(i, [exec[i] EXCEPT !.phase = "Succeeded", !.out = exec[i].in])
        \/ SetExecution(i, [exec[i] EXCEPT !.phase = "Failed"])
      BY <1>4 DEF EndExecution
  <2> QED
      BY <1>3, <1>4, <2>1 DEF EndExecution, UpToDate
<1>5. CASE EndDeletion(i)
  <2>1. SetExecution(i, NoExecution) /\ exec[i].live /\ exec[i].phase = "Deleting"
      BY <1>5 DEF EndDeletion, UpToDate
  <2>2. exec[i].del
      BY <1>1, <2>1 DEF ObjectInv
  <2>3. IsExecution(NoExecution) /\ ~NoExecution.live
      BY NewObjects DEF NoExecution
  <2> QED
      BY <2>1, <2>2, <2>3, ExecutionMoves
<1>6. CASE Drift(i)
    BY <1>3, <1>6 DEF Drift, UpToDate
<1> QED
    BY <1>2, <1>4, <1>5, <1>6 DEF ExecutionStep

LEMMA UserStep ==
    ASSUME NEW i \in Insts, IInv,
           \/ i \in Roots /\ (Alter(i) \/ DeleteInstallation(i))
           \/ \E j \in Children(i) : i \in Roots /\ Drop(i, j)
           \/ \E op \in Ops \ {"none"} : SetOperation(i, op)
    PROVE  IInv'
<1>1. IsObject(i, inst[i])
    BY DEF IInv, TypeInv
<1>2. ASSUME NEW o, SetInstallation(i, o), IsObject(i, o), i \notin Inner,
             o.live = inst[i].live, o.fin = inst[i].fin, o.obs = inst[i].obs,
             o.phase = inst[i].phase, o.del = inst[i].del, o.gen # 0
      PROVE  IInv'
  <2>1. inst'[i] = o
      BY <1>2 DEF SetInstallation, IInv, TypeInv
  <2>2. Foreign(i)
      BY <1>2, <2>1 DEF Foreign, Kept
  <2> QED
      BY <1>2, <2>2, InstallationStep
<1>3. CASE i \in Roots /\ Alter(i)
  <2> DEFINE o == [inst[i] EXCEPT !.spec.version = @ + 1, !.gen = @ + 1]
  <2>1. SetInstallation(i, o) /\ i \notin Inner
      BY <1>3 DEF Alter, Inner
  <2>2. inst[i].spec.version + 1 \in Nat /\ inst[i].gen + 1 # 0
      BY <1>1 DEF IsObject
  <2>3. IsObject(i, o)
    <3>1. \A v \in Nat : IsObject(i, [inst[i] EXCEPT !.spec.version = v, !.gen = @ + 1])
        BY <1>1, ChangedObject
    <3> QED
        BY <2>2, <3>1
  <2>4. /\ o.live = inst[i].live /\ o.fin = inst[i].fin /\ o.obs = inst[i].obs
        /\ o.phase = inst[i].phase /\ o.del = inst[i].del /\ o.gen = inst[i].gen + 1
      BY <1>1 DEF IsObject, ObjectFields
  <2> HIDE DEF o
  <2> QED
      BY <1>2, <2>1, <2>2, <2>3, <2>4
<1>4. ASSUME NEW j, i \in Roots, Drop(i, j) PROVE IInv'
  <2> DEFINE o == [inst[i] EXCEPT !.spec.subs = @ \ {j}, !.gen = @ + 1]
  <2>1. SetInstallation(i, o) /\ i \notin Inner
      BY <1>4 DEF Drop, Inner
  <2>2. inst[i].gen + 1 # 0
      BY <1>1 DEF IsObject
  <2>3. IsObject(i, o)
      BY <1>1, ChangedObject
  <2>4. /\ o.live = inst[i].live /\ o.fin = inst[i].fin /\ o.obs = inst[i].obs
        /\ o.phase = inst[i].phase /\ o.del = inst[i].del /\ o.gen = inst[i].gen + 1
      BY <1>1 DEF IsObject, ObjectFields
  <2> HIDE DEF o
  <2> QED
      BY <1>2, <2>1, <2>2, <2>3, <2>4
<1>5. CASE i \in Roots /\ DeleteInstallation(i)
  <2>1. SetInstallation(i, Deleted(inst[i])) /\ i \notin Inner
      BY <1>5 DEF DeleteInstallation, Inner
  <2>2. inst'[i] = Deleted(inst[i])
      BY <2>1 DEF SetInstallation, IInv, TypeInv
  <2>3. Foreign(i) /\ IsObject(i, Deleted(inst[i]))
      BY <1>1, <2>2, DeletedForeign, DeletedObject
  <2> QED
      BY <2>1, <2>3, InstallationStep
<1>6. ASSUME NEW op, SetOperation(i, op) PROVE IInv'
  <2>1. SetInstallation(i, [inst[i] EXCEPT !.op = op])
      BY <1>6 DEF SetOperation
  <2>2. IsObject(i, [inst[i] EXCEPT !.op = op])
      BY <1>1, ChangedObject
  <2>3. SameCore(inst[i], inst'[i])
    <3>1. inst'[i] = [inst[i] EXCEPT !.op = op]
        BY <2>1 DEF SetInstallation, IInv, TypeInv
    <3> QED
        BY <1>1, <3>1 DEF SameCore, IsObject, ObjectFields
  <2>4. Foreign(i) /\ ChildMoves(i)
      BY <2>3 DEF SameCore, Foreign, Kept, ChildMoves
  <2> QED
      BY <2>1, <2>2, <2>4, InstallationStep
<1> QED
    BY <1>3, <1>4, <1>5, <1>6

LEMMA ChangeDataStep ==
    ASSUME NEW k \in Keys, IInv, ChangeData(k)
    PROVE  IInv'
<1> DEFINE J == {i \in Roots : inst[i].live /\ k \in Imports[i]}
<1>1. /\ J \in SUBSET Insts /\ exec' = exec /\ run' = run
      /\ inst' = [i \in Insts |-> IF i \in J THEN [inst[i] EXCEPT !.op = "reconcile"]
                                  ELSE inst[i]]
    BY DEF ChangeData, Others, Roots
<1>2. SameObjects
    BY <1>1, OperationsWritten
<1>3. TypeInv'
    BY <1>1, <1>2 DEF IInv, TypeInv, SameObjects
<1>4. \A i \in Insts : Foreign(i) /\ ChildMoves(i)
    BY <1>2 DEF SameObjects, SameCore, Foreign, Kept, ChildMoves
<1> QED
    BY <1>1, <1>3, <1>4, OutsideStep DEF Inner

\* A crash forgets the runs; what they were in the middle of stays.
LEMMA CrashStep ==
    ASSUME IInv, Crash
    PROVE  IInv'
<1>1. /\ run' = [i \in Insts |-> Idle] /\ inst' = inst /\ exec' = exec
      /\ ~Busy(Idle)
    BY DEF Crash, Busy, Idle
<1>2. TypeInv'
    BY <1>1, NewObjects DEF IInv, TypeInv
<1>3. ASSUME NEW k \in Insts PROVE ObjectInv(k)' /\ RunInv(k, run[k])'
  <2>1. (Leaving(k) => Leaving(k)') /\ (Staying(k)' => Staying(k))
      BY <1>1 DEF Leaving, Staying
  <2>2. /\ Clean(k)' <=> Clean(k)
        /\ Ensured(k)' <=> Ensured(k)
        /\ Started(k)' <=> Started(k)
      BY <1>1 DEF Clean, Ensured, Started
  <2>3. ObjectInv(k)'
      BY <1>1, <2>1, <2>2 DEF IInv, CleanInv, ObjectInv, Evident
  <2> QED
      BY <1>1, <2>3 DEF RunInv
<1> QED
    BY <1>2, <1>3 DEF IInv, CleanInv

-----------------------------------------------------------------------------
(* The theorem about the finalizer.                                        *)

LEMMA InitInv ==
    ASSUME Init
    PROVE  IInv
<1>1. /\ inst = [i \in Insts |-> IF i \in Roots THEN NewInstallation(i, 1)
                                 ELSE NoInstallation]
      /\ exec = [i \in Insts |-> NoExecution] /\ run = [i \in Insts |-> Idle]
    BY DEF Init
<1>2. TypeInv
    BY <1>1, NewObjects DEF TypeInv
<1>3. ASSUME NEW i \in Insts PROVE ObjectInv(i) /\ RunInv(i, run[i])
  <2>1. Clean(i)
      BY <1>1, Forest DEF Clean, Inner, NoExecution, NoInstallation
  <2>2. ~Busy(run[i]) /\ ~inst[i].del /\ ~inst[i].fin /\ (i \in Inner => ~inst[i].live)
      BY <1>1 DEF Busy, Idle, NewInstallation, NoInstallation, Inner
  <2> QED
      BY <2>1, <2>2 DEF ObjectInv, RunInv, Clean, Staying
<1> QED
    BY <1>2, <1>3 DEF IInv, CleanInv

LEMMA NextInv ==
    ASSUME NothingLasts, IInv, [Next]_vars
    PROVE  IInv'
<1>1. ASSUME NEW i \in Insts, Get(i) PROVE IInv'
    BY <1>1, GetStep
<1>2. ASSUME NEW i \in Insts, Step(i) PROVE IInv'
    BY <1>2, AddFinalizerStep, DropReconcileStep, FinishStep, CheckChildrenStep,
       InitPrerequisitesStep, CheckEligibleStep,
       ReadValuesStep, WriteImportsStep, EnsureSubsStep, CreateSubStep,
       TriggerSubsStep, EnsureExecutionStep, DropForceStep, WriteExportsStep,
       PublishStep, TriggerDependantsStep, RecheckStep, RephaseStep,
       DeleteStep, DeleteAllStep, RemoveFinalizerStep DEF Step
<1>3. ASSUME NEW i \in Insts, ExecutionStep(i) PROVE IInv'
    BY <1>3, ExecutionStepKeeps
<1>4. ASSUME NEW i \in Insts, CollectGarbage(i) PROVE IInv'
    BY <1>4, Stutter DEF CollectGarbage, Others
<1>5. ASSUME NEW i \in Insts, Environment(i) PROVE IInv'
    BY <1>5, ExecutionStepKeeps, UserStep DEF Environment
<1>6. ASSUME NEW k \in Keys, ChangeData(k) PROVE IInv'
    BY <1>6, ChangeDataStep
<1>7. CASE Crash
    BY <1>7, CrashStep
<1>8. CASE UNCHANGED vars
    BY <1>8, Stutter DEF vars
<1> QED
    BY <1>1, <1>2, <1>3, <1>4, <1>5, <1>6, <1>7, <1>8 DEF Next

\* In every forest of installations, with any number of workers, conflicts of
\* versions, failed calls, crashes and changes by users: handleDelete removes
\* the finalizer of an installation only when its execution and all of its
\* subinstallations are gone, and nothing it started later appears without it.
\* Installations without subinstallations need nothing else; with them no
\* error may have lasted, as an installation that has failed before its first
\* update looks to its parent like one that is not there.
THEOREM FinalizerProtects == ASSUME NothingLasts PROVE SafetySpec => []GoneIsClean
<1>1. Init => IInv
    BY InitInv
<1>2. IInv /\ [Next]_vars => IInv'
    BY NextInv
<1>3. IInv => GoneIsClean
    BY DEF IInv, CleanInv, ObjectInv, Clean, GoneIsClean, LiveSubs
<1> QED
    BY <1>1, <1>2, <1>3, PTL DEF SafetySpec

-----------------------------------------------------------------------------
(* What has been handed down.  All children of i that are asked for exist  *)
(* and stay, with the content version of their template, when the          *)
(* generation of i is recorded; and what a run knows of that on its way    *)
(* there.                                                                  *)

\* i is not being deleted, and no template has been dropped.
Whole(i) == inst[i].live /\ ~inst[i].del /\ inst[i].spec.subs = Children(i)

Handed(v, js) ==
    \A j \in js : inst[j].live /\ ~inst[j].del /\ inst[j].spec.version = v

ShapeInv ==
    /\ DOMAIN inst = Insts /\ \A i \in Insts : IsObject(i, inst[i])
    /\ DOMAIN run = Insts /\ \A i \in Insts : IsRun(i, run[i])
    /\ DOMAIN fresh = Insts

Recorded(i) ==
    /\ inst[i].del => inst[i].fin
    /\ inst[i].obs <= inst[i].gen
    /\ Whole(i) /\ inst[i].obs = inst[i].gen =>
          Handed(inst[i].spec.version, Children(i))

\* The copy of a run is of the present generation when it has the current
\* version, it never has fewer templates, and only its own run deletes i.
Follows(i, r) ==
    /\ inst[i].live /\ inst[i].fin /\ (r.l.del => inst[i].del)
    /\ r.l.gen <= inst[i].gen /\ r.l.obs <= r.l.gen
    /\ inst[i].spec.subs \subseteq r.l.spec.subs
    /\ r.l.gen = inst[i].gen => r.l.spec = inst[i].spec
    /\ inst[i].obs = inst[i].gen => r.l.gen = inst[i].gen
    /\ i \in fresh[i] => r.l.gen = inst[i].gen

\* What a run is in the middle of.
Modes(r) ==
    /\ r.pc \in {"delete", "deleteAll", "removeFinalizer"} => r.l.del
    /\ r.pc \in {"exports", "publish"} => r.mode \in {"complete", "Succeeded"}
    /\ r.pc = "rephase" => r.mode \in Phase
    /\ r.pc = "context" => r.l.op = "force" \/ r.mode \in CompletedPhases
    /\ r.pc = "eligible" => r.mode \in CompletedPhases
    /\ r.pc \in Constructs /\ ~r.l.del =>
          \/ r.mode \in {"update", "force"}
          \/ r.mode = "complete" /\ r.pc \in {"values", "confs"}

\* How far the Update of a run with the present generation has come.
HandsDown(i, r) ==
    /\ r.pc = "dropForce" /\ ~r.l.del => r.l.obs = r.l.gen
    /\ Whole(i) /\ r.l.gen = inst[i].gen =>
          /\ r.l.obs = r.l.gen => Handed(r.l.spec.version, Children(i))
          /\ r.pc = "subs" =>
                /\ Handed(r.l.spec.version, Children(i) \ r.todo)
                /\ \A j \in Children(i) : inst[j].live => ~inst[j].del
          /\ r.pc \in {"trigger", "exec"} => Handed(r.l.spec.version, Children(i))

RunRecord(i, r) == Follows(i, r) /\ Modes(r) /\ HandsDown(i, r)

RecordInv ==
    /\ ShapeInv
    /\ \A i \in Insts : /\ Recorded(i)
                        /\ Busy(run[i]) => RunRecord(i, run[i])

\* The fields that are read here are as they were.
SameSpec(o, p) ==
    /\ p.live = o.live /\ p.fin = o.fin /\ p.del = o.del
    /\ p.gen = o.gen /\ p.spec = o.spec

\* What others than its own run do to the installation k: they leave it, mark
\* or change it, create it, or delete it when it has no finalizer.
Left(k) == SameSpec(inst[k], inst'[k]) /\ inst'[k].obs = inst[k].obs
Bumped(k) ==
    /\ inst'[k].live = inst[k].live /\ inst'[k].fin = inst[k].fin
    /\ inst[k].del => inst'[k].del
    /\ inst'[k].del => inst[k].del \/ inst[k].fin
    /\ inst'[k].gen = inst[k].gen + 1 /\ inst'[k].obs = inst[k].obs
    /\ inst'[k].spec.subs \subseteq inst[k].spec.subs
Renewed(k) ==
    /\ ~(inst[k].live /\ inst[k].fin)
    /\ inst'[k].live => inst'[k].gen = 1
    /\ inst'[k].obs = 0 /\ ~inst'[k].del
Elsewhere(k) == Left(k) \/ Bumped(k) \/ Renewed(k)

\* What its parent sees of a step of the run of j.
StaysHanded(j) ==
    /\ inst[j].live /\ ~inst[j].del =>
          inst'[j].live /\ ~inst'[j].del /\ inst'[j].spec.version = inst[j].spec.version
    /\ inst'[j].live /\ inst'[j].del => inst[j].live /\ inst[j].del

\* The versions the run of k holds.
StaysOutdated(k) == k \in fresh'[k] => k \in fresh[k] /\ inst'[k] = inst[k]

LEMMA ElsewhereKeeps ==
    ASSUME NEW k \in Insts, RecordInv, ShapeInv',
           run'[k] = run[k], Elsewhere(k), StaysOutdated(k),
           \A j \in Children(k) : StaysHanded(j)
    PROVE  Recorded(k)' /\ (Busy(run[k]) => RunRecord(k, run[k]))'
<1>1. /\ IsObject(k, inst[k]) /\ IsObject(k, inst'[k]) /\ IsRun(k, run[k])
      /\ Recorded(k)
      /\ Busy(run[k]) => Follows(k, run[k]) /\ HandsDown(k, run[k]) /\ Modes(run[k])
    BY DEF RecordInv, RunRecord, ShapeInv
<1>2. /\ inst[k].gen \in Nat /\ inst[k].obs \in Nat /\ inst'[k].gen \in Nat
      /\ inst'[k].obs \in Nat /\ run[k].l.gen \in Nat /\ run[k].l.obs \in Nat
    BY <1>1 DEF IsObject, IsRun
<1>3. ASSUME NEW v, NEW js \in SUBSET Children(k), Handed(v, js)
      PROVE  Handed(v, js)'
    BY <1>3 DEF Handed, StaysHanded
<1>4. CASE Left(k)
  <2>1. Whole(k)' <=> Whole(k)
      BY <1>4 DEF Whole, Left, SameSpec
  <2>2. Recorded(k)'
      BY <1>1, <1>3, <1>4, <2>1 DEF Recorded, Left, SameSpec
  <2>3. Busy(run[k]) => Follows(k, run[k])'
      BY <1>1, <1>4 DEF Follows, Left, SameSpec, StaysOutdated
  <2>4. Busy(run[k]) => HandsDown(k, run[k])'
    <3>1. \A j \in Children(k) : (inst[j].live => ~inst[j].del) => (inst'[j].live => ~inst'[j].del)
        BY DEF StaysHanded
    <3> QED
        BY <1>1, <1>3, <1>4, <2>1, <3>1 DEF HandsDown, Left, SameSpec
  <2> QED
      BY <1>1, <2>2, <2>3, <2>4 DEF RunRecord
<1>5. CASE Bumped(k)
  <2>1. inst'[k].obs < inst'[k].gen
      BY <1>1, <1>2, <1>5 DEF Recorded, Bumped
  <2>2. Busy(run[k]) => run[k].l.gen < inst'[k].gen
      BY <1>1, <1>2, <1>5 DEF Follows, Bumped
  <2>3. Busy(run[k]) => k \notin fresh'[k]
      BY <1>2, <1>5 DEF StaysOutdated, Bumped
  <2>4. Recorded(k)'
      BY <1>1, <1>2, <1>5, <2>1 DEF Recorded, Bumped
  <2>5. Busy(run[k]) => Follows(k, run[k])'
      BY <1>1, <1>2, <1>5, <2>1, <2>2, <2>3 DEF Follows, Bumped
  <2>6. Busy(run[k]) => HandsDown(k, run[k])'
      BY <1>1, <1>2, <2>2 DEF HandsDown
  <2> QED
      BY <1>1, <2>4, <2>5, <2>6 DEF RunRecord
<1>6. CASE Renewed(k)
  <2>1. ~Busy(run[k])
      BY <1>1, <1>6 DEF Renewed, Follows
  <2>2. Recorded(k)'
      BY <1>2, <1>6 DEF Renewed, Recorded, Whole
  <2> QED
      BY <2>1, <2>2
<1> QED
    BY <1>4, <1>5, <1>6 DEF Elsewhere

-----------------------------------------------------------------------------
(* A step of the run of i.                                                 *)

\* The run goes on with s, and all but i only lose the versions they hold.
Holds(i, s) ==
    /\ run' = [run EXCEPT ![i] = s]
    /\ DOMAIN fresh' = Insts
    /\ \A k \in Insts \ {i} : StaysOutdated(k)

StillHolds(i) == i \in fresh'[i] => i \in fresh[i]

LEMMA RunsOn ==
    ASSUME NEW i \in Insts, NEW s, ShapeInv,
           \/ Continue(i, s)
           \/ ReadContext(i, s) /\ inst' = inst
           \/ s = Idle /\ \E failed : Return(i, failed)
    PROVE  Holds(i, s) /\ (Busy(s) => StillHolds(i))
<1>1. CASE Continue(i, s)
    BY <1>1 DEF Continue, Outdate, Holds, StillHolds, StaysOutdated
<1>2. CASE ReadContext(i, s) /\ inst' = inst
  <2>1. i \notin Siblings(i)
      BY DEF Siblings
  <2> QED
      BY <1>2, <2>1 DEF ReadContext, Holds, StillHolds, StaysOutdated, ShapeInv
<1>3. CASE s = Idle /\ \E failed : Return(i, failed)
    BY <1>3 DEF Return, Holds, StaysOutdated, Busy, Idle
<1> QED
    BY <1>1, <1>2, <1>3

LEMMA RunKeepsOthers ==
    ASSUME NEW i \in Insts, NEW s, RecordInv, Holds(i, s), IsRun(i, s),
           DOMAIN inst' = Insts, \A k \in Insts : IsObject(k, inst'[k]),
           \A k \in Insts \ {i} : Elsewhere(k),
           \A k \in Insts \ Children(i) : k \in Inner => StaysHanded(k),
           Recorded(i)', Busy(s) => RunRecord(i, s)'
    PROVE  RecordInv'
<1>1. /\ DOMAIN run' = Insts /\ run'[i] = s
      /\ \A k \in Insts \ {i} : run'[k] = run[k] /\ StaysOutdated(k)
    BY DEF Holds, RecordInv, ShapeInv
<1>2. ShapeInv'
    BY <1>1 DEF RecordInv, ShapeInv, Holds
<1>3. ASSUME NEW k \in Insts \ {i}
      PROVE  Recorded(k)' /\ (Busy(run[k]) => RunRecord(k, run[k]))'
  <2>1. \A j \in Children(k) : j \in Insts \ Children(i) /\ j \in Inner
      BY Forest DEF Inner
  <2> QED
      BY <1>1, <1>2, <2>1, ElsewhereKeeps
<1>4. (Busy(run[i]) => RunRecord(i, run[i]))'
    BY <1>1
<1> QED
    BY <1>2, <1>3, <1>4 DEF RecordInv

\* The run goes on with a copy of the same content.
SameCopy(i, r, s) ==
    /\ IsRun(i, s)
    /\ s.l.del = r.l.del /\ s.l.gen = r.l.gen /\ s.l.obs = r.l.obs
    /\ s.l.spec = r.l.spec

\* Steps that write no specs: only operations, phases and, with the current
\* version, the observed generation of the copy.
SpecsLeft(i) ==
    /\ DOMAIN inst' = Insts
    /\ \A k \in Insts : IsObject(k, inst'[k]) /\ SameSpec(inst[k], inst'[k])
    /\ \A k \in Insts \ {i} : inst'[k].obs = inst[k].obs
    /\ \/ inst'[i].obs = inst[i].obs
       \/ i \in fresh[i] /\ Busy(run[i]) /\ inst'[i].obs = run[i].l.obs

LEMMA SpecsLeftStep ==
    ASSUME NEW i \in Insts, NEW s, RecordInv, Holds(i, s), SpecsLeft(i), IsRun(i, s),
           Busy(s) => /\ RunRecord(i, s) /\ (i \in fresh'[i] => s.l.gen = inst[i].gen)
                      /\ s.l.gen \in {inst[i].gen, run[i].l.gen}
    PROVE  RecordInv'
<1>1. \A k \in Insts : SameSpec(inst[k], inst'[k]) /\ IsObject(k, inst'[k])
    BY DEF SpecsLeft
<1>2. \A k \in Insts : StaysHanded(k)
    BY <1>1 DEF SameSpec, StaysHanded
<1>3. \A k \in Insts \ {i} : Elsewhere(k)
    BY <1>1 DEF Elsewhere, Left, SpecsLeft
<1>4. Whole(i)' <=> Whole(i)
    BY <1>1 DEF SameSpec, Whole
<1>5. ASSUME NEW v, NEW js \in SUBSET Children(i), Handed(v, js) PROVE Handed(v, js)'
    BY <1>2, <1>5 DEF Handed, StaysHanded, Children
<1>6. \A j \in Children(i) : (inst[j].live => ~inst[j].del) => (inst'[j].live => ~inst'[j].del)
    BY <1>2 DEF StaysHanded, Children
<1>7. Recorded(i)'
  <2>1. CASE inst'[i].obs = inst[i].obs
      BY <1>1, <1>4, <1>5, <2>1 DEF RecordInv, Recorded, SameSpec
  <2>2. CASE i \in fresh[i] /\ Busy(run[i]) /\ inst'[i].obs = run[i].l.obs
    <3>1. /\ run[i].l.gen = inst[i].gen /\ run[i].l.obs <= run[i].l.gen
          /\ run[i].l.spec = inst[i].spec /\ HandsDown(i, run[i]) /\ Recorded(i)
        BY <2>2 DEF RecordInv, RunRecord, Follows
    <3> QED
        BY <1>1, <1>4, <1>5, <2>2, <3>1 DEF Recorded, SameSpec, HandsDown
  <2> QED
      BY <2>1, <2>2 DEF SpecsLeft
<1>8. ASSUME Busy(s) PROVE RunRecord(i, s)'
  <2>1. Follows(i, s)'
    <3>1. inst'[i].obs = inst[i].gen => s.l.gen = inst[i].gen
      <4>1. CASE inst'[i].obs = inst[i].obs
          BY <1>8, <4>1 DEF RunRecord, Follows
      <4>2. CASE i \in fresh[i] /\ Busy(run[i])
          BY <1>8, <4>2 DEF RecordInv, RunRecord, Follows
      <4> QED
          BY <4>1, <4>2 DEF SpecsLeft
    <3> QED
        BY <1>1, <1>8, <3>1 DEF RunRecord, Follows, SameSpec, Holds
  <2>2. Children(i) \ s.todo \in SUBSET Children(i)
      OBVIOUS
  <2>3. HandsDown(i, s)'
      BY <1>1, <1>4, <1>5, <1>6, <1>8, <2>2 DEF RunRecord, HandsDown, SameSpec
  <2> QED
      BY <1>8, <2>1, <2>3 DEF RunRecord
<1> QED
    BY <1>1, <1>2, <1>3, <1>7, <1>8, RunKeepsOthers DEF SpecsLeft

\* Such a step, after which the run is not in the middle of an Update.
LEMMA CopyStep ==
    ASSUME NEW i \in Insts, NEW s, RecordInv, Holds(i, s), SpecsLeft(i),
           StillHolds(i), Busy(run[i]), SameCopy(i, run[i], s),
           s.pc \notin {"subs", "trigger", "exec", "dropForce"},
           Modes(s)
    PROVE  RecordInv'
<1>1. Follows(i, run[i]) /\ HandsDown(i, run[i]) /\ IsRun(i, s)
    BY DEF RecordInv, RunRecord, SameCopy
<1>2. Follows(i, s)
    BY <1>1 DEF Follows, SameCopy
<1>3. HandsDown(i, s)
    BY <1>1 DEF HandsDown, SameCopy
<1>4. i \in fresh'[i] => s.l.gen = inst[i].gen
    BY <1>1 DEF StillHolds, Follows, SameCopy
<1> QED
    BY <1>1, <1>2, <1>3, <1>4, SpecsLeftStep DEF RunRecord, SameCopy

LEMMA ReturnStep ==
    ASSUME NEW i \in Insts, RecordInv, SpecsLeft(i),
           \E failed : Return(i, failed)
    PROVE  RecordInv'
<1>1. Holds(i, Idle)
    BY RunsOn DEF RecordInv
<1>2. IsRun(i, Idle) /\ ~Busy(Idle)
    BY NewObjects DEF Busy, Idle
<1> QED
    BY <1>1, <1>2, SpecsLeftStep

LEMMA NothingWritten ==
    ASSUME NEW i, RecordInv, inst' = inst
    PROVE  SpecsLeft(i)
BY DEF RecordInv, ShapeInv, SpecsLeft, SameSpec

LEMMA ErrorStep ==
    ASSUME NEW i \in Insts, NEW s, RecordInv, SpecsLeft(i), Busy(run[i]),
           Continue(i, s), s = Fails(run[i]) \/ s = FailsPlain(run[i])
    PROVE  RecordInv'
<1>1. IsRun(i, run[i]) /\ Holds(i, s) /\ (Busy(s) => StillHolds(i))
    BY RunsOn DEF RecordInv, ShapeInv
<1>2. /\ DOMAIN s = RunFields /\ s.pc = "finish" /\ s.l = run[i].l
      /\ s.todo = run[i].todo
    BY <1>1 DEF Fails, FailsPlain, IsRun, RunFields
<1>3. SameCopy(i, run[i], s)
    BY <1>1, <1>2 DEF SameCopy, IsRun, PCs
<1>4. Modes(s) /\ Busy(s)
    BY <1>2 DEF Modes, Constructs, Busy
<1> QED
    BY <1>1, <1>2, <1>3, <1>4, CopyStep

\* Writes of operations.
LEMMA OpsWritten ==
    ASSUME NEW i \in Insts, RecordInv, NEW J, NEW op,
           inst' = [j \in Insts |-> IF j \in J THEN [inst[j] EXCEPT !.op = op]
                                    ELSE inst[j]]
    PROVE  SpecsLeft(i)
<1>1. ASSUME NEW k \in Insts
      PROVE  LET o == [inst[k] EXCEPT !.op = op] IN
             IsObject(k, o) /\ SameSpec(inst[k], o) /\ o.obs = inst[k].obs
    BY DEF RecordInv, ShapeInv, SameSpec, IsObject, ObjectFields
<1>2. \A k \in Insts : /\ IsObject(k, inst'[k]) /\ SameSpec(inst[k], inst'[k])
                       /\ inst'[k].obs = inst[k].obs
    BY <1>1 DEF RecordInv, ShapeInv, SameSpec
<1> QED
    BY <1>2 DEF SpecsLeft

LEMMA OpWritten ==
    ASSUME NEW i \in Insts, RecordInv, NEW op, inst' = [inst EXCEPT ![i].op = op]
    PROVE  SpecsLeft(i)
<1>1. inst' = [j \in Insts |-> IF j \in {i} THEN [inst[j] EXCEPT !.op = op]
                               ELSE inst[j]]
    BY DEF RecordInv, ShapeInv
<1> QED
    BY <1>1, OpsWritten, ZenonT(40)

\* The status of o, a copy with the observed generation of the run's.
LEMMA StatusWritten ==
    ASSUME NEW i \in Insts, NEW o, RecordInv, IsObject(i, o), i \in fresh[i],
           Busy(run[i]), o.obs = run[i].l.obs,
           inst' = [inst EXCEPT ![i] = WithStatus(@, o)]
    PROVE  SpecsLeft(i)
<1>1. IsObject(i, inst[i])
    BY DEF RecordInv, ShapeInv
<1>2. LET x == WithStatus(inst[i], o) IN
      IsObject(i, x) /\ SameSpec(inst[i], x) /\ x.obs = o.obs
    BY <1>1, ChangedObject DEF WithStatus, SameSpec, IsObject, ObjectFields
<1>3. /\ DOMAIN inst' = Insts /\ inst'[i] = WithStatus(inst[i], o)
      /\ \A k \in Insts \ {i} : inst'[k] = inst[k]
    BY DEF RecordInv, ShapeInv
<1> QED
    BY <1>2, <1>3 DEF SpecsLeft, SameSpec, RecordInv, ShapeInv

-----------------------------------------------------------------------------
(* The steps without a write to specs.                                     *)

LEMMA StutterRecord ==
    ASSUME RecordInv, UNCHANGED <<inst, run, fresh>>
    PROVE  RecordInv'
BY DEF RecordInv, ShapeInv, Recorded, RunRecord, Follows, Modes, HandsDown, Handed, Whole

LEMMA GetRecord ==
    ASSUME NEW i \in Insts, RecordInv, Get(i)
    PROVE  RecordInv'
<1> DEFINE o == inst[i]
           p == IF ~o.del /\ ~o.fin THEN "finalizer"
                ELSE IF o.del THEN "delete"
                ELSE IF o.op = "reconcile" THEN "dropOp"
                ELSE IF o.op = "force" THEN "context"
                ELSE IF IsCompleted(o.phase) /\ o.obs = o.gen THEN "recheck"
                ELSE "check"
           s == [Idle EXCEPT !.pc = p, !.l = o]
<1>1. SpecsLeft(i) /\ IsObject(i, o) /\ Recorded(i)
    BY NothingWritten DEF Get, RecordInv, ShapeInv
<1>2. CASE o.live /\ run' = [run EXCEPT ![i] = s] /\ fresh' = [fresh EXCEPT ![i] = {i}]
  <2>1. s.pc = p /\ s.l = o /\ s.mode = "none" /\ s.todo = {} /\ DOMAIN s = RunFields
      BY DEF Idle, RunFields
  <2>2. IsRun(i, s)
      BY <1>1, <2>1 DEF IsRun, PCs
  <2>3. ASSUME Busy(s)
        PROVE  RunRecord(i, s)
               /\ s.pc \in {"delete", "dropOp", "check", "context", "recheck"}
    <3>1. s.pc \in {"delete", "dropOp", "check", "context", "recheck"}
          /\ (s.pc = "delete" => o.del) /\ (s.pc = "context" => o.op = "force")
          /\ (o.del \/ o.fin)
        BY <2>1, <2>3 DEF Busy
    <3>2. o.fin
        BY <1>1, <3>1 DEF Recorded
    <3> QED
        BY <1>1, <1>2, <2>1, <3>1, <3>2
           DEF RunRecord, Follows, Modes, HandsDown, Recorded, Constructs, IsObject
  <2>4. Holds(i, s)
      BY <1>1, <1>2 DEF Holds, StaysOutdated, Get, RecordInv, ShapeInv
  <2> QED
      BY <1>1, <2>1, <2>2, <2>3, <2>4, SpecsLeftStep
<1>3. CASE UNCHANGED <<run, fresh>>
    BY <1>3, StutterRecord DEF Get
<1> QED
    BY <1>2, <1>3 DEF Get

LEMMA MoveStep ==
    ASSUME NEW i \in Insts, NEW s, RecordInv, SpecsLeft(i), Busy(run[i]), Busy(s),
           Continue(i, s) \/ (ReadContext(i, s) /\ inst' = inst),
           SameCopy(i, run[i], s), Modes(s),
           s.pc \notin {"subs", "trigger", "exec", "dropForce"}
    PROVE  RecordInv'
<1>1. Holds(i, s) /\ StillHolds(i)
    BY RunsOn DEF RecordInv
<1> QED
    BY <1>1, CopyStep

\* The run of i as an action finds it.
LEMMA RunFound ==
    ASSUME NEW i \in Insts, RecordInv, run[i].pc \notin {"idle", "finalizer"}
    PROVE  /\ IsRun(i, run[i]) /\ Busy(run[i]) /\ IsObject(i, run[i].l)
           /\ Follows(i, run[i]) /\ Modes(run[i]) /\ HandsDown(i, run[i])
BY DEF RecordInv, ShapeInv, RunRecord, Busy, IsRun

LEMMA DropReconcileRecord ==
    ASSUME NEW i \in Insts, RecordInv, DropReconcile(i)
    PROVE  RecordInv'
<1> DEFINE s == [run[i] EXCEPT !.pc = "check", !.l.op = "none"]
<1>1. IsRun(i, run[i]) /\ Busy(run[i]) /\ IsObject(i, run[i].l)
    BY RunFound DEF DropReconcile, At
<1>2. CASE inst' = [inst EXCEPT ![i].op = "none"] /\ Continue(i, s)
  <2>1. SpecsLeft(i)
      BY <1>2, OpWritten
  <2>2. SameCopy(i, run[i], s) /\ s.pc = "check"
      BY <1>1 DEF SameCopy, IsRun, RunFields, IsObject, ObjectFields, PCs
  <2> HIDE DEF s
  <2>3. Modes(s) /\ Busy(s)
      BY <2>2 DEF Modes, Constructs, Busy
  <2> QED
      BY <1>1, <1>2, <2>1, <2>2, <2>3, MoveStep
<1>3. CASE inst' = inst /\ Return(i, TRUE)
    BY <1>3, NothingWritten, ReturnStep
<1> QED
    BY <1>2, <1>3 DEF DropReconcile

LEMMA CheckChildrenRecord ==
    ASSUME NEW i \in Insts, RecordInv, CheckChildren(i)
    PROVE  RecordInv'
<1> DEFINE r == run[i]
           p == IF ChildPhase(i) = NoPhase THEN "Succeeded" ELSE ChildPhase(i)
           To(q) == [r EXCEPT !.pc = "finish", !.l.phase = q]
           On == [r EXCEPT !.pc = "context", !.mode = p]
<1>1. IsRun(i, r) /\ Busy(r)
    BY RunFound DEF CheckChildren, At
<1>2. SpecsLeft(i)
    BY NothingWritten DEF CheckChildren
<1>3. \/ \E q \in {"Progressing", "Aborted"} : Continue(i, To(q))
      \/ IsCompleted(p) /\ Continue(i, On)
    BY DEF CheckChildren
<1> HIDE DEF p
<1>4. ASSUME NEW q \in {"Progressing", "Aborted"}, Continue(i, To(q)) PROVE RecordInv'
  <2> PICK s : s = To(q)
      OBVIOUS
  <2>1. q \in Phase
      BY DEF Phase, RunningPhases, CompletedPhases
  <2>2. SameCopy(i, r, s) /\ s.pc = "finish"
      BY <1>1, <2>1 DEF SameCopy, IsRun, RunFields, IsObject, ObjectFields, PCs
  <2>3. Modes(s) /\ Busy(s)
      BY <2>2 DEF Modes, Constructs, Busy
  <2> QED
      BY <1>1, <1>2, <1>4, <2>2, <2>3, MoveStep
<1>5. CASE IsCompleted(p) /\ Continue(i, On)
  <2> PICK s : s = On
      OBVIOUS
  <2>1. SameCopy(i, r, s) /\ s.pc = "context" /\ s.mode = p
      BY <1>1 DEF SameCopy, IsRun, RunFields, PCs
  <2>2. Modes(s) /\ Busy(s)
      BY <1>5, <2>1 DEF Modes, Constructs, Busy, IsCompleted
  <2> QED
      BY <1>1, <1>2, <1>5, <2>1, <2>2, MoveStep
<1> QED
    BY <1>3, <1>4, <1>5

LEMMA InitPrerequisitesRecord ==
    ASSUME NEW i \in Insts, RecordInv, InitPrerequisites(i)
    PROVE  RecordInv'
<1> DEFINE r == run[i]
           Forced == [r EXCEPT !.ready = ContextReady(i), !.pc = "values",
                               !.mode = "force", !.l.phase = "Pending"]
           On == [r EXCEPT !.ready = ContextReady(i), !.pc = "eligible",
                           !.refs = Importers(i)]
<1>1. IsRun(i, r) /\ Busy(r) /\ Modes(r) /\ r.pc = "context"
    BY RunFound DEF InitPrerequisites, At
<1>2. SpecsLeft(i) /\ inst' = inst
    BY NothingWritten DEF InitPrerequisites
<1>3. CASE Continue(i, Fails(r))
    BY <1>1, <1>2, <1>3, ErrorStep
<1>4. CASE ReadContext(i, Forced)
  <2> PICK s : s = Forced
      OBVIOUS
  <2>1. SameCopy(i, r, s) /\ s.pc = "values" /\ s.mode = "force"
      BY <1>1 DEF SameCopy, IsRun, RunFields, IsObject, ObjectFields, PCs, Phase, RunningPhases
  <2>2. Modes(s) /\ Busy(s)
      BY <2>1 DEF Modes, Constructs, Busy
  <2> QED
      BY <1>1, <1>2, <1>4, <2>1, <2>2, MoveStep
<1>5. CASE r.l.op # "force" /\ ReadContext(i, On)
  <2> PICK s : s = On
      OBVIOUS
  <2>1. SameCopy(i, r, s) /\ s.pc = "eligible" /\ s.mode = r.mode
      BY <1>1 DEF SameCopy, IsRun, RunFields, PCs
  <2>2. Modes(s) /\ Busy(s)
      BY <1>1, <1>5, <2>1 DEF Modes, Constructs, Busy
  <2> QED
      BY <1>1, <1>2, <1>5, <2>1, <2>2, MoveStep
<1> QED
    BY <1>3, <1>4, <1>5 DEF InitPrerequisites

LEMMA CheckEligibleRecord ==
    ASSUME NEW i \in Insts, RecordInv, CheckEligible(i)
    PROVE  RecordInv'
<1> DEFINE r == run[i]
           Update == [r EXCEPT !.pc = "values", !.mode = "update", !.l.phase = "Pending"]
           To == [r EXCEPT !.pc = "finish", !.l.phase = r.mode]
           Complete == [r EXCEPT !.pc = "values", !.mode = "complete"]
<1>1. IsRun(i, r) /\ Busy(r) /\ Modes(r) /\ r.pc = "eligible"
    BY RunFound DEF CheckEligible, At
<1>2. SpecsLeft(i)
    BY NothingWritten DEF CheckEligible
<1>3. CASE Continue(i, Fails(r))
    BY <1>1, <1>2, <1>3, ErrorStep
<1>4. CASE Continue(i, Update)
  <2> PICK s : s = Update
      OBVIOUS
  <2>1. SameCopy(i, r, s) /\ s.pc = "values" /\ s.mode = "update"
      BY <1>1 DEF SameCopy, IsRun, RunFields, IsObject, ObjectFields, PCs, Phase, RunningPhases
  <2>2. Modes(s) /\ Busy(s)
      BY <2>1 DEF Modes, Constructs, Busy
  <2> QED
      BY <1>1, <1>2, <1>4, <2>1, <2>2, MoveStep
<1>5. CASE Continue(i, To)
  <2> PICK s : s = To
      OBVIOUS
  <2>1. r.mode \in Phase
      BY <1>1 DEF Modes, Phase
  <2>2. SameCopy(i, r, s) /\ s.pc = "finish"
      BY <1>1, <2>1 DEF SameCopy, IsRun, RunFields, IsObject, ObjectFields, PCs
  <2>3. Modes(s) /\ Busy(s)
      BY <2>2 DEF Modes, Constructs, Busy
  <2> QED
      BY <1>1, <1>2, <1>5, <2>2, <2>3, MoveStep
<1>6. CASE Continue(i, Complete)
  <2> PICK s : s = Complete
      OBVIOUS
  <2>1. SameCopy(i, r, s) /\ s.pc = "values" /\ s.mode = "complete"
      BY <1>1 DEF SameCopy, IsRun, RunFields, PCs
  <2>2. Modes(s) /\ Busy(s)
      BY <2>1 DEF Modes, Constructs, Busy
  <2> QED
      BY <1>1, <1>2, <1>6, <2>1, <2>2, MoveStep
<1> QED
    BY <1>3, <1>4, <1>5, <1>6 DEF CheckEligible

LEMMA ReadValuesRecord ==
    ASSUME NEW i \in Insts, RecordInv, ReadValues(i)
    PROVE  RecordInv'
<1> DEFINE r == run[i]
           To == [r EXCEPT !.pc = "confs", !.vals =
                             [k \in Imports[i] |-> data[Parent[i]][k]]]
<1>1. IsRun(i, r) /\ Busy(r) /\ Modes(r) /\ r.pc = "values"
    BY RunFound DEF ReadValues, At
<1>2. SpecsLeft(i)
    BY NothingWritten DEF ReadValues
<1>3. CASE Continue(i, To)
  <2> PICK s : s = To
      OBVIOUS
  <2>1. SameCopy(i, r, s) /\ s.pc = "confs" /\ s.mode = r.mode
      BY <1>1 DEF SameCopy, IsRun, RunFields, PCs
  <2>2. Modes(s) /\ Busy(s)
      BY <1>1, <2>1 DEF Modes, Constructs, Busy, SameCopy
  <2> QED
      BY <1>1, <1>2, <1>3, <2>1, <2>2, MoveStep
<1>4. CASE Continue(i, Fails(r))
    BY <1>1, <1>2, <1>4, ErrorStep
<1>5. Continue(i, To) \/ Continue(i, Fails(r))
    BY DEF ReadValues
<1> QED
    BY <1>3, <1>4, <1>5

LEMMA WriteImportsRecord ==
    ASSUME NEW i \in Insts, RecordInv, WriteImports(i)
    PROVE  RecordInv'
<1> DEFINE r == run[i]
           confs == [k \in Imports[i] |->
                       IF Source(i, k) = Root THEN r.vals[k] ELSE ConfOf(i, k)]
           update == [r EXCEPT !.pc = "ensure", !.confs = confs,
                               !.l.phase = "Progressing"]
           complete == [r EXCEPT !.pc = "exports"]
<1>1. IsRun(i, r) /\ Busy(r) /\ Modes(r) /\ r.pc = "confs"
    BY RunFound DEF WriteImports, At
<1>2. SpecsLeft(i)
    BY NothingWritten DEF WriteImports
<1>3. \/ r.mode = "complete" /\ Continue(i, complete)
      \/ r.mode # "complete" /\ Continue(i, update)
      \/ Continue(i, Fails(r))
    BY DEF WriteImports
<1> HIDE DEF confs
<1>4. CASE r.mode = "complete" /\ Continue(i, complete)
  <2> PICK s : s = complete
      OBVIOUS
  <2>1. SameCopy(i, r, s) /\ s.pc = "exports" /\ s.mode = r.mode
      BY <1>1 DEF SameCopy, IsRun, RunFields, PCs
  <2>2. Modes(s) /\ Busy(s)
      BY <1>4, <2>1 DEF Modes, Constructs, Busy
  <2> QED
      BY <1>1, <1>2, <1>4, <2>1, <2>2, MoveStep
<1>5. CASE r.mode # "complete" /\ Continue(i, update)
  <2> PICK s : s = update
      OBVIOUS
  <2>1. SameCopy(i, r, s) /\ s.pc = "ensure" /\ s.mode = r.mode
      BY <1>1 DEF SameCopy, IsRun, RunFields, IsObject, ObjectFields, PCs, Phase, RunningPhases
  <2>2. Modes(s) /\ Busy(s)
      BY <1>1, <1>5, <2>1 DEF Modes, Constructs, Busy, SameCopy
  <2> QED
      BY <1>1, <1>2, <1>5, <2>1, <2>2, MoveStep
<1>6. CASE Continue(i, Fails(r))
    BY <1>1, <1>2, <1>6, ErrorStep
<1> QED
    BY <1>3, <1>4, <1>5, <1>6

LEMMA WriteExportsRecord ==
    ASSUME NEW i \in Insts, RecordInv, WriteExports(i)
    PROVE  RecordInv'
<1> DEFINE r == run[i]
<1>1. IsRun(i, r) /\ Busy(r) /\ Modes(r) /\ r.pc = "exports"
    BY RunFound DEF WriteExports, At
<1>2. SpecsLeft(i)
    BY NothingWritten DEF WriteExports
<1>3. CASE Continue(i, [r EXCEPT !.pc = "publish"])
  <2> PICK s : s = [r EXCEPT !.pc = "publish"]
      OBVIOUS
  <2>1. SameCopy(i, r, s) /\ s.pc = "publish" /\ s.mode = r.mode
      BY <1>1 DEF SameCopy, IsRun, RunFields, PCs
  <2>2. Modes(s) /\ Busy(s)
      BY <1>1, <2>1 DEF Modes, Constructs, Busy
  <2> QED
      BY <1>1, <1>2, <1>3, <2>1, <2>2, MoveStep
<1>4. CASE Continue(i, Fails(r)) \/ Return(i, TRUE)
    BY <1>1, <1>2, <1>4, ErrorStep, ReturnStep
<1> QED
    BY <1>3, <1>4 DEF WriteExports

LEMMA TriggerSubsRecord ==
    ASSUME NEW i \in Insts, RecordInv, TriggerSubs(i)
    PROVE  RecordInv'
<1> DEFINE r == run[i]
           mark(js) == inst' = [j \in Insts |-> IF j \in js
                           THEN [inst[j] EXCEPT !.op = "reconcile"] ELSE inst[j]]
<1>1. IsRun(i, r) /\ Busy(r) /\ Modes(r) /\ Follows(i, r) /\ HandsDown(i, r) /\ r.pc = "trigger"
    BY RunFound DEF TriggerSubs, At
<1>2. /\ \E js : mark(js)
      /\ Continue(i, [r EXCEPT !.pc = "exec"]) \/ Continue(i, Fails(r))
    BY DEF TriggerSubs
<1>3. SpecsLeft(i)
    BY <1>2, OpsWritten
<1> HIDE DEF mark
<1>4. CASE Continue(i, [r EXCEPT !.pc = "exec"])
  <2> PICK s : s = [r EXCEPT !.pc = "exec"]
      OBVIOUS
  <2>1. SameCopy(i, r, s) /\ s.pc = "exec" /\ s.mode = r.mode
      BY <1>1 DEF SameCopy, IsRun, RunFields, PCs
  <2>2. Busy(s) /\ Holds(i, s) /\ StillHolds(i)
      BY <1>4, <2>1, RunsOn DEF Busy, RecordInv
  <2>3. RunRecord(i, s) /\ (i \in fresh'[i] => s.l.gen = inst[i].gen)
      BY <1>1, <2>1, <2>2
         DEF RunRecord, Follows, Modes, HandsDown, Constructs, SameCopy, StillHolds
  <2> QED
      BY <1>3, <2>1, <2>2, <2>3, SpecsLeftStep DEF SameCopy
<1>5. CASE Continue(i, Fails(r))
    BY <1>1, <1>3, <1>5, ErrorStep
<1> QED
    BY <1>2, <1>4, <1>5

LEMMA TriggerDependantsRecord ==
    ASSUME NEW i \in Insts, RecordInv, TriggerDependants(i)
    PROVE  RecordInv'
<1> DEFINE r == run[i]
           mark(js) == inst' = [j \in Insts |-> IF j \in js
                           THEN [inst[j] EXCEPT !.op = "reconcile"] ELSE inst[j]]
<1>1. IsRun(i, r) /\ Busy(r)
    BY RunFound DEF TriggerDependants, At
<1>2. /\ \E js : mark(js)
      /\ \/ Continue(i, [r EXCEPT !.pc = "finish"]) \/ Continue(i, Fails(r))
         \/ \E failed : Return(i, failed)
    BY DEF TriggerDependants
<1>3. SpecsLeft(i)
    BY <1>2, OpsWritten
<1> HIDE DEF mark
<1>4. CASE Continue(i, [r EXCEPT !.pc = "finish"])
  <2> PICK s : s = [r EXCEPT !.pc = "finish"]
      OBVIOUS
  <2>1. SameCopy(i, r, s) /\ s.pc = "finish"
      BY <1>1 DEF SameCopy, IsRun, RunFields, PCs
  <2>2. Modes(s) /\ Busy(s)
      BY <2>1 DEF Modes, Constructs, Busy
  <2> QED
      BY <1>1, <1>3, <1>4, <2>1, <2>2, MoveStep
<1>5. CASE Continue(i, Fails(r)) \/ \E failed : Return(i, failed)
    BY <1>1, <1>3, <1>5, ErrorStep, ReturnStep
<1> QED
    BY <1>2, <1>4, <1>5

LEMMA RecheckRecord ==
    ASSUME NEW i \in Insts, RecordInv, Recheck(i)
    PROVE  RecordInv'
<1> DEFINE r == run[i]
           cp == CombinedPhase(RawPhases(i))
           To == [r EXCEPT !.mode = cp, !.refs = Importers(i),
                           !.pc = IF cp = "Succeeded" THEN "exports" ELSE "rephase"]
<1>1. IsRun(i, r) /\ Busy(r)
    BY RunFound DEF Recheck, At
<1>2. SpecsLeft(i) /\ inst' = inst
    BY NothingWritten DEF Recheck
<1>3. (\E failed : Return(i, failed)) \/ ReadContext(i, To)
    BY DEF Recheck
<1>4. cp \in Phase
    BY DEF CombinedPhase, Phase, RunningPhases, CompletedPhases, NoPhase
<1> HIDE DEF cp
<1>5. CASE ReadContext(i, To)
  <2> PICK s : s = To
      OBVIOUS
  <2>1. /\ SameCopy(i, r, s) /\ s.mode = cp /\ s.pc \in {"exports", "rephase"}
        /\ s.pc = "exports" => cp = "Succeeded"
      BY <1>1 DEF SameCopy, IsRun, RunFields, PCs
  <2>2. Modes(s) /\ Busy(s)
      BY <1>4, <2>1 DEF Modes, Constructs, Busy
  <2> QED
      BY <1>1, <1>2, <1>5, <2>1, <2>2, MoveStep
<1> QED
    BY <1>2, <1>3, <1>5, ReturnStep

LEMMA DeleteRecord ==
    ASSUME NEW i \in Insts, RecordInv, Delete(i)
    PROVE  RecordInv'
<1> DEFINE r == run[i]
           Up(q) == [r EXCEPT !.pc = "values", !.mode = "delete",
                              !.ready = ContextReady(i), !.l.phase = q]
           To(p) == [r EXCEPT !.pc = p]
           Deleting == [r EXCEPT !.pc = "finish", !.l.phase = "Deleting"]
<1>1. IsRun(i, r) /\ Busy(r) /\ Modes(r) /\ r.pc = "delete" /\ r.l.del
    BY RunFound DEF Delete, At, Modes
<1>2. SpecsLeft(i) /\ inst' = inst
    BY NothingWritten DEF Delete
<1>3. \/ Continue(i, Fails(r))
      \/ ReadContext(i, Up(IF r.l.op = "force" THEN r.l.phase ELSE "Pending"))
      \/ \E p \in {"removeFinalizer", "deleteAll"} : Continue(i, To(p))
      \/ Continue(i, Deleting)
    BY DEF Delete
<1>4. CASE ReadContext(i, Up(IF r.l.op = "force" THEN r.l.phase ELSE "Pending"))
  <2> PICK q : q = (IF r.l.op = "force" THEN r.l.phase ELSE "Pending")
      OBVIOUS
  <2>1. q \in Phase
      BY <1>1 DEF IsRun, IsObject, Phase, RunningPhases
  <2> PICK s : s = Up(q)
      OBVIOUS
  <2>2. SameCopy(i, r, s) /\ s.pc = "values" /\ s.l.del
      BY <1>1, <2>1 DEF SameCopy, IsRun, RunFields, IsObject, ObjectFields, PCs
  <2>3. Modes(s) /\ Busy(s)
      BY <2>2 DEF Modes, Constructs, Busy
  <2> QED
      BY <1>1, <1>2, <1>4, <2>2, <2>3, MoveStep
<1>5. ASSUME NEW p \in {"removeFinalizer", "deleteAll"}, Continue(i, To(p))
      PROVE  RecordInv'
  <2> PICK s : s = To(p)
      OBVIOUS
  <2>1. SameCopy(i, r, s) /\ s.pc = p /\ s.l.del
      BY <1>1 DEF SameCopy, IsRun, RunFields, PCs
  <2>2. Modes(s) /\ Busy(s)
      BY <2>1 DEF Modes, Constructs, Busy
  <2> QED
      BY <1>1, <1>2, <1>5, <2>1, <2>2, MoveStep
<1>6. CASE Continue(i, Deleting)
  <2> PICK s : s = Deleting
      OBVIOUS
  <2>1. SameCopy(i, r, s) /\ s.pc = "finish"
      BY <1>1 DEF SameCopy, IsRun, RunFields, IsObject, ObjectFields, PCs, Phase, RunningPhases
  <2>2. Modes(s) /\ Busy(s)
      BY <2>1 DEF Modes, Constructs, Busy
  <2> QED
      BY <1>1, <1>2, <1>6, <2>1, <2>2, MoveStep
<1>7. CASE Continue(i, Fails(r))
    BY <1>1, <1>2, <1>7, ErrorStep
<1> QED
    BY <1>3, <1>4, <1>5, <1>6, <1>7

LEMMA FinishRecord ==
    ASSUME NEW i \in Insts, RecordInv, Finish(i)
    PROVE  RecordInv'
<1> DEFINE r == run[i]
           o(e) == [r.l EXCEPT !.err = e, !.phase = PhaseForLastError(@, e)]
<1>1. IsRun(i, r) /\ Busy(r) /\ IsObject(i, r.l)
    BY RunFound DEF Finish, At
<1>2. /\ \E failed : Return(i, failed)
      /\ \/ inst' = inst
         \/ i \in fresh[i] /\ \E e : inst' = [inst EXCEPT ![i] = WithStatus(@, o(e))]
    BY DEF Finish
<1>3. CASE inst' = inst
    BY <1>2, <1>3, NothingWritten, ReturnStep
<1>4. ASSUME NEW e, i \in fresh[i], inst' = [inst EXCEPT ![i] = WithStatus(@, o(e))]
      PROVE  RecordInv'
  <2> PICK x : x = o(e)
      OBVIOUS
  <2>1. PhaseForLastError(r.l.phase, e) \in Phase
      BY <1>1 DEF PhaseForLastError, IsObject, Phase, CompletedPhases
  <2>2. IsObject(i, x) /\ x.obs = r.l.obs
      BY <1>1, <2>1 DEF IsObject, ObjectFields
  <2>3. inst' = [inst EXCEPT ![i] = WithStatus(@, x)]
      BY <1>4
  <2>4. SpecsLeft(i)
      BY <1>1, <1>4, <2>2, <2>3, StatusWritten
  <2> QED
      BY <1>2, <2>4, ReturnStep
<1> QED
    BY <1>2, <1>3, <1>4

LEMMA PublishRecord ==
    ASSUME NEW i \in Insts, RecordInv, Publish(i)
    PROVE  RecordInv'
<1> DEFINE r == run[i]
           o == [r.l EXCEPT !.conf = ConfigGeneration(r.l)]
           complete == [r EXCEPT !.l = [o EXCEPT !.phase = "Succeeded"], !.pc = "dependants"]
           changed == [r EXCEPT !.l = o, !.pc = "rephase"]
           refused == Fails([r EXCEPT !.l = o])
<1>1. /\ IsRun(i, r) /\ Busy(r) /\ IsObject(i, r.l)
      /\ r.mode \in {"complete", "Succeeded"}
    BY RunFound DEF Publish, At, Modes
<1>2. IsObject(i, o) /\ o.obs = r.l.obs
    BY <1>1 DEF IsObject, ObjectFields
<1>3. /\ SameCopy(i, r, complete) /\ complete.pc = "dependants"
      /\ SameCopy(i, r, changed) /\ changed.pc = "rephase" /\ changed.mode = r.mode
      /\ SameCopy(i, r, refused) /\ refused.pc = "finish"
    BY <1>1 DEF SameCopy, IsRun, RunFields, IsObject, ObjectFields, PCs, Phase,
                CompletedPhases, Fails
<1>4. \/ /\ i \in fresh[i] /\ inst' = [inst EXCEPT ![i] = WithStatus(@, o)]
         /\ Continue(i, IF r.mode = "complete" THEN complete ELSE changed)
      \/ inst' = inst /\ Continue(i, refused)
      \/ inst' = inst /\ Return(i, TRUE)
    BY DEF Publish
<1> PICK x : x = o
    OBVIOUS
<1>5. SpecsLeft(i)
  <2>1. CASE i \in fresh[i] /\ inst' = [inst EXCEPT ![i] = WithStatus(@, x)]
      BY <1>1, <1>2, <2>1, StatusWritten
  <2>2. CASE inst' = inst
      BY <2>2, NothingWritten
  <2> QED
      BY <1>4, <2>1, <2>2
<1> HIDE DEF complete, changed, refused
<1>6. /\ \A s \in {complete, refused} : Modes(s) /\ Busy(s)
      /\ r.mode # "complete" => Modes(changed) /\ Busy(changed)
    BY <1>1, <1>3 DEF Modes, Constructs, Busy, Phase, CompletedPhases
<1>7. ASSUME NEW s \in {complete, refused}, Continue(i, s) PROVE RecordInv'
    BY <1>1, <1>3, <1>5, <1>6, <1>7, MoveStep
<1>8. ASSUME r.mode # "complete", Continue(i, changed) PROVE RecordInv'
    BY <1>1, <1>3, <1>5, <1>6, <1>8, MoveStep
<1> QED
    BY <1>4, <1>5, <1>7, <1>8, ReturnStep

LEMMA RephaseRecord ==
    ASSUME NEW i \in Insts, RecordInv, Rephase(i)
    PROVE  RecordInv'
<1> DEFINE r == run[i]
           o == [r.l EXCEPT !.phase = r.mode]
           s == [r EXCEPT !.pc = "dependants", !.l = o]
<1>1. IsRun(i, r) /\ Busy(r) /\ IsObject(i, r.l) /\ r.mode \in Phase
    BY RunFound DEF Rephase, At, Modes
<1>2. IsObject(i, o) /\ o.obs = r.l.obs
    BY <1>1 DEF IsObject, ObjectFields
<1>3. SameCopy(i, r, s) /\ s.pc = "dependants"
    BY <1>1 DEF SameCopy, IsRun, RunFields, IsObject, ObjectFields, PCs
<1>4. /\ \/ i \in fresh[i] /\ inst' = [inst EXCEPT ![i] = WithStatus(@, o)]
         \/ inst' = inst
      /\ Continue(i, s) \/ \E failed : Return(i, failed)
    BY DEF Rephase
<1> PICK x : x = o
    OBVIOUS
<1>5. SpecsLeft(i)
  <2>1. CASE i \in fresh[i] /\ inst' = [inst EXCEPT ![i] = WithStatus(@, x)]
      BY <1>1, <1>2, <2>1, StatusWritten
  <2>2. CASE inst' = inst
      BY <2>2, NothingWritten
  <2> QED
      BY <1>4, <2>1, <2>2
<1> HIDE DEF s
<1>6. Modes(s) /\ Busy(s)
    BY <1>3 DEF Modes, Constructs, Busy
<1> QED
    BY <1>1, <1>3, <1>4, <1>5, <1>6, MoveStep, ReturnStep

LEMMA DropForceRecord ==
    ASSUME NEW i \in Insts, RecordInv, DropForce(i)
    PROVE  RecordInv'
<1> DEFINE r == run[i]
           o == [inst[i] EXCEPT !.op = "none"]
           l == IF r.mode = "force"
                THEN [o EXCEPT !.obs = o.gen, !.phase = "Progressing"] ELSE o
           s == [r EXCEPT !.pc = "finish", !.l = l]
<1>1. /\ IsRun(i, r) /\ Busy(r) /\ Follows(i, r) /\ HandsDown(i, r)
      /\ r.pc = "dropForce"
    BY RunFound DEF DropForce, At
<1>2. \/ i \in fresh[i] /\ inst' = [inst EXCEPT ![i] = o] /\ Continue(i, s)
      \/ inst' = inst /\ (Continue(i, FailsPlain(r)) \/ Continue(i, Fails(r)))
    BY DEF DropForce
<1>3. CASE i \in fresh[i] /\ inst' = [inst EXCEPT ![i] = o] /\ Continue(i, s)
  <2>1. IsObject(i, inst[i]) /\ Recorded(i)
      BY DEF RecordInv, ShapeInv
  <2>2. /\ IsObject(i, l) /\ l.del = inst[i].del /\ l.gen = inst[i].gen
        /\ l.spec = inst[i].spec /\ (l.obs = inst[i].gen \/ l.obs = inst[i].obs)
    <3>1. CASE r.mode = "force"
        BY <2>1, <3>1 DEF IsObject, ObjectFields, Phase, RunningPhases
    <3>2. CASE r.mode # "force"
        BY <2>1, <3>2 DEF IsObject, ObjectFields
    <3> QED
        BY <3>1, <3>2
  <2> HIDE DEF l
  <2>3. IsRun(i, s) /\ s.l = l /\ s.pc = "finish"
      BY <1>1, <2>2 DEF IsRun, RunFields, PCs
  <2> HIDE DEF s
  <2>4. r.l.gen = inst[i].gen /\ r.l.spec = inst[i].spec
      BY <1>1, <1>3 DEF Follows
  <2>5. Whole(i) => Handed(inst[i].spec.version, Children(i))
    <3>1. Whole(i) => ~inst[i].del
        BY DEF Whole
    <3> QED
        BY <1>1, <2>4, <3>1 DEF HandsDown, Follows
  <2>6. RunRecord(i, s)
    <3>1. inst[i].gen \in Nat /\ inst[i].obs <= inst[i].gen
        BY <2>1 DEF IsObject, Recorded
    <3>2. Follows(i, s)
        BY <1>1, <2>2, <2>3, <3>1 DEF Follows
    <3> QED
        BY <2>2, <2>3, <2>5, <3>2 DEF RunRecord, Modes, HandsDown, Constructs
  <2>7. SpecsLeft(i)
      BY <1>3, OpWritten
  <2>8. Holds(i, s)
      BY <1>3, RunsOn DEF RecordInv
  <2> QED
      BY <2>2, <2>3, <2>6, <2>7, <2>8, SpecsLeftStep
<1>4. CASE inst' = inst /\ (Continue(i, FailsPlain(r)) \/ Continue(i, Fails(r)))
    BY <1>1, <1>4, NothingWritten, ErrorStep
<1> QED
    BY <1>2, <1>3, <1>4

LEMMA EnsureExecutionRecord ==
    ASSUME NEW i \in Insts, RecordInv, EnsureExecution(i)
    PROVE  RecordInv'
<1> DEFINE r == run[i]
           s == [r EXCEPT !.l.eref = TRUE]
<1>1. /\ IsRun(i, r) /\ Busy(r) /\ Follows(i, r) /\ Modes(r) /\ HandsDown(i, r)
      /\ r.pc = "exec" /\ IsObject(i, r.l)
    BY RunFound DEF EnsureExecution, At
<1>2. /\ IsRun(i, s) /\ s.l.del = r.l.del /\ s.l.gen = r.l.gen /\ s.l.obs = r.l.obs
      /\ s.l.spec = r.l.spec /\ s.pc = r.pc /\ s.mode = r.mode
    BY <1>1 DEF IsRun, RunFields, IsObject, ObjectFields
<1>3. /\ \/ inst' = inst
         \/ i \in fresh[i] /\ inst' = [inst EXCEPT ![i] = WithStatus(@, s.l)]
         \/ i \in fresh[i] /\ inst' = [inst EXCEPT ![i] = WithStatus(@, r.l)]
      /\ \/ Continue(i, Updated(r)) \/ Continue(i, Updated(s))
         \/ Continue(i, Fails(r)) \/ Continue(i, Fails(s))
    BY DEF EnsureExecution
<1> HIDE DEF s
<1>4. SpecsLeft(i)
  <2>1. CASE inst' = inst
      BY <2>1, NothingWritten
  <2>2. CASE i \in fresh[i] /\ inst' = [inst EXCEPT ![i] = WithStatus(@, s.l)]
    <3> PICK x : x = s.l
        OBVIOUS
    <3>1. IsObject(i, x) /\ x.obs = run[i].l.obs
        BY <1>2 DEF IsRun
    <3>2. inst' = [inst EXCEPT ![i] = WithStatus(@, x)]
        BY <2>2
    <3> QED
        BY <1>1, <2>2, <3>1, <3>2, StatusWritten
  <2>3. CASE i \in fresh[i] /\ inst' = [inst EXCEPT ![i] = WithStatus(@, r.l)]
    <3> PICK x : x = r.l
        OBVIOUS
    <3>1. IsObject(i, x) /\ x.obs = run[i].l.obs
        BY <1>1
    <3>2. inst' = [inst EXCEPT ![i] = WithStatus(@, x)]
        BY <2>3
    <3> QED
        BY <1>1, <2>3, <3>1, <3>2, StatusWritten
  <2> QED
      BY <1>3, <2>1, <2>2, <2>3
<1>5. ASSUME NEW x \in {r, s}, Continue(i, Updated(x)) PROVE RecordInv'
  <2> PICK u : u = Updated(x)
      OBVIOUS
  <2>1. /\ IsRun(i, x) /\ x.l.del = r.l.del /\ x.l.gen = r.l.gen
        /\ x.l.spec = r.l.spec /\ x.mode = r.mode
      BY <1>1, <1>2
  <2>2. /\ IsRun(i, u) /\ u.l.del = r.l.del /\ u.l.gen = r.l.gen /\ u.l.obs = r.l.gen
        /\ u.l.spec = r.l.spec /\ u.pc \in {"finish", "dropForce", "deleteAll"}
        /\ r.mode \in {"update", "force"} => u.pc # "deleteAll"
      BY <2>1, UpdatedRun
  <2>3. r.mode \in {"update", "force"} \/ r.l.del
      BY <1>1 DEF Modes, Constructs
  <2>4. r.l.gen <= r.l.gen
      BY <1>1 DEF IsObject
  <2>5. Follows(i, u)
      BY <1>1, <2>2, <2>4 DEF Follows
  <2>6. Modes(u)
      BY <2>2, <2>3 DEF Modes, Constructs
  <2>7. HandsDown(i, u)
      BY <1>1, <2>2 DEF HandsDown
  <2>8. Busy(u) /\ Holds(i, u) /\ (Busy(u) => StillHolds(i))
      BY <1>5, <2>2, RunsOn DEF Busy, RecordInv
  <2>9. i \in fresh'[i] => u.l.gen = inst[i].gen
      BY <2>5, <2>8 DEF StillHolds, Follows
  <2> QED
      BY <1>4, <2>2, <2>5, <2>6, <2>7, <2>8, <2>9, SpecsLeftStep DEF RunRecord
<1>6. CASE Continue(i, Fails(s))
  <2> PICK u : u = Fails(s)
      OBVIOUS
  <2>1. /\ DOMAIN u = RunFields /\ u.pc = "finish" /\ u.l = s.l /\ u.todo = s.todo
      BY <1>2 DEF Fails, IsRun, RunFields
  <2>2. SameCopy(i, r, u)
      BY <1>2, <2>1 DEF SameCopy, IsRun, PCs
  <2>3. Modes(u) /\ Busy(u)
      BY <2>1 DEF Modes, Constructs, Busy
  <2> QED
      BY <1>1, <1>4, <1>6, <2>1, <2>2, <2>3, MoveStep
<1>7. CASE Continue(i, Fails(r))
    BY <1>1, <1>4, <1>7, ErrorStep
<1> QED
    BY <1>3, <1>5, <1>6, <1>7

LEMMA AddFinalizerRecord ==
    ASSUME NEW i \in Insts, RecordInv, AddFinalizer(i)
    PROVE  RecordInv'
<1>1. \E failed : Return(i, failed)
    BY DEF AddFinalizer
<1>2. CASE inst' = inst
    BY <1>1, <1>2, NothingWritten, ReturnStep
<1>3. CASE inst' = [inst EXCEPT ![i].fin = TRUE]
  <2> DEFINE o == [inst[i] EXCEPT !.fin = TRUE]
  <2>1. IsObject(i, inst[i]) /\ Recorded(i)
      BY DEF RecordInv, ShapeInv
  <2>2. /\ IsObject(i, o) /\ o.live = inst[i].live /\ o.fin /\ o.del = inst[i].del
        /\ o.gen = inst[i].gen /\ o.obs = inst[i].obs /\ o.spec = inst[i].spec
      BY <2>1 DEF IsObject, ObjectFields
  <2>3. /\ DOMAIN inst' = Insts /\ inst'[i] = o
        /\ \A k \in Insts \ {i} : inst'[k] = inst[k]
      BY <1>3 DEF RecordInv, ShapeInv
  <2> HIDE DEF o
  <2>4. /\ Holds(i, Idle) /\ IsRun(i, Idle) /\ ~Busy(Idle)
      BY <1>1, RunsOn, NewObjects DEF RecordInv, Busy, Idle
  <2>5. \A k \in Insts : IsObject(k, inst'[k])
      BY <2>2, <2>3 DEF RecordInv, ShapeInv
  <2>6. \A k \in Insts \ {i} : Elsewhere(k)
      BY <2>3 DEF Elsewhere, Left, SameSpec
  <2>7. \A k \in Insts : StaysHanded(k)
      BY <2>2, <2>3 DEF StaysHanded
  <2>8. Recorded(i)'
    <3>1. \A j \in Children(i) : inst'[j] = inst[j]
        BY <2>3, Forest DEF Inner
    <3> QED
        BY <2>1, <2>2, <2>3, <3>1 DEF Recorded, Whole, Handed
  <2> QED
      BY <2>3, <2>4, <2>5, <2>6, <2>7, <2>8, RunKeepsOthers
<1> QED
    BY <1>2, <1>3 DEF AddFinalizer

LEMMA RemoveFinalizerRecord ==
    ASSUME NEW i \in Insts, RecordInv, RemoveFinalizer(i)
    PROVE  RecordInv'
<1>1. IsRun(i, run[i]) /\ Busy(run[i]) /\ inst[i].del
    BY RunFound DEF RemoveFinalizer, At, Modes, Follows
<1>2. CASE inst' = inst /\ Continue(i, FailsPlain(run[i]))
    BY <1>1, <1>2, NothingWritten, ErrorStep
<1>3. CASE inst' = [inst EXCEPT ![i] = NoInstallation] /\ Return(i, FALSE)
  <2>1. /\ DOMAIN inst' = Insts /\ inst'[i] = NoInstallation
        /\ \A k \in Insts \ {i} : inst'[k] = inst[k]
      BY <1>3 DEF RecordInv, ShapeInv
  <2>2. /\ Holds(i, Idle) /\ IsRun(i, Idle) /\ ~Busy(Idle)
      BY <1>3, RunsOn, NewObjects DEF RecordInv, Busy, Idle
  <2>3. \A k \in Insts : IsObject(k, inst'[k])
      BY <2>1, NewObjects DEF RecordInv, ShapeInv
  <2>4. \A k \in Insts \ {i} : Elsewhere(k)
      BY <2>1 DEF Elsewhere, Left, SameSpec
  <2>5. \A k \in Insts : StaysHanded(k)
      BY <1>1, <2>1 DEF StaysHanded, NoInstallation
  <2>6. Recorded(i)'
      BY <2>1 DEF Recorded, Whole, NoInstallation
  <2> QED
      BY <2>1, <2>2, <2>3, <2>4, <2>5, <2>6, RunKeepsOthers
<1> QED
    BY <1>2, <1>3 DEF RemoveFinalizer

-----------------------------------------------------------------------------
(* Steps that write the subinstallations.                                   *)

\* The installations js, children of one that is not whole, are deleted.
LEMMA ChildrenDeleted ==
    ASSUME NEW i \in Insts, NEW s, NEW js \in SUBSET Children(i), RecordInv,
           Holds(i, s), IsRun(i, s), ~Whole(i), RunRecord(i, s),
           DOMAIN inst' = Insts, \A k \in js : inst'[k] = Deleted(inst[k]),
           \A k \in Insts \ js : inst'[k] = inst[k],
           i \in fresh'[i] => s.l.gen = inst[i].gen
    PROVE  RecordInv'
<1>1. i \notin js /\ js \subseteq Insts
    BY Forest DEF Inner
<1>2. \A k \in Insts \ js : inst'[k] = inst[k]
    OBVIOUS
<1>3. \A k \in Insts : IsObject(k, inst[k]) /\ IsObject(k, inst'[k])
    BY <1>1, DeletedObject DEF RecordInv, ShapeInv
<1>4. ASSUME NEW k \in js PROVE Elsewhere(k)
  <2> DEFINE o == [inst[k] EXCEPT !.del = TRUE, !.gen = @ + 1]
  <2>1. IsObject(k, inst[k]) /\ inst'[k] = Deleted(inst[k])
      BY <1>1, <1>3
  <2>2. CASE ~(inst[k].live /\ inst[k].fin)
    <3>1. inst'[k] = NoInstallation
        BY <2>1, <2>2 DEF Deleted
    <3> QED
        BY <2>2, <3>1 DEF NoInstallation, Elsewhere, Renewed
  <2>3. CASE inst[k].live /\ inst[k].fin /\ inst[k].del
      BY <2>1, <2>3 DEF Deleted, Elsewhere, Left, SameSpec
  <2>4. CASE inst[k].live /\ inst[k].fin /\ ~inst[k].del
    <3>1. inst'[k] = o
        BY <2>1, <2>4 DEF Deleted
    <3>2. /\ o.live = inst[k].live /\ o.fin = inst[k].fin /\ o.obs = inst[k].obs
          /\ o.gen = inst[k].gen + 1 /\ o.spec = inst[k].spec
        BY <2>1 DEF IsObject, ObjectFields
    <3> QED
        BY <2>4, <3>1, <3>2 DEF Elsewhere, Bumped
  <2> QED
      BY <2>1, <2>2, <2>3, <2>4 DEF IsObject
<1>5. \A k \in Insts \ {i} : Elsewhere(k)
    BY <1>2, <1>4 DEF Elsewhere, Left, SameSpec
<1>6. \A k \in Insts \ Children(i) : StaysHanded(k)
    BY <1>2 DEF StaysHanded
<1>7. inst'[i] = inst[i] /\ ~Whole(i)'
    BY <1>1, <1>2 DEF Whole
<1>8. Recorded(i)'
    BY <1>7 DEF Recorded, RecordInv
<1>9. RunRecord(i, s)'
    BY <1>7 DEF RunRecord, Follows, HandsDown
<1> QED
    BY <1>2, <1>3, <1>5, <1>6, <1>8, <1>9, RunKeepsOthers

LEMMA EnsureSubsRecord ==
    ASSUME NEW i \in Insts, RecordInv, EnsureSubs(i)
    PROVE  RecordInv'
<1> DEFINE r == run[i]
           orphans == LiveSubs(i) \ r.l.spec.subs
           To(p, todo) == [r EXCEPT !.refs = LiveSubs(i), !.pc = p, !.todo = todo]
<1>1. /\ IsRun(i, r) /\ Busy(r) /\ Follows(i, r) /\ Modes(r) /\ HandsDown(i, r)
      /\ r.pc = "ensure" /\ IsObject(i, r.l)
    BY RunFound DEF EnsureSubs, At
<1>2. \/ inst' = inst /\ Continue(i, Fails(r))
      \/ /\ \A j \in LiveSubs(i) : ~inst[j].del
         /\ inst' = [j \in Insts |-> IF j \in orphans THEN Deleted(inst[j]) ELSE inst[j]]
         /\ \/ orphans = {} /\ Continue(i, To("subs", r.l.spec.subs))
            \/ orphans # {} /\ Continue(i, To("trigger", {}))
    BY DEF EnsureSubs
<1>3. r.l.spec.subs \in SUBSET Children(i)
    BY <1>1 DEF IsObject
<1>4. ~r.l.del => r.mode \in {"update", "force"}
    BY <1>1 DEF Modes, Constructs
<1>5. ASSUME NEW p \in {"subs", "trigger"}, NEW todo \in SUBSET Children(i)
      PROVE  LET s == To(p, todo) IN
             IsRun(i, s) /\ s.l = r.l /\ s.mode = r.mode /\ s.todo = todo /\ s.pc = p
    BY <1>1 DEF IsRun, RunFields, PCs
<1> HIDE DEF orphans, To
<1>6. ASSUME NEW s, Continue(i, s), IsRun(i, s), s.l = r.l, s.mode = r.mode,
             s.pc \in {"subs", "trigger"}
      PROVE  /\ Holds(i, s) /\ Busy(s) /\ Modes(s) /\ Follows(i, s)
             /\ i \in fresh'[i] => s.l.gen = inst[i].gen
  <2>1. Holds(i, s) /\ Busy(s) /\ StillHolds(i)
      BY <1>6, RunsOn DEF Busy, RecordInv
  <2>2. Modes(s) /\ Follows(i, s)
      BY <1>1, <1>4, <1>6 DEF Modes, Follows, Constructs
  <2> QED
      BY <2>1, <2>2 DEF StillHolds, Follows
<1>7. CASE /\ \A j \in LiveSubs(i) : ~inst[j].del
           /\ inst' = [j \in Insts |-> IF j \in orphans THEN Deleted(inst[j]) ELSE inst[j]]
           /\ orphans = {} /\ Continue(i, To("subs", r.l.spec.subs))
  <2> PICK s : s = To("subs", r.l.spec.subs)
      OBVIOUS
  <2>1. /\ IsRun(i, s) /\ s.l = r.l /\ s.mode = r.mode /\ s.pc = "subs"
        /\ s.todo = r.l.spec.subs
      BY <1>3, <1>5
  <2>2. HandsDown(i, s)
    <3>1. Whole(i) => Children(i) \ s.todo = {}
        BY <1>1, <2>1 DEF Follows, Whole
    <3>2. \A j \in Children(i) : inst[j].live => ~inst[j].del
        BY <1>7 DEF LiveSubs
    <3> QED
        BY <1>1, <2>1, <3>1, <3>2 DEF HandsDown, Handed
  <2>3. SpecsLeft(i)
      BY <1>7 DEF SpecsLeft, SameSpec, RecordInv, ShapeInv
  <2> QED
      BY <1>6, <1>7, <2>1, <2>2, <2>3, SpecsLeftStep DEF RunRecord
<1>8. CASE /\ inst' = [j \in Insts |-> IF j \in orphans THEN Deleted(inst[j]) ELSE inst[j]]
           /\ orphans # {} /\ Continue(i, To("trigger", {}))
  <2> PICK s : s = To("trigger", {})
      OBVIOUS
  <2>1. IsRun(i, s) /\ s.l = r.l /\ s.mode = r.mode /\ s.pc = "trigger"
      BY <1>5
  <2>2. ~Whole(i) /\ orphans \in SUBSET Children(i)
      BY <1>1, <1>8 DEF Follows, Whole, LiveSubs, orphans
  <2>3. HandsDown(i, s)
      BY <2>1, <2>2 DEF HandsDown
  <2>4. /\ DOMAIN inst' = Insts /\ \A k \in orphans : inst'[k] = Deleted(inst[k])
        /\ \A k \in Insts \ orphans : inst'[k] = inst[k]
      BY <1>8, <2>2, Forest DEF Inner
  <2> QED
      BY <1>6, <1>8, <2>1, <2>2, <2>3, <2>4, ChildrenDeleted DEF RunRecord
<1>9. CASE inst' = inst /\ Continue(i, Fails(r))
    BY <1>1, <1>9, NothingWritten, ErrorStep
<1> QED
    BY <1>2, <1>7, <1>8, <1>9

\* DeleteAll deletes children.
LEMMA DeletedChildren ==
    ASSUME NEW i \in Insts, RecordInv, DeleteAll(i)
    PROVE  \E js \in SUBSET Children(i) :
              /\ DOMAIN inst' = Insts /\ \A k \in js : inst'[k] = Deleted(inst[k])
              /\ \A k \in Insts \ js : inst'[k] = inst[k]
<1> DEFINE deleted(js) == [j \in Insts |-> IF j \in js THEN Deleted(inst[j]) ELSE inst[j]]
           subs == LiveSubs(i)
           stuck == {j \in subs : inst[j].op = "force" /\ ~inst[j].del}
<1>1. \/ inst' = inst \/ inst' = deleted(subs)
      \/ \E j \in stuck, js \in SUBSET (subs \ stuck) : inst' = deleted(js \cup {j})
      \/ \E js \in SUBSET (subs \ stuck) : inst' = deleted(js)
    BY DEF DeleteAll
<1>2. stuck \in SUBSET subs /\ subs \in SUBSET Children(i) /\ Children(i) \subseteq Insts
    BY Forest DEF LiveSubs, Inner
<1> HIDE DEF subs, stuck
<1>3. CASE inst' = inst
  <2>1. {} \in SUBSET Children(i)
      OBVIOUS
  <2> QED
      BY <1>3, <2>1 DEF RecordInv, ShapeInv
<1>4. CASE inst' # inst
  <2>1. \E js \in SUBSET Children(i) : inst' = deleted(js)
    <3> HIDE DEF deleted
    <3>1. ASSUME NEW j \in stuck, NEW js \in SUBSET (subs \ stuck), inst' = deleted(js \cup {j})
          PROVE  \E ks \in SUBSET Children(i) : inst' = deleted(ks)
      <4>1. js \cup {j} \in SUBSET Children(i)
          BY <1>2
      <4> QED
          BY <3>1, <4>1
    <3>2. ASSUME NEW js \in SUBSET (subs \ stuck), inst' = deleted(js)
          PROVE  \E ks \in SUBSET Children(i) : inst' = deleted(ks)
      <4>1. js \in SUBSET Children(i)
          BY <1>2
      <4> QED
          BY <3>2, <4>1
    <3> QED
        BY <1>1, <1>2, <1>4, <3>1, <3>2
  <2>2. PICK js \in SUBSET Children(i) : inst' = deleted(js)
      BY <2>1
  <2>3. js \subseteq Insts
      BY <1>2
  <2> QED
      BY <2>2, <2>3
<1> QED
    BY <1>3, <1>4

LEMMA DeleteAllRecord ==
    ASSUME NEW i \in Insts, RecordInv, DeleteAll(i)
    PROVE  RecordInv'
<1> DEFINE r == run[i]
           s == [r EXCEPT !.l.phase = "Deleting"]
           To(p) == [s EXCEPT !.pc = p]
<1>1. /\ IsRun(i, r) /\ Busy(r) /\ Follows(i, r) /\ Modes(r) /\ HandsDown(i, r)
      /\ r.pc = "deleteAll" /\ IsObject(i, r.l)
    BY RunFound DEF DeleteAll, At
<1>2. r.l.del /\ ~Whole(i)
    BY <1>1 DEF Modes, Follows, Whole
<1>3. \E js \in SUBSET Children(i) :
         /\ DOMAIN inst' = Insts /\ \A k \in js : inst'[k] = Deleted(inst[k])
         /\ \A k \in Insts \ js : inst'[k] = inst[k]
    BY DeletedChildren
<1>4. \/ Continue(i, Fails(s)) \/ Continue(i, To("dropForce"))
      \/ Continue(i, To("finish")) \/ Continue(i, To("removeFinalizer"))
    BY DEF DeleteAll
<1>5. /\ DOMAIN s = RunFields /\ IsObject(i, s.l) /\ s.todo = r.todo
      /\ s.l.del /\ s.l.gen = r.l.gen /\ s.l.obs = r.l.obs /\ s.l.spec = r.l.spec
    BY <1>1, <1>2 DEF IsRun, RunFields, IsObject, ObjectFields, Phase, RunningPhases
<1> HIDE DEF s
<1>6. \E u : /\ Continue(i, u) /\ IsRun(i, u) /\ u.l = s.l
             /\ u.pc \in {"dropForce", "finish", "removeFinalizer"}
  <2>1. IsRun(i, Fails(s)) /\ Fails(s).l = s.l /\ Fails(s).pc = "finish"
      BY <1>1, <1>5 DEF Fails, IsRun, RunFields, PCs
  <2>2. \A p \in {"dropForce", "finish", "removeFinalizer"} :
           IsRun(i, To(p)) /\ To(p).l = s.l /\ To(p).pc = p
      BY <1>1, <1>5 DEF IsRun, RunFields, PCs
  <2> HIDE DEF To
  <2> QED
      BY <1>4, <2>1, <2>2
<1> PICK u : /\ Continue(i, u) /\ IsRun(i, u) /\ u.l = s.l
             /\ u.pc \in {"dropForce", "finish", "removeFinalizer"}
    BY <1>6
<1>7. Holds(i, u) /\ StillHolds(i)
    BY RunsOn DEF Busy, RecordInv
<1>8. RunRecord(i, u)
  <2>1. /\ u.l.del /\ u.l.gen = r.l.gen /\ u.l.obs = r.l.obs /\ u.l.spec = r.l.spec
        /\ inst[i].del
      BY <1>1, <1>2, <1>5 DEF Follows
  <2>2. Follows(i, u)
      BY <1>1, <2>1 DEF Follows
  <2> QED
      BY <1>2, <1>5, <2>2 DEF RunRecord, Modes, HandsDown, Constructs
<1>9. i \in fresh'[i] => u.l.gen = inst[i].gen
    BY <1>1, <1>5, <1>7 DEF StillHolds, Follows
<1> QED
    BY <1>2, <1>3, <1>7, <1>8, <1>9, ChildrenDeleted

\* The template is applied to j.
LEMMA TemplatedElsewhere ==
    ASSUME NEW j \in Insts, NEW v \in Nat, IsObject(j, inst[j]),
           inst'[j] = Templated(j, v)
    PROVE  /\ Elsewhere(j) /\ IsObject(j, inst'[j]) /\ inst'[j].live
           /\ inst'[j].del => inst[j].live /\ inst[j].del
           /\ inst'[j].spec.version = v
<1>1. CASE ~inst[j].live
  <2>1. inst'[j] = NewInstallation(j, v)
      BY <1>1 DEF Templated
  <2>2. IsObject(j, inst'[j])
      BY <2>1, NewObjects
  <2>3. /\ inst'[j].live /\ ~inst'[j].del /\ inst'[j].gen = 1 /\ inst'[j].obs = 0
        /\ inst'[j].spec.version = v
      BY <2>1 DEF NewInstallation
  <2> QED
      BY <1>1, <2>2, <2>3 DEF Elsewhere, Renewed
<1>2. CASE inst[j].live /\ inst[j].spec.version = v
  <2> DEFINE o == [inst[j] EXCEPT !.op = "none"]
  <2>1. inst'[j] = o
      BY <1>2 DEF Templated
  <2>2. IsObject(j, o) /\ SameSpec(inst[j], o) /\ o.obs = inst[j].obs
      BY DEF SameSpec, IsObject, ObjectFields
  <2> QED
      BY <1>2, <2>1, <2>2 DEF Elsewhere, Left, SameSpec
<1>3. CASE inst[j].live /\ inst[j].spec.version # v
  <2> DEFINE o == [inst[j] EXCEPT !.op = "none", !.spec.version = v, !.gen = @ + 1]
  <2>1. inst'[j] = o
      BY <1>3 DEF Templated
  <2>2. IsObject(j, o)
      BY ChangedObject
  <2>3. /\ o.live = inst[j].live /\ o.fin = inst[j].fin /\ o.obs = inst[j].obs
        /\ o.del = inst[j].del /\ o.gen = inst[j].gen + 1
        /\ o.spec.subs = inst[j].spec.subs /\ o.spec.version = v
      BY DEF IsObject, ObjectFields
  <2> HIDE DEF o
  <2> QED
      BY <1>3, <2>1, <2>2, <2>3 DEF Elsewhere, Bumped
<1> QED
    BY <1>1, <1>2, <1>3 DEF IsObject

LEMMA CreateSubRecord ==
    ASSUME NEW i \in Insts, RecordInv, CreateSub(i)
    PROVE  RecordInv'
<1> DEFINE r == run[i]
           I(j) == [inst EXCEPT ![j] = Templated(j, r.l.spec.version)]
           created(j) == [r EXCEPT !.todo = @ \ {j}, !.refs = @ \cup {j}]
           done == [r EXCEPT !.pc = "trigger"]
           status(O) == [O EXCEPT ![i] = WithStatus(@, r.l)]
<1>1. /\ IsRun(i, r) /\ Busy(r) /\ Follows(i, r) /\ Modes(r) /\ HandsDown(i, r)
      /\ r.pc = "subs" /\ IsObject(i, r.l) /\ RunRecord(i, r)
    BY RunFound DEF CreateSub, At, RunRecord
<1>2. \/ inst' = inst /\ (Continue(i, Fails(r)) \/ Continue(i, FailsPlain(r)))
      \/ r.todo = {} /\ i \in fresh[i] /\ inst' = status(inst) /\ Continue(i, done)
      \/ \E j \in r.todo :
            \/ i \in fresh[i] /\ inst' = status(I(j)) /\ Continue(i, created(j))
            \/ inst' = I(j) /\ Continue(i, Fails(r))
    BY DEF CreateSub
<1>3. /\ IsRun(i, done) /\ done.l = r.l /\ done.mode = r.mode /\ done.todo = r.todo
      /\ done.pc = "trigger"
    BY <1>1 DEF IsRun, RunFields, PCs
<1>4. ASSUME NEW j PROVE
         /\ IsRun(i, created(j)) /\ created(j).l = r.l /\ created(j).mode = r.mode
         /\ created(j).todo = r.todo \ {j} /\ created(j).pc = "subs"
    BY <1>1 DEF IsRun, RunFields
<1>5. IsRun(i, Fails(r)) /\ Fails(r).l = r.l /\ Fails(r).pc = "finish"
    BY <1>1 DEF Fails, IsRun, RunFields, PCs
<1> HIDE DEF done, created
<1>6. ~r.l.del => r.mode \in {"update", "force"}
    BY <1>1 DEF Modes, Constructs
<1>7. CASE inst' = inst /\ (Continue(i, Fails(r)) \/ Continue(i, FailsPlain(r)))
    BY <1>1, <1>7, NothingWritten, ErrorStep
<1>8. CASE r.todo = {} /\ i \in fresh[i] /\ inst' = status(inst) /\ Continue(i, done)
  <2>1. SpecsLeft(i)
    <3> PICK x : x = r.l
        OBVIOUS
    <3>1. inst' = [inst EXCEPT ![i] = WithStatus(@, x)] /\ IsObject(i, x) /\ x.obs = run[i].l.obs
        BY <1>1, <1>8
    <3> QED
        BY <1>1, <1>8, <3>1, StatusWritten
  <2>2. Holds(i, done) /\ Busy(done) /\ StillHolds(i)
      BY <1>3, <1>8, RunsOn DEF Busy, RecordInv
  <2>3. Children(i) \ r.todo = Children(i)
      BY <1>8
  <2>4. RunRecord(i, done)
      BY <1>1, <1>3, <1>6, <2>3 DEF RunRecord, Follows, Modes, HandsDown, Constructs
  <2>5. i \in fresh'[i] => done.l.gen = inst[i].gen
      BY <1>1, <1>3, <2>2 DEF StillHolds, Follows
  <2> QED
      BY <1>3, <2>1, <2>2, <2>4, <2>5, SpecsLeftStep
<1>9. ASSUME NEW j \in r.todo,
             \/ i \in fresh[i] /\ inst' = status(I(j)) /\ Continue(i, created(j))
             \/ inst' = I(j) /\ Continue(i, Fails(r))
      PROVE  RecordInv'
  <2>1. /\ j \in Children(i) /\ j \in Insts /\ j # i /\ i \notin Children(i)
        /\ Children(i) \subseteq Insts
      BY <1>1, Forest DEF IsRun, Inner
  <2>2. /\ DOMAIN inst' = Insts /\ inst'[j] = Templated(j, r.l.spec.version)
        /\ \/ inst'[i] = inst[i]
           \/ i \in fresh[i] /\ inst'[i] = WithStatus(inst[i], r.l)
        /\ \A k \in Insts \ {i, j} : inst'[k] = inst[k]
      BY <1>9, <2>1 DEF RecordInv, ShapeInv
  <2>3. /\ r.l.spec.version \in Nat /\ \A k \in Insts : IsObject(k, inst[k])
        /\ Recorded(i)
      BY <1>1 DEF IsObject, RecordInv, ShapeInv
  <2>4. /\ Elsewhere(j) /\ IsObject(j, inst'[j]) /\ inst'[j].live
        /\ inst'[j].del => inst[j].live /\ inst[j].del
        /\ inst'[j].spec.version = r.l.spec.version
      BY <2>1, <2>2, <2>3, TemplatedElsewhere
  <2>5. /\ SameSpec(inst[i], inst'[i]) /\ IsObject(i, inst'[i])
        /\ \/ inst'[i].obs = inst[i].obs
           \/ i \in fresh[i] /\ inst'[i].obs = r.l.obs
    <3>1. LET o == WithStatus(inst[i], r.l) IN
          IsObject(i, o) /\ SameSpec(inst[i], o) /\ o.obs = r.l.obs
        BY <1>1, <2>3, ChangedObject DEF WithStatus, IsObject, ObjectFields, SameSpec
    <3> QED
        BY <2>2, <2>3, <3>1 DEF SameSpec
  <2>6. /\ \A k \in Insts : IsObject(k, inst'[k])
        /\ \A k \in Insts \ {i} : Elsewhere(k)
      BY <2>2, <2>3, <2>4, <2>5 DEF Elsewhere, Left, SameSpec
  <2>7. \A k \in Insts \ Children(i) : StaysHanded(k)
      BY <2>1, <2>2, <2>5 DEF StaysHanded, SameSpec
  <2> PICK v : v = r.l.spec.version
      OBVIOUS
  <2>8. \A js \in SUBSET Children(i) : Handed(v, js) => Handed(v, js)'
      BY <2>1, <2>2, <2>4 DEF Handed
  <2>9. Whole(i)' <=> Whole(i)
      BY <2>5 DEF Whole, SameSpec
  <2>10. Recorded(i)'
    <3>1. ASSUME Whole(i), inst'[i].obs = inst[i].gen
          PROVE  r.l.spec = inst[i].spec /\ Handed(v, Children(i))
      <4>1. CASE inst'[i].obs = inst[i].obs
          BY <1>1, <2>3, <3>1, <4>1 DEF Recorded, Follows
      <4>2. CASE i \in fresh[i] /\ inst'[i].obs = r.l.obs
          BY <1>1, <3>1, <4>2 DEF HandsDown, Follows
      <4> QED
          BY <2>5, <4>1, <4>2
    <3>2. inst'[i].obs <= inst'[i].gen
      <4>1. i \in fresh[i] => r.l.gen = inst[i].gen /\ r.l.obs <= r.l.gen
          BY <1>1 DEF Follows
      <4> QED
          BY <2>3, <2>5, <4>1 DEF Recorded, SameSpec
    <3>3. inst'[i].del => inst'[i].fin
        BY <2>3, <2>5 DEF Recorded, SameSpec
    <3> QED
        BY <2>5, <2>8, <2>9, <3>1, <3>2, <3>3 DEF Recorded, SameSpec
  <2>11. PICK s : /\ Continue(i, s) /\ IsRun(i, s) /\ s.l = r.l
                  /\ \/ s.pc = "finish"
                     \/ s.pc = "subs" /\ s.mode = r.mode /\ s.todo = r.todo \ {j}
    <3>1. CASE Continue(i, created(j))
        BY <1>4, <3>1
    <3>2. CASE Continue(i, Fails(r))
        BY <1>5, <3>2
    <3> QED
        BY <1>9, <3>1, <3>2
  <2>12. Holds(i, s) /\ Busy(s) /\ StillHolds(i)
      BY <2>11, RunsOn DEF Busy, RecordInv
  <2>13. RunRecord(i, s)'
    <3>1. Modes(s)
        BY <1>6, <2>11 DEF Modes, Constructs
    <3>2. Follows(i, s)'
      <4>1. inst'[i].obs = inst[i].gen => r.l.gen = inst[i].gen
          BY <1>1, <2>5 DEF Follows
      <4> QED
          BY <1>1, <2>5, <2>11, <2>12, <4>1 DEF Follows, SameSpec, StillHolds
    <3>3. HandsDown(i, s)'
      <4>1. ASSUME Whole(i), s.l.gen = inst[i].gen, s.pc = "subs"
            PROVE  /\ Handed(s.l.spec.version, Children(i) \ s.todo)'
                   /\ \A k \in Children(i) : inst'[k].live => ~inst'[k].del
        <5>1. /\ Handed(v, Children(i) \ r.todo)
              /\ \A k \in Children(i) : inst[k].live => ~inst[k].del
              /\ s.todo = r.todo \ {j} /\ s.l.spec.version = v
            BY <1>1, <2>11, <4>1 DEF HandsDown
        <5>2. \A k \in Children(i) : inst'[k].live => ~inst'[k].del
            BY <2>1, <2>2, <2>4, <5>1
        <5>3. \A k \in Children(i) \ r.todo :
                 inst'[k].live /\ ~inst'[k].del /\ inst'[k].spec.version = v
            BY <2>1, <2>2, <2>4, <5>1 DEF Handed
        <5>4. \A k \in Children(i) \ s.todo : k = j \/ k \in Children(i) \ r.todo
            BY <5>1
        <5> QED
            BY <2>1, <2>4, <5>1, <5>2, <5>3, <5>4 DEF Handed
      <4>2. ASSUME Whole(i), s.l.gen = inst[i].gen, s.l.obs = s.l.gen
            PROVE  Handed(s.l.spec.version, Children(i))'
        <5>1. Handed(v, Children(i)) /\ s.l.spec.version = v
            BY <1>1, <2>11, <4>2 DEF HandsDown
        <5> QED
            BY <2>8, <5>1
      <4> QED
          BY <2>5, <2>9, <2>11, <4>1, <4>2 DEF HandsDown, SameSpec
    <3> QED
        BY <3>1, <3>2, <3>3 DEF RunRecord
  <2> QED
      BY <2>2, <2>6, <2>7, <2>10, <2>11, <2>12, <2>13, RunKeepsOthers
<1> QED
    BY <1>2, <1>7, <1>8, <1>9

-----------------------------------------------------------------------------
(* The environment and the theorem.                                        *)

\* Steps of the environment.
LEMMA OutsideRecord ==
    ASSUME RecordInv, Others, DOMAIN inst' = Insts,
           \A k \in Insts : IsObject(k, inst'[k]) /\ Elsewhere(k),
           \A k \in Inner : StaysHanded(k)
    PROVE  RecordInv'
<1>1. /\ run' = run /\ DOMAIN fresh' = Insts /\ \A k \in Insts : StaysOutdated(k)
    BY ForestAssumption DEF Others, Outdate, StaysOutdated
<1>2. ShapeInv'
    BY <1>1 DEF RecordInv, ShapeInv
<1>3. ASSUME NEW k \in Insts
      PROVE  Recorded(k)' /\ (Busy(run[k]) => RunRecord(k, run[k]))'
  <2>1. \A j \in Children(k) : StaysHanded(j)
      BY Forest
  <2> QED
      BY <1>1, <1>2, <2>1, ElsewhereKeeps
<1> QED
    BY <1>1, <1>2, <1>3 DEF RecordInv

LEMMA InstallationRecord ==
    ASSUME NEW i \in Insts, NEW o, RecordInv, SetInstallation(i, o), IsObject(i, o),
           inst'[i] = o => Elsewhere(i) /\ (i \in Inner => StaysHanded(i))
    PROVE  RecordInv'
<1>1. /\ DOMAIN inst' = Insts /\ inst'[i] = o
      /\ \A k \in Insts \ {i} : inst'[k] = inst[k]
    BY DEF SetInstallation, RecordInv, ShapeInv
<1>2. \A k \in Insts \ {i} : Elsewhere(k) /\ StaysHanded(k)
    BY <1>1 DEF Elsewhere, Left, SameSpec, StaysHanded
<1>3. \A k \in Insts : IsObject(k, inst'[k])
    BY <1>1 DEF RecordInv, ShapeInv
<1> QED
    BY <1>1, <1>2, <1>3, OutsideRecord DEF SetInstallation, Inner

LEMMA QuietRecord ==
    ASSUME RecordInv, Others, inst' = inst
    PROVE  RecordInv'
<1>1. /\ DOMAIN inst' = Insts
      /\ \A k \in Insts : IsObject(k, inst'[k]) /\ Elsewhere(k) /\ StaysHanded(k)
    BY DEF RecordInv, ShapeInv, Elsewhere, Left, SameSpec, StaysHanded
<1> QED
    BY <1>1, OutsideRecord DEF Inner

LEMMA UserRecord ==
    ASSUME NEW i \in Insts, RecordInv,
           \/ i \in Roots /\ (Alter(i) \/ DeleteInstallation(i))
           \/ \E j \in Children(i) : i \in Roots /\ Drop(i, j)
           \/ \E op \in Ops \ {"none"} : SetOperation(i, op)
    PROVE  RecordInv'
<1>1. IsObject(i, inst[i])
    BY DEF RecordInv, ShapeInv
<1>2. CASE i \in Roots /\ Alter(i)
  <2> DEFINE o == [inst[i] EXCEPT !.spec.version = @ + 1, !.gen = @ + 1]
  <2>1. SetInstallation(i, o) /\ i \notin Inner
      BY <1>2 DEF Alter, Inner
  <2>2. IsObject(i, o)
    <3>1. \A v \in Nat : IsObject(i, [inst[i] EXCEPT !.spec.version = v, !.gen = @ + 1])
        BY <1>1, ChangedObject
    <3>2. inst[i].spec.version + 1 \in Nat
        BY <1>1 DEF IsObject
    <3> QED
        BY <3>1, <3>2
  <2>3. /\ o.live = inst[i].live /\ o.fin = inst[i].fin /\ o.obs = inst[i].obs
        /\ o.del = inst[i].del /\ o.gen = inst[i].gen + 1
        /\ o.spec.subs = inst[i].spec.subs
      BY <1>1 DEF IsObject, ObjectFields
  <2> HIDE DEF o
  <2>4. inst'[i] = o => Elsewhere(i)
      BY <2>3 DEF Elsewhere, Bumped
  <2> QED
      BY <2>1, <2>2, <2>4, InstallationRecord
<1>3. ASSUME NEW j, i \in Roots, Drop(i, j) PROVE RecordInv'
  <2> DEFINE o == [inst[i] EXCEPT !.spec.subs = @ \ {j}, !.gen = @ + 1]
  <2>1. SetInstallation(i, o) /\ i \notin Inner
      BY <1>3 DEF Drop, Inner
  <2>2. IsObject(i, o)
      BY <1>1, ChangedObject
  <2>3. /\ o.live = inst[i].live /\ o.fin = inst[i].fin /\ o.obs = inst[i].obs
        /\ o.del = inst[i].del /\ o.gen = inst[i].gen + 1
        /\ o.spec.subs = inst[i].spec.subs \ {j}
      BY <1>1 DEF IsObject, ObjectFields
  <2> HIDE DEF o
  <2>4. inst'[i] = o => Elsewhere(i)
      BY <2>3 DEF Elsewhere, Bumped
  <2> QED
      BY <2>1, <2>2, <2>4, InstallationRecord
<1>4. CASE i \in Roots /\ DeleteInstallation(i)
  <2>1. SetInstallation(i, Deleted(inst[i])) /\ i \notin Inner /\ ~inst[i].del
      BY <1>4 DEF DeleteInstallation, Inner
  <2>2. IsObject(i, Deleted(inst[i]))
      BY <1>1, DeletedObject
  <2>3. CASE ~(inst[i].live /\ inst[i].fin)
    <3>1. Deleted(inst[i]) = NoInstallation
        BY <2>3 DEF Deleted
    <3>2. inst'[i] = NoInstallation => Elsewhere(i)
        BY <2>3 DEF NoInstallation, Elsewhere, Renewed
    <3> QED
        BY <2>1, <2>2, <3>1, <3>2, InstallationRecord
  <2>4. CASE inst[i].live /\ inst[i].fin
    <3> DEFINE o == [inst[i] EXCEPT !.del = TRUE, !.gen = @ + 1]
    <3>1. Deleted(inst[i]) = o
        BY <2>1, <2>4 DEF Deleted
    <3>2. /\ o.live = inst[i].live /\ o.fin = inst[i].fin /\ o.obs = inst[i].obs
          /\ o.gen = inst[i].gen + 1 /\ o.spec = inst[i].spec
        BY <1>1 DEF IsObject, ObjectFields
    <3> HIDE DEF o
    <3>3. inst'[i] = o => Elsewhere(i)
        BY <2>1, <2>4, <3>2 DEF Elsewhere, Bumped
    <3> QED
        BY <2>1, <2>2, <3>1, <3>3, InstallationRecord
  <2> QED
      BY <2>3, <2>4
<1>5. ASSUME NEW op, SetOperation(i, op) PROVE RecordInv'
  <2> DEFINE o == [inst[i] EXCEPT !.op = op]
  <2>1. SetInstallation(i, o)
      BY <1>5 DEF SetOperation
  <2>2. IsObject(i, o) /\ SameSpec(inst[i], o) /\ o.obs = inst[i].obs
      BY <1>1 DEF IsObject, ObjectFields, SameSpec
  <2> HIDE DEF o
  <2>3. inst'[i] = o => Elsewhere(i) /\ StaysHanded(i)
      BY <2>2 DEF Elsewhere, Left, SameSpec, StaysHanded
  <2> QED
      BY <2>1, <2>2, <2>3, InstallationRecord
<1> QED
    BY <1>2, <1>3, <1>4, <1>5

LEMMA ChangeDataRecord ==
    ASSUME NEW k \in Keys, RecordInv, ChangeData(k)
    PROVE  RecordInv'
<1> DEFINE J == {i \in Roots : inst[i].live /\ k \in Imports[i]}
<1>1. /\ Others
      /\ inst' = [i \in Insts |-> IF i \in J THEN [inst[i] EXCEPT !.op = "reconcile"]
                                  ELSE inst[i]]
    BY DEF ChangeData
<1> HIDE DEF J
<1>2. ASSUME NEW i \in Insts
      PROVE  IsObject(i, inst'[i]) /\ Elsewhere(i) /\ StaysHanded(i)
  <2>1. DOMAIN inst' = Insts /\ SpecsLeft(i)
      BY <1>1, OpsWritten, ZenonT(40) DEF SpecsLeft
  <2>2. IsObject(i, inst[i])
      BY DEF RecordInv, ShapeInv
  <2>3. inst'[i] = inst[i] \/ inst'[i] = [inst[i] EXCEPT !.op = "reconcile"]
      BY <1>1
  <2>4. inst'[i].obs = inst[i].obs
      BY <2>2, <2>3 DEF IsObject, ObjectFields
  <2> QED
      BY <2>1, <2>4 DEF SpecsLeft, Elsewhere, Left, SameSpec, StaysHanded
<1>3. DOMAIN inst' = Insts
    BY <1>1
<1> QED
    BY <1>1, <1>2, <1>3, OutsideRecord DEF Inner

LEMMA CrashRecord ==
    ASSUME RecordInv, Crash
    PROVE  RecordInv'
<1>1. /\ run' = [i \in Insts |-> Idle] /\ fresh' = [i \in Insts |-> {}]
      /\ inst' = inst /\ ~Busy(Idle)
    BY DEF Crash, Busy, Idle
<1>2. ShapeInv'
    BY <1>1, NewObjects DEF RecordInv, ShapeInv
<1>3. \A i \in Insts : Recorded(i)'
    BY <1>1 DEF RecordInv, Recorded, Whole, Handed
<1> QED
    BY <1>1, <1>2, <1>3 DEF RecordInv

LEMMA InitRecord ==
    ASSUME Init
    PROVE  RecordInv
<1>1. /\ inst = [i \in Insts |-> IF i \in Roots THEN NewInstallation(i, 1)
                                 ELSE NoInstallation]
      /\ run = [i \in Insts |-> Idle] /\ fresh = [i \in Insts |-> {}]
    BY DEF Init
<1>2. ShapeInv
    BY <1>1, NewObjects DEF ShapeInv
<1>3. ASSUME NEW i \in Insts PROVE Recorded(i) /\ ~Busy(run[i])
  <2>1. \/ inst[i] = NoInstallation
        \/ inst[i] = NewInstallation(i, 1)
      BY <1>1
  <2>2. /\ ~inst[i].del /\ inst[i].obs = 0
        /\ inst[i].live => inst[i].gen = 1
        /\ inst[i].gen \in Nat
      BY <2>1 DEF NewInstallation, NoInstallation
  <2>3. Recorded(i)
      BY <2>2 DEF Recorded, Whole
  <2> QED
      BY <1>1, <2>3 DEF Busy, Idle
<1> QED
    BY <1>2, <1>3 DEF RecordInv

LEMMA NextRecord ==
    ASSUME RecordInv, [Next]_vars
    PROVE  RecordInv'
<1>1. ASSUME NEW i \in Insts, Get(i) PROVE RecordInv'
    BY <1>1, GetRecord
<1>2. ASSUME NEW i \in Insts, Step(i) PROVE RecordInv'
    BY <1>2, AddFinalizerRecord, DropReconcileRecord, FinishRecord, CheckChildrenRecord,
       InitPrerequisitesRecord, CheckEligibleRecord,
       ReadValuesRecord, WriteImportsRecord, EnsureSubsRecord, CreateSubRecord,
       TriggerSubsRecord, EnsureExecutionRecord, DropForceRecord,
       WriteExportsRecord, PublishRecord, TriggerDependantsRecord, RecheckRecord,
       RephaseRecord, DeleteRecord, DeleteAllRecord, RemoveFinalizerRecord DEF Step
<1>3. ASSUME NEW i \in Insts, ExecutionStep(i) \/ Drift(i) PROVE RecordInv'
  <2>1. \E e : SetExecution(i, e)
      BY <1>3 DEF ExecutionStep, Drift, StartExecution, EndExecution, EndDeletion
  <2> QED
      BY <2>1, QuietRecord DEF SetExecution
<1>4. ASSUME NEW i \in Insts, CollectGarbage(i) PROVE RecordInv'
    BY <1>4, QuietRecord DEF CollectGarbage
<1>5. ASSUME NEW i \in Insts, Environment(i) PROVE RecordInv'
    BY <1>3, <1>5, UserRecord DEF Environment
<1>6. ASSUME NEW k \in Keys, ChangeData(k) PROVE RecordInv'
    BY <1>6, ChangeDataRecord
<1>7. CASE Crash
    BY <1>7, CrashRecord
<1>8. CASE UNCHANGED vars
    BY <1>8, StutterRecord DEF vars
<1> QED
    BY <1>1, <1>2, <1>3, <1>4, <1>5, <1>6, <1>7, <1>8 DEF Next

\* In every forest of installations, with any number of workers, refused
\* writes, failed calls, crashes, lasting errors and changes by users: Update
\* records a generation only when every template has been applied with its
\* content (as long as no template was dropped), and nothing that happens later - a parent's own Update that fails
\* half way, one that works with an outdated copy - takes that back without a
\* new generation.
THEOREM TemplatesAreApplied == SafetySpec => []RecordedIsEnsured
<1>1. Init => RecordInv
    BY InitRecord
<1>2. RecordInv /\ [Next]_vars => RecordInv'
    BY NextRecord
<1>3. RecordInv => RecordedIsEnsured
    BY DEF RecordInv, Recorded, Whole, Handed, RecordedIsEnsured
<1> QED
    BY <1>1, <1>2, <1>3, PTL DEF SafetySpec

-----------------------------------------------------------------------------
(* What a step of the run of i does to the objects that other runs look    *)
(* at, and how the run moves between the stages that matter to them.       *)

Pipeline == {"confs", "ensure", "subs", "trigger", "exec"}
Removes == Constructs \cup {"deleteAll", "removeFinalizer"}
Inside == Removes \cup {"dropOp", "check", "context", "eligible", "delete"}

\* At most the operation of k changes.
Marked(k) ==
    SameSpec(inst[k], inst'[k]) /\ inst'[k].obs = inst[k].obs
    /\ inst'[k].phase = inst[k].phase

\* The template of k has been applied.
Applied(k) ==
    /\ inst'[k].live
    /\ inst[k].live => /\ inst'[k].fin = inst[k].fin /\ inst'[k].del = inst[k].del
                       /\ inst'[k].phase = inst[k].phase
    /\ ~inst[k].live => ~inst'[k].fin /\ ~inst'[k].del /\ inst'[k].phase = NoPhase

OwnEffects(i) ==
    \/ /\ inst'[i].live = inst[i].live /\ inst'[i].del = inst[i].del
       /\ inst[i].fin => inst'[i].fin
       /\ inst'[i].phase = inst[i].phase \/ Busy(run[i])
       /\ \/ inst'[i].op = inst[i].op \/ run[i].pc \in {"dropOp", "dropForce"}
          \/ i \in run[i].refs /\ run[i].pc \in {"trigger", "dependants"}
    \/ /\ inst'[i] = NoInstallation
       /\ run[i].pc = "removeFinalizer" /\ i \in fresh[i]

ObjectEffects(i) ==
    /\ \A k \in Insts \ (Children(i) \cup {i}) : Marked(k)
    /\ \A k \in Children(i) :
          \/ Marked(k)
          \/ run[i].pc \in {"ensure", "deleteAll"} /\ inst'[k] = Deleted(inst[k])
          \/ run[i].pc = "subs" /\ Applied(k)
    /\ OwnEffects(i)
    /\ \A k \in Insts : inst'[k].op \in {inst[k].op, "none", "reconcile"}

ExecShape == DOMAIN exec = Insts /\ \A i \in Insts : DOMAIN exec[i] = ExecutionFields

ExecutionEffects(i) ==
    /\ ExecShape'
    /\ \A k \in Insts \ {i} : exec'[k] = exec[k]
    /\ exec'[i].live => exec[i].live \/ run[i].pc = "exec"
    /\ exec'[i].live /\ exec'[i].in # exec[i].in => run[i].pc = "exec"

\* The run of i with r goes on with s.
SameLook(r, s) == s.l.del = r.l.del /\ s.l.op = r.l.op
Moves(i, r, s) ==
    \/ s.pc \notin Inside
    \/ r.pc = "dropOp" /\ s.pc = "check" /\ s.l.del = r.l.del
    \/ r.pc = "check" /\ s.pc = "context" /\ SameLook(r, s)
    \/ /\ r.pc = "context" /\ s.pc \in {"eligible", "values"} /\ SameLook(r, s)
       /\ s.ready = ContextReady(i)
    \/ r.pc = "eligible" /\ s.pc = "values" /\ SameLook(r, s) /\ s.ready = r.ready
    \/ /\ r.pc = "delete" /\ s.pc = "values" /\ SameLook(r, s)
       /\ s.ready = ContextReady(i) /\ (r.l.op # "force" => ~Imported(i))
    \/ /\ r.pc = "delete" /\ s.pc \in {"deleteAll", "removeFinalizer"}
       /\ SameLook(r, s) /\ ~Imported(i)
    \/ /\ r.pc = "values" /\ s.pc = "confs" /\ SameLook(r, s)
       /\ r.ready /\ s.ready
       /\ \A j \in SiblingSources(i) : SourcesCompleted(j)
    \/ /\ r.pc = "confs" /\ s.pc = "ensure" /\ SameLook(r, s) /\ s.ready = r.ready
    \/ /\ r.pc = "ensure" /\ s.pc = "subs" /\ SameLook(r, s) /\ s.ready = r.ready
       /\ s.refs \subseteq Children(i)
       /\ \A k \in Insts : inst'[k] = inst[k]
       /\ \A j \in Children(i) : inst[j].live => ~inst[j].del
    \/ /\ r.pc = "ensure" /\ s.pc = "trigger" /\ SameLook(r, s) /\ s.ready = r.ready
       /\ s.refs \subseteq Children(i)
    \/ /\ r.pc = "subs" /\ s.pc \in {"subs", "trigger"} /\ SameLook(r, s)
       /\ s.ready = r.ready
       /\ r.refs \subseteq Children(i) => s.refs \subseteq Children(i)
    \/ /\ r.pc = "trigger" /\ s.pc = "exec" /\ SameLook(r, s) /\ s.ready = r.ready
    \/ <<r.pc, s.pc>> \in {<<"exec", "deleteAll">>, <<"deleteAll", "removeFinalizer">>}
       /\ SameLook(r, s)

\* The run of i goes on with s, or ends.
GoesOn(i, s) ==
    \/ Continue(i, s)
    \/ ReadContext(i, s) /\ inst' = inst
    \/ s = Idle /\ \E failed : Return(i, failed)

\* A step of the run of i.
Effects(i) ==
    /\ run[i].pc # "idle"
    /\ Holds(i, run'[i]) /\ (Busy(run'[i]) => StillHolds(i))
    /\ Moves(i, run[i], run'[i])
    /\ run'[i].l.op \in {run[i].l.op, inst[i].op, "none"}
    /\ ObjectEffects(i) /\ ExecutionEffects(i)

LEMMA StepEffects ==
    ASSUME NEW i \in Insts, NEW s, RecordInv, GoesOn(i, s), run[i].pc # "idle",
           Moves(i, run[i], s), s.l.op \in {run[i].l.op, inst[i].op, "none"},
           ObjectEffects(i), ExecutionEffects(i)
    PROVE  Effects(i)
<1>1. Holds(i, s) /\ (Busy(s) => StillHolds(i))
    BY RunsOn DEF GoesOn, RecordInv
<1>2. run'[i] = s
    BY <1>1 DEF Holds, RecordInv, ShapeInv
<1> QED
    BY <1>1, <1>2 DEF Effects

\* The writes to the objects.
LEMMA QuietEffects ==
    ASSUME NEW i \in Insts, \A k \in Insts : inst'[k] = inst[k]
    PROVE  ObjectEffects(i)
<1>1. Children(i) \subseteq Insts
    BY Forest DEF Inner
<1> QED
    BY <1>1 DEF ObjectEffects, OwnEffects, Marked, SameSpec

LEMMA SameExecution ==
    ASSUME NEW i \in Insts, ExecShape, exec' = exec
    PROVE  ExecutionEffects(i)
BY DEF ExecutionEffects, ExecShape

LEMMA OpsEffects ==
    ASSUME NEW i \in Insts, RecordInv, NEW J, NEW op \in {"none", "reconcile"},
           inst' = [j \in Insts |-> IF j \in J THEN [inst[j] EXCEPT !.op = op]
                                    ELSE inst[j]],
           \/ i \notin J \/ run[i].pc \in {"dropOp", "dropForce"}
           \/ i \in run[i].refs /\ run[i].pc \in {"trigger", "dependants"}
    PROVE  ObjectEffects(i)
<1>1. ASSUME NEW k \in Insts
      PROVE  /\ Marked(k) /\ inst'[k].op \in {inst[k].op, op}
             /\ k \notin J => inst'[k].op = inst[k].op
  <2>1. DOMAIN inst[k] = ObjectFields
      BY DEF RecordInv, ShapeInv, IsObject
  <2>2. LET o == [inst[k] EXCEPT !.op = op] IN
        SameSpec(inst[k], o) /\ o.obs = inst[k].obs /\ o.phase = inst[k].phase /\ o.op = op
      BY <2>1 DEF SameSpec, ObjectFields
  <2> QED
      BY <2>2 DEF Marked, SameSpec
<1>2. OwnEffects(i)
    BY <1>1 DEF OwnEffects, Marked, SameSpec
<1>3. Children(i) \subseteq Insts
    BY Forest DEF Inner
<1> QED
    BY <1>1, <1>2, <1>3 DEF ObjectEffects

LEMMA StatusEffects ==
    ASSUME NEW i \in Insts, RecordInv, NEW o, Busy(run[i]),
           inst' = [inst EXCEPT ![i] = WithStatus(@, o)]
    PROVE  ObjectEffects(i)
<1>1. /\ \A k \in Insts \ {i} : inst'[k] = inst[k]
      /\ inst'[i] = WithStatus(inst[i], o) /\ DOMAIN inst[i] = ObjectFields
    BY DEF RecordInv, ShapeInv, IsObject
<1>2. LET x == WithStatus(inst[i], o) IN
      x.live = inst[i].live /\ x.del = inst[i].del /\ x.fin = inst[i].fin /\ x.op = inst[i].op
    BY <1>1 DEF WithStatus, ObjectFields
<1>3. Children(i) \subseteq Insts /\ i \notin Children(i)
    BY Forest DEF Inner
<1> QED
    BY <1>1, <1>2, <1>3 DEF ObjectEffects, OwnEffects, Marked, SameSpec

LEMMA DeletionEffects ==
    ASSUME NEW i \in Insts, RecordInv, NEW js \in SUBSET Children(i),
           run[i].pc \in {"ensure", "deleteAll"},
           \A k \in js : inst'[k] = Deleted(inst[k]),
           \A k \in Insts \ js : inst'[k] = inst[k]
    PROVE  ObjectEffects(i)
<1>1. i \in Insts \ js /\ Children(i) \subseteq Insts
    BY Forest DEF Inner
<1>2. ASSUME NEW k \in js PROVE Deleted(inst[k]).op \in {inst[k].op, "none"}
  <2>1. DOMAIN inst[k] = ObjectFields
      BY <1>1 DEF RecordInv, ShapeInv, IsObject
  <2>2. [inst[k] EXCEPT !.del = TRUE, !.gen = @ + 1].op = inst[k].op
      BY <2>1 DEF ObjectFields
  <2>3. NoInstallation.op = "none"
      BY DEF NoInstallation
  <2> QED
      BY <2>2, <2>3 DEF Deleted
<1> HIDE DEF Deleted
<1>3. \A k \in Insts \ js : Marked(k) /\ inst'[k].op = inst[k].op
    BY DEF Marked, SameSpec
<1>4. \A k \in Insts : inst'[k].op \in {inst[k].op, "none", "reconcile"}
    BY <1>2, <1>3
<1>5. OwnEffects(i)
    BY <1>1 DEF OwnEffects
<1> QED
    BY <1>1, <1>3, <1>4, <1>5 DEF ObjectEffects

\* The error of r, and the end of a run, leave what is looked at here.
LEMMA ErrorMoves ==
    ASSUME NEW i \in Insts, NEW r, DOMAIN r = RunFields
    PROVE  /\ Moves(i, r, Fails(r)) /\ Fails(r).l = r.l
           /\ Moves(i, r, FailsPlain(r)) /\ FailsPlain(r).l = r.l
           /\ Moves(i, r, Idle) /\ Idle.l.op = "none"
<1>1. \A s \in {Fails(r), FailsPlain(r)} : s.pc = "finish" /\ s.l = r.l
    BY DEF Fails, FailsPlain, RunFields
<1>2. Idle.pc = "idle" /\ Idle.l.op = "none"
    BY DEF Idle, NoInstallation
<1>3. \A s : s.pc \in {"idle", "finish"} => Moves(i, r, s)
    BY DEF Moves, Inside, Removes, Constructs
<1> HIDE DEF Fails, FailsPlain, Idle
<1> QED
    BY <1>1, <1>2, <1>3

\* A run that ends or fails, whatever it has written.
LEMMA EndEffects ==
    ASSUME NEW i \in Insts, RecordInv, run[i].pc # "idle",
           ObjectEffects(i), ExecutionEffects(i),
           \/ Continue(i, Fails(run[i])) \/ Continue(i, FailsPlain(run[i]))
           \/ \E failed : Return(i, failed)
    PROVE  Effects(i)
<1>1. DOMAIN run[i] = RunFields
    BY DEF RecordInv, ShapeInv, IsRun
<1>2. PICK s \in {Fails(run[i]), FailsPlain(run[i]), Idle} : GoesOn(i, s)
    BY DEF GoesOn
<1>3. Moves(i, run[i], s) /\ s.l.op \in {run[i].l.op, "none"}
    BY <1>1, ErrorMoves
<1> QED
    BY <1>2, <1>3, StepEffects

\* A run that goes on with s outside of the stages.
LEMMA OutsideEffects ==
    ASSUME NEW i \in Insts, RecordInv, NEW s, run[i].pc # "idle", GoesOn(i, s),
           s.pc \notin Inside, s.l.op \in {run[i].l.op, inst[i].op, "none"},
           ObjectEffects(i), ExecutionEffects(i)
    PROVE  Effects(i)
BY StepEffects DEF Moves

-----------------------------------------------------------------------------
(* The steps of Reconcile.                                                 *)

\* The run as an action finds it.
LEMMA RunShape ==
    ASSUME NEW i \in Insts, RecordInv
    PROVE  /\ DOMAIN run[i] = RunFields /\ DOMAIN run[i].l = ObjectFields
           /\ DOMAIN inst[i] = ObjectFields
BY DEF RecordInv, ShapeInv, IsRun, IsObject

LEMMA AddFinalizerEffects ==
    ASSUME NEW i \in Insts, RecordInv, ExecShape, AddFinalizer(i)
    PROVE  Effects(i)
<1>1. run[i].pc # "idle" /\ exec' = exec /\ \E failed : Return(i, failed)
    BY DEF AddFinalizer, At
<1>2. CASE inst' = inst
    BY <1>1, <1>2, QuietEffects, SameExecution, EndEffects
<1>3. CASE inst' = [inst EXCEPT ![i].fin = TRUE]
  <2> DEFINE o == [inst[i] EXCEPT !.fin = TRUE]
  <2>1. /\ \A k \in Insts \ {i} : inst'[k] = inst[k]
        /\ inst'[i] = o
      BY <1>3 DEF RecordInv, ShapeInv
  <2>2. /\ o.live = inst[i].live /\ o.del = inst[i].del /\ o.fin /\ o.op = inst[i].op
        /\ o.phase = inst[i].phase
      BY RunShape DEF ObjectFields
  <2> HIDE DEF o
  <2>3. Children(i) \subseteq Insts /\ i \notin Children(i)
      BY Forest DEF Inner
  <2>4. ObjectEffects(i)
      BY <2>1, <2>2, <2>3 DEF ObjectEffects, OwnEffects, Marked, SameSpec
  <2> QED
      BY <1>1, <2>4, SameExecution, EndEffects
<1> QED
    BY <1>2, <1>3 DEF AddFinalizer

LEMMA DropReconcileEffects ==
    ASSUME NEW i \in Insts, RecordInv, ExecShape, DropReconcile(i)
    PROVE  Effects(i)
<1> DEFINE s == [run[i] EXCEPT !.pc = "check", !.l.op = "none"]
<1>1. run[i].pc = "dropOp" /\ exec' = exec
    BY DEF DropReconcile, At
<1>2. CASE inst' = inst /\ Return(i, TRUE)
    BY <1>1, <1>2, QuietEffects, SameExecution, EndEffects
<1>3. CASE inst' = [inst EXCEPT ![i].op = "none"] /\ Continue(i, s)
  <2>1. inst' = [j \in Insts |-> IF j \in {i} THEN [inst[j] EXCEPT !.op = "none"]
                                 ELSE inst[j]]
      BY <1>3 DEF RecordInv, ShapeInv
  <2>2. ObjectEffects(i)
      BY <1>1, <2>1, OpsEffects
  <2>3. s.pc = "check" /\ s.l.op = "none" /\ s.l.del = run[i].l.del
      BY RunShape DEF RunFields, ObjectFields
  <2> HIDE DEF s
  <2> QED
      BY <1>1, <1>3, <2>2, <2>3, SameExecution, StepEffects DEF Moves, GoesOn
<1> QED
    BY <1>2, <1>3 DEF DropReconcile

LEMMA FinishEffects ==
    ASSUME NEW i \in Insts, RecordInv, ExecShape, Finish(i)
    PROVE  Effects(i)
<1>1. /\ Busy(run[i]) /\ run[i].pc # "idle" /\ exec' = exec
      /\ \E failed : Return(i, failed)
      /\ inst' = inst \/ \E o : inst' = [inst EXCEPT ![i] = WithStatus(@, o)]
    BY DEF Finish, At, Busy
<1>2. ObjectEffects(i)
    BY <1>1, QuietEffects, StatusEffects
<1> QED
    BY <1>1, <1>2, SameExecution, EndEffects

LEMMA CheckChildrenEffects ==
    ASSUME NEW i \in Insts, RecordInv, ExecShape, CheckChildren(i)
    PROVE  Effects(i)
<1> DEFINE r == run[i]
           Done(p) == [r EXCEPT !.pc = "finish", !.l.phase = p]
           On(p) == [r EXCEPT !.pc = "context", !.mode = p]
<1>1. r.pc = "check" /\ inst' = inst /\ exec' = exec
    BY DEF CheckChildren, At
<1>2. ObjectEffects(i) /\ ExecutionEffects(i)
    BY <1>1, QuietEffects, SameExecution
<1>3. (\E p : Continue(i, Done(p))) \/ (\E p : Continue(i, On(p)))
    BY DEF CheckChildren
<1>4. \A p : /\ Done(p).pc = "finish" /\ Done(p).l.op = r.l.op
             /\ On(p).pc = "context" /\ SameLook(r, On(p))
    BY RunShape DEF RunFields, ObjectFields, SameLook
<1> HIDE DEF Done, On
<1>5. ASSUME NEW p, Continue(i, Done(p)) PROVE Effects(i)
    BY <1>1, <1>2, <1>4, <1>5, OutsideEffects DEF GoesOn, Inside, Removes, Constructs
<1>6. ASSUME NEW p, Continue(i, On(p)) PROVE Effects(i)
    BY <1>1, <1>2, <1>4, <1>6, StepEffects DEF GoesOn, Moves, SameLook
<1> QED
    BY <1>3, <1>5, <1>6

LEMMA InitPrerequisitesEffects ==
    ASSUME NEW i \in Insts, RecordInv, ExecShape, InitPrerequisites(i)
    PROVE  Effects(i)
<1> DEFINE r == run[i]
           Forced == [r EXCEPT !.ready = ContextReady(i), !.pc = "values",
                               !.mode = "force", !.l.phase = "Pending"]
           On == [r EXCEPT !.ready = ContextReady(i), !.pc = "eligible",
                           !.refs = Importers(i)]
<1>1. r.pc = "context" /\ inst' = inst /\ exec' = exec
    BY DEF InitPrerequisites, At
<1>2. ObjectEffects(i) /\ ExecutionEffects(i)
    BY <1>1, QuietEffects, SameExecution
<1>3. Continue(i, Fails(r)) \/ \E s \in {Forced, On} : ReadContext(i, s)
    BY DEF InitPrerequisites
<1>4. /\ Forced.pc = "values" /\ SameLook(r, Forced) /\ Forced.ready = ContextReady(i)
      /\ On.pc = "eligible" /\ SameLook(r, On) /\ On.ready = ContextReady(i)
    BY RunShape DEF RunFields, ObjectFields, SameLook
<1> HIDE DEF Forced, On
<1>5. CASE Continue(i, Fails(r))
    BY <1>1, <1>2, <1>5, EndEffects
<1>6. ASSUME NEW s \in {Forced, On}, ReadContext(i, s) PROVE Effects(i)
    BY <1>1, <1>2, <1>4, <1>6, StepEffects DEF GoesOn, Moves, SameLook
<1> QED
    BY <1>3, <1>5, <1>6

LEMMA CheckEligibleEffects ==
    ASSUME NEW i \in Insts, RecordInv, ExecShape, CheckEligible(i)
    PROVE  Effects(i)
<1> DEFINE r == run[i]
           Done == [r EXCEPT !.pc = "finish", !.l.phase = r.mode]
           Update == [r EXCEPT !.pc = "values", !.mode = "update", !.l.phase = "Pending"]
           Complete == [r EXCEPT !.pc = "values", !.mode = "complete"]
<1>1. r.pc = "eligible" /\ inst' = inst /\ exec' = exec
    BY DEF CheckEligible, At
<1>2. ObjectEffects(i) /\ ExecutionEffects(i)
    BY <1>1, QuietEffects, SameExecution
<1>3. \/ Continue(i, Fails(r)) \/ Continue(i, Done)
      \/ \E s \in {Update, Complete} : Continue(i, s)
    BY DEF CheckEligible
<1>4. Done.pc = "finish" /\ Done.l.op = r.l.op
    BY RunShape DEF RunFields, ObjectFields
<1>5. /\ Update.pc = "values" /\ SameLook(r, Update) /\ Update.ready = r.ready
      /\ Complete.pc = "values" /\ SameLook(r, Complete) /\ Complete.ready = r.ready
    BY RunShape DEF RunFields, ObjectFields, SameLook
<1> HIDE DEF Done, Update, Complete
<1>6. CASE Continue(i, Fails(r))
    BY <1>1, <1>2, <1>6, EndEffects
<1>7. CASE Continue(i, Done)
    BY <1>1, <1>2, <1>4, <1>7, OutsideEffects DEF GoesOn, Inside, Removes, Constructs
<1>8. ASSUME NEW s \in {Update, Complete}, Continue(i, s) PROVE Effects(i)
    BY <1>1, <1>2, <1>5, <1>8, StepEffects DEF GoesOn, Moves, SameLook
<1> QED
    BY <1>3, <1>6, <1>7, <1>8

LEMMA ReadValuesEffects ==
    ASSUME NEW i \in Insts, RecordInv, ExecShape, ReadValues(i)
    PROVE  Effects(i)
<1> DEFINE r == run[i]
           s == [r EXCEPT !.pc = "confs", !.vals =
                   [k \in Imports[i] |-> data[Parent[i]][k]]]
<1>1. r.pc = "values" /\ inst' = inst /\ exec' = exec
    BY DEF ReadValues, At
<1>2. ObjectEffects(i) /\ ExecutionEffects(i)
    BY <1>1, QuietEffects, SameExecution
<1>3. \/ Continue(i, Fails(r))
      \/ /\ Continue(i, s) /\ r.ready
         /\ \A j \in SiblingSources(i) : SourcesCompleted(j)
    BY DEF ReadValues
<1>4. s.pc = "confs" /\ SameLook(r, s) /\ s.ready = r.ready
    BY RunShape DEF RunFields, SameLook
<1> HIDE DEF s
<1>5. CASE Continue(i, Fails(r))
    BY <1>1, <1>2, <1>5, EndEffects
<1>6. CASE Continue(i, s) /\ r.ready /\ \A j \in SiblingSources(i) : SourcesCompleted(j)
    BY <1>1, <1>2, <1>4, <1>6, StepEffects DEF GoesOn, Moves, SameLook
<1> QED
    BY <1>3, <1>5, <1>6

LEMMA WriteImportsEffects ==
    ASSUME NEW i \in Insts, RecordInv, ExecShape, WriteImports(i)
    PROVE  Effects(i)
<1> DEFINE r == run[i]
           confs == [k \in Imports[i] |->
                       IF Source(i, k) = Root THEN r.vals[k] ELSE ConfOf(i, k)]
           update == [r EXCEPT !.pc = "ensure", !.confs = confs,
                               !.l.phase = "Progressing"]
           publish == [r EXCEPT !.pc = "exports"]
<1>1. r.pc = "confs" /\ inst' = inst /\ exec' = exec
    BY DEF WriteImports, At
<1>2. ObjectEffects(i) /\ ExecutionEffects(i)
    BY <1>1, QuietEffects, SameExecution
<1>3. Continue(i, Fails(r)) \/ Continue(i, publish) \/ Continue(i, update)
    BY DEF WriteImports
<1>4. /\ update.pc = "ensure" /\ SameLook(r, update) /\ update.ready = r.ready
      /\ publish.pc = "exports" /\ publish.l.op = r.l.op
    BY RunShape DEF RunFields, ObjectFields, SameLook
<1> HIDE DEF update, publish
<1>5. CASE Continue(i, Fails(r))
    BY <1>1, <1>2, <1>5, EndEffects
<1>6. CASE Continue(i, publish)
    BY <1>1, <1>2, <1>4, <1>6, OutsideEffects DEF GoesOn, Inside, Removes, Constructs
<1>7. CASE Continue(i, update)
    BY <1>1, <1>2, <1>4, <1>7, StepEffects DEF GoesOn, Moves, SameLook
<1> QED
    BY <1>3, <1>5, <1>6, <1>7

LEMMA EnsureSubsEffects ==
    ASSUME NEW i \in Insts, RecordInv, ExecShape, EnsureSubs(i)
    PROVE  Effects(i)
<1> DEFINE r == run[i]
           orphans == LiveSubs(i) \ r.l.spec.subs
           To(p, todo) == [r EXCEPT !.refs = LiveSubs(i), !.pc = p, !.todo = todo]
<1>1. r.pc = "ensure" /\ exec' = exec /\ ExecutionEffects(i)
    BY SameExecution DEF EnsureSubs, At
<1>2. \/ inst' = inst /\ Continue(i, Fails(r))
      \/ /\ \A j \in LiveSubs(i) : ~inst[j].del
         /\ inst' = [j \in Insts |-> IF j \in orphans THEN Deleted(inst[j]) ELSE inst[j]]
         /\ \/ orphans = {} /\ Continue(i, To("subs", r.l.spec.subs))
            \/ Continue(i, To("trigger", {}))
    BY DEF EnsureSubs
<1>3. ASSUME NEW p, NEW todo
      PROVE  LET s == To(p, todo) IN
             /\ s.pc = p /\ SameLook(r, s) /\ s.ready = r.ready
             /\ s.refs \subseteq Children(i)
    BY RunShape DEF RunFields, SameLook, LiveSubs
<1>4. orphans \in SUBSET Children(i) /\ Children(i) \subseteq Insts
    BY Forest DEF LiveSubs, Inner
<1> HIDE DEF orphans, To
<1>5. CASE inst' = inst /\ Continue(i, Fails(r))
    BY <1>1, <1>5, QuietEffects, EndEffects
<1>6. CASE /\ \A j \in LiveSubs(i) : ~inst[j].del
           /\ inst' = [j \in Insts |-> IF j \in orphans THEN Deleted(inst[j]) ELSE inst[j]]
           /\ orphans = {} /\ Continue(i, To("subs", r.l.spec.subs))
  <2> PICK s : s = To("subs", r.l.spec.subs)
      OBVIOUS
  <2>1. \A k \in Insts : inst'[k] = inst[k]
      BY <1>6
  <2>2. \A j \in Children(i) : inst[j].live => ~inst[j].del
      BY <1>6 DEF LiveSubs
  <2>3. Moves(i, r, s) /\ s.l.op = r.l.op
    <3>1. /\ s.pc = "subs" /\ SameLook(r, s) /\ s.ready = r.ready
          /\ s.refs \subseteq Children(i)
        BY <1>3
    <3>2. Moves(i, r, s)
        BY <1>1, <2>1, <2>2, <3>1, Zenon DEF Moves
    <3> QED
        BY <3>1, <3>2 DEF SameLook
  <2> QED
      BY <1>1, <1>6, <2>1, <2>3, QuietEffects, StepEffects DEF GoesOn
<1>7. CASE /\ inst' = [j \in Insts |-> IF j \in orphans THEN Deleted(inst[j]) ELSE inst[j]]
           /\ Continue(i, To("trigger", {}))
  <2> PICK s : s = To("trigger", {})
      OBVIOUS
  <2>1. Moves(i, r, s) /\ s.l.op = r.l.op
      BY <1>1, <1>3 DEF Moves, SameLook
  <2>2. /\ \A k \in orphans : inst'[k] = Deleted(inst[k])
        /\ \A k \in Insts \ orphans : inst'[k] = inst[k]
      BY <1>4, <1>7
  <2>3. ObjectEffects(i)
      BY <1>1, <1>4, <2>2, DeletionEffects
  <2> QED
      BY <1>1, <1>7, <2>1, <2>3, StepEffects DEF GoesOn
<1> QED
    BY <1>2, <1>5, <1>6, <1>7

LEMMA TemplatedEffects ==
    ASSUME NEW j \in Insts, RecordInv, NEW v, inst'[j] = Templated(j, v)
    PROVE  Applied(j) /\ inst'[j].op = "none"
<1>1. DOMAIN inst[j] = ObjectFields
    BY RunShape
<1>2. CASE ~inst[j].live
  <2>1. inst'[j] = NewInstallation(j, v)
      BY <1>2 DEF Templated
  <2>2. /\ inst'[j].live /\ ~inst'[j].fin /\ ~inst'[j].del /\ inst'[j].phase = NoPhase
        /\ inst'[j].op = "none"
      BY <2>1 DEF NewInstallation
  <2> QED
      BY <1>2, <2>2 DEF Applied
<1>3. CASE inst[j].live /\ inst[j].spec.version = v
  <2>1. inst'[j] = [inst[j] EXCEPT !.op = "none"]
      BY <1>3 DEF Templated
  <2> QED
      BY <1>1, <1>3, <2>1 DEF Applied, ObjectFields
<1>4. CASE inst[j].live /\ inst[j].spec.version # v
  <2>1. inst'[j] = [inst[j] EXCEPT !.op = "none", !.spec.version = v, !.gen = @ + 1]
      BY <1>4 DEF Templated
  <2> QED
      BY <1>1, <1>4, <2>1 DEF Applied, ObjectFields
<1> QED
    BY <1>2, <1>3, <1>4

LEMMA CreateSubEffects ==
    ASSUME NEW i \in Insts, RecordInv, ExecShape, CreateSub(i)
    PROVE  Effects(i)
<1> DEFINE r == run[i]
           I(j) == [inst EXCEPT ![j] = Templated(j, r.l.spec.version)]
           created(j) == [r EXCEPT !.todo = @ \ {j}, !.refs = @ \cup {j}]
           done == [r EXCEPT !.pc = "trigger"]
           status(O) == [O EXCEPT ![i] = WithStatus(@, r.l)]
<1>1. /\ r.pc = "subs" /\ exec' = exec /\ Busy(r) /\ IsRun(i, r)
      /\ ExecutionEffects(i)
    BY SameExecution DEF CreateSub, At, Busy, RecordInv, ShapeInv
<1>2. \/ inst' = inst /\ (Continue(i, Fails(r)) \/ Continue(i, FailsPlain(r)))
      \/ inst' = status(inst) /\ Continue(i, done)
      \/ \E j \in r.todo :
            \/ inst' = status(I(j)) /\ Continue(i, created(j))
            \/ inst' = I(j) /\ Continue(i, Fails(r))
    BY DEF CreateSub
<1>3. done.pc = "trigger" /\ SameLook(r, done) /\ done.ready = r.ready /\ done.refs = r.refs
    BY RunShape DEF RunFields, SameLook
<1>4. ASSUME NEW j PROVE
         /\ created(j).pc = "subs" /\ SameLook(r, created(j)) /\ created(j).ready = r.ready
         /\ created(j).refs = r.refs \cup {j}
    BY <1>1, RunShape DEF RunFields, SameLook
<1>5. r.todo \subseteq Children(i) /\ Children(i) \subseteq Insts /\ i \notin Children(i)
    BY <1>1, Forest DEF IsRun, Inner
<1> HIDE DEF done, created
<1>6. CASE inst' = inst /\ (Continue(i, Fails(r)) \/ Continue(i, FailsPlain(r)))
    BY <1>1, <1>6, QuietEffects, EndEffects
<1>7. CASE inst' = status(inst) /\ Continue(i, done)
  <2> PICK x : x = r.l
      OBVIOUS
  <2>1. inst' = [inst EXCEPT ![i] = WithStatus(@, x)]
      BY <1>7
  <2>2. ObjectEffects(i)
      BY <1>1, <2>1, StatusEffects
  <2>3. Moves(i, r, done)
      BY <1>1, <1>3 DEF Moves
  <2> QED
      BY <1>1, <1>3, <1>7, <2>2, <2>3, StepEffects DEF GoesOn, SameLook
<1>8. ASSUME NEW j \in r.todo,
             \/ inst' = status(I(j)) /\ Continue(i, created(j))
             \/ inst' = I(j) /\ Continue(i, Fails(r))
      PROVE  Effects(i)
  <2>1. /\ inst'[j] = Templated(j, r.l.spec.version)
        /\ inst'[i] = inst[i] \/ inst'[i] = WithStatus(inst[i], r.l)
        /\ \A k \in Insts \ {i, j} : inst'[k] = inst[k]
      BY <1>5, <1>8 DEF RecordInv, ShapeInv
  <2>2. LET x == WithStatus(inst[i], r.l) IN
        /\ x.live = inst[i].live /\ x.del = inst[i].del /\ x.fin = inst[i].fin
        /\ x.op = inst[i].op
      BY RunShape DEF WithStatus, ObjectFields
  <2>3. OwnEffects(i) /\ inst'[i].op = inst[i].op
      BY <1>1, <2>1, <2>2 DEF OwnEffects
  <2> PICK v : v = r.l.spec.version
      OBVIOUS
  <2>4. Applied(j) /\ inst'[j].op = "none"
      BY <1>5, <2>1, TemplatedEffects
  <2>5. ObjectEffects(i)
      BY <1>1, <1>5, <2>1, <2>3, <2>4 DEF ObjectEffects, Marked, SameSpec
  <2>6. Moves(i, r, created(j))
      BY <1>1, <1>4, <1>5 DEF Moves
  <2>7. CASE Continue(i, created(j))
      BY <1>1, <1>4, <2>5, <2>6, <2>7, StepEffects DEF GoesOn, SameLook
  <2>8. CASE Continue(i, Fails(r))
      BY <1>1, <2>5, <2>8, EndEffects
  <2> QED
      BY <1>8, <2>7, <2>8
<1> QED
    BY <1>2, <1>6, <1>7, <1>8

LEMMA TriggerSubsEffects ==
    ASSUME NEW i \in Insts, RecordInv, ExecShape, TriggerSubs(i)
    PROVE  Effects(i)
<1> DEFINE r == run[i]
           s == [r EXCEPT !.pc = "exec"]
           mark(js) == inst' = [j \in Insts |-> IF j \in js
                           THEN [inst[j] EXCEPT !.op = "reconcile"] ELSE inst[j]]
<1>1. r.pc = "trigger" /\ exec' = exec /\ ExecutionEffects(i)
    BY SameExecution DEF TriggerSubs, At
<1>2. \E js \in SUBSET r.refs : mark(js)
  <2> DEFINE gone == {j \in r.refs : ~inst[j].live}
  <2>1. mark(r.refs) \/ \E js \in SUBSET (r.refs \ gone) : mark(js)
      BY DEF TriggerSubs
  <2> HIDE DEF mark
  <2> QED
      BY <2>1
<1>3. ObjectEffects(i)
  <2> PICK js \in SUBSET r.refs : mark(js)
      BY <1>2
  <2>1. i \notin js \/ i \in r.refs
      OBVIOUS
  <2> QED
      BY <1>1, <2>1, OpsEffects
<1>4. Continue(i, s) \/ Continue(i, Fails(r))
    BY DEF TriggerSubs
<1>5. s.pc = "exec" /\ SameLook(r, s) /\ s.ready = r.ready
    BY RunShape DEF RunFields, SameLook
<1> HIDE DEF s
<1>6. CASE Continue(i, s)
    BY <1>1, <1>3, <1>5, <1>6, StepEffects DEF GoesOn, Moves, SameLook
<1>7. CASE Continue(i, Fails(r))
    BY <1>1, <1>3, <1>7, EndEffects
<1> QED
    BY <1>4, <1>6, <1>7

\* The execution of i is written with r as its live flag tells.
LEMMA ExecutionWritten ==
    ASSUME NEW i \in Insts, NEW e, ExecShape, exec' = [exec EXCEPT ![i] = e],
           DOMAIN e = ExecutionFields,
           e.live => exec[i].live \/ run[i].pc = "exec",
           e.live /\ e.in # exec[i].in => run[i].pc = "exec"
    PROVE  ExecutionEffects(i)
<1>1. /\ DOMAIN exec' = Insts /\ exec'[i] = e
      /\ \A k \in Insts \ {i} : exec'[k] = exec[k]
    BY DEF ExecShape
<1> QED
    BY <1>1 DEF ExecutionEffects, ExecShape

LEMMA EnsureExecutionEffects ==
    ASSUME NEW i \in Insts, RecordInv, ExecShape, EnsureExecution(i)
    PROVE  Effects(i)
<1> DEFINE r == run[i]
           s == [r EXCEPT !.l.eref = TRUE]
<1>1. r.pc = "exec" /\ Busy(r)
    BY DEF EnsureExecution, At, Busy
<1>2. /\ \/ inst' = inst
         \/ inst' = [inst EXCEPT ![i] = WithStatus(@, s.l)]
         \/ inst' = [inst EXCEPT ![i] = WithStatus(@, r.l)]
      /\ exec' = exec \/ exec' = [exec EXCEPT ![i] = Rollout(i)]
      /\ \/ Continue(i, Updated(r)) \/ Continue(i, Updated(s))
         \/ Continue(i, Fails(r)) \/ Continue(i, Fails(s))
    BY DEF EnsureExecution
<1>3. \A x \in {r, s} : DOMAIN x = RunFields /\ DOMAIN x.l = ObjectFields /\ SameLook(r, x)
    BY RunShape DEF RunFields, ObjectFields, SameLook
<1> HIDE DEF s
<1>4. ObjectEffects(i)
  <2>1. inst' = inst \/ \E o : inst' = [inst EXCEPT ![i] = WithStatus(@, o)]
      BY <1>2
  <2> QED
      BY <1>1, <2>1, QuietEffects, StatusEffects
<1>5. ExecutionEffects(i)
  <2>1. CASE exec' = exec
      BY <2>1, SameExecution
  <2>2. CASE exec' = [exec EXCEPT ![i] = Rollout(i)]
    <3> PICK e : e = Rollout(i)
        OBVIOUS
    <3>1. DOMAIN e = ExecutionFields
        BY DEF Rollout, ExecShape, NoExecution, ExecutionFields
    <3> QED
        BY <1>1, <2>2, <3>1, ExecutionWritten
  <2> QED
      BY <1>2, <2>1, <2>2
<1>6. ASSUME NEW x \in {r, s}, Continue(i, Updated(x)) PROVE Effects(i)
  <2> PICK u : u = Updated(x)
      OBVIOUS
  <2>1. u.pc \in {"finish", "dropForce", "deleteAll"} /\ SameLook(r, u)
      BY <1>3, ZenonT(40) DEF Updated, RunFields, ObjectFields, SameLook
  <2>2. Moves(i, r, u)
      BY <1>1, <2>1 DEF Moves, Inside, Removes, Constructs
  <2> QED
      BY <1>1, <1>4, <1>5, <1>6, <2>1, <2>2, StepEffects DEF GoesOn, SameLook
<1>7. ASSUME NEW x \in {r, s}, Continue(i, Fails(x)) PROVE Effects(i)
  <2> PICK u : u = Fails(x)
      OBVIOUS
  <2>1. u.pc = "finish" /\ u.l.op = r.l.op
      BY <1>3 DEF Fails, RunFields, SameLook
  <2>2. u.pc \notin Inside
      BY <2>1 DEF Inside, Removes, Constructs
  <2> QED
      BY <1>1, <1>4, <1>5, <1>7, <2>1, <2>2, OutsideEffects DEF GoesOn
<1> QED
    BY <1>2, <1>6, <1>7

LEMMA DropForceEffects ==
    ASSUME NEW i \in Insts, RecordInv, ExecShape, DropForce(i)
    PROVE  Effects(i)
<1> DEFINE r == run[i]
           o == [inst[i] EXCEPT !.op = "none"]
           To(x) == [r EXCEPT !.pc = "finish", !.l = x]
<1>1. r.pc = "dropForce" /\ exec' = exec /\ ExecutionEffects(i)
    BY SameExecution DEF DropForce, At
<1>2. \/ inst' = inst /\ (Continue(i, Fails(r)) \/ Continue(i, FailsPlain(r)))
      \/ /\ inst' = [inst EXCEPT ![i] = o]
         /\ \/ Continue(i, To(o))
            \/ Continue(i, To([o EXCEPT !.obs = o.gen, !.phase = "Progressing"]))
    BY DEF DropForce
<1>3. CASE inst' = inst /\ (Continue(i, Fails(r)) \/ Continue(i, FailsPlain(r)))
    BY <1>1, <1>3, QuietEffects, EndEffects
<1>4. ASSUME NEW x \in {o, [o EXCEPT !.obs = o.gen, !.phase = "Progressing"]},
             inst' = [inst EXCEPT ![i] = o], Continue(i, To(x))
      PROVE  Effects(i)
  <2>1. inst' = [j \in Insts |-> IF j \in {i} THEN [inst[j] EXCEPT !.op = "none"]
                                 ELSE inst[j]]
      BY <1>4 DEF RecordInv, ShapeInv
  <2>2. ObjectEffects(i)
      BY <1>1, <2>1, OpsEffects
  <2>3. To(x).pc = "finish" /\ To(x).l.op = "none"
      BY RunShape, ZenonT(40) DEF RunFields, ObjectFields
  <2> HIDE DEF To, o
  <2> QED
      BY <1>1, <1>4, <2>2, <2>3, OutsideEffects DEF GoesOn, Inside, Removes, Constructs
<1> QED
    BY <1>2, <1>3, <1>4

LEMMA WriteExportsEffects ==
    ASSUME NEW i \in Insts, RecordInv, ExecShape, WriteExports(i)
    PROVE  Effects(i)
<1> DEFINE r == run[i]
           s == [r EXCEPT !.pc = "publish"]
<1>1. r.pc = "exports" /\ inst' = inst /\ exec' = exec
    BY DEF WriteExports, At
<1>2. ObjectEffects(i) /\ ExecutionEffects(i)
    BY <1>1, QuietEffects, SameExecution
<1>3. Continue(i, s) \/ Continue(i, Fails(r)) \/ Return(i, TRUE)
    BY DEF WriteExports
<1>4. s.pc = "publish" /\ s.l.op = r.l.op
    BY RunShape DEF RunFields
<1> HIDE DEF s
<1>5. CASE Continue(i, s)
    BY <1>1, <1>2, <1>4, <1>5, OutsideEffects DEF GoesOn, Inside, Removes, Constructs
<1>6. CASE Continue(i, Fails(r)) \/ Return(i, TRUE)
    BY <1>1, <1>2, <1>6, EndEffects
<1> QED
    BY <1>3, <1>5, <1>6

LEMMA PublishEffects ==
    ASSUME NEW i \in Insts, RecordInv, ExecShape, Publish(i)
    PROVE  Effects(i)
<1> DEFINE r == run[i]
           o == [r.l EXCEPT !.conf = ConfigGeneration(r.l)]
           complete == [r EXCEPT !.l = [o EXCEPT !.phase = "Succeeded"],
                                 !.pc = "dependants"]
           goOn == [r EXCEPT !.l = o, !.pc = "rephase"]
           failed == Fails([r EXCEPT !.l = o])
<1>1. /\ r.pc = "publish" /\ exec' = exec /\ Busy(r) /\ ExecutionEffects(i)
      /\ inst' = inst \/ inst' = [inst EXCEPT ![i] = WithStatus(@, o)]
    BY SameExecution DEF Publish, At, Busy
<1>2. \/ Continue(i, complete) \/ Continue(i, goOn) \/ Continue(i, failed)
      \/ Return(i, TRUE)
    BY DEF Publish
<1>3. \A x \in {complete, goOn, failed} :
         x.pc \in {"dependants", "rephase", "finish"} /\ x.l.op = r.l.op
  <2>1. o.op = r.l.op /\ DOMAIN o = ObjectFields
      BY RunShape DEF ObjectFields
  <2> HIDE DEF o
  <2>2. complete.pc = "dependants" /\ complete.l.op = r.l.op
      BY <2>1, RunShape DEF RunFields, ObjectFields
  <2>3. goOn.pc = "rephase" /\ goOn.l.op = r.l.op
      BY <2>1, RunShape DEF RunFields
  <2>4. failed.pc = "finish" /\ failed.l.op = r.l.op
      BY <2>1, RunShape DEF RunFields, Fails
  <2> QED
      BY <2>2, <2>3, <2>4
<1> HIDE DEF o, complete, goOn, failed
<1>4. ObjectEffects(i)
    BY <1>1, QuietEffects, StatusEffects
<1>5. ASSUME NEW x \in {complete, goOn, failed}, Continue(i, x) PROVE Effects(i)
    BY <1>1, <1>3, <1>4, <1>5, OutsideEffects DEF GoesOn, Inside, Removes, Constructs
<1>6. CASE Return(i, TRUE)
    BY <1>1, <1>4, <1>6, EndEffects
<1> QED
    BY <1>2, <1>5, <1>6

LEMMA TriggerDependantsEffects ==
    ASSUME NEW i \in Insts, RecordInv, ExecShape, TriggerDependants(i)
    PROVE  Effects(i)
<1> DEFINE r == run[i]
           s == [r EXCEPT !.pc = "finish"]
           mark(js) == inst' = [j \in Insts |-> IF j \in js
                           THEN [inst[j] EXCEPT !.op = "reconcile"] ELSE inst[j]]
<1>1. r.pc = "dependants" /\ exec' = exec /\ ExecutionEffects(i)
    BY SameExecution DEF TriggerDependants, At
<1>2. \E js \in SUBSET r.refs : mark(js)
  <2>1. mark(r.refs) \/ \E js \in SUBSET (r.refs \cap fresh[i]) : mark(js)
      BY DEF TriggerDependants
  <2> HIDE DEF mark
  <2> QED
      BY <2>1
<1>3. ObjectEffects(i)
  <2> PICK js \in SUBSET r.refs : mark(js)
      BY <1>2
  <2>1. i \notin js \/ i \in r.refs
      OBVIOUS
  <2> QED
      BY <1>1, <2>1, OpsEffects
<1>4. Continue(i, s) \/ Continue(i, Fails(r)) \/ \E failed : Return(i, failed)
    BY DEF TriggerDependants
<1>5. s.pc = "finish" /\ s.l.op = r.l.op
    BY RunShape DEF RunFields
<1> HIDE DEF s
<1>6. CASE Continue(i, s)
    BY <1>1, <1>3, <1>5, <1>6, OutsideEffects DEF GoesOn, Inside, Removes, Constructs
<1>7. CASE Continue(i, Fails(r)) \/ \E failed : Return(i, failed)
    BY <1>1, <1>3, <1>7, EndEffects
<1> QED
    BY <1>4, <1>6, <1>7

LEMMA RecheckEffects ==
    ASSUME NEW i \in Insts, RecordInv, ExecShape, Recheck(i)
    PROVE  Effects(i)
<1> DEFINE r == run[i]
           s(p, m) == [r EXCEPT !.mode = m, !.refs = Importers(i), !.pc = p]
<1>1. r.pc = "recheck" /\ inst' = inst /\ exec' = exec
    BY DEF Recheck, At
<1>2. ObjectEffects(i) /\ ExecutionEffects(i)
    BY <1>1, QuietEffects, SameExecution
<1>3. \/ \E failed : Return(i, failed)
      \/ \E p \in {"exports", "rephase"} : \E m : ReadContext(i, s(p, m))
    BY DEF Recheck
<1>4. \A p, m : s(p, m).pc = p /\ s(p, m).l.op = r.l.op
    BY RunShape DEF RunFields
<1> HIDE DEF s
<1>5. CASE \E failed : Return(i, failed)
    BY <1>1, <1>2, <1>5, EndEffects
<1>6. ASSUME NEW p \in {"exports", "rephase"}, NEW m, ReadContext(i, s(p, m))
      PROVE  Effects(i)
  <2> PICK u : u = s(p, m)
      OBVIOUS
  <2>1. u.pc \notin Inside /\ u.l.op = r.l.op
      BY <1>4 DEF Inside, Removes, Constructs
  <2>2. GoesOn(i, u)
      BY <1>1, <1>6 DEF GoesOn
  <2> QED
      BY <1>1, <1>2, <2>1, <2>2, OutsideEffects
<1> QED
    BY <1>3, <1>5, <1>6

LEMMA RephaseEffects ==
    ASSUME NEW i \in Insts, RecordInv, ExecShape, Rephase(i)
    PROVE  Effects(i)
<1> DEFINE r == run[i]
           o == [r.l EXCEPT !.phase = r.mode]
           s == [r EXCEPT !.pc = "dependants", !.l = o]
<1>1. /\ r.pc = "rephase" /\ exec' = exec /\ Busy(r) /\ ExecutionEffects(i)
      /\ inst' = inst \/ inst' = [inst EXCEPT ![i] = WithStatus(@, o)]
    BY SameExecution DEF Rephase, At, Busy
<1>2. Continue(i, s) \/ \E failed : Return(i, failed)
    BY DEF Rephase
<1>3. s.pc = "dependants" /\ s.l.op = r.l.op
    BY RunShape DEF RunFields, ObjectFields
<1> HIDE DEF o, s
<1>4. ObjectEffects(i)
    BY <1>1, QuietEffects, StatusEffects
<1>5. CASE Continue(i, s)
    BY <1>1, <1>3, <1>4, <1>5, OutsideEffects DEF GoesOn, Inside, Removes, Constructs
<1>6. CASE \E failed : Return(i, failed)
    BY <1>1, <1>4, <1>6, EndEffects
<1> QED
    BY <1>2, <1>5, <1>6

LEMMA DeleteEffects ==
    ASSUME NEW i \in Insts, RecordInv, ExecShape, Delete(i)
    PROVE  Effects(i)
<1> DEFINE r == run[i]
           update(p) == [r EXCEPT !.pc = "values", !.mode = "delete",
                           !.ready = ContextReady(i), !.l.phase = p]
           waiting == [r EXCEPT !.pc = "finish", !.l.phase = "Deleting"]
           To(p) == [r EXCEPT !.pc = p]
<1>1. r.pc = "delete" /\ inst' = inst /\ exec' = exec
    BY DEF Delete, At
<1>2. ObjectEffects(i) /\ ExecutionEffects(i)
    BY <1>1, QuietEffects, SameExecution
<1>3. \/ Continue(i, Fails(r)) \/ Continue(i, waiting)
      \/ (r.l.op = "force" \/ ~Imported(i)) /\ \E p : ReadContext(i, update(p))
      \/ ~Imported(i) /\ \E p \in {"removeFinalizer", "deleteAll"} : Continue(i, To(p))
  <2>1. [r EXCEPT !.pc = "values", !.mode = "delete", !.ready = ContextReady(i),
                  !.l.phase = IF r.l.op = "force" THEN @ ELSE "Pending"]
        = update(IF r.l.op = "force" THEN r.l.phase ELSE "Pending")
      OBVIOUS
  <2> HIDE DEF update
  <2> QED
      BY <2>1 DEF Delete
<1>4. waiting.pc = "finish" /\ waiting.l.op = r.l.op
    BY RunShape DEF RunFields, ObjectFields
<1>5. \A p : /\ update(p).pc = "values" /\ SameLook(r, update(p))
             /\ update(p).ready = ContextReady(i)
    BY RunShape DEF RunFields, ObjectFields, SameLook
<1>6. \A p : To(p).pc = p /\ SameLook(r, To(p))
    BY RunShape DEF RunFields, SameLook
<1> HIDE DEF waiting, update, To
<1>7. CASE Continue(i, Fails(r))
    BY <1>1, <1>2, <1>7, EndEffects
<1>8. CASE Continue(i, waiting)
    BY <1>1, <1>2, <1>4, <1>8, OutsideEffects DEF GoesOn, Inside, Removes, Constructs
<1>9. ASSUME NEW s, ReadContext(i, s), s.pc = "values", SameLook(r, s),
             s.ready = ContextReady(i), r.l.op = "force" \/ ~Imported(i)
      PROVE  Effects(i)
    BY <1>1, <1>2, <1>9, StepEffects DEF GoesOn, Moves, SameLook
<1>10. ASSUME NEW s, Continue(i, s), s.pc \in {"removeFinalizer", "deleteAll"},
              SameLook(r, s), ~Imported(i)
       PROVE  Effects(i)
    BY <1>1, <1>2, <1>10, StepEffects DEF GoesOn, Moves, SameLook
<1> QED
    BY <1>3, <1>5, <1>6, <1>7, <1>8, <1>9, <1>10

LEMMA DeleteAllEffects ==
    ASSUME NEW i \in Insts, RecordInv, ExecShape, DeleteAll(i)
    PROVE  Effects(i)
<1> DEFINE r == run[i]
           e == exec[i]
           s == [r EXCEPT !.l.phase = "Deleting"]
           To(p) == [s EXCEPT !.pc = p]
           marked == [e EXCEPT !.del = TRUE, !.gen = @ + 1]
           forced == [e EXCEPT !.op = "force"]
<1>1. r.pc = "deleteAll"
    BY DEF DeleteAll, At
<1>2. ObjectEffects(i)
  <2>1. \E js \in SUBSET Children(i) :
           /\ \A k \in js : inst'[k] = Deleted(inst[k])
           /\ \A k \in Insts \ js : inst'[k] = inst[k]
      BY DeletedChildren
  <2> QED
      BY <1>1, <2>1, DeletionEffects
<1>3. ExecutionEffects(i)
  <2>1. \/ exec' = exec
        \/ exec' = [exec EXCEPT ![i].del = TRUE, ![i].gen = @ + 1]
        \/ exec' = [exec EXCEPT ![i].op = "force"]
      BY DEF DeleteAll
  <2>2. \/ exec' = exec \/ exec' = [exec EXCEPT ![i] = marked]
        \/ exec' = [exec EXCEPT ![i] = forced]
      BY <2>1 DEF ExecShape
  <2>3. /\ DOMAIN marked = ExecutionFields /\ marked.live = e.live /\ marked.in = e.in
        /\ DOMAIN forced = ExecutionFields /\ forced.live = e.live /\ forced.in = e.in
      BY DEF ExecShape, ExecutionFields
  <2> HIDE DEF marked, forced
  <2> QED
      BY <2>2, <2>3, SameExecution, ExecutionWritten
<1>4. \/ Continue(i, Fails(s)) \/ Continue(i, To("dropForce"))
      \/ Continue(i, To("finish")) \/ Continue(i, To("removeFinalizer"))
    BY DEF DeleteAll
<1>5. DOMAIN s = RunFields /\ SameLook(r, s)
    BY RunShape DEF RunFields, ObjectFields, SameLook
<1> HIDE DEF s
<1>6. /\ \A p : To(p).pc = p /\ SameLook(r, To(p))
      /\ Fails(s).pc = "finish" /\ SameLook(r, Fails(s))
    BY <1>5 DEF RunFields, SameLook, Fails
<1> HIDE DEF To
<1>7. PICK u : /\ Continue(i, u) /\ SameLook(r, u)
               /\ u.pc \in {"finish", "dropForce", "removeFinalizer"}
  <2> HIDE DEF Fails
  <2> QED
      BY <1>4, <1>6
<1>8. Moves(i, r, u)
    BY <1>1, <1>7 DEF Moves, Inside, Removes, Constructs
<1> QED
    BY <1>1, <1>2, <1>3, <1>7, <1>8, StepEffects DEF GoesOn, SameLook

LEMMA RemoveFinalizerEffects ==
    ASSUME NEW i \in Insts, RecordInv, ExecShape, RemoveFinalizer(i)
    PROVE  Effects(i)
<1>1. run[i].pc = "removeFinalizer" /\ exec' = exec /\ ExecutionEffects(i)
    BY SameExecution DEF RemoveFinalizer, At
<1>2. CASE inst' = inst /\ Continue(i, FailsPlain(run[i]))
    BY <1>1, <1>2, QuietEffects, EndEffects
<1>3. CASE /\ i \in fresh[i] /\ inst' = [inst EXCEPT ![i] = NoInstallation]
           /\ Return(i, FALSE)
  <2>1. /\ \A k \in Insts \ {i} : inst'[k] = inst[k]
        /\ inst'[i] = NoInstallation /\ NoInstallation.op = "none"
      BY <1>3 DEF RecordInv, ShapeInv, NoInstallation
  <2>2. Children(i) \subseteq Insts /\ i \notin Children(i)
      BY Forest DEF Inner
  <2> HIDE DEF NoInstallation
  <2>3. ObjectEffects(i)
      BY <1>1, <1>3, <2>1, <2>2 DEF ObjectEffects, OwnEffects, Marked, SameSpec
  <2> QED
      BY <1>1, <1>3, <2>3, EndEffects
<1> QED
    BY <1>2, <1>3 DEF RemoveFinalizer

LEMMA RunStepEffects ==
    ASSUME NEW i \in Insts, RecordInv, ExecShape, Step(i)
    PROVE  Effects(i)
BY AddFinalizerEffects, DropReconcileEffects, FinishEffects, CheckChildrenEffects,
       InitPrerequisitesEffects, CheckEligibleEffects,
   ReadValuesEffects, WriteImportsEffects, EnsureSubsEffects, CreateSubEffects,
   TriggerSubsEffects, EnsureExecutionEffects, DropForceEffects,
   WriteExportsEffects, PublishEffects, TriggerDependantsEffects, RecheckEffects,
   RephaseEffects, DeleteEffects, DeleteAllEffects, RemoveFinalizerEffects DEF Step

-----------------------------------------------------------------------------
(* The steps of the environment.                                           *)

\* What the users and the data do to the installation k.
Touched(k) ==
    \/ /\ inst'[k].live = inst[k].live /\ inst'[k].fin = inst[k].fin
       /\ inst'[k].phase = inst[k].phase
       /\ k \in Inner => inst'[k].del = inst[k].del
    \/ /\ k \in Roots /\ inst[k].live /\ ~inst[k].fin
       /\ inst'[k] = NoInstallation

OutsideChange ==
    /\ run' = run /\ \A k \in Insts : StaysOutdated(k)
    /\ \A k \in Insts : Touched(k)
    /\ "force" \notin Events =>
          \A k \in Insts : inst'[k].op = inst[k].op \/ inst'[k].op # "force"
    /\ ExecShape'
    /\ \A k \in Insts : exec'[k].live => exec[k].live /\ exec'[k].in = exec[k].in

LEMMA OthersLeave ==
    ASSUME Others
    PROVE  run' = run /\ \A k \in Insts : StaysOutdated(k)
BY ForestAssumption DEF Others, Outdate, StaysOutdated

\* One installation becomes o.
LEMMA InstallationChange ==
    ASSUME NEW i \in Insts, NEW o, RecordInv, ExecShape, SetInstallation(i, o),
           inst'[i] = o => Touched(i),
           "force" \in Events \/ o.op # "force" \/ o.op = inst[i].op
    PROVE  OutsideChange
<1>1. /\ inst'[i] = o /\ \A k \in Insts \ {i} : inst'[k] = inst[k]
      /\ exec' = exec
    BY DEF SetInstallation, RecordInv, ShapeInv
<1>2. run' = run /\ \A k \in Insts : StaysOutdated(k)
    BY OthersLeave DEF SetInstallation
<1>3. \A k \in Insts \ {i} : Touched(k)
    BY <1>1 DEF Touched
<1> QED
    BY <1>1, <1>2, <1>3 DEF OutsideChange, ExecShape

LEMMA ExecutionChange ==
    ASSUME NEW i \in Insts, NEW e, RecordInv, ExecShape, SetExecution(i, e),
           DOMAIN e = ExecutionFields,
           e.live => exec[i].live /\ e.in = exec[i].in
    PROVE  OutsideChange
<1>1. /\ DOMAIN exec' = Insts /\ exec'[i] = e
      /\ \A k \in Insts \ {i} : exec'[k] = exec[k]
      /\ inst' = inst
    BY DEF SetExecution, ExecShape
<1>2. run' = run /\ \A k \in Insts : StaysOutdated(k)
    BY OthersLeave DEF SetExecution
<1>3. \A k \in Insts : Touched(k)
    BY <1>1 DEF Touched
<1> QED
    BY <1>1, <1>2, <1>3 DEF OutsideChange, ExecShape

LEMMA ExecutionMovesOn ==
    ASSUME NEW i \in Insts, RecordInv, ExecShape, ExecutionStep(i) \/ Drift(i)
    PROVE  OutsideChange
<1> DEFINE started(p) == [exec[i] EXCEPT !.obs = exec[i].gen, !.op = "none", !.phase = p]
           succeeded == [exec[i] EXCEPT !.phase = "Succeeded", !.out = exec[i].in]
           moved(p) == [exec[i] EXCEPT !.phase = p]
<1>1. DOMAIN exec[i] = ExecutionFields
    BY DEF ExecShape
<1>2. \/ \E p : SetExecution(i, started(p))
      \/ SetExecution(i, succeeded)
      \/ \E p : SetExecution(i, moved(p))
      \/ SetExecution(i, NoExecution)
    BY DEF ExecutionStep, Drift, StartExecution, EndExecution, EndDeletion
<1>3. /\ \A p : /\ DOMAIN started(p) = ExecutionFields
                /\ started(p).live = exec[i].live /\ started(p).in = exec[i].in
                /\ DOMAIN moved(p) = ExecutionFields
                /\ moved(p).live = exec[i].live /\ moved(p).in = exec[i].in
      /\ DOMAIN succeeded = ExecutionFields
      /\ succeeded.live = exec[i].live /\ succeeded.in = exec[i].in
    BY <1>1 DEF ExecutionFields
<1>4. DOMAIN NoExecution = ExecutionFields /\ ~NoExecution.live
    BY DEF NoExecution, ExecutionFields
<1> HIDE DEF started, succeeded, moved, NoExecution
<1> QED
    BY <1>2, <1>3, <1>4, ExecutionChange

LEMMA GarbageChange ==
    ASSUME NEW i \in Insts, RecordInv, ExecShape, CollectGarbage(i)
    PROVE  OutsideChange
<1>1. inst' = inst /\ exec' = exec /\ Others
    BY DEF CollectGarbage
<1> QED
    BY <1>1, OthersLeave DEF OutsideChange, Touched, ExecShape

LEMMA UserChange ==
    ASSUME NEW i \in Insts, RecordInv, ExecShape,
           \/ i \in Roots /\ (Alter(i) \/ DeleteInstallation(i))
           \/ \E j \in Children(i) : i \in Roots /\ Drop(i, j)
           \/ \E op \in Ops \ {"none"} : SetOperation(i, op)
    PROVE  OutsideChange
<1>1. DOMAIN inst[i] = ObjectFields
    BY RunShape
<1>2. CASE i \in Roots /\ Alter(i)
  <2> DEFINE o == [inst[i] EXCEPT !.spec.version = @ + 1, !.gen = @ + 1]
  <2>1. SetInstallation(i, o) /\ i \notin Inner
      BY <1>2 DEF Alter, Inner
  <2>2. /\ o.live = inst[i].live /\ o.fin = inst[i].fin /\ o.phase = inst[i].phase
        /\ o.op = inst[i].op
      BY <1>1 DEF ObjectFields
  <2> HIDE DEF o
  <2> QED
      BY <2>1, <2>2, InstallationChange DEF Touched
<1>3. ASSUME NEW j, i \in Roots, Drop(i, j) PROVE OutsideChange
  <2> DEFINE o == [inst[i] EXCEPT !.spec.subs = @ \ {j}, !.gen = @ + 1]
  <2>1. SetInstallation(i, o) /\ i \notin Inner
      BY <1>3 DEF Drop, Inner
  <2>2. /\ o.live = inst[i].live /\ o.fin = inst[i].fin /\ o.phase = inst[i].phase
        /\ o.op = inst[i].op
      BY <1>1 DEF ObjectFields
  <2> HIDE DEF o
  <2> QED
      BY <2>1, <2>2, InstallationChange DEF Touched
<1>4. CASE i \in Roots /\ DeleteInstallation(i)
  <2>1. SetInstallation(i, Deleted(inst[i])) /\ i \notin Inner /\ inst[i].live /\ ~inst[i].del
      BY <1>4 DEF DeleteInstallation, Inner
  <2>2. CASE ~inst[i].fin
    <3>1. Deleted(inst[i]) = NoInstallation /\ NoInstallation.op = "none"
        BY <2>2 DEF Deleted, NoInstallation
    <3> HIDE DEF NoInstallation
    <3> QED
        BY <1>4, <2>1, <2>2, <3>1, InstallationChange DEF Touched
  <2>3. CASE inst[i].fin
    <3> DEFINE o == [inst[i] EXCEPT !.del = TRUE, !.gen = @ + 1]
    <3>1. Deleted(inst[i]) = o
        BY <2>1, <2>3 DEF Deleted
    <3>2. /\ o.live = inst[i].live /\ o.fin = inst[i].fin /\ o.phase = inst[i].phase
          /\ o.op = inst[i].op
        BY <1>1 DEF ObjectFields
    <3> HIDE DEF o
    <3> QED
        BY <2>1, <3>1, <3>2, InstallationChange DEF Touched
  <2> QED
      BY <2>2, <2>3 DEF RecordInv, ShapeInv, IsObject
<1>5. ASSUME NEW op, SetOperation(i, op) PROVE OutsideChange
  <2> DEFINE o == [inst[i] EXCEPT !.op = op]
  <2>1. SetInstallation(i, o) /\ op \in Events
      BY <1>5 DEF SetOperation, Spend
  <2>2. /\ o.live = inst[i].live /\ o.fin = inst[i].fin /\ o.phase = inst[i].phase
        /\ o.op = op /\ o.del = inst[i].del
      BY <1>1 DEF ObjectFields
  <2> HIDE DEF o
  <2> QED
      BY <2>1, <2>2, InstallationChange DEF Touched
<1> QED
    BY <1>2, <1>3, <1>4, <1>5

LEMMA DataChange ==
    ASSUME NEW k \in Keys, RecordInv, ExecShape, ChangeData(k)
    PROVE  OutsideChange
<1>1. ASSUME NEW i \in Insts PROVE Touched(i) /\ inst'[i].op \in {inst[i].op, "reconcile"}
  <2> DEFINE o == [inst[i] EXCEPT !.op = "reconcile"]
  <2>1. inst'[i] = inst[i] \/ inst'[i] = o
      BY DEF ChangeData
  <2>2. /\ o.live = inst[i].live /\ o.fin = inst[i].fin /\ o.phase = inst[i].phase
        /\ o.op = "reconcile" /\ o.del = inst[i].del
      BY RunShape DEF ObjectFields
  <2> HIDE DEF o
  <2> QED
      BY <2>1, <2>2 DEF Touched
<1>2. exec' = exec /\ Others
    BY DEF ChangeData
<1> QED
    BY <1>1, <1>2, OthersLeave DEF OutsideChange, ExecShape

\* All steps, by what they do to the objects.
LEMMA StepKinds ==
    ASSUME RecordInv, ExecShape, [Next]_vars
    PROVE  \/ \E i \in Insts : Get(i) \/ Effects(i)
           \/ OutsideChange \/ Crash \/ UNCHANGED vars
<1>1. ASSUME NEW i \in Insts, Step(i) PROVE Effects(i)
    BY <1>1, RunStepEffects
<1>2. ASSUME NEW i \in Insts,
             ExecutionStep(i) \/ CollectGarbage(i) \/ Environment(i)
      PROVE  OutsideChange
    BY <1>2, ExecutionMovesOn, GarbageChange, UserChange DEF Environment
<1>3. ASSUME NEW k \in Keys, ChangeData(k) PROVE OutsideChange
    BY <1>3, DataChange
<1> QED
    BY <1>1, <1>2, <1>3 DEF Next

-----------------------------------------------------------------------------
(* A phase is shown by what exists and is protected.                       *)

Shown(i) == inst[i].phase # NoPhase => inst[i].live /\ inst[i].fin
ShownInv == ExecShape /\ \A i \in Insts : Shown(i)

\* What Deleted makes of the installation k.
LEMMA DeletedChild ==
    ASSUME NEW k \in Insts, RecordInv, inst'[k] = Deleted(inst[k])
    PROVE  \/ inst'[k] = NoInstallation /\ ~(inst[k].live /\ inst[k].fin)
           \/ /\ inst'[k].live = inst[k].live /\ inst'[k].fin = inst[k].fin
              /\ inst'[k].phase = inst[k].phase
<1>1. [inst[k] EXCEPT !.del = TRUE, !.gen = @ + 1].live = inst[k].live
    BY RunShape DEF ObjectFields
<1>2. [inst[k] EXCEPT !.del = TRUE, !.gen = @ + 1].fin = inst[k].fin
    BY RunShape DEF ObjectFields
<1>3. [inst[k] EXCEPT !.del = TRUE, !.gen = @ + 1].phase = inst[k].phase
    BY RunShape DEF ObjectFields
<1> HIDE DEF NoInstallation
<1> QED
    BY <1>1, <1>2, <1>3 DEF Deleted

\* What a step of the run of i does to an installation.
BecomesOf(i, k) ==
    \/ Marked(k)
    \/ k = i /\ OwnEffects(i)
    \/ /\ k \in Children(i) /\ run[i].pc # "subs"
       /\ \/ inst'[k] = NoInstallation /\ ~(inst[k].live /\ inst[k].fin)
          \/ /\ inst'[k].live = inst[k].live /\ inst'[k].fin = inst[k].fin
             /\ inst'[k].phase = inst[k].phase
    \/ k \in Children(i) /\ run[i].pc = "subs" /\ Applied(k)

LEMMA Becomes ==
    ASSUME NEW i \in Insts, NEW k \in Insts, RecordInv, Effects(i)
    PROVE  BecomesOf(i, k)
BY DeletedChild DEF Effects, ObjectEffects, BecomesOf

LEMMA ShownStep ==
    ASSUME NEW i \in Insts, RecordInv, ShownInv, Effects(i)
    PROVE  ShownInv'
<1>1. ASSUME NEW k \in Insts PROVE Shown(k)'
  <2>1. Shown(k) /\ BecomesOf(i, k)
      BY Becomes DEF ShownInv
  <2>2. NoInstallation.phase = NoPhase
      BY DEF NoInstallation
  <2>3. Busy(run[i]) => inst[i].live /\ inst[i].fin
      BY DEF RecordInv, RunRecord, Follows
  <2> HIDE DEF NoInstallation
  <2>4. CASE k = i /\ OwnEffects(i)
      BY <2>1, <2>2, <2>3, <2>4 DEF OwnEffects, Shown
  <2>5. CASE Marked(k)
      BY <2>1, <2>5 DEF Marked, SameSpec, Shown
  <2>6. CASE Applied(k)
      BY <2>1, <2>6 DEF Applied, Shown
  <2> QED
      BY <2>1, <2>2, <2>4, <2>5, <2>6 DEF BecomesOf, Shown
<1> QED
    BY <1>1 DEF ShownInv, Effects, ExecutionEffects

LEMMA ShownNext ==
    ASSUME RecordInv, ShownInv, [Next]_vars
    PROVE  ShownInv'
<1>1. ASSUME NEW i \in Insts, Effects(i) PROVE ShownInv'
    BY <1>1, ShownStep
<1>2. ASSUME OutsideChange PROVE ShownInv'
  <2>1. NoInstallation.phase = NoPhase
      BY DEF NoInstallation
  <2> HIDE DEF NoInstallation
  <2> QED
      BY <1>2, <2>1 DEF OutsideChange, ShownInv, Shown, Touched
<1>3. ASSUME UNCHANGED <<inst, exec>> PROVE ShownInv'
    BY <1>3 DEF ShownInv, Shown, ExecShape
<1> QED
    BY <1>1, <1>2, <1>3, StepKinds DEF ShownInv, Get, Crash, vars

LEMMA ShownInit ==
    ASSUME Init
    PROVE  ShownInv
<1>1. ASSUME NEW i \in Insts PROVE Shown(i)
    BY DEF Init, NewInstallation, NoInstallation, Shown
<1>2. ExecShape
    BY DEF Init, ExecShape, NoExecution, ExecutionFields
<1> QED
    BY <1>1, <1>2 DEF ShownInv

-----------------------------------------------------------------------------
(* Where the imports come from.                                            *)

LEMMA SourceOfKey ==
    ASSUME NEW i \in Insts, NEW k \in Imports[i], Source(i, k) \in Siblings(i)
    PROVE  k \in Exports[Source(i, k)]
<1> DEFINE c == Parent[i]
<1>1. c # Root => c \in Insts /\ i \in Children(c)
    BY ForestAssumption DEF Children
<1>2. Parent[c] # c \/ c = Root
    BY <1>1, Forest DEF Children
<1>3. Source(i, k) # c /\ Source(i, k) # Root
    BY <1>1, <1>2, ForestAssumption DEF Siblings
<1>4. /\ Source(i, k) = CHOOSE j \in Children(c) : k \in Exports[j]
      /\ \E j \in Children(c) : k \in Exports[j]
    BY <1>3 DEF Source, Owner
<1> QED
    BY <1>4

\* A sibling that imports a key of i has i among its sources.
Users(i) == {j \in Siblings(i) : (Exports[i] \ Targets) \cap Imports[j] # {}}

LEMMA UserSource ==
    ASSUME NEW i \in Insts, NEW j \in Users(i)
    PROVE  j \in Insts /\ j # i /\ Parent[j] = Parent[i] /\ i \in SiblingSources(j)
<1>1. j \in Insts /\ j # i /\ Parent[j] = Parent[i]
    BY DEF Users, Siblings
<1>2. PICK k : k \in Exports[i] /\ k \in Imports[j]
    BY DEF Users
<1> DEFINE c == Parent[i]
<1>3. i \in Children(c)
    BY DEF Children
<1>4. ~(c # Root /\ k \in Imports[c])
    BY <1>2, DataFlowAssumption DEF Roots
<1>5. Source(j, k) = CHOOSE x \in Children(c) : k \in Exports[x]
    BY <1>1, <1>2, <1>3, <1>4 DEF Source, Owner
<1>6. Source(j, k) \in Children(c) /\ k \in Exports[Source(j, k)]
    BY <1>2, <1>3, <1>5
<1>7. Source(j, k) = i
  <2>1. ASSUME Source(j, k) # i PROVE FALSE
    <3>1. Source(j, k) \in Siblings(i)
        BY <1>6, <2>1 DEF Children, Siblings
    <3> QED
        BY <1>2, <1>6, <3>1, DataFlowAssumption
  <2> QED
      BY <2>1
<1>8. k \in Imports[j] /\ i \in Siblings(j)
    BY <1>1, <1>2 DEF Siblings
<1> QED
    BY <1>1, <1>7, <1>8 DEF SiblingSources

\* What is upstream of i is a source of i or upstream of one; it is another
\* installation of the same context.
LEMMA UpstreamSteps ==
    ASSUME NEW i \in Insts, NEW x \in Upstream(i)
    PROVE  \/ x \in SiblingSources(i)
           \/ \E j \in SiblingSources(i) : x \in Upstream(j)
<1> DEFINE next == [j \in Insts |-> SiblingSources(j)]
           S == SiblingSources(i) \cup UNION {Upstream(j) : j \in SiblingSources(i)}
<1>1. \A j \in Insts : /\ next[j] = SiblingSources(j) /\ next[j] \subseteq Insts
                       /\ Upstream(j) = {y \in Insts : \A T \in Closed(next, j) : y \in T}
    BY DEF Upstream, Sources, Reached, SiblingSources, Siblings
<1> HIDE DEF next
<1>2. S \subseteq Insts
    BY <1>1
<1>3. ASSUME NEW y \in S PROVE next[y] \subseteq S
  <2>1. CASE y \in SiblingSources(i)
    <3>1. ASSUME NEW z \in next[y] PROVE z \in Upstream(y)
      <4>1. y \in Insts /\ z \in Insts
          BY <1>2, <3>1, <1>1
      <4>2. \A T \in Closed(next, y) : z \in T
          BY DEF Closed
      <4> QED
          BY <1>1, <4>1, <4>2
    <3> QED
        BY <2>1, <3>1
  <2>2. ASSUME NEW j \in SiblingSources(i), y \in Upstream(j) PROVE next[y] \subseteq Upstream(j)
    <3>1. j \in Insts
        BY <1>1, <2>2
    <3>2. \A T \in Closed(next, j) : next[y] \subseteq T
        BY <1>1, <2>2, <3>1 DEF Closed
    <3>3. y \in Insts
        BY <1>2
    <3> QED
        BY <1>1, <3>1, <3>2, <3>3
  <2> QED
      BY <2>1, <2>2
<1>4. S \in Closed(next, i)
    BY <1>1, <1>2, <1>3 DEF Closed
<1>5. x \in S
    BY <1>1, <1>4
<1> QED
    BY <1>5

LEMMA UpstreamSiblings ==
    ASSUME NEW i \in Insts, NEW x \in Upstream(i)
    PROVE  x \in Insts /\ x # i /\ Parent[x] = Parent[i]
<1> DEFINE next == [j \in Insts |-> SiblingSources(j)]
<1> PICK rank \in [Insts -> 1..Cardinality(Insts)] :
          \A a \in Insts : \A b \in Siblings(a) \cup {a} :
              Exports[a] \cap Imports[b] # {} => rank[a] < rank[b]
    BY DataFlowAssumption
<1> DEFINE S == {y \in Siblings(i) : rank[y] < rank[i]}
<1>1. \A j \in Insts : rank[j] \in 1..Cardinality(Insts)
    OBVIOUS
<1>2. \A j \in Insts : rank[j] \in Int
    BY <1>1
<1>3. ASSUME NEW b \in Insts, NEW a \in SiblingSources(b)
      PROVE  a \in Insts /\ a # b /\ Parent[a] = Parent[b] /\ rank[a] < rank[b]
  <2>1. PICK k \in Imports[b] : a = Source(b, k)
      BY DEF SiblingSources
  <2>2. a \in Siblings(b)
      BY DEF SiblingSources
  <2>3. k \in Exports[a]
      BY <2>1, <2>2, SourceOfKey
  <2>4. a \in Insts /\ a # b /\ Parent[a] = Parent[b] /\ b \in Siblings(a)
      BY <2>2 DEF Siblings
  <2> QED
      BY <2>1, <2>3, <2>4
<1>4. \A j \in Insts : next[j] = SiblingSources(j)
    OBVIOUS
<1>5. Upstream(i) = {y \in Insts : \A T \in Closed(next, i) : y \in T}
    BY DEF Upstream, Sources, Reached
<1> HIDE DEF next
<1>6. S \subseteq Insts
    BY DEF Siblings
<1>7. next[i] \subseteq S
    BY <1>3, <1>4 DEF Siblings
<1>8. ASSUME NEW y \in S, NEW z \in next[y] PROVE z \in S
  <2>1. y \in Insts /\ Parent[y] = Parent[i] /\ rank[y] < rank[i]
      BY DEF Siblings
  <2>2. z \in Insts /\ Parent[z] = Parent[y] /\ rank[z] < rank[y]
      BY <1>3, <1>4, <2>1
  <2> QED
      BY <1>2, <2>1, <2>2 DEF Siblings
<1>9. S \in Closed(next, i)
    BY <1>6, <1>7, <1>8 DEF Closed
<1> QED
    BY <1>2, <1>5, <1>9 DEF Siblings

-----------------------------------------------------------------------------
(* One worker: the phases a run has seen last until it acts on them.       *)

SourceInv ==
    /\ \A i, j \in Insts : run[i].pc # "idle" /\ run[j].pc # "idle" => i = j
    /\ \A i \in Insts :
          /\ run[i].pc \in {"eligible", "values"} /\ run[i].ready =>
                \A j \in SiblingSources(i) : inst[j].live /\ inst[j].phase = "Succeeded"
          /\ run[i].pc \in Pipeline =>
                \A j \in Upstream(i) : inst[j].live /\ IsCompleted(inst[j].phase)

LEMMA SourceStep ==
    ASSUME NEW i \in Insts, RecordInv, SourceInv, Effects(i)
    PROVE  SourceInv'
<1>1. \A k \in Insts \ {i} : run'[k] = run[k] /\ run[k].pc = "idle"
    BY DEF Effects, Holds, SourceInv, RecordInv, ShapeInv
<1>2. ASSUME NEW x \in Insts \ {i}, Parent[x] = Parent[i]
      PROVE  inst'[x].live = inst[x].live /\ inst'[x].phase = inst[x].phase
  <2>1. x \notin Children(i)
    <3>1. x \in Children(i) => Parent[i] = i
        BY <1>2 DEF Children
    <3> QED
        BY <3>1, Forest DEF Children
  <2> QED
      BY <2>1 DEF Effects, ObjectEffects, Marked, SameSpec
<1>3. \A x \in SiblingSources(i) \cup Upstream(i) : x \in Insts \ {i} /\ Parent[x] = Parent[i]
    BY UpstreamSiblings DEF SiblingSources, Siblings
<1>4. ASSUME run'[i].pc \in {"eligible", "values"}, run'[i].ready
      PROVE  \A j \in SiblingSources(i) : inst'[j].live /\ inst'[j].phase = "Succeeded"
  <2>1. ContextReady(i) \/ (run[i].pc = "eligible" /\ run[i].ready)
      BY <1>4 DEF Effects, Moves, Inside, Removes, Constructs
  <2>2. \A j \in SiblingSources(i) : inst[j].live /\ inst[j].phase = "Succeeded"
      BY <2>1 DEF ContextReady, SourceInv
  <2> QED
      BY <1>2, <1>3, <2>2
<1>5. ASSUME run'[i].pc \in Pipeline
      PROVE  \A j \in Upstream(i) : inst'[j].live /\ IsCompleted(inst'[j].phase)
  <2>1. CASE run[i].pc \in Pipeline
      BY <1>2, <1>3, <2>1 DEF SourceInv
  <2>2. CASE run[i].pc \notin Pipeline
    <3>1. /\ run[i].pc = "values" /\ run[i].ready
          /\ \A j \in SiblingSources(i) : SourcesCompleted(j)
        BY <1>5, <2>2 DEF Effects, Moves, Inside, Removes, Constructs, Pipeline
    <3>2. \A j \in SiblingSources(i) : inst[j].live /\ IsCompleted(inst[j].phase)
        BY <3>1 DEF SourceInv, IsCompleted, CompletedPhases
    <3>3. \A j \in SiblingSources(i) : \A x \in Upstream(j) :
             inst[x].live /\ IsCompleted(inst[x].phase)
        BY <3>1 DEF SourcesCompleted
    <3> QED
        BY <1>2, <1>3, <3>2, <3>3, UpstreamSteps
  <2> QED
      BY <2>1, <2>2
<1>6. \A k \in Insts \ {i} : run'[k].pc \notin {"eligible", "values"} \cup Pipeline
    BY <1>1 DEF Pipeline
<1>7. \A k, j \in Insts : run'[k].pc # "idle" /\ run'[j].pc # "idle" => k = j
    BY <1>1
<1> QED
    BY <1>4, <1>5, <1>6, <1>7 DEF SourceInv

LEMMA SourceOutside ==
    ASSUME RecordInv, ShownInv, SourceInv, OutsideChange
    PROVE  SourceInv'
<1>1. ASSUME NEW x \in Insts, inst[x].live, inst[x].phase # NoPhase
      PROVE  inst'[x].live /\ inst'[x].phase = inst[x].phase
    BY <1>1 DEF OutsideChange, Touched, ShownInv, Shown
<1>2. \A p : p = "Succeeded" \/ IsCompleted(p) => p # NoPhase
    BY DEF IsCompleted, CompletedPhases, NoPhase
<1>3. ASSUME NEW i \in Insts
      PROVE  /\ SiblingSources(i) \subseteq Insts /\ Upstream(i) \subseteq Insts
             /\ run'[i] = run[i]
    BY UpstreamSiblings DEF SiblingSources, Siblings, OutsideChange
<1> QED
    BY <1>1, <1>2, <1>3 DEF SourceInv

LEMMA SourceGet ==
    ASSUME NEW i \in Insts, Workers = 1, RecordInv, SourceInv, Get(i)
    PROVE  SourceInv'
<1>1. CASE UNCHANGED run
    BY <1>1 DEF SourceInv, Get
<1>2. CASE run' # run
  <2>1. Running = {}
    <3>1. IsFiniteSet(Running)
        BY ForestAssumption, FS_Subset DEF Running
    <3>2. Cardinality(Running) \in Nat /\ Cardinality(Running) < 1
        BY <3>1, FS_CardinalityType DEF Get
    <3> QED
        BY <3>1, <3>2, FS_EmptySet
  <2>2. /\ \A k \in Insts \ {i} : run'[k] = run[k] /\ run[k].pc = "idle"
        /\ run'[i].pc \in {"finalizer", "delete", "dropOp", "check", "context", "recheck"}
    <3>1. \A k \in Insts \ {i} : run'[k] = run[k]
        BY <1>2 DEF Get, RecordInv, ShapeInv
    <3>2. run'[i].pc \in {"finalizer", "delete", "dropOp", "check", "context", "recheck"}
      <4> DEFINE s(p) == [Idle EXCEPT !.pc = p, !.l = inst[i]]
      <4>1. \A p : s(p).pc = p
          BY DEF Idle
      <4>2. \E p \in {"finalizer", "delete", "dropOp", "check", "context", "recheck"} :
               run' = [run EXCEPT ![i] = s(p)]
          BY <1>2 DEF Get
      <4> HIDE DEF s
      <4> QED
          BY <4>1, <4>2 DEF RecordInv, ShapeInv
    <3> QED
        BY <2>1, <3>1, <3>2 DEF Running
  <2> QED
      BY <2>2 DEF SourceInv, Pipeline
<1> QED
    BY <1>1, <1>2

LEMMA SourceNext ==
    ASSUME Workers = 1, RecordInv, ShownInv, SourceInv, [Next]_vars
    PROVE  SourceInv'
<1>1. CASE Crash
    BY <1>1 DEF Crash, SourceInv, Idle, Pipeline
<1>2. CASE UNCHANGED vars
    BY <1>2 DEF vars, SourceInv
<1> QED
    BY <1>1, <1>2, SourceStep, SourceOutside, SourceGet, StepKinds DEF ShownInv

\* In every forest of installations and in every data flow without a cycle,
\* with failed and refused calls, crashes, lasting and forced runs: with one
\* worker an execution is written for a new version or new imports only when
\* every installation that is upstream exists and has finished.
THEOREM SourcesAreFinished == ASSUME Workers = 1 PROVE SafetySpec => SourcesFinishFirst
<1> DEFINE I == RecordInv /\ ShownInv /\ SourceInv
           Safe == \A i \in Insts :
                      exec'[i].live /\ exec'[i].in # exec[i].in =>
                          \A j \in Upstream(i) : inst[j].live /\ IsCompleted(inst[j].phase)
<1>1. Init => I
  <2>1. Init => SourceInv
      BY DEF Init, SourceInv, Idle, Pipeline
  <2> QED
      BY <2>1, InitRecord, ShownInit
<1>2. I /\ [Next]_vars => I'
    BY NextRecord, ShownNext, SourceNext
<1>3. I /\ [Next]_vars => [Safe]_vars
  <2> SUFFICES ASSUME I, [Next]_vars PROVE Safe \/ UNCHANGED vars
      OBVIOUS
  <2>1. ASSUME NEW i \in Insts, Effects(i) PROVE Safe
      BY <2>1 DEF Effects, ExecutionEffects, SourceInv, Pipeline
  <2>2. ASSUME OutsideChange PROVE Safe
      BY <2>2 DEF OutsideChange
  <2>3. ASSUME exec' = exec PROVE Safe
      BY <2>3
  <2> QED
      BY <2>1, <2>2, <2>3, StepKinds DEF ShownInv, Get, Crash
<1>4. [][Safe]_vars => SourcesFinishFirst
    BY PTL DEF SourcesFinishFirst
<1> QED
    BY <1>1, <1>2, <1>3, <1>4, PTL DEF SafetySpec

-----------------------------------------------------------------------------
(* The deletion of an installation that is imported.  An installation that *)
(* is not protected by its finalizer yet, or any more, has no deployed     *)
(* users and none on the way; a deletion that has been granted has no      *)
(* users that exist.                                                       *)

\* It would vanish at once, or has not been created.
Loose(i) == (inst[i].live /\ ~inst[i].fin) \/ (i \in Inner /\ ~inst[i].live)
Uses == {"eligible"} \cup Constructs
Unused(i) ==
    \A j \in Users(i) :
        ~exec[j].live /\ ~(run[j].pc \in Uses /\ run[j].ready)
Granted(i) == run[i].pc \in Removes /\ run[i].l.del /\ run[i].l.op # "force"

UseInv(i) ==
    /\ run[i].pc \in {"dropOp", "check", "context", "eligible"} => ~run[i].l.del
    /\ run[i].pc \in Removes \cup {"delete"} /\ run[i].l.del /\ i \in fresh[i] =>
          run[i].l.op = inst[i].op
    /\ run[i].pc = "subs" => \A j \in Children(i) : inst[j].live => ~inst[j].del
    /\ run[i].pc \in {"subs", "trigger"} => run[i].refs \subseteq Children(i)
    /\ run[i].pc \in Pipeline => run[i].ready
    /\ Granted(i) => \A j \in Users(i) : ~inst[j].live
    /\ Loose(i) => Unused(i)
    /\ "force" \notin Events => inst[i].op # "force" /\ run[i].l.op # "force"

KeepInv == \A i \in Insts : UseInv(i)

\* Forced deletions do not touch what may be created again.
ForceIsFinal == "force" \notin Events \/ Insts = Roots

\* What the run of i knows of its own installation.
LEMMA OwnUse ==
    ASSUME NEW i \in Insts, RecordInv, KeepInv, Effects(i)
    PROVE  /\ run'[i].pc \in {"dropOp", "check", "context", "eligible"} => ~run'[i].l.del
           /\ run'[i].pc \in Removes \cup {"delete"} /\ run'[i].l.del /\ i \in fresh'[i] =>
                 run'[i].l.op = inst'[i].op
           /\ run'[i].pc = "subs" => \A j \in Children(i) : inst'[j].live => ~inst'[j].del
           /\ run'[i].pc \in {"subs", "trigger"} => run'[i].refs \subseteq Children(i)
           /\ run'[i].pc \in Pipeline => run'[i].ready
<1>1. UseInv(i) /\ Moves(i, run[i], run'[i])
    BY DEF KeepInv, Effects
<1>2. run'[i].pc \in {"dropOp", "check", "context", "eligible"} => ~run'[i].l.del
    BY <1>1 DEF UseInv, Moves, SameLook, Inside, Removes, Constructs
<1>3. ASSUME run'[i].pc \in Removes \cup {"delete"}, run'[i].l.del, i \in fresh'[i]
      PROVE  run'[i].l.op = inst'[i].op
  <2>1. /\ run[i].pc \in {"delete", "values", "confs", "ensure", "subs", "trigger",
                          "exec", "deleteAll"}
        /\ run'[i].l.del = run[i].l.del /\ run'[i].l.op = run[i].l.op
      BY <1>1, <1>3 DEF UseInv, Moves, SameLook, Inside, Removes, Constructs
  <2>2. i \in fresh[i]
      BY <1>3 DEF Effects, StillHolds, Busy, Removes, Constructs
  <2>3. run[i].l.op = inst[i].op
      BY <1>1, <1>3, <2>1, <2>2 DEF UseInv, Removes, Constructs
  <2>4. run[i].pc = "trigger" => i \notin run[i].refs
      BY <1>1, Forest DEF UseInv
  <2>5. inst'[i].op = inst[i].op
      BY <2>1, <2>4 DEF Effects, ObjectEffects, OwnEffects
  <2> QED
      BY <2>1, <2>3, <2>5
<1>4. ASSUME run'[i].pc = "subs" PROVE \A j \in Children(i) : inst'[j].live => ~inst'[j].del
  <2>1. Children(i) \subseteq Insts
      BY Forest DEF Inner
  <2>2. CASE run[i].pc = "subs"
      BY <1>1, <2>2, <2>1 DEF UseInv, Effects, ObjectEffects, Marked, SameSpec, Applied
  <2>3. CASE run[i].pc # "subs"
      BY <1>1, <1>4, <2>1, <2>3 DEF Moves, Inside, Removes, Constructs
  <2> QED
      BY <2>2, <2>3
<1>5. run'[i].pc \in {"subs", "trigger"} => run'[i].refs \subseteq Children(i)
    BY <1>1 DEF UseInv, Moves, Inside, Removes, Constructs
<1>6. run'[i].pc \in Pipeline => run'[i].ready
    BY <1>1 DEF UseInv, Moves, Inside, Removes, Constructs, Pipeline
<1> QED
    BY <1>2, <1>3, <1>4, <1>5, <1>6

\* A deletion that has been granted to k stays without users.
LEMMA GrantedStep ==
    ASSUME NEW i \in Insts, NEW k \in Insts, RecordInv, KeepInv, Effects(i), Granted(k)'
    PROVE  \A j \in Users(k) : ~inst'[j].live
<1>1. UseInv(i) /\ UseInv(k) /\ Moves(i, run[i], run'[i])
    BY DEF KeepInv, Effects
<1>2. \A j \in Users(k) : j \in Insts /\ j # k /\ Parent[j] = Parent[k]
    BY UserSource
<1>3. CASE k = i
  <2>1. \A j \in Users(i) : ~inst[j].live
    <3>1. CASE run[i].pc = "delete"
      <4>1. ~Imported(i)
          BY <1>1, <1>3, <3>1 DEF Granted, Moves, SameLook, Inside, Removes, Constructs
      <4> QED
          BY <4>1 DEF Imported, Users
    <3>2. CASE run[i].pc # "delete"
      <4>1. Granted(i)
          BY <1>1, <1>3, <3>2 DEF Granted, UseInv, Moves, SameLook, Inside, Removes, Constructs
      <4> QED
          BY <1>1, <4>1 DEF UseInv
    <3> QED
        BY <3>1, <3>2
  <2>2. ASSUME NEW j \in Users(i) PROVE Marked(j)
    <3>1. j \in Children(i) => Parent[i] = i
        BY <1>2, <1>3 DEF Children
    <3>2. j \notin Children(i)
        BY <3>1, Forest DEF Children
    <3> QED
        BY <1>2, <1>3, <3>2 DEF Effects, ObjectEffects
  <2> QED
      BY <1>3, <2>1, <2>2 DEF Marked, SameSpec
<1>4. CASE k # i
  <2>1. run'[k] = run[k]
      BY <1>4 DEF Effects, Holds, RecordInv, ShapeInv
  <2>2. Granted(k) /\ Busy(run[k])
      BY <2>1 DEF Granted, Removes, Constructs, Busy
  <2>3. \A j \in Users(k) : ~inst[j].live
      BY <1>1, <2>2 DEF UseInv
  <2>4. inst[k].live /\ inst[k].del
      BY <2>2 DEF RecordInv, RunRecord, Follows, Granted
  <2>5. ASSUME NEW j \in Users(k), inst'[j].live PROVE FALSE
    <3>1. ~inst[j].live /\ BecomesOf(i, j)
        BY <1>2, <2>3, Becomes
    <3>2. j \in Children(i) /\ run[i].pc = "subs"
      <4>1. ~NoInstallation.live
          BY DEF NoInstallation
      <4> HIDE DEF NoInstallation
      <4>2. ~Marked(j)
          BY <2>5, <3>1 DEF Marked, SameSpec
      <4>3. ~(j = i /\ OwnEffects(i))
          BY <2>5, <3>1, <4>1 DEF OwnEffects
      <4> QED
          BY <2>5, <3>1, <4>1, <4>2, <4>3 DEF BecomesOf
    <3>3. k \in Children(i)
        BY <1>2, <3>2 DEF Children
    <3> QED
        BY <1>1, <2>4, <3>2, <3>3 DEF UseInv
  <2> QED
      BY <2>5
<1> QED
    BY <1>3, <1>4

\* An installation that is removed has no deployed users, nor any on the way.
LEMMA RemovedIsUnused ==
    ASSUME NEW i \in Insts, IInv, RecordInv, KeepInv, run[i].pc = "removeFinalizer",
           run[i].l.op # "force"
    PROVE  Unused(i)
<1>1. Busy(run[i])
    BY DEF Busy
<1>2. run[i].l.del
    BY <1>1 DEF RecordInv, RunRecord, Modes
<1>3. Granted(i)
    BY <1>2 DEF Granted, Removes
<1>4. ASSUME NEW j \in Users(i)
      PROVE  ~exec[j].live /\ run[j].pc \notin Uses
  <2>1. j \in Insts /\ ~inst[j].live
      BY <1>3, UserSource DEF KeepInv, UseInv
  <2>2. ~exec[j].live
      BY <2>1 DEF IInv, CleanInv, ObjectInv, Clean
  <2>3. ~Busy(run[j])
      BY <2>1 DEF RecordInv, RunRecord, Follows
  <2> QED
      BY <2>2, <2>3 DEF Busy, Uses, Constructs
<1> QED
    BY <1>4 DEF Unused

LEMMA LooseStep ==
    ASSUME NEW i \in Insts, NEW k \in Insts, ForceIsFinal, IInv, RecordInv,
           ShownInv, KeepInv, Effects(i), Loose(k)'
    PROVE  Unused(k)'
<1>1. UseInv(i) /\ UseInv(k) /\ BecomesOf(i, k) /\ Moves(i, run[i], run'[i])
    BY Becomes DEF KeepInv, Effects
<1>2. IsObject(k, inst[k])
    BY DEF RecordInv, ShapeInv
<1>3. Loose(k) \/ (k = i /\ run[i].pc = "removeFinalizer" /\ i \in Inner)
  <2>1. CASE Marked(k)
      BY <2>1 DEF Marked, SameSpec, Loose
  <2>2. CASE k = i /\ OwnEffects(i)
      BY <1>2, <2>2 DEF OwnEffects, Loose, NoInstallation
  <2>3. CASE /\ k \in Children(i)
             /\ \/ inst'[k] = NoInstallation /\ ~(inst[k].live /\ inst[k].fin)
                \/ inst'[k].live = inst[k].live /\ inst'[k].fin = inst[k].fin
      BY <1>2, <2>3, Forest DEF Loose, NoInstallation, IsObject
  <2>4. CASE k \in Children(i) /\ Applied(k)
      BY <1>2, <2>4, Forest DEF Loose, Applied, IsObject
  <2> QED
      BY <1>1, <2>1, <2>2, <2>3, <2>4 DEF BecomesOf
<1>4. Unused(k)
  <2>1. CASE Loose(k)
      BY <1>1, <2>1 DEF UseInv
  <2>2. CASE k = i /\ run[i].pc = "removeFinalizer" /\ i \in Inner
    <3>1. run[i].l.op # "force"
        BY <1>1, <2>2 DEF UseInv, ForceIsFinal, Inner
    <3> QED
        BY <2>2, <3>1, RemovedIsUnused
  <2> QED
      BY <1>3, <2>1, <2>2
<1>5. ASSUME NEW j \in Users(k)
      PROVE  ~exec'[j].live /\ ~(run'[j].pc \in Uses /\ run'[j].ready)
  <2>1. /\ j \in Insts /\ j # k /\ k \in SiblingSources(j)
        /\ ~exec[j].live /\ ~(run[j].pc \in Uses /\ run[j].ready)
      BY <1>4, UserSource DEF Unused
  <2>2. CASE j # i
      BY <2>1, <2>2 DEF Effects, Holds, RecordInv, ShapeInv, ExecutionEffects
  <2>3. CASE j = i
    <3>1. Loose(k)
        BY <1>3, <2>1, <2>3
    <3>2. ~ContextReady(i)
      <4>1. inst[k].phase = NoPhase
          BY <3>1 DEF Loose, ShownInv, Shown
      <4> QED
          BY <2>1, <2>3, <4>1 DEF ContextReady, NoPhase
    <3>3. ~(run'[i].pc \in Uses /\ run'[i].ready)
        BY <1>1, <2>1, <2>3, <3>2 DEF Moves, Inside, Removes, Uses, Constructs
    <3>4. ~exec'[i].live
        BY <1>1, <2>1, <2>3 DEF Effects, ExecutionEffects, UseInv, Pipeline, Uses, Constructs
    <3> QED
        BY <2>3, <3>3, <3>4
  <2> QED
      BY <2>2, <2>3
<1> QED
    BY <1>5 DEF Unused

LEMMA KeepStep ==
    ASSUME NEW i \in Insts, ForceIsFinal, IInv, RecordInv, ShownInv, KeepInv, Effects(i)
    PROVE  KeepInv'
<1>1. ASSUME NEW k \in Insts PROVE UseInv(k)'
  <2>1. /\ Granted(k)' => \A j \in Users(k) : ~inst'[j].live
        /\ Loose(k)' => Unused(k)'
      BY GrantedStep, LooseStep
  <2>2. "force" \notin Events => inst'[k].op # "force" /\ run'[k].l.op # "force"
    <3>1. "force" \notin Events => inst[k].op # "force" /\ run[k].l.op # "force" /\ inst[i].op # "force"
        BY DEF KeepInv, UseInv
    <3>2. inst'[k].op \in {inst[k].op, "none", "reconcile"}
        BY DEF Effects, ObjectEffects
    <3>3. run'[k] = run[k] \/ run'[k].l.op \in {run[k].l.op, inst[i].op, "none"}
        BY DEF Effects, Holds, RecordInv, ShapeInv
    <3> QED
        BY <3>1, <3>2, <3>3
  <2>3. CASE k = i
      BY <2>1, <2>2, <2>3, OwnUse DEF UseInv
  <2>4. CASE k # i
    <3>1. run'[k] = run[k] /\ StaysOutdated(k) /\ UseInv(k)
        BY <2>4 DEF Effects, Holds, RecordInv, ShapeInv, KeepInv
    <3>2. ASSUME NEW j \in Children(k), inst[j].live => ~inst[j].del
          PROVE  inst'[j].live => ~inst'[j].del
      <4>1. j \in Insts /\ j \notin Children(i)
          BY <2>4, Forest DEF Inner
      <4> QED
          BY <3>2, <4>1 DEF Effects, ObjectEffects, OwnEffects, Marked, SameSpec, NoInstallation
    <3> QED
        BY <2>1, <2>2, <3>1, <3>2 DEF UseInv, StaysOutdated
  <2> QED
      BY <2>3, <2>4
<1> QED
    BY <1>1 DEF KeepInv

LEMMA KeepOutside ==
    ASSUME RecordInv, KeepInv, OutsideChange
    PROVE  KeepInv'
<1>1. ASSUME NEW k \in Insts PROVE UseInv(k)'
  <2>1. UseInv(k) /\ run'[k] = run[k] /\ StaysOutdated(k) /\ Touched(k)
      BY DEF KeepInv, OutsideChange
  <2>2. Children(k) \subseteq Inner
      BY Forest
  <2>3. \A j \in Insts : ~inst[j].live => ~inst'[j].live
      BY DEF OutsideChange, Touched
  <2>4. \A j \in Users(k) : j \in Insts
      BY UserSource
  <2>5. ASSUME NEW j \in Children(k), inst[j].live => ~inst[j].del
        PROVE  inst'[j].live => ~inst'[j].del
      BY <2>2, <2>5 DEF OutsideChange, Touched, Inner
  <2>6. Loose(k)' => Loose(k)
      BY <2>1 DEF Touched, Loose, NoInstallation, Inner
  <2>7. Unused(k) => Unused(k)'
      BY <2>4 DEF Unused, OutsideChange
  <2>8. Granted(k)' => Granted(k)
      BY <2>1 DEF Granted
  <2>9. "force" \notin Events => inst'[k].op # "force"
      BY <2>1 DEF OutsideChange, UseInv
  <2> QED
      BY <2>1, <2>3, <2>4, <2>5, <2>6, <2>7, <2>8, <2>9 DEF UseInv, StaysOutdated
<1> QED
    BY <1>1 DEF KeepInv

LEMMA KeepGet ==
    ASSUME NEW i \in Insts, RecordInv, KeepInv, Get(i)
    PROVE  KeepInv'
<1> DEFINE Calls == {"finalizer", "delete", "dropOp", "check", "context", "recheck"}
           s(p) == [Idle EXCEPT !.pc = p, !.l = inst[i]]
<1>1. \A p : s(p).pc = p /\ s(p).l = inst[i]
    BY DEF Idle
<1>2. /\ inst' = inst /\ exec' = exec
      /\ \/ UNCHANGED <<run, fresh>>
         \/ /\ \E p \in Calls : /\ run' = [run EXCEPT ![i] = s(p)]
                                /\ p \in {"dropOp", "check", "context"} => ~inst[i].del
            /\ fresh' = [fresh EXCEPT ![i] = {i}]
    BY DEF Get
<1> HIDE DEF s
<1>3. CASE UNCHANGED <<run, fresh>>
    BY <1>2, <1>3 DEF KeepInv, UseInv, Granted, Loose, Unused
<1>4. ASSUME NEW p \in Calls, run' = [run EXCEPT ![i] = s(p)],
             p \in {"dropOp", "check", "context"} => ~inst[i].del,
             fresh' = [fresh EXCEPT ![i] = {i}]
      PROVE  KeepInv'
  <2>1. /\ run'[i].pc = p /\ run'[i].l = inst[i]
        /\ \A k \in Insts \ {i} : run'[k] = run[k] /\ fresh'[k] = fresh[k]
      BY <1>1, <1>4 DEF RecordInv, ShapeInv
  <2>2. ASSUME NEW k \in Insts PROVE Unused(k) => Unused(k)'
    <3>1. \A j \in Users(k) : j \in Insts
        BY UserSource
    <3> QED
        BY <1>2, <2>1, <3>1 DEF Unused, Uses, Constructs
  <2>3. UseInv(i)'
      BY <1>2, <1>4, <2>1, <2>2 DEF KeepInv, UseInv, Granted, Loose, Removes, Constructs, Pipeline
  <2>4. \A k \in Insts \ {i} : UseInv(k)'
      BY <1>2, <2>1, <2>2 DEF KeepInv, UseInv, Granted, Loose
  <2> QED
      BY <2>3, <2>4 DEF KeepInv
<1> QED
    BY <1>2, <1>3, <1>4

LEMMA KeepCrash ==
    ASSUME KeepInv, Crash
    PROVE  KeepInv'
<1>1. ASSUME NEW k \in Insts PROVE UseInv(k)'
  <2>1. /\ \A j \in Insts : run'[j] = Idle
        /\ inst' = inst /\ exec' = exec /\ Idle.pc = "idle" /\ Idle.l.op = "none"
        /\ UseInv(k)
      BY DEF Crash, Idle, NoInstallation, KeepInv
  <2>2. \A j \in Users(k) : j \in Insts
      BY UserSource
  <2> HIDE DEF Idle
  <2> QED
      BY <2>1, <2>2 DEF UseInv, Granted, Loose, Unused, Removes, Uses, Constructs, Pipeline
<1> QED
    BY <1>1 DEF KeepInv

LEMMA KeepNext ==
    ASSUME ForceIsFinal, IInv, RecordInv, ShownInv, KeepInv, [Next]_vars
    PROVE  KeepInv'
<1>1. CASE UNCHANGED vars
    BY <1>1 DEF vars, KeepInv, UseInv, Granted, Loose, Unused
<1> QED
    BY <1>1, KeepStep, KeepOutside, KeepGet, KeepCrash, StepKinds DEF ShownInv

LEMMA KeepInit ==
    ASSUME Init
    PROVE  KeepInv
<1>1. ASSUME NEW i \in Insts PROVE UseInv(i)
  <2>1. /\ run[i] = Idle /\ \A j \in Insts : exec[j] = NoExecution /\ run[j] = Idle
        /\ inst[i].op = "none"
      BY DEF Init, NewInstallation, NoInstallation
  <2>2. Idle.pc = "idle" /\ Idle.l.op = "none" /\ ~NoExecution.live
      BY DEF Idle, NoInstallation, NoExecution
  <2>3. \A j \in Users(i) : j \in Insts
      BY UserSource
  <2> HIDE DEF Idle, NoExecution
  <2> QED
      BY <2>1, <2>2, <2>3 DEF UseInv, Granted, Unused, Removes, Uses, Constructs, Pipeline
<1> QED
    BY <1>1 DEF KeepInv

\* In every forest of installations and with any number of workers, with
\* refused writes, failed calls and crashes: handleDelete removes an
\* installation, unless by force, only when no sibling that imports one of its
\* data objects is deployed, also one that was created or rolled out after the
\* check; and what is deleted without a finalizer has no such sibling either.
THEOREM ImportsAreKept ==
    ASSUME NothingLasts, ForceIsFinal PROVE SafetySpec => ImportedIsKept
<1> DEFINE I == IInv /\ RecordInv /\ ShownInv /\ KeepInv
           Guarded == \A i \in Insts :
                        inst[i].live /\ ~inst'[i].live /\ inst[i].op # "force" =>
                          \A j \in Siblings(i) :
                              exec[j].live => (Exports[i] \ Targets) \cap Imports[j] = {}
<1>1. Init => I
    BY InitInv, InitRecord, ShownInit, KeepInit
<1>2. I /\ [Next]_vars => I'
    BY NextInv, NextRecord, ShownNext, KeepNext
<1>3. I /\ [Next]_vars => [Guarded]_vars
  <2> SUFFICES ASSUME I, [Next]_vars PROVE Guarded \/ UNCHANGED vars
      OBVIOUS
  <2>1. ASSUME NEW i \in Insts, Unused(i)
        PROVE  \A j \in Siblings(i) :
                  exec[j].live => (Exports[i] \ Targets) \cap Imports[j] = {}
      BY <2>1 DEF Unused, Users
  <2>2. ASSUME NEW i \in Insts, NEW k \in Insts, Effects(i), inst[k].live,
               ~inst'[k].live, inst[k].op # "force"
        PROVE  Unused(k)
    <3>1. BecomesOf(i, k) /\ UseInv(k)
        BY <2>2, Becomes DEF KeepInv
    <3>2. CASE Loose(k)
        BY <3>1, <3>2 DEF UseInv
    <3>3. CASE k = i /\ run[i].pc = "removeFinalizer" /\ i \in fresh[i]
      <4>1. run[i].l.del
          BY <3>3 DEF RecordInv, RunRecord, Modes, Busy
      <4>2. run[i].l.op # "force"
          BY <2>2, <3>1, <3>3, <4>1 DEF UseInv, Removes
      <4> QED
          BY <3>3, <4>2, RemovedIsUnused
    <3>4. IsObject(k, inst[k])
        BY DEF RecordInv, ShapeInv
    <3> QED
        BY <2>2, <3>1, <3>2, <3>3, <3>4
           DEF BecomesOf, OwnEffects, Marked, SameSpec, Applied, Loose, IsObject
  <2>3. ASSUME OutsideChange PROVE Guarded
    <3>1. ASSUME NEW k \in Insts, inst[k].live, ~inst'[k].live PROVE Unused(k)
        BY <2>3, <3>1 DEF OutsideChange, Touched, Loose, KeepInv, UseInv
    <3> QED
        BY <2>1, <3>1
  <2>4. ASSUME inst' = inst PROVE Guarded
      BY <2>4
  <2> QED
      BY <2>1, <2>2, <2>3, <2>4, StepKinds DEF ShownInv, Get, Crash
<1>4. [][Guarded]_vars => ImportedIsKept
    BY PTL DEF ImportedIsKept
<1> QED
    BY <1>1, <1>2, <1>3, <1>4, PTL DEF SafetySpec

-----------------------------------------------------------------------------
(* Types: what the statuses, the queue and the runs hold.  RecordInv has   *)
(* the fields its argument reads; here are the others.                     *)

\* The error and the recorded imports of the installation i.
Legal(i, o) == o.err \in LastErrors /\ DOMAIN o.imports \in {{}, Imports[i]}

\* An Update records the config generations of all imports.
Records == {"ensure", "subs", "trigger", "exec"}
LegalRun(i, r) ==
    /\ Legal(i, r.l) /\ r.refs \subseteq Insts
    /\ r.pc \in Records => DOMAIN r.confs = Imports[i]

LegalInv == \A i \in Insts : Legal(i, inst[i]) /\ LegalRun(i, run[i])
OpInv == \A i \in Insts : inst[i].op \in Ops /\ run[i].l.op \in Ops
TypedExecution(e) == IsExecution(e) /\ e.obs <= e.gen
ExecInv == DOMAIN exec = Insts /\ \A i \in Insts : TypedExecution(exec[i])
ScheduleInv ==
    /\ queued \subseteq Insts /\ budget \in 0..MaxEvents
    /\ Cardinality(Running) <= Workers
    /\ \A i \in Insts : fresh[i] \subseteq {i} \cup Siblings(i)

LEMMA NewLegal ==
    ASSUME NEW i \in Insts
    PROVE  /\ Legal(i, NoInstallation) /\ \A v : Legal(i, NewInstallation(i, v))
           /\ LegalRun(i, Idle)
<1>1. DOMAIN None = {}
    BY DEF None
<1>2. Legal(i, NoInstallation)
  <2>1. NoInstallation.err = "none" /\ NoInstallation.imports = None
      BY DEF NoInstallation
  <2> QED
      BY <1>1, <2>1 DEF Legal, LastErrors
<1>3. ASSUME NEW v PROVE Legal(i, NewInstallation(i, v))
  <2>1. NewInstallation(i, v).err = "none" /\ NewInstallation(i, v).imports = None
      BY DEF NewInstallation
  <2> QED
      BY <1>1, <2>1 DEF Legal, LastErrors
<1>4. Idle.l = NoInstallation /\ Idle.refs = {} /\ Idle.pc = "idle"
    BY DEF Idle
<1> QED
    BY <1>2, <1>3, <1>4 DEF LegalRun, Records

\* The error and the imports are as they were.
SameOutcome(o, p) == p.err = o.err /\ p.imports = o.imports

LEMMA DeletedLegal ==
    ASSUME NEW i \in Insts, NEW o, DOMAIN o = ObjectFields, Legal(i, o)
    PROVE  Legal(i, Deleted(o))
<1>1. SameOutcome(o, [o EXCEPT !.del = TRUE, !.gen = @ + 1])
    BY DEF SameOutcome, ObjectFields
<1>2. Legal(i, [o EXCEPT !.del = TRUE, !.gen = @ + 1])
    BY <1>1 DEF SameOutcome, Legal
<1> HIDE DEF NoInstallation
<1> QED
    BY <1>2, NewLegal DEF Deleted

LEMMA WithStatusLegal ==
    ASSUME NEW i \in Insts, NEW s, DOMAIN s = ObjectFields, NEW o, Legal(i, o)
    PROVE  Legal(i, WithStatus(s, o))
<1>1. WithStatus(s, o).err = o.err /\ WithStatus(s, o).imports = o.imports
    BY DEF WithStatus, ObjectFields
<1> QED
    BY <1>1 DEF Legal

LEMMA TemplatedLegal ==
    ASSUME NEW j \in Insts, RecordInv, LegalInv, NEW v
    PROVE  Legal(j, Templated(j, v))
<1> DEFINE o == inst[j]
           same == [o EXCEPT !.op = "none"]
           other == [o EXCEPT !.op = "none", !.spec.version = v, !.gen = @ + 1]
<1>1. SameOutcome(o, same) /\ SameOutcome(o, other)
    BY RunShape DEF ObjectFields, SameOutcome
<1>2. Legal(j, same) /\ Legal(j, other)
    BY <1>1 DEF Legal, SameOutcome, LegalInv
<1>3. Templated(j, v) \in {NewInstallation(j, v), same, other}
    BY DEF Templated
<1> HIDE DEF same, other
<1> QED
    BY <1>2, <1>3, NewLegal

\* A run that goes on with s.
LEMMA LegalStep ==
    ASSUME NEW i \in Insts, NEW s, RecordInv, LegalInv, GoesOn(i, s), LegalRun(i, s),
           \A k \in Insts : Legal(k, inst'[k])
    PROVE  LegalInv'
<1>1. run' = [run EXCEPT ![i] = s] /\ DOMAIN run = Insts
    BY RunsOn DEF GoesOn, RecordInv, ShapeInv, Holds
<1>2. ASSUME NEW k \in Insts PROVE LegalRun(k, run'[k])
    BY <1>1 DEF LegalInv
<1> QED
    BY <1>2 DEF LegalInv

\* A run that ends or fails.
LEMMA LegalEnd ==
    ASSUME NEW i \in Insts, RecordInv, LegalInv,
           \/ Continue(i, Fails(run[i])) \/ Continue(i, FailsPlain(run[i]))
           \/ \E failed : Return(i, failed),
           \A k \in Insts : Legal(k, inst'[k])
    PROVE  LegalInv'
<1>1. \A s \in {Fails(run[i]), FailsPlain(run[i])} :
         s.pc = "finish" /\ s.l = run[i].l /\ s.refs = run[i].refs
    BY RunShape DEF Fails, FailsPlain, RunFields
<1> HIDE DEF Fails, FailsPlain, Idle
<1>2. \A s \in {Fails(run[i]), FailsPlain(run[i]), Idle} : LegalRun(i, s)
    BY <1>1, NewLegal DEF LegalRun, LegalInv, Records
<1>3. PICK s \in {Fails(run[i]), FailsPlain(run[i]), Idle} : GoesOn(i, s)
    BY DEF GoesOn
<1> QED
    BY <1>2, <1>3, LegalStep

\* What was written to the installations.
LEMMA QuietLegal ==
    ASSUME LegalInv, inst' = inst
    PROVE  \A k \in Insts : Legal(k, inst'[k])
BY DEF LegalInv

LEMMA OpsLegal ==
    ASSUME RecordInv, LegalInv, NEW J, NEW op,
           inst' = [j \in Insts |-> IF j \in J THEN [inst[j] EXCEPT !.op = op]
                                    ELSE inst[j]]
    PROVE  \A k \in Insts : Legal(k, inst'[k])
<1> TAKE k \in Insts
<1>1. SameOutcome(inst[k], [inst[k] EXCEPT !.op = op])
    BY RunShape DEF SameOutcome, ObjectFields
<1>2. SameOutcome(inst[k], inst'[k])
    BY <1>1 DEF SameOutcome
<1> QED
    BY <1>2 DEF SameOutcome, Legal, LegalInv

LEMMA StatusLegal ==
    ASSUME NEW i \in Insts, RecordInv, LegalInv, NEW o, Legal(i, o),
           inst' = [inst EXCEPT ![i] = WithStatus(@, o)]
    PROVE  \A k \in Insts : Legal(k, inst'[k])
<1>1. inst'[i] = WithStatus(inst[i], o) /\ \A k \in Insts \ {i} : inst'[k] = inst[k]
    BY DEF RecordInv, ShapeInv
<1> QED
    BY <1>1, RunShape, WithStatusLegal DEF LegalInv


\* The run as the actions find it.
LEMMA LegalFound ==
    ASSUME NEW i \in Insts, RecordInv, LegalInv
    PROVE  /\ Legal(i, inst[i]) /\ Legal(i, run[i].l) /\ run[i].refs \subseteq Insts
           /\ run[i].pc \in Records => DOMAIN run[i].confs = Imports[i]
           /\ DOMAIN run[i] = RunFields /\ DOMAIN run[i].l = ObjectFields
           /\ DOMAIN inst[i] = ObjectFields
BY RunShape DEF LegalInv, LegalRun

LEMMA GetLegal ==
    ASSUME NEW i \in Insts, RecordInv, LegalInv, Get(i)
    PROVE  LegalInv'
<1>1. inst' = inst /\ (run' = run \/ \E p : run' = [run EXCEPT ![i] = [Idle EXCEPT !.pc = p, !.l = inst[i]]])
    BY DEF Get
<1>2. CASE run' = run
    BY <1>1, <1>2 DEF LegalInv
<1>3. ASSUME NEW p \in PCs \ Records, run' = [run EXCEPT ![i] = [Idle EXCEPT !.pc = p, !.l = inst[i]]]
      PROVE  LegalInv'
  <2> PICK s : s = [Idle EXCEPT !.pc = p, !.l = inst[i]]
      OBVIOUS
  <2>1. s.pc = p /\ s.l = inst[i] /\ s.refs = {}
      BY DEF Idle
  <2>2. LegalRun(i, s)
      BY <2>1, LegalFound DEF LegalRun
  <2>3. \A k \in Insts : run'[k] = IF k = i THEN s ELSE run[k]
      BY <1>3 DEF RecordInv, ShapeInv
  <2> QED
      BY <1>1, <2>2, <2>3 DEF LegalInv
<1>4. \/ run' = run
      \/ \E p \in {"finalizer", "delete", "dropOp", "check", "context", "recheck"} :
            run' = [run EXCEPT ![i] = [Idle EXCEPT !.pc = p, !.l = inst[i]]]
    BY DEF Get
<1> QED
    BY <1>2, <1>3, <1>4 DEF PCs, Records

LEMMA AddFinalizerLegal ==
    ASSUME NEW i \in Insts, RecordInv, LegalInv, AddFinalizer(i)
    PROVE  LegalInv'
<1>1. \E failed : Return(i, failed)
    BY DEF AddFinalizer
<1>2. CASE inst' = inst
    BY <1>1, <1>2, QuietLegal, LegalEnd
<1>3. CASE inst' = [inst EXCEPT ![i].fin = TRUE]
  <2> DEFINE o == [inst[i] EXCEPT !.fin = TRUE]
  <2>1. inst'[i] = o /\ \A k \in Insts \ {i} : inst'[k] = inst[k]
      BY <1>3 DEF RecordInv, ShapeInv
  <2>2. SameOutcome(inst[i], o)
      BY RunShape DEF ObjectFields, SameOutcome
  <2> HIDE DEF o
  <2>3. \A k \in Insts : Legal(k, inst'[k])
      BY <2>1, <2>2 DEF LegalInv, Legal, SameOutcome
  <2> QED
      BY <1>1, <2>3, LegalEnd
<1> QED
    BY <1>2, <1>3 DEF AddFinalizer

LEMMA DropReconcileLegal ==
    ASSUME NEW i \in Insts, RecordInv, LegalInv, DropReconcile(i)
    PROVE  LegalInv'
<1> DEFINE s == [run[i] EXCEPT !.pc = "check", !.l.op = "none"]
<1>1. CASE inst' = inst /\ Return(i, TRUE)
    BY <1>1, QuietLegal, LegalEnd
<1>2. CASE inst' = [inst EXCEPT ![i].op = "none"] /\ Continue(i, s)
  <2>1. inst' = [j \in Insts |-> IF j \in {i} THEN [inst[j] EXCEPT !.op = "none"]
                                 ELSE inst[j]]
      BY <1>2 DEF RecordInv, ShapeInv
  <2>2. s.pc = "check" /\ s.refs = run[i].refs /\ SameOutcome(run[i].l, s.l)
      BY RunShape DEF RunFields, ObjectFields, SameOutcome
  <2> HIDE DEF s
  <2>3. LegalRun(i, s)
      BY <2>2, LegalFound DEF LegalRun, Legal, SameOutcome, Records
  <2>4. \A k \in Insts : Legal(k, inst'[k])
      BY <2>1, OpsLegal
  <2> QED
      BY <1>2, <2>3, <2>4, LegalStep DEF GoesOn
<1> QED
    BY <1>1, <1>2 DEF DropReconcile

LEMMA FinishLegal ==
    ASSUME NEW i \in Insts, RecordInv, LegalInv, Finish(i)
    PROVE  LegalInv'
<1>1. /\ \E failed : Return(i, failed)
      /\ \/ inst' = inst
         \/ \E e \in {"none", "recent", "lasting"} :
               inst' = [inst EXCEPT ![i] = WithStatus(@,
                   [run[i].l EXCEPT !.err = e, !.phase = PhaseForLastError(@, e)])]
    BY DEF Finish
<1>2. ASSUME NEW e \in {"none", "recent", "lasting"},
             inst' = [inst EXCEPT ![i] = WithStatus(@,
                   [run[i].l EXCEPT !.err = e, !.phase = PhaseForLastError(@, e)])]
      PROVE  \A k \in Insts : Legal(k, inst'[k])
  <2> PICK o : o = [run[i].l EXCEPT !.err = e, !.phase = PhaseForLastError(@, e)]
      OBVIOUS
  <2>1. o.err = e /\ o.imports = run[i].l.imports
      BY RunShape DEF ObjectFields
  <2>2. Legal(i, o)
      BY <2>1, LegalFound DEF Legal, LastErrors
  <2>3. inst' = [inst EXCEPT ![i] = WithStatus(@, o)]
      BY <1>2
  <2> QED
      BY <2>2, <2>3, StatusLegal
<1> QED
    BY <1>1, <1>2, QuietLegal, LegalEnd

LEMMA CheckChildrenLegal ==
    ASSUME NEW i \in Insts, RecordInv, LegalInv, CheckChildren(i)
    PROVE  LegalInv'
<1> DEFINE r == run[i]
           Done(p) == [r EXCEPT !.pc = "finish", !.l.phase = p]
           On(p) == [r EXCEPT !.pc = "context", !.mode = p]
<1>1. inst' = inst
    BY DEF CheckChildren
<1>2. (\E p : Continue(i, Done(p))) \/ (\E p : Continue(i, On(p)))
    BY DEF CheckChildren
<1>3. \A p :
         /\ Done(p).pc = "finish" /\ Done(p).refs = r.refs /\ SameOutcome(r.l, Done(p).l)
         /\ On(p).pc = "context" /\ On(p).refs = r.refs /\ SameOutcome(r.l, On(p).l)
    BY RunShape DEF RunFields, ObjectFields, SameOutcome
<1> HIDE DEF Done, On
<1>4. ASSUME NEW s, Continue(i, s), s.pc \in {"finish", "context"}, s.refs = r.refs,
             SameOutcome(r.l, s.l)
      PROVE  LegalInv'
  <2>1. LegalRun(i, s)
      BY <1>4, LegalFound DEF LegalRun, Legal, SameOutcome, Records
  <2> QED
      BY <1>1, <1>4, <2>1, QuietLegal, LegalStep DEF GoesOn
<1> QED
    BY <1>2, <1>3, <1>4

LEMMA InitPrerequisitesLegal ==
    ASSUME NEW i \in Insts, RecordInv, LegalInv, InitPrerequisites(i)
    PROVE  LegalInv'
<1> DEFINE r == run[i]
           Forced == [r EXCEPT !.ready = ContextReady(i), !.pc = "values",
                               !.mode = "force", !.l.phase = "Pending"]
           On == [r EXCEPT !.ready = ContextReady(i), !.pc = "eligible",
                           !.refs = Importers(i)]
<1>1. inst' = inst
    BY DEF InitPrerequisites
<1>2. Continue(i, Fails(r)) \/ \E s \in {Forced, On} : ReadContext(i, s)
    BY DEF InitPrerequisites
<1>3. /\ Forced.pc = "values" /\ Forced.refs = r.refs /\ SameOutcome(r.l, Forced.l)
      /\ On.pc = "eligible" /\ On.refs = Importers(i) /\ SameOutcome(r.l, On.l)
    BY RunShape DEF RunFields, ObjectFields, SameOutcome
<1>4. Importers(i) \subseteq Insts
    BY DEF Importers, Siblings
<1> HIDE DEF Forced, On
<1>5. CASE Continue(i, Fails(r))
    BY <1>1, <1>5, QuietLegal, LegalEnd
<1>6. ASSUME NEW s \in {Forced, On}, ReadContext(i, s) PROVE LegalInv'
  <2>1. LegalRun(i, s)
      BY <1>3, <1>4, LegalFound DEF LegalRun, Legal, SameOutcome, Records
  <2> QED
      BY <1>1, <1>6, <2>1, QuietLegal, LegalStep DEF GoesOn
<1> QED
    BY <1>2, <1>5, <1>6

LEMMA CheckEligibleLegal ==
    ASSUME NEW i \in Insts, RecordInv, LegalInv, CheckEligible(i)
    PROVE  LegalInv'
<1> DEFINE r == run[i]
           Done == [r EXCEPT !.pc = "finish", !.l.phase = r.mode]
           Update == [r EXCEPT !.pc = "values", !.mode = "update", !.l.phase = "Pending"]
           Complete == [r EXCEPT !.pc = "values", !.mode = "complete"]
<1>1. inst' = inst
    BY DEF CheckEligible
<1>2. Continue(i, Fails(r)) \/ \E s \in {Done, Update, Complete} : Continue(i, s)
    BY DEF CheckEligible
<1>3. /\ Done.pc = "finish" /\ Done.refs = r.refs /\ SameOutcome(r.l, Done.l)
      /\ Update.pc = "values" /\ Update.refs = r.refs /\ SameOutcome(r.l, Update.l)
      /\ Complete.pc = "values" /\ Complete.refs = r.refs /\ SameOutcome(r.l, Complete.l)
    BY RunShape DEF RunFields, ObjectFields, SameOutcome
<1> HIDE DEF Done, Update, Complete
<1>4. CASE Continue(i, Fails(r))
    BY <1>1, <1>4, QuietLegal, LegalEnd
<1>5. ASSUME NEW s \in {Done, Update, Complete}, Continue(i, s) PROVE LegalInv'
  <2>1. LegalRun(i, s)
      BY <1>3, LegalFound DEF LegalRun, Legal, SameOutcome, Records
  <2> QED
      BY <1>1, <1>5, <2>1, QuietLegal, LegalStep DEF GoesOn
<1> QED
    BY <1>2, <1>4, <1>5

LEMMA ReadValuesLegal ==
    ASSUME NEW i \in Insts, RecordInv, LegalInv, ReadValues(i)
    PROVE  LegalInv'
<1> DEFINE r == run[i]
           s == [r EXCEPT !.pc = "confs", !.vals =
                   [k \in Imports[i] |-> data[Parent[i]][k]]]
<1>1. inst' = inst /\ (Continue(i, Fails(r)) \/ Continue(i, s))
    BY DEF ReadValues
<1>2. s.pc = "confs" /\ s.refs = r.refs /\ s.l = r.l
    BY RunShape DEF RunFields
<1> HIDE DEF s
<1>3. LegalRun(i, s)
    BY <1>2, LegalFound DEF LegalRun, Records
<1> QED
    BY <1>1, <1>3, QuietLegal, LegalEnd, LegalStep DEF GoesOn

LEMMA WriteImportsLegal ==
    ASSUME NEW i \in Insts, RecordInv, LegalInv, WriteImports(i)
    PROVE  LegalInv'
<1> DEFINE r == run[i]
           confs == [k \in Imports[i] |->
                       IF Source(i, k) = Root THEN r.vals[k] ELSE ConfOf(i, k)]
           update == [r EXCEPT !.pc = "ensure", !.confs = confs,
                               !.l.phase = "Progressing"]
           publish == [r EXCEPT !.pc = "exports"]
<1>1. inst' = inst /\ (Continue(i, Fails(r)) \/ Continue(i, publish) \/ Continue(i, update))
    BY DEF WriteImports
<1>2. DOMAIN confs = Imports[i]
    OBVIOUS
<1> HIDE DEF confs
<1>3. /\ update.refs = r.refs /\ update.confs = confs /\ SameOutcome(r.l, update.l)
      /\ publish.pc = "exports" /\ publish.refs = r.refs /\ publish.l = r.l
    BY RunShape DEF RunFields, ObjectFields, SameOutcome
<1> HIDE DEF update, publish
<1>4. LegalRun(i, update) /\ LegalRun(i, publish)
    BY <1>2, <1>3, LegalFound DEF LegalRun, Legal, SameOutcome, Records
<1> QED
    BY <1>1, <1>4, QuietLegal, LegalEnd, LegalStep DEF GoesOn

\* Children are deleted.
LEMMA DeletionLegal ==
    ASSUME NEW i \in Insts, RecordInv, LegalInv, NEW js \in SUBSET Insts,
           \A k \in js : inst'[k] = Deleted(inst[k]),
           \A k \in Insts \ js : inst'[k] = inst[k]
    PROVE  \A k \in Insts : Legal(k, inst'[k])
<1> TAKE k \in Insts
<1>1. Legal(k, Deleted(inst[k])) /\ Legal(k, inst[k])
    BY DeletedLegal, RunShape DEF LegalInv
<1> QED
    BY <1>1

LEMMA EnsureSubsLegal ==
    ASSUME NEW i \in Insts, RecordInv, LegalInv, EnsureSubs(i)
    PROVE  LegalInv'
<1> DEFINE r == run[i]
           orphans == LiveSubs(i) \ r.l.spec.subs
           To(p, todo) == [r EXCEPT !.refs = LiveSubs(i), !.pc = p, !.todo = todo]
<1>1. r.pc = "ensure"
    BY DEF EnsureSubs, At
<1>2. \/ inst' = inst /\ Continue(i, Fails(r))
      \/ /\ inst' = [j \in Insts |-> IF j \in orphans THEN Deleted(inst[j]) ELSE inst[j]]
         /\ \E p, todo : Continue(i, To(p, todo))
    BY DEF EnsureSubs
<1>3. ASSUME NEW p, NEW todo
      PROVE  LET s == To(p, todo) IN
             s.refs = LiveSubs(i) /\ s.confs = r.confs /\ s.l = r.l
    BY RunShape DEF RunFields
<1>4. orphans \subseteq Insts /\ LiveSubs(i) \subseteq Insts
    BY DEF LiveSubs, Children
<1> HIDE DEF orphans, To
<1>5. CASE inst' = inst /\ Continue(i, Fails(r))
    BY <1>5, QuietLegal, LegalEnd
<1>6. ASSUME NEW p, NEW todo, Continue(i, To(p, todo)),
             inst' = [j \in Insts |-> IF j \in orphans THEN Deleted(inst[j]) ELSE inst[j]]
      PROVE  LegalInv'
  <2>1. /\ \A k \in orphans : inst'[k] = Deleted(inst[k])
        /\ \A k \in Insts \ orphans : inst'[k] = inst[k]
      BY <1>4, <1>6
  <2>2. \A k \in Insts : Legal(k, inst'[k])
      BY <1>4, <2>1, DeletionLegal
  <2>3. LegalRun(i, To(p, todo))
      BY <1>1, <1>3, <1>4, LegalFound DEF LegalRun, Records
  <2> QED
      BY <1>6, <2>2, <2>3, LegalStep DEF GoesOn
<1> QED
    BY <1>2, <1>5, <1>6

LEMMA CreateSubLegal ==
    ASSUME NEW i \in Insts, RecordInv, LegalInv, CreateSub(i)
    PROVE  LegalInv'
<1> DEFINE r == run[i]
           I(j) == [inst EXCEPT ![j] = Templated(j, r.l.spec.version)]
           created(j) == [r EXCEPT !.todo = @ \ {j}, !.refs = @ \cup {j}]
           done == [r EXCEPT !.pc = "trigger"]
           status(O) == [O EXCEPT ![i] = WithStatus(@, r.l)]
<1>1. r.pc = "subs"
    BY DEF CreateSub, At
<1>2. \/ inst' = inst /\ (Continue(i, Fails(r)) \/ Continue(i, FailsPlain(r)))
      \/ inst' = status(inst) /\ Continue(i, done)
      \/ \E j \in r.todo :
            \/ inst' = status(I(j)) /\ Continue(i, created(j))
            \/ inst' = I(j) /\ Continue(i, Fails(r))
    BY DEF CreateSub
<1>3. done.refs = r.refs /\ done.confs = r.confs /\ done.l = r.l
    BY RunShape DEF RunFields
<1>4. ASSUME NEW j
      PROVE  /\ created(j).refs = r.refs \cup {j} /\ created(j).confs = r.confs
             /\ created(j).l = r.l
    BY RunShape DEF RunFields
<1>5. r.todo \subseteq Insts /\ i \notin r.todo
    BY Forest DEF RecordInv, ShapeInv, IsRun, Inner
<1> HIDE DEF done, created
<1>6. LegalRun(i, done) /\ \A j \in r.todo : LegalRun(i, created(j))
    BY <1>1, <1>3, <1>4, <1>5, LegalFound DEF LegalRun, Records
<1>7. CASE inst' = inst /\ (Continue(i, Fails(r)) \/ Continue(i, FailsPlain(r)))
    BY <1>7, QuietLegal, LegalEnd
<1>8. CASE inst' = status(inst) /\ Continue(i, done)
  <2> PICK x : x = r.l
      OBVIOUS
  <2>1. inst' = [inst EXCEPT ![i] = WithStatus(@, x)] /\ Legal(i, x)
      BY <1>8, LegalFound
  <2> QED
      BY <1>6, <1>8, <2>1, StatusLegal, LegalStep DEF GoesOn
<1>9. ASSUME NEW j \in r.todo,
             \/ inst' = status(I(j)) /\ Continue(i, created(j))
             \/ inst' = I(j) /\ Continue(i, Fails(r))
      PROVE  LegalInv'
  <2>1. /\ inst'[j] = Templated(j, r.l.spec.version)
        /\ inst'[i] = inst[i] \/ inst'[i] = WithStatus(inst[i], r.l)
        /\ \A k \in Insts \ {i, j} : inst'[k] = inst[k]
      BY <1>5, <1>9 DEF RecordInv, ShapeInv
  <2>2. Legal(i, WithStatus(inst[i], r.l)) /\ Legal(i, inst[i])
      BY LegalFound, WithStatusLegal
  <2>3. Legal(j, Templated(j, r.l.spec.version))
      BY <1>5, TemplatedLegal
  <2>4. \A k \in Insts : Legal(k, inst'[k])
      BY <2>1, <2>2, <2>3 DEF LegalInv
  <2> QED
      BY <1>6, <1>9, <2>4, LegalEnd, LegalStep DEF GoesOn
<1> QED
    BY <1>2, <1>7, <1>8, <1>9


\* The subinstallations, or the importers, are triggered.
LEMMA TriggerLegal ==
    ASSUME NEW i \in Insts, RecordInv, LegalInv, TriggerSubs(i) \/ TriggerDependants(i)
    PROVE  LegalInv'
<1> DEFINE r == run[i]
           To(p) == [r EXCEPT !.pc = p]
           mark(js) == inst' = [j \in Insts |-> IF j \in js
                           THEN [inst[j] EXCEPT !.op = "reconcile"] ELSE inst[j]]
<1>1. /\ \E js : mark(js)
      /\ \/ \E failed : Return(i, failed)
         \/ Continue(i, Fails(r))
         \/ r.pc = "trigger" /\ Continue(i, To("exec"))
         \/ Continue(i, To("finish"))
  <2>1. CASE TriggerSubs(i)
    <3> DEFINE gone == {j \in r.refs : ~inst[j].live}
    <3>1. mark(r.refs) \/ \E js \in SUBSET (r.refs \ gone) : mark(js)
        BY <2>1 DEF TriggerSubs
    <3> HIDE DEF mark
    <3>2. \E js : mark(js)
        BY <3>1
    <3> QED
        BY <2>1, <3>2 DEF TriggerSubs, At
  <2>2. CASE TriggerDependants(i)
    <3>1. mark(r.refs) \/ \E js \in SUBSET (r.refs \cap fresh[i]) : mark(js)
        BY <2>2 DEF TriggerDependants
    <3> HIDE DEF mark
    <3>2. \E js : mark(js)
        BY <3>1
    <3> QED
        BY <2>2, <3>2 DEF TriggerDependants
  <2> QED
      BY <2>1, <2>2
<1>2. \A k \in Insts : Legal(k, inst'[k])
  <2> PICK js : mark(js)
      BY <1>1
  <2> QED
      BY OpsLegal
<1>3. \A p : To(p).pc = p /\ To(p).refs = r.refs /\ To(p).confs = r.confs /\ To(p).l = r.l
    BY RunShape DEF RunFields
<1> HIDE DEF To
<1>4. LegalRun(i, To("finish")) /\ (r.pc = "trigger" => LegalRun(i, To("exec")))
    BY <1>3, LegalFound DEF LegalRun, Records
<1> QED
    BY <1>1, <1>2, <1>4, LegalEnd, LegalStep DEF GoesOn

LEMMA EnsureExecutionLegal ==
    ASSUME NEW i \in Insts, RecordInv, LegalInv, EnsureExecution(i)
    PROVE  LegalInv'
<1> DEFINE r == run[i]
           s == [r EXCEPT !.l.eref = TRUE]
<1>1. r.pc = "exec"
    BY DEF EnsureExecution, At
<1>2. /\ \/ inst' = inst
         \/ inst' = [inst EXCEPT ![i] = WithStatus(@, s.l)]
         \/ inst' = [inst EXCEPT ![i] = WithStatus(@, r.l)]
      /\ \/ Continue(i, Updated(r)) \/ Continue(i, Updated(s))
         \/ Continue(i, Fails(r)) \/ Continue(i, Fails(s))
    BY DEF EnsureExecution
<1>3. \A x \in {r, s} : /\ DOMAIN x = RunFields /\ DOMAIN x.l = ObjectFields
                        /\ SameOutcome(r.l, x.l) /\ x.refs = r.refs /\ x.confs = r.confs
    BY RunShape DEF RunFields, ObjectFields, SameOutcome
<1> HIDE DEF s
<1>4. \A x \in {r, s} : Legal(i, x.l) /\ x.refs \subseteq Insts /\ DOMAIN x.confs = Imports[i]
    BY <1>1, <1>3, LegalFound DEF Legal, SameOutcome, Records
<1>5. \A k \in Insts : Legal(k, inst'[k])
  <2>1. ASSUME NEW x \in {r, s}, inst' = [inst EXCEPT ![i] = WithStatus(@, x.l)]
        PROVE  \A k \in Insts : Legal(k, inst'[k])
    <3> PICK o : o = x.l
        OBVIOUS
    <3> QED
        BY <1>4, <2>1, StatusLegal
  <2> QED
      BY <1>2, <2>1, QuietLegal
<1>6. ASSUME NEW x \in {r, s}, Continue(i, Updated(x)) PROVE LegalInv'
  <2> PICK u : u = Updated(x)
      OBVIOUS
  <2>1. /\ u.pc \in {"finish", "dropForce", "deleteAll"} /\ u.refs = x.refs
        /\ u.l.err = "none" /\ u.l.imports = x.confs
      BY <1>3, ZenonT(40) DEF Updated, RunFields, ObjectFields
  <2>2. LegalRun(i, u)
      BY <1>4, <2>1 DEF LegalRun, Legal, LastErrors, Records
  <2> QED
      BY <1>5, <1>6, <2>2, LegalStep DEF GoesOn
<1>7. ASSUME NEW x \in {r, s}, Continue(i, Fails(x)) PROVE LegalInv'
  <2> PICK u : u = Fails(x)
      OBVIOUS
  <2>1. u.pc = "finish" /\ u.l = x.l /\ u.refs = x.refs
      BY <1>3 DEF Fails, RunFields
  <2>2. LegalRun(i, u)
      BY <1>4, <2>1 DEF LegalRun, Records
  <2> QED
      BY <1>5, <1>7, <2>2, LegalStep DEF GoesOn
<1> QED
    BY <1>2, <1>6, <1>7

LEMMA DropForceLegal ==
    ASSUME NEW i \in Insts, RecordInv, LegalInv, DropForce(i)
    PROVE  LegalInv'
<1> DEFINE r == run[i]
           o == [inst[i] EXCEPT !.op = "none"]
           observed == [o EXCEPT !.obs = o.gen, !.phase = "Progressing"]
           To(x) == [r EXCEPT !.pc = "finish", !.l = x]
<1>1. \/ inst' = inst /\ (Continue(i, Fails(r)) \/ Continue(i, FailsPlain(r)))
      \/ /\ inst' = [inst EXCEPT ![i] = o]
         /\ \E x \in {o, observed} : Continue(i, To(x))
    BY DEF DropForce
<1>2. \A x \in {o, observed} : SameOutcome(inst[i], x)
    BY RunShape DEF ObjectFields, SameOutcome
<1>3. \A x : To(x).pc = "finish" /\ To(x).refs = r.refs /\ To(x).l = x
    BY RunShape DEF RunFields
<1>4. ASSUME NEW x \in {o, observed}, inst' = [inst EXCEPT ![i] = o], Continue(i, To(x))
      PROVE  LegalInv'
  <2>1. inst' = [j \in Insts |-> IF j \in {i} THEN [inst[j] EXCEPT !.op = "none"]
                                 ELSE inst[j]]
      BY <1>4 DEF RecordInv, ShapeInv
  <2>2. \A k \in Insts : Legal(k, inst'[k])
      BY <2>1, OpsLegal
  <2> HIDE DEF To, o, observed
  <2>3. LegalRun(i, To(x))
      BY <1>2, <1>3, LegalFound DEF LegalRun, Legal, SameOutcome, Records
  <2> QED
      BY <1>4, <2>2, <2>3, LegalStep DEF GoesOn
<1> HIDE DEF To, o, observed
<1> QED
    BY <1>1, <1>4, QuietLegal, LegalEnd

LEMMA WriteExportsLegal ==
    ASSUME NEW i \in Insts, RecordInv, LegalInv, WriteExports(i)
    PROVE  LegalInv'
<1> DEFINE s == [run[i] EXCEPT !.pc = "publish"]
<1>1. /\ inst' = inst
      /\ Continue(i, s) \/ Continue(i, Fails(run[i])) \/ Return(i, TRUE)
    BY DEF WriteExports
<1>2. s.pc = "publish" /\ s.refs = run[i].refs /\ s.l = run[i].l
    BY RunShape DEF RunFields
<1> HIDE DEF s
<1>3. LegalRun(i, s)
    BY <1>2, LegalFound DEF LegalRun, Records
<1> QED
    BY <1>1, <1>3, QuietLegal, LegalEnd, LegalStep DEF GoesOn

LEMMA PublishLegal ==
    ASSUME NEW i \in Insts, RecordInv, LegalInv, Publish(i)
    PROVE  LegalInv'
<1> DEFINE r == run[i]
           o == [r.l EXCEPT !.conf = ConfigGeneration(r.l)]
           complete == [r EXCEPT !.l = [o EXCEPT !.phase = "Succeeded"],
                                 !.pc = "dependants"]
           goOn == [r EXCEPT !.l = o, !.pc = "rephase"]
           failed == Fails([r EXCEPT !.l = o])
<1>1. /\ inst' = inst \/ inst' = [inst EXCEPT ![i] = WithStatus(@, o)]
      /\ \/ Continue(i, complete) \/ Continue(i, goOn) \/ Continue(i, failed)
         \/ Return(i, TRUE)
    BY DEF Publish
<1>2. SameOutcome(r.l, o) /\ DOMAIN o = ObjectFields
    BY RunShape DEF ObjectFields, SameOutcome
<1> HIDE DEF o
<1>3. \A x \in {complete, goOn, failed} :
         /\ x.pc \in {"dependants", "rephase", "finish"}
         /\ SameOutcome(r.l, x.l) /\ x.refs = r.refs
  <2>1. complete.pc = "dependants" /\ SameOutcome(r.l, complete.l) /\ complete.refs = r.refs
      BY <1>2, RunShape DEF RunFields, ObjectFields, SameOutcome
  <2>2. goOn.pc = "rephase" /\ SameOutcome(r.l, goOn.l) /\ goOn.refs = r.refs
      BY <1>2, RunShape DEF RunFields
  <2>3. failed.pc = "finish" /\ SameOutcome(r.l, failed.l) /\ failed.refs = r.refs
      BY <1>2, RunShape DEF RunFields, Fails
  <2> QED
      BY <2>1, <2>2, <2>3
<1> HIDE DEF complete, goOn, failed
<1>4. Legal(i, o) /\ \A x \in {complete, goOn, failed} : LegalRun(i, x)
    BY <1>2, <1>3, LegalFound DEF LegalRun, Legal, SameOutcome, Records
<1>5. \A k \in Insts : Legal(k, inst'[k])
    BY <1>1, <1>4, QuietLegal, StatusLegal
<1> QED
    BY <1>1, <1>4, <1>5, LegalEnd, LegalStep DEF GoesOn

LEMMA RecheckLegal ==
    ASSUME NEW i \in Insts, RecordInv, LegalInv, Recheck(i)
    PROVE  LegalInv'
<1> DEFINE r == run[i]
           s(p, m) == [r EXCEPT !.mode = m, !.refs = Importers(i), !.pc = p]
<1>1. inst' = inst
    BY DEF Recheck
<1>2. \/ \E failed : Return(i, failed)
      \/ \E p \in {"exports", "rephase"} : \E m : ReadContext(i, s(p, m))
    BY DEF Recheck
<1>3. \A p, m : s(p, m).pc = p /\ s(p, m).refs = Importers(i) /\ s(p, m).l = r.l
    BY RunShape DEF RunFields
<1> HIDE DEF s
<1>4. Importers(i) \subseteq Insts
    BY DEF Importers, Siblings
<1>5. \A p \in {"exports", "rephase"} : \A m : LegalRun(i, s(p, m))
    BY <1>3, <1>4, LegalFound DEF LegalRun, Records
<1> QED
    BY <1>1, <1>2, <1>5, QuietLegal, LegalEnd, LegalStep DEF GoesOn

LEMMA RephaseLegal ==
    ASSUME NEW i \in Insts, RecordInv, LegalInv, Rephase(i)
    PROVE  LegalInv'
<1> DEFINE r == run[i]
           o == [r.l EXCEPT !.phase = r.mode]
           s == [r EXCEPT !.pc = "dependants", !.l = o]
<1>1. /\ inst' = inst \/ inst' = [inst EXCEPT ![i] = WithStatus(@, o)]
      /\ Continue(i, s) \/ \E failed : Return(i, failed)
    BY DEF Rephase
<1>2. SameOutcome(r.l, o)
    BY RunShape DEF ObjectFields, SameOutcome
<1>3. s.pc = "dependants" /\ s.l = o /\ s.refs = r.refs
    BY RunShape DEF RunFields
<1> HIDE DEF o, s
<1>4. Legal(i, o) /\ LegalRun(i, s)
    BY <1>2, <1>3, LegalFound DEF LegalRun, Legal, SameOutcome, Records
<1>5. \A k \in Insts : Legal(k, inst'[k])
    BY <1>1, <1>4, QuietLegal, StatusLegal
<1> QED
    BY <1>1, <1>4, <1>5, LegalEnd, LegalStep DEF GoesOn

LEMMA DeleteLegal ==
    ASSUME NEW i \in Insts, RecordInv, LegalInv, Delete(i)
    PROVE  LegalInv'
<1> DEFINE r == run[i]
           update(p) == [r EXCEPT !.pc = "values", !.mode = "delete",
                           !.ready = ContextReady(i), !.l.phase = p]
           waiting == [r EXCEPT !.pc = "finish", !.l.phase = "Deleting"]
           To(p) == [r EXCEPT !.pc = p]
<1>1. inst' = inst
    BY DEF Delete
<1>2. \/ Continue(i, Fails(r)) \/ Continue(i, waiting)
      \/ \E p : ReadContext(i, update(p))
      \/ \E p \in {"removeFinalizer", "deleteAll"} : Continue(i, To(p))
  <2>1. [r EXCEPT !.pc = "values", !.mode = "delete", !.ready = ContextReady(i),
                  !.l.phase = IF r.l.op = "force" THEN @ ELSE "Pending"]
        = update(IF r.l.op = "force" THEN r.l.phase ELSE "Pending")
      OBVIOUS
  <2> HIDE DEF update
  <2> QED
      BY <2>1 DEF Delete
<1>3. waiting.pc = "finish" /\ SameOutcome(r.l, waiting.l) /\ waiting.refs = r.refs
    BY RunShape DEF RunFields, ObjectFields, SameOutcome
<1>4. \A p : update(p).pc = "values" /\ SameOutcome(r.l, update(p).l) /\ update(p).refs = r.refs
    BY RunShape DEF RunFields, ObjectFields, SameOutcome
<1>5. \A p : To(p).pc = p /\ SameOutcome(r.l, To(p).l) /\ To(p).refs = r.refs
    BY RunShape DEF RunFields, SameOutcome
<1> HIDE DEF waiting, update, To
<1>6. CASE Continue(i, Fails(r))
    BY <1>1, <1>6, QuietLegal, LegalEnd
<1>7. ASSUME NEW s, GoesOn(i, s), s.pc \notin Records, SameOutcome(r.l, s.l), s.refs = r.refs
      PROVE  LegalInv'
  <2>1. LegalRun(i, s)
      BY <1>7, LegalFound DEF LegalRun, Legal, SameOutcome
  <2> QED
      BY <1>1, <1>7, <2>1, QuietLegal, LegalStep
<1> QED
    BY <1>1, <1>2, <1>3, <1>4, <1>5, <1>6, <1>7 DEF GoesOn, Records

LEMMA DeleteAllLegal ==
    ASSUME NEW i \in Insts, RecordInv, LegalInv, DeleteAll(i)
    PROVE  LegalInv'
<1> DEFINE r == run[i]
           s == [r EXCEPT !.l.phase = "Deleting"]
           To(p) == [s EXCEPT !.pc = p]
<1>1. \A k \in Insts : Legal(k, inst'[k])
  <2>1. PICK js \in SUBSET Children(i) :
           /\ \A k \in js : inst'[k] = Deleted(inst[k])
           /\ \A k \in Insts \ js : inst'[k] = inst[k]
      BY DeletedChildren
  <2>2. js \in SUBSET Insts
      BY DEF Children
  <2> QED
      BY <2>1, <2>2, DeletionLegal
<1>2. \E p \in {"dropForce", "finish", "removeFinalizer"} : Continue(i, To(p)) \/ Continue(i, Fails(s))
    BY DEF DeleteAll
<1>3. DOMAIN s = RunFields /\ SameOutcome(r.l, s.l) /\ s.refs = r.refs
    BY RunShape DEF RunFields, ObjectFields, SameOutcome
<1> HIDE DEF s
<1>4. /\ \A p : To(p).pc = p /\ To(p).l = s.l /\ To(p).refs = s.refs
      /\ Fails(s).pc = "finish" /\ Fails(s).l = s.l /\ Fails(s).refs = s.refs
    BY <1>3 DEF RunFields, Fails
<1> HIDE DEF To, Fails
<1>5. PICK u : /\ GoesOn(i, u) /\ u.pc \notin Records
               /\ SameOutcome(r.l, u.l) /\ u.refs = r.refs
    BY <1>2, <1>3, <1>4 DEF GoesOn, Records
<1>6. LegalRun(i, u)
    BY <1>5, LegalFound DEF LegalRun, Legal, SameOutcome
<1> QED
    BY <1>1, <1>5, <1>6, LegalStep

LEMMA RemoveFinalizerLegal ==
    ASSUME NEW i \in Insts, RecordInv, LegalInv, RemoveFinalizer(i)
    PROVE  LegalInv'
<1>1. CASE inst' = inst
    BY <1>1, QuietLegal, LegalEnd DEF RemoveFinalizer
<1>2. CASE inst' = [inst EXCEPT ![i] = NoInstallation] /\ Return(i, FALSE)
  <2>1. /\ inst'[i] = NoInstallation
        /\ \A k \in Insts \ {i} : inst'[k] = inst[k]
      BY <1>2 DEF RecordInv, ShapeInv
  <2> HIDE DEF NoInstallation
  <2>2. \A k \in Insts : Legal(k, inst'[k])
      BY <2>1, NewLegal DEF LegalInv
  <2> QED
      BY <1>2, <2>2, LegalEnd
<1> QED
    BY <1>1, <1>2 DEF RemoveFinalizer


-----------------------------------------------------------------------------
(* The environment, and the operations.                                    *)

\* One installation becomes o.
LEMMA InstallationLegal ==
    ASSUME NEW i \in Insts, NEW o, RecordInv, LegalInv, OpInv, SetInstallation(i, o),
           Legal(i, o), o.op \in Ops
    PROVE  LegalInv' /\ OpInv'
<1>1. /\ inst'[i] = o /\ \A k \in Insts \ {i} : inst'[k] = inst[k]
      /\ run' = run
    BY DEF SetInstallation, Others, RecordInv, ShapeInv
<1> QED
    BY <1>1 DEF LegalInv, OpInv

LEMMA UserLegal ==
    ASSUME NEW i \in Insts, RecordInv, LegalInv, OpInv, Environment(i), ~Drift(i)
    PROVE  LegalInv' /\ OpInv'
<1>1. DOMAIN inst[i] = ObjectFields /\ Legal(i, inst[i]) /\ inst[i].op \in Ops
    BY LegalFound DEF OpInv
<1>2. ASSUME NEW o, SetInstallation(i, o), SameOutcome(inst[i], o), o.op \in Ops
      PROVE  LegalInv' /\ OpInv'
  <2>1. Legal(i, o)
      BY <1>1, <1>2 DEF Legal, SameOutcome
  <2> QED
      BY <1>2, <2>1, InstallationLegal
<1>3. CASE Alter(i)
  <2> DEFINE o == [inst[i] EXCEPT !.spec.version = @ + 1, !.gen = @ + 1]
  <2>1. SetInstallation(i, o)
      BY <1>3 DEF Alter
  <2>2. SameOutcome(inst[i], o) /\ o.op = inst[i].op
      BY <1>1 DEF ObjectFields, SameOutcome
  <2> HIDE DEF o
  <2> QED
      BY <1>1, <1>2, <2>1, <2>2
<1>4. ASSUME NEW j, Drop(i, j) PROVE LegalInv' /\ OpInv'
  <2> DEFINE o == [inst[i] EXCEPT !.spec.subs = @ \ {j}, !.gen = @ + 1]
  <2>1. SetInstallation(i, o)
      BY <1>4 DEF Drop
  <2>2. SameOutcome(inst[i], o) /\ o.op = inst[i].op
      BY <1>1 DEF ObjectFields, SameOutcome
  <2> HIDE DEF o
  <2> QED
      BY <1>1, <1>2, <2>1, <2>2
<1>5. CASE DeleteInstallation(i)
  <2>1. SetInstallation(i, Deleted(inst[i])) /\ Legal(i, Deleted(inst[i]))
      BY <1>1, <1>5, DeletedLegal DEF DeleteInstallation
  <2>2. Deleted(inst[i]).op \in {inst[i].op, "none"}
    <3>1. [inst[i] EXCEPT !.del = TRUE, !.gen = @ + 1].op = inst[i].op
        BY <1>1 DEF ObjectFields
    <3>2. NoInstallation.op = "none"
        BY DEF NoInstallation
    <3> QED
        BY <3>1, <3>2 DEF Deleted
  <2> HIDE DEF Deleted
  <2> QED
      BY <1>1, <2>1, <2>2, InstallationLegal DEF Ops
<1>6. ASSUME NEW op \in Ops, SetOperation(i, op) PROVE LegalInv' /\ OpInv'
  <2> DEFINE o == [inst[i] EXCEPT !.op = op]
  <2>1. SetInstallation(i, o)
      BY <1>6 DEF SetOperation
  <2>2. SameOutcome(inst[i], o) /\ o.op = op
      BY <1>1 DEF ObjectFields, SameOutcome
  <2> HIDE DEF o
  <2> QED
      BY <1>2, <2>1, <2>2
<1> QED
    BY <1>3, <1>4, <1>5, <1>6 DEF Environment

LEMMA DataLegal ==
    ASSUME NEW k \in Keys, RecordInv, LegalInv, OpInv, ChangeData(k)
    PROVE  LegalInv' /\ OpInv'
<1> DEFINE J == {i \in Roots : inst[i].live /\ k \in Imports[i]}
<1>1. /\ run' = run
      /\ inst' = [i \in Insts |-> IF i \in J THEN [inst[i] EXCEPT !.op = "reconcile"]
                                  ELSE inst[i]]
    BY DEF ChangeData, Others, Roots
<1> HIDE DEF J
<1>2. \A i \in Insts : Legal(i, inst'[i])
    BY <1>1, OpsLegal
<1>3. \A i \in Insts : inst'[i].op \in {inst[i].op, "reconcile"}
  <2>1. \A i \in Insts : [inst[i] EXCEPT !.op = "reconcile"].op = "reconcile"
      BY RunShape DEF ObjectFields
  <2> QED
      BY <1>1, <2>1
<1> QED
    BY <1>1, <1>2, <1>3 DEF LegalInv, OpInv, Ops

LEMMA StepOps ==
    ASSUME NEW i \in Insts, RecordInv, OpInv, Effects(i)
    PROVE  OpInv'
<1>1. /\ \A k \in Insts : inst'[k].op \in {inst[k].op, "none", "reconcile"}
      /\ run'[i].l.op \in {run[i].l.op, inst[i].op, "none"}
      /\ \A k \in Insts \ {i} : run'[k] = run[k]
    BY DEF Effects, ObjectEffects, Holds, RecordInv, ShapeInv
<1> QED
    BY <1>1 DEF OpInv, Ops

LEMMA GetOps ==
    ASSUME NEW i \in Insts, RecordInv, OpInv, Get(i)
    PROVE  OpInv'
<1>1. inst' = inst /\ (run' = run \/ \E p : run' = [run EXCEPT ![i] = [Idle EXCEPT !.pc = p, !.l = inst[i]]])
    BY DEF Get
<1>2. ASSUME NEW p, run' = [run EXCEPT ![i] = [Idle EXCEPT !.pc = p, !.l = inst[i]]]
      PROVE  \A k \in Insts : run'[k].l.op \in {run[k].l.op, inst[k].op}
  <2> PICK s : s = [Idle EXCEPT !.pc = p, !.l = inst[i]]
      OBVIOUS
  <2>1. s.l = inst[i]
      BY DEF Idle
  <2>2. \A k \in Insts : run'[k] = IF k = i THEN s ELSE run[k]
      BY <1>2 DEF RecordInv, ShapeInv
  <2> QED
      BY <2>1, <2>2
<1> QED
    BY <1>1, <1>2 DEF OpInv

LEMMA LegalNext ==
    ASSUME RecordInv, ExecShape, LegalInv, OpInv, [Next]_vars
    PROVE  LegalInv' /\ OpInv'
<1>1. ASSUME NEW i \in Insts, Get(i) PROVE LegalInv' /\ OpInv'
    BY <1>1, GetLegal, GetOps
<1>2. ASSUME NEW i \in Insts, Step(i) PROVE LegalInv' /\ OpInv'
  <2>1. LegalInv'
      BY <1>2, AddFinalizerLegal, DropReconcileLegal, FinishLegal, CheckChildrenLegal,
       InitPrerequisitesLegal, CheckEligibleLegal,
         ReadValuesLegal, WriteImportsLegal, EnsureSubsLegal, CreateSubLegal,
         TriggerLegal, EnsureExecutionLegal, DropForceLegal, WriteExportsLegal,
         PublishLegal, RecheckLegal, RephaseLegal, DeleteLegal, DeleteAllLegal,
         RemoveFinalizerLegal DEF Step
  <2> QED
      BY <1>2, <2>1, RunStepEffects, StepOps
<1>3. ASSUME UNCHANGED <<inst, run>> PROVE LegalInv' /\ OpInv'
    BY <1>3 DEF LegalInv, OpInv
<1>4. ASSUME NEW i \in Insts, ExecutionStep(i) \/ Drift(i) \/ CollectGarbage(i)
      PROVE  LegalInv' /\ OpInv'
  <2>1. UNCHANGED <<inst, run>>
    <3>1. CASE CollectGarbage(i)
        BY <3>1 DEF CollectGarbage, Others
    <3>2. CASE ExecutionStep(i) \/ Drift(i)
      <4>1. \E e : SetExecution(i, e)
          BY <3>2 DEF ExecutionStep, Drift, StartExecution, EndExecution, EndDeletion
      <4> QED
          BY <4>1 DEF SetExecution, Others
    <3> QED
        BY <1>4, <3>1, <3>2
  <2> QED
      BY <1>3, <2>1
<1>5. CASE Crash
  <2>1. inst' = inst /\ \A i \in Insts : run'[i] = Idle
      BY <1>5 DEF Crash
  <2>2. Idle.l.op = "none"
      BY DEF Idle, NoInstallation
  <2> HIDE DEF Idle
  <2> QED
      BY <2>1, <2>2, NewLegal DEF LegalInv, OpInv, Ops
<1> QED
    BY <1>1, <1>2, <1>3, <1>4, <1>5, UserLegal, DataLegal DEF Next, Environment, vars

-----------------------------------------------------------------------------
(* The executions.                                                         *)

LEMMA ChangedExecution ==
    ASSUME NEW e, TypedExecution(e)
    PROVE  /\ \A in : \A op : /\ TypedExecution([e EXCEPT !.op = op, !.in = in])
                              /\ TypedExecution([e EXCEPT !.op = op, !.in = in, !.gen = @ + 1])
           /\ \A op : TypedExecution([e EXCEPT !.op = op])
           /\ TypedExecution([e EXCEPT !.del = TRUE, !.gen = @ + 1])
           /\ \A p \in Phase : /\ TypedExecution([e EXCEPT !.obs = e.gen, !.op = "none", !.phase = p])
                               /\ TypedExecution([e EXCEPT !.phase = p])
                               /\ \A out : TypedExecution([e EXCEPT !.phase = p, !.out = out])
<1> USE DEF TypedExecution, IsExecution, ExecutionFields
<1>1. \A in : \A op : TypedExecution([e EXCEPT !.op = op, !.in = in])
    OBVIOUS
<1>2. \A in : \A op : TypedExecution([e EXCEPT !.op = op, !.in = in, !.gen = @ + 1])
    OBVIOUS
<1>3. \A op : TypedExecution([e EXCEPT !.op = op])
    OBVIOUS
<1>4. TypedExecution([e EXCEPT !.del = TRUE, !.gen = @ + 1])
    OBVIOUS
<1>5. \A p \in Phase : TypedExecution([e EXCEPT !.obs = e.gen, !.op = "none", !.phase = p])
    OBVIOUS
<1>6. \A p \in Phase : TypedExecution([e EXCEPT !.phase = p])
    OBVIOUS
<1>7. \A p \in Phase : \A out : TypedExecution([e EXCEPT !.phase = p, !.out = out])
    OBVIOUS
<1> QED
    BY <1>1, <1>2, <1>3, <1>4, <1>5, <1>6, <1>7

LEMMA NewExecution ==
    /\ TypedExecution(NoExecution)
    /\ \A op, in : TypedExecution([NoExecution EXCEPT !.live = TRUE, !.gen = 1, !.op = op, !.in = in])
BY DEF TypedExecution, IsExecution, ExecutionFields, NoExecution, Phase, NoPhase

\* One execution becomes e.
LEMMA ExecutionBecomes ==
    ASSUME NEW i \in Insts, NEW e, ExecInv, TypedExecution(e), exec' = [exec EXCEPT ![i] = e]
    PROVE  ExecInv'
BY DEF ExecInv, TypedExecution

LEMMA RolloutTyped ==
    ASSUME NEW i \in Insts, ExecInv
    PROVE  TypedExecution(Rollout(i))
<1> DEFINE in == Rendered(run[i].l, run[i].vals)
           op == IF run[i].l.op = "force" THEN "force" ELSE "reconcile"
           e == exec[i]
           new == [NoExecution EXCEPT !.live = TRUE, !.gen = 1, !.op = op, !.in = in]
           same == [e EXCEPT !.op = op, !.in = in]
           other == [e EXCEPT !.op = op, !.in = in, !.gen = @ + 1]
<1>1. TypedExecution(e)
    BY DEF ExecInv
<1>2. TypedExecution(new) /\ TypedExecution(same) /\ TypedExecution(other)
    BY <1>1, ChangedExecution, NewExecution
<1>3. CASE ~e.live
  <2>1. Rollout(i) = new
      BY <1>3 DEF Rollout
  <2> QED
      BY <1>2, <2>1
<1>4. CASE e.live /\ in = e.in
  <2>1. Rollout(i) = [e EXCEPT !.op = op, !.in = in, !.gen = @]
      BY <1>4 DEF Rollout
  <2>2. [e EXCEPT !.op = op, !.in = in, !.gen = @] = same
      BY <1>1 DEF TypedExecution, IsExecution, ExecutionFields
  <2> QED
      BY <1>2, <2>1, <2>2
<1>5. CASE e.live /\ in # e.in
  <2>1. Rollout(i) = other
      BY <1>5 DEF Rollout
  <2> QED
      BY <1>2, <2>1
<1> QED
    BY <1>3, <1>4, <1>5

LEMMA StepExecution ==
    ASSUME NEW i \in Insts, ExecInv, Step(i)
    PROVE  ExecInv'
<1> DEFINE marked == [exec[i] EXCEPT !.del = TRUE, !.gen = @ + 1]
           forced == [exec[i] EXCEPT !.op = "force"]
<1>1. TypedExecution(exec[i]) /\ DOMAIN exec = Insts
    BY DEF ExecInv
<1>2. TypedExecution(marked) /\ TypedExecution(forced) /\ TypedExecution(Rollout(i))
    BY <1>1, ChangedExecution, RolloutTyped
<1>3. CASE EnsureExecution(i)
  <2>1. exec' = exec \/ exec' = [exec EXCEPT ![i] = Rollout(i)]
      BY <1>3 DEF EnsureExecution
  <2> QED
      BY <1>2, <2>1, ExecutionBecomes DEF ExecInv
<1>4. CASE DeleteAll(i)
  <2>1. \/ exec' = exec
        \/ exec' = [exec EXCEPT ![i].del = TRUE, ![i].gen = @ + 1]
        \/ exec' = [exec EXCEPT ![i].op = "force"]
      BY <1>4 DEF DeleteAll
  <2>2. \/ exec' = exec \/ exec' = [exec EXCEPT ![i] = marked]
        \/ exec' = [exec EXCEPT ![i] = forced]
      BY <1>1, <2>1
  <2> HIDE DEF marked, forced
  <2> QED
      BY <1>2, <2>2, ExecutionBecomes DEF ExecInv
<1>5. CASE ~EnsureExecution(i) /\ ~DeleteAll(i)
  <2>1. exec' = exec
      BY <1>5 DEF Step, AddFinalizer, DropReconcile, Finish, CheckChildren,
         InitPrerequisites, CheckEligible, ReadValues, WriteImports, EnsureSubs,
         CreateSub, TriggerSubs, DropForce, WriteExports, Publish,
         TriggerDependants, Recheck, Rephase, Delete, RemoveFinalizer
  <2> QED
      BY <2>1 DEF ExecInv
<1> QED
    BY <1>3, <1>4, <1>5

LEMMA ExecutionNext ==
    ASSUME ExecInv, [Next]_vars
    PROVE  ExecInv'
<1>1. ASSUME NEW i \in Insts, ExecutionStep(i) \/ Drift(i) PROVE ExecInv'
  <2> DEFINE e == exec[i]
             started(p) == [e EXCEPT !.obs = e.gen, !.op = "none", !.phase = p]
             succeeded == [e EXCEPT !.phase = "Succeeded", !.out = e.in]
             moved(p) == [e EXCEPT !.phase = p]
  <2>1. TypedExecution(e)
      BY DEF ExecInv
  <2>2. \/ \E p \in {"Deleting", "Progressing"} : SetExecution(i, started(p))
        \/ SetExecution(i, succeeded)
        \/ \E p \in {"Failed", "Progressing"} : SetExecution(i, moved(p))
        \/ SetExecution(i, NoExecution)
      BY <1>1 DEF ExecutionStep, Drift, StartExecution, EndExecution, EndDeletion
  <2>3. "Deleting" \in Phase /\ "Progressing" \in Phase /\ "Failed" \in Phase /\ "Succeeded" \in Phase
      BY DEF Phase, RunningPhases, CompletedPhases
  <2>4. /\ TypedExecution(succeeded) /\ TypedExecution(NoExecution)
        /\ \A p \in {"Deleting", "Progressing", "Failed"} :
              TypedExecution(started(p)) /\ TypedExecution(moved(p))
      BY <2>1, <2>3, ChangedExecution, NewExecution
  <2> HIDE DEF started, succeeded, moved, NoExecution
  <2>5. PICK x : TypedExecution(x) /\ SetExecution(i, x)
      BY <2>2, <2>4
  <2> QED
      BY <2>5, ExecutionBecomes DEF SetExecution
<1>2. ASSUME NEW i \in Insts, Step(i) PROVE ExecInv'
    BY <1>2, StepExecution
<1>3. ASSUME exec' = exec PROVE ExecInv'
    BY <1>3 DEF ExecInv
<1>4. ASSUME NEW i \in Insts, Get(i) \/ CollectGarbage(i) \/ (Environment(i) /\ ~Drift(i))
      PROVE  exec' = exec
    BY <1>4 DEF Get, CollectGarbage, Environment, Alter, DeleteInstallation, Drop,
       SetOperation, SetInstallation
<1>5. ASSUME Crash \/ UNCHANGED vars \/ \E k \in Keys : ChangeData(k) PROVE exec' = exec
    BY <1>5 DEF Crash, vars, ChangeData
<1> QED
    BY <1>1, <1>2, <1>3, <1>4, <1>5 DEF Next, Environment


-----------------------------------------------------------------------------
(* The queue, the workers and the events.                                  *)

BudgetKept == budget' = budget \/ (budget > 0 /\ budget' = budget - 1)

\* What a run may do with the queue and with the versions it holds.
LEMMA StepSchedule ==
    ASSUME NEW i \in Insts, Step(i)
    PROVE  /\ run[i].pc # "idle" /\ BudgetKept
           /\ \E s : GoesOn(i, s)
<1> USE DEF At, BudgetKept, Spend, Refused
<1>1. run[i].pc # "idle"
    BY DEF Step, AddFinalizer, DropReconcile, Finish, CheckChildren,
       InitPrerequisites, CheckEligible, ReadValues, WriteImports, EnsureSubs,
       CreateSub, TriggerSubs, EnsureExecution, DropForce, WriteExports, Publish,
       TriggerDependants, Recheck, Rephase, Delete, DeleteAll, RemoveFinalizer
<1>2. BudgetKept
  <2>1. CASE AddFinalizer(i) \/ DropReconcile(i) \/ Finish(i)
      BY <2>1 DEF AddFinalizer, DropReconcile, Finish
  <2>2. CASE ReadValues(i) \/ WriteImports(i) \/ EnsureSubs(i) \/ CreateSub(i)
      BY <2>2 DEF ReadValues, WriteImports, EnsureSubs, CreateSub
  <2>3. CASE TriggerSubs(i) \/ EnsureExecution(i) \/ DropForce(i) \/ WriteExports(i)
      BY <2>3 DEF TriggerSubs, EnsureExecution, DropForce, WriteExports
  <2>4. CASE Publish(i) \/ TriggerDependants(i) \/ Recheck(i) \/ Rephase(i)
      BY <2>4 DEF Publish, TriggerDependants, Recheck, Rephase
  <2>5. CASE Delete(i) \/ DeleteAll(i) \/ RemoveFinalizer(i)
      BY <2>5 DEF Delete, DeleteAll, RemoveFinalizer
  <2>6. CASE CheckChildren(i) \/ InitPrerequisites(i) \/ CheckEligible(i)
      BY <2>6 DEF CheckChildren, InitPrerequisites, CheckEligible
  <2> QED
      BY <2>1, <2>2, <2>3, <2>4, <2>5, <2>6 DEF Step
<1>3. \/ \E s : Continue(i, s)
      \/ inst' = inst /\ \E s : ReadContext(i, s)
      \/ \E failed : Return(i, failed)
  <2>1. CASE AddFinalizer(i) \/ DropReconcile(i) \/ Finish(i)
      BY <2>1 DEF AddFinalizer, DropReconcile, Finish
  <2>2. CASE ReadValues(i) \/ WriteImports(i) \/ EnsureSubs(i) \/ CreateSub(i)
      BY <2>2 DEF ReadValues, WriteImports, EnsureSubs, CreateSub
  <2>3. CASE TriggerSubs(i) \/ EnsureExecution(i) \/ DropForce(i) \/ WriteExports(i)
      BY <2>3 DEF TriggerSubs, EnsureExecution, DropForce, WriteExports
  <2>4. CASE Publish(i) \/ TriggerDependants(i) \/ Recheck(i) \/ Rephase(i)
      BY <2>4 DEF Publish, TriggerDependants, Recheck, Rephase
  <2>5. CASE Delete(i) \/ DeleteAll(i) \/ RemoveFinalizer(i)
      BY <2>5 DEF Delete, DeleteAll, RemoveFinalizer
  <2>6. CASE CheckChildren(i) \/ InitPrerequisites(i) \/ CheckEligible(i)
      BY <2>6 DEF CheckChildren, InitPrerequisites, CheckEligible
  <2> QED
      BY <2>1, <2>2, <2>3, <2>4, <2>5, <2>6 DEF Step
<1> QED
    BY <1>1, <1>2, <1>3 DEF GoesOn

LEMMA WakesInstallations ==
    ASSUME NEW R \in SUBSET Insts, Wake(R), queued \subseteq Insts
    PROVE  queued' \subseteq Insts
BY ForestAssumption DEF Wake

LEMMA FewerRunning ==
    ASSUME ScheduleInv, \A k \in Insts : run'[k].pc # "idle" => run[k].pc # "idle"
    PROVE  Cardinality(Running') <= Workers
<1>1. Running' \subseteq Running /\ IsFiniteSet(Running)
    BY ForestAssumption, FS_Subset DEF Running
<1>2. Cardinality(Running') <= Cardinality(Running)
    BY <1>1, FS_Subset
<1>3. Cardinality(Running) \in Nat /\ Cardinality(Running') \in Nat
    BY <1>1, FS_Subset, FS_CardinalityType
<1> QED
    BY <1>2, <1>3, BoundsAssumption DEF ScheduleInv

LEMMA RunSchedule ==
    ASSUME NEW i \in Insts, RecordInv, ScheduleInv, Step(i)
    PROVE  ScheduleInv'
<1>1. PICK s : GoesOn(i, s)
    BY StepSchedule
<1>2. run[i].pc # "idle" /\ BudgetKept
    BY StepSchedule
<1>3. budget' \in 0..MaxEvents
    BY <1>2, BoundsAssumption DEF BudgetKept, ScheduleInv
<1>4. queued' \subseteq Insts
    BY <1>1, WakesInstallations DEF GoesOn, Continue, ReadContext, Return, ScheduleInv
<1>5. ASSUME NEW k \in Insts PROVE fresh'[k] \subseteq {k} \cup Siblings(k)
  <2>1. fresh[k] \subseteq {k} \cup Siblings(k)
      BY DEF ScheduleInv
  <2>2. fresh'[k] \subseteq fresh[k] \cup Siblings(k)
      BY <1>1 DEF GoesOn, Continue, Outdate, ReadContext, Return, RecordInv, ShapeInv
  <2> QED
      BY <2>1, <2>2
<1>6. \A k \in Insts \ {i} : run'[k] = run[k]
    BY <1>1, RunsOn DEF GoesOn, Holds, RecordInv, ShapeInv
<1>7. Cardinality(Running') <= Workers
    BY <1>2, <1>6, FewerRunning
<1> QED
    BY <1>3, <1>4, <1>5, <1>7 DEF ScheduleInv

LEMMA GetSchedule ==
    ASSUME NEW i \in Insts, RecordInv, ScheduleInv, Get(i)
    PROVE  ScheduleInv'
<1>1. /\ queued' \subseteq Insts /\ budget' \in 0..MaxEvents
      /\ Cardinality(Running) < Workers
    BY DEF Get, ScheduleInv
<1>2. ASSUME NEW k \in Insts PROVE fresh'[k] \subseteq {k} \cup Siblings(k)
  <2>1. fresh' = fresh \/ fresh' = [fresh EXCEPT ![i] = {i}]
      BY DEF Get
  <2> QED
      BY <2>1 DEF ScheduleInv, RecordInv, ShapeInv
<1>3. \A k \in Insts \ {i} : run'[k] = run[k]
  <2>1. run' = run \/ \E s : run' = [run EXCEPT ![i] = s]
      BY DEF Get
  <2> QED
      BY <2>1 DEF RecordInv, ShapeInv
<1>4. Cardinality(Running') <= Workers
  <2>1. Running' \subseteq Running \cup {i} /\ IsFiniteSet(Running)
      BY <1>3, ForestAssumption, FS_Subset DEF Running
  <2>2. i \notin Running
      BY DEF Get, At, Running
  <2>3. /\ IsFiniteSet(Running \cup {i})
        /\ Cardinality(Running \cup {i}) = Cardinality(Running) + 1
      BY <2>1, <2>2, FS_AddElement
  <2>4. Cardinality(Running') <= Cardinality(Running \cup {i}) /\ IsFiniteSet(Running')
      BY <2>1, <2>3, FS_Subset
  <2>5. Cardinality(Running) \in Nat /\ Cardinality(Running') \in Nat
      BY <2>1, <2>4, FS_CardinalityType
  <2> QED
      BY <1>1, <2>3, <2>4, <2>5, BoundsAssumption
<1> QED
    BY <1>1, <1>2, <1>4 DEF ScheduleInv

\* The environment leaves the runs.
LEMMA OthersSchedule ==
    ASSUME RecordInv, ScheduleInv, Others, BudgetKept
    PROVE  ScheduleInv'
<1>1. budget' \in 0..MaxEvents
    BY BoundsAssumption DEF BudgetKept, ScheduleInv
<1>2. queued' \subseteq Insts
    BY WakesInstallations DEF Others, ScheduleInv
<1>3. ASSUME NEW k \in Insts PROVE fresh'[k] \subseteq {k} \cup Siblings(k)
  <2>1. fresh'[k] \subseteq fresh[k]
      BY DEF Others, Outdate
  <2> QED
      BY <2>1 DEF ScheduleInv
<1>4. Cardinality(Running') <= Workers
    BY FewerRunning DEF Others
<1> QED
    BY <1>1, <1>2, <1>3, <1>4 DEF ScheduleInv

LEMMA ScheduleNext ==
    ASSUME RecordInv, ScheduleInv, [Next]_vars
    PROVE  ScheduleInv'
<1>1. ASSUME NEW i \in Insts, Get(i) \/ Step(i) PROVE ScheduleInv'
    BY <1>1, GetSchedule, RunSchedule
<1>2. ASSUME NEW i \in Insts, ExecutionStep(i) \/ CollectGarbage(i) \/ Environment(i)
      PROVE  Others /\ BudgetKept
  <2>1. CASE ExecutionStep(i) \/ Drift(i)
      BY <2>1 DEF ExecutionStep, StartExecution, EndExecution, EndDeletion, Drift,
         SetExecution, Spend, BudgetKept
  <2>2. CASE CollectGarbage(i)
      BY <2>2 DEF CollectGarbage, BudgetKept
  <2>3. CASE Environment(i) /\ ~Drift(i)
      BY <2>3 DEF Environment, Alter, DeleteInstallation, Drop, SetOperation,
         SetInstallation, Spend, BudgetKept
  <2> QED
      BY <1>2, <2>1, <2>2, <2>3
<1>3. ASSUME NEW k \in Keys, ChangeData(k) PROVE Others /\ BudgetKept
    BY <1>3 DEF ChangeData, Spend, BudgetKept
<1>4. CASE Crash
  <2>1. /\ queued' \subseteq Insts /\ BudgetKept
        /\ \A i \in Insts : run'[i] = Idle /\ fresh'[i] = {}
      BY <1>4 DEF Crash, Spend, BudgetKept
  <2>2. Idle.pc = "idle"
      BY DEF Idle
  <2> HIDE DEF Idle
  <2>3. Cardinality(Running') <= Workers
      BY <2>1, <2>2, FewerRunning
  <2>4. budget' \in 0..MaxEvents
      BY <2>1, BoundsAssumption DEF BudgetKept, ScheduleInv
  <2> QED
      BY <2>1, <2>3, <2>4 DEF ScheduleInv
<1>5. CASE UNCHANGED vars
    BY <1>5 DEF vars, ScheduleInv, Running
<1> QED
    BY <1>1, <1>2, <1>3, <1>4, <1>5, OthersSchedule DEF Next

LEMMA InitTypes ==
    ASSUME Init
    PROVE  LegalInv /\ OpInv /\ ExecInv /\ ScheduleInv
<1>1. /\ \A i \in Insts : inst[i] \in {NewInstallation(i, 1), NoInstallation}
      /\ \A i \in Insts : run[i] = Idle /\ fresh[i] = {} /\ exec[i] = NoExecution
      /\ DOMAIN exec = Insts /\ queued = Roots /\ budget = MaxEvents
    BY DEF Init
<1>2. /\ \A i \in Insts : NewInstallation(i, 1).op = "none"
      /\ NoInstallation.op = "none" /\ Idle.l = NoInstallation /\ Idle.pc = "idle"
    BY DEF NewInstallation, NoInstallation, Idle
<1> HIDE DEF NewInstallation, NoInstallation, Idle, NoExecution
<1>3. LegalInv /\ OpInv
    BY <1>1, <1>2, NewLegal DEF LegalInv, OpInv, Ops
<1>4. ExecInv
    BY <1>1, NewExecution DEF ExecInv, TypedExecution
<1>5. ScheduleInv
  <2>1. Running = {}
      BY <1>1, <1>2 DEF Running
  <2>2. Cardinality({}) = 0
      BY FS_EmptySet
  <2> QED
      BY <1>1, <2>1, <2>2, BoundsAssumption DEF ScheduleInv, Roots
<1> QED
    BY <1>3, <1>4, <1>5

\* In every forest, with any number of workers, all events and all faults:
\* what the controller stores and holds has its type; no generation is
\* observed before it exists, though statuses are written from copies that may
\* be outdated; the imports are recorded all or not at all; and the workers are
\* not exceeded.
THEOREM InstallationTypeCorrect == SafetySpec => []TypeOK
<1> DEFINE I == RecordInv /\ ShownInv /\ LegalInv /\ OpInv /\ ExecInv /\ ScheduleInv
<1>1. Init => I
    BY InitRecord, ShownInit, InitTypes
<1>2. I /\ [Next]_vars => I'
    BY NextRecord, ShownNext, LegalNext, ExecutionNext, ScheduleNext DEF ShownInv
<1>3. I => TypeOK
  <2> SUFFICES ASSUME I PROVE TypeOK
      OBVIOUS
  <2>1. ASSUME NEW i \in Insts
        PROVE  /\ inst[i].phase \in Phase /\ inst[i].obs <= inst[i].gen
               /\ run[i].pc \in PCs
      BY DEF RecordInv, ShapeInv, Recorded, IsObject, IsRun
  <2>2. ASSUME NEW i \in Insts
        PROVE  /\ inst[i].err \in LastErrors /\ DOMAIN inst[i].imports \in {{}, Imports[i]}
               /\ run[i].refs \subseteq Insts /\ inst[i].op \in Ops
      BY DEF LegalInv, LegalRun, Legal, OpInv
  <2>3. ASSUME NEW i \in Insts
        PROVE  exec[i].phase \in Phase /\ exec[i].obs <= exec[i].gen
      BY DEF ExecInv, TypedExecution, IsExecution
  <2> QED
      BY <2>1, <2>2, <2>3 DEF TypeOK, ScheduleInv
<1> QED
    BY <1>1, <1>2, <1>3, PTL DEF SafetySpec

=============================================================================
