------------------------- MODULE InstallationCurrent -------------------------
(***************************************************************************)
(* What is deployed for a settled installation that is not outdated is     *)
(* what its sources publish: CurrentIsDeployed, for installations side by  *)
(* side, of which those that deploy import the data of users or what       *)
(* others have rendered from it.                                           *)
(*                                                                         *)
(* A config generation tells which value an installation has published,    *)
(* a recorded one which value another has imported.  Values, config        *)
(* generations and what is deployed all carry the versions they come from, *)
(* and these only grow.  The invariant orders them: what a status records  *)
(* is not newer than what is deployed, and that is not newer than what is  *)
(* published.  So when what is recorded is what is published, what is      *)
(* deployed is it too.                                                     *)
(***************************************************************************)
EXTENDS InstallationProofs

-----------------------------------------------------------------------------
(* Installations side by side, of which some import what others render     *)
(* from the data of users.  What is deployed, what a status records and    *)
(* what is published can be compared: it only grows, and what is deployed  *)
(* is between what is recorded and what is published.                      *)

\* The installation exists and is not being deleted.
Remains(i) == inst[i].live /\ ~inst[i].del
Positive == Nat \ {0}

\* What a user wrote, and the config generations of an installation that
\* imports nothing else.
UserData == [version : Positive, imports : {None}]
Plain(a) == a \in Deploys /\ \A k \in Imports[a] : Source(a, k) = Root
Generations(a) == [version : Positive, imports : [Imports[a] -> UserData]]

\* The config generations of an import, and the keys they are computed from.
Confs(i, k) == IF Source(i, k) = Root THEN UserData ELSE Generations(Source(i, k))
Inputs(i, k) == IF Source(i, k) = Root THEN {} ELSE Imports[Source(i, k)]
\* The content u is not newer than v, in its version and in the imports S.
Older(S, u, v) ==
    /\ u.version <= v.version
    /\ \A x \in S : u.imports[x].version <= v.imports[x].version

\* What is around the installation i: which of its imports have a source that
\* is there to stay, their config generations and values, and what i exports.
World(i) ==
    [stays |-> {k \in Imports[i] : Source(i, k) = Root \/ Remains(Source(i, k))},
     conf |-> [k \in Imports[i] |-> ConfOf(i, k)],
     val |-> [k \in Imports[i] |-> data[Root][k]],
     out |-> [k \in Exports[i] |-> data[Root][k]]]

\* The imports im of i, and of two of them the older ones.
Fits(i, im, w) ==
    /\ im = [k \in Imports[i] |-> im[k]]
    /\ \A k \in w.stays : /\ im[k] \in Confs(i, k) /\ w.conf[k] \in Confs(i, k)
                          /\ Older(Inputs(i, k), im[k], w.conf[k])
\* Of two records of imports of i, im is not newer than jm.
Before(i, im, jm, w) == \A k \in w.stays : Older(Inputs(i, k), im[k], jm[k])

\* The execution of i is that of a version up to v.
Rolled(i, e, v, w) ==
    e.live =>
       /\ ~e.del /\ e.phase # "Deleting"
       /\ e.gen \in Positive /\ e.obs \in Nat /\ e.obs <= e.gen
       /\ e.obs # 0 => e.phase # NoPhase
       /\ e.in = Computed(e.in.version, e.in.imports)
       /\ e.in.version \in Positive /\ e.in.version <= v /\ Fits(i, e.in.imports, w)
       /\ e.phase = "Succeeded" /\ e.gen = e.obs => e.out = e.in

\* What the status of o, of the object or of the copy of a run, stands for.
Published(i, o, e, w) ==
    /\ o.obs # 0 => o.obs <= e.in.version /\ o.phase # NoPhase
    /\ IsCompleted(o.phase) /\ o.obs # 0 =>
          e.gen = e.obs /\ e.in = Computed(o.obs, o.imports)
    /\ o.phase = "Succeeded" =>
          /\ o.obs # 0 /\ o.conf = e.in
          /\ \A k \in Exports[i] : w.out[k] = e.in
    /\ o.conf # NoValue =>
          e.live /\ o.conf \in Generations(i) /\ Older(Imports[i], o.conf, e.in)
\* The record of o is not newer than the execution e.
Reports(i, o, e, w) ==
    /\ o.imports # None =>
          Fits(i, o.imports, w) /\ (e.live => Before(i, o.imports, e.in.imports, w))
    /\ o.obs # 0 => e.live
    /\ Plain(i) => Published(i, o, e, w)

\* A run with r has found that its execution is that of its copy.
Complete(r, e) ==
    /\ r.l.obs = r.l.gen /\ e.live /\ e.gen = e.obs
    /\ e.in = Computed(r.l.gen, r.l.imports)
\* A run with r has found that its execution has finished.
Finished(r, e) ==
    e.live => e.gen = e.obs /\ (r.mode = "Succeeded" => e.out = e.in)
\* What a run knows that collects the exports of its execution and publishes them.
Exporting(i, r, e, w) ==
    /\ r.pc = "eligible" \/ (r.pc = "context" /\ r.l.op # "force") => Finished(r, e)
    /\ \/ r.pc \in {"values", "confs"} /\ r.mode = "complete"
       \/ r.pc \in {"exports", "publish"}
       => Complete(r, e) /\ e.out = e.in
    /\ r.pc = "publish" => \A k \in Exports[i] : w.out[k] = e.in
    /\ r.pc = "rephase" =>
          /\ Complete(r, e) /\ r.mode # NoPhase
          /\ r.mode = "Succeeded" =>
                r.l.conf = e.in /\ \A k \in Exports[i] : w.out[k] = e.in

\* What a run with r knows at its next call.
Updates == {"ensure", "subs", "trigger", "exec"}
Knows(i, o, e, r, w) ==
    /\ r.pc = "recheck" => IsCompleted(r.l.phase) /\ r.l.obs = r.l.gen
    /\ r.pc \in {"eligible", "values"} /\ r.ready =>
          \A k \in w.stays : Source(i, k) # Root =>
             w.val[k] = w.conf[k] /\ w.conf[k] \in Confs(i, k)
    /\ r.pc \in Pipeline =>
          /\ Fits(i, r.vals, w)
          /\ e.live => Before(i, e.in.imports, r.vals, w)
          /\ \A im \in {o.imports, r.l.imports} : im # None => Before(i, im, r.vals, w)
    /\ r.pc = "confs" =>
          \A k \in w.stays : Source(i, k) # Root => r.vals[k] = w.conf[k]
    /\ r.pc \in Updates =>
          /\ Fits(i, r.confs, w) /\ Before(i, r.confs, r.vals, w)
          /\ ~IsCompleted(r.l.phase)
    /\ r.pc \in {"trigger", "exec", "dropForce"} => ~IsCompleted(o.phase)
    /\ r.pc = "dropForce" => e.live /\ e.in.version = r.l.spec.version
    /\ Plain(i) =>
          /\ Exporting(i, r, e, w)
          /\ r.l.conf = o.conf \/ (r.pc = "finish" /\ e.live /\ r.l.conf = e.in)
\* The run of i, with its copy and at its next call.
Stage(i, o, e, r, w) ==
    /\ Reports(i, r.l, e, w)
    /\ e.live => e.in.version <= r.l.spec.version
    /\ Knows(i, o, e, r, w)

\* A generation is a version, or the mark of a deletion; and what is marked is
\* not completed again.
Counted(o) ==
    /\ o.spec.version # 0
    /\ o.gen = IF o.del THEN o.spec.version + 1 ELSE o.spec.version
Doomed(o) == o.del /\ o.obs = o.gen => ~IsCompleted(o.phase) /\ o.phase # NoPhase
\* The calls of a run that finds the installation completed; a run of a deletion has none.
Forward(r) ==
    \/ r.pc \in {"dropOp", "check", "context", "eligible", "recheck"}
    \/ r.pc \in {"exports", "publish", "rephase", "dependants"}
    \/ r.pc \in {"values", "confs"} /\ r.mode = "complete"

\* All of this for one installation, of which nothing is said once it is leaving.
CurrentOf(i, o, e, r, w) ==
  i \in Deploys =>
    /\ o.op # "abort" /\ (o.live => Counted(o) /\ Doomed(o))
    /\ Busy(r) => /\ r.l.op # "abort" /\ Counted(r.l) /\ Doomed(r.l)
                  /\ Forward(r) => ~r.l.del
    /\ o.live /\ ~o.del =>
          /\ Rolled(i, e, o.spec.version, w) /\ Reports(i, o, e, w)
          /\ Busy(r) => Stage(i, o, e, r, w)

\* There is a data object for every key.
DataShape == Root \in DOMAIN data /\ DOMAIN data[Root] = Keys
\* The inductive invariant: data, and every installation with its world.
CurrentInv ==
    /\ DataShape
    /\ \A k \in Keys : Owner(Root, k) = Root => data[Root][k] \in UserData
    /\ \A i \in Insts : CurrentOf(i, inst[i], exec[i], run[i], World(i))

-----------------------------------------------------------------------------
(* The order.                                                              *)

\* The order of two config generations of an import is an order.
LEMMA Ordered ==
    ASSUME NEW i, NEW k, NEW u \in Confs(i, k), NEW v \in Confs(i, k),
           NEW x \in Confs(i, k)
    PROVE  LET S == Inputs(i, k) IN
           /\ Older(S, u, u)
           /\ Older(S, u, v) /\ Older(S, v, x) => Older(S, u, x)
           /\ Older(S, u, v) /\ Older(S, v, u) => u = v
<1>1. CASE Source(i, k) = Root
  <2>1. u \in UserData /\ v \in UserData /\ x \in UserData /\ Inputs(i, k) = {}
      BY <1>1 DEF Confs, Inputs
  <2> QED
      BY <2>1 DEF UserData, Older, Positive
<1>2. CASE Source(i, k) # Root
  <2> DEFINE a == Source(i, k)
  <2>1. /\ u \in Generations(a) /\ v \in Generations(a) /\ x \in Generations(a)
        /\ Inputs(i, k) = Imports[a]
      BY <1>2 DEF Confs, Inputs
  <2>2. \A y \in Imports[a] : /\ u.imports[y] \in UserData /\ v.imports[y] \in UserData
                              /\ x.imports[y] \in UserData
      BY <2>1 DEF Generations
  <2>3. /\ u.version \in Nat /\ v.version \in Nat /\ x.version \in Nat
        /\ \A y \in Imports[a] : /\ u.imports[y].version \in Nat
                                 /\ v.imports[y].version \in Nat
                                 /\ x.imports[y].version \in Nat
      BY <2>1, <2>2 DEF Generations, UserData, Positive
  <2>4. ASSUME Older(Imports[a], u, v), Older(Imports[a], v, u) PROVE u = v
    <3>1. u.version = v.version
        BY <2>3, <2>4 DEF Older
    <3>2. \A y \in Imports[a] : u.imports[y] = v.imports[y]
        BY <2>2, <2>3, <2>4 DEF Older, UserData
    <3>3. u.imports = v.imports
        BY <2>1, <3>2 DEF Generations
    <3> QED
        BY <2>1, <3>1, <3>3 DEF Generations
  <2> QED
      BY <2>1, <2>3, <2>4 DEF Older
<1> QED
    BY <1>1, <1>2

\* The world goes on: sources disappear, config generations grow.
Grows(i, w, w1) ==
    /\ w1.stays \subseteq w.stays
    /\ \A k \in w1.stays : w.conf[k] \in Confs(i, k) =>
          w1.conf[k] \in Confs(i, k) /\ Older(Inputs(i, k), w.conf[k], w1.conf[k])

\* Imports stay old when the world grows.
LEMMA FitsStays ==
    ASSUME NEW i, NEW w, NEW w1, Grows(i, w, w1)
    PROVE  /\ \A im : Fits(i, im, w) => Fits(i, im, w1)
           /\ \A im, jm : Before(i, im, jm, w) => Before(i, im, jm, w1)
<1>1. ASSUME NEW im, Fits(i, im, w) PROVE Fits(i, im, w1)
  <2>1. ASSUME NEW k \in w1.stays
        PROVE  /\ im[k] \in Confs(i, k) /\ w1.conf[k] \in Confs(i, k)
               /\ Older(Inputs(i, k), im[k], w1.conf[k])
      BY <1>1, Ordered DEF Grows, Fits
  <2> QED
      BY <1>1, <2>1 DEF Fits
<1> QED
    BY <1>1 DEF Grows, Before

\* So does what a status stands for, as long as the exports stay,
LEMMA ReportsStay ==
    ASSUME NEW i, NEW o, NEW e, NEW w, NEW w1, Reports(i, o, e, w),
           Grows(i, w, w1), w1.out = w.out
    PROVE  Reports(i, o, e, w1)
BY FitsStays DEF Reports, Published

\* and the execution with what it was rolled out from.
LEMMA RolledStays ==
    ASSUME NEW i, NEW e, NEW v \in Nat, NEW v1 \in Nat, v <= v1, NEW w, NEW w1,
           Rolled(i, e, v, w), Grows(i, w, w1)
    PROVE  Rolled(i, e, v1, w1)
BY FitsStays DEF Rolled, Positive

-----------------------------------------------------------------------------
(* Installations side by side.                                             *)

\* No installation has subinstallations, and what is imported is the data of
\* users or rendered from it.
SideBySide ==
    /\ Insts = Roots
    /\ \A i \in Deploys : \A k \in Imports[i] :
          Source(i, k) = Root \/ Plain(Source(i, k))

LEMMA NoParents ==
    ASSUME SideBySide
    PROVE  /\ \A i \in Insts : /\ Parent[i] = Root /\ Children(i) = {}
                               /\ Siblings(i) = Insts \ {i}
           /\ \A i \in Insts, k \in Keys : Source(i, k) = Owner(Root, k)
           /\ \A j \in Insts : \A k \in Exports[j] : k \in Keys /\ Owner(Root, k) = j
           /\ \A k \in Keys : Owner(Root, k) # Root =>
                 Owner(Root, k) \in Insts /\ k \in Exports[Owner(Root, k)]
           /\ \A i \in Insts : Imports[i] \subseteq Keys /\ Exports[i] \subseteq Keys
<1>1. \A i \in Insts : Parent[i] = Root
    BY DEF SideBySide, Roots
<1>2. Root \notin Insts
    BY ForestAssumption
<1>3. \A i \in Insts : Children(i) = {} /\ Siblings(i) = Insts \ {i}
    BY <1>1, <1>2 DEF Children, Siblings
<1>4. Children(Root) = Insts
    BY <1>1 DEF Children
<1>5. \A k : Owner(Root, k) = IF \E j \in Insts : k \in Exports[j]
                              THEN CHOOSE j \in Insts : k \in Exports[j] ELSE Root
    BY <1>4 DEF Owner
<1>6. \A i \in Insts : Imports[i] \subseteq Keys /\ Exports[i] \subseteq Keys
    BY DataFlowAssumption
<1>7. \A i, j \in Insts : i # j => Exports[i] \cap Exports[j] = {}
    BY <1>3, DataFlowAssumption
<1>8. ASSUME NEW j \in Insts, NEW k \in Exports[j] PROVE Owner(Root, k) = j
  <2>1. Owner(Root, k) = CHOOSE x \in Insts : k \in Exports[x]
      BY <1>5
  <2>2. \A x \in Insts : k \in Exports[x] => x = j
      BY <1>7
  <2> QED
      BY <2>1, <2>2
<1>9. ASSUME NEW k, Owner(Root, k) # Root
      PROVE  Owner(Root, k) \in Insts /\ k \in Exports[Owner(Root, k)]
    BY <1>5, <1>9
<1> QED
    BY <1>1, <1>3, <1>6, <1>8, <1>9 DEF Source

\* An import of what deploys comes from users or from another that deploys.
LEMMA SourceKinds ==
    ASSUME SideBySide, NEW i \in Deploys, NEW k \in Imports[i], Source(i, k) # Root
    PROVE  /\ Source(i, k) \in Deploys /\ Source(i, k) \in Insts \ {i}
           /\ Plain(Source(i, k)) /\ k \in Exports[Source(i, k)] /\ k \in Keys
           /\ Source(i, k) \in SiblingSources(i)
<1>1. i \in Insts /\ k \in Keys /\ Source(i, k) = Owner(Root, k)
    BY NoParents, DataFlowAssumption
<1>2. Plain(Source(i, k))
    BY DEF SideBySide
<1>3. Source(i, k) # i
    BY <1>2 DEF Plain
<1> QED
    BY <1>1, <1>2, <1>3, NoParents DEF Plain, SiblingSources

\* A plain installation waits for nobody.
LEMMA PlainIsFree ==
    ASSUME SideBySide, NEW i \in Insts, Plain(i)
    PROVE  SiblingSources(i) = {} /\ DependenciesCompleted(i)
<1>1. SiblingSources(i) = {}
    BY ForestAssumption DEF SiblingSources, Siblings, Plain
<1>2. {} \in Closed([x \in Insts |-> SiblingSources(x)], i)
    BY <1>1 DEF Closed
<1>3. Upstream(i) = {}
    BY <1>2 DEF Upstream, Sources, Reached
<1> QED
    BY <1>1, <1>3, NoParents DEF DependenciesCompleted, SourcesCompleted

-----------------------------------------------------------------------------
(* What others do to an installation and to what is around it.             *)

\* The status of o, as far as it records something.
SameRecord(o, p) ==
    /\ p.obs = o.obs /\ p.phase = o.phase /\ p.imports = o.imports /\ p.conf = o.conf

\* While a run is under way nobody else publishes.
Watched(i, w, w1) ==
    \A k \in w1.stays : Source(i, k) # Root => w1.conf[k] = w.conf[k] /\ w1.val[k] = w.val[k]

\* The execution controller: an execution that is not deleted starts and ends.
Proceeds(e, f) ==
    \/ f = e
    \/ e.live /\ (e.del \/ e.phase = "Deleting")
    \/ /\ e.live /\ f.live /\ f.in = e.in /\ f.gen = e.gen /\ f.del = e.del
       /\ f.obs \in {e.obs, e.gen}
       /\ e.gen = e.obs /\ e.out = e.in => f.out = e.in
       /\ f.phase = "Deleting" => e.del
       /\ f.phase # NoPhase
       /\ f.phase = "Succeeded" => f.out = f.in

\* The execution controller changes the outcome of a rollout and not its content.
LEMMA ProceedsRolled ==
    ASSUME NEW i, NEW e, NEW f, NEW v \in Nat, NEW v1 \in Nat, v <= v1, NEW w, NEW w1,
           Rolled(i, e, v, w), Grows(i, w, w1), Proceeds(e, f)
    PROVE  /\ Rolled(i, f, v1, w1) /\ f.live = e.live
           /\ e.live => /\ f.in = e.in /\ f.gen = e.gen
                        /\ e.gen = e.obs => f.gen = f.obs
                        /\ e.gen = e.obs /\ e.out = e.in => f.out = e.in
<1>1. CASE f = e
    BY <1>1, RolledStays
<1>2. CASE f # e
  <2>1. /\ e.live /\ f.live /\ f.in = e.in /\ f.gen = e.gen /\ f.del = e.del
        /\ f.obs \in {e.obs, e.gen}
        /\ e.gen = e.obs /\ e.out = e.in => f.out = e.in
        /\ f.phase = "Deleting" => e.del
        /\ f.phase # NoPhase
        /\ f.phase = "Succeeded" => f.out = f.in
        /\ ~e.del /\ e.gen \in Nat /\ e.obs \in Nat /\ e.obs <= e.gen /\ e.gen # 0
      BY <1>2 DEF Proceeds, Rolled, Positive
  <2>2. Rolled(i, e, v1, w1)
      BY RolledStays
  <2>3. Rolled(i, f, v1, w1)
      BY <2>1, <2>2 DEF Rolled, Positive
  <2> QED
      BY <2>1, <2>3
<1> QED
    BY <1>1, <1>2

\* It does not disturb what a status stands for,
LEMMA ReportsProceed ==
    ASSUME NEW i, NEW o, NEW o1, NEW e, NEW f, NEW v \in Nat, NEW w, NEW w1,
           Reports(i, o, e, w), SameRecord(o, o1), Rolled(i, e, v, w),
           Grows(i, w, w1), w1.out = w.out, Proceeds(e, f)
    PROVE  Reports(i, o1, f, w1)
<1>1. Reports(i, o, e, w1)
    BY ReportsStay
<1>2. /\ f.live = e.live
      /\ e.live => f.in = e.in /\ (e.gen = e.obs => f.gen = f.obs)
    BY ProceedsRolled, v <= v
<1>3. Published(i, o, e, w1) => Published(i, o1, f, w1) \/ ~e.live
    BY <1>2 DEF Published, SameRecord
<1> QED
    BY <1>1, <1>2, <1>3 DEF Reports, Published, SameRecord

\* nor what a run knows,
LEMMA KnowsStays ==
    ASSUME NEW i, NEW o, NEW o1, NEW e, NEW f, NEW r, NEW v \in Nat, NEW w, NEW w1,
           Knows(i, o, e, r, w), SameRecord(o, o1), Rolled(i, e, v, w),
           Grows(i, w, w1), w1.out = w.out, Watched(i, w, w1), Proceeds(e, f)
    PROVE  Knows(i, o1, f, r, w1)
<1>1. /\ f.live = e.live
      /\ e.live => /\ f.in = e.in /\ f.gen = e.gen
                   /\ e.gen = e.obs => f.gen = f.obs
                   /\ e.gen = e.obs /\ e.out = e.in => f.out = e.in
    BY ProceedsRolled, v <= v
<1>2. /\ \A im : Fits(i, im, w) => Fits(i, im, w1)
      /\ \A im, jm : Before(i, im, jm, w) => Before(i, im, jm, w1)
      /\ w1.stays \subseteq w.stays
    BY FitsStays DEF Grows
<1>3. Exporting(i, r, e, w) => Exporting(i, r, f, w1)
    BY <1>1 DEF Exporting, Complete, Finished
<1>4. r.pc \in {"eligible", "values"} /\ r.ready =>
          \A k \in w1.stays : Source(i, k) # Root =>
             w1.val[k] = w1.conf[k] /\ w1.conf[k] \in Confs(i, k)
    BY <1>2 DEF Watched, Knows
<1>5. r.pc = "confs" => \A k \in w1.stays : Source(i, k) # Root => r.vals[k] = w1.conf[k]
    BY <1>2 DEF Watched, Knows
<1>6. r.pc \in Pipeline =>
          /\ Fits(i, r.vals, w1)
          /\ f.live => Before(i, f.in.imports, r.vals, w1)
          /\ \A im \in {o1.imports, r.l.imports} : im # None => Before(i, im, r.vals, w1)
    BY <1>1, <1>2 DEF Knows, SameRecord
<1>7. /\ r.pc \in Updates => /\ Fits(i, r.confs, w1) /\ Before(i, r.confs, r.vals, w1)
                             /\ ~IsCompleted(r.l.phase)
      /\ r.pc \in {"trigger", "exec", "dropForce"} => ~IsCompleted(o1.phase)
      /\ r.pc = "dropForce" => f.live /\ f.in.version = r.l.spec.version
      /\ r.pc = "recheck" => IsCompleted(r.l.phase) /\ r.l.obs = r.l.gen
    BY <1>1, <1>2 DEF Knows, SameRecord
<1>8. Plain(i) => r.l.conf = o1.conf \/ (r.pc = "finish" /\ f.live /\ r.l.conf = f.in)
    BY <1>1 DEF Knows, SameRecord
<1>9. Plain(i) => Exporting(i, r, f, w1)
    BY <1>3 DEF Knows
<1> QED
    BY <1>4, <1>5, <1>6, <1>7, <1>8, <1>9 DEF Knows

\* nor the invariant of the installation.
LEMMA CurrentStays ==
    ASSUME NEW i, NEW o, NEW o1, NEW e, NEW f, NEW r, NEW w, NEW w1,
           CurrentOf(i, o, e, r, w),
           i \in Deploys => o1.op # "abort" /\ (o1.live => Counted(o1) /\ Doomed(o1)),
           i \in Deploys /\ o1.live /\ ~o1.del =>
              /\ o.live /\ ~o.del /\ SameRecord(o, o1)
              /\ o.spec.version \in Nat /\ o1.spec.version \in Nat
              /\ o.spec.version <= o1.spec.version
              /\ Grows(i, w, w1) /\ w1.out = w.out /\ Proceeds(e, f)
              /\ Busy(r) => Watched(i, w, w1)
    PROVE  CurrentOf(i, o1, f, r, w1)
<1> SUFFICES ASSUME i \in Deploys, o1.live, ~o1.del
             PROVE  /\ Rolled(i, f, o1.spec.version, w1) /\ Reports(i, o1, f, w1)
                    /\ Busy(r) => Stage(i, o1, f, r, w1)
    BY DEF CurrentOf
<1>1. /\ Rolled(i, e, o.spec.version, w) /\ Reports(i, o, e, w)
      /\ Busy(r) => Stage(i, o, e, r, w)
    BY DEF CurrentOf
<1>2. Rolled(i, f, o1.spec.version, w1) /\ f.live = e.live /\ (e.live => f.in = e.in)
  <2> PICK v, v1 : v = o.spec.version /\ v1 = o1.spec.version
      OBVIOUS
  <2>1. /\ v \in Nat /\ v1 \in Nat /\ v <= v1 /\ Rolled(i, e, v, w)
        /\ Grows(i, w, w1) /\ Proceeds(e, f)
      BY <1>1
  <2> HIDE <1>1
  <2> QED
      BY <2>1, ProceedsRolled
<1>3. Reports(i, o1, f, w1)
    BY <1>1, ReportsProceed
<1>4. ASSUME Busy(r) PROVE Stage(i, o1, f, r, w1)
  <2>1. Reports(i, r.l, e, w) /\ Knows(i, o, e, r, w)
      BY <1>1, <1>4 DEF Stage
  <2>2. Reports(i, r.l, f, w1)
      BY <1>1, <2>1, ReportsProceed DEF SameRecord
  <2>3. Knows(i, o1, f, r, w1)
      BY <1>1, <1>4, <2>1, KnowsStays
  <2> QED
      BY <1>1, <1>2, <1>4, <2>2, <2>3 DEF Stage
<1> QED
    BY <1>2, <1>3, <1>4

-----------------------------------------------------------------------------
(* What a step does to what is around an installation.                     *)

\* What an installation with plain imports has rolled out is one of its config generations.
LEMMA RolledGeneration ==
    ASSUME NEW i \in Deploys, Plain(i), NEW v, Rolled(i, exec[i], v, World(i)), exec[i].live
    PROVE  exec[i].in \in Generations(i)
<1> PICK e : e = exec[i]
    OBVIOUS
<1>1. World(i).stays = Imports[i] /\ \A k \in Imports[i] : Confs(i, k) = UserData
    BY DEF World, Plain, Confs
<1> PICK w : w = World(i)
    OBVIOUS
<1>2. /\ e.in = Computed(e.in.version, e.in.imports) /\ e.in.version \in Positive
      /\ Fits(i, e.in.imports, w)
    BY DEF Rolled
<1>3. e.in.imports \in [Imports[i] -> UserData]
    BY <1>1, <1>2 DEF Fits
<1> QED
    BY <1>2, <1>3 DEF Generations, Computed

\* The config generation of a may become what its execution is rendered from.
Republished(a) ==
    \/ inst'[a].conf = inst[a].conf
    \/ exec[a].live /\ inst'[a].conf = exec[a].in

\* The config generation of an import only gets newer,
LEMMA ConfGrows ==
    ASSUME SideBySide, CurrentInv, NEW a \in Deploys, Plain(a), Remains(a),
           Republished(a), inst[a].conf \in Generations(a)
    PROVE  inst'[a].conf \in Generations(a) /\ Older(Imports[a], inst[a].conf, inst'[a].conf)
<1>1. /\ Rolled(a, exec[a], inst[a].spec.version, World(a))
      /\ Published(a, inst[a], exec[a], World(a))
    BY DataFlowAssumption DEF CurrentInv, CurrentOf, Remains, Reports
<1>2. inst[a].conf # NoValue
    BY DEF Generations, NoValue, Computed, Positive
<1>3. exec[a].live /\ Older(Imports[a], inst[a].conf, exec[a].in)
    BY <1>1, <1>2 DEF Published
<1>4. exec[a].in \in Generations(a)
    BY <1>1, <1>3, RolledGeneration
<1>5. Older(Imports[a], inst[a].conf, inst[a].conf)
  <2>1. \A y \in Imports[a] : inst[a].conf.imports[y].version \in Nat
      BY DEF Generations, UserData, Positive
  <2> QED
      BY <2>1 DEF Older, Generations, Positive
<1> QED
    BY <1>3, <1>4, <1>5 DEF Republished

\* The users' data only get newer.
DataGrows ==
    \A k \in Keys : Owner(Root, k) = Root =>
        data'[Root][k] \in UserData /\ data[Root][k].version <= data'[Root][k].version

\* and so does the world of every installation.
LEMMA WorldGrows ==
    ASSUME SideBySide, CurrentInv, NEW i \in Deploys, DataGrows,
           \A a \in Deploys : Remains(a)' => Remains(a) /\ (Plain(a) => Republished(a))
    PROVE  Grows(i, World(i), World(i)')
<1>1. /\ World(i)'.stays \subseteq World(i).stays /\ World(i).stays \subseteq Imports[i]
  <2>1. \A k \in Imports[i] : Source(i, k) # Root => Source(i, k) \in Deploys
      BY SourceKinds
  <2> QED
      BY <2>1 DEF World
<1>2. ASSUME NEW k \in World(i)'.stays
      PROVE  /\ World(i).conf[k] = ConfOf(i, k) /\ World(i)'.conf[k] = ConfOf(i, k)'
             /\ k \in Imports[i] /\ (Source(i, k) # Root => Remains(Source(i, k))')
    BY DEF World
<1>3. ASSUME NEW k \in World(i)'.stays, ConfOf(i, k) \in Confs(i, k)
      PROVE  ConfOf(i, k)' \in Confs(i, k) /\ Older(Inputs(i, k), ConfOf(i, k), ConfOf(i, k)')
  <2>1. CASE Source(i, k) = Root
    <3>1. /\ k \in Keys /\ Owner(Root, k) = Root /\ Parent[i] = Root
          /\ Confs(i, k) = UserData /\ Inputs(i, k) = {}
        BY <1>2, <2>1, NoParents, DataFlowAssumption DEF Confs, Inputs
    <3>2. ConfOf(i, k) = data[Root][k] /\ ConfOf(i, k)' = data'[Root][k]
        BY <2>1, <3>1 DEF ConfOf
    <3> QED
        BY <3>1, <3>2 DEF DataGrows, Older
  <2>2. CASE Source(i, k) # Root
    <3> PICK a : a = Source(i, k)
        OBVIOUS
    <3>1. a \in Deploys /\ Plain(a) /\ Remains(a)'
        BY <1>2, <2>2, SourceKinds
    <3>2. /\ ConfOf(i, k) = inst[a].conf /\ ConfOf(i, k)' = inst'[a].conf
          /\ Confs(i, k) = Generations(a) /\ Inputs(i, k) = Imports[a]
        BY <2>2 DEF ConfOf, Confs, Inputs
    <3> QED
        BY <1>3, <3>1, <3>2, ConfGrows
  <2> QED
      BY <2>1, <2>2
<1> QED
    BY <1>1, <1>2, <1>3 DEF Grows

-----------------------------------------------------------------------------
(* A step of the run of i: the others are idle and keep what they have     *)
(* recorded, and only what i exports is written.                           *)

\* What such a step leaves alone.
OthersKeep(i) ==
    /\ DataShape'
    /\ \A k \in Insts \ {i} : /\ inst'[k].imports = inst[k].imports
                              /\ inst'[k].conf = inst[k].conf
    /\ \A k \in Keys \ Exports[i] : data'[Root][k] = data[Root][k]

\* What is around i, when its exports are d.
Exported(i, w, d) == [w EXCEPT !.out = [k \in Exports[i] |-> d[k]]]

\* Of its own world it changes the exports only.
LEMMA OwnWorld ==
    ASSUME SideBySide, RecordInv, NEW i \in Deploys, Effects(i), OthersKeep(i)
    PROVE  World(i)' = Exported(i, World(i), data'[Root])
<1>1. i \in Insts /\ \A j \in Insts : Parent[j] = Root /\ Children(j) = {}
    BY NoParents, DataFlowAssumption
<1>2. ASSUME NEW k \in Imports[i]
      PROVE  /\ Source(i, k) = Root \/ Remains(Source(i, k))' <=>
                  Source(i, k) = Root \/ Remains(Source(i, k))
             /\ ConfOf(i, k)' = ConfOf(i, k) /\ data'[Root][k] = data[Root][k]
  <2>1. k \in Keys \ Exports[i]
      BY <1>1, SourceKinds, NoParents, DataFlowAssumption
  <2>2. CASE Source(i, k) = Root
      BY <1>1, <2>1, <2>2 DEF ConfOf, OthersKeep
  <2>3. CASE Source(i, k) # Root
    <3> PICK a : a = Source(i, k)
        OBVIOUS
    <3>1. a \in Insts \ {i}
        BY <2>3, SourceKinds
    <3>2. SameSpec(inst[a], inst'[a]) /\ inst'[a].conf = inst[a].conf
        BY <1>1, <3>1 DEF Effects, ObjectEffects, Marked, OthersKeep
    <3> QED
        BY <2>1, <2>3, <3>2 DEF ConfOf, Remains, SameSpec, OthersKeep
  <2> QED
      BY <2>2, <2>3
<1>3. /\ World(i)'.stays = World(i).stays /\ World(i)'.conf = World(i).conf
      /\ World(i)'.val = World(i).val
    BY <1>2 DEF World
<1>4. World(i)'.out = [k \in Exports[i] |-> data'[Root][k]]
    BY DEF World
<1>5. PICK w1 : w1 = World(i)'
    OBVIOUS
<1>6. PICK w : w = World(i)
    OBVIOUS
<1>7. PICK d : d = data'[Root]
    OBVIOUS
<1>8. /\ w1 = [stays |-> w1.stays, conf |-> w1.conf, val |-> w1.val, out |-> w1.out]
      /\ w = [stays |-> w.stays, conf |-> w.conf, val |-> w.val, out |-> w.out]
    BY <1>5, <1>6 DEF World
<1>9. /\ w1.stays = w.stays /\ w1.conf = w.conf /\ w1.val = w.val
      /\ w1.out = [k \in Exports[i] |-> d[k]]
    BY <1>3, <1>4, <1>5, <1>6, <1>7
<1>10. w1 = Exported(i, w, d)
    BY <1>8, <1>9 DEF Exported
<1> QED
    BY <1>5, <1>6, <1>7, <1>10

\* It is enough to look at the installation itself.
LEMMA RunCurrent ==
    ASSUME SideBySide, NEW i \in Insts, RecordInv, SourceInv, CurrentInv, Effects(i),
           OthersKeep(i), Republished(i) \/ ~Plain(i) \/ ~Remains(i)',
           CurrentOf(i, inst'[i], exec'[i], run'[i], Exported(i, World(i), data'[Root]))
    PROVE  CurrentInv'
<1>1. \A j \in Insts : Parent[j] = Root /\ Children(j) = {}
    BY NoParents
<1>2. ASSUME NEW k \in Insts \ {i}
      PROVE  /\ run'[k] = run[k] /\ ~Busy(run[k]) /\ exec'[k] = exec[k]
             /\ SameRecord(inst[k], inst'[k]) /\ SameSpec(inst[k], inst'[k])
             /\ inst'[k].op \in {inst[k].op, "none", "reconcile"}
    BY <1>1, <1>2 DEF Effects, ObjectEffects, ExecutionEffects, Marked, OthersKeep, Holds,
       SameRecord, Busy, SourceInv, RecordInv, ShapeInv
<1>3. ASSUME NEW k \in Keys, Owner(Root, k) = Root
      PROVE  data'[Root][k] = data[Root][k] /\ data[Root][k] \in UserData
  <2>1. k \notin Exports[i]
      BY <1>3, NoParents, ForestAssumption
  <2> QED
      BY <1>3, <2>1 DEF OthersKeep, CurrentInv
<1>4. DataGrows
    BY <1>3 DEF DataGrows, UserData, Positive
<1>5. Remains(i)' => Remains(i)
  <2>1. ~NoInstallation.live
      BY DEF NoInstallation
  <2> HIDE DEF NoInstallation
  <2> QED
      BY <2>1 DEF Effects, ObjectEffects, OwnEffects, Remains
<1>6. \A a \in Insts : Remains(a)' => Remains(a) /\ (Plain(a) => Republished(a))
    BY <1>2, <1>5 DEF Remains, SameSpec, SameRecord, Republished
<1>7. ASSUME NEW k \in Insts \ {i}
      PROVE  CurrentOf(k, inst'[k], exec'[k], run'[k], World(k)')
  <2>1. CurrentOf(k, inst[k], exec[k], run[k], World(k)) /\ IsObject(k, inst[k])
      BY DEF CurrentInv, RecordInv, ShapeInv
  <2>2. k \in Deploys =>
           inst'[k].op # "abort" /\ (inst'[k].live => Counted(inst'[k]) /\ Doomed(inst'[k]))
      BY <1>2, <2>1 DEF CurrentOf, Counted, Doomed, SameRecord, SameSpec
  <2>3. k \in Deploys => World(k)'.out = World(k).out
    <3>1. \A x \in Exports[k] : x \in Keys \ Exports[i]
        BY NoParents
    <3> QED
        BY <3>1 DEF World, OthersKeep
  <2>4. k \in Deploys => Grows(k, World(k), World(k)')
      BY <1>4, <1>6, WorldGrows, DataFlowAssumption
  <2> PICK o, p, e, r, w, w1 :
          /\ o = inst[k] /\ p = inst'[k] /\ e = exec[k] /\ r = run[k]
          /\ w = World(k) /\ w1 = World(k)'
      OBVIOUS
  <2>5. /\ CurrentOf(k, o, e, r, w)
        /\ k \in Deploys => p.op # "abort" /\ (p.live => Counted(p) /\ Doomed(p))
      BY <2>1, <2>2
  <2>6. /\ o.spec.version \in Nat /\ p.spec.version = o.spec.version
        /\ p.live = o.live /\ p.del = o.del /\ SameRecord(o, p) /\ ~Busy(r)
      BY <1>2, <2>1 DEF SameSpec, IsObject
  <2>7. k \in Deploys => Grows(k, w, w1) /\ w1.out = w.out
      BY <2>3, <2>4
  <2>8. Proceeds(e, e)
      BY DEF Proceeds
  <2>9. CurrentOf(k, p, e, r, w1)
      BY <2>5, <2>6, <2>7, <2>8, CurrentStays
  <2> QED
      BY <1>2, <2>9
<1>8. CurrentOf(i, inst'[i], exec'[i], run'[i], World(i)')
    BY OwnWorld DEF CurrentOf
<1> QED
    BY <1>3, <1>7, <1>8 DEF CurrentInv, OthersKeep

-----------------------------------------------------------------------------
(* How the run of an installation goes on.                                 *)

\* A step that publishes nothing leaves the world as it is.
LEMMA SameWorld ==
    ASSUME NEW i \in Deploys, data'[Root] = data[Root]
    PROVE  Exported(i, World(i), data'[Root]) = World(i)
BY DEF Exported, World

\* The copy of a run, before and after: what it records stays.
Copies(l, m) ==
    /\ SameSpec(l, m) /\ m.op \in {l.op, "none"}
    /\ m.obs = l.obs /\ m.imports = l.imports /\ m.conf = l.conf
    /\ m.phase = l.phase \/ m.phase \in RunningPhases

\* A copy that is only moved on stands for what it stood for.
LEMMA CopyReports ==
    ASSUME NEW i, NEW e, NEW w, NEW l, NEW m, Copies(l, m)
    PROVE  /\ Reports(i, l, e, w) => Reports(i, m, e, w)
           /\ Doomed(l) => Doomed(m)
           /\ Counted(l) => Counted(m)
<1>1. m.phase \in RunningPhases =>
          ~IsCompleted(m.phase) /\ m.phase # "Succeeded" /\ m.phase # NoPhase
    BY DEF RunningPhases, IsCompleted, CompletedPhases, NoPhase
<1> QED
    BY <1>1 DEF Copies, Reports, Published, Doomed, Counted, SameSpec

\* The run with r goes on with s, or ends; of the object at most the
\* operation and the finalizer change.
LEMMA Moved ==
    ASSUME NEW i, NEW o, NEW p, NEW e, NEW r, NEW s, NEW w, CurrentOf(i, o, e, r, w),
           p.live = o.live, p.del = o.del, p.gen = o.gen, p.spec = o.spec,
           SameRecord(o, p), p.op # "abort",
           Busy(s) => /\ Busy(r) /\ Copies(r.l, s.l) /\ (Forward(s) => ~s.l.del)
                      /\ i \in Deploys /\ o.live /\ ~o.del => Knows(i, o, e, s, w)
    PROVE  CurrentOf(i, p, e, s, w)
<1> SUFFICES ASSUME i \in Deploys PROVE CurrentOf(i, p, e, s, w)
    BY DEF CurrentOf
<1>1. o.live => Counted(p) /\ Doomed(p)
    BY DEF CurrentOf, Counted, Doomed, SameRecord
<1>2. ASSUME Busy(s)
      PROVE  /\ s.l.op # "abort" /\ Counted(s.l) /\ Doomed(s.l) /\ (Forward(s) => ~s.l.del)
  <2>1. r.l.op # "abort" /\ Counted(r.l) /\ Doomed(r.l) /\ Copies(r.l, s.l)
      BY <1>2 DEF CurrentOf
  <2> QED
      BY <1>2, <2>1, CopyReports DEF Copies
<1>3. ASSUME o.live, ~o.del PROVE Rolled(i, e, p.spec.version, w) /\ Reports(i, p, e, w)
    BY <1>3 DEF CurrentOf, Reports, Published, SameRecord
<1>4. ASSUME o.live, ~o.del, Busy(s) PROVE Stage(i, p, e, s, w)
  <2>1. /\ Reports(i, r.l, e, w) /\ (e.live => e.in.version <= r.l.spec.version)
        /\ Copies(r.l, s.l) /\ Knows(i, o, e, s, w)
      BY <1>4 DEF CurrentOf, Stage
  <2>2. Reports(i, s.l, e, w) /\ s.l.spec = r.l.spec
      BY <2>1, CopyReports DEF Copies, SameSpec
  <2>3. Knows(i, p, e, s, w)
      BY <2>1 DEF Knows, SameRecord
  <2> QED
      BY <2>1, <2>2, <2>3 DEF Stage
<1> QED
    BY <1>1, <1>2, <1>3, <1>4 DEF CurrentOf

\* The same, when a status of the present generation is written.
LEMMA Stored ==
    ASSUME NEW i, NEW o, NEW p, NEW l, NEW e, NEW r, NEW s, NEW w,
           CurrentOf(i, o, e, r, w),
           p.live = o.live, p.del = o.del, p.gen = o.gen, p.spec = o.spec, p.op = o.op,
           SameRecord(l, p), l.gen = o.gen, l.del = o.del,
           i \in Deploys => Doomed(l),
           i \in Deploys /\ o.live /\ ~o.del => Reports(i, l, e, w),
           i \in Deploys /\ Busy(s) =>
              /\ s.l.op # "abort" /\ Counted(s.l) /\ Doomed(s.l) /\ (Forward(s) => ~s.l.del)
              /\ o.live /\ ~o.del => Stage(i, p, e, s, w)
    PROVE  CurrentOf(i, p, e, s, w)
<1>1. ASSUME i \in Deploys, o.live PROVE Counted(p) /\ Doomed(p) /\ o.op # "abort"
    BY <1>1 DEF CurrentOf, Counted, Doomed, SameRecord
<1>2. ASSUME i \in Deploys, o.live, ~o.del
      PROVE  Rolled(i, e, p.spec.version, w) /\ Reports(i, p, e, w)
    BY <1>2 DEF CurrentOf, Reports, Published, SameRecord
<1> QED
    BY <1>1, <1>2 DEF CurrentOf

\* At these calls a run knows nothing about the world.
LEMMA KnowsNothing ==
    ASSUME NEW i, NEW o, NEW e, NEW s, NEW w,
           s.pc \in {"finish", "check", "dropOp", "dependants", "delete", "deleteAll",
                     "removeFinalizer"},
           Plain(i) => s.l.conf = o.conf \/ (s.pc = "finish" /\ e.live /\ s.l.conf = e.in)
    PROVE  Knows(i, o, e, s, w) /\ (s.pc = "finish" => ~Forward(s))
BY DEF Knows, Exporting, Pipeline, Updates, Forward

\* The copy that has the current version.
LEMMA FreshCopy ==
    ASSUME NEW i \in Insts, RecordInv, Busy(run[i]), i \in fresh[i],
           Counted(inst[i]), Counted(run[i].l)
    PROVE  /\ run[i].l.gen = inst[i].gen /\ run[i].l.del = inst[i].del
           /\ run[i].l.spec = inst[i].spec
<1>1. /\ run[i].l.gen = inst[i].gen /\ run[i].l.spec = inst[i].spec
      /\ IsObject(i, inst[i]) /\ IsObject(i, run[i].l)
    BY DEF RecordInv, ShapeInv, RunRecord, Follows, IsRun
<1>2. inst[i].spec.version \in Nat /\ run[i].l.del \in BOOLEAN /\ inst[i].del \in BOOLEAN
    BY <1>1 DEF IsObject
<1> QED
    BY <1>1, <1>2 DEF Counted

\* What a run and the lemmas above need to know of the objects.
LEMMA CurrentRun ==
    ASSUME NEW i \in Deploys, SideBySide, RecordInv, CurrentInv, Busy(run[i])
    PROVE  /\ i \in Insts /\ CurrentOf(i, inst[i], exec[i], run[i], World(i))
           /\ inst[i].op # "abort" /\ run[i].l.op # "abort"
           /\ inst[i].live /\ Counted(inst[i]) /\ Doomed(inst[i])
           /\ Counted(run[i].l) /\ Doomed(run[i].l) /\ (Forward(run[i]) => ~run[i].l.del)
           /\ run[i].l.gen <= inst[i].gen /\ run[i].l.obs <= run[i].l.gen
           /\ run[i].l.del => inst[i].del
           /\ run[i].l.gen \in Nat /\ run[i].l.obs \in Nat
           /\ run[i].l.spec.version \in Nat /\ inst[i].spec.version \in Nat
           /\ ~inst[i].del =>
                 /\ Rolled(i, exec[i], inst[i].spec.version, World(i))
                 /\ Reports(i, inst[i], exec[i], World(i))
                 /\ Stage(i, inst[i], exec[i], run[i], World(i))
                 /\ Knows(i, inst[i], exec[i], run[i], World(i))
                 /\ Reports(i, run[i].l, exec[i], World(i))
                 /\ Plain(i) => \/ run[i].l.conf = inst[i].conf
                                \/ /\ run[i].pc = "finish" /\ exec[i].live
                                   /\ run[i].l.conf = exec[i].in
<1>1. i \in Insts /\ CurrentOf(i, inst[i], exec[i], run[i], World(i))
    BY DataFlowAssumption DEF CurrentInv
<1>2. Follows(i, run[i]) /\ IsObject(i, inst[i]) /\ IsObject(i, run[i].l)
    BY <1>1 DEF RecordInv, ShapeInv, RunRecord, IsRun
<1>3. ASSUME ~inst[i].del PROVE Stage(i, inst[i], exec[i], run[i], World(i))
    BY <1>1, <1>2, <1>3 DEF CurrentOf, Follows
<1>4. ASSUME ~inst[i].del
      PROVE  /\ Knows(i, inst[i], exec[i], run[i], World(i))
             /\ Reports(i, run[i].l, exec[i], World(i))
    BY <1>3, <1>4 DEF Stage
<1>5. ASSUME ~inst[i].del, Plain(i)
      PROVE  \/ run[i].l.conf = inst[i].conf
             \/ run[i].pc = "finish" /\ exec[i].live /\ run[i].l.conf = exec[i].in
    BY <1>4, <1>5 DEF Knows
<1> QED
    BY <1>1, <1>2, <1>3, <1>4, <1>5 DEF CurrentOf, Follows, IsObject

\* The others keep what they have when no data in the roots' context and only
\* operations of others are written.
LEMMA OthersUntouched ==
    ASSUME SideBySide, NEW i \in Insts, DataShape, DOMAIN data' = DOMAIN data,
           data'[Root] = data[Root],
           \A k \in Insts \ {i} : SameRecord(inst[k], inst'[k])
    PROVE  OthersKeep(i)
BY DEF OthersKeep, SameRecord, DataShape

\* A step that writes no data and no config generation.
LEMMA PlainStep ==
    ASSUME SideBySide, NEW i \in Insts, RecordInv, SourceInv, CurrentInv, Effects(i),
           DOMAIN data' = DOMAIN data, data'[Root] = data[Root],
           \A k \in Insts \ {i} : SameRecord(inst[k], inst'[k]),
           Plain(i) /\ Remains(i)' => Republished(i),
           i \in Deploys =>
              CurrentOf(i, inst'[i], exec'[i], run'[i], World(i))
    PROVE  CurrentInv'
<1>1. OthersKeep(i)
    BY OthersUntouched DEF CurrentInv
<1>2. CurrentOf(i, inst'[i], exec'[i], run'[i], Exported(i, World(i), data'[Root]))
    BY SameWorld DEF CurrentOf
<1> QED
    BY <1>1, <1>2, RunCurrent

\* An installation without imports records nothing.
LEMMA EmptyIsNone ==
    ASSUME NEW f, f = [x \in {} |-> f[x]]
    PROVE  f = None
BY DEF None

\* What the context shows of the sources.
LEMMA ReadyValues ==
    ASSUME SideBySide, CurrentInv, NEW i \in Deploys, ContextReady(i),
           NEW k \in World(i).stays, Source(i, k) # Root
    PROVE  World(i).val[k] = World(i).conf[k] /\ World(i).conf[k] \in Confs(i, k)
<1> PICK a : a = Source(i, k)
    OBVIOUS
<1>1. k \in Imports[i] /\ Remains(a)
    BY DEF World
<1>2. /\ a \in Deploys /\ a \in Insts /\ Plain(a) /\ k \in Exports[a]
      /\ inst[a].phase = "Succeeded"
    BY <1>1, SourceKinds DEF ContextReady
<1>3. Published(a, inst[a], exec[a], World(a))
    BY <1>1, <1>2 DEF CurrentInv, CurrentOf, Reports, Remains
<1>4. Rolled(a, exec[a], inst[a].spec.version, World(a)) /\ (inst[a].obs # 0 => exec[a].live)
    BY <1>1, <1>2 DEF CurrentInv, CurrentOf, Reports, Remains
<1>5. /\ inst[a].obs # 0 /\ inst[a].conf = exec[a].in
      /\ \A x \in Exports[a] : World(a).out[x] = exec[a].in
    BY <1>2, <1>3 DEF Published
<1>6. inst[a].conf \in Generations(a)
    BY <1>2, <1>4, <1>5, RolledGeneration
<1>7. World(a).out[k] = data[Root][k] /\ World(i).val[k] = data[Root][k]
    BY <1>1, <1>2 DEF World
<1>8. World(i).conf[k] = inst[a].conf /\ Confs(i, k) = Generations(a)
    BY <1>1 DEF World, ConfOf, Confs
<1> QED
    BY <1>2, <1>5, <1>6, <1>7, <1>8

-----------------------------------------------------------------------------
(* The steps of Reconcile.                                                 *)

\* The invariants of the other theorems, on which this one rests.
CurrentPre == RecordInv /\ ShownInv /\ SourceInv /\ ExecInv /\ CurrentInv

\* What is written of an object is at most its operation or its finalizer.
Unrecorded(k) ==
    /\ SameRecord(inst[k], inst'[k]) /\ inst'[k].live = inst[k].live
    /\ inst'[k].del = inst[k].del /\ inst'[k].gen = inst[k].gen
    /\ inst'[k].spec = inst[k].spec

\* A step of the run that records nothing.
LEMMA MoveCurrent ==
    ASSUME SideBySide, CurrentPre, NEW i \in Insts, Step(i), NEW s, run'[i] = s,
           DOMAIN data' = DOMAIN data, data'[Root] = data[Root], exec'[i] = exec[i],
           \A k \in Insts : Unrecorded(k),
           i \in Deploys /\ Busy(s) =>
              /\ Busy(run[i]) /\ Copies(run[i].l, s.l) /\ (Forward(s) => ~s.l.del)
              /\ inst[i].live /\ ~inst[i].del =>
                    Knows(i, inst[i], exec[i], s, World(i))
    PROVE  CurrentInv'
<1>1. Effects(i)
    BY RunStepEffects DEF CurrentPre, ShownInv
<1>2. Republished(i)
    BY DEF Unrecorded, SameRecord, Republished
<1>3. ASSUME i \in Deploys PROVE CurrentOf(i, inst'[i], exec'[i], run'[i], World(i))
  <2> PICK o, p, e, r, w : /\ o = inst[i] /\ p = inst'[i] /\ e = exec[i] /\ r = run[i]
                           /\ w = World(i)
      OBVIOUS
  <2>1. CurrentOf(i, o, e, r, w)
      BY DEF CurrentPre, CurrentInv
  <2>2. p.op # "abort"
      BY <1>1, <1>3, <2>1 DEF Effects, ObjectEffects, CurrentOf
  <2>3. /\ p.live = o.live /\ p.del = o.del /\ p.gen = o.gen /\ p.spec = o.spec
        /\ SameRecord(o, p)
      BY DEF Unrecorded
  <2>4. CurrentOf(i, p, e, s, w)
      BY <1>3, <2>1, <2>2, <2>3, Moved
  <2> QED
      BY <2>4
<1> QED
    BY <1>1, <1>2, <1>3, PlainStep DEF CurrentPre, Unrecorded

\* A run that ends, or fails.
LEMMA ErrorCurrent ==
    ASSUME SideBySide, CurrentPre, NEW i \in Insts, Step(i),
           DOMAIN data' = DOMAIN data, data'[Root] = data[Root], exec'[i] = exec[i],
           \A k \in Insts : Unrecorded(k),
           \/ Busy(run[i]) /\ run'[i] \in {Fails(run[i]), FailsPlain(run[i])}
           \/ run'[i] = Idle
    PROVE  CurrentInv'
<1> PICK s : s = run'[i]
    OBVIOUS
<1>1. CASE s = Idle
  <2>1. ~Busy(s)
      BY <1>1 DEF Idle, Busy
  <2> QED
      BY <2>1, MoveCurrent
<1>2. CASE s # Idle
  <2>1. Busy(run[i]) /\ s.pc = "finish" /\ s.l = run[i].l
      BY <1>2, RunShape DEF Fails, FailsPlain, RunFields, CurrentPre
  <2>2. ASSUME i \in Deploys, inst[i].live, ~inst[i].del
        PROVE  Knows(i, inst[i], exec[i], s, World(i))
    <3>1. Plain(i) => \/ s.l.conf = inst[i].conf
                      \/ exec[i].live /\ s.l.conf = exec[i].in
        BY <2>1, <2>2, CurrentRun DEF CurrentPre
    <3> QED
        BY <2>1, <3>1, KnowsNothing
  <2>3. Copies(run[i].l, s.l) /\ ~Forward(s)
      BY <2>1 DEF Copies, SameSpec, Forward
  <2> QED
      BY <2>1, <2>2, <2>3, MoveCurrent
<1> QED
    BY <1>1, <1>2

\* A run that fails or returns with nothing written.
LEMMA UnwrittenCurrent ==
    ASSUME SideBySide, CurrentPre, NEW i \in Insts, Step(i),
           UNCHANGED <<inst, exec>>,
           DOMAIN data' = DOMAIN data, data'[Root] = data[Root],
           \/ \E failed : Return(i, failed)
           \/ Busy(run[i]) /\ (Continue(i, Fails(run[i])) \/ Continue(i, FailsPlain(run[i])))
    PROVE  CurrentInv'
<1>1. \A k \in Insts : Unrecorded(k)
    BY DEF Unrecorded, SameRecord
<1>2. DOMAIN run = Insts
    BY DEF CurrentPre, RecordInv, ShapeInv
<1>3. \/ run'[i] = Idle
      \/ Busy(run[i]) /\ run'[i] \in {Fails(run[i]), FailsPlain(run[i])}
    BY <1>2 DEF Return, Continue
<1> QED
    BY <1>1, <1>3, ErrorCurrent

\* Operations that are written.
LEMMA OpsUnrecorded ==
    ASSUME RecordInv, NEW J, NEW op,
           inst' = [j \in Insts |-> IF j \in J THEN [inst[j] EXCEPT !.op = op]
                                    ELSE inst[j]]
    PROVE  \A k \in Insts : Unrecorded(k)
<1> SUFFICES ASSUME NEW k \in Insts PROVE Unrecorded(k)
    OBVIOUS
<1>1. DOMAIN inst[k] = ObjectFields
    BY RunShape
<1>2. LET o == [inst[k] EXCEPT !.op = op] IN
      /\ SameRecord(inst[k], o) /\ o.live = inst[k].live /\ o.del = inst[k].del
      /\ o.gen = inst[k].gen /\ o.spec = inst[k].spec
    BY <1>1 DEF SameRecord, ObjectFields
<1> QED
    BY <1>2 DEF Unrecorded, SameRecord

LEMMA AddFinalizerCurrent ==
    ASSUME SideBySide, CurrentPre, NEW i \in Insts, AddFinalizer(i)
    PROVE  CurrentInv'
<1>1. Step(i) /\ exec' = exec /\ data' = data /\ \E failed : Return(i, failed)
    BY DEF AddFinalizer, Step
<1>2. ASSUME NEW k \in Insts PROVE Unrecorded(k)
  <2>1. DOMAIN inst[k] = ObjectFields /\ DOMAIN inst = Insts
      BY RunShape DEF CurrentPre, RecordInv, ShapeInv
  <2>2. LET o == [inst[k] EXCEPT !.fin = TRUE] IN
        /\ SameRecord(inst[k], o) /\ o.live = inst[k].live /\ o.del = inst[k].del
        /\ o.gen = inst[k].gen /\ o.spec = inst[k].spec
      BY <2>1 DEF SameRecord, ObjectFields
  <2>3. inst'[k] = inst[k] \/ inst'[k] = [inst[k] EXCEPT !.fin = TRUE]
      BY <2>1 DEF AddFinalizer
  <2> QED
      BY <2>2, <2>3 DEF Unrecorded, SameRecord
<1>3. run'[i] = Idle
    BY <1>1 DEF Return, CurrentPre, RecordInv, ShapeInv
<1> QED
    BY <1>1, <1>2, <1>3, ErrorCurrent

LEMMA DropReconcileCurrent ==
    ASSUME SideBySide, CurrentPre, NEW i \in Insts, DropReconcile(i)
    PROVE  CurrentInv'
<1> DEFINE r == run[i]
           s == [r EXCEPT !.pc = "check", !.l.op = "none"]
<1>1. Step(i) /\ exec' = exec /\ data' = data /\ r.pc = "dropOp" /\ Busy(r)
    BY DEF DropReconcile, Step, At, Busy
<1>2. CASE inst' = inst /\ Return(i, TRUE)
    BY <1>1, <1>2, UnwrittenCurrent
<1>3. CASE inst' = [inst EXCEPT ![i].op = "none"] /\ Continue(i, s)
  <2>1. inst' = [j \in Insts |-> IF j \in {i} THEN [inst[j] EXCEPT !.op = "none"] ELSE inst[j]]
      BY <1>3 DEF CurrentPre, RecordInv, ShapeInv
  <2>2. \A k \in Insts : Unrecorded(k)
      BY <2>1, OpsUnrecorded DEF CurrentPre
  <2>3. run'[i] = s
      BY <1>3 DEF Continue, CurrentPre, RecordInv, ShapeInv
  <2>4. s.pc = "check" /\ Copies(r.l, s.l) /\ s.l.del = r.l.del
      BY RunShape DEF CurrentPre, RunFields, ObjectFields, Copies, SameSpec
  <2>5. i \in Deploys => ~s.l.del
      BY <1>1, <2>4, CurrentRun DEF CurrentPre, Forward
  <2> HIDE DEF s
  <2>6. ASSUME i \in Deploys, inst[i].live, ~inst[i].del
        PROVE  Knows(i, inst[i], exec[i], s, World(i))
    <3>1. Plain(i) => s.l.conf = inst[i].conf
        BY <1>1, <2>4, <2>6, CurrentRun DEF CurrentPre, Copies
    <3> QED
        BY <2>4, <3>1, KnowsNothing
  <2> QED
      BY <1>1, <2>2, <2>3, <2>4, <2>5, <2>6, MoveCurrent
<1> QED
    BY <1>2, <1>3 DEF DropReconcile

\* Without subinstallations all depends on the phase of the execution.
LEMMA FlatPhases ==
    ASSUME SideBySide, NEW i \in Insts
    PROVE  /\ LiveSubs(i) = {} /\ ParentExists(i) /\ Children(i) = {}
           /\ ChildPhase(i) = CombinedPhase({ExecPhase(i), NoPhase})
<1>1. LiveSubs(i) = {} /\ Parent[i] = Root /\ Children(i) = {}
    BY NoParents DEF LiveSubs
<1>2. SubPhase(i) = CombinedPhase({})
    BY <1>1 DEF SubPhase
<1>3. CombinedPhase({}) = NoPhase
    BY DEF CombinedPhase, RunningPhases
<1> QED
    BY <1>1, <1>2, <1>3 DEF ChildPhase, ParentExists

\* A phase alone, or with the empty one, is combined to itself or hidden.
LEMMA AlonePhase ==
    ASSUME NEW p \in Phase, NEW S, S = {p} \/ S = {p, NoPhase}
    PROVE  /\ p \in RunningPhases => CombinedPhase(S) = "Progressing"
           /\ p \notin RunningPhases => CombinedPhase(S) = p
BY DEF CombinedPhase, RunningPhases, Phase, CompletedPhases, NoPhase

\* A completed phase is that of an execution that has finished.
LEMMA CheckedFinished ==
    ASSUME SideBySide, CurrentPre, NEW i \in Deploys, Busy(run[i]), ~inst[i].del,
           NEW r, r.mode = IF ChildPhase(i) = NoPhase THEN "Succeeded" ELSE ChildPhase(i),
           IsCompleted(r.mode)
    PROVE  Finished(r, exec[i])
<1> SUFFICES ASSUME exec[i].live PROVE Finished(r, exec[i])
    BY DEF Finished
<1> PICK e : e = exec[i]
    OBVIOUS
<1>1. /\ e.gen \in Positive /\ e.obs \in Nat /\ (e.obs # 0 => e.phase # NoPhase)
      /\ e.phase = "Succeeded" /\ e.gen = e.obs => e.out = e.in
    BY CurrentRun DEF CurrentPre, Rolled
<1>2. e.phase \in Phase /\ ExecPhase(i) = IF e.gen # e.obs THEN "Progressing" ELSE e.phase
    BY CurrentRun DEF ExecPhase, CurrentPre, ExecInv, TypedExecution, IsExecution
<1>3. ChildPhase(i) = CombinedPhase({ExecPhase(i), NoPhase})
    BY CurrentRun, FlatPhases DEF CurrentPre
<1>4. "Progressing" \in Phase /\ "Progressing" \in RunningPhases
      /\ ~IsCompleted("Progressing") /\ "Progressing" # NoPhase
    BY DEF Phase, RunningPhases, IsCompleted, CompletedPhases, NoPhase
<1>5. ExecPhase(i) \notin RunningPhases /\ ChildPhase(i) = ExecPhase(i)
    BY <1>2, <1>3, <1>4, AlonePhase
<1>6. e.gen = e.obs /\ ChildPhase(i) = e.phase
    BY <1>2, <1>4, <1>5
<1>7. e.phase # NoPhase
    BY <1>1, <1>6 DEF Positive
<1> QED
    BY <1>1, <1>6, <1>7 DEF Finished

\* An installation that need not be updated, and whose execution has finished.
LEMMA CheckedComplete ==
    ASSUME SideBySide, CurrentPre, NEW i \in Insts, Plain(i), Busy(run[i]),
           ~inst[i].del, ~run[i].l.del, ~EligibleToUpdate(i, run[i].l),
           Finished(run[i], exec[i])
    PROVE  /\ Complete(run[i], exec[i])
           /\ run[i].mode = "Succeeded" => exec[i].out = exec[i].in
<1> PICK e, l, w : e = exec[i] /\ l = run[i].l /\ w = World(i)
    OBVIOUS
<1>1. i \in Deploys
    BY DEF Plain
<1>2. /\ l.obs = l.gen
      /\ \A k \in Imports[i] : k \in DOMAIN l.imports /\ l.imports[k] = ConfOf(i, k)
    BY PlainIsFree DEF EligibleToUpdate, OutdatedImports
<1>3. /\ Rolled(i, e, inst[i].spec.version, w) /\ Reports(i, l, e, w)
      /\ l.gen = l.spec.version /\ l.gen # 0 /\ l.gen \in Nat
      /\ e.live => e.in.version <= l.spec.version
    BY <1>1, CurrentRun DEF CurrentPre, Counted, Stage
<1>4. e.live /\ Published(i, l, e, w)
    BY <1>2, <1>3 DEF Reports
<1>5. /\ e.in = Computed(e.in.version, e.in.imports) /\ e.in.version \in Nat
      /\ Fits(i, e.in.imports, w)
    BY <1>3, <1>4 DEF Rolled, Positive
<1>6. e.in.version = l.gen
    BY <1>2, <1>3, <1>4, <1>5 DEF Published
<1>7. e.in.imports = l.imports
  <2>1. CASE Imports[i] = {}
    <3>1. e.in.imports = None
        BY <1>5, <2>1, EmptyIsNone DEF Fits
    <3>2. l.imports # None => l.imports = [k \in {} |-> l.imports[k]]
        BY <1>3, <2>1 DEF Reports, Fits
    <3>3. l.imports = None
        BY <3>2, EmptyIsNone
    <3> QED
        BY <3>1, <3>3
  <2>2. CASE Imports[i] # {}
    <3>1. l.imports # None
        BY <1>2, <2>2 DEF None
    <3>2. Fits(i, l.imports, w) /\ Before(i, l.imports, e.in.imports, w)
        BY <1>3, <1>4, <3>1 DEF Reports
    <3>3. w.stays = Imports[i] /\ \A k \in Imports[i] : w.conf[k] = ConfOf(i, k)
        BY DEF World, Plain
    <3>4. ASSUME NEW k \in Imports[i] PROVE e.in.imports[k] = l.imports[k]
      <4>1. /\ l.imports[k] \in Confs(i, k) /\ e.in.imports[k] \in Confs(i, k)
            /\ Older(Inputs(i, k), l.imports[k], e.in.imports[k])
            /\ Older(Inputs(i, k), e.in.imports[k], l.imports[k])
          BY <1>2, <1>5, <3>2, <3>3 DEF Fits, Before
      <4> QED
          BY <4>1, Ordered
    <3> QED
        BY <1>5, <3>2, <3>4 DEF Fits
  <2> QED
      BY <2>1, <2>2
<1> QED
    BY <1>2, <1>4, <1>5, <1>6, <1>7 DEF Complete, Finished

\* A step that only goes on, with a phase that stands for nothing or none.
LEMMA GoOnCurrent ==
    ASSUME SideBySide, CurrentPre, NEW i \in Insts, Step(i), Busy(run[i]),
           UNCHANGED <<inst, exec, data>>, NEW s, run'[i] = s, Copies(run[i].l, s.l),
           Forward(s) => Forward(run[i]), run[i].pc # "finish",
           ASSUME i \in Deploys, ~inst[i].del, Plain(i) => s.l.conf = inst[i].conf
           PROVE  Knows(i, inst[i], exec[i], s, World(i))
    PROVE  CurrentInv'
<1>1. \A k \in Insts : Unrecorded(k)
    BY DEF Unrecorded, SameRecord
<1>2. i \in Deploys => (Forward(s) => ~s.l.del)
    BY CurrentRun DEF CurrentPre, Copies, SameSpec
<1>3. i \in Deploys /\ ~inst[i].del /\ Plain(i) => s.l.conf = inst[i].conf
    BY CurrentRun DEF CurrentPre, Copies
<1> QED
    BY <1>1, <1>2, <1>3, MoveCurrent

\* A completed phase is kept for the decision.
LEMMA CheckChildrenCurrent ==
    ASSUME SideBySide, CurrentPre, NEW i \in Insts, CheckChildren(i)
    PROVE  CurrentInv'
<1> DEFINE r == run[i]
           p == IF ChildPhase(i) = NoPhase THEN "Succeeded" ELSE ChildPhase(i)
           To(q) == [r EXCEPT !.pc = "finish", !.l.phase = q]
           On == [r EXCEPT !.pc = "context", !.mode = p]
<1>1. Step(i) /\ UNCHANGED <<inst, exec, data>> /\ r.pc = "check" /\ Busy(r)
    BY DEF CheckChildren, Step, At, Busy
<1>2. DOMAIN r = RunFields /\ DOMAIN r.l = ObjectFields
    BY RunShape DEF CurrentPre
<1>3. \/ run'[i] = To("Progressing")
      \/ run'[i] = To("Aborted") /\ r.l.op = "abort"
      \/ run'[i] = On /\ IsCompleted(p)
    BY DEF CheckChildren, Continue, CurrentPre, RecordInv, ShapeInv
<1> HIDE DEF p
<1>4. CASE run'[i] = To("Progressing")
  <2> PICK s : s = To("Progressing")
      OBVIOUS
  <2>1. s.pc = "finish" /\ Copies(r.l, s.l)
      BY <1>2 DEF RunFields, ObjectFields, Copies, SameSpec, RunningPhases
  <2>2. ~Forward(s)
      BY <2>1 DEF Forward
  <2> HIDE DEF To
  <2>3. ASSUME i \in Deploys, ~inst[i].del, Plain(i) => s.l.conf = inst[i].conf
        PROVE  Knows(i, inst[i], exec[i], s, World(i))
    <3>1. Plain(i) => \/ s.l.conf = inst[i].conf
                      \/ s.pc = "finish" /\ exec[i].live /\ s.l.conf = exec[i].in
        BY <2>3
    <3> QED
        BY <2>1, <3>1, KnowsNothing
  <2> QED
      BY <1>1, <1>4, <2>1, <2>2, <2>3, GoOnCurrent
<1>5. CASE run'[i] = To("Aborted") /\ r.l.op = "abort"
  <2>1. i \notin Deploys
      BY <1>1, <1>5, CurrentRun DEF CurrentPre
  <2>2. \A k \in Insts : Unrecorded(k)
      BY <1>1 DEF Unrecorded, SameRecord
  <2> QED
      BY <1>1, <1>5, <2>1, <2>2, MoveCurrent
<1>6. CASE run'[i] = On /\ IsCompleted(p)
  <2> PICK s : s = On
      OBVIOUS
  <2>1. s.pc = "context" /\ s.l = r.l /\ s.mode = p
      BY <1>2 DEF RunFields
  <2>2. Copies(r.l, s.l) /\ Forward(r)
      BY <1>1, <2>1 DEF Copies, SameSpec, Forward
  <2>3. ASSUME i \in Deploys, ~inst[i].del, Plain(i) => s.l.conf = inst[i].conf
        PROVE  Knows(i, inst[i], exec[i], s, World(i))
    <3>1. s.mode = IF ChildPhase(i) = NoPhase THEN "Succeeded" ELSE ChildPhase(i)
        BY <2>1 DEF p
    <3>2. Busy(run[i]) /\ IsCompleted(s.mode)
        BY <1>1, <1>6, <2>1 DEF r
    <3>3. Finished(s, exec[i])
        BY <2>3, <3>1, <3>2, CheckedFinished
    <3> QED
        BY <2>1, <2>3, <3>3 DEF Knows, Exporting, Pipeline, Updates
  <2> QED
      BY <1>1, <1>6, <2>2, <2>3, GoOnCurrent
<1> QED
    BY <1>3, <1>4, <1>5, <1>6

\* The siblings that have succeeded have published what they stand for.
LEMMA InitPrerequisitesCurrent ==
    ASSUME SideBySide, CurrentPre, NEW i \in Insts, InitPrerequisites(i)
    PROVE  CurrentInv'
<1> DEFINE r == run[i]
           Forced == [r EXCEPT !.ready = ContextReady(i), !.pc = "values",
                               !.mode = "force", !.l.phase = "Pending"]
           On == [r EXCEPT !.ready = ContextReady(i), !.pc = "eligible",
                           !.refs = Importers(i)]
<1>1. Step(i) /\ UNCHANGED <<inst, exec, data>> /\ r.pc = "context" /\ Busy(r)
    BY DEF InitPrerequisites, Step, At, Busy
<1>2. DOMAIN r = RunFields /\ DOMAIN r.l = ObjectFields
    BY RunShape DEF CurrentPre
<1>3. \/ Continue(i, Fails(r)) \/ run'[i] = Forced
      \/ run'[i] = On /\ r.l.op # "force"
    BY DEF InitPrerequisites, ReadContext, CurrentPre, RecordInv, ShapeInv
<1>4. ASSUME i \in Deploys, ContextReady(i)
      PROVE  \A k \in World(i).stays : Source(i, k) # Root =>
             World(i).val[k] = World(i).conf[k] /\ World(i).conf[k] \in Confs(i, k)
    BY <1>4, ReadyValues DEF CurrentPre
<1>5. CASE Continue(i, Fails(r))
    BY <1>1, <1>5, UnwrittenCurrent
<1>6. CASE run'[i] = Forced
  <2> PICK s : s = Forced
      OBVIOUS
  <2>1. /\ s.pc = "values" /\ s.mode = "force" /\ s.ready = ContextReady(i)
        /\ Copies(r.l, s.l)
      BY <1>2 DEF RunFields, ObjectFields, Copies, SameSpec, RunningPhases
  <2>2. ~Forward(s)
      BY <2>1 DEF Forward
  <2>3. ASSUME i \in Deploys, ~inst[i].del, Plain(i) => s.l.conf = inst[i].conf
        PROVE  Knows(i, inst[i], exec[i], s, World(i))
      BY <1>4, <2>1, <2>3 DEF Knows, Exporting, Pipeline, Updates
  <2> QED
      BY <1>1, <1>6, <2>1, <2>2, <2>3, GoOnCurrent
<1>7. CASE run'[i] = On /\ r.l.op # "force"
  <2> PICK s : s = On
      OBVIOUS
  <2>1. s.pc = "eligible" /\ s.mode = r.mode /\ s.ready = ContextReady(i) /\ s.l = r.l
      BY <1>2 DEF RunFields
  <2>2. Copies(r.l, s.l) /\ Forward(r)
      BY <1>1, <2>1 DEF Copies, SameSpec, Forward
  <2>3. ASSUME i \in Deploys, ~inst[i].del, Plain(i) => s.l.conf = inst[i].conf
        PROVE  Knows(i, inst[i], exec[i], s, World(i))
    <3>1. Plain(i) => Finished(r, exec[i])
        BY <1>1, <1>7, <2>3, CurrentRun DEF CurrentPre, Knows, Exporting
    <3>2. Plain(i) => Exporting(i, s, exec[i], World(i))
        BY <2>1, <3>1 DEF Exporting, Finished
    <3> QED
        BY <1>4, <2>1, <2>3, <3>2 DEF Knows, Pipeline, Updates
  <2> QED
      BY <1>1, <1>7, <2>2, <2>3, GoOnCurrent
<1> QED
    BY <1>3, <1>5, <1>6, <1>7

\* How a run goes on; one that goes on as complete has an execution to match.
LEMMA CheckEligibleCurrent ==
    ASSUME SideBySide, CurrentPre, NEW i \in Insts, CheckEligible(i)
    PROVE  CurrentInv'
<1> DEFINE r == run[i]
           Update == [r EXCEPT !.pc = "values", !.mode = "update", !.l.phase = "Pending"]
           To == [r EXCEPT !.pc = "finish", !.l.phase = r.mode]
           Done == [r EXCEPT !.pc = "values", !.mode = "complete"]
<1>1. Step(i) /\ UNCHANGED <<inst, exec, data>> /\ r.pc = "eligible" /\ Busy(r)
    BY DEF CheckEligible, Step, At, Busy
<1>2. DOMAIN r = RunFields /\ DOMAIN r.l = ObjectFields
    BY RunShape DEF CurrentPre
<1>3. \/ Continue(i, Fails(r)) \/ run'[i] = Update
      \/ ~EligibleToUpdate(i, r.l) /\ r.mode # "Succeeded" /\ run'[i] = To
      \/ ~EligibleToUpdate(i, r.l) /\ r.mode = "Succeeded" /\ run'[i] = Done
    BY DEF CheckEligible, Continue, CurrentPre, RecordInv, ShapeInv
<1>4. i \in Deploys => ~r.l.del /\ r.l.op # "abort"
    BY <1>1, CurrentRun DEF CurrentPre, Forward
<1>5. ASSUME i \in Deploys, ~inst[i].del
      PROVE  /\ Knows(i, inst[i], exec[i], r, World(i))
             /\ Plain(i) => r.l.conf = inst[i].conf /\ Finished(r, exec[i])
    BY <1>1, <1>5, CurrentRun DEF CurrentPre, Knows, Exporting
<1>6. ASSUME i \in Deploys, ~inst[i].del, r.ready
      PROVE  \A k \in World(i).stays : Source(i, k) # Root =>
             World(i).val[k] = World(i).conf[k] /\ World(i).conf[k] \in Confs(i, k)
    BY <1>1, <1>5, <1>6 DEF Knows
<1>7. CASE Continue(i, Fails(r))
    BY <1>1, <1>7, UnwrittenCurrent
<1>8. CASE run'[i] = Update
  <2> PICK s : s = Update
      OBVIOUS
  <2>1. s.pc = "values" /\ s.mode = "update" /\ s.ready = r.ready /\ Copies(r.l, s.l)
      BY <1>2 DEF RunFields, ObjectFields, Copies, SameSpec, RunningPhases
  <2>2. ~Forward(s)
      BY <2>1 DEF Forward
  <2>3. ASSUME i \in Deploys, ~inst[i].del, Plain(i) => s.l.conf = inst[i].conf
        PROVE  Knows(i, inst[i], exec[i], s, World(i))
      BY <1>6, <2>1, <2>3 DEF Knows, Exporting, Pipeline, Updates
  <2> QED
      BY <1>1, <1>8, <2>1, <2>2, <2>3, GoOnCurrent
<1>9. CASE ~EligibleToUpdate(i, r.l) /\ r.mode = "Succeeded" /\ run'[i] = Done
  <2> PICK s : s = Done
      OBVIOUS
  <2>1. s.pc = "values" /\ s.mode = "complete" /\ s.ready = r.ready /\ s.l = r.l
      BY <1>2 DEF RunFields
  <2>2. Copies(r.l, s.l) /\ Forward(r)
      BY <1>1, <2>1 DEF Copies, SameSpec, Forward
  <2>3. ASSUME i \in Deploys, ~inst[i].del, Plain(i) => s.l.conf = inst[i].conf
        PROVE  Knows(i, inst[i], exec[i], s, World(i))
    <3>1. Plain(i) => Complete(r, exec[i]) /\ exec[i].out = exec[i].in
        BY <1>1, <1>4, <1>5, <1>9, <2>3, CheckedComplete
    <3>2. Plain(i) => Exporting(i, s, exec[i], World(i))
        BY <2>1, <3>1 DEF Exporting, Complete
    <3> QED
        BY <1>6, <2>1, <2>3, <3>2 DEF Knows, Pipeline, Updates
  <2> QED
      BY <1>1, <1>9, <2>2, <2>3, GoOnCurrent
<1>10. CASE ~EligibleToUpdate(i, r.l) /\ r.mode # "Succeeded" /\ run'[i] = To
  <2> PICK s : s = To
      OBVIOUS
  <2>1. /\ s.pc = "finish" /\ SameSpec(r.l, s.l) /\ s.l.op = r.l.op
        /\ s.l.obs = r.l.obs /\ s.l.imports = r.l.imports /\ s.l.conf = r.l.conf
        /\ s.l.phase = r.mode
      BY <1>2 DEF RunFields, ObjectFields, SameSpec
  <2>2. r.mode # NoPhase
      BY <1>1, RunFound DEF CurrentPre, Modes, CompletedPhases, NoPhase
  <2> HIDE DEF To
  <2>3. ASSUME i \in Deploys PROVE CurrentOf(i, inst[i], exec[i], s, World(i))
    <3> PICK e, l, w : e = exec[i] /\ l = r.l /\ w = World(i)
        OBVIOUS
    <3>1. ASSUME ~inst[i].del PROVE Stage(i, inst[i], e, s, w)
      <4>1. Reports(i, l, e, w) /\ (e.live => e.in.version <= l.spec.version)
          BY <1>1, <2>3, <3>1, CurrentRun DEF CurrentPre, Stage
      <4>2. Plain(i) => Complete(r, e)
          BY <1>1, <1>4, <1>5, <1>10, <2>3, <3>1, CheckedComplete
      <4>3. Plain(i) => Published(i, s.l, e, w)
        <5>1. Plain(i) => Published(i, l, e, w)
            BY <4>1 DEF Reports
        <5> QED
            BY <1>10, <2>1, <2>2, <4>2, <5>1 DEF Published, Complete
      <4>4. Reports(i, s.l, e, w)
          BY <2>1, <4>1, <4>3 DEF Reports
      <4>5. Knows(i, inst[i], e, s, w)
        <5>1. Plain(i) => \/ s.l.conf = inst[i].conf
                          \/ s.pc = "finish" /\ e.live /\ s.l.conf = e.in
            BY <1>5, <2>1, <2>3, <3>1
        <5> QED
            BY <2>1, <5>1, KnowsNothing
      <4> QED
          BY <2>1, <4>1, <4>4, <4>5 DEF Stage, SameSpec
    <3>2. /\ s.l.op # "abort" /\ Counted(s.l) /\ Doomed(s.l) /\ ~Forward(s)
      <4>1. ~s.l.del /\ Counted(l)
          BY <1>1, <1>4, <2>1, <2>3, CurrentRun DEF CurrentPre, SameSpec
      <4> QED
          BY <1>4, <2>1, <2>3, <4>1 DEF Counted, Doomed, SameSpec, Forward
    <3>3. CurrentOf(i, inst[i], e, r, w)
        BY <1>1, <2>3, CurrentRun DEF CurrentPre
    <3> QED
        BY <3>1, <3>2, <3>3 DEF CurrentOf
  <2>4. Effects(i)
      BY <1>1, RunStepEffects DEF CurrentPre, ShownInv
  <2>5. \A k \in Insts : Unrecorded(k)
      BY <1>1 DEF Unrecorded, SameRecord
  <2> QED
      BY <1>1, <1>10, <2>3, <2>4, <2>5, PlainStep DEF CurrentPre, Unrecorded, Republished
<1> QED
    BY <1>3, <1>7, <1>8, <1>9, <1>10

\* Values are read from sources that have finished.
LEMMA ReadValuesCurrent ==
    ASSUME SideBySide, CurrentPre, NEW i \in Insts, ReadValues(i)
    PROVE  CurrentInv'
<1> DEFINE r == run[i]
           s == [r EXCEPT !.pc = "confs", !.vals =
                    [k \in Imports[i] |-> data[Parent[i]][k]]]
<1>1. Step(i) /\ UNCHANGED <<inst, exec, data>> /\ r.pc = "values" /\ Busy(r)
    BY DEF ReadValues, Step, At, Busy
<1>2. DOMAIN r = RunFields /\ Parent[i] = Root
    BY RunShape, NoParents DEF CurrentPre
<1>3. CASE Continue(i, Fails(r))
    BY <1>1, <1>3, UnwrittenCurrent
<1>4. CASE Continue(i, s) /\ r.ready
  <2>1. /\ s.pc = "confs" /\ s.l = r.l /\ s.mode = r.mode
        /\ s.vals = [k \in Imports[i] |-> data[Root][k]]
      BY <1>2 DEF RunFields
  <2>2. run'[i] = s
      BY <1>4 DEF Continue, CurrentPre, RecordInv, ShapeInv
  <2> HIDE DEF s
  <2>3. ASSUME i \in Deploys, ~inst[i].del PROVE Knows(i, inst[i], exec[i], s, World(i))
    <3> PICK o, e, w : o = inst[i] /\ e = exec[i] /\ w = World(i)
        OBVIOUS
    <3>1. /\ Rolled(i, e, o.spec.version, w) /\ Reports(i, o, e, w)
          /\ Reports(i, r.l, e, w) /\ Knows(i, o, e, r, w)
        BY <1>1, <2>3, CurrentRun DEF CurrentPre
    <3>2. ASSUME NEW k \in w.stays
          PROVE  s.vals[k] = w.conf[k] /\ w.conf[k] \in Confs(i, k)
      <4>1. k \in Imports[i] /\ s.vals[k] = w.val[k]
          BY <2>1 DEF World
      <4>2. CASE Source(i, k) # Root
          BY <1>1, <1>4, <3>1, <4>1, <4>2 DEF Knows
      <4>3. CASE Source(i, k) = Root
        <5>1. k \in Keys /\ Owner(Root, k) = Root
            BY <4>1, <4>3, NoParents
        <5>2. data[Root][k] \in UserData
            BY <5>1 DEF CurrentPre, CurrentInv
        <5>3. w.conf[k] = data[Root][k] /\ w.val[k] = data[Root][k]
            BY <1>2, <4>1, <4>3 DEF World, ConfOf
        <5> QED
            BY <4>1, <4>3, <5>2, <5>3 DEF Confs
      <4> QED
          BY <4>2, <4>3
    <3>3. Fits(i, s.vals, w)
        BY <2>1, <3>2, Ordered DEF Fits
    <3>4. \A im : Fits(i, im, w) => Before(i, im, s.vals, w)
        BY <3>2 DEF Fits, Before
    <3>5. e.live => Before(i, e.in.imports, s.vals, w)
        BY <3>1, <3>4 DEF Rolled
    <3>6. \A im \in {o.imports, s.l.imports} : im # None => Before(i, im, s.vals, w)
        BY <2>1, <3>1, <3>4 DEF Reports
    <3>7. Plain(i) => Exporting(i, s, e, w) /\ s.l.conf = o.conf
        BY <1>1, <2>1, <3>1 DEF Knows, Exporting, Complete
    <3> QED
        BY <2>1, <3>2, <3>3, <3>5, <3>6, <3>7 DEF Knows, Updates
  <2>4. Forward(s) => Forward(r)
      BY <1>1, <2>1 DEF Forward
  <2>5. i \in Deploys => (Forward(s) => ~s.l.del)
      BY <1>1, <2>1, <2>4, CurrentRun DEF CurrentPre
  <2> QED
      BY <1>1, <2>1, <2>2, <2>3, <2>5, MoveCurrent
         DEF Copies, SameSpec, Unrecorded, SameRecord
<1> QED
    BY <1>3, <1>4 DEF ReadValues

\* The config generations recorded are those of the values.
LEMMA WriteImportsCurrent ==
    ASSUME SideBySide, CurrentPre, NEW i \in Insts, WriteImports(i)
    PROVE  CurrentInv'
<1> DEFINE r == run[i]
           confs == [k \in Imports[i] |->
                       IF Source(i, k) = Root THEN r.vals[k] ELSE ConfOf(i, k)]
           update == [r EXCEPT !.pc = "ensure", !.confs = confs,
                               !.l.phase = "Progressing"]
           complete == [r EXCEPT !.pc = "exports"]
<1>1. Step(i) /\ UNCHANGED <<inst, exec>> /\ r.pc = "confs" /\ Busy(r)
    BY DEF WriteImports, Step, At, Busy
<1>2. DOMAIN r = RunFields /\ DOMAIN r.l = ObjectFields
    BY RunShape DEF CurrentPre
<1>3. DOMAIN data' = DOMAIN data /\ data'[Root] = data[Root]
    BY ForestAssumption DEF WriteImports, CurrentPre, CurrentInv, DataShape
<1>4. CASE Continue(i, Fails(r))
    BY <1>1, <1>3, <1>4, UnwrittenCurrent
<1>5. ASSUME NEW s, Continue(i, s),
             Copies(r.l, s.l) /\ s.mode = r.mode /\ s.vals = r.vals,
             \/ s.pc = "exports" /\ r.mode = "complete" /\ s.l = r.l
             \/ s.pc = "ensure" /\ s.confs = confs /\ s.l.phase = "Progressing"
      PROVE  CurrentInv'
  <2>1. run'[i] = s
      BY <1>5 DEF Continue, CurrentPre, RecordInv, ShapeInv
  <2>2. ASSUME i \in Deploys, ~inst[i].del PROVE Knows(i, inst[i], exec[i], s, World(i))
    <3> PICK o, e, w : o = inst[i] /\ e = exec[i] /\ w = World(i)
        OBVIOUS
    <3>1. Knows(i, o, e, r, w)
        BY <1>1, <2>2, CurrentRun DEF CurrentPre
    <3>2. /\ Fits(i, r.vals, w) /\ (e.live => Before(i, e.in.imports, r.vals, w))
          /\ \A im \in {o.imports, r.l.imports} : im # None => Before(i, im, r.vals, w)
          /\ \A k \in w.stays : Source(i, k) # Root => r.vals[k] = w.conf[k]
          /\ Plain(i) => Exporting(i, r, e, w) /\ r.l.conf = o.conf
        BY <1>1, <3>1 DEF Knows, Pipeline
    <3>3. CASE s.pc = "exports"
      <4>1. Plain(i) => Exporting(i, s, e, w) /\ s.l.conf = o.conf
          BY <1>1, <1>5, <3>2, <3>3 DEF Exporting, Complete
      <4> QED
          BY <3>3, <4>1 DEF Knows, Pipeline, Updates
    <3>4. CASE s.pc = "ensure"
      <4>1. ~IsCompleted(s.l.phase)
          BY <1>5, <3>4 DEF IsCompleted, CompletedPhases
      <4>2. /\ s.confs = [k \in Imports[i] |-> s.confs[k]]
            /\ \A k \in w.stays : s.confs[k] = r.vals[k]
          BY <1>5, <3>2, <3>4 DEF World
      <4>3. Fits(i, s.confs, w)
          BY <3>2, <4>2 DEF Fits
      <4>4. Before(i, s.confs, s.vals, w)
        <5>1. \A k \in w.stays : s.vals[k] \in Confs(i, k) /\ s.vals[k] = s.confs[k]
            BY <1>5, <3>2, <4>2 DEF Fits
        <5> QED
            BY <5>1, Ordered DEF Before
      <4>5. Plain(i) => Exporting(i, s, e, w) /\ s.l.conf = o.conf
          BY <1>5, <3>2, <3>4 DEF Exporting, Copies
      <4> QED
          BY <1>5, <3>2, <3>4, <4>1, <4>3, <4>4, <4>5 DEF Knows, Copies
    <3> QED
        BY <1>5, <3>3, <3>4
  <2>3. Forward(s) => Forward(r)
      BY <1>1, <1>5 DEF Forward
  <2>4. i \in Deploys => (Forward(s) => ~s.l.del)
      BY <1>1, <1>5, <2>3, CurrentRun DEF CurrentPre, Copies, SameSpec
  <2> QED
      BY <1>1, <1>3, <1>5, <2>1, <2>2, <2>4, MoveCurrent DEF Unrecorded, SameRecord
<1>6. CASE Continue(i, IF r.mode = "complete" THEN complete ELSE update)
  <2>1. /\ complete.pc = "exports" /\ complete.l = r.l /\ complete.mode = r.mode
        /\ complete.vals = r.vals /\ Copies(r.l, complete.l)
        /\ update.pc = "ensure" /\ update.confs = confs /\ update.l.phase = "Progressing"
        /\ update.mode = r.mode /\ update.vals = r.vals /\ Copies(r.l, update.l)
      BY <1>2 DEF RunFields, ObjectFields, Copies, SameSpec, RunningPhases
  <2> HIDE DEF complete, update, confs
  <2> QED
      BY <1>5, <1>6, <2>1
<1> QED
    BY <1>4, <1>6 DEF WriteImports

\* There are no subinstallations.
LEMMA EnsureSubsCurrent ==
    ASSUME SideBySide, CurrentPre, NEW i \in Insts, EnsureSubs(i)
    PROVE  CurrentInv'
<1> DEFINE r == run[i]
           s == [r EXCEPT !.refs = LiveSubs(i), !.pc = "subs", !.todo = r.l.spec.subs]
<1>1. Step(i) /\ UNCHANGED <<exec, data>> /\ r.pc = "ensure" /\ Busy(r)
    BY DEF EnsureSubs, Step, At, Busy
<1>2. DOMAIN r = RunFields /\ LiveSubs(i) = {} /\ DOMAIN inst = Insts
    BY RunShape, FlatPhases DEF CurrentPre, RecordInv, ShapeInv
<1>3. CASE inst' = inst /\ Continue(i, Fails(r))
    BY <1>1, <1>3, UnwrittenCurrent
<1>4. CASE inst' = [j \in Insts |-> inst[j]] /\ Continue(i, s)
  <2>1. /\ s.pc = "subs" /\ s.l = r.l /\ s.mode = r.mode /\ s.vals = r.vals
        /\ s.confs = r.confs
      BY <1>2 DEF RunFields
  <2>2. run'[i] = s
      BY <1>4 DEF Continue, CurrentPre, RecordInv, ShapeInv
  <2> HIDE DEF s
  <2>3. ASSUME i \in Deploys, ~inst[i].del PROVE Knows(i, inst[i], exec[i], s, World(i))
    <3>1. Knows(i, inst[i], exec[i], r, World(i))
        BY <1>1, <2>3, CurrentRun DEF CurrentPre
    <3> QED
        BY <1>1, <2>1, <3>1 DEF Knows, Pipeline, Updates, Exporting
  <2> QED
      BY <1>1, <1>4, <2>1, <2>2, <2>3, MoveCurrent
         DEF Copies, SameSpec, Unrecorded, SameRecord, Forward
<1>5. \/ inst' = inst /\ Continue(i, Fails(r))
      \/ inst' = [j \in Insts |-> inst[j]] /\ Continue(i, s)
    BY <1>2 DEF EnsureSubs
<1> QED
    BY <1>3, <1>4, <1>5

LEMMA TriggerSubsCurrent ==
    ASSUME SideBySide, CurrentPre, NEW i \in Insts, TriggerSubs(i)
    PROVE  CurrentInv'
<1> DEFINE r == run[i]
           s == [r EXCEPT !.pc = "exec"]
<1>1. Step(i) /\ UNCHANGED <<exec, data>> /\ r.pc = "trigger" /\ Busy(r)
    BY DEF TriggerSubs, Step, At, Busy
<1>2. DOMAIN r = RunFields /\ DOMAIN run = Insts
    BY RunShape DEF CurrentPre, RecordInv, ShapeInv
<1>3. \A k \in Insts : Unrecorded(k)
    BY OpsUnrecorded, ZenonT(40) DEF TriggerSubs, CurrentPre
<1>4. CASE Continue(i, Fails(r))
  <2>1. run'[i] = Fails(r)
      BY <1>2, <1>4 DEF Continue
  <2> QED
      BY <1>1, <1>3, <2>1, ErrorCurrent
<1>5. CASE Continue(i, s)
  <2>1. /\ s.pc = "exec" /\ s.l = r.l /\ s.mode = r.mode /\ s.vals = r.vals
        /\ s.confs = r.confs
      BY <1>2 DEF RunFields
  <2>2. run'[i] = s
      BY <1>2, <1>5 DEF Continue
  <2> HIDE DEF s
  <2>3. ASSUME i \in Deploys, ~inst[i].del PROVE Knows(i, inst[i], exec[i], s, World(i))
    <3>1. Knows(i, inst[i], exec[i], r, World(i))
        BY <1>1, <2>3, CurrentRun DEF CurrentPre
    <3> QED
        BY <1>1, <2>1, <3>1 DEF Knows, Pipeline, Updates, Exporting
  <2> QED
      BY <1>1, <1>3, <2>1, <2>2, <2>3, MoveCurrent DEF Copies, SameSpec, Forward
<1> QED
    BY <1>4, <1>5 DEF TriggerSubs

LEMMA TriggerDependantsCurrent ==
    ASSUME SideBySide, CurrentPre, NEW i \in Insts, TriggerDependants(i)
    PROVE  CurrentInv'
<1> DEFINE r == run[i]
           s == [r EXCEPT !.pc = "finish"]
<1>1. Step(i) /\ UNCHANGED <<exec, data>> /\ r.pc = "dependants" /\ Busy(r)
    BY DEF TriggerDependants, Step, At, Busy
<1>2. DOMAIN r = RunFields /\ DOMAIN run = Insts
    BY RunShape DEF CurrentPre, RecordInv, ShapeInv
<1>3. \A k \in Insts : Unrecorded(k)
    BY OpsUnrecorded, ZenonT(40) DEF TriggerDependants, CurrentPre
<1>4. CASE Continue(i, Fails(r)) \/ \E failed : Return(i, failed)
  <2>1. run'[i] = Fails(r) \/ run'[i] = Idle
      BY <1>2, <1>4 DEF Continue, Return
  <2> QED
      BY <1>1, <1>3, <2>1, ErrorCurrent
<1>5. CASE Continue(i, s)
  <2>1. s.pc = "finish" /\ s.l = r.l /\ run'[i] = s
      BY <1>2, <1>5 DEF RunFields, Continue
  <2> HIDE DEF s
  <2>2. ASSUME i \in Deploys, ~inst[i].del PROVE Knows(i, inst[i], exec[i], s, World(i))
    <3>1. Plain(i) => s.l.conf = inst[i].conf
        BY <1>1, <2>1, <2>2, CurrentRun DEF CurrentPre
    <3> QED
        BY <2>1, <3>1, KnowsNothing
  <2> QED
      BY <1>1, <1>3, <2>1, <2>2, MoveCurrent DEF Copies, SameSpec, Forward
<1> QED
    BY <1>4, <1>5 DEF TriggerDependants

LEMMA RecheckCurrent ==
    ASSUME SideBySide, CurrentPre, NEW i \in Insts, Recheck(i)
    PROVE  CurrentInv'
<1> DEFINE r == run[i]
           cp == CombinedPhase(RawPhases(i))
           s == [r EXCEPT !.mode = cp, !.refs = Importers(i),
                          !.pc = IF cp = "Succeeded" THEN "exports" ELSE "rephase"]
<1>1. Step(i) /\ UNCHANGED <<inst, exec, data>> /\ r.pc = "recheck" /\ Busy(r)
    BY DEF Recheck, Step, At, Busy
<1>2. DOMAIN r = RunFields /\ DOMAIN run = Insts
    BY RunShape DEF CurrentPre, RecordInv, ShapeInv
<1>3. CASE \E failed : Return(i, failed)
    BY <1>1, <1>3, UnwrittenCurrent
<1>4. CASE ReadContext(i, s) /\ RawPhases(i) # {}
  <2>1. /\ s.pc = (IF cp = "Succeeded" THEN "exports" ELSE "rephase") /\ s.l = r.l
        /\ s.mode = cp /\ run'[i] = s
      BY <1>2, <1>4 DEF RunFields, ReadContext
  <2> HIDE DEF s
  <2>2. ASSUME i \in Deploys, ~inst[i].del PROVE Knows(i, inst[i], exec[i], s, World(i))
    <3> PICK o, e, w : o = inst[i] /\ e = exec[i] /\ w = World(i)
        OBVIOUS
    <3>1. /\ Rolled(i, e, o.spec.version, w) /\ Reports(i, r.l, e, w) /\ Knows(i, o, e, r, w)
          /\ Counted(r.l) /\ ~r.l.del
          /\ Plain(i) => r.l.conf = o.conf
        BY <1>1, <2>2, CurrentRun DEF CurrentPre, Forward
    <3>2. IsCompleted(r.l.phase) /\ r.l.obs = r.l.gen /\ r.l.obs # 0 /\ e.live
        BY <1>1, <3>1 DEF Knows, Counted, Reports
    <3>3. Plain(i) => Complete(r, e)
        BY <3>1, <3>2 DEF Reports, Published, Complete
    <3>4. RawPhases(i) = {e.phase}
        BY <1>4, FlatPhases DEF RawPhases
    <3>5. ASSUME Plain(i)
          PROVE  cp # NoPhase /\ (cp = "Succeeded" => e.out = e.in)
      <4>1. e.gen = e.obs /\ e.phase # NoPhase /\ (e.phase = "Succeeded" => e.out = e.in)
          BY <3>1, <3>2, <3>3, <3>5 DEF Complete, Rolled, Positive
      <4>2. e.phase \in Phase
          BY DEF CurrentPre, ExecInv, TypedExecution, IsExecution
      <4>3. cp = e.phase \/ cp = "Progressing"
          BY <3>4, <4>2, AlonePhase
      <4> QED
          BY <4>1, <4>3 DEF NoPhase
    <3>6. Plain(i) => Exporting(i, s, e, w)
        BY <2>1, <3>3, <3>5 DEF Exporting, Complete
    <3> QED
        BY <2>1, <3>1, <3>6 DEF Knows, Pipeline, Updates
  <2>3. i \in Deploys => ~s.l.del
      BY <1>1, <2>1, CurrentRun DEF CurrentPre, Forward
  <2> QED
      BY <1>1, <2>1, <2>2, <2>3, MoveCurrent DEF Copies, SameSpec, Unrecorded, SameRecord
<1> QED
    BY <1>3, <1>4 DEF Recheck

-----------------------------------------------------------------------------
(* A deletion: nothing more is known of what is being deleted.             *)

\* Once the installation is marked, only its operation and its mark matter.
LEMMA DyingCurrent ==
    ASSUME SideBySide, CurrentPre, NEW i \in Insts, Step(i), NEW s, run'[i] = s,
           Busy(run[i]), run[i].l.del, data' = data,
           \A k \in Insts \ {i} : SameRecord(inst[k], inst'[k]),
           Unrecorded(i) \/ inst'[i] = NoInstallation,
           Busy(s) => Copies(run[i].l, s.l) /\ ~Forward(s)
    PROVE  CurrentInv'
<1>1. Effects(i)
    BY RunStepEffects DEF CurrentPre, ShownInv
<1>2. inst[i].del
    BY DEF CurrentPre, RecordInv, RunRecord, Follows
<1>3. ~Remains(i)'
  <2>1. ~NoInstallation.live
      BY DEF NoInstallation
  <2> HIDE DEF NoInstallation
  <2> QED
      BY <1>2, <2>1 DEF Remains, Unrecorded
<1>4. ASSUME i \in Deploys PROVE CurrentOf(i, inst'[i], exec'[i], run'[i], World(i))
  <2> PICK o, p : o = inst[i] /\ p = inst'[i]
      OBVIOUS
  <2>1. /\ o.op # "abort" /\ o.live /\ Counted(o) /\ Doomed(o) /\ run[i].l.op # "abort"
        /\ Counted(run[i].l) /\ Doomed(run[i].l)
      BY <1>4, CurrentRun DEF CurrentPre
  <2>2. p.op # "abort" /\ ~(p.live /\ ~p.del)
      BY <1>1, <1>3, <2>1 DEF Effects, ObjectEffects, Remains
  <2>3. p.live => Counted(p) /\ Doomed(p)
      BY <2>1 DEF Unrecorded, SameRecord, NoInstallation, Counted, Doomed
  <2>4. Busy(s) => s.l.op # "abort" /\ Counted(s.l) /\ Doomed(s.l)
      BY <2>1, CopyReports DEF Copies
  <2>5. CurrentOf(i, p, exec'[i], s, World(i))
      BY <2>2, <2>3, <2>4 DEF CurrentOf
  <2> QED
      BY <2>5
<1> QED
    BY <1>1, <1>3, <1>4, PlainStep DEF CurrentPre

LEMMA DeleteCurrent ==
    ASSUME SideBySide, CurrentPre, NEW i \in Insts, Delete(i)
    PROVE  CurrentInv'
<1> DEFINE r == run[i]
           Up(q) == [r EXCEPT !.pc = "values", !.mode = "delete",
                              !.ready = ContextReady(i), !.l.phase = q]
           To(p) == [r EXCEPT !.pc = p]
           Deleting == [r EXCEPT !.pc = "finish", !.l.phase = "Deleting"]
           s == run'[i]
<1>1. Step(i) /\ UNCHANGED <<inst, exec, data>> /\ r.pc = "delete" /\ Busy(r) /\ r.l.del
    BY DEF Delete, Step, At, Busy, CurrentPre, RecordInv, RunRecord, Modes
<1>2. DOMAIN r = RunFields /\ DOMAIN r.l = ObjectFields /\ DOMAIN run = Insts
    BY RunShape DEF CurrentPre, RecordInv, ShapeInv
<1>3. \/ s = Fails(r)
      \/ s = Up(IF r.l.op = "force" THEN r.l.phase ELSE "Pending")
      \/ \E p \in {"removeFinalizer", "deleteAll"} : s = To(p)
      \/ s = Deleting
    BY <1>2 DEF Delete, Continue, ReadContext
<1>4. /\ Fails(r).pc = "finish" /\ Fails(r).l = r.l
      /\ \A p : To(p).pc = p /\ To(p).l = r.l
      /\ Deleting.pc = "finish" /\ Copies(r.l, Deleting.l)
    BY <1>2 DEF RunFields, ObjectFields, Copies, SameSpec, RunningPhases, Fails
<1>5. ASSUME NEW q, q = r.l.phase \/ q = "Pending"
      PROVE  Up(q).pc = "values" /\ Up(q).mode = "delete" /\ Copies(r.l, Up(q).l)
    BY <1>2, <1>5 DEF RunFields, ObjectFields, Copies, SameSpec, RunningPhases
<1> HIDE DEF Up, To, Deleting, Fails
<1>6. Copies(r.l, s.l) /\ ~Forward(s)
  <2>1. Copies(r.l, r.l)
      BY DEF Copies, SameSpec
  <2> QED
      BY <1>3, <1>4, <1>5, <2>1 DEF Forward
<1> QED
    BY <1>1, <1>6, DyingCurrent DEF Unrecorded, SameRecord

LEMMA DeleteAllCurrent ==
    ASSUME SideBySide, CurrentPre, NEW i \in Insts, DeleteAll(i)
    PROVE  CurrentInv'
<1> DEFINE r == run[i]
           d == [r EXCEPT !.l.phase = "Deleting"]
           To(p) == [d EXCEPT !.pc = p]
           s == run'[i]
<1>1. Step(i) /\ data' = data /\ r.pc = "deleteAll" /\ Busy(r) /\ r.l.del
    BY DEF DeleteAll, Step, At, Busy, CurrentPre, RecordInv, RunRecord, Modes
<1>2. DOMAIN r = RunFields /\ DOMAIN r.l = ObjectFields /\ DOMAIN run = Insts
    BY RunShape DEF CurrentPre, RecordInv, ShapeInv
<1>3. \A k \in Insts : inst'[k] = inst[k]
  <2>1. \E js \in SUBSET Children(i) :
           /\ \A k \in js : inst'[k] = Deleted(inst[k])
           /\ \A k \in Insts \ js : inst'[k] = inst[k]
      BY DeletedChildren DEF CurrentPre
  <2> QED
      BY <2>1, FlatPhases
<1>4. \/ s = Fails(d) \/ s = To("dropForce") \/ s = To("finish") \/ s = To("removeFinalizer")
    BY <1>2 DEF DeleteAll, Continue
<1>5. DOMAIN d = RunFields /\ Copies(r.l, d.l)
    BY <1>2 DEF RunFields, ObjectFields, Copies, SameSpec, RunningPhases
<1> HIDE DEF d
<1>6. /\ Fails(d).pc = "finish" /\ Fails(d).l = d.l
      /\ \A p : To(p).pc = p /\ To(p).l = d.l
    BY <1>5 DEF RunFields, Fails
<1> HIDE DEF To, Fails
<1>7. Copies(r.l, s.l) /\ ~Forward(s)
    BY <1>4, <1>5, <1>6 DEF Forward
<1> QED
    BY <1>1, <1>3, <1>7, DyingCurrent DEF Unrecorded, SameRecord

LEMMA RemoveFinalizerCurrent ==
    ASSUME SideBySide, CurrentPre, NEW i \in Insts, RemoveFinalizer(i)
    PROVE  CurrentInv'
<1> DEFINE r == run[i]
<1>1. /\ Step(i) /\ UNCHANGED <<exec, data>> /\ r.pc = "removeFinalizer" /\ Busy(r)
      /\ r.l.del
    BY DEF RemoveFinalizer, Step, At, Busy, CurrentPre, RecordInv, RunRecord, Modes
<1>2. CASE inst' = inst /\ Continue(i, FailsPlain(r))
    BY <1>1, <1>2, UnwrittenCurrent
<1>3. CASE inst' = [inst EXCEPT ![i] = NoInstallation] /\ Return(i, FALSE)
  <2>1. inst'[i] = NoInstallation /\ \A k \in Insts \ {i} : inst'[k] = inst[k]
      BY <1>3 DEF CurrentPre, RecordInv, ShapeInv
  <2>2. run'[i] = Idle /\ ~Busy(Idle)
      BY <1>3 DEF Return, CurrentPre, RecordInv, ShapeInv, Idle, Busy
  <2> HIDE DEF Idle, NoInstallation
  <2> QED
      BY <1>1, <2>1, <2>2, DyingCurrent DEF SameRecord
<1> QED
    BY <1>2, <1>3 DEF RemoveFinalizer

-----------------------------------------------------------------------------
(* Writes of the status.                                                   *)

\* A write of the status from a copy that is up to date.
LEMMA StoreCurrent ==
    ASSUME SideBySide, CurrentPre, NEW i \in Insts, Step(i), Busy(run[i]), i \in fresh[i],
           NEW l, NEW s, run'[i] = s, exec' = exec, data' = data,
           inst' = [inst EXCEPT ![i] = WithStatus(@, l)],
           i \in Deploys => SameSpec(run[i].l, l) /\ Doomed(l),
           i \in Deploys /\ ~inst[i].del =>
              /\ Reports(i, l, exec[i], World(i))
              /\ Plain(i) => l.conf = inst[i].conf \/ (exec[i].live /\ l.conf = exec[i].in),
           i \in Deploys /\ Busy(s) =>
              /\ s.l.op # "abort" /\ Counted(s.l) /\ Doomed(s.l) /\ (Forward(s) => ~s.l.del)
              /\ ~inst[i].del =>
                    /\ Reports(i, s.l, exec[i], World(i)) /\ s.l.spec = run[i].l.spec
                    /\ \A p : SameRecord(l, p) => Knows(i, p, exec[i], s, World(i))
    PROVE  CurrentInv'
<1> PICK o, p, e, r, w : /\ o = inst[i] /\ p = inst'[i] /\ e = exec[i] /\ r = run[i]
                         /\ w = World(i)
    OBVIOUS
<1>1. Effects(i) /\ DOMAIN inst = Insts /\ DOMAIN o = ObjectFields
    BY RunStepEffects, RunShape DEF CurrentPre, ShownInv, RecordInv, ShapeInv
<1>2. p = WithStatus(o, l) /\ \A k \in Insts \ {i} : inst'[k] = inst[k]
    BY <1>1
<1>3. /\ p.live = o.live /\ p.del = o.del /\ p.gen = o.gen /\ p.spec = o.spec /\ p.op = o.op
      /\ SameRecord(l, p)
    BY <1>1, <1>2 DEF WithStatus, ObjectFields, SameRecord
<1>4. ASSUME i \in Deploys PROVE CurrentOf(i, p, e, s, w)
  <2>1. CurrentOf(i, o, e, r, w) /\ Counted(o) /\ Counted(r.l)
      BY <1>4, CurrentRun DEF CurrentPre
  <2>2. l.gen = o.gen /\ l.del = o.del
      BY <1>4, <2>1, FreshCopy DEF CurrentPre, SameSpec
  <2>3. ASSUME Busy(s), ~o.del PROVE Stage(i, p, e, s, w)
    <3>1. e.live => e.in.version <= r.l.spec.version
        BY <1>4, <2>3, CurrentRun DEF CurrentPre, Stage
    <3>2. Reports(i, s.l, e, w) /\ s.l.spec = r.l.spec /\ Knows(i, p, e, s, w)
        BY <1>3, <1>4, <2>3
    <3> QED
        BY <3>1, <3>2 DEF Stage
  <2>4. Busy(s) => /\ s.l.op # "abort" /\ Counted(s.l) /\ Doomed(s.l)
                   /\ (Forward(s) => ~s.l.del)
      BY <1>4
  <2>5. Doomed(l) /\ (~o.del => Reports(i, l, e, w))
      BY <1>4
  <2> QED
      BY <1>3, <2>1, <2>2, <2>3, <2>4, <2>5, Stored
<1>5. Plain(i) /\ Remains(i)' => Republished(i)
    BY <1>3 DEF Plain, Remains, Republished, SameRecord
<1>6. \A k \in Insts \ {i} : SameRecord(inst[k], inst'[k])
    BY <1>2 DEF SameRecord
<1> QED
    BY <1>1, <1>4, <1>5, <1>6, PlainStep DEF CurrentPre

\* The last write of a run that has published.
LEMMA FinishCurrent ==
    ASSUME SideBySide, "lasting" \notin Events, CurrentPre, NEW i \in Insts, Finish(i)
    PROVE  CurrentInv'
<1> DEFINE r == run[i]
           o(e) == [r.l EXCEPT !.err = e, !.phase = PhaseForLastError(@, e)]
<1>1. Step(i) /\ UNCHANGED <<exec, data>> /\ r.pc = "finish" /\ Busy(r)
    BY DEF Finish, Step, At, Busy
<1>2. \E failed : Return(i, failed)
    BY DEF Finish
<1>3. \/ inst' = inst
      \/ i \in fresh[i] /\ \E e \in {"none", "recent"} :
              inst' = [inst EXCEPT ![i] = WithStatus(@, o(e))]
    BY DEF Finish, Spend
<1>4. CASE inst' = inst
    BY <1>1, <1>2, <1>4, UnwrittenCurrent
<1>5. ASSUME NEW e \in {"none", "recent"}, i \in fresh[i],
             inst' = [inst EXCEPT ![i] = WithStatus(@, o(e))]
      PROVE  CurrentInv'
  <2> PICK l : l = o(e)
      OBVIOUS
  <2>1. /\ SameSpec(r.l, l) /\ l.obs = r.l.obs /\ l.imports = r.l.imports
        /\ l.conf = r.l.conf /\ l.phase = PhaseForLastError(r.l.phase, e)
      BY RunShape DEF CurrentPre, ObjectFields, SameSpec
  <2>2. /\ r.l.phase # NoPhase => l.phase = r.l.phase
        /\ l.phase = "Succeeded" => l.phase = r.l.phase
      BY <2>1 DEF PhaseForLastError
  <2>3. ASSUME i \in Deploys PROVE Doomed(l)
    <3>1. Doomed(r.l)
        BY <1>1, <2>3, CurrentRun DEF CurrentPre
    <3> QED
        BY <2>1, <2>2, <3>1 DEF Doomed, SameSpec
  <2>4. ASSUME i \in Deploys, ~inst[i].del
        PROVE  /\ Reports(i, l, exec[i], World(i))
               /\ Plain(i) => l.conf = inst[i].conf \/ (exec[i].live /\ l.conf = exec[i].in)
    <3>1. Reports(i, r.l, exec[i], World(i))
        BY <1>1, <2>4, CurrentRun DEF CurrentPre
    <3>2. Plain(i) => l.conf = inst[i].conf \/ (exec[i].live /\ l.conf = exec[i].in)
        BY <1>1, <2>1, <2>4, CurrentRun DEF CurrentPre
    <3>3. Plain(i) => Published(i, l, exec[i], World(i))
        BY <2>1, <2>2, <3>1 DEF Reports, Published
    <3> QED
        BY <2>1, <3>1, <3>2, <3>3 DEF Reports
  <2>5. run'[i] = Idle /\ ~Busy(Idle)
      BY <1>2 DEF Return, CurrentPre, RecordInv, ShapeInv, Idle, Busy
  <2>6. inst' = [inst EXCEPT ![i] = WithStatus(@, l)]
      BY <1>5
  <2> HIDE DEF Idle
  <2> QED
      BY <1>1, <1>5, <2>1, <2>3, <2>4, <2>5, <2>6, StoreCurrent
<1> QED
    BY <1>3, <1>4, <1>5

LEMMA CreateSubCurrent ==
    ASSUME SideBySide, CurrentPre, NEW i \in Insts, CreateSub(i)
    PROVE  CurrentInv'
<1> DEFINE r == run[i]
           s == [r EXCEPT !.pc = "trigger"]
<1>1. Step(i) /\ UNCHANGED <<exec, data>> /\ r.pc = "subs" /\ Busy(r)
    BY DEF CreateSub, Step, At, Busy
<1>2. /\ DOMAIN r = RunFields /\ DOMAIN run = Insts /\ r.todo = {}
    BY RunShape, FlatPhases DEF CurrentPre, RecordInv, ShapeInv, IsRun
<1>3. \/ inst' = inst /\ Continue(i, FailsPlain(r))
      \/ /\ i \in fresh[i] /\ inst' = [inst EXCEPT ![i] = WithStatus(@, r.l)]
         /\ Continue(i, s)
    BY <1>2 DEF CreateSub
<1>4. CASE inst' = inst /\ Continue(i, FailsPlain(r))
    BY <1>1, <1>4, UnwrittenCurrent
<1>5. CASE /\ i \in fresh[i] /\ inst' = [inst EXCEPT ![i] = WithStatus(@, r.l)]
           /\ Continue(i, s)
  <2>1. /\ s.pc = "trigger" /\ s.l = r.l /\ s.vals = r.vals /\ s.confs = r.confs
        /\ run'[i] = s
      BY <1>2, <1>5 DEF RunFields, Continue
  <2> HIDE DEF s
  <2>2. ASSUME i \in Deploys, ~inst[i].del, NEW p, SameRecord(r.l, p)
        PROVE  Knows(i, p, exec[i], s, World(i))
    <3> PICK e, w : e = exec[i] /\ w = World(i)
        OBVIOUS
    <3>1. Knows(i, inst[i], e, r, w)
        BY <1>1, <2>2, CurrentRun DEF CurrentPre
    <3>2. /\ Fits(i, s.vals, w) /\ (e.live => Before(i, e.in.imports, s.vals, w))
          /\ \A im \in {p.imports, s.l.imports} : im # None => Before(i, im, s.vals, w)
        BY <1>1, <2>1, <2>2, <3>1 DEF Knows, Pipeline, SameRecord
    <3>3. /\ Fits(i, s.confs, w) /\ Before(i, s.confs, s.vals, w)
          /\ ~IsCompleted(s.l.phase) /\ ~IsCompleted(p.phase)
        BY <1>1, <2>1, <2>2, <3>1 DEF Knows, Updates, SameRecord
    <3>4. Exporting(i, s, e, w) /\ s.l.conf = p.conf
        BY <2>1, <2>2 DEF Exporting, SameRecord
    <3> QED
        BY <2>1, <3>2, <3>3, <3>4 DEF Knows
  <2>3. i \in Deploys => /\ SameSpec(r.l, r.l) /\ Doomed(r.l) /\ r.l.op # "abort"
                         /\ Counted(r.l) /\ ~Forward(s)
      BY <1>1, <2>1, CurrentRun DEF CurrentPre, Forward, SameSpec
  <2>4. i \in Deploys /\ ~inst[i].del =>
           /\ Reports(i, r.l, exec[i], World(i))
           /\ Plain(i) => r.l.conf = inst[i].conf
      BY <1>1, CurrentRun DEF CurrentPre
  <2> QED
      BY <1>1, <1>5, <2>1, <2>2, <2>3, <2>4, StoreCurrent
<1> QED
    BY <1>3, <1>4, <1>5

\* The phase of a completed installation follows that of its execution.
LEMMA RephaseCurrent ==
    ASSUME SideBySide, CurrentPre, NEW i \in Insts, Rephase(i)
    PROVE  CurrentInv'
<1> DEFINE r == run[i]
           o == [r.l EXCEPT !.phase = r.mode]
           s == [r EXCEPT !.pc = "dependants", !.l = o]
<1>1. Step(i) /\ UNCHANGED <<exec, data>> /\ r.pc = "rephase" /\ Busy(r)
    BY DEF Rephase, Step, At, Busy
<1>2. DOMAIN r = RunFields /\ DOMAIN r.l = ObjectFields /\ DOMAIN run = Insts
    BY RunShape DEF CurrentPre, RecordInv, ShapeInv
<1>3. CASE inst' = inst /\ Return(i, TRUE)
    BY <1>1, <1>3, UnwrittenCurrent
<1>4. CASE /\ i \in fresh[i] /\ inst' = [inst EXCEPT ![i] = WithStatus(@, o)]
           /\ Continue(i, s) \/ Return(i, FALSE)
  <2> PICK l : l = o
      OBVIOUS
  <2>1. /\ SameSpec(r.l, l) /\ l.obs = r.l.obs /\ l.imports = r.l.imports
        /\ l.conf = r.l.conf /\ l.phase = r.mode /\ l.op = r.l.op
      BY <1>2 DEF ObjectFields, SameSpec
  <2>2. run'[i] = Idle \/ run'[i] = s
      BY <1>2, <1>4 DEF Continue, Return
  <2>3. s.pc = "dependants" /\ s.l = l /\ ~Busy(Idle)
      BY <1>2 DEF RunFields, Idle, Busy
  <2> HIDE DEF s, Idle
  <2>4. i \in Deploys => /\ ~l.del /\ l.op # "abort" /\ Counted(l) /\ Doomed(l)
      BY <1>1, <2>1, CurrentRun DEF CurrentPre, Forward, SameSpec, Counted, Doomed
  <2>5. ASSUME i \in Deploys, ~inst[i].del
        PROVE  /\ Reports(i, l, exec[i], World(i))
               /\ Plain(i) => l.conf = inst[i].conf
    <3> PICK e, w : e = exec[i] /\ w = World(i)
        OBVIOUS
    <3>1. /\ Reports(i, r.l, e, w) /\ Knows(i, inst[i], e, r, w)
          /\ Plain(i) => r.l.conf = inst[i].conf
        BY <1>1, <2>5, CurrentRun DEF CurrentPre
    <3>2. Plain(i) => /\ Complete(r, e) /\ r.mode # NoPhase
                      /\ r.mode = "Succeeded" =>
                            r.l.conf = e.in /\ \A k \in Exports[i] : w.out[k] = e.in
        BY <1>1, <3>1 DEF Knows, Exporting
    <3>3. r.l.gen # 0
        BY <2>1, <2>4, <2>5 DEF Counted, SameSpec
    <3>4. Plain(i) => Published(i, l, e, w)
        BY <2>1, <3>1, <3>2, <3>3 DEF Reports, Published, Complete
    <3> QED
        BY <2>1, <3>1, <3>4 DEF Reports
  <2>6. ASSUME i \in Deploys, ~inst[i].del, NEW p, SameRecord(l, p)
        PROVE  Knows(i, p, exec[i], s, World(i))
    <3> PICK u : u = s
        OBVIOUS
    <3>1. u.l.conf = p.conf /\ u.pc = "dependants"
        BY <2>3, <2>6 DEF SameRecord
    <3>2. Knows(i, p, exec[i], u, World(i))
        BY <3>1, KnowsNothing
    <3> QED
        BY <3>2
  <2>7. inst' = [inst EXCEPT ![i] = WithStatus(@, l)]
      BY <1>4
  <2>8. l.spec = r.l.spec
      BY <2>1 DEF SameSpec
  <2> PICK u : u = run'[i]
      OBVIOUS
  <2>9. Busy(u) => u.pc = "dependants" /\ u.l = l /\ u = s
      BY <2>2, <2>3
  <2>10. i \in Deploys /\ Busy(u) =>
            /\ u.l.op # "abort" /\ Counted(u.l) /\ Doomed(u.l) /\ (Forward(u) => ~u.l.del)
            /\ ~inst[i].del =>
                  /\ Reports(i, u.l, exec[i], World(i)) /\ u.l.spec = r.l.spec
                  /\ \A p : SameRecord(l, p) => Knows(i, p, exec[i], u, World(i))
      BY <2>4, <2>5, <2>6, <2>8, <2>9
  <2>11. i \in Deploys => SameSpec(r.l, l) /\ Doomed(l)
      BY <2>1, <2>4
  <2>12. i \in Deploys /\ ~inst[i].del =>
            /\ Reports(i, l, exec[i], World(i))
            /\ Plain(i) => l.conf = inst[i].conf \/ (exec[i].live /\ l.conf = exec[i].in)
      BY <2>5
  <2> QED
      BY <1>1, <1>4, <2>7, <2>10, <2>11, <2>12, StoreCurrent
<1> QED
    BY <1>3, <1>4 DEF Rephase

\* The force operation is dropped; what was forced is recorded as observed.
LEMMA DropForceCurrent ==
    ASSUME SideBySide, CurrentPre, NEW i \in Insts, DropForce(i)
    PROVE  CurrentInv'
<1> DEFINE r == run[i]
           o == [inst[i] EXCEPT !.op = "none"]
           forced == [o EXCEPT !.obs = o.gen, !.phase = "Progressing"]
           l == IF r.mode = "force" THEN forced ELSE o
           s == [r EXCEPT !.pc = "finish", !.l = l]
<1>1. Step(i) /\ UNCHANGED <<exec, data>> /\ r.pc = "dropForce" /\ Busy(r)
    BY DEF DropForce, Step, At, Busy
<1>2. /\ DOMAIN r = RunFields /\ DOMAIN inst[i] = ObjectFields /\ DOMAIN run = Insts
      /\ DOMAIN inst = Insts
    BY RunShape DEF CurrentPre, RecordInv, ShapeInv
<1>3. CASE inst' = inst /\ (Continue(i, FailsPlain(r)) \/ Continue(i, Fails(r)))
    BY <1>1, <1>3, UnwrittenCurrent
<1>4. CASE i \in fresh[i] /\ inst' = [inst EXCEPT ![i] = o] /\ Continue(i, s)
  <2>1. /\ SameSpec(inst[i], o) /\ SameRecord(inst[i], o) /\ o.op = "none"
        /\ DOMAIN o = ObjectFields
      BY <1>2 DEF ObjectFields, SameSpec, SameRecord
  <2> HIDE DEF o
  <2>2. /\ SameSpec(o, l) /\ l.imports = o.imports /\ l.conf = o.conf /\ l.op = o.op
        /\ r.mode = "force" => l.obs = o.gen /\ l.phase = "Progressing"
        /\ r.mode # "force" => l.obs = o.obs /\ l.phase = o.phase
      BY <2>1 DEF ObjectFields, SameSpec
  <2> HIDE DEF l
  <2>3. s.pc = "finish" /\ s.l = l /\ run'[i] = s /\ ~Forward(s)
      BY <1>2, <1>4 DEF RunFields, Continue, Forward
  <2> HIDE DEF s
  <2>4. inst'[i] = o /\ \A k \in Insts \ {i} : inst'[k] = inst[k]
      BY <1>2, <1>4
  <2>5. ASSUME i \in Deploys PROVE CurrentOf(i, o, exec[i], s, World(i))
    <3> PICK p, e, w : p = inst[i] /\ e = exec[i] /\ w = World(i)
        OBVIOUS
    <3>1. /\ p.live /\ Counted(p) /\ Doomed(p) /\ Counted(r.l)
          /\ ~p.del =>
                /\ Rolled(i, e, p.spec.version, w) /\ Reports(i, p, e, w)
                /\ Knows(i, p, e, r, w)
        BY <1>1, <2>5, CurrentRun DEF CurrentPre
    <3>2. /\ Counted(o) /\ Doomed(o) /\ o.del = p.del /\ o.spec = p.spec
          /\ o.live = p.live /\ SameRecord(p, o)
        BY <2>1, <3>1 DEF Counted, Doomed, SameSpec, SameRecord
    <3>3. ~IsCompleted("Progressing") /\ "Progressing" # "Succeeded" /\ "Progressing" # NoPhase
        BY DEF IsCompleted, CompletedPhases, NoPhase
    <3>4. Counted(l) /\ Doomed(l) /\ l.op # "abort"
        BY <2>1, <2>2, <3>2, <3>3 DEF Counted, Doomed, SameSpec
    <3>5. ASSUME ~p.del
          PROVE  /\ Rolled(i, e, o.spec.version, w) /\ Reports(i, o, e, w)
                 /\ Stage(i, o, e, s, w)
      <4>1. Rolled(i, e, o.spec.version, w) /\ Reports(i, o, e, w)
          BY <3>1, <3>2, <3>5 DEF Reports, Published, SameRecord
      <4>2. /\ e.live /\ e.in.version = r.l.spec.version /\ r.l.spec = p.spec
            /\ o.gen = o.spec.version /\ o.gen # 0 /\ e.in.version = o.gen
            /\ o.gen \in Nat
        <5>1. e.live /\ e.in.version = r.l.spec.version
            BY <1>1, <3>1, <3>5 DEF Knows
        <5>2. r.l.spec = p.spec
            BY <1>1, <1>4, <3>1, FreshCopy DEF CurrentPre
        <5>3. p.spec.version \in Nat
            BY <1>1, <2>5, CurrentRun DEF CurrentPre
        <5> QED
            BY <3>2, <3>5, <5>1, <5>2, <5>3 DEF Counted
      <4>3. Reports(i, l, e, w)
        <5>1. CASE r.mode # "force"
            BY <2>2, <4>1, <5>1 DEF Reports, Published
        <5>2. CASE r.mode = "force"
          <6>1. l.obs = e.in.version /\ l.phase = "Progressing"
              BY <2>2, <4>2, <5>2
          <6>2. Plain(i) => Published(i, l, e, w)
              BY <2>2, <3>3, <4>1, <4>2, <6>1 DEF Reports, Published
          <6> QED
              BY <2>2, <4>1, <4>2, <6>2 DEF Reports
        <5> QED
            BY <5>1, <5>2
      <4>4. Knows(i, o, e, s, w)
          BY <2>2, <2>3, KnowsNothing
      <4>5. e.in.version <= l.spec.version
          BY <2>2, <4>2 DEF SameSpec
      <4> QED
          BY <2>3, <4>1, <4>3, <4>4, <4>5 DEF Stage
    <3>6. CurrentOf(i, o, e, s, w)
        BY <2>1, <2>3, <3>2, <3>4, <3>5 DEF CurrentOf
    <3> QED
        BY <3>6
  <2>6. Effects(i)
      BY <1>1, RunStepEffects DEF CurrentPre, ShownInv
  <2> QED
      BY <1>1, <2>1, <2>3, <2>4, <2>5, <2>6, PlainStep DEF CurrentPre, SameRecord, Republished
<1> QED
    BY <1>3, <1>4 DEF DropForce

-----------------------------------------------------------------------------
(* The exports.                                                            *)

\* New exports are those the status may stand for.
LEMMA ExportReports ==
    ASSUME NEW i, NEW o, NEW e, NEW w, NEW w1, Reports(i, o, e, w),
           w1.stays = w.stays, w1.conf = w.conf,
           Plain(i) => \A k \in Exports[i] : w1.out[k] = e.in
    PROVE  Reports(i, o, e, w1)
BY DEF Reports, Published, Fits, Before

LEMMA WriteExportsCurrent ==
    ASSUME SideBySide, CurrentPre, NEW i \in Insts, WriteExports(i)
    PROVE  CurrentInv'
<1> DEFINE r == run[i]
           s == [r EXCEPT !.pc = "publish"]
           d == data'[Root]
<1>1. Step(i) /\ UNCHANGED <<inst, exec>> /\ r.pc = "exports" /\ Busy(r)
    BY DEF WriteExports, Step, At, Busy
<1>2. CASE data' = data /\ (Continue(i, Fails(r)) \/ Return(i, TRUE))
    BY <1>1, <1>2, UnwrittenCurrent
<1>3. CASE /\ Continue(i, s)
           /\ data' = [data EXCEPT ![Parent[i]] = [k \in Keys |->
                         IF k \in Exports[i] THEN ExportOf(i, k) ELSE @[k]]]
  <2>1. Parent[i] = Root /\ Children(i) = {} /\ Root \in DOMAIN data
      BY NoParents DEF CurrentPre, CurrentInv, DataShape
  <2>2. /\ d = [k \in Keys |-> IF k \in Exports[i] THEN ExportOf(i, k) ELSE data[Root][k]]
        /\ DOMAIN data' = DOMAIN data
      BY <1>3, <2>1
  <2>3. OthersKeep(i)
      BY <1>1, <2>1, <2>2 DEF OthersKeep, DataShape
  <2>4. s.pc = "publish" /\ s.l = r.l /\ s.mode = r.mode /\ run'[i] = s
      BY <1>3, RunShape DEF RunFields, Continue, CurrentPre, RecordInv, ShapeInv
  <2> HIDE DEF s
  <2>5. ASSUME i \in Deploys
        PROVE  CurrentOf(i, inst[i], exec[i], s, Exported(i, World(i), d))
    <3> PICK o, e, w, w1 : /\ o = inst[i] /\ e = exec[i] /\ w = World(i)
                           /\ w1 = Exported(i, w, d)
        OBVIOUS
    <3>1. /\ w1.stays = w.stays /\ w1.conf = w.conf /\ w1.val = w.val
          /\ \A k \in Exports[i] : w1.out[k] = d[k]
        BY DEF Exported, World
    <3>2. \A k \in Exports[i] : w1.out[k] = e.out
      <4>1. \A k \in Exports[i] : k \in Keys
          BY NoParents
      <4> QED
          BY <2>1, <2>2, <2>5, <3>1, <4>1 DEF ExportOf
    <3>3. /\ o.op # "abort" /\ o.live /\ Counted(o) /\ Doomed(o)
          /\ r.l.op # "abort" /\ Counted(r.l) /\ Doomed(r.l) /\ ~r.l.del
        BY <1>1, <2>5, CurrentRun DEF CurrentPre, Forward
    <3>4. ASSUME ~o.del
          PROVE  /\ Rolled(i, e, o.spec.version, w1) /\ Reports(i, o, e, w1)
                 /\ Stage(i, o, e, s, w1)
      <4>1. /\ Rolled(i, e, o.spec.version, w) /\ Reports(i, o, e, w)
            /\ Reports(i, r.l, e, w) /\ Knows(i, o, e, r, w)
            /\ e.live => e.in.version <= r.l.spec.version
            /\ Plain(i) => r.l.conf = o.conf
          BY <1>1, <2>5, <3>4, CurrentRun DEF CurrentPre, Stage
      <4>2. Plain(i) => /\ Complete(r, e) /\ \A k \in Exports[i] : w1.out[k] = e.in
          BY <1>1, <3>2, <4>1 DEF Knows, Exporting
      <4>3. Reports(i, o, e, w1) /\ Reports(i, r.l, e, w1)
          BY <3>1, <4>1, <4>2, ExportReports
      <4>4. Rolled(i, e, o.spec.version, w1)
          BY <3>1, <4>1 DEF Rolled, Fits
      <4>5. Plain(i) => Exporting(i, s, e, w1)
          BY <1>1, <2>4, <3>1, <4>1, <4>2 DEF Knows, Exporting, Complete
      <4>6. Knows(i, o, e, s, w1)
          BY <2>4, <4>1, <4>5 DEF Knows, Pipeline, Updates
      <4> QED
          BY <2>4, <4>1, <4>3, <4>4, <4>6 DEF Stage
    <3>5. CurrentOf(i, o, e, s, w1)
        BY <2>4, <3>3, <3>4 DEF CurrentOf
    <3> QED
        BY <3>5
  <2>6. Effects(i)
      BY <1>1, RunStepEffects DEF CurrentPre, ShownInv
  <2>7. CurrentOf(i, inst'[i], exec'[i], run'[i], Exported(i, World(i), d))
      BY <1>1, <2>4, <2>5 DEF CurrentOf
  <2>8. Republished(i)
      BY <1>1 DEF Republished
  <2> HIDE DEF d
  <2> QED
      BY <2>3, <2>6, <2>7, <2>8, RunCurrent DEF CurrentPre, d
<1> QED
    BY <1>2, <1>3 DEF WriteExports

\* The status that is written with the config generation.
LEMMA PublishedReports ==
    ASSUME NEW i \in Deploys, NEW v, NEW r, NEW m,
           Rolled(i, exec[i], v, World(i)), Reports(i, r.l, exec[i], World(i)),
           Plain(i) => Complete(r, exec[i]) /\ \A k \in Exports[i] : World(i).out[k] = exec[i].in,
           r.l.gen # 0, m.obs = r.l.obs, m.imports = r.l.imports,
           m.conf = Computed(r.l.gen, r.l.imports),
           m.phase = r.l.phase \/ m.phase = "Succeeded"
    PROVE  Reports(i, m, exec[i], World(i)) /\ (Plain(i) => exec[i].live /\ m.conf = exec[i].in)
<1>1. ASSUME Plain(i)
      PROVE  Published(i, m, exec[i], World(i)) /\ exec[i].live /\ m.conf = exec[i].in
  <2>1. exec[i].live /\ m.conf = exec[i].in /\ Complete(r, exec[i])
      BY <1>1 DEF Complete
  <2>2. exec[i].in \in Generations(i)
      BY <1>1, <2>1, RolledGeneration
  <2>3. Older(Imports[i], exec[i].in, exec[i].in)
    <3>1. \A y \in Imports[i] : exec[i].in.imports[y].version \in Nat
        BY <2>2 DEF Generations, UserData, Positive
    <3> QED
        BY <2>2, <3>1 DEF Older, Generations, Positive
  <2>4. Published(i, r.l, exec[i], World(i))
      BY <1>1 DEF Reports
  <2>5. "Succeeded" # NoPhase
      BY DEF NoPhase
  <2> QED
      BY <1>1, <2>1, <2>2, <2>3, <2>4, <2>5 DEF Published, Complete
<1> QED
    BY <1>1 DEF Reports

\* The config generation published is that of the values written before.
LEMMA PublishCurrent ==
    ASSUME SideBySide, CurrentPre, NEW i \in Insts, Publish(i)
    PROVE  CurrentInv'
<1> DEFINE r == run[i]
           o == [r.l EXCEPT !.conf = ConfigGeneration(r.l)]
           l == [o EXCEPT !.phase = "Succeeded"]
           complete == [r EXCEPT !.l = [o EXCEPT !.phase = "Succeeded"], !.pc = "dependants"]
           changed == [r EXCEPT !.l = o, !.pc = "rephase"]
           refused == Fails([r EXCEPT !.l = o])
<1>1. Step(i) /\ UNCHANGED <<exec, data>> /\ r.pc = "publish" /\ Busy(r)
    BY DEF Publish, Step, At, Busy
<1>2. /\ DOMAIN r = RunFields /\ DOMAIN r.l = ObjectFields /\ DOMAIN run = Insts
    BY RunShape DEF CurrentPre, RecordInv, ShapeInv
<1>3. \/ inst' = inst /\ (Continue(i, refused) \/ Return(i, TRUE))
      \/ /\ i \in fresh[i] /\ inst' = [inst EXCEPT ![i] = WithStatus(@, o)]
         /\ \/ r.mode = "complete" /\ Continue(i, complete)
            \/ r.mode # "complete" /\ Continue(i, changed)
    BY DEF Publish
<1>4. \A m \in {o, l} :
         /\ SameSpec(r.l, m) /\ m.obs = r.l.obs /\ m.imports = r.l.imports
         /\ m.conf = Computed(r.l.gen, r.l.imports) /\ m.op = r.l.op
         /\ m.phase = r.l.phase \/ m.phase = "Succeeded"
    BY <1>2 DEF ObjectFields, SameSpec, ConfigGeneration
<1>5. /\ complete.pc = "dependants" /\ complete.l = l
      /\ changed.pc = "rephase" /\ changed.l = o /\ changed.mode = r.mode
      /\ refused.pc = "finish" /\ refused.l = o
    BY <1>2 DEF RunFields, Fails
<1>6. Modes(r)
    BY <1>1 DEF CurrentPre, RecordInv, RunRecord
<1> HIDE DEF o, l, complete, changed, refused
<1> PICK e, w : e = exec[i] /\ w = World(i)
    OBVIOUS
<1>7. ASSUME i \in Deploys, NEW m \in {o, l}
      PROVE  m.op # "abort" /\ Counted(m) /\ Doomed(m) /\ ~m.del /\ m.spec = r.l.spec
  <2>1. r.l.op # "abort" /\ Counted(r.l) /\ Doomed(r.l) /\ ~r.l.del
      BY <1>1, <1>7, CurrentRun DEF CurrentPre, Forward
  <2>2. m.op = r.l.op /\ SameSpec(r.l, m) /\ m.obs = r.l.obs
      BY <1>4
  <2> QED
      BY <2>1, <2>2 DEF SameSpec, Counted, Doomed
<1>8. ASSUME i \in Deploys, ~inst[i].del
      PROVE  /\ \A m \in {o, l} : /\ Reports(i, m, e, w)
                                  /\ Plain(i) => e.live /\ m.conf = e.in
             /\ Plain(i) => /\ Complete(r, e) /\ \A k \in Exports[i] : w.out[k] = e.in
  <2>1. /\ Rolled(i, exec[i], inst[i].spec.version, World(i))
        /\ Reports(i, r.l, exec[i], World(i))
        /\ Knows(i, inst[i], exec[i], r, World(i)) /\ r.l.gen # 0
      BY <1>1, <1>8, CurrentRun DEF CurrentPre, Forward, Counted
  <2>2. Plain(i) => Complete(r, exec[i]) /\ \A k \in Exports[i] : World(i).out[k] = exec[i].in
      BY <1>1, <2>1 DEF Knows, Exporting
  <2>3. ASSUME NEW m \in {o, l}
        PROVE  Reports(i, m, exec[i], World(i)) /\ (Plain(i) => exec[i].live /\ m.conf = exec[i].in)
      BY <1>4, <1>8, <2>1, <2>2, PublishedReports
  <2> QED
      BY <2>2, <2>3
<1>9. CASE inst' = inst /\ Return(i, TRUE)
    BY <1>1, <1>9, UnwrittenCurrent
<1>10. CASE inst' = inst /\ Continue(i, refused)
  <2>1. run'[i] = refused
      BY <1>2, <1>10 DEF Continue
  <2>2. ASSUME i \in Deploys PROVE CurrentOf(i, inst[i], exec[i], refused, World(i))
    <3> PICK p, s : p = inst[i] /\ s = refused
        OBVIOUS
    <3>1. CurrentOf(i, p, e, r, w)
        BY <1>1, <2>2, CurrentRun DEF CurrentPre
    <3>2. ~p.del => Stage(i, p, e, s, w)
      <4>1. ~p.del => Knows(i, p, e, s, w)
          BY <1>5, <1>8, <2>2, KnowsNothing
      <4>2. e.live /\ ~p.del => e.in.version <= r.l.spec.version
          BY <1>1, <2>2, CurrentRun DEF CurrentPre, Stage
      <4> QED
          BY <1>5, <1>7, <1>8, <2>2, <4>1, <4>2 DEF Stage
    <3>3. ~Forward(s)
        BY <1>5 DEF Forward
    <3>4. CurrentOf(i, p, e, s, w)
        BY <1>5, <1>7, <2>2, <3>1, <3>2, <3>3 DEF CurrentOf
    <3> QED
        BY <3>4
  <2>3. Effects(i)
      BY <1>1, RunStepEffects DEF CurrentPre, ShownInv
  <2> QED
      BY <1>1, <1>10, <2>1, <2>2, <2>3, PlainStep DEF CurrentPre, SameRecord, Republished
<1>11. ASSUME NEW s, NEW m \in {o, l}, s.l = m, Continue(i, s),
              i \in fresh[i], inst' = [inst EXCEPT ![i] = WithStatus(@, o)],
              s.pc = "dependants" \/ (s.pc = "rephase" /\ s.mode = r.mode /\ m = o)
       PROVE  CurrentInv'
  <2>1. run'[i] = s
      BY <1>2, <1>11 DEF Continue
  <2>2. ASSUME i \in Deploys, ~inst[i].del, NEW p, SameRecord(o, p)
        PROVE  Knows(i, p, e, s, w)
    <3>1. s.l.conf = p.conf /\ s.l.obs = r.l.obs /\ s.l.imports = r.l.imports
          /\ s.l.gen = r.l.gen
        BY <1>4, <1>11, <2>2 DEF SameRecord, SameSpec
    <3>2. CASE s.pc = "dependants"
        BY <3>1, <3>2, KnowsNothing
    <3>3. CASE s.pc = "rephase" /\ s.mode = r.mode /\ m = o
      <4>1. Plain(i) => Exporting(i, s, e, w)
        <5>1. r.mode # "complete" => r.mode # NoPhase
            BY <1>1, <1>6 DEF Modes, NoPhase
        <5>2. "complete" # NoPhase
            BY DEF NoPhase
        <5> QED
            BY <1>8, <1>11, <2>2, <3>1, <3>3, <5>1, <5>2 DEF Exporting, Complete
      <4> QED
          BY <3>1, <3>3, <4>1 DEF Knows, Pipeline, Updates
    <3> QED
        BY <1>11, <3>2, <3>3
  <2>3. i \in Deploys => SameSpec(r.l, o) /\ Doomed(o)
      BY <1>4, <1>7
  <2>4. i \in Deploys /\ ~inst[i].del =>
           /\ Reports(i, o, exec[i], World(i))
           /\ Plain(i) => exec[i].live /\ o.conf = exec[i].in
      BY <1>8
  <2>5. i \in Deploys /\ Busy(s) =>
           /\ s.l.op # "abort" /\ Counted(s.l) /\ Doomed(s.l) /\ (Forward(s) => ~s.l.del)
           /\ ~inst[i].del =>
                 /\ Reports(i, s.l, exec[i], World(i)) /\ s.l.spec = r.l.spec
                 /\ \A p : SameRecord(o, p) => Knows(i, p, exec[i], s, World(i))
      BY <1>7, <1>8, <1>11, <2>2
  <2> QED
      BY <1>1, <1>11, <2>1, <2>3, <2>4, <2>5, StoreCurrent
<1> QED
    BY <1>3, <1>5, <1>9, <1>10, <1>11

-----------------------------------------------------------------------------
(* The execution is created or changed.                                    *)

\* What the run rolls out is newer than what is deployed and recorded.
LEMMA RolloutShape ==
    ASSUME NEW i \in Insts, ExecInv
    PROVE  LET e == exec[i]
               f == Rollout(i)
           IN  /\ f.live /\ f.in = Computed(run[i].l.spec.version, run[i].vals)
               /\ ~e.live => f.gen = 1 /\ f.obs = 0 /\ ~f.del /\ f.phase = NoPhase
               /\ e.live => /\ f.del = e.del /\ f.phase = e.phase /\ f.obs = e.obs
                            /\ f.out = e.out
                            /\ \/ f.gen = e.gen /\ f.in = e.in
                               \/ f.gen = e.gen + 1
<1> PICK in : in = Computed(run[i].l.spec.version, run[i].vals)
    OBVIOUS
<1> PICK op : op = IF run[i].l.op = "force" THEN "force" ELSE "reconcile"
    OBVIOUS
<1> PICK e : e = exec[i]
    OBVIOUS
<1>1. DOMAIN e = ExecutionFields
    BY DEF ExecInv, TypedExecution, IsExecution
<1>2. Rollout(i) = IF ~e.live
                   THEN [NoExecution EXCEPT !.live = TRUE, !.gen = 1, !.op = op, !.in = in]
                   ELSE [e EXCEPT !.op = op, !.in = in,
                                  !.gen = IF in = e.in THEN @ ELSE @ + 1]
    BY DEF Rollout, Rendered
<1>3. CASE ~e.live
    BY <1>2, <1>3 DEF NoExecution
<1>4. CASE e.live
    BY <1>1, <1>2, <1>4 DEF ExecutionFields
<1> QED
    BY <1>3, <1>4

\* The status l, not completed, of what was deployed before.
LEMMA RolledOutReports ==
    ASSUME SideBySide, NEW i \in Deploys, NEW l, NEW e, NEW f, NEW v \in Nat, NEW vals,
           Rolled(i, e, v, World(i)), Reports(i, l, e, World(i)),
           ~IsCompleted(l.phase), f.live, f.in = Computed(v, vals),
           Fits(i, vals, World(i)),
           e.live => e.in.version <= v /\ Before(i, e.in.imports, vals, World(i)),
           l.imports # None => Before(i, l.imports, vals, World(i)),
           l.obs \in Nat
    PROVE  Reports(i, l, f, World(i))
<1> PICK w : w = World(i)
    OBVIOUS
<1>1. f.in.version = v /\ f.in.imports = vals
    BY DEF Computed
<1>2. l.phase # "Succeeded"
    BY DEF IsCompleted, CompletedPhases
<1>3. ASSUME Plain(i) PROVE Published(i, l, f, w)
  <2>1. Published(i, l, e, w) /\ (l.obs # 0 => e.live)
      BY <1>3 DEF Reports
  <2>2. w.stays = Imports[i] /\ \A k \in Imports[i] : Confs(i, k) = UserData
      BY <1>3 DEF World, Plain, Confs
  <2>3. l.obs # 0 => l.obs <= v /\ l.phase # NoPhase
    <3>1. l.obs # 0 => e.live /\ l.obs <= e.in.version /\ l.phase # NoPhase
        BY <2>1 DEF Published
    <3>2. e.live => e.in.version \in Nat /\ e.in.version <= v
        BY DEF Rolled, Positive
    <3> QED
        BY <3>1, <3>2
  <2>4. ASSUME l.conf # NoValue
        PROVE  l.conf \in Generations(i) /\ Older(Imports[i], l.conf, f.in)
    <3>1. e.live /\ l.conf \in Generations(i) /\ Older(Imports[i], l.conf, e.in)
        BY <2>1, <2>4 DEF Published
    <3>2. e.in.version \in Nat /\ e.in.version <= v /\ Fits(i, e.in.imports, w)
        BY <3>1 DEF Rolled, Positive
    <3>3. l.conf.version <= v
        BY <3>1, <3>2 DEF Older, Generations, Positive
    <3>4. ASSUME NEW x \in Imports[i]
          PROVE  l.conf.imports[x].version <= vals[x].version
      <4>1. /\ l.conf.imports[x] \in UserData /\ e.in.imports[x] \in UserData
            /\ vals[x] \in UserData
          BY <2>2, <3>1, <3>2 DEF Fits, Generations
      <4>2. /\ l.conf.imports[x].version <= e.in.imports[x].version
            /\ e.in.imports[x].version <= vals[x].version
          BY <2>2, <3>1 DEF Older, Before
      <4> QED
          BY <4>1, <4>2 DEF UserData, Positive
    <3> QED
        BY <1>1, <3>1, <3>3, <3>4 DEF Older
  <2> QED
      BY <1>1, <1>2, <2>3, <2>4 DEF Published
<1> QED
    BY <1>1, <1>3 DEF Reports

\* The rollout fits the imports and is not older than what was recorded.
LEMMA RolledOut ==
    ASSUME SideBySide, CurrentPre, NEW i \in Deploys, run[i].pc = "exec", ~inst[i].del
    PROVE  /\ Rolled(i, Rollout(i), inst[i].spec.version, World(i))
           /\ Reports(i, inst[i], Rollout(i), World(i))
           /\ Reports(i, run[i].l, Rollout(i), World(i))
           /\ run[i].l.gen = run[i].l.spec.version
           /\ run[i].l.conf = inst[i].conf \/ ~Plain(i)
           /\ ~IsCompleted(inst[i].phase) /\ ~IsCompleted(run[i].l.phase)
           /\ Fits(i, run[i].confs, World(i))
           /\ Before(i, run[i].confs, run[i].vals, World(i))
           /\ Rollout(i).live /\ Rollout(i).in = Computed(run[i].l.spec.version, run[i].vals)
<1> PICK o, e, r, w, f : /\ o = inst[i] /\ e = exec[i] /\ r = run[i] /\ w = World(i)
                         /\ f = Rollout(i)
    OBVIOUS
<1>1. Busy(run[i])
    BY DEF Busy
<1>2. /\ Rolled(i, e, o.spec.version, w) /\ Reports(i, o, e, w)
      /\ Stage(i, o, e, r, w) /\ Knows(i, o, e, r, w) /\ Reports(i, r.l, e, w)
      /\ Plain(i) => r.l.conf = o.conf
    BY <1>1, CurrentRun DEF CurrentPre
<1>3. /\ Counted(o) /\ Counted(r.l) /\ r.l.gen <= o.gen /\ (r.l.del => o.del)
      /\ r.l.gen \in Nat /\ r.l.obs \in Nat
      /\ r.l.spec.version \in Nat /\ o.spec.version \in Nat
    BY <1>1, CurrentRun DEF CurrentPre
<1>4. /\ r.l.gen = r.l.spec.version /\ r.l.spec.version # 0
      /\ r.l.spec.version <= o.spec.version
    BY <1>3 DEF Counted
<1> PICK v, vals : v = r.l.spec.version /\ vals = r.vals
    OBVIOUS
<1>5. /\ Fits(i, vals, w) /\ (e.live => Before(i, e.in.imports, vals, w))
      /\ \A im \in {o.imports, r.l.imports} : im # None => Before(i, im, vals, w)
      /\ Fits(i, r.confs, w) /\ Before(i, r.confs, vals, w)
      /\ ~IsCompleted(r.l.phase) /\ ~IsCompleted(o.phase)
    BY <1>2 DEF Knows, Pipeline, Updates
<1>6. e.live => e.in.version <= v
    BY <1>2 DEF Stage
<1>7. i \in Insts /\ ExecInv
    BY DataFlowAssumption DEF CurrentPre
<1>8. /\ f.live /\ f.in = Computed(v, vals)
      /\ ~e.live => f.gen = 1 /\ f.obs = 0 /\ ~f.del /\ f.phase = NoPhase
      /\ e.live => /\ f.del = e.del /\ f.phase = e.phase /\ f.obs = e.obs
                   /\ f.out = e.out
                   /\ \/ f.gen = e.gen /\ f.in = e.in
                      \/ f.gen = e.gen + 1
    BY <1>7, RolloutShape
<1>9. f.in.version = v /\ f.in.imports = vals
    BY <1>8 DEF Computed
<1>10. Rolled(i, f, o.spec.version, w)
  <2>1. CASE ~e.live
    <3>1. /\ f.gen = 1 /\ f.obs = 0 /\ ~f.del /\ f.phase # "Deleting"
          /\ f.phase # "Succeeded"
        BY <1>8, <2>1 DEF NoPhase
    <3>2. v \in Positive /\ f.gen \in Positive /\ f.obs \in Nat /\ f.obs <= f.gen
        BY <1>3, <1>4, <3>1 DEF Positive
    <3> QED
        BY <1>4, <1>5, <1>8, <1>9, <3>1, <3>2 DEF Rolled
  <2>2. CASE e.live
    <3>1. /\ ~e.del /\ e.phase # "Deleting" /\ e.gen \in Positive /\ e.obs \in Nat
          /\ e.obs <= e.gen /\ (e.obs # 0 => e.phase # NoPhase)
          /\ e.phase = "Succeeded" /\ e.gen = e.obs => e.out = e.in
        BY <1>2, <2>2 DEF Rolled
    <3>2. f.phase = "Succeeded" /\ f.gen = f.obs => f.out = f.in
        BY <1>8, <2>2, <3>1 DEF Positive
    <3>3. f.gen \in Positive /\ f.obs <= f.gen
        BY <1>8, <2>2, <3>1 DEF Positive
    <3>4. v \in Positive
        BY <1>3, <1>4 DEF Positive
    <3> QED
        BY <1>4, <1>5, <1>8, <1>9, <2>2, <3>1, <3>2, <3>3, <3>4 DEF Rolled
  <2> QED
      BY <2>1, <2>2
<1>11. Rolled(i, e, v, w)
    BY <1>2, <1>6 DEF Rolled
<1>12. o.obs \in Nat
    BY <1>7 DEF CurrentPre, RecordInv, ShapeInv, IsObject
<1>13. Reports(i, o, f, w)
    BY <1>2, <1>3, <1>5, <1>6, <1>8, <1>11, <1>12, RolledOutReports
<1>14. Reports(i, r.l, f, w)
    BY <1>2, <1>3, <1>5, <1>6, <1>8, <1>11, RolledOutReports
<1> QED
    BY <1>2, <1>4, <1>5, <1>8, <1>10, <1>13, <1>14

\* The run goes on with s after its execution was rolled out.
LEMMA RolloutCurrent ==
    ASSUME SideBySide, CurrentPre, NEW i \in Deploys, EnsureExecution(i), NEW s,
           run'[i] = s, exec' = [exec EXCEPT ![i] = Rollout(i)],
           \A k \in Insts \ {i} : inst'[k] = inst[k],
           NEW m \in {inst[i], run[i].l}, SameRecord(m, inst'[i]), Doomed(inst'[i]),
           inst'[i].live = inst[i].live, inst'[i].del = inst[i].del,
           inst'[i].gen = inst[i].gen, inst'[i].spec = inst[i].spec,
           inst'[i].op = inst[i].op,
           s.pc \in {"finish", "dropForce", "deleteAll"},
           s.l.op = run[i].l.op, Counted(s.l), Doomed(s.l), s.l.spec = run[i].l.spec,
           s.l.conf = run[i].l.conf,
           SameRecord(run[i].l, s.l) \/ (s.l.imports = run[i].confs
              /\ s.l.obs = run[i].l.gen /\ s.l.phase = "Progressing")
    PROVE  CurrentInv'
<1> PICK o, p, e, r, w, f : /\ o = inst[i] /\ p = inst'[i] /\ e = exec[i] /\ r = run[i]
                            /\ w = World(i) /\ f = Rollout(i)
    OBVIOUS
<1>1. i \in Insts /\ Step(i) /\ r.pc = "exec" /\ Busy(r) /\ data' = data
    BY DataFlowAssumption DEF EnsureExecution, Step, At, Busy
<1>2. Effects(i) /\ exec'[i] = f
    BY <1>1, RunStepEffects DEF CurrentPre, ShownInv, ExecShape
<1>3. /\ CurrentOf(i, o, e, r, w) /\ o.op # "abort" /\ r.l.op # "abort" /\ o.live
      /\ Counted(o)
    BY <1>1, CurrentRun DEF CurrentPre
<1>4. ~Forward(s)
    BY DEF Forward
<1>5. ASSUME ~o.del
      PROVE  /\ Rolled(i, f, o.spec.version, w)
             /\ Reports(i, o, f, w) /\ Reports(i, r.l, f, w)
             /\ r.l.gen = r.l.spec.version
             /\ r.l.conf = o.conf \/ ~Plain(i)
             /\ ~IsCompleted(o.phase) /\ ~IsCompleted(r.l.phase)
             /\ Fits(i, r.confs, w) /\ Before(i, r.confs, r.vals, w)
             /\ f.live /\ f.in = Computed(r.l.spec.version, r.vals)
    BY <1>1, <1>5, RolledOut
<1>6. ASSUME ~o.del PROVE Reports(i, p, f, w) /\ ~IsCompleted(p.phase)
    BY <1>5, <1>6 DEF Reports, Published, SameRecord
<1>7. ASSUME ~o.del PROVE Stage(i, p, f, s, w)
  <2>1. f.in.version = r.l.spec.version /\ f.in.imports = r.vals /\ f.live
      BY <1>5, <1>7 DEF Computed
  <2>2. r.l.spec.version \in Nat
      BY <1>1, CurrentRun DEF CurrentPre
  <2>3. ASSUME SameRecord(r.l, s.l) PROVE Reports(i, s.l, f, w)
      BY <1>5, <1>7, <2>3 DEF Reports, Published, SameRecord
  <2>4. ASSUME s.l.imports = r.confs, s.l.obs = r.l.gen, s.l.phase = "Progressing"
        PROVE  Reports(i, s.l, f, w)
    <3>1. ~IsCompleted(s.l.phase) /\ s.l.phase # "Succeeded" /\ s.l.phase # NoPhase
        BY <2>4 DEF IsCompleted, CompletedPhases, NoPhase
    <3>2. s.l.obs <= f.in.version
        BY <1>5, <1>7, <2>1, <2>2, <2>4
    <3>3. Plain(i) => Published(i, s.l, f, w)
        BY <1>5, <1>7, <3>1, <3>2 DEF Reports, Published
    <3> QED
        BY <1>5, <1>7, <2>1, <2>4, <3>3 DEF Reports
  <2>5. Plain(i) => s.l.conf = p.conf
      BY <1>5, <1>7 DEF SameRecord
  <2>6. Knows(i, p, f, s, w)
    <3>1. CASE s.pc # "dropForce"
        BY <2>5, <3>1, KnowsNothing
    <3>2. CASE s.pc = "dropForce"
        BY <1>6, <1>7, <2>1, <2>5, <3>2 DEF Knows, Pipeline, Updates, Exporting
    <3> QED
        BY <3>1, <3>2
  <2> QED
      BY <2>1, <2>2, <2>3, <2>4, <2>6 DEF Stage
<1>8. CurrentOf(i, p, f, s, w)
  <2>1. Counted(p) /\ Doomed(p) /\ p.op # "abort"
      BY <1>3 DEF Counted
  <2> QED
      BY <1>3, <1>4, <1>5, <1>6, <1>7, <2>1 DEF CurrentOf
<1>9. Plain(i) /\ Remains(i)' => Republished(i)
  <2>1. Plain(i) /\ ~o.del => p.conf = o.conf
      BY <1>5 DEF SameRecord
  <2> QED
      BY <2>1 DEF Remains, Republished
<1> QED
    BY <1>1, <1>2, <1>8, <1>9, PlainStep DEF CurrentPre, SameRecord

\* The execution gets its new content.
LEMMA EnsureExecutionCurrent ==
    ASSUME SideBySide, CurrentPre, NEW i \in Insts, EnsureExecution(i)
    PROVE  CurrentInv'
<1> DEFINE r == run[i]
           s == [r EXCEPT !.l.eref = TRUE]
<1>1. Step(i) /\ data' = data /\ r.pc = "exec" /\ Busy(r)
    BY DEF EnsureExecution, Step, At, Busy
<1>2. /\ DOMAIN r = RunFields /\ DOMAIN r.l = ObjectFields /\ DOMAIN run = Insts
      /\ DOMAIN inst = Insts /\ DOMAIN inst[i] = ObjectFields
    BY RunShape DEF CurrentPre, RecordInv, ShapeInv
<1>3. /\ DOMAIN s = RunFields /\ DOMAIN s.l = ObjectFields /\ SameSpec(r.l, s.l)
      /\ SameRecord(r.l, s.l) /\ s.l.op = r.l.op /\ s.confs = r.confs
    BY <1>2 DEF RunFields, ObjectFields, SameSpec, SameRecord
<1>4. ASSUME i \in Deploys PROVE Counted(r.l) /\ Doomed(r.l) /\ Doomed(inst[i])
    BY <1>1, <1>4, CurrentRun DEF CurrentPre
<1>5. CASE i \notin Deploys
  <2>1. UNCHANGED <<inst, exec>> /\ Continue(i, Updated(r))
      BY <1>5 DEF EnsureExecution
  <2> PICK u : u = Updated(r)
      OBVIOUS
  <2>2. run'[i] = u
      BY <1>2, <2>1 DEF Continue
  <2> QED
      BY <1>1, <1>5, <2>1, <2>2, MoveCurrent DEF Unrecorded, SameRecord
<1>6. CASE /\ i \in Deploys /\ i \in fresh[i] /\ exec' = [exec EXCEPT ![i] = Rollout(i)]
           /\ inst' = [inst EXCEPT ![i] = WithStatus(@, s.l)] /\ Continue(i, Updated(s))
  <2> PICK u, l : u = Updated(s) /\ l = s.l
      OBVIOUS
  <2>1. /\ u.pc \in {"finish", "dropForce", "deleteAll"} /\ SameSpec(l, u.l)
        /\ u.l.op = l.op /\ u.l.imports = r.confs /\ u.l.obs = l.gen
        /\ u.l.phase = "Progressing" /\ u.l.conf = l.conf
      BY <1>3, ZenonT(40) DEF Updated, RunFields, ObjectFields, SameSpec
  <2>2. /\ SameSpec(r.l, l) /\ SameRecord(r.l, l) /\ l.op = r.l.op
      BY <1>3
  <2> HIDE DEF s
  <2>3. run'[i] = u
      BY <1>2, <1>6 DEF Continue
  <2>4. Counted(u.l) /\ Doomed(u.l)
      BY <1>4, <1>6, <2>1, <2>2, ZenonT(40)
         DEF Counted, Doomed, SameSpec, IsCompleted, CompletedPhases, NoPhase
  <2> PICK o, p : o = inst[i] /\ p = inst'[i]
      OBVIOUS
  <2>5. p = WithStatus(o, l) /\ \A k \in Insts \ {i} : inst'[k] = inst[k]
      BY <1>2, <1>6
  <2>6. /\ p.live = o.live /\ p.del = o.del /\ p.gen = o.gen /\ p.spec = o.spec
        /\ p.op = o.op /\ SameRecord(l, p)
      BY <1>2, <2>5 DEF WithStatus, ObjectFields, SameRecord
  <2>7. SameRecord(r.l, p)
      BY <2>2, <2>6 DEF SameRecord
  <2>8. Doomed(p)
    <3>1. r.l.gen = o.gen /\ r.l.del = o.del
        BY <1>1, <1>6, CurrentRun, FreshCopy DEF CurrentPre
    <3> QED
        BY <1>4, <1>6, <2>6, <2>7, <3>1 DEF Doomed, SameRecord
  <2>9. u.l.spec = r.l.spec /\ u.l.conf = r.l.conf /\ u.l.op = r.l.op /\ u.l.obs = r.l.gen
      BY <2>1, <2>2 DEF SameSpec, SameRecord
  <2> QED
      BY <1>6, <2>1, <2>3, <2>4, <2>5, <2>6, <2>7, <2>8, <2>9, RolloutCurrent, ZenonT(40)
<1>7. CASE /\ i \in Deploys /\ exec' = [exec EXCEPT ![i] = Rollout(i)]
           /\ inst' = inst /\ Continue(i, Fails(s))
  <2> PICK u : u = Fails(s)
      OBVIOUS
  <2>1. u.pc = "finish" /\ u.l = s.l
      BY <1>3 DEF Fails, RunFields
  <2>2. run'[i] = u
      BY <1>2, <1>7 DEF Continue
  <2>3. /\ SameSpec(r.l, u.l) /\ SameRecord(r.l, u.l) /\ u.l.op = r.l.op
      BY <1>3, <2>1
  <2> HIDE DEF s
  <2>4. /\ Counted(u.l) /\ Doomed(u.l) /\ u.l.spec = r.l.spec /\ u.l.conf = r.l.conf
      BY <1>4, <1>7, <2>3 DEF Counted, Doomed, SameSpec, SameRecord
  <2>5. SameRecord(inst[i], inst'[i]) /\ Doomed(inst'[i])
      BY <1>4, <1>7 DEF SameRecord
  <2> QED
      BY <1>7, <2>1, <2>2, <2>3, <2>4, <2>5, RolloutCurrent
<1>8. CASE UNCHANGED <<inst, exec>> /\ Continue(i, Fails(r))
    BY <1>1, <1>8, UnwrittenCurrent
<1>9. CASE /\ i \in Deploys /\ i \in fresh[i] /\ exec' = exec
           /\ inst' = [inst EXCEPT ![i] = WithStatus(@, r.l)] /\ Continue(i, Fails(r))
  <2> PICK u : u = Fails(r)
      OBVIOUS
  <2>1. u.pc = "finish" /\ u.l = r.l /\ run'[i] = u
      BY <1>2, <1>9 DEF Fails, RunFields, Continue
  <2>2. SameSpec(r.l, r.l) /\ ~Forward(u)
      BY <2>1 DEF SameSpec, Forward
  <2>3. Doomed(r.l) /\ r.l.op # "abort" /\ Counted(r.l)
      BY <1>1, <1>9, CurrentRun DEF CurrentPre
  <2>4. ASSUME ~inst[i].del
        PROVE  /\ Reports(i, r.l, exec[i], World(i))
               /\ Plain(i) => r.l.conf = inst[i].conf
      BY <1>1, <1>9, <2>4, CurrentRun DEF CurrentPre
  <2>5. ASSUME NEW p, SameRecord(r.l, p) PROVE Knows(i, p, exec[i], u, World(i))
    <3>1. u.l.conf = p.conf
        BY <2>1, <2>5 DEF SameRecord
    <3> QED
        BY <2>1, <3>1, KnowsNothing
  <2> QED
      BY <1>1, <1>9, <2>1, <2>2, <2>3, <2>4, <2>5, StoreCurrent
<1> QED
    BY <1>5, <1>6, <1>7, <1>8, <1>9 DEF EnsureExecution

-----------------------------------------------------------------------------
(* All steps.                                                              *)

\* Every step of a run.
LEMMA StepCurrent ==
    ASSUME SideBySide, "lasting" \notin Events, CurrentPre, NEW i \in Insts, Step(i)
    PROVE  CurrentInv'
BY AddFinalizerCurrent, DropReconcileCurrent, FinishCurrent, CheckChildrenCurrent,
   InitPrerequisitesCurrent, CheckEligibleCurrent,
   ReadValuesCurrent, WriteImportsCurrent, EnsureSubsCurrent, CreateSubCurrent,
   TriggerSubsCurrent, EnsureExecutionCurrent, DropForceCurrent, WriteExportsCurrent,
   PublishCurrent, TriggerDependantsCurrent, RecheckCurrent, RephaseCurrent,
   DeleteCurrent, DeleteAllCurrent, RemoveFinalizerCurrent DEF Step

\* Nothing is written.
LEMMA UnchangedCurrent ==
    ASSUME CurrentInv, UNCHANGED <<inst, exec, data>>,
           \A i \in Insts : CurrentOf(i, inst[i], exec[i], run'[i], World(i))
    PROVE  CurrentInv'
<1>1. \A i \in Insts : World(i)' = World(i)
    BY DEF World, Remains, ConfOf
<1> QED
    BY <1>1 DEF CurrentInv, DataShape

\* A run starts with what is stored.
LEMMA GetCurrent ==
    ASSUME CurrentPre, NEW i \in Insts, Get(i)
    PROVE  CurrentInv'
<1> DEFINE o == inst[i]
           p == IF ~o.del /\ ~o.fin THEN "finalizer"
                ELSE IF o.del THEN "delete"
                ELSE IF o.op = "reconcile" THEN "dropOp"
                ELSE IF o.op = "force" THEN "context"
                ELSE IF IsCompleted(o.phase) /\ o.obs = o.gen THEN "recheck"
                ELSE "check"
           s == [Idle EXCEPT !.pc = p, !.l = o]
<1>1. /\ UNCHANGED <<inst, exec, data>>
      /\ run' = run \/ (o.live /\ run' = [run EXCEPT ![i] = s])
    BY DEF Get
<1>2. s.pc = p /\ s.l = o
    BY DEF Idle
<1>3. \A k \in Insts : CurrentOf(k, inst[k], exec[k], run[k], World(k))
    BY DEF CurrentPre, CurrentInv
<1>4. ASSUME o.live PROVE CurrentOf(i, o, exec[i], s, World(i))
  <2> SUFFICES ASSUME i \in Deploys PROVE CurrentOf(i, o, exec[i], s, World(i))
      BY DEF CurrentOf
  <2> PICK e, w, x : e = exec[i] /\ w = World(i) /\ x = s
      OBVIOUS
  <2>1. /\ o.op # "abort" /\ Counted(o) /\ Doomed(o)
        /\ ~o.del => Rolled(i, e, o.spec.version, w) /\ Reports(i, o, e, w)
      BY <1>3, <1>4 DEF CurrentOf
  <2>2. x.l = o /\ x.pc \in {"finalizer", "delete", "dropOp", "check", "context", "recheck"}
      BY <1>2
  <2>3. /\ x.pc = "recheck" => IsCompleted(o.phase) /\ o.obs = o.gen
        /\ x.pc \in {"dropOp", "check", "context", "recheck"} => ~o.del
        /\ x.pc = "context" => o.op = "force"
      BY <1>2
  <2> HIDE DEF p, s
  <2>4. Forward(x) => ~x.l.del
      BY <2>2, <2>3 DEF Forward
  <2>5. Knows(i, o, e, x, w)
      BY <2>2, <2>3 DEF Knows, Pipeline, Updates, Exporting
  <2>6. ~o.del => Stage(i, o, e, x, w)
      BY <2>1, <2>2, <2>5 DEF Stage, Rolled
  <2> QED
      BY <1>4, <2>1, <2>2, <2>4, <2>6 DEF CurrentOf
<1> HIDE DEF s
<1>5. \A k \in Insts : CurrentOf(k, inst[k], exec[k], run'[k], World(k))
    BY <1>1, <1>3, <1>4 DEF CurrentPre, RecordInv, ShapeInv
<1> QED
    BY <1>1, <1>5, UnchangedCurrent DEF CurrentPre

\* What the environment does to an installation, and to data.
Aged(o, p) ==
    /\ p.op # "abort"
    /\ p.live => Counted(p) /\ Doomed(p)
    /\ p.live /\ ~p.del => /\ o.live /\ ~o.del /\ SameRecord(o, p)
                           /\ o.spec.version <= p.spec.version
\* What an installation has exported is written by its runs only.
DataStays(k) ==
    Owner(Root, k) # Root /\ inst[Owner(Root, k)].live => data'[Root][k] = data[Root][k]

\* A change from outside records nothing, and its data are newer.
LEMMA OutsideCurrent ==
    ASSUME SideBySide, CurrentPre, run' = run, DataShape', DataGrows,
           \A k \in Keys : DataStays(k), DOMAIN inst' = Insts,
           \A i \in Deploys : /\ Aged(inst[i], inst'[i]) /\ inst'[i].spec.version \in Nat
                              /\ Proceeds(exec[i], exec'[i])
    PROVE  CurrentInv'
<1>1. ASSUME NEW a \in Deploys, Remains(a)' PROVE Remains(a) /\ inst'[a].conf = inst[a].conf
    BY <1>1 DEF Remains, Aged, SameRecord
<1>2. ASSUME NEW i \in Insts
      PROVE  CurrentOf(i, inst'[i], exec'[i], run[i], World(i)')
  <2> SUFFICES ASSUME i \in Deploys
               PROVE  CurrentOf(i, inst'[i], exec'[i], run[i], World(i)')
      BY DEF CurrentOf
  <2> PICK o, p, e, f, r, w, w1 :
          /\ o = inst[i] /\ p = inst'[i] /\ e = exec[i] /\ f = exec'[i] /\ r = run[i]
          /\ w = World(i) /\ w1 = World(i)'
      OBVIOUS
  <2>1. CurrentOf(i, o, e, r, w) /\ o.spec.version \in Nat
      BY DEF CurrentPre, CurrentInv, RecordInv, ShapeInv, IsObject
  <2>2. Aged(o, p) /\ p.spec.version \in Nat /\ Proceeds(e, f)
      OBVIOUS
  <2>3. Grows(i, w, w1)
      BY <1>1, WorldGrows DEF CurrentPre, Republished
  <2>4. ASSUME p.live, ~p.del PROVE w1.out = w.out
    <3>1. \A k \in Exports[i] : data'[Root][k] = data[Root][k]
        BY <2>2, <2>4, NoParents, ForestAssumption DEF Aged, DataStays
    <3> QED
        BY <3>1 DEF World
  <2>5. Watched(i, w, w1)
    <3> SUFFICES ASSUME NEW k \in w1.stays, Source(i, k) # Root
                 PROVE  w1.conf[k] = w.conf[k] /\ w1.val[k] = w.val[k]
        BY DEF Watched
    <3> PICK a : a = Source(i, k)
        OBVIOUS
    <3>1. k \in Imports[i] /\ Remains(a)'
        BY DEF World
    <3>2. a \in Deploys /\ k \in Keys /\ a = Owner(Root, k)
        BY <3>1, SourceKinds, NoParents
    <3>3. inst'[a].conf = inst[a].conf /\ data'[Root][k] = data[Root][k]
        BY <1>1, <3>1, <3>2 DEF DataStays, Remains
    <3>4. w.conf[k] = inst[a].conf /\ w1.conf[k] = inst'[a].conf
        BY <3>1 DEF World, ConfOf
    <3>5. w.val[k] = data[Root][k] /\ w1.val[k] = data'[Root][k]
        BY <3>1 DEF World
    <3> QED
        BY <3>3, <3>4, <3>5
  <2>6. CurrentOf(i, p, f, r, w1)
      BY <2>1, <2>2, <2>3, <2>4, <2>5, CurrentStays DEF Aged
  <2> QED
      BY <2>6
<1> QED
    BY <1>2 DEF CurrentInv, DataGrows

\* Data and installations that stay as they are.
LEMMA StillAged ==
    ASSUME CurrentPre, NEW i \in Deploys
    PROVE  Aged(inst[i], inst[i]) /\ inst[i].spec.version \in Nat /\ Proceeds(exec[i], exec[i])
<1>1. CurrentOf(i, inst[i], exec[i], run[i], World(i)) /\ inst[i].spec.version \in Nat
    BY DataFlowAssumption DEF CurrentPre, CurrentInv, RecordInv, ShapeInv, IsObject
<1> QED
    BY <1>1 DEF CurrentOf, Aged, SameRecord, Proceeds

\* Data that stay are a special case.
LEMMA StillGrows ==
    ASSUME CurrentPre, data' = data
    PROVE  DataShape' /\ DataGrows /\ \A k \in Keys : DataStays(k)
BY DEF CurrentPre, CurrentInv, DataShape, DataGrows, DataStays, UserData, Positive

\* The execution controller, and drifts of what is deployed.
LEMMA ExecutionCurrent ==
    ASSUME SideBySide, CurrentPre, NEW i \in Insts, ExecutionStep(i) \/ Drift(i)
    PROVE  CurrentInv'
<1> DEFINE e == exec[i]
           started == [e EXCEPT !.obs = e.gen, !.op = "none",
                                !.phase = IF e.del THEN "Deleting" ELSE "Progressing"]
           succeeded == [e EXCEPT !.phase = "Succeeded", !.out = e.in]
           failed == [e EXCEPT !.phase = "Failed"]
           drifted == [e EXCEPT !.phase = "Progressing"]
<1>1. DOMAIN e = ExecutionFields /\ DOMAIN exec = Insts
    BY DEF CurrentPre, ExecInv, TypedExecution, IsExecution
<1>2. /\ e.live => /\ Proceeds(e, started) /\ Proceeds(e, succeeded)
                   /\ Proceeds(e, failed) /\ Proceeds(e, drifted)
      /\ e.live /\ e.phase = "Deleting" => Proceeds(e, NoExecution)
  <2>1. e.live => Proceeds(e, started)
      BY <1>1 DEF Proceeds, ExecutionFields, NoPhase
  <2>2. e.live => Proceeds(e, succeeded)
      BY <1>1 DEF Proceeds, ExecutionFields, NoPhase
  <2>3. e.live => Proceeds(e, failed) /\ Proceeds(e, drifted)
      BY <1>1 DEF Proceeds, ExecutionFields, NoPhase
  <2>4. e.live /\ e.phase = "Deleting" => Proceeds(e, NoExecution)
      BY DEF Proceeds
  <2> QED
      BY <2>1, <2>2, <2>3, <2>4
<1>3. \/ SetExecution(i, started) /\ e.live
      \/ SetExecution(i, succeeded) /\ e.live
      \/ SetExecution(i, failed) /\ e.live
      \/ SetExecution(i, drifted) /\ e.live
      \/ SetExecution(i, NoExecution) /\ e.live /\ e.phase = "Deleting"
    BY DEF ExecutionStep, Drift, StartExecution, EndExecution, EndDeletion, UpToDate
<1> HIDE DEF started, succeeded, failed, drifted, NoExecution
<1>4. PICK f : SetExecution(i, f) /\ Proceeds(e, f)
    BY <1>2, <1>3
<1>5. /\ inst' = inst /\ data' = data /\ run' = run
      /\ \A k \in Insts : exec'[k] = IF k = i THEN f ELSE exec[k]
    BY <1>1, <1>4 DEF SetExecution, Others
<1>6. \A k \in Deploys : Aged(inst[k], inst'[k]) /\ Proceeds(exec[k], exec'[k])
                         /\ inst'[k].spec.version \in Nat
    BY <1>4, <1>5, StillAged, DataFlowAssumption
<1> QED
    BY <1>5, <1>6, StillGrows, OutsideCurrent DEF CurrentPre, RecordInv, ShapeInv

LEMMA GarbageCurrent ==
    ASSUME SideBySide, CurrentPre, NEW i \in Insts, CollectGarbage(i)
    PROVE  CurrentInv'
<1>1. UNCHANGED <<inst, exec>> /\ run' = run /\ ~inst[i].live
    BY DEF CollectGarbage, Others
<1>2. /\ DataShape'
      /\ \A k \in Keys : data'[Root][k] = IF Owner(Root, k) = i THEN NoValue ELSE data[Root][k]
    BY DEF CollectGarbage, DataShape
<1>3. \A k \in Keys : Owner(Root, k) = Root => data'[Root][k] = data[Root][k]
    BY <1>2, ForestAssumption
<1>4. DataGrows /\ \A k \in Keys : DataStays(k)
    BY <1>1, <1>2, <1>3
       DEF CurrentPre, CurrentInv, DataGrows, DataStays, UserData, Positive
<1>5. \A k \in Deploys : Aged(inst[k], inst'[k]) /\ Proceeds(exec[k], exec'[k])
                         /\ inst'[k].spec.version \in Nat
    BY <1>1, StillAged
<1> QED
    BY <1>1, <1>2, <1>4, <1>5, OutsideCurrent DEF CurrentPre, RecordInv, ShapeInv

LEMMA UserCurrent ==
    ASSUME SideBySide, "abort" \notin Events, CurrentPre, NEW i \in Insts,
           \/ Alter(i) \/ DeleteInstallation(i)
           \/ \E j \in Children(i) : Drop(i, j)
           \/ \E op \in Ops \ {"none"} : SetOperation(i, op)
    PROVE  CurrentInv'
<1>1. /\ DOMAIN inst = Insts /\ IsObject(i, inst[i]) /\ DOMAIN inst[i] = ObjectFields
      /\ inst[i].obs <= inst[i].gen
    BY RunShape DEF CurrentPre, RecordInv, ShapeInv, Recorded
<1>2. ASSUME NEW p, SetInstallation(i, p), i \in Deploys => Aged(inst[i], p),
             p.spec.version \in Nat
      PROVE  CurrentInv'
  <2>1. /\ exec' = exec /\ data' = data /\ run' = run /\ DOMAIN inst' = Insts
        /\ \A k \in Insts : inst'[k] = IF k = i THEN p ELSE inst[k]
      BY <1>1, <1>2 DEF SetInstallation, Others
  <2>2. \A k \in Deploys : Aged(inst[k], inst'[k]) /\ Proceeds(exec[k], exec'[k])
                           /\ inst'[k].spec.version \in Nat
      BY <1>2, <2>1, StillAged, DataFlowAssumption
  <2> QED
      BY <2>1, <2>2, StillGrows, OutsideCurrent
<1>3. ASSUME i \in Deploys PROVE Aged(inst[i], inst[i])
    BY <1>3, StillAged
<1>4. CASE Alter(i)
  <2> DEFINE p == [inst[i] EXCEPT !.spec.version = @ + 1, !.gen = @ + 1]
  <2>1. SetInstallation(i, p) /\ inst[i].live /\ ~inst[i].del
      BY <1>4 DEF Alter
  <2>2. /\ p.op = inst[i].op /\ p.live = inst[i].live /\ p.del = inst[i].del
        /\ p.gen = inst[i].gen + 1 /\ p.spec.version = inst[i].spec.version + 1
        /\ SameRecord(inst[i], p)
      BY <1>1 DEF IsObject, ObjectFields, SameRecord
  <2> HIDE DEF p
  <2>3. inst[i].spec.version \in Nat
      BY <1>1 DEF IsObject
  <2>4. i \in Deploys => Aged(inst[i], p)
      BY <1>3, <2>1, <2>2, <2>3 DEF Aged, Counted, Doomed
  <2> QED
      BY <1>2, <2>1, <2>2, <2>3, <2>4
<1>5. CASE DeleteInstallation(i)
  <2>1. SetInstallation(i, Deleted(inst[i])) /\ inst[i].live /\ ~inst[i].del
      BY <1>5 DEF DeleteInstallation
  <2>2. CASE ~inst[i].fin
    <3>1. /\ Deleted(inst[i]) = NoInstallation /\ NoInstallation.op = "none"
          /\ ~NoInstallation.live /\ NoInstallation.spec.version = 0
        BY <2>2 DEF Deleted, NoInstallation
    <3> HIDE DEF NoInstallation
    <3> QED
        BY <1>2, <2>1, <3>1 DEF Aged
  <2>3. CASE inst[i].fin
    <3> DEFINE p == [inst[i] EXCEPT !.del = TRUE, !.gen = @ + 1]
    <3>1. Deleted(inst[i]) = p
        BY <2>1, <2>3 DEF Deleted
    <3>2. /\ p.op = inst[i].op /\ p.live = inst[i].live /\ p.del
          /\ p.gen = inst[i].gen + 1 /\ p.spec = inst[i].spec /\ p.obs = inst[i].obs
        BY <1>1 DEF ObjectFields
    <3> HIDE DEF p
    <3>3. inst[i].gen \in Nat /\ inst[i].obs \in Nat /\ inst[i].spec.version \in Nat
        BY <1>1 DEF IsObject
    <3>4. i \in Deploys => Aged(inst[i], p)
        BY <1>1, <1>3, <2>1, <3>2, <3>3 DEF Aged, Counted, Doomed
    <3> QED
        BY <1>2, <2>1, <3>1, <3>2, <3>3, <3>4
  <2> QED
      BY <2>2, <2>3
<1>6. ASSUME NEW op \in Ops, SetOperation(i, op) PROVE CurrentInv'
  <2> DEFINE p == [inst[i] EXCEPT !.op = op]
  <2>1. SetInstallation(i, p) /\ op # "abort"
      BY <1>6 DEF SetOperation, Spend
  <2>2. /\ p.op = op /\ p.live = inst[i].live /\ p.del = inst[i].del
        /\ p.gen = inst[i].gen /\ p.spec = inst[i].spec /\ SameRecord(inst[i], p)
      BY <1>1 DEF ObjectFields, SameRecord
  <2> HIDE DEF p
  <2>3. inst[i].spec.version \in Nat
      BY <1>1 DEF IsObject
  <2>4. i \in Deploys => Aged(inst[i], p)
      BY <1>3, <2>1, <2>2 DEF Aged, Counted, Doomed, SameRecord
  <2> QED
      BY <1>2, <2>1, <2>2, <2>3, <2>4
<1>7. Children(i) = {}
    BY NoParents
<1> QED
    BY <1>4, <1>5, <1>6, <1>7

LEMMA DataCurrent ==
    ASSUME SideBySide, CurrentPre, NEW k \in Keys, ChangeData(k)
    PROVE  CurrentInv'
<1>1. exec' = exec /\ run' = run /\ DOMAIN inst' = Insts /\ Owner(Root, k) = Root
    BY DEF ChangeData, Others
<1>2. /\ DOMAIN data = DOMAIN data' /\ Root \in DOMAIN data /\ DOMAIN data[Root] = Keys
      /\ data' = [data EXCEPT ![Root][k].version = @ + 1]
      /\ data[Root][k] \in UserData
    BY <1>1 DEF ChangeData, CurrentPre, CurrentInv, DataShape
<1> PICK d, d1 : d = data[Root] /\ d1 = data'[Root]
    OBVIOUS
<1>3. d1 = [d EXCEPT ![k].version = @ + 1]
    BY <1>2
<1>4. /\ DOMAIN d1 = Keys /\ d1[k] = [d[k] EXCEPT !.version = @ + 1]
      /\ \A x \in Keys \ {k} : d1[x] = d[x]
    BY <1>2, <1>3
<1>5. d1[k] \in UserData /\ d[k].version <= d1[k].version
    BY <1>2, <1>4 DEF UserData, Positive
<1>6. DataShape' /\ DataGrows /\ \A x \in Keys : DataStays(x)
  <2>1. DataShape'
      BY <1>2, <1>4 DEF DataShape
  <2>2. DataGrows
    <3>1. ASSUME NEW x \in Keys, Owner(Root, x) = Root
          PROVE  d1[x] \in UserData /\ d[x].version <= d1[x].version
      <4>1. d[x] \in UserData
          BY <3>1 DEF CurrentPre, CurrentInv
      <4> QED
          BY <1>4, <1>5, <4>1 DEF UserData, Positive
    <3> QED
        BY <3>1 DEF DataGrows
  <2> QED
      BY <1>1, <1>4, <2>1, <2>2 DEF DataStays
<1>7. \A i \in Deploys : Aged(inst[i], inst'[i]) /\ Proceeds(exec[i], exec'[i])
                         /\ inst'[i].spec.version \in Nat
  <2> SUFFICES ASSUME NEW i \in Deploys
               PROVE  /\ Aged(inst[i], inst'[i]) /\ Proceeds(exec[i], exec'[i])
                      /\ inst'[i].spec.version \in Nat
      OBVIOUS
  <2> DEFINE p == [inst[i] EXCEPT !.op = "reconcile"]
  <2>1. inst'[i] = inst[i] \/ inst'[i] = p
      BY DataFlowAssumption DEF ChangeData
  <2>2. DOMAIN inst[i] = ObjectFields
      BY DataFlowAssumption, RunShape DEF CurrentPre
  <2>3. /\ p.op = "reconcile" /\ p.live = inst[i].live /\ p.del = inst[i].del
        /\ p.gen = inst[i].gen /\ p.spec = inst[i].spec /\ SameRecord(inst[i], p)
      BY <2>2 DEF ObjectFields, SameRecord
  <2> HIDE DEF p
  <2>4. /\ Aged(inst[i], inst[i]) /\ inst[i].spec.version \in Nat
        /\ Proceeds(exec[i], exec[i])
      BY StillAged
  <2>5. Aged(inst[i], p)
      BY <2>3, <2>4 DEF Aged, Counted, Doomed, SameRecord
  <2> QED
      BY <1>1, <2>1, <2>3, <2>4, <2>5
<1> QED
    BY <1>1, <1>6, <1>7, OutsideCurrent

LEMMA CrashCurrent ==
    ASSUME CurrentPre, Crash
    PROVE  CurrentInv'
<1>1. UNCHANGED <<inst, exec, data>> /\ \A i \in Insts : run'[i] = Idle
    BY DEF Crash
<1>2. ~Busy(Idle)
    BY DEF Idle, Busy
<1> HIDE DEF Idle
<1>3. ASSUME NEW i \in Insts PROVE CurrentOf(i, inst[i], exec[i], run'[i], World(i))
    BY <1>1, <1>2 DEF CurrentPre, CurrentInv, CurrentOf
<1> QED
    BY <1>1, <1>3, UnchangedCurrent DEF CurrentPre

\* The invariant is inductive,
LEMMA CurrentNext ==
    ASSUME SideBySide, "lasting" \notin Events, "abort" \notin Events, CurrentPre,
           [Next]_vars
    PROVE  CurrentInv'
<1>1. CASE UNCHANGED vars
  <2>1. UNCHANGED <<inst, exec, data, run>>
      BY <1>1 DEF vars
  <2> QED
      BY <2>1, UnchangedCurrent DEF CurrentPre, CurrentInv
<1> QED
    BY <1>1, StepCurrent, GetCurrent, ExecutionCurrent, GarbageCurrent, UserCurrent,
       DataCurrent, CrashCurrent DEF Next, Environment

\* it holds at the start,
LEMMA CurrentInit ==
    ASSUME SideBySide, Init
    PROVE  CurrentInv
<1>1. /\ \A i \in Insts : inst[i] = NewInstallation(i, 1)
      /\ \A i \in Insts : exec[i] = NoExecution /\ run[i] = Idle
      /\ data = [c \in Insts \cup {Root} |-> [k \in Keys |->
                   IF c = Root /\ Owner(c, k) = Root THEN Computed(1, None)
                   ELSE NoValue]]
    BY DEF Init, SideBySide
<1>2. DataShape /\ \A k \in Keys : Owner(Root, k) = Root => data[Root][k] \in UserData
    BY <1>1 DEF DataShape, UserData, Computed, Positive
<1>3. ~Busy(Idle) /\ ~NoExecution.live
    BY DEF Idle, Busy, NoExecution
<1> HIDE DEF Idle, NoExecution
<1>4. ASSUME NEW i \in Insts, NEW o, NEW e, NEW r, NEW w, o = NewInstallation(i, 1),
             ~e.live, ~Busy(r)
      PROVE  CurrentOf(i, o, e, r, w)
  <2>1. /\ o.live /\ o.gen = 1 /\ ~o.del /\ o.op = "none" /\ o.spec.version = 1
        /\ o.obs = 0 /\ o.phase = NoPhase /\ o.imports = None /\ o.conf = NoValue
      BY <1>4 DEF NewInstallation
  <2>2. ~IsCompleted(NoPhase) /\ NoPhase # "Succeeded"
      BY DEF IsCompleted, CompletedPhases, NoPhase
  <2>3. Counted(o) /\ Doomed(o)
      BY <2>1 DEF Counted, Doomed
  <2>4. Rolled(i, e, o.spec.version, w)
      BY <1>4 DEF Rolled
  <2>5. Reports(i, o, e, w)
      BY <2>1, <2>2 DEF Reports, Published
  <2> QED
      BY <1>4, <2>1, <2>3, <2>4, <2>5 DEF CurrentOf
<1>5. \A i \in Insts : CurrentOf(i, inst[i], exec[i], run[i], World(i))
    BY <1>1, <1>3, <1>4
<1> QED
    BY <1>2, <1>5 DEF CurrentInv

\* What has settled has what it deploys recorded and, when it imports nothing
\* else than the data of users, published.
LEMMA SettledCurrent ==
    ASSUME CurrentInv, NEW i \in Deploys, Settled(i)
    PROVE  /\ Remains(i) /\ exec[i].live
           /\ Rolled(i, exec[i], inst[i].spec.version, World(i))
           /\ Reports(i, inst[i], exec[i], World(i))
           /\ Plain(i) => /\ inst[i].conf = exec[i].in
                          /\ \A k \in Exports[i] : data[Root][k] = exec[i].in
<1>1. CurrentOf(i, inst[i], exec[i], run[i], World(i))
    BY DataFlowAssumption DEF CurrentInv
<1>2. IsCompleted("Succeeded")
    BY DEF IsCompleted, CompletedPhases
<1>3. Counted(inst[i]) /\ ~inst[i].del
    BY <1>1, <1>2 DEF CurrentOf, Settled, Doomed
<1>4. inst[i].obs # 0
    BY <1>3 DEF Settled, Counted
<1>5. /\ Rolled(i, exec[i], inst[i].spec.version, World(i))
      /\ Reports(i, inst[i], exec[i], World(i))
    BY <1>1, <1>3 DEF CurrentOf, Settled
<1>6. exec[i].live
    BY <1>4, <1>5 DEF Reports
<1>7. \A k \in Exports[i] : World(i).out[k] = data[Root][k]
    BY DEF World
<1>8. ASSUME Plain(i)
      PROVE  inst[i].conf = exec[i].in /\ \A k \in Exports[i] : data[Root][k] = exec[i].in
    BY <1>5, <1>7, <1>8 DEF Reports, Published, Settled
<1> QED
    BY <1>3, <1>5, <1>6, <1>8 DEF Remains, Settled

\* and it implies the property.
LEMMA CurrentSafe ==
    ASSUME SideBySide, CurrentInv
    PROVE  CurrentIsDeployed
<1> SUFFICES ASSUME NEW i \in Deploys, Settled(i),
                    \A k \in Imports[i] : Source(i, k) # Root => Settled(Source(i, k)),
                    ~OutdatedImports(i, inst[i]), NEW k \in Imports[i]
             PROVE  exec[i].in.imports[k] = data[Parent[i]][k]
    BY DEF CurrentIsDeployed
<1> PICK o, e, w : o = inst[i] /\ e = exec[i] /\ w = World(i)
    OBVIOUS
<1>1. /\ e.live /\ Rolled(i, e, o.spec.version, w) /\ Reports(i, o, e, w)
    BY SettledCurrent
<1>2. k \in DOMAIN o.imports /\ o.imports[k] = ConfOf(i, k)
    BY DEF OutdatedImports
<1>3. o.imports # None
    BY <1>2 DEF None
<1>4. Fits(i, e.in.imports, w) /\ Before(i, o.imports, e.in.imports, w)
    BY <1>1, <1>3 DEF Rolled, Reports
<1>5. Parent[i] = Root /\ w.conf[k] = ConfOf(i, k)
    BY NoParents, DataFlowAssumption DEF World
<1>6. k \in w.stays
    BY SettledCurrent, SourceKinds DEF World
<1>7. e.in.imports[k] = ConfOf(i, k)
  <2>1. /\ e.in.imports[k] \in Confs(i, k) /\ w.conf[k] \in Confs(i, k)
        /\ Older(Inputs(i, k), e.in.imports[k], w.conf[k])
        /\ Older(Inputs(i, k), w.conf[k], e.in.imports[k])
      BY <1>2, <1>4, <1>5, <1>6 DEF Fits, Before
  <2> QED
      BY <1>5, <2>1, Ordered
<1>8. CASE Source(i, k) = Root
    BY <1>5, <1>7, <1>8 DEF ConfOf
<1>9. CASE Source(i, k) # Root
  <2> PICK a : a = Source(i, k)
      OBVIOUS
  <2>1. a \in Deploys /\ Plain(a) /\ k \in Exports[a] /\ Settled(a)
      BY <1>9, SourceKinds
  <2>2. inst[a].conf = data[Root][k]
      BY <2>1, SettledCurrent
  <2> QED
      BY <1>5, <1>7, <1>9, <2>2 DEF ConfOf
<1> QED
    BY <1>8, <1>9

\* For any number of installations side by side, each of which deploys what it
\* renders from the data of users or from what such an installation exports:
\* with one worker, all changes of specs and data, refused and failed calls,
\* crashes, drifts, failures, forced runs and deletions, what is deployed for
\* a settled installation whose imports are not outdated is what its settled
\* sources publish.
THEOREM DeployedIsCurrent ==
    ASSUME SideBySide, Workers = 1, "lasting" \notin Events, "abort" \notin Events
    PROVE  SafetySpec => []CurrentIsDeployed
<1>1. Init => CurrentPre
  <2>1. Init => SourceInv
      BY DEF Init, SourceInv, Idle, Pipeline
  <2> QED
      BY <2>1, InitRecord, ShownInit, InitTypes, CurrentInit DEF CurrentPre
<1>2. CurrentPre /\ [Next]_vars => CurrentPre'
  <2> SUFFICES ASSUME CurrentPre, [Next]_vars PROVE CurrentPre'
      OBVIOUS
  <2>1. RecordInv' /\ ShownInv' /\ SourceInv' /\ ExecInv'
      BY NextRecord, ShownNext, SourceNext, ExecutionNext DEF CurrentPre
  <2> QED
      BY <2>1, CurrentNext DEF CurrentPre
<1>3. CurrentPre => CurrentIsDeployed
    BY CurrentSafe DEF CurrentPre
<1> QED
    BY <1>1, <1>2, <1>3, PTL DEF SafetySpec

=============================================================================
