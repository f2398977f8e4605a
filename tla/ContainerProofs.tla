--------------------------- MODULE ContainerProofs ---------------------------
(***************************************************************************)
(* The pods of the container deployer keep their finalizer until their     *)
(* outcome is stored, and an item succeeds only by a pod that succeeded:   *)
(* for any number of pods, generations and events.                         *)
(***************************************************************************)
EXTENDS ContainerDeployer, WellFoundedInduction, TLAPS

-----------------------------------------------------------------------------
(* The youngest pod.                                                       *)

\* A set of numbers up to n has a greatest element: the distances to n have a
\* least one.
LEMMA GreatestExists ==
    ASSUME NEW n \in Nat, NEW S \in SUBSET (0..n), S # {}
    PROVE  \E x \in S : \A y \in S : x >= y
<1> DEFINE T == {n - x : x \in S}
<1>1. T \subseteq Nat /\ T # {}
    <2>1. \A x \in S : x \in 0..n /\ n - x \in Nat
        OBVIOUS
    <2> QED
        BY <2>1
<1>2. PICK t \in T : \A u \in T : ~ (<<u, t>> \in OpToRel(<, Nat))
    BY <1>1, NatLessThanWellFounded, WFMin
<1>3. ASSUME NEW u \in T PROVE u >= t
    <2>1. u \in Nat /\ t \in Nat
        BY <1>1
    <2>2. ~ (<<u, t>> \in {ss \in Nat \X Nat : ss[1] < ss[2]})
        BY <1>2 DEF OpToRel
    <2>3. ~ (u < t)
        BY <2>1, <2>2
    <2> QED
        BY <2>1, <2>3
<1>4. PICK x \in S : t = n - x
    OBVIOUS
<1>5. ASSUME NEW y \in S PROVE x >= y
    <2>1. n - y >= n - x
        BY <1>3, <1>4
    <2>2. x \in 0..n /\ y \in 0..n
        OBVIOUS
    <2> QED
        BY <2>1, <2>2
<1> QED
    BY <1>5

LEMMA LatestIsYoungest ==
    ASSUME MaxPods \in Nat
    PROVE  /\ Latest \in 0..MaxPods
           /\ Latest # 0 => Latest \in PodIds /\ pods[Latest].fin
           /\ \A i \in PodIds : pods[i].fin => Latest >= i
<1> DEFINE S == {0} \cup {i \in PodIds : pods[i].fin}
<1>1. S \in SUBSET (0..MaxPods) /\ S # {}
    BY DEF PodIds
<1> HIDE DEF S
<1>2. \E x \in S : \A y \in S : x >= y
    BY <1>1, GreatestExists
<1>3. Latest \in S /\ \A y \in S : Latest >= y
    <2>1. Latest = CHOOSE x \in S : \A y \in S : x >= y
        BY DEF Latest, Max, S
    <2> QED
        BY <2>1, <1>2
<1> QED
    BY <1>1, <1>3 DEF S, PodIds

-----------------------------------------------------------------------------
(* Types.                                                                  *)

\* A generation above MaxGen is that of a deletion.
TypeInv ==
    TypeOK /\ (~di.del => di.gen <= MaxGen)

USE BoundsAssumption DEF Workers

LEMMA PhasesTyped ==
    /\ NoPhase \in Phase /\ "Init" \in Phase /\ "Progressing" \in Phase
    /\ "Deleting" \in Phase /\ "Succeeded" \in Phase /\ "Failed" \in Phase
BY DEF Phase, RunningPhases, CompletedPhases

LEMMA ItemsTyped ==
    /\ NewItem \in ItemType /\ Gone \in ItemType
    /\ \A d \in ItemType : Before(d) \in [phase : Phase, obs : 0..(MaxGen + 1)]
    /\ Gone.gen <= MaxGen /\ NewItem.gen <= MaxGen
<1>1. NewItem \in ItemType /\ NewItem.gen <= MaxGen
    BY PhasesTyped DEF NewItem, ItemType
<1>2. Gone \in ItemType /\ Gone.gen = NewItem.gen
    BY <1>1 DEF Gone, ItemType
<1> QED
    BY <1>1, <1>2 DEF Before, ItemType

LEMMA TypeInit == Init => TypeInv
<1> SUFFICES ASSUME Init PROVE TypeInv
    OBVIOUS
<1>1. pods \in [PodIds -> PodType]
    BY DEF Init, NoPod, PodType
<1>2. /\ di \in ItemType /\ dl \in [Workers -> ItemType] /\ di.gen <= MaxGen
      /\ old \in [Workers -> [phase : Phase, obs : 0..(MaxGen + 1)]]
    BY ItemsTyped DEF Init
<1>3. /\ pc \in [Workers -> PCs] /\ pod \in [Workers -> 0..MaxPods]
      /\ budget \in 0..MaxEvents
    BY DEF Init, PCs
<1>4. /\ err \in [Workers -> BOOLEAN] /\ queued \in [Workers -> BOOLEAN]
      /\ cur \in [Workers -> BOOLEAN] /\ pcur \in [Workers -> BOOLEAN]
    BY DEF Init
<1> QED
    BY <1>1, <1>2, <1>3, <1>4 DEF TypeInv, TypeOK

\* The frame of a step keeps the types.
LEMMA StoreTyped ==
    ASSUME TypeOK, NEW w, NEW then, NEW d \in ItemType,
           NEW ps \in [PodIds -> PodType], Store(w, d, ps, then)
    PROVE  /\ di' = d /\ di' \in ItemType /\ pods' = ps /\ pods' \in [PodIds -> PodType]
           /\ queued' \in [Workers -> BOOLEAN] /\ cur' \in [Workers -> BOOLEAN]
           /\ pcur' \in [Workers -> BOOLEAN]
BY DEF Store, TypeOK

LEMMA ReturnTyped ==
    ASSUME TypeInv, NEW w \in Workers, NEW d \in ItemType, NEW again,
           Return(w, d, again), budget' \in 0..MaxEvents,
           ~d.del => d.gen <= MaxGen
    PROVE  TypeInv'
<1>1. di' = d /\ pods' = pods /\ di' \in ItemType /\ pods' \in [PodIds -> PodType]
      /\ queued' \in [Workers -> BOOLEAN]
      /\ cur' \in [Workers -> BOOLEAN] /\ pcur' \in [Workers -> BOOLEAN]
    <2>1. PICK then : Store(w, d, pods, then)
        BY DEF Return
    <2> QED
        BY <2>1, StoreTyped DEF TypeInv, TypeOK
<1>2. pc' \in [Workers -> PCs] /\ dl' \in [Workers -> ItemType]
    BY ItemsTyped DEF Return, Goes, TypeInv, TypeOK, PCs
<1>3. old' \in [Workers -> [phase : Phase, obs : 0..(MaxGen + 1)]]
    BY ItemsTyped DEF Return, TypeInv, TypeOK
<1>4. pod' \in [Workers -> 0..MaxPods] /\ err' \in [Workers -> BOOLEAN]
    BY DEF Return, TypeInv, TypeOK
<1> QED
    BY <1>1, <1>2, <1>3, <1>4 DEF TypeInv, TypeOK

LEMMA SpendTyped ==
    ASSUME TypeOK, NEW kind
    PROVE  /\ Spend(kind) => budget' \in 0..MaxEvents
           /\ UNCHANGED budget => budget' \in 0..MaxEvents
           /\ \A w \in Workers : Refused(w) => budget' \in 0..MaxEvents
BY DEF TypeOK, Spend, Refused

LEMMA BranchesTyped ==
    /\ \A d : Gate(d) \in PCs
    /\ \A w, d : Done(w, d) \in PCs
BY DEF Gate, Done, PCs

LEMMA GoesTyped ==
    ASSUME TypeOK, NEW w \in Workers, NEW d \in ItemType, NEW p \in PCs, Goes(w, d, p)
    PROVE  pc' \in [Workers -> PCs] /\ dl' \in [Workers -> ItemType]
BY DEF Goes, TypeOK

LEMMA LeaveTyped ==
    ASSUME TypeInv, NEW w \in Workers, NEW d \in ItemType, Leave(w, d),
           budget' \in 0..MaxEvents
    PROVE  TypeInv'
<1>1. pc' \in [Workers -> PCs] /\ dl' \in [Workers -> ItemType]
    BY GoesTyped DEF Leave, TypeInv, PCs
<1>2. /\ di' = di /\ di' \in ItemType /\ pods' \in [PodIds -> PodType]
      /\ queued' \in [Workers -> BOOLEAN] /\ cur' \in [Workers -> BOOLEAN]
      /\ pcur' \in [Workers -> BOOLEAN]
    BY StoreTyped DEF Leave, TypeInv, TypeOK
<1>3. err' \in [Workers -> BOOLEAN] /\ UNCHANGED <<old, pod>>
    BY DEF Leave, TypeInv, TypeOK
<1> QED
    BY <1>1, <1>2, <1>3 DEF TypeInv, TypeOK

\* A step that goes on.
LEMMA StepTyped ==
    ASSUME TypeInv, NEW w \in Workers, NEW d \in ItemType,
           NEW ps \in [PodIds -> PodType], NEW copy \in ItemType, NEW p \in PCs,
           NEW then, Goes(w, copy, p), Store(w, d, ps, then),
           ~d.del => d.gen <= MaxGen, budget' \in 0..MaxEvents,
           pod' \in [Workers -> 0..MaxPods], err' \in [Workers -> BOOLEAN],
           UNCHANGED old
    PROVE  TypeInv'
<1>1. pc' \in [Workers -> PCs] /\ dl' \in [Workers -> ItemType]
    BY GoesTyped DEF TypeInv
<1>2. /\ di' = d /\ di' \in ItemType /\ pods' \in [PodIds -> PodType]
      /\ queued' \in [Workers -> BOOLEAN] /\ cur' \in [Workers -> BOOLEAN]
      /\ pcur' \in [Workers -> BOOLEAN]
    BY StoreTyped DEF TypeInv, TypeOK
<1> QED
    BY <1>1, <1>2 DEF TypeInv, TypeOK

LEMMA WritesTyped ==
    ASSUME TypeInv, NEW w \in Workers, NEW d \in ItemType,
           NEW ps \in [PodIds -> PodType], NEW copy \in ItemType, NEW p \in PCs,
           Writes(w, d, ps, copy, p),
           ~d.del => d.gen <= MaxGen, budget' \in 0..MaxEvents
    PROVE  TypeInv'
<1>1. /\ pod' \in [Workers -> 0..MaxPods] /\ err' \in [Workers -> BOOLEAN]
      /\ UNCHANGED old /\ Goes(w, copy, p) /\ Store(w, d, ps, "goesOn")
    BY DEF Writes, TypeInv, TypeOK
<1> QED
    BY <1>1, StepTyped

LEMMA AcceptedTyped ==
    ASSUME TypeInv, NEW w \in Workers, NEW d \in ItemType, NEW p \in PCs,
           Accepted(w, d, p), ~d.del => d.gen <= MaxGen
    PROVE  TypeInv'
<1>1. Writes(w, d, pods, d, p) /\ budget' \in 0..MaxEvents
      /\ pods \in [PodIds -> PodType]
    BY SpendTyped DEF Accepted, TypeInv, TypeOK
<1> QED
    BY <1>1, WritesTyped

\* A write of somebody else.
LEMMA WrittenTyped ==
    ASSUME TypeInv, NEW d \in ItemType, NEW ps \in [PodIds -> PodType],
           Written(d, ps), ~d.del => d.gen <= MaxGen, budget' \in 0..MaxEvents
    PROVE  TypeInv'
<1>1. /\ di' = d /\ di' \in ItemType /\ pods' \in [PodIds -> PodType]
      /\ queued' \in [Workers -> BOOLEAN] /\ cur' \in [Workers -> BOOLEAN]
      /\ pcur' \in [Workers -> BOOLEAN]
    BY StoreTyped DEF Written, TypeInv, TypeOK
<1> QED
    BY <1>1 DEF Written, TypeInv, TypeOK

LEMMA LibraryStepTyped ==
    ASSUME TypeInv, LibraryStep
    PROVE  TypeInv'
<1> USE DEF TypeOK
<1>0. di \in ItemType /\ "item" \in Workers /\ (~di.del => di.gen <= MaxGen)
      /\ dl["item"] \in ItemType
    BY DEF TypeInv
<1>1. ASSUME Refused("item"), Return("item", di, TRUE) PROVE TypeInv'
    BY <1>0, <1>1, SpendTyped, ReturnTyped DEF TypeInv
<1>2. CASE Prepare
    <2> DEFINE d == [di EXCEPT !.obs = di.gen, !.phase = "Init"]
    <2>1. d \in ItemType /\ (~d.del => d.gen <= MaxGen)
        <3>1. di.gen \in 1..(MaxGen + 1) /\ di.gen \in 0..(MaxGen + 1)
            BY <1>0 DEF ItemType
        <3> QED
            BY <1>0, <3>1, PhasesTyped DEF ItemType
    <2>2. (IF d.asked THEN "annotations" ELSE Gate(d)) \in PCs
        BY BranchesTyped DEF PCs
    <2> HIDE DEF d
    <2>3. CASE Accepted("item", d, IF d.asked THEN "annotations" ELSE Gate(d))
        BY <1>0, <2>1, <2>2, <2>3, AcceptedTyped
    <2> QED
        BY <1>1, <1>2, <2>3 DEF Prepare, d
<1>3. CASE DropAnnotation
    <2> DEFINE d == [di EXCEPT !.asked = FALSE]
    <2>1. d \in ItemType /\ (~d.del => d.gen <= MaxGen)
        BY <1>0 DEF ItemType
    <2> HIDE DEF d
    <2>2. CASE Accepted("item", d, Gate(d))
        BY <1>0, <2>1, <2>2, BranchesTyped, AcceptedTyped
    <2> QED
        BY <1>1, <1>3, <2>2 DEF DropAnnotation, d
<1>4. ASSUME Refused("item"), Leave("item", dl["item"]) PROVE TypeInv'
    BY <1>0, <1>4, SpendTyped, LeaveTyped DEF TypeInv
<1>5. CASE AddFinalizer
    <2> DEFINE d == [di EXCEPT !.fin = TRUE]
    <2>1. d \in ItemType /\ (~d.del => d.gen <= MaxGen) /\ "look" \in PCs
        BY <1>0 DEF ItemType, PCs
    <2> HIDE DEF d
    <2>2. CASE Accepted("item", d, "look")
        BY <1>0, <2>1, <2>2, AcceptedTyped
    <2> QED
        BY <1>4, <1>5, <2>2 DEF AddFinalizer, d
<1>6. CASE RemoveFinalizer
    <2>1. CASE Accepted("item", Gone, "handleError")
        BY <1>0, <2>1, ItemsTyped, AcceptedTyped DEF PCs
    <2> QED
        BY <1>4, <1>6, <2>1 DEF RemoveFinalizer
<1> QED
    BY <1>2, <1>3, <1>5, <1>6 DEF LibraryStep

LEMMA GetTyped ==
    ASSUME TypeInv, NEW w \in Workers, Get(w)
    PROVE  TypeInv'
<1> DEFINE p == IF w = "pods" THEN "look"
                ELSE IF Requested(di) THEN "prepare" ELSE Gate(di)
<1>1. p \in PCs /\ di \in ItemType
    BY BranchesTyped DEF PCs, TypeInv, TypeOK
<1>2. /\ queued' \in [Workers -> BOOLEAN]
      /\ UNCHANGED <<di, pods, old, pod, pcur, err, budget>>
    BY DEF Get, TypeInv, TypeOK
<1>3. \/ Goes(w, di, p) /\ cur' = [cur EXCEPT ![w] = TRUE]
      \/ UNCHANGED <<pc, dl, cur>>
    BY DEF Get
<1> HIDE DEF p
<1>4. /\ pc' \in [Workers -> PCs] /\ dl' \in [Workers -> ItemType]
      /\ cur' \in [Workers -> BOOLEAN]
    BY <1>1, <1>3, GoesTyped DEF TypeInv, TypeOK
<1> QED
    BY <1>2, <1>4 DEF TypeInv, TypeOK

LEMMA HandleErrorTyped ==
    ASSUME TypeInv, NEW w \in Workers, HandleError(w)
    PROVE  TypeInv'
<1>1. di \in ItemType /\ dl[w].phase \in Phase /\ (~di.del => di.gen <= MaxGen)
    BY DEF TypeInv, TypeOK, ItemType
<1> DEFINE d == [di EXCEPT !.phase = dl[w].phase]
<1>2. d \in ItemType /\ (~d.del => d.gen <= MaxGen)
    BY <1>1 DEF ItemType
<1> HIDE DEF d
<1>3. budget' \in 0..MaxEvents
    BY SpendTyped DEF HandleError, TypeInv
<1>4. Return(w, d, err[w]) \/ Return(w, di, err[w])
    BY DEF HandleError, d
<1> QED
    BY <1>1, <1>2, <1>3, <1>4, ReturnTyped

LEMMA LookTyped ==
    ASSUME TypeInv, NEW w \in Workers, Look(w)
    PROVE  TypeInv'
<1>1. pod' \in [Workers -> 0..MaxPods] /\ pcur' \in [Workers -> BOOLEAN]
      /\ UNCHANGED <<di, pods, queued, cur>>
    BY LatestIsYoungest DEF Look, TypeInv, TypeOK
<1>2. PICK state : \/ StillRunning(w, state) \/ CannotStart(w, state)
                   \/ BeginPod(w, state) \/ NothingToDo(w, state)
                   \/ Complete(w, state)
    BY DEF Look
<1>3. \A phase \in Phase : [dl[w] EXCEPT !.phase = phase] \in ItemType
    BY DEF TypeInv, TypeOK, ItemType
<1>4. \A d \in ItemType : \A p \in PCs : Goes(w, d, p) =>
          pc' \in [Workers -> PCs] /\ dl' \in [Workers -> ItemType]
    BY GoesTyped DEF TypeInv
<1>5. Outcome(state) \in Phase
    BY PhasesTyped DEF Outcome
<1>6. dl[w] \in ItemType /\ "createPod" \in PCs /\ "storeOutcome" \in PCs
      /\ "handleError" \in PCs
    BY DEF TypeInv, TypeOK, PCs
<1>7. Fails(w) => /\ pc' \in [Workers -> PCs] /\ dl' \in [Workers -> ItemType]
                  /\ err' \in [Workers -> BOOLEAN] /\ UNCHANGED old
    BY <1>4, <1>6 DEF Fails, TypeInv, TypeOK
<1> DEFINE Q == /\ pc' \in [Workers -> PCs] /\ dl' \in [Workers -> ItemType]
                /\ err' \in [Workers -> BOOLEAN]
                /\ old' \in [Workers -> [phase : Phase, obs : 0..(MaxGen + 1)]]
                /\ budget' \in 0..MaxEvents
<1> SUFFICES Q
    BY <1>1 DEF TypeInv, TypeOK
<1>8. CASE StillRunning(w, state)
    BY <1>3, <1>4, <1>8, PhasesTyped, BranchesTyped DEF StillRunning, TypeInv, TypeOK
<1>9. CASE CannotStart(w, state)
    BY <1>3, <1>4, <1>6, <1>9, PhasesTyped DEF CannotStart, TypeInv, TypeOK
<1>10. CASE BeginPod(w, state)
    <2>1. budget' \in 0..MaxEvents
        BY <1>10, SpendTyped DEF BeginPod, TypeInv
    <2>2. CASE Fails(w)
        BY <1>7, <2>1, <2>2 DEF TypeInv, TypeOK
    <2>3. CASE /\ Goes(w, dl[w], "createPod")
               /\ old' = [old EXCEPT ![w] = Before(di)] /\ UNCHANGED err
        BY <1>4, <1>6, <2>1, <2>3, ItemsTyped DEF TypeInv, TypeOK
    <2> QED
        BY <1>10, <2>2, <2>3 DEF BeginPod
<1>11. CASE NothingToDo(w, state)
    BY <1>4, <1>6, <1>11, BranchesTyped DEF NothingToDo, TypeInv, TypeOK
<1>12. CASE Complete(w, state)
    <2>1. budget' \in 0..MaxEvents
        BY <1>12, SpendTyped DEF Complete, TypeInv
    <2>2. CASE Fails(w)
        BY <1>7, <2>1, <2>2 DEF TypeInv, TypeOK
    <2>3. CASE /\ Goes(w, [dl[w] EXCEPT !.phase = Outcome(state)], "storeOutcome")
               /\ UNCHANGED <<old, err>>
        BY <1>3, <1>4, <1>5, <1>6, <2>1, <2>3 DEF TypeInv, TypeOK
    <2> QED
        BY <1>12, <2>2, <2>3 DEF Complete
<1> QED
    BY <1>2, <1>8, <1>9, <1>10, <1>11, <1>12

LEMMA StartTyped ==
    ASSUME TypeInv, NEW w \in Workers, CreatePod(w) \/ PatchStatus(w) \/ DropOperation(w)
    PROVE  TypeInv'
<1>0. /\ di \in ItemType /\ (~di.del => di.gen <= MaxGen) /\ dl[w] \in ItemType
      /\ pods \in [PodIds -> PodType] /\ pod \in [Workers -> 0..MaxPods]
      /\ err \in [Workers -> BOOLEAN]
      /\ \A phase \in Phase : [dl[w] EXCEPT !.phase = phase] \in ItemType
    BY DEF TypeInv, TypeOK, ItemType
<1>1. CASE CreatePod(w)
    <2>1. budget' \in 0..MaxEvents
        BY <1>1, SpendTyped DEF CreatePod, TypeInv
    <2>2. CASE Leave(w, dl[w])
        BY <1>0, <2>1, <2>2, LeaveTyped
    <2>3. ASSUME NEW i \in PodIds, Goes(w, dl[w], "patchStatus"),
                 pod' = [pod EXCEPT ![w] = i], UNCHANGED <<old, err>>,
                 Store(w, di, [pods EXCEPT ![i] = NewPod], "goesOn")
          PROVE  TypeInv'
        <3>1. [pods EXCEPT ![i] = NewPod] \in [PodIds -> PodType]
            BY <1>0 DEF NewPod, PodType
        <3>2. pod' \in [Workers -> 0..MaxPods] /\ err' \in [Workers -> BOOLEAN]
              /\ "patchStatus" \in PCs
            BY <1>0, <2>3 DEF PodIds, PCs
        <3> QED
            BY <1>0, <2>1, <2>3, <3>1, <3>2, StepTyped
    <2> QED
        BY <1>1, <2>2, <2>3 DEF CreatePod
<1>2. CASE PatchStatus(w)
    <2> DEFINE phase == IF w = "item" /\ dl[w].del THEN "Deleting" ELSE "Progressing"
               d == [di EXCEPT !.phase = IF phase = old[w].phase THEN @ ELSE phase,
                               !.obs = IF dl[w].obs = old[w].obs THEN @ ELSE dl[w].obs]
    <2>1. budget' \in 0..MaxEvents
        BY <1>2, SpendTyped DEF PatchStatus, TypeInv
    <2>2. phase \in Phase
        BY PhasesTyped
    <2> HIDE DEF phase
    <2>3. d \in ItemType /\ (~d.del => d.gen <= MaxGen)
        BY <1>0, <2>2 DEF ItemType
    <2> HIDE DEF d
    <2> DEFINE copy == [d EXCEPT !.del = dl[w].del]
    <2>6. copy \in ItemType
        BY <1>0, <2>3 DEF ItemType
    <2> HIDE DEF copy
    <2>4. CASE Leave(w, [dl[w] EXCEPT !.phase = phase])
        BY <1>0, <2>1, <2>2, <2>4, LeaveTyped
    <2>5. CASE /\ Goes(w, copy, IF d.asked THEN "dropOperation" ELSE Done(w, copy))
               /\ Store(w, d, pods, "patched") /\ UNCHANGED <<old, pod, err>>
        <3>1. (IF d.asked THEN "dropOperation" ELSE Done(w, copy)) \in PCs
            BY BranchesTyped DEF PCs
        <3> QED
            BY <1>0, <2>1, <2>3, <2>5, <2>6, <3>1, StepTyped
    <2> QED
        BY <1>2, <2>4, <2>5 DEF PatchStatus, phase, d, copy
<1>3. CASE DropOperation(w)
    <2> DEFINE d == [di EXCEPT !.asked = FALSE]
    <2>1. d \in ItemType /\ (~d.del => d.gen <= MaxGen)
        BY <1>0 DEF ItemType
    <2> HIDE DEF d
    <2>2. CASE Accepted(w, d, Done(w, dl[w]))
        BY <2>1, <2>2, BranchesTyped, AcceptedTyped
    <2>3. CASE Refused(w) /\ Leave(w, dl[w])
        BY <1>0, <2>3, SpendTyped, LeaveTyped DEF TypeInv
    <2> QED
        BY <1>3, <2>2, <2>3 DEF DropOperation, d
<1> QED
    BY <1>1, <1>2, <1>3

LEMMA EndTyped ==
    ASSUME TypeInv, NEW w \in Workers, StoreOutcome(w) \/ ReleasePod(w) \/ DeletePod(w)
    PROVE  TypeInv'
<1>0. /\ di \in ItemType /\ (~di.del => di.gen <= MaxGen) /\ dl[w] \in ItemType
      /\ pods \in [PodIds -> PodType] /\ pod \in [Workers -> 0..MaxPods]
      /\ [di EXCEPT !.phase = dl[w].phase] \in ItemType
      /\ "releasePod" \in PCs /\ "deletePod" \in PCs /\ "handleError" \in PCs
    BY DEF TypeInv, TypeOK, ItemType, PCs
<1>1. /\ [pods EXCEPT ![pod[w]].stored = TRUE] \in [PodIds -> PodType]
      /\ [pods EXCEPT ![pod[w]].fin = FALSE] \in [PodIds -> PodType]
      /\ [pods EXCEPT ![pod[w]].exists = FALSE] \in [PodIds -> PodType]
    BY <1>0, ZenonT(40) DEF PodType
<1>2. budget' \in 0..MaxEvents
    BY SpendTyped DEF StoreOutcome, ReleasePod, DeletePod, TypeInv
<1>3. CASE Leave(w, dl[w])
    BY <1>0, <1>2, <1>3, LeaveTyped
<1>4. CASE StoreOutcome(w)
    <2> DEFINE d == [di EXCEPT !.phase = dl[w].phase]
    <2>1. d \in ItemType /\ (~d.del => d.gen <= MaxGen)
        BY <1>0 DEF ItemType
    <2> HIDE DEF d
    <2>2. CASE Writes(w, d, [pods EXCEPT ![pod[w]].stored = TRUE], d, "releasePod")
        BY <1>0, <1>1, <1>2, <2>1, <2>2, WritesTyped
    <2> QED
        BY <1>3, <1>4, <2>2 DEF StoreOutcome, d
<1>5. CASE ReleasePod(w)
    <2>1. CASE Writes(w, di, [pods EXCEPT ![pod[w]].fin = FALSE], dl[w], "deletePod")
        BY <1>0, <1>1, <1>2, <2>1, WritesTyped
    <2> QED
        BY <1>3, <1>5, <2>1 DEF ReleasePod
<1>6. CASE DeletePod(w)
    <2> DEFINE stuck == pods[pod[w]].state = "stuck"
    <2>1. ASSUME Goes(w, dl[w], IF stuck THEN "handleError" ELSE Done(w, dl[w])),
                 Store(w, di, [pods EXCEPT ![pod[w]].exists = FALSE], "goesOn"),
                 err' = [err EXCEPT ![w] = stuck], UNCHANGED <<old, pod>>
          PROVE  TypeInv'
        <3>1. (IF stuck THEN "handleError" ELSE Done(w, dl[w])) \in PCs
            BY <1>0, BranchesTyped
        <3>2. err' \in [Workers -> BOOLEAN] /\ pod' \in [Workers -> 0..MaxPods]
            BY <1>0, <2>1 DEF TypeInv, TypeOK
        <3> QED
            BY <1>0, <1>1, <1>2, <2>1, <3>1, <3>2, StepTyped
    <2> QED
        BY <1>3, <1>6, <2>1 DEF DeletePod
<1> QED
    BY <1>4, <1>5, <1>6

LEMMA EnvironmentTyped ==
    ASSUME TypeInv,
           \/ \E i \in PodIds : Cluster(i)
           \/ Trigger \/ RequestDeletion \/ Timeout \/ Crash
    PROVE  TypeInv'
<1>0. di \in ItemType /\ (~di.del => di.gen <= MaxGen) /\ pods \in [PodIds -> PodType]
    BY DEF TypeInv, TypeOK
<1>1. ASSUME NEW i \in PodIds, FinishPod(i) \/ ImageError(i) PROVE TypeInv'
    <2>1. \A state \in {"succeeded", "failed", "stuck"} :
              [pods EXCEPT ![i].state = state] \in [PodIds -> PodType]
        BY <1>0 DEF PodType
    <2>2. budget' \in 0..MaxEvents
        BY <1>1, SpendTyped DEF FinishPod, ImageError, TypeInv
    <2>3. PICK state \in {"succeeded", "failed", "stuck"} :
              Written(di, [pods EXCEPT ![i].state = state])
        BY <1>1 DEF FinishPod, ImageError
    <2> QED
        BY <1>0, <2>1, <2>2, <2>3, WrittenTyped
<1>2. ASSUME NEW i \in PodIds, Collect(i) PROVE TypeInv'
    <2> DEFINE ps == [pods EXCEPT ![i] = IF @.fin THEN [@ EXCEPT !.fin = FALSE]
                                         ELSE [@ EXCEPT !.exists = FALSE]]
    <2>1. ps \in [PodIds -> PodType]
        BY <1>0 DEF PodType
    <2> HIDE DEF ps
    <2>2. Store("none", di, ps, "goesOn") /\ UNCHANGED <<pc, dl, old, pod, err, budget>>
        BY <1>2 DEF Collect, ps
    <2>3. Written(di, ps) /\ budget' \in 0..MaxEvents
        BY <2>2 DEF Written, TypeInv, TypeOK
    <2> QED
        BY <1>0, <2>1, <2>3, WrittenTyped
<1>3. CASE Trigger
    <2>1. [di EXCEPT !.gen = @ + 1, !.asked = TRUE] \in ItemType
          /\ [di EXCEPT !.gen = @ + 1, !.asked = TRUE].gen <= MaxGen
        <3>1. /\ di.gen \in 1..(MaxGen + 1) /\ di.gen < MaxGen
              /\ di.gen + 1 \in 1..(MaxGen + 1) /\ di.gen + 1 <= MaxGen
            BY <1>0, <1>3 DEF Trigger, ItemType
        <3> QED
            BY <1>0, <3>1 DEF ItemType
    <2>2. budget' \in 0..MaxEvents
        BY <1>3, SpendTyped DEF Trigger, TypeInv
    <2> QED
        BY <1>0, <1>3, <2>1, <2>2, WrittenTyped DEF Trigger
<1>4. CASE RequestDeletion
    <2> DEFINE d == IF di.fin THEN [di EXCEPT !.del = TRUE, !.gen = @ + 1] ELSE Gone
    <2>1. d \in ItemType /\ (~d.del => d.gen <= MaxGen)
        <3>1. di.gen \in 1..(MaxGen + 1) /\ di.gen <= MaxGen
              /\ di.gen + 1 \in 1..(MaxGen + 1)
            BY <1>0, <1>4 DEF RequestDeletion, ItemType
        <3>2. CASE di.fin
            <4>1. [di EXCEPT !.del = TRUE, !.gen = @ + 1] \in ItemType
                  /\ [di EXCEPT !.del = TRUE, !.gen = @ + 1].del
                BY <1>0, <3>1 DEF ItemType
            <4> QED
                BY <3>2, <4>1
        <3>3. CASE ~di.fin
            BY <3>3, ItemsTyped
        <3> QED
            BY <3>2, <3>3
    <2>2. budget' \in 0..MaxEvents
        BY <1>4, SpendTyped DEF RequestDeletion, TypeInv
    <2> HIDE DEF d
    <2>3. Written(d, pods)
        BY <1>4 DEF RequestDeletion, d
    <2> QED
        BY <1>0, <2>1, <2>2, <2>3, WrittenTyped
<1>5. CASE Timeout
    <2> DEFINE d == [di EXCEPT !.phase = "Failed"]
    <2>1. d \in ItemType /\ (~d.del => d.gen <= MaxGen)
        BY <1>0, PhasesTyped DEF ItemType
    <2>2. budget' \in 0..MaxEvents
        BY <1>5, SpendTyped DEF Timeout, TypeInv
    <2> HIDE DEF d
    <2>3. Written(d, pods)
        BY <1>5 DEF Timeout, d
    <2> QED
        BY <1>0, <2>1, <2>2, <2>3, WrittenTyped
<1>6. CASE Crash
    <2>1. budget' \in 0..MaxEvents
        BY <1>6, SpendTyped DEF Crash, TypeInv
    <2>2. /\ pc' \in [Workers -> PCs] /\ dl' \in [Workers -> ItemType]
          /\ old' \in [Workers -> [phase : Phase, obs : 0..(MaxGen + 1)]]
          /\ pod' \in [Workers -> 0..MaxPods] /\ err' \in [Workers -> BOOLEAN]
          /\ cur' \in [Workers -> BOOLEAN] /\ pcur' \in [Workers -> BOOLEAN]
          /\ queued' \in [Workers -> BOOLEAN] /\ UNCHANGED <<di, pods>>
        BY <1>6, ItemsTyped DEF Crash, PCs
    <2> QED
        BY <2>1, <2>2 DEF TypeInv, TypeOK
<1> QED
    BY <1>1, <1>2, <1>3, <1>4, <1>5, <1>6 DEF Cluster

LEMMA TypeStep == TypeInv /\ [Next]_vars => TypeInv'
<1> SUFFICES ASSUME TypeInv, [Next]_vars PROVE TypeInv'
    OBVIOUS
<1>1. CASE UNCHANGED vars
    BY <1>1 DEF vars, TypeInv, TypeOK
<1>2. ASSUME NEW w \in Workers, Step(w) PROVE TypeInv'
    BY <1>2, GetTyped, LookTyped, StartTyped, EndTyped, HandleErrorTyped,
       LibraryStepTyped DEF Step
<1> QED
    BY <1>1, <1>2, EnvironmentTyped DEF Next

\* The variables of the container deployer and the objects it works on keep
\* their types, whatever fails and whoever else writes.
THEOREM ContainerTypeCorrect == Spec => []TypeOK
<1>1. TypeInv => TypeOK
    BY DEF TypeInv
<1> QED
    BY TypeInit, TypeStep, <1>1, PTL DEF Spec

-----------------------------------------------------------------------------
(* The pods.                                                               *)

\* What a step does to the pods.
PodsChange ==
    \/ pods' = pods
    \/ \E i \in PodIds : ~Started(i) /\ pods' = [pods EXCEPT ![i] = NewPod]
    \/ \E w \in Workers : pc[w] = "storeOutcome" /\ pc'[w] = "releasePod"
                         /\ pods' = [pods EXCEPT ![pod[w]].stored = TRUE]
    \/ \E w \in Workers : pc[w] = "releasePod"
                         /\ pods' = [pods EXCEPT ![pod[w]].fin = FALSE]
    \/ \E w \in Workers : pods' = [pods EXCEPT ![pod[w]].exists = FALSE]
    \/ \E i \in PodIds : \E state \in {"succeeded", "failed", "stuck"} :
           pods[i].state = "running" /\ pods' = [pods EXCEPT ![i].state = state]
    \/ \E i \in PodIds : Collectable(i) /\ pods' =
           [pods EXCEPT ![i] = IF @.fin THEN [@ EXCEPT !.fin = FALSE]
                               ELSE [@ EXCEPT !.exists = FALSE]]

\* What a step does to a worker that is about to store an outcome or to
\* release a pod.
WorkerChange(w) ==
    \/ pc'[w] = pc[w] /\ pod'[w] = pod[w]
    \/ pc'[w] \notin {"storeOutcome", "releasePod"}
    \/ /\ pc'[w] = "storeOutcome" /\ pod'[w] = Latest /\ Latest # 0
       /\ pods[Latest].state # "none" /\ pods' = pods
    \/ /\ pc[w] = "storeOutcome" /\ pc'[w] = "releasePod" /\ pod'[w] = pod[w]
       /\ pods' = [pods EXCEPT ![pod[w]].stored = TRUE]

LEMMA StepChanges ==
    ASSUME TypeInv, NEW w \in Workers, Step(w)
    PROVE  PodsChange /\ WorkerChange(w)
<1>0. pc \in [Workers -> PCs] /\ pod \in [Workers -> 0..MaxPods]
      /\ dl \in [Workers -> ItemType] /\ "item" \in Workers
    BY DEF TypeInv, TypeOK
<1>1. ASSUME NEW v \in Workers, NEW d, NEW again, Return(v, d, again)
      PROVE  pods' = pods /\ pc'[v] = "idle"
    BY <1>0, <1>1 DEF Return, Goes, Store
<1>2. ASSUME NEW v \in Workers, NEW d, Leave(v, d)
      PROVE  pods' = pods /\ pc'[v] = "handleError"
    BY <1>0, <1>2 DEF Leave, Goes, Store
<1>3. ASSUME NEW v \in Workers, NEW d, NEW ps, NEW copy, NEW p, Writes(v, d, ps, copy, p)
      PROVE  pods' = ps /\ pc'[v] = p /\ pod' = pod
    BY <1>0, <1>3 DEF Writes, Goes, Store
<1>4. ASSUME NEW v \in Workers, NEW d, NEW p, Accepted(v, d, p)
      PROVE  pods' = pods /\ pc'[v] = p
    BY <1>3, <1>4 DEF Accepted
<1>5. \A d : Gate(d) \notin {"storeOutcome", "releasePod"}
    BY DEF Gate
<1>6. \A v, d : Done(v, d) \notin {"storeOutcome", "releasePod"}
    BY DEF Done
<1>7. CASE Get(w)
    <2>1. pods' = pods
        BY <1>7 DEF Get
    <2>2. \/ UNCHANGED <<pc, pod>>
          \/ pc'[w] = IF w = "pods" THEN "look"
                      ELSE IF Requested(di) THEN "prepare" ELSE Gate(di)
        BY <1>0, <1>7 DEF Get, Goes
    <2> QED
        BY <2>1, <2>2, <1>5 DEF PodsChange, WorkerChange
<1>8. CASE Look(w)
    <2> DEFINE state == IF Latest = 0 THEN "none" ELSE pods[Latest].state
    <2>1. /\ pods' = pods /\ pod'[w] = Latest
          /\ \/ StillRunning(w, state) \/ CannotStart(w, state)
             \/ BeginPod(w, state) \/ NothingToDo(w, state) \/ Complete(w, state)
        BY <1>0, <1>8 DEF Look
    <2> HIDE DEF state
    <2>2. pc'[w] \in {"storeOutcome", "releasePod"} =>
              pc'[w] = "storeOutcome" /\ state \in {"stuck", "succeeded", "failed"}
        BY <1>0, <1>6, <2>1
           DEF StillRunning, CannotStart, BeginPod, NothingToDo, Complete, Goes, Fails
    <2>3. state # "none" => Latest # 0 /\ state = pods[Latest].state
        BY DEF state
    <2> QED
        BY <2>1, <2>2, <2>3 DEF PodsChange, WorkerChange
<1>9. CASE CreatePod(w)
    <2>1. CASE Leave(w, dl[w])
        BY <1>2, <2>1 DEF PodsChange, WorkerChange
    <2>2. ASSUME NEW i \in PodIds, {j \in PodIds : Started(j)} = 1..(i - 1),
                 Goes(w, dl[w], "patchStatus"),
                 Store(w, di, [pods EXCEPT ![i] = NewPod], "goesOn")
          PROVE  PodsChange /\ WorkerChange(w)
        <3>1. ~Started(i)
            BY <2>2 DEF PodIds
        <3>2. pods' = [pods EXCEPT ![i] = NewPod] /\ pc'[w] = "patchStatus"
            BY <1>0, <2>2 DEF Goes, Store
        <3> QED
            BY <3>1, <3>2 DEF PodsChange, WorkerChange
    <2> QED
        BY <1>9, <2>1, <2>2 DEF CreatePod
<1>10. CASE PatchStatus(w)
    <2>1. ASSUME NEW d, NEW copy, Store(w, d, pods, "patched"),
                 Goes(w, copy, IF d.asked THEN "dropOperation" ELSE Done(w, copy))
          PROVE  pods' = pods /\ pc'[w] \notin {"storeOutcome", "releasePod"}
        BY <1>0, <1>6, <2>1 DEF Goes, Store
    <2>2. pods' = pods /\ pc'[w] \notin {"storeOutcome", "releasePod"}
        BY <1>2, <1>10, <2>1 DEF PatchStatus
    <2> QED
        BY <2>2 DEF PodsChange, WorkerChange
<1>11. CASE DropOperation(w)
    BY <1>2, <1>4, <1>6, <1>11 DEF DropOperation, PodsChange, WorkerChange
<1>12. CASE StoreOutcome(w)
    BY <1>2, <1>3, <1>12 DEF StoreOutcome, At, PodsChange, WorkerChange
<1>13. CASE ReleasePod(w)
    <2>1. CASE Leave(w, dl[w])
        BY <1>2, <2>1 DEF PodsChange, WorkerChange
    <2>2. CASE Writes(w, di, [pods EXCEPT ![pod[w]].fin = FALSE], dl[w], "deletePod")
        <3>1. pods' = [pods EXCEPT ![pod[w]].fin = FALSE] /\ pc'[w] = "deletePod"
            BY <1>3, <2>2
        <3> QED
            BY <1>13, <3>1 DEF ReleasePod, At, PodsChange, WorkerChange
    <2> QED
        BY <1>13, <2>1, <2>2 DEF ReleasePod
<1>14. CASE DeletePod(w)
    <2>1. CASE Leave(w, dl[w])
        BY <1>2, <2>1 DEF PodsChange, WorkerChange
    <2>2. ASSUME NEW p, p \notin {"storeOutcome", "releasePod"}, Goes(w, dl[w], p),
                 Store(w, di, [pods EXCEPT ![pod[w]].exists = FALSE], "goesOn")
          PROVE  PodsChange /\ WorkerChange(w)
        <3>1. pods' = [pods EXCEPT ![pod[w]].exists = FALSE] /\ pc'[w] = p
            BY <1>0, <2>2 DEF Goes, Store
        <3> QED
            BY <2>2, <3>1 DEF PodsChange, WorkerChange
    <2>3. (IF pods[pod[w]].state = "stuck" THEN "handleError" ELSE Done(w, dl[w]))
              \notin {"storeOutcome", "releasePod"}
        BY <1>6
    <2> QED
        BY <1>14, <2>1, <2>2, <2>3 DEF DeletePod
<1>15. CASE HandleError(w)
    BY <1>1, <1>15 DEF HandleError, PodsChange, WorkerChange
<1>16. CASE w = "item" /\ LibraryStep
    <2>1. pods' = pods /\ pc'["item"] \notin {"storeOutcome", "releasePod"}
        <3>1. CASE Prepare
            <4> DEFINE d == [di EXCEPT !.obs = di.gen, !.phase = "Init"]
            <4>1. (IF d.asked THEN "annotations" ELSE Gate(d))
                      \notin {"storeOutcome", "releasePod"}
                BY <1>5
            <4> HIDE DEF d
            <4>2. CASE Accepted("item", d, IF d.asked THEN "annotations" ELSE Gate(d))
                BY <1>0, <1>4, <4>1, <4>2
            <4>3. CASE Return("item", di, TRUE)
                BY <1>0, <1>1, <4>3
            <4> QED
                BY <3>1, <4>2, <4>3 DEF Prepare, d
        <3>2. CASE DropAnnotation
            BY <1>0, <1>1, <1>4, <1>5, <3>2 DEF DropAnnotation
        <3>3. CASE AddFinalizer
            BY <1>0, <1>2, <1>4, <3>3 DEF AddFinalizer
        <3>4. CASE RemoveFinalizer
            BY <1>0, <1>2, <1>4, <3>4 DEF RemoveFinalizer
        <3> QED
            BY <1>16, <3>1, <3>2, <3>3, <3>4 DEF LibraryStep
    <2> QED
        BY <1>16, <2>1 DEF PodsChange, WorkerChange
<1> QED
    BY <1>7, <1>8, <1>9, <1>10, <1>11, <1>12, <1>13, <1>14, <1>15, <1>16 DEF Step

\* The other worker stays where it is.
LEMMA OtherWorker ==
    ASSUME TypeInv, NEW w \in Workers, Step(w), NEW v \in Workers \ {w}
    PROVE  pc'[v] = pc[v] /\ pod'[v] = pod[v] /\ dl'[v] = dl[v]
<1>0. /\ pc \in [Workers -> PCs] /\ pod \in [Workers -> 0..MaxPods]
      /\ dl \in [Workers -> ItemType]
    BY DEF TypeInv, TypeOK
<1> DEFINE Same == pc'[v] = pc[v] /\ pod'[v] = pod[v] /\ dl'[v] = dl[v]
<1>1. ASSUME NEW d, NEW p, Goes(w, d, p)
      PROVE  pc'[v] = pc[v] /\ dl'[v] = dl[v]
    BY <1>0, <1>1 DEF Goes
<1>2. ASSUME NEW x, pod' = [pod EXCEPT ![w] = x] PROVE pod'[v] = pod[v]
    BY <1>0, <1>2
<1>3. ASSUME NEW d, NEW again, Return(w, d, again) PROVE Same
    BY <1>1, <1>2, <1>3 DEF Return
<1>4. ASSUME NEW d, Leave(w, d) PROVE Same
    BY <1>1, <1>4 DEF Leave
<1>5. ASSUME NEW d, NEW ps, NEW copy, NEW p, Writes(w, d, ps, copy, p) PROVE Same
    BY <1>1, <1>5 DEF Writes
<1>6. ASSUME NEW d, NEW p, Accepted(w, d, p) PROVE Same
    BY <1>5, <1>6 DEF Accepted
<1>7. CASE Get(w)
    BY <1>1, <1>7 DEF Get
<1>8. CASE Look(w)
    <2>1. PICK d, p : Goes(w, d, p)
        <3>1. PICK state : \/ StillRunning(w, state) \/ CannotStart(w, state)
                           \/ BeginPod(w, state) \/ NothingToDo(w, state)
                           \/ Complete(w, state)
            BY <1>8 DEF Look
        <3> QED
            BY <3>1 DEF StillRunning, CannotStart, BeginPod, NothingToDo, Complete, Fails
    <2> QED
        BY <1>1, <1>2, <1>8, <2>1 DEF Look
<1>9. CASE CreatePod(w)
    BY <1>1, <1>2, <1>4, <1>9 DEF CreatePod
<1>10. CASE PatchStatus(w)
    <2>1. \/ \E d : Leave(w, d)
          \/ \E d, p : Goes(w, d, p) /\ UNCHANGED pod
        BY <1>10 DEF PatchStatus
    <2> QED
        BY <1>1, <1>4, <2>1
<1>11. CASE DropOperation(w)
    <2>1. (\E d, p : Accepted(w, d, p)) \/ (\E d : Leave(w, d))
        BY <1>11 DEF DropOperation
    <2> QED
        BY <1>4, <1>6, <2>1
<1>12. CASE StoreOutcome(w) \/ ReleasePod(w)
    <2>1. (\E d, ps, copy, p : Writes(w, d, ps, copy, p)) \/ (\E d : Leave(w, d))
        BY <1>12 DEF StoreOutcome, ReleasePod
    <2> QED
        BY <1>4, <1>5, <2>1
<1>13. CASE DeletePod(w)
    <2>1. \/ \E d : Leave(w, d)
          \/ \E d, p : Goes(w, d, p) /\ UNCHANGED pod
        BY <1>13 DEF DeletePod
    <2> QED
        BY <1>1, <1>4, <2>1
<1>14. CASE HandleError(w)
    <2>1. \E d, again : Return(w, d, again)
        BY <1>14 DEF HandleError
    <2> QED
        BY <1>3, <2>1
<1>15. CASE w = "item" /\ LibraryStep
    <2>1. \/ \E d, p : Accepted(w, d, p)
          \/ \E d : Leave(w, d)
          \/ \E d, again : Return(w, d, again)
        BY <1>15 DEF LibraryStep, Prepare, DropAnnotation, AddFinalizer, RemoveFinalizer
    <2> QED
        BY <1>3, <1>4, <1>6, <2>1
<1> QED
    BY <1>7, <1>8, <1>9, <1>10, <1>11, <1>12, <1>13, <1>14, <1>15 DEF Step

\* The environment leaves the runs alone or ends them.
LEMMA EnvironmentChanges ==
    ASSUME TypeInv,
           \/ \E i \in PodIds : Cluster(i)
           \/ Trigger \/ RequestDeletion \/ Timeout \/ Crash
    PROVE  /\ PodsChange
           /\ \/ UNCHANGED <<pc, pod, dl>>
              \/ \A w \in Workers : pc'[w] = "idle" /\ dl'[w] = Gone
           /\ di'.phase = "Succeeded" => di.phase = "Succeeded"
<1>0. di \in ItemType
    BY DEF TypeInv, TypeOK
<1>1. ASSUME NEW d, NEW ps, Written(d, ps)
      PROVE  di' = d /\ pods' = ps /\ UNCHANGED <<pc, pod, dl>>
    BY <1>1 DEF Written, Store
<1>2. ASSUME NEW i \in PodIds, Cluster(i)
      PROVE  PodsChange /\ UNCHANGED <<pc, pod, dl, di>>
    <2>1. CASE FinishPod(i) \/ ImageError(i)
        <3>1. PICK state \in {"succeeded", "failed", "stuck"} :
                  Written(di, [pods EXCEPT ![i].state = state])
            BY <2>1 DEF FinishPod, ImageError
        <3>2. pods[i].state = "running"
            BY <2>1 DEF FinishPod, ImageError
        <3> QED
            BY <1>1, <3>1, <3>2 DEF PodsChange
    <2>2. CASE Collect(i)
        <3>1. /\ pods' = [pods EXCEPT ![i] = IF @.fin THEN [@ EXCEPT !.fin = FALSE]
                                            ELSE [@ EXCEPT !.exists = FALSE]]
              /\ UNCHANGED <<pc, pod, dl, di>> /\ Collectable(i)
            BY <2>2 DEF Collect, Store
        <3> QED
            BY <3>1 DEF PodsChange
    <2> QED
        BY <1>2, <2>1, <2>2 DEF Cluster
<1>3. CASE Trigger
    <2> DEFINE d == [di EXCEPT !.gen = @ + 1, !.asked = TRUE]
    <2>1. d.phase = di.phase
        BY <1>0 DEF ItemType
    <2> HIDE DEF d
    <2>2. Written(d, pods)
        BY <1>3 DEF Trigger, d
    <2> QED
        BY <1>1, <2>1, <2>2 DEF PodsChange
<1>4. CASE RequestDeletion
    <2> DEFINE d == IF di.fin THEN [di EXCEPT !.del = TRUE, !.gen = @ + 1] ELSE Gone
    <2>1. d.phase = "Succeeded" => di.phase = "Succeeded"
        BY <1>0 DEF ItemType, Gone, NewItem, NoPhase
    <2> HIDE DEF d
    <2>2. Written(d, pods)
        BY <1>4 DEF RequestDeletion, d
    <2> QED
        BY <1>1, <2>1, <2>2 DEF PodsChange
<1>5. CASE Timeout
    <2>1. [di EXCEPT !.phase = "Failed"].phase = "Failed"
        BY <1>0 DEF ItemType
    <2> QED
        BY <1>1, <1>5, <2>1 DEF Timeout, PodsChange
<1>6. CASE Crash
    BY <1>6 DEF Crash, PodsChange
<1> QED
    BY <1>2, <1>3, <1>4, <1>5, <1>6

-----------------------------------------------------------------------------
(* The finalizer of the pods.                                              *)

\* A pod with a finalizer or a stored outcome has been started, and so has the
\* pod a worker stores the outcome of; at "releasePod" it is stored.
PodInv ==
    /\ \A i \in PodIds : pods[i].fin \/ pods[i].stored => Started(i)
    /\ \A w \in Workers : pc[w] \in {"storeOutcome", "releasePod"} =>
          pod[w] \in PodIds /\ Started(pod[w])
    /\ \A w \in Workers : pc[w] = "releasePod" => pods[pod[w]].stored

\* Pods come up, end, and lose their finalizer only after their outcome was
\* stored or when a younger one, or no item, is there.
LEMMA PodsEvolve ==
    ASSUME TypeInv, PodInv, PodsChange, NEW i \in PodIds
    PROVE  /\ Started(i) => Started(i)' /\ (pods[i].stored => pods'[i].stored)
           /\ pods[i].state = "succeeded" => pods'[i].state = "succeeded"
           /\ pods'[i].fin \/ pods'[i].stored => Started(i)'
           /\ pods[i].fin /\ ~pods'[i].fin => pods[i].stored \/ Collectable(i)
<1>0. pods \in [PodIds -> PodType] /\ pods[i] \in PodType /\ MaxPods \in Nat
    BY DEF TypeInv, TypeOK
<1>1. CASE pods' = pods
    BY <1>1 DEF PodInv, Started
<1>2. ASSUME NEW j \in PodIds, ~Started(j), pods' = [pods EXCEPT ![j] = NewPod]
      PROVE  /\ Started(i) => Started(i)' /\ (pods[i].stored => pods'[i].stored)
             /\ pods[i].state = "succeeded" => pods'[i].state = "succeeded"
             /\ pods'[i].fin \/ pods'[i].stored => Started(i)'
             /\ pods[i].fin => pods'[i].fin
    <2>1. CASE i = j
        <3>1. pods'[i] = NewPod
            BY <1>0, <1>2, <2>1
        <3> QED
            BY <1>0, <1>2, <2>1, <3>1 DEF PodInv, Started, NewPod
    <2>2. CASE i # j
        <3>1. pods'[i] = pods[i]
            BY <1>0, <1>2, <2>2
        <3> QED
            BY <3>1 DEF PodInv, Started
    <2> QED
        BY <2>1, <2>2
<1>3. ASSUME NEW w \in Workers, pc[w] = "storeOutcome",
             pods' = [pods EXCEPT ![pod[w]].stored = TRUE]
      PROVE  /\ pods'[i].state = pods[i].state /\ pods'[i].fin = pods[i].fin
             /\ pods[i].stored => pods'[i].stored
             /\ pods'[i].stored => Started(i)
    <2>1. CASE i = pod[w]
        BY <1>0, <1>3, <2>1 DEF PodInv, PodType
    <2>2. CASE i # pod[w]
        BY <1>0, <1>3, <2>2 DEF PodInv
    <2> QED
        BY <2>1, <2>2
<1>4. ASSUME NEW w \in Workers, pc[w] = "releasePod",
             pods' = [pods EXCEPT ![pod[w]].fin = FALSE]
      PROVE  /\ pods'[i].state = pods[i].state /\ pods'[i].stored = pods[i].stored
             /\ pods'[i].fin => pods[i].fin
             /\ pods[i].fin /\ ~pods'[i].fin => pods[i].stored
    <2>1. CASE i = pod[w]
        BY <1>0, <1>4, <2>1 DEF PodInv, PodType
    <2>2. CASE i # pod[w]
        BY <1>0, <1>4, <2>2
    <2> QED
        BY <2>1, <2>2
<1>5. ASSUME NEW w \in Workers, pods' = [pods EXCEPT ![pod[w]].exists = FALSE]
      PROVE  /\ pods'[i].state = pods[i].state /\ pods'[i].stored = pods[i].stored
             /\ pods'[i].fin = pods[i].fin
    BY <1>0, <1>5 DEF PodType
<1>6. ASSUME NEW j \in PodIds, NEW state \in {"succeeded", "failed", "stuck"},
             pods[j].state = "running", pods' = [pods EXCEPT ![j].state = state]
      PROVE  /\ Started(i) => Started(i)'
             /\ pods[i].state = "succeeded" => pods'[i].state = "succeeded"
             /\ pods'[i].stored = pods[i].stored /\ pods'[i].fin = pods[i].fin
    <2>1. CASE i = j
        <3>1. pods'[i] = [pods[i] EXCEPT !.state = state]
            BY <1>0, <1>6, <2>1
        <3> QED
            BY <1>0, <1>6, <2>1, <3>1 DEF PodType, Started
    <2>2. CASE i # j
        <3>1. pods'[i] = pods[i]
            BY <1>0, <1>6, <2>2
        <3> QED
            BY <3>1 DEF Started
    <2> QED
        BY <2>1, <2>2
<1>7. ASSUME NEW j \in PodIds, Collectable(j),
             pods' = [pods EXCEPT ![j] = IF @.fin THEN [@ EXCEPT !.fin = FALSE]
                                         ELSE [@ EXCEPT !.exists = FALSE]]
      PROVE  /\ pods'[i].state = pods[i].state /\ pods'[i].stored = pods[i].stored
             /\ pods'[i].fin => pods[i].fin
             /\ pods[i].fin /\ ~pods'[i].fin => Collectable(i)
    <2>1. CASE i = j
        <3>1. pods'[i] = IF pods[i].fin THEN [pods[i] EXCEPT !.fin = FALSE]
                         ELSE [pods[i] EXCEPT !.exists = FALSE]
            BY <1>0, <1>7, <2>1
        <3> QED
            BY <1>0, <1>7, <2>1, <3>1 DEF PodType
    <2>2. CASE i # j
        BY <1>0, <1>7, <2>2
    <2> QED
        BY <2>1, <2>2
<1>8. pods'[i].state = pods[i].state => Started(i)' = Started(i)
    BY DEF Started
<1>9. pods[i].fin \/ pods[i].stored => Started(i)
    BY DEF PodInv
<1>10. CASE \E w \in Workers : pc[w] = "storeOutcome" /\ pc'[w] = "releasePod"
                              /\ pods' = [pods EXCEPT ![pod[w]].stored = TRUE]
    BY <1>3, <1>8, <1>9, <1>10
<1>11. CASE \E w \in Workers : pc[w] = "releasePod"
                              /\ pods' = [pods EXCEPT ![pod[w]].fin = FALSE]
    BY <1>4, <1>8, <1>9, <1>11
<1>12. CASE \E w \in Workers : pods' = [pods EXCEPT ![pod[w]].exists = FALSE]
    BY <1>5, <1>8, <1>9, <1>12
<1>13. CASE \E j \in PodIds : \E state \in {"succeeded", "failed", "stuck"} :
               pods[j].state = "running" /\ pods' = [pods EXCEPT ![j].state = state]
    BY <1>6, <1>9, <1>13
<1>14. CASE \E j \in PodIds : Collectable(j) /\ pods' =
               [pods EXCEPT ![j] = IF @.fin THEN [@ EXCEPT !.fin = FALSE]
                                   ELSE [@ EXCEPT !.exists = FALSE]]
    BY <1>7, <1>8, <1>9, <1>14
<1>15. CASE \E j \in PodIds : ~Started(j) /\ pods' = [pods EXCEPT ![j] = NewPod]
    BY <1>2, <1>15
<1> QED
    BY <1>1, <1>10, <1>11, <1>12, <1>13, <1>14, <1>15 DEF PodsChange

LEMMA NextChanges ==
    ASSUME TypeInv, Next
    PROVE  PodsChange /\ \A w \in Workers : WorkerChange(w)
<1>1. ASSUME NEW v \in Workers, Step(v) PROVE PodsChange /\ \A w \in Workers : WorkerChange(w)
    BY <1>1, StepChanges, OtherWorker DEF WorkerChange
<1>2. CASE \/ \E i \in PodIds : Cluster(i)
           \/ Trigger \/ RequestDeletion \/ Timeout \/ Crash
    BY <1>2, EnvironmentChanges DEF WorkerChange
<1> QED
    BY <1>1, <1>2 DEF Next

LEMMA PodInit == Init => PodInv
BY DEF Init, PodInv, NoPod

LEMMA PodStep == TypeInv /\ PodInv /\ [Next]_vars => PodInv'
<1> SUFFICES ASSUME TypeInv, PodInv, [Next]_vars PROVE PodInv'
    OBVIOUS
<1>1. CASE UNCHANGED vars
    BY <1>1 DEF vars, PodInv, Started
<1>2. CASE Next
    <2>1. PodsChange /\ \A w \in Workers : WorkerChange(w)
        BY <1>2, NextChanges
    <2>2. \A i \in PodIds : pods'[i].fin \/ pods'[i].stored => Started(i)'
        BY <2>1, PodsEvolve
    <2>3. ASSUME NEW w \in Workers, pc'[w] \in {"storeOutcome", "releasePod"}
          PROVE  /\ pod'[w] \in PodIds /\ pods'[pod'[w]].state # "none"
                 /\ pc'[w] = "releasePod" => pods'[pod'[w]].stored
        <3>1. CASE pc'[w] = pc[w] /\ pod'[w] = pod[w]
            BY <2>1, <2>3, <3>1, PodsEvolve DEF PodInv, Started
        <3>2. CASE /\ pc'[w] = "storeOutcome" /\ pod'[w] = Latest /\ Latest # 0
                   /\ pods[Latest].state # "none" /\ pods' = pods
            BY <3>2, LatestIsYoungest
        <3>3. CASE /\ pc[w] = "storeOutcome" /\ pc'[w] = "releasePod" /\ pod'[w] = pod[w]
                   /\ pods' = [pods EXCEPT ![pod[w]].stored = TRUE]
            <4>1. pods \in [PodIds -> PodType] /\ pod[w] \in PodIds
                BY <3>3 DEF PodInv, TypeInv, TypeOK
            <4>2. pods'[pod[w]].stored
                BY <3>3, <4>1 DEF PodType
            <4>3. pods'[pod[w]].state # "none"
                BY <2>1, <3>3, <4>1, PodsEvolve DEF PodInv, Started
            <4> QED
                BY <3>3, <4>1, <4>2, <4>3
        <3> QED
            BY <2>1, <2>3, <3>1, <3>2, <3>3 DEF WorkerChange
    <2> QED
        BY <2>2, <2>3 DEF PodInv, Started
<1> QED
    BY <1>1, <1>2

\* While its item lives, a pod loses its finalizer only when its outcome has
\* been stored or a younger pod was started: CleanupPod and the garbage
\* collector, for any number of pods, events and conflicts.
THEOREM OutcomeIsRecorded == Spec => LastOutcomeIsRecorded
<1>1. ASSUME TypeInv, PodInv, [Next]_vars
      PROVE  [\A i \in PodIds : pods[i].fin /\ ~pods'[i].fin /\ di.live =>
                 pods[i].stored \/ \E j \in PodIds : j > i /\ Started(j)]_vars
    <2> SUFFICES ASSUME Next, NEW i \in PodIds, pods[i].fin, ~pods'[i].fin, di.live,
                        ~pods[i].stored
                 PROVE  \E j \in PodIds : j > i /\ Started(j)
        BY <1>1
    <2>1. Collectable(i)
        BY <1>1, NextChanges, PodsEvolve
    <2>2. i # Latest
        BY <2>1 DEF Collectable
    <2>3. /\ MaxPods \in Nat /\ Latest \in 0..MaxPods /\ Latest >= i /\ i \in 1..MaxPods
          /\ Latest # 0 => Latest \in PodIds /\ pods[Latest].fin
        BY LatestIsYoungest DEF PodIds
    <2>4. Latest > i /\ Latest # 0
        BY <2>2, <2>3
    <2>5. Latest \in PodIds /\ Started(Latest)
        BY <1>1, <2>3, <2>4 DEF PodInv
    <2> QED
        BY <2>4, <2>5
<1> QED
    BY <1>1, TypeInit, TypeStep, PodInit, PodStep, PTL DEF Spec, LastOutcomeIsRecorded

-----------------------------------------------------------------------------
(* Success.                                                                *)

HasSucceeded == \E i \in PodIds : pods[i].state = "succeeded"
Sound(d) == d.phase = "Succeeded" => HasSucceeded

\* An item that is Succeeded, stored or in a copy, has a pod that succeeded.
SuccessInv ==
    Sound(di) /\ \A w \in Workers : Sound(dl[w])

\* What a step writes to the item, and to the copy of its worker, is sound if
\* the item and the copies were.
LEMMA StepIsSound ==
    ASSUME TypeInv, SuccessInv, NEW w \in Workers, Step(w)
    PROVE  Sound(di') /\ Sound(dl'[w])
<1>0. /\ dl \in [Workers -> ItemType] /\ di \in ItemType /\ dl[w] \in ItemType
      /\ "item" \in Workers /\ Sound(di) /\ Sound(dl[w]) /\ Sound(dl["item"])
    BY DEF TypeInv, TypeOK, SuccessInv
<1> DEFINE Good == Sound(di') /\ Sound(dl'[w])
<1>1. Sound(Gone)
    BY DEF Sound, Gone, NewItem, NoPhase
<1>2. ASSUME NEW d, NEW p, Goes(w, d, p) PROVE dl'[w] = d
    BY <1>0, <1>2 DEF Goes
<1>3. ASSUME NEW d, Sound(d), NEW again, Return(w, d, again) PROVE Good
    BY <1>1, <1>2, <1>3 DEF Return, Store
<1>4. ASSUME NEW d, Sound(d), Leave(w, d) PROVE Good
    BY <1>0, <1>2, <1>4 DEF Leave, Store
<1>5. ASSUME NEW d, NEW ps, NEW copy, NEW p, Sound(d), Sound(copy),
             Writes(w, d, ps, copy, p)
      PROVE  Good
    BY <1>2, <1>5 DEF Writes, Store
<1>6. ASSUME NEW d, NEW p, Sound(d), Accepted(w, d, p) PROVE Good
    BY <1>5, <1>6 DEF Accepted
<1>7. \A d \in ItemType : \A phase \in {"Init", "Progressing", "Deleting", "Failed"} :
          Sound([d EXCEPT !.phase = phase])
    BY DEF Sound, ItemType
<1>8. CASE Get(w)
    BY <1>0, <1>2, <1>8 DEF Get
<1>9. CASE Look(w)
    <2> DEFINE state == IF Latest = 0 THEN "none" ELSE pods[Latest].state
    <2>1. /\ di' = di
          /\ \/ StillRunning(w, state) \/ CannotStart(w, state)
             \/ BeginPod(w, state) \/ NothingToDo(w, state) \/ Complete(w, state)
        BY <1>9 DEF Look
    <2>2. state = "succeeded" => HasSucceeded
        BY LatestIsYoungest DEF HasSucceeded
    <2> HIDE DEF state
    <2>3. Sound([dl[w] EXCEPT !.phase = Outcome(state)])
        BY <1>0, <2>2 DEF Sound, Outcome, ItemType
    <2>4. Sound(dl'[w])
        <3>1. CASE StillRunning(w, state)
            BY <1>0, <1>2, <1>7, <3>1 DEF StillRunning
        <3>2. CASE CannotStart(w, state)
            BY <1>0, <1>2, <1>7, <3>2 DEF CannotStart
        <3>3. CASE BeginPod(w, state)
            BY <1>0, <1>2, <3>3 DEF BeginPod, Fails
        <3>4. CASE NothingToDo(w, state)
            BY <1>0, <1>2, <3>4 DEF NothingToDo
        <3>5. CASE Complete(w, state)
            BY <1>0, <1>2, <2>3, <3>5 DEF Complete, Fails
        <3> QED
            BY <2>1, <3>1, <3>2, <3>3, <3>4, <3>5
    <2> QED
        BY <1>0, <2>1, <2>4
<1>10. CASE CreatePod(w)
    <2>1. di' = di /\ dl'[w] = dl[w]
        BY <1>2, <1>10 DEF CreatePod, Leave, Store
    <2> QED
        BY <1>0, <2>1
<1>11. CASE PatchStatus(w)
    <2> DEFINE phase == IF w = "item" /\ dl[w].del THEN "Deleting" ELSE "Progressing"
               d == [di EXCEPT !.phase = IF phase = old[w].phase THEN @ ELSE phase,
                               !.obs = IF dl[w].obs = old[w].obs THEN @ ELSE dl[w].obs]
    <2>1. phase \in {"Init", "Progressing", "Deleting", "Failed"}
        OBVIOUS
    <2> HIDE DEF phase
    <2>2. Sound(d)
        BY <1>0, <2>1 DEF Sound, ItemType
    <2> DEFINE copy == [d EXCEPT !.del = dl[w].del]
    <2>6. Sound(copy)
        BY <1>0, <2>2 DEF Sound, ItemType
    <2> HIDE DEF d, copy
    <2>3. \/ Goes(w, copy, IF d.asked THEN "dropOperation" ELSE Done(w, copy))
             /\ Store(w, d, pods, "patched")
          \/ Leave(w, [dl[w] EXCEPT !.phase = phase])
        BY <1>11 DEF PatchStatus, phase, d, copy
    <2>4. CASE Leave(w, [dl[w] EXCEPT !.phase = phase])
        BY <1>0, <1>4, <1>7, <2>1, <2>4
    <2>5. CASE Goes(w, copy, IF d.asked THEN "dropOperation" ELSE Done(w, copy))
               /\ Store(w, d, pods, "patched")
        BY <1>2, <2>2, <2>5, <2>6 DEF Store
    <2> QED
        BY <2>3, <2>4, <2>5
<1>12. CASE DropOperation(w)
    <2>1. Sound([di EXCEPT !.asked = FALSE])
        BY <1>0 DEF Sound, ItemType
    <2> QED
        BY <1>0, <1>4, <1>6, <1>12, <2>1 DEF DropOperation
<1>13. CASE StoreOutcome(w)
    <2> DEFINE d == [di EXCEPT !.phase = dl[w].phase]
    <2>1. Sound(d)
        BY <1>0 DEF Sound, ItemType
    <2> HIDE DEF d
    <2>2. Leave(w, dl[w]) \/ \E ps : Writes(w, d, ps, d, "releasePod")
        BY <1>13 DEF StoreOutcome, d
    <2> QED
        BY <1>0, <1>4, <1>5, <2>1, <2>2
<1>14. CASE ReleasePod(w)
    <2>1. Leave(w, dl[w]) \/ \E ps : Writes(w, di, ps, dl[w], "deletePod")
        BY <1>14 DEF ReleasePod
    <2> QED
        BY <1>0, <1>4, <1>5, <2>1
<1>15. CASE DeletePod(w)
    <2>1. di' = di /\ dl'[w] = dl[w]
        BY <1>2, <1>15 DEF DeletePod, Leave, Store
    <2> QED
        BY <1>0, <2>1
<1>16. CASE HandleError(w)
    <2> DEFINE d == [di EXCEPT !.phase = dl[w].phase]
    <2>1. Sound(d)
        BY <1>0 DEF Sound, ItemType
    <2> HIDE DEF d
    <2>2. Return(w, d, err[w]) \/ Return(w, di, err[w])
        BY <1>16 DEF HandleError, d
    <2> QED
        BY <1>0, <1>3, <2>1, <2>2
<1>17. CASE w = "item" /\ LibraryStep
    <2>1. CASE Prepare
        <3> DEFINE d == [di EXCEPT !.obs = di.gen, !.phase = "Init"]
        <3>1. Sound(d)
            BY <1>0 DEF Sound, ItemType
        <3> HIDE DEF d
        <3>2. Return("item", di, TRUE) \/ \E p : Accepted("item", d, p)
            BY <2>1 DEF Prepare, d
        <3> QED
            BY <1>0, <1>3, <1>6, <1>17, <3>1, <3>2
    <2>2. CASE DropAnnotation \/ AddFinalizer
        <3>1. Sound([di EXCEPT !.asked = FALSE]) /\ Sound([di EXCEPT !.fin = TRUE])
            BY <1>0 DEF Sound, ItemType
        <3>2. \/ Return("item", di, TRUE) \/ Leave("item", dl["item"])
              \/ \E p : Accepted("item", [di EXCEPT !.asked = FALSE], p)
              \/ \E p : Accepted("item", [di EXCEPT !.fin = TRUE], p)
            BY <2>2 DEF DropAnnotation, AddFinalizer
        <3> QED
            BY <1>0, <1>3, <1>4, <1>6, <1>17, <3>1, <3>2
    <2>3. CASE RemoveFinalizer
        <3>1. Leave("item", dl["item"]) \/ \E p : Accepted("item", Gone, p)
            BY <2>3 DEF RemoveFinalizer
        <3> QED
            BY <1>0, <1>1, <1>4, <1>6, <1>17, <3>1
    <2> QED
        BY <1>17, <2>1, <2>2, <2>3 DEF LibraryStep
<1> QED
    BY <1>8, <1>9, <1>10, <1>11, <1>12, <1>13, <1>14, <1>15, <1>16, <1>17 DEF Step

LEMMA SuccessInit == Init => SuccessInv
<1>1. NewItem.phase = NoPhase /\ Gone.phase = NoPhase
    BY DEF NewItem, Gone
<1>2. NoPhase # "Succeeded"
    BY DEF NoPhase
<1>3. Init => di = NewItem /\ \A w \in Workers : dl[w] = Gone
    BY DEF Init
<1> QED
    BY <1>1, <1>2, <1>3 DEF SuccessInv, Sound

\* A pod that has succeeded stays so.
LEMMA SuccessLasts ==
    ASSUME TypeInv, PodInv, Next, HasSucceeded
    PROVE  HasSucceeded'
BY NextChanges, PodsEvolve DEF HasSucceeded

LEMMA SuccessStep ==
    ASSUME TypeInv, PodInv, SuccessInv, [Next]_vars
    PROVE  SuccessInv'
<1>1. CASE UNCHANGED vars
    BY <1>1 DEF vars, SuccessInv, Sound, HasSucceeded
<1>2. CASE Next
    <2>1. /\ di'.phase = "Succeeded" => HasSucceeded
          /\ \A w \in Workers : dl'[w].phase = "Succeeded" => HasSucceeded
        <3>1. ASSUME NEW w \in Workers, Step(w)
              PROVE  /\ di'.phase = "Succeeded" => HasSucceeded
                     /\ \A v \in Workers : dl'[v].phase = "Succeeded" => HasSucceeded
            <4>1. Sound(di') /\ Sound(dl'[w])
                BY <3>1, StepIsSound
            <4>2. \A v \in Workers \ {w} : dl'[v] = dl[v]
                BY <3>1, OtherWorker
            <4> QED
                BY <4>1, <4>2 DEF Sound, SuccessInv
        <3>2. CASE \/ \E i \in PodIds : Cluster(i)
                   \/ Trigger \/ RequestDeletion \/ Timeout \/ Crash
            BY <3>2, EnvironmentChanges DEF SuccessInv, Sound, Gone, NewItem, NoPhase
        <3> QED
            BY <1>2, <3>1, <3>2 DEF Next
    <2> QED
        BY <1>2, <2>1, SuccessLasts DEF SuccessInv, Sound
<1> QED
    BY <1>1, <1>2

\* The item becomes Succeeded only if one of its pods has succeeded, although
\* two controllers store the phase from copies they have read earlier and
\* the timeouts write it too.
THEOREM SuccessIsOfAPod == Spec => SuccessComesFromPod
<1>1. ASSUME TypeInv, PodInv, SuccessInv, SuccessInv', [Next]_vars
      PROVE  [di'.live /\ di'.phase = "Succeeded" /\ di.phase # "Succeeded" =>
                 \E i \in PodIds : pods[i].state = "succeeded"]_vars
    <2> SUFFICES ASSUME Next, di'.phase = "Succeeded" PROVE HasSucceeded
        BY <1>1 DEF HasSucceeded
    <2>1. CASE \E w \in Workers : Step(w)
        BY <1>1, <2>1, StepIsSound DEF Sound
    <2>2. CASE \/ \E i \in PodIds : Cluster(i)
               \/ Trigger \/ RequestDeletion \/ Timeout \/ Crash
        BY <1>1, <2>2, EnvironmentChanges DEF SuccessInv, Sound
    <2> QED
        BY <2>1, <2>2 DEF Next
<1> QED
    BY <1>1, TypeInit, TypeStep, PodInit, PodStep, SuccessInit, SuccessStep, PTL
       DEF Spec, SuccessComesFromPod
=============================================================================
