----------------------------- MODULE PhaseLoop ------------------------------
(***************************************************************************)
(* The two ways in which the controllers combine the phases of a list of   *)
(* objects: one call of CombinedInstallationPhase with all of them, whose  *)
(* loop is followed here phase by phase, and the phase that                *)
(* Operation.Reconcile of the execution accumulates with one call per      *)
(* deploy item.  Both are compared with CombinedPhase, the definition the  *)
(* other modules use.                                                      *)
(*                                                                         *)
(* Translated from apis/core/v1alpha1/helper/helpers.go and                *)
(* pkg/landscaper/execution/reconcile.go.                                  *)
(***************************************************************************)
EXTENDS Phases

VARIABLES
    met,    \* the phases of the objects met so far
    flags,  \* the local variables of the loop, and whether it has returned
    acc     \* the phase accumulated by Operation.Reconcile

vars == <<met, flags, acc>>

NoFlags ==
    [failed |-> FALSE, aborted |-> FALSE, init |-> FALSE, empty |-> TRUE,
     returned |-> FALSE]

\* Mutant: a succeeded object does not count as one with a phase.
MutantLoopBody(f, p) ==
    IF f.returned THEN f
    ELSE IF p \in RunningPhases THEN [f EXCEPT !.returned = TRUE]
    ELSE [f EXCEPT !.failed = @ \/ p = "Failed",
                   !.aborted = @ \/ p = "Aborted",
                   !.init = @ \/ p = "Init",
                   !.empty = @ /\ p \notin {"Failed", "Aborted", "Init"}]

\* The switch in the loop of CombinedInstallationPhase.
LoopBody(f, p) ==
    IF f.returned THEN f
    ELSE IF p \in RunningPhases THEN [f EXCEPT !.returned = TRUE]
    ELSE [f EXCEPT !.failed = @ \/ p = "Failed",
                   !.aborted = @ \/ p = "Aborted",
                   !.init = @ \/ p = "Init",
                   !.empty = @ /\ p \notin CompletedPhases \cup {"Init"}]

\* What it returns after the phases met so far.
LoopResult(f) ==
    IF f.returned THEN "Progressing"
    ELSE IF f.aborted THEN "Aborted"
    ELSE IF f.failed THEN "Failed"
    ELSE IF f.init THEN "Init"
    ELSE IF f.empty THEN NoPhase
    ELSE "Succeeded"

\* Mutant: an object without a phase hides the others.
MutantAccumulate(phase, p) ==
    IF p = NoPhase THEN NoPhase ELSE CombinedPhase({phase, p})

\* phase = CombinedExecutionPhase(phase, item.Status.Phase)
Accumulate(phase, p) == CombinedPhase({phase, p})

Init == met = {} /\ flags = NoFlags /\ acc = NoPhase

Meet(p) ==
    /\ met' = met \cup {p}
    /\ flags' = LoopBody(flags, p)
    /\ acc' = Accumulate(acc, p)

Next == \E p \in Phase : Meet(p)

Spec == Init /\ [][Next]_vars

\* The call with all phases returns the combined phase, in whichever order the
\* objects are listed (CombinedInstallationPhase).
LoopCombines == LoopResult(flags) = CombinedPhase(met)

\* So does one call per object: an execution reaches the same phase when its
\* Reconcile follows its deploy items one by one as when
\* HandleDeployItemPhaseAndGenerationChanges looks at all of them again.
AccumulationCombines == acc = CombinedPhase(met)
=============================================================================
