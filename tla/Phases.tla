------------------------------- MODULE Phases -------------------------------
(***************************************************************************)
(* The phases that installations, executions and deploy items report in    *)
(* their status, and the two functions every controller computes on them:  *)
(* the combined phase of several objects and the phase an object takes on  *)
(* because of an error that does not go away.                              *)
(*                                                                         *)
(* Translated from apis/core/v1alpha1/helper/helpers.go and                *)
(* apis/errors/error.go.                                                   *)
(***************************************************************************)

\* The empty phase of an object no controller has handled yet.
NoPhase == ""

\* IsProgressingInstallationPhase
RunningPhases == {"Progressing", "Pending", "Deleting"}

\* IsCompletedInstallationPhase, IsCompletedExecutionPhase
CompletedPhases == {"Failed", "Aborted", "Succeeded"}

Phase == RunningPhases \cup CompletedPhases \cup {"Init", NoPhase}

IsCompleted(p) == p \in CompletedPhases

\* CombinedInstallationPhase and CombinedExecutionPhase. The loop of the code
\* only remembers which phases it met, so a set of phases is all it depends on.
CombinedPhase(phases) ==
    IF phases \cap RunningPhases # {} THEN "Progressing"
    ELSE IF "Aborted" \in phases THEN "Aborted"
    ELSE IF "Failed" \in phases THEN "Failed"
    ELSE IF "Init" \in phases THEN "Init"
    ELSE IF phases \subseteq {NoPhase} THEN NoPhase
    ELSE "Succeeded"

\* What status.lastError tells GetPhaseForLastError: there is none, there is
\* one, there is one whose last update lies more than five minutes after its
\* last transition, or one that carries an unrecoverable error code.
LastErrors == {"none", "recent", "lasting", "unrecoverable"}

\* Mutant: the reason is returned instead of a phase.
MutantPhaseForLastError(phase, lastError) ==
    IF lastError = "none" THEN phase ELSE lastError

\* GetPhaseForLastError
PhaseForLastError(phase, lastError) ==
    IF lastError = "none" THEN phase
    ELSE IF phase = NoPhase \/ lastError \in {"lasting", "unrecoverable"}
         THEN "Failed"
    ELSE phase

=============================================================================
