-------------------------- MODULE DeployerContract --------------------------
(***************************************************************************)
(* What the landscaper relies on when it hands a deploy item to a          *)
(* deployer, whatever the deployer does and whoever else writes the item:  *)
(* the abstract specification of a deploy item, which DeployItem           *)
(* implements.                                                             *)
(*                                                                         *)
(* The phases and their meaning are those of DeployItemStatus and of       *)
(* HandleAnnotationsAndGeneration and ShouldReconcile in                   *)
(* pkg/deployer/lib/utils.go.                                              *)
(***************************************************************************)
EXTENDS Phases

VARIABLES
    live,       \* the deploy item exists
    leaving,    \* it has a deletion timestamp
    phase,      \* its phase
    asked,      \* there is work to do: a request, a new generation, a schedule
    other,      \* the operation annotation asks for something else
    announced,  \* the landscaper waits for it to be picked up
    applied,    \* what the present spec describes is deployed
    clean       \* nothing that the status lists is deployed

vars == <<live, leaving, phase, asked, other, announced, applied, clean>>

Working == {"Init", "Progressing", "Deleting"}

Init ==
    /\ live = TRUE /\ leaving = FALSE /\ phase = NoPhase
    /\ asked = TRUE /\ other = FALSE /\ announced = TRUE
    /\ applied = FALSE /\ clean = TRUE

\* The landscaper, a user or a schedule writes the annotations or the spec, or
\* the deployer takes the annotations away.  A request disappears only after
\* the item was started or when another operation replaces it, and a new spec
\* always comes with a request.
Annotate ==
    /\ live
    /\ (leaving => leaving')
    /\ (asked /\ ~asked' => phase = "Init" \/ other')
    /\ (applied' # applied => asked')
    /\ UNCHANGED <<live, phase, clean>>

\* A deployer turns to an item when there is something to do.
Start ==
    /\ live /\ asked
    /\ phase' = "Init"
    /\ UNCHANGED <<live, leaving, other, applied, clean>>

\* It works on it in one of the working phases.  A deployer that was overtaken
\* by a timeout may go on for a while; what a Succeeded item describes is left
\* alone unless the item is about to go.
Work ==
    /\ (live => phase # "Succeeded" \/ leaving)
    /\ UNCHANGED <<live, leaving, phase, asked, other, announced>>

Report ==
    /\ live /\ phase \in Working /\ phase' \in Working
    /\ UNCHANGED <<live, leaving, asked, other, announced, applied>>

\* Success is reported from the work and only for what is deployed.
Succeed ==
    /\ live /\ phase \in Working /\ (applied \/ leaving)
    /\ phase' = "Succeeded"
    /\ UNCHANGED <<live, leaving, asked, other, announced, applied>>

\* Failure is reported from the work or when nobody has started it.
Fail ==
    /\ live /\ (phase \notin {"Succeeded", "Failed"} \/ asked \/ announced)
    /\ phase' = "Failed"
    /\ UNCHANGED <<live, leaving, asked, other, announced, applied>>

\* The item goes away when what its status lists is gone.
Remove ==
    /\ live /\ clean
    /\ ~live'

Next ==
    Annotate \/ Start \/ Work \/ Report \/ Succeed \/ Fail \/ Remove

Spec == Init /\ [][Next]_vars
=============================================================================
