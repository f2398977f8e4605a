-------------------------- MODULE PhaseLoopProofs ---------------------------
(***************************************************************************)
(* Both ways of combining phases compute CombinedPhase, for lists of any   *)
(* length and in any order.  The invariant says what the local variables   *)
(* of the loop remember of the phases met.                                 *)
(***************************************************************************)
EXTENDS PhaseLoop, TLAPS

Flags ==
    [failed : BOOLEAN, aborted : BOOLEAN, init : BOOLEAN, empty : BOOLEAN,
     returned : BOOLEAN]

\* The flags record which phases were met, until the loop returns.
Remembered ==
    /\ flags.returned <=> met \cap RunningPhases # {}
    /\ ~flags.returned =>
          /\ flags.failed <=> "Failed" \in met
          /\ flags.aborted <=> "Aborted" \in met
          /\ flags.init <=> "Init" \in met
          /\ flags.empty <=> met \subseteq {NoPhase}

LoopInv == met \subseteq Phase /\ flags \in Flags /\ Remembered

\* One more phase in the loop.
LEMMA LoopStep == ASSUME LoopInv, NEW p \in Phase, Meet(p) PROVE LoopInv'
<1> USE DEF LoopInv
<1>1. met' = met \cup {p} /\ flags' = LoopBody(flags, p)
  BY DEF Meet
<1>2. CASE flags.returned
  BY <1>1, <1>2 DEF LoopBody, Remembered
<1>3. CASE ~flags.returned /\ p \in RunningPhases
  <2>1. flags' = [flags EXCEPT !.returned = TRUE]
    BY <1>1, <1>3 DEF LoopBody
  <2>2. flags' \in Flags /\ flags'.returned
    BY <2>1 DEF Flags
  <2> QED BY <1>1, <1>3, <2>2 DEF Remembered
<1>4. CASE ~flags.returned /\ p \notin RunningPhases
  <2>1. flags' = [flags EXCEPT !.failed = @ \/ p = "Failed",
                               !.aborted = @ \/ p = "Aborted",
                               !.init = @ \/ p = "Init",
                               !.empty = @ /\ p \notin CompletedPhases \cup {"Init"}]
    BY <1>1, <1>4 DEF LoopBody
  <2>2. /\ flags' \in Flags
        /\ flags'.returned <=> flags.returned
        /\ flags'.failed <=> flags.failed \/ p = "Failed"
        /\ flags'.aborted <=> flags.aborted \/ p = "Aborted"
        /\ flags'.init <=> flags.init \/ p = "Init"
        /\ flags'.empty <=> flags.empty /\ p \notin CompletedPhases \cup {"Init"}
    BY <2>1 DEF Flags
  <2>3. p \notin CompletedPhases \cup {"Init"} <=> p = NoPhase
    BY <1>4 DEF Phase, CompletedPhases, NoPhase
  <2> QED BY <1>1, <1>4, <2>2, <2>3 DEF Remembered
<1> QED BY <1>2, <1>3, <1>4

\* Combining a combined phase with one more phase is combining them all.
LEMMA CombinedIsAssociative ==
    ASSUME NEW S \in SUBSET Phase, NEW p \in Phase
    PROVE  CombinedPhase({CombinedPhase(S), p}) = CombinedPhase(S \cup {p})
<1> DEFINE c == CombinedPhase(S)
<1>1. CASE S \cap RunningPhases # {}
  <2>1. c = "Progressing" /\ (S \cup {p}) \cap RunningPhases # {}
    BY <1>1 DEF CombinedPhase
  <2>2. {c, p} \cap RunningPhases # {}
    BY <2>1 DEF RunningPhases
  <2> QED BY <2>1, <2>2 DEF CombinedPhase
<1>2. CASE S \cap RunningPhases = {}
  <2>1. /\ c = IF "Aborted" \in S THEN "Aborted"
               ELSE IF "Failed" \in S THEN "Failed"
               ELSE IF "Init" \in S THEN "Init"
               ELSE IF S \subseteq {NoPhase} THEN NoPhase
               ELSE "Succeeded"
    BY <1>2 DEF CombinedPhase
  <2>2. c \notin RunningPhases
    BY <2>1 DEF RunningPhases, NoPhase
  <2>3. {c, p} \cap RunningPhases # {} <=> (S \cup {p}) \cap RunningPhases # {}
    BY <1>2, <2>2
  <2>4. "Aborted" \in {c, p} <=> "Aborted" \in S \cup {p}
    BY <2>1 DEF NoPhase
  <2>5. "Aborted" \notin {c, p} => ("Failed" \in {c, p} <=> "Failed" \in S \cup {p})
    BY <2>1 DEF NoPhase
  <2>6. "Aborted" \notin {c, p} /\ "Failed" \notin {c, p} =>
           ("Init" \in {c, p} <=> "Init" \in S \cup {p})
    BY <2>1 DEF NoPhase
  <2>7. {c, p} \cap {"Aborted", "Failed", "Init"} = {} =>
           ({c, p} \subseteq {NoPhase} <=> S \cup {p} \subseteq {NoPhase})
    BY <2>1 DEF NoPhase
  <2> HIDE DEF c
  <2>8. CombinedPhase({c, p}) = CombinedPhase(S \cup {p})
    BY <2>3, <2>4, <2>5, <2>6, <2>7 DEF CombinedPhase
  <2> QED BY <2>8 DEF c
<1> QED BY <1>1, <1>2

\* The loop of CombinedInstallationPhase returns the combined phase of every
\* list of phases.
THEOREM LoopIsCorrect == Spec => []LoopCombines
<1>1. Init => LoopInv
  <2> SUFFICES ASSUME Init PROVE LoopInv
    OBVIOUS
  <2>1. met = {} /\ flags = NoFlags
    BY DEF Init
  <2>2. flags \in Flags /\ ~flags.returned /\ ~flags.failed /\ ~flags.aborted
        /\ ~flags.init /\ flags.empty
    BY <2>1 DEF NoFlags, Flags
  <2> QED BY <2>1, <2>2 DEF LoopInv, Remembered
<1>2. LoopInv /\ [Next]_vars => LoopInv'
  <2>1. LoopInv /\ UNCHANGED vars => LoopInv'
    BY DEF LoopInv, Remembered, vars
  <2> QED BY <2>1, LoopStep DEF Next
<1>3. LoopInv => LoopCombines
  BY DEF LoopInv, Remembered, LoopCombines, LoopResult, CombinedPhase
<1> QED BY <1>1, <1>2, <1>3, PTL DEF Spec

\* Accumulating the phases one by one, as Operation.Reconcile does, gives the
\* combined phase of all of them.
THEOREM AccumulationIsCorrect == Spec => []AccumulationCombines
<1> DEFINE I == met \subseteq Phase /\ AccumulationCombines
<1>1. Init => I
  BY DEF Init, AccumulationCombines, CombinedPhase
<1>2. I /\ [Next]_vars => I'
  <2>1. I /\ UNCHANGED vars => I'
    BY DEF AccumulationCombines, vars
  <2>2. ASSUME I, NEW p \in Phase, Meet(p) PROVE I'
    BY <2>2, CombinedIsAssociative DEF Meet, Accumulate, AccumulationCombines
  <2> QED BY <2>1, <2>2 DEF Next
<1> QED BY <1>1, <1>2, PTL DEF Spec
=============================================================================
