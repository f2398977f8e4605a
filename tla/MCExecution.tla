----------------------------- MODULE MCExecution -----------------------------
(* Instances of Execution for TLC: two templates, the second depending on  *)
(* the first or not.                                                       *)
EXTENDS Execution

CONSTANTS a, b

MCNames == {a, b}
MCOrder == <<a, b>>
MCChain == [t \in MCNames |-> IF t = b THEN {a} ELSE {}]
MCIndependent == [t \in MCNames |-> {}]
=============================================================================
