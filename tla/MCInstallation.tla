--------------------------- MODULE MCInstallation ---------------------------
(* Forests of installations for TLC.                                       *)
EXTENDS Installation

\* Two roots, the second imports what the first exports.
ChainInsts == {"a", "b"}
ChainParent == [i \in ChainInsts |-> "root"]
ChainRank == [i \in ChainInsts |-> 1]
ChainImports == [i \in ChainInsts |-> IF i = "a" THEN {"u"} ELSE {"y"}]
ChainExports == [i \in ChainInsts |-> IF i = "a" THEN {"y"} ELSE {}]

\* A root with a subinstallation whose export it passes on to another root.
TreeInsts == {"p", "s", "d"}
TreeParent == [i \in TreeInsts |-> IF i = "s" THEN "p" ELSE "root"]
TreeRank == [i \in TreeInsts |-> 1]
TreeImports == [i \in TreeInsts |-> IF i = "d" THEN {"y"} ELSE {"u"}]
TreeExports == [i \in TreeInsts |-> IF i = "d" THEN {} ELSE {"y"}]

\* A root with two subinstallations, the second imports from the first, which
\* is also the first of the blueprint.
PairInsts == {"p", "s", "t"}
PairParent == [i \in PairInsts |-> IF i = "p" THEN "root" ELSE "p"]
PairRank == [i \in PairInsts |-> IF i = "s" THEN 1 ELSE 2]
PairImports == [i \in PairInsts |-> IF i = "t" THEN {"y"} ELSE {"u"}]
PairExports == [i \in PairInsts |-> IF i = "s" THEN {"y"} ELSE {}]
=============================================================================
