----------------------------- MODULE MCRulesSync -----------------------------
(* Instances of RulesSync for TLC. *)
EXTENDS RulesSync

CONSTANTS c1, c2, c3, c4

\* c1 <- c2 <- c4, and c3 beside c2: a branch forced from c2 to c3.
Tree ==
  {<<c, c>> : c \in {c1, c2, c3, c4}}
    \cup {<<c1, c2>>, <<c1, c3>>, <<c1, c4>>, <<c2, c4>>}

\* The branch moves forward, or is forced aside, and never back.
Onward == {<<c1, c2>>, <<c2, c3>>, <<c2, c4>>}

\* A straight line of commits for the runs that need no more.
Forward == {<<c1, c2>>}

Packs == [c \in Commit |-> IF c = c4 THEN "invalid" ELSE "valid"]
=============================================================================
