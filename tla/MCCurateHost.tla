------------------------------ MODULE MCCurateHost ------------------------------
\* Instances of CurateHost for TLC.
EXTENDS CurateHost, TLC

CONSTANTS t1, t2, s1, s2

Numbered == [a \in Activity |-> a]

\* Nothing but sets of topic keys and statements is in a value of the model.
DataSymmetry == Permutations(Topics) \cup Permutations(Statements)
===============================================================================
