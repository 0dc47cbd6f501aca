--------------------------- MODULE MCSessionCurator ---------------------------
(***************************************************************************)
(* Constants for the model checking of SessionCurator.                     *)
(***************************************************************************)
EXTENDS SessionCurator, TLC

NoMessages == {}

\* Every message is versioned by its stream position.
PositionVersions == [m \in Message |-> NoSeq]

\* The consumer's activity order disagrees with the order of arrival.
ShuffledVersions == [m \in Message |-> IF m = 1 THEN 3 ELSE IF m = 2 THEN 1 ELSE 2]

\* The first message carries an activity order, the others their position.
MixedVersions == [m \in Message |-> IF m = 1 THEN 3 ELSE NoSeq]

OneForced == {TRUE}
BothForces == {TRUE, FALSE}
FirstMessage == {1}
LastMessage == {MaxMessages}
DataSymmetry == Permutations(Topics) \cup Permutations(Statements)
=============================================================================
