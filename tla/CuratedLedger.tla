---------------------------- MODULE CuratedLedger ----------------------------
(***************************************************************************)
(* What a session's curated memory promises its readers: messages arrive,  *)
(* the curator takes them in order in whole batches, and a batch and the   *)
(* memories learnt from it become visible in one step.  Each topic of each *)
(* kind class (lesson or not) has at most one current memory, whose        *)
(* version never goes back.                                                *)
(***************************************************************************)
EXTENDS Integers

CONSTANTS Topics, Statements

VARIABLES
    arrived,    \* messages in the stream
    consumed,   \* messages taken from its front
    current     \* the current memory of each topic and kind class

vars == <<arrived, consumed, current>>

Key == Topics \X BOOLEAN
Memory == [statement: Statements, version: Nat]
Unknown == [statement |-> "unknown"]

Init ==
    /\ arrived = 0
    /\ consumed = 0
    /\ current = [k \in Key |-> Unknown]

Arrive ==
    /\ arrived' = arrived + 1
    /\ UNCHANGED <<consumed, current>>

Renews(old, new) == new \in Memory /\ (old = Unknown \/ old.version <= new.version)

\* A batch may be given up: then it changes no memory.
Consume ==
    /\ consumed < consumed' /\ consumed' <= arrived
    /\ DOMAIN current' = Key
    /\ current' = [k \in Key |-> current'[k]]
    /\ \A k \in Key : current'[k] = current[k] \/ Renews(current[k], current'[k])
    /\ UNCHANGED arrived

Next == Arrive \/ Consume

Spec == Init /\ [][Next]_vars

FairSpec == Spec /\ WF_vars(Consume)

=============================================================================
