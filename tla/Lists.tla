---------------------------------- MODULE Lists ----------------------------------
(***************************************************************************)
(* What a list comprehension with a condition, sum() and repeated extend()  *)
(* make of lists, as functions of the places that are kept, of the numbers  *)
(* that are added and of the lists that are appended.                       *)
(***************************************************************************)
EXTENDS Integers, Sequences, FiniteSets

\* The n-th smallest member of a set of places.
Nth(K, n) == CHOOSE i \in K : Cardinality({j \in K : j <= i}) = n

\* The elements of s at the places of K, in their order.
Kept(s, K) == [n \in 1..Cardinality(K) |-> s[Nth(K, n)]]

\* f[1] + ... + f[n].
Total(f, n) ==
    LET sum[i \in 0..n] == IF i = 0 THEN 0 ELSE sum[i - 1] + f[i]
    IN  sum[n]

\* first \o parts[1] \o ... \o parts[n].
Joined(first, parts, n) ==
    LET joined[i \in 0..n] == IF i = 0 THEN first ELSE joined[i - 1] \o parts[i]
    IN  joined[n]
===============================================================================
