------------------------------ MODULE Selection ------------------------------
(***************************************************************************)
(* What is taken from a list, and in what order: a query with its WHERE,   *)
(* its ORDER BY and its LIMIT, a filter, a stable sort.  Elements are      *)
(* known by their positions, so that equal ones stay apart.                *)
(***************************************************************************)
EXTENDS Integers, Sequences, FiniteSets, FiniteSetsExt

\* The positions in which, sorted: before has the pairs of positions one of
\* which goes before the other; of any other two the first stays first.
Order(which, before) ==
    LET Ahead(i) == {j \in which : IF j < i THEN <<i, j>> \notin before ELSE <<j, i>> \in before}
    IN  [n \in 1 .. Cardinality(which) |->
            CHOOSE i \in which : Cardinality(Ahead(i)) = n - 1]

\* The elements of s at the positions in which, in this order, or as they are.
Sorted(s, which, before) ==
    LET order == Order(which, before) IN [n \in DOMAIN order |-> s[order[n]]]
Those(s, which) == Sorted(s, which, {})

\* The first n elements of s, or all of them.
FirstOf(s, n) == SubSeq(s, 1, Min({n, Len(s)}))
=============================================================================
