------------------------ MODULE CaseBoardRefinement ------------------------
(***************************************************************************)
(* The server that handles one request at a time implements the CaseBoard: *)
(* a case's history is its timeline, read in timestamp order.              *)
(***************************************************************************)
EXTENDS CaseRequests, Sequences

\* How many entries of a trail come before e, and its i-th entry.
Rank(trail, e) == Cardinality({f \in trail : f.at < e.at})
Nth(trail, i) == CHOOSE e \in trail : Rank(trail, e) = i - 1

\* The statuses of a trail, in the order of their times.
InOrder(trail) == [i \in 1 .. Cardinality(trail) |-> Nth(trail, i).status]

TrailStatuses(c) == InOrder(StatusTrail(c))

Board == INSTANCE CaseBoard WITH
    history <- [c \in Cases |-> TrailStatuses(c)],
    closed  <- [c \in Cases |-> row[c].closed],
    title   <- [c \in Cases |-> row[c].title]

\* Requests served one after the other never leave the promised board: every
\* commit is one promised action or changes nothing the board shows.
ImplementsBoard == Board!Spec
=============================================================================
