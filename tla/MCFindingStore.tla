--------------------------- MODULE MCFindingStore ---------------------------
(***************************************************************************)
(* Instances of FindingStore for TLC: two techniques, the second of which  *)
(* needs a host beside its file, as R-T1204 needs an address, and three    *)
(* kinds of indicators.  The file alone is too weak for its rule once      *)
(* faint ones outnumber it.                                                *)
(***************************************************************************)
EXTENDS FindingStore, TLC

MCTechniques == {"T1", "T2"}
MCKinds == {"file", "host", "faint"}

MCRule ==
    [t \in MCTechniques |->
        IF t = "T1"
        THEN [kinds |-> {"file", "faint"}, needs |-> {}, strength |-> 30,
              boost |-> 0, required |-> FALSE]
        ELSE [kinds |-> {"file"}, needs |-> {"host"}, strength |-> 40,
              boost |-> 20, required |-> TRUE]]
MCWeight == [k \in MCKinds |-> IF k = "faint" THEN 1000 ELSE 3000]
MCSeverity == [k \in MCKinds |-> CASE k = "file" -> 2 [] k = "host" -> 1 [] OTHER -> 4]

Cells == (1 .. MaxUploads) \X MCKinds
\* Below the cap the order of the rows has no effect; above it, some files come
\* first, or the latest rows do.
MCReadings ==
    {[cap |-> 100, rank |-> [c \in Cells |-> 0]],
     [cap |-> 3, rank |-> [c \in Cells |-> c[1]]],
     [cap |-> 3, rank |-> [c \in Cells |-> MaxUploads - c[1]]],
     [cap |-> 3, rank |-> [c \in Cells |-> IF c[2] = "file" THEN c[1]
                                            ELSE MaxUploads + c[1]]]}
=============================================================================
