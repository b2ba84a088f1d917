--------------------------- MODULE MCCaseRequests ---------------------------
(* Instances of CaseRequests for TLC. *)
EXTENDS CaseBoardRefinement, TLC

Symmetry == Permutations(Requests)

c1 == "c1"
c2 == "c2"

\* Everything a client may ask of one case, with the moves that reach a
\* terminal status and come back from it.
OneCase == [op : {"status"}, case : {c1},
            arg : {"INVESTIGATING", "CLOSED", "ARCHIVED", "RESOLVED"}]
           \cup [op : {"assign", "upload"}, case : {c1}, arg : {"none"}]

\* What the stages of an upload add: least and most, of a vulnerability scan, or
\* the most only.
ShortAndFull == {{"ioc_extracted"},
                 StageKinds \ (AssessmentKinds \ {"vulnerability_assessed"})}
Full == {StageKinds \ (AssessmentKinds \ {"vulnerability_assessed"})}

\* The two moves out of CLOSED.
ReopenOrArchive == [op : {"status"}, case : {c1}, arg : {"INVESTIGATING", "ARCHIVED"}]

\* Every move of the lifecycle, every other update, one request at a time.
Everything == [op : {"status"}, case : {c1}, arg : CaseStatus]
              \cup [op : {"create"}, case : {c1, c2}, arg : {"t1"}]
              \cup [op : {"details"}, case : {c1}, arg : {"t2"}]
              \cup [op : {"assign", "amend", "upload"}, case : {c1}, arg : {"none"}]
=============================================================================
