--------------------------- MODULE CaseLifecycle ---------------------------
(***************************************************************************)
(* The lifecycle of an investigation case: its statuses, the legal moves   *)
(* between them, and what a move is called in the timeline and in the      *)
(* in-process events.  Constant-level: it declares no state.               *)
(***************************************************************************)

CaseStatus == {"OPEN", "INVESTIGATING", "ESCALATED", "ON_HOLD",
               "CONTAINED", "RESOLVED", "CLOSED", "ARCHIVED"}

\* The transition table; no status is its own target, ARCHIVED has no exit.
AllowedTransitions == [s \in CaseStatus |->
    CASE s = "OPEN"          -> {"INVESTIGATING", "ESCALATED", "CLOSED"}
      [] s = "INVESTIGATING" -> {"ESCALATED", "ON_HOLD", "CONTAINED",
                                 "RESOLVED", "CLOSED"}
      [] s = "ESCALATED"     -> {"CONTAINED", "ON_HOLD", "INVESTIGATING",
                                 "RESOLVED"}
      [] s = "ON_HOLD"       -> {"INVESTIGATING", "ESCALATED", "CLOSED"}
      [] s = "CONTAINED"     -> {"RESOLVED", "INVESTIGATING", "ESCALATED"}
      [] s = "RESOLVED"      -> {"CLOSED", "INVESTIGATING"}
      [] s = "CLOSED"        -> {"ARCHIVED", "INVESTIGATING"}
      [] OTHER               -> {}]

ValidTransition(current, target) == target \in AllowedTransitions[current]

\* The statuses that release a title for a new case: the duplicate guard of
\* create_case only looks at cases outside this set.
ClosedLike == {"RESOLVED", "CLOSED", "ARCHIVED"}

\* A slip that leaves reopening without an event type of its own.
StatusEventReopened(s) == IF s = "INVESTIGATING" THEN "case_reopened" ELSE "case_updated"

\* Which CaseEvent a move publishes.
StatusEvent(s) == CASE s = "ESCALATED" -> "case_escalated"
                    [] s = "RESOLVED"  -> "case_resolved"
                    [] s = "CLOSED"    -> "case_closed"
                    [] OTHER           -> "case_updated"
=============================================================================
