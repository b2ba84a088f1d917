----------------------------- MODULE CaseBoard -----------------------------
(***************************************************************************)
(* What a case promises its analysts, without sessions, locks or objects:  *)
(* each case walks the lifecycle graph, its timeline is that walk, a       *)
(* closed case carries the time it was closed, and no case is opened under *)
(* a title that an active case already has.                                *)
(***************************************************************************)
EXTENDS Sequences, CaseLifecycle

CONSTANTS Cases, Titles

VARIABLES
    history,    \* the statuses a case has been in, oldest first
    closed,     \* whether closed_at is set
    title

vars == <<history, closed, title>>

Exists(c) == history[c] # <<>>
Status(c) == history[c][Len(history[c])]
ActiveTitled(t) == {c \in Cases : Exists(c) /\ Status(c) \notin ClosedLike
                                            /\ title[c] = t}

\* A board that may have been in use: of each case the last status is known.
Init ==
    /\ history \in [Cases -> {<<>>} \cup {<<s>> : s \in CaseStatus}]
    /\ closed \in [Cases -> BOOLEAN]
    /\ title \in [Cases -> Titles \cup {"none"}]
    /\ \A c \in Cases : Exists(c) /\ Status(c) \in {"CLOSED", "ARCHIVED"} => closed[c]

Open(c, t) ==
    /\ ~Exists(c)
    /\ ActiveTitled(t) = {}
    /\ history' = [history EXCEPT ![c] = <<"OPEN">>]
    /\ title' = [title EXCEPT ![c] = t]
    /\ UNCHANGED closed

Move(c, s) ==
    /\ Exists(c)
    /\ ValidTransition(Status(c), s)
    /\ history' = [history EXCEPT ![c] = Append(@, s)]
    /\ closed' = [closed EXCEPT ![c] = @ \/ s = "CLOSED"]
    /\ UNCHANGED title

Retitle(c, t) ==
    /\ Exists(c)
    /\ title' = [title EXCEPT ![c] = t]
    /\ UNCHANGED <<history, closed>>

Next == \E c \in Cases : \/ \E t \in Titles : Open(c, t) \/ Retitle(c, t)
                         \/ \E s \in CaseStatus : Move(c, s)

Spec == Init /\ [][Next]_vars
=============================================================================
