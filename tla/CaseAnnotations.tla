-------------------------- MODULE CaseAnnotations --------------------------
(***************************************************************************)
(* The notes and tags of one case as concurrent requests change them.      *)
(*                                                                         *)
(* A request looks its note or tag up, writes, records the change of a     *)
(* note in the timeline, and commits; other requests run in between.  A    *)
(* write waits for the row (for the whole database on SQLite) and then     *)
(* meets the table as it is committed by then: an UPDATE of a row that is  *)
(* gone raises StaleDataError, a second INSERT of a (case, tag) pair       *)
(* raises IntegrityError, a DELETE of a row that is gone deletes nothing.  *)
(*                                                                         *)
(* A note has the name of the request that adds it, and its body is named  *)
(* by the request whose text it is.  The UPDATE of an edit carries the body *)
(* only if the submitted text differs from the one that was looked up.     *)
(***************************************************************************)
EXTENDS Naturals, FiniteSets

CONSTANTS
    Requests,
    Tags,
    Texts,              \* of notes
    SeedText,           \* of the note the case already has
    WholeDatabaseLock   \* TRUE on SQLite, FALSE on PostgreSQL

VARIABLES
    body,       \* of each note, whose text it is; "none" if there is no such row
    tags,       \* committed `case_tags`
    timeline,   \* committed MANUAL_NOTE entries
    clock,      \* of their timestamps
    req,        \* what each request asks
    pc,         \* where its handler is
    seen,       \* the text of the note its session has loaded
    locked,     \* whether it holds the lock its row needs
    logged      \* the timeline entry it has inserted, uncommitted

vars == <<body, tags, timeline, clock, req, pc, seen, locked, logged>>

ASSUME LockAssumption == WholeDatabaseLock \in BOOLEAN
ASSUME NamesAssumption == {"none", "seed"} \cap Requests = {}
ASSUME TextsAssumption == SeedText \in Texts

\* "seed" is a note the case already has.
Notes == Requests \cup {"seed"}

\* The note a request adds is its own.
Request == [op : {"add"}, on : Requests, text : Texts]
           \cup [op : {"edit"}, on : Notes, text : Texts]
           \cup [op : {"delete"}, on : Notes, text : {"none"}]
           \cup [op : {"tag", "untag"}, on : Tags, text : {"none"}]
NoRequest == [op |-> "none", on |-> "none", text |-> "none"]

Entry == [note : Notes, op : {"add", "edit", "delete"}, at : Nat, by : Requests]

Running == {"lookup", "write", "record", "commit"}
Finished == {"answered", "refused", "conflict", "failed"}
Active(r) == pc[r] \in Running
OnNote(r) == req[r].op \in {"add", "edit", "delete"}

\* Whether the row a request writes is committed.
Present(r) == IF OnNote(r) THEN body[req[r].on] # "none" ELSE req[r].on \in tags

\* What a body says: it is the text of the request that has sent it.
TextOf(w) == IF w = "seed" THEN SeedText ELSE req[w].text

\* Whether the statement of an addition or an edit carries the body.
Sends(r) == \/ req[r].op = "add"
            \/ req[r].op = "edit" /\ req[r].text # seen[r]

Goto(r, place) == pc' = [pc EXCEPT ![r] = place]

\* A slip: writers do not wait for each other.
LockAtOnce(r) == locked' = [locked EXCEPT ![r] = TRUE]

Free(r) == \A q \in Requests \ {r} :
    locked[q] => ~WholeDatabaseLock /\ req[q].on # req[r].on

Lock(r) == Free(r) /\ locked' = [locked EXCEPT ![r] = TRUE]

EndSession(r, outcome) ==
    /\ Goto(r, outcome)
    /\ locked' = [locked EXCEPT ![r] = FALSE]
    /\ logged' = [logged EXCEPT ![r] = {}]
    /\ UNCHANGED <<clock, req, seen>>

Rollback(r, outcome) == EndSession(r, outcome) /\ UNCHANGED <<body, tags, timeline>>

-----------------------------------------------------------------------------
Arrive(r) ==
    /\ pc[r] = "idle"
    /\ \E q \in Request : (q.op = "add" => q.on = r) /\ req' = [req EXCEPT ![r] = q]
    /\ Goto(r, "lookup")
    /\ UNCHANGED <<body, tags, timeline, clock, seen, locked, logged>>

\* get_case_note, find_one: a row to edit or delete, a tag not there yet.  The
\* session's identity map serves this note to update_body again.
Find(r) ==
    /\ pc[r] = "lookup"
    /\ Present(r) <=> req[r].op \in {"edit", "delete", "untag"}
    /\ seen' = [seen EXCEPT ![r] =
         IF req[r].op = "edit" THEN TextOf(body[req[r].on]) ELSE "none"]
    /\ Goto(r, "write")
    /\ UNCHANGED <<body, tags, timeline, clock, req, locked, logged>>

\* 404.
NotFound(r) ==
    /\ pc[r] = "lookup"
    /\ req[r].op \in {"edit", "delete", "untag"}
    /\ ~Present(r)
    /\ Rollback(r, "refused")

\* add_case_tag returns the existing row.
AlreadyTagged(r) ==
    /\ pc[r] = "lookup"
    /\ req[r].op = "tag"
    /\ Present(r)
    /\ Rollback(r, "answered")

\* A slip: a changed tag is recorded as if it were a note.
WriteRecordsAll(r) ==
    /\ pc[r] = "write"
    /\ Lock(r)
    /\ Goto(r, "record")
    /\ UNCHANGED <<body, tags, timeline, clock, req, seen, logged>>

\* A slip: an edit inserts the row again if it is gone (a merge).
WriteAnyway(r) ==
    /\ pc[r] = "write"
    /\ Lock(r)
    /\ Goto(r, IF OnNote(r) THEN "record" ELSE "commit")
    /\ UNCHANGED <<body, tags, timeline, clock, req, seen, logged>>

\* The flush of an INSERT, UPDATE or DELETE.
Write(r) ==
    /\ pc[r] = "write"
    /\ Lock(r)
    /\ req[r].op = "edit" => Present(r)
    /\ req[r].op = "tag" => ~Present(r)
    /\ Goto(r, IF OnNote(r) THEN "record" ELSE "commit")
    /\ UNCHANGED <<body, tags, timeline, clock, req, seen, logged>>

\* StaleDataError, IntegrityError.
Conflict(r) ==
    /\ pc[r] = "write"
    /\ Free(r)
    /\ \/ req[r].op = "edit" /\ ~Present(r)
       \/ req[r].op = "tag" /\ Present(r)
    /\ Rollback(r, "conflict")

Record(r) ==
    /\ pc[r] = "record"
    /\ clock' = clock + 1
    /\ logged' = [logged EXCEPT ![r] =
         {[note |-> req[r].on, op |-> req[r].op, at |-> clock + 1, by |-> r]}]
    /\ Goto(r, "commit")
    /\ UNCHANGED <<body, tags, timeline, req, seen, locked>>

\* A slip: the session ends without a commit.
CommitNothing(r) == pc[r] = "commit" /\ Rollback(r, "answered")

\* session.commit(): what the statement carried becomes visible.
Commit(r) ==
    LET op == req[r].op
        on == req[r].on
    IN  /\ pc[r] = "commit"
        /\ body' = CASE Sends(r)      -> [body EXCEPT ![on] = r]
                     [] op = "delete" -> [body EXCEPT ![on] = "none"]
                     [] OTHER         -> body
        /\ tags' = CASE op = "tag"   -> tags \cup {on}
                     [] op = "untag" -> tags \ {on}
                     [] OTHER        -> tags
        /\ timeline' = timeline \cup logged[r]
        /\ EndSession(r, "answered")

Fail(r) == Active(r) /\ Rollback(r, "failed")

-----------------------------------------------------------------------------
Init ==
    /\ body = [n \in Notes |-> IF n = "seed" THEN "seed" ELSE "none"]
    /\ tags \in SUBSET Tags
    /\ timeline = {}
    /\ clock = 0
    /\ req = [r \in Requests |-> NoRequest]
    /\ pc = [r \in Requests |-> "idle"]
    /\ seen = [r \in Requests |-> "none"]
    /\ locked = [r \in Requests |-> FALSE]
    /\ logged = [r \in Requests |-> {}]

Step(r) ==
    \/ Find(r) \/ NotFound(r) \/ AlreadyTagged(r)
    \/ Write(r) \/ Conflict(r) \/ Record(r) \/ Commit(r)

Quiet == (\A r \in Requests : pc[r] \in Finished) /\ UNCHANGED vars

Next == (\E r \in Requests : Arrive(r) \/ Step(r) \/ Fail(r)) \/ Quiet

Spec == Init /\ [][Next]_vars

-----------------------------------------------------------------------------
(* Properties. *)

\* The shape of the state.
TypeOK ==
    /\ body \in [Notes -> Notes \cup {"none"}]
    /\ tags \subseteq Tags
    /\ timeline \subseteq Entry
    /\ clock \in Nat
    /\ req \in [Requests -> Request \cup {NoRequest}]
    /\ pc \in [Requests -> {"idle"} \cup Running \cup Finished]
    /\ seen \in [Requests -> Texts \cup {"none"}]
    /\ locked \in [Requests -> BOOLEAN]
    /\ logged \in [Requests -> SUBSET Entry]

\* The body of a note is that of the latest of those entries of the timeline
\* whose request sent one, however the editors overlapped; and once one has been
\* sent, it is not what was there before.  An editor who submits what it had
\* looked up sends none.
NoteShowsLastSent ==
    \A n \in Notes :
        LET Sent == {e \in timeline : e.note = n /\ Sends(e.by)}
        IN  body[n] # "none" /\ Sent # {} =>
              \E e \in Sent : e.by = body[n] /\ \A f \in Sent : f.at <= e.at

\* A note whose deletion is in the timeline never comes back, not from an edit
\* that had already looked it up.
DeletedStaysDeleted ==
    \A e \in timeline : e.op = "delete" => body[e.note] = "none"

Answered(op, x) == \E r \in Requests : /\ pc[r] = "answered"
                                       /\ req[r].op = op
                                       /\ req[r].on = x

\* A tag that was answered with success is on the case unless a removal was
\* answered too.
AnsweredTagsStay ==
    \A t \in Tags : Answered("tag", t) /\ ~Answered("untag", t) => t \in tags
=============================================================================
