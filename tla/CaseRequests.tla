---------------------------- MODULE CaseRequests ----------------------------
(***************************************************************************)
(* The `cases` table as concurrent API requests read and write it.         *)
(*                                                                         *)
(* Every request runs in a database session of its own: it commits when    *)
(* its handler returns and rolls back when anything raises.  A handler     *)
(* loads a Case once; the session's identity map then serves that object   *)
(* for the rest of the request, however old it has become.  A flush sends  *)
(* the columns that were assigned, takes the write lock the engine takes   *)
(* (of the row on PostgreSQL, of the database on SQLite) and holds it      *)
(* until the session ends.  CaseEvents go to subscribers in the process    *)
(* the moment they are published, whatever becomes of the session.         *)
(*                                                                         *)
(* Handlers are split where they await the database.  Of a case the model  *)
(* keeps status, whether closed_at is set, and title (which stands for the *)
(* pair title/analyst_id of the duplicate guard).                          *)
(***************************************************************************)
EXTENDS Naturals, FiniteSets, CaseLifecycle

CONSTANTS
    Cases,              \* case ids
    Requests,           \* one element per API request served
    Titles,
    Workload,           \* what the requests may ask for
    Analyses,           \* what the stages of an upload may add to the timeline
    SeedStatus,         \* the statuses cases may already have at the start
    WholeDatabaseLock   \* TRUE on SQLite, FALSE on PostgreSQL

VARIABLES
    row,        \* committed `cases` rows
    timeline,   \* committed `timeline_events`
    published,  \* CaseEvents handed to subscribers
    clock,      \* of the timestamps
    req,        \* what each request asks
    pc,         \* where its handler is
    obj,        \* the Case object in its session's identity map
    dirty,      \* the columns its flushes have written, uncommitted
    logged,     \* timeline entries it has inserted, uncommitted
    locked      \* whether it holds the write lock its case needs

vars == <<row, timeline, published, clock, req, pc, obj, dirty, logged, locked>>
session == <<req, pc, obj, dirty, logged, locked>>

-----------------------------------------------------------------------------
Columns == {"status", "closed", "title"}

CaseRow == [status : CaseStatus, closed : BOOLEAN, title : Titles]
Absent == [status |-> "none", closed |-> FALSE, title |-> "none"]

\* "amend" stands for the priority and the labels update, which differ only
\* in columns the model does not keep.
Request == [op : {"create", "details"}, case : Cases, arg : Titles]
           \cup [op : {"status"}, case : Cases, arg : CaseStatus]
           \cup [op : {"assign", "amend", "upload"}, case : Cases, arg : {"none"}]

ASSUME WorkloadAssumption == Workload \subseteq Request
ASSUME SeedAssumption == SeedStatus \subseteq CaseStatus
ASSUME LockAssumption == WholeDatabaseLock \in BOOLEAN
ASSUME TitlesAssumption == "none" \notin Titles
ASSUME RequestsAssumption == "seed" \notin Requests

\* Kinds that only an upload's later stages record.  manual_note is the one
\* kind left out: CaseAnnotations has it.
AssessmentKinds == {"vulnerability_assessed", "linux_security_finding_detected",
                    "linux_advisory_assessed", "owasp_web_assessed", "sast_assessed"}
StageKinds == AssessmentKinds \cup
    {"ioc_extracted", "finding_generated", "agent_analysis",
     "incident_response_plan_generated", "report_generated"}

ASSUME AnalysesAssumption ==
    Analyses \subseteq {kinds \in SUBSET StageKinds : "ioc_extracted" \in kinds}

NoRequest == [op |-> "none", case |-> "none", arg |-> "none"]
StatusKinds == {"case_opened", "case_status_changed"}
EntryKinds == StatusKinds \cup StageKinds \cup {"case_assigned", "evidence_ingested"}
EventKinds == {"case_created", "case_updated", "case_assigned", "case_escalated",
               "case_resolved", "case_closed", "evidence_attached", "finding_attached"}

Entry == [case : Cases, kind : EntryKinds, status : CaseStatus \cup {"none"},
          at : Nat, by : Requests \cup {"seed"}]
Event == [case : Cases, kind : EventKinds, by : Requests]

Finished == {"answered", "refused", "failed"}
Running == {"load", "check", "insert", "flush", "record", "ingest", "analyze",
            "move", "score", "commit"}
Active(r) == pc[r] \in Running

\* The write lock a flush of r needs is free or already its own.
MayWrite(r) == \A q \in Requests \ {r} :
    locked[q] => ~WholeDatabaseLock /\ req[q].case # req[r].case

-----------------------------------------------------------------------------
(* What the handlers are built from. *)

Goto(r, place) == pc' = [pc EXCEPT ![r] = place]

\* A slip: the timeline is written in a session of its own.
RollbackKeepsTimeline(r, outcome) ==
    /\ Goto(r, outcome)
    /\ timeline' = timeline \cup logged[r]
    /\ obj' = [obj EXCEPT ![r] = Absent]
    /\ dirty' = [dirty EXCEPT ![r] = {}]
    /\ logged' = [logged EXCEPT ![r] = {}]
    /\ locked' = [locked EXCEPT ![r] = FALSE]
    /\ UNCHANGED <<row, published, clock, req>>

\* session.rollback(), and what the response then says.
Rollback(r, outcome) ==
    /\ Goto(r, outcome)
    /\ obj' = [obj EXCEPT ![r] = Absent]
    /\ dirty' = [dirty EXCEPT ![r] = {}]
    /\ logged' = [logged EXCEPT ![r] = {}]
    /\ locked' = [locked EXCEPT ![r] = FALSE]
    /\ UNCHANGED <<row, timeline, published, clock, req>>

\* _record_timeline: an entry stamped with the time it is inserted at.
Stamped(r, kind, status) ==
    [case |-> req[r].case, kind |-> kind, status |-> status, at |-> clock + 1, by |-> r]

Record(r, kind, status) ==
    /\ clock' = clock + 1
    /\ logged' = [logged EXCEPT ![r] = @ \cup {Stamped(r, kind, status)}]

Publish(r, kind) ==
    published' = published \cup {[case |-> req[r].case, kind |-> kind, by |-> r]}

\* A slip: the flush does not wait for the row's lock.
LockAtOnce(r) == locked' = [locked EXCEPT ![r] = TRUE]

Lock(r) == MayWrite(r) /\ locked' = [locked EXCEPT ![r] = TRUE]

\* A slip: closed_at is forgotten.
WriteStatusUnstamped(r, s) ==
    /\ Lock(r)
    /\ obj' = [obj EXCEPT ![r].status = s]
    /\ dirty' = [dirty EXCEPT ![r] = @ \cup {"status"}]

\* CaseRepository.update_status: status, and closed_at when it is CLOSED.
WriteStatus(r, s) ==
    /\ Lock(r)
    /\ obj' = [obj EXCEPT ![r].status = s,
                          ![r].closed = @ \/ s = "CLOSED"]
    /\ dirty' = [dirty EXCEPT ![r] = @ \cup {"status"} \cup
                   IF s = "CLOSED" THEN {"closed"} ELSE {}]

-----------------------------------------------------------------------------
(* The handlers. *)

Unused(c) == row[c] = Absent /\ \A q \in Requests : req[q].case # c

\* A client sends a request; create_case draws a fresh uuid.
Arrive(r) ==
    /\ pc[r] = "idle"
    /\ \E q \in Workload :
         /\ q.op = "create" => Unused(q.case)
         /\ req' = [req EXCEPT ![r] = q]
         /\ Goto(r, IF q.op = "create" THEN "check" ELSE "load")
    /\ UNCHANGED <<row, timeline, published, clock, obj, dirty, logged, locked>>

\* The first get_by_id of the request fills the identity map; 404 if no row.
Load(r) ==
    /\ pc[r] = "load"
    /\ row[req[r].case] # Absent
    /\ obj' = [obj EXCEPT ![r] = row[req[r].case]]
    /\ Goto(r, IF req[r].op = "upload" THEN "ingest" ELSE "flush")
    /\ UNCHANGED <<row, timeline, published, clock, req, dirty, logged, locked>>

NotFound(r) ==
    /\ pc[r] = "load"
    /\ row[req[r].case] = Absent
    /\ Rollback(r, "refused")

\* find_open_by_title_and_analyst: sees what is committed now.
ActiveTitled(t) == {c \in Cases : /\ row[c] # Absent
                                  /\ row[c].status \notin ClosedLike
                                  /\ row[c].title = t}

CheckDuplicate(r) ==
    /\ pc[r] = "check"
    /\ ActiveTitled(req[r].arg) = {}
    /\ Goto(r, "insert")
    /\ UNCHANGED <<row, timeline, published, clock, req, obj, dirty, logged, locked>>

RefuseDuplicate(r) ==
    /\ pc[r] = "check"
    /\ ActiveTitled(req[r].arg) # {}
    /\ Rollback(r, "refused")

InsertCase(r) ==
    /\ pc[r] = "insert"
    /\ Lock(r)
    /\ obj' = [obj EXCEPT ![r] =
                 [status |-> "OPEN", closed |-> FALSE, title |-> req[r].arg]]
    /\ dirty' = [dirty EXCEPT ![r] = Columns]
    /\ Record(r, "case_opened", "OPEN")
    /\ Publish(r, "case_created")
    /\ Goto(r, "commit")
    /\ UNCHANGED <<row, timeline, req>>

\* Slips: the move is not validated; the move is not recorded.
FlushAnyStatus(r) ==
    /\ pc[r] = "flush"
    /\ req[r].op = "status"
    /\ WriteStatus(r, req[r].arg)
    /\ Goto(r, "record")
    /\ UNCHANGED <<row, timeline, published, clock, req, logged>>

FlushStatusUnrecorded(r) ==
    /\ pc[r] = "flush"
    /\ req[r].op = "status"
    /\ ValidTransition(obj[r].status, req[r].arg)
    /\ WriteStatus(r, req[r].arg)
    /\ Goto(r, "commit")
    /\ UNCHANGED <<row, timeline, published, clock, req, logged>>

\* update_case_status: validated against the loaded object, then flushed.
FlushStatus(r) ==
    /\ pc[r] = "flush"
    /\ req[r].op = "status"
    /\ ValidTransition(obj[r].status, req[r].arg)
    /\ WriteStatus(r, req[r].arg)
    /\ Goto(r, "record")
    /\ UNCHANGED <<row, timeline, published, clock, req, logged>>

\* BusinessRuleError, answered with 409.
RefuseTransition(r) ==
    /\ pc[r] = "flush"
    /\ req[r].op = "status"
    /\ ~ValidTransition(obj[r].status, req[r].arg)
    /\ Rollback(r, "refused")

FlushAssignment(r) ==
    /\ pc[r] = "flush"
    /\ req[r].op = "assign"
    /\ Lock(r)
    /\ Goto(r, "record")
    /\ UNCHANGED <<row, timeline, published, clock, req, obj, dirty, logged>>

\* An assigned title equal to the loaded one is not part of the UPDATE.
FlushDetails(r) ==
    /\ pc[r] = "flush"
    /\ req[r].op = "details"
    /\ Lock(r)
    /\ obj' = [obj EXCEPT ![r].title = req[r].arg]
    /\ dirty' = [dirty EXCEPT ![r] =
                   IF req[r].arg = obj[r].title THEN @ ELSE @ \cup {"title"}]
    /\ Publish(r, "case_updated")
    /\ Goto(r, "commit")
    /\ UNCHANGED <<row, timeline, clock, req, logged>>

FlushAmendment(r) ==
    /\ pc[r] = "flush"
    /\ req[r].op = "amend"
    /\ Lock(r)
    /\ Publish(r, "case_updated")
    /\ Goto(r, "commit")
    /\ UNCHANGED <<row, timeline, clock, req, obj, dirty, logged>>

\* The timeline entry and the event of a status move.
RecordStatus(r) ==
    /\ pc[r] = "record"
    /\ req[r].op \in {"status", "upload"}
    /\ Record(r, "case_status_changed", obj[r].status)
    /\ Publish(r, StatusEvent(obj[r].status))
    /\ Goto(r, IF req[r].op = "upload" THEN "score" ELSE "commit")
    /\ UNCHANGED <<row, timeline, req, obj, dirty, locked>>

RecordAssignment(r) ==
    /\ pc[r] = "record"
    /\ req[r].op = "assign"
    /\ Record(r, "case_assigned", "none")
    /\ Publish(r, "case_assigned")
    /\ Goto(r, "commit")
    /\ UNCHANGED <<row, timeline, req, obj, dirty, locked>>

\* ingest_evidence inserts rows of other tables, which locks the case only
\* where the lock is the database's.
Ingest(r) ==
    /\ pc[r] = "ingest"
    /\ IF WholeDatabaseLock THEN Lock(r) ELSE UNCHANGED locked
    /\ Record(r, "evidence_ingested", "none")
    /\ Publish(r, "evidence_attached")
    /\ Goto(r, "analyze")
    /\ UNCHANGED <<row, timeline, req, obj, dirty>>

\* The stages that follow: extraction, findings, assessments, agents, plan and
\* report, which touch no column of the case.  Each inserts its entry, here all
\* with one time; the findings alone are published too.
Analyze(r) ==
    /\ pc[r] = "analyze"
    /\ clock' = clock + 1
    /\ \E kinds \in Analyses :
         /\ logged' = [logged EXCEPT ![r] = @ \cup {Stamped(r, k, "none") : k \in kinds}]
         /\ IF "finding_generated" \in kinds
            THEN Publish(r, "finding_attached") ELSE UNCHANGED published
    /\ Goto(r, "move")
    /\ UNCHANGED <<row, timeline, req, obj, dirty, locked>>

\* An OPEN case starts to be investigated; get_case answers from the
\* identity map.
StartInvestigating(r) ==
    /\ pc[r] = "move"
    /\ obj[r].status = "OPEN"
    /\ WriteStatus(r, "INVESTIGATING")
    /\ Goto(r, "record")
    /\ UNCHANGED <<row, timeline, published, clock, req, logged>>

KeepStatus(r) ==
    /\ pc[r] = "move"
    /\ obj[r].status # "OPEN"
    /\ Goto(r, "score")
    /\ UNCHANGED <<row, timeline, published, clock, req, obj, dirty, logged, locked>>

\* recompute_case_risk_score writes only if the case has open findings.
RecomputeRisk(r) ==
    /\ pc[r] = "score"
    /\ Lock(r) \/ UNCHANGED locked
    /\ Goto(r, "commit")
    /\ UNCHANGED <<row, timeline, published, clock, req, obj, dirty, logged>>

\* Slips: the session's lock outlives it; the inserted entries are lost.
CommitLocked(r) ==
    /\ pc[r] = "commit"
    /\ timeline' = timeline \cup logged[r]
    /\ Goto(r, "answered")
    /\ UNCHANGED <<row, published, clock, req, obj, dirty, logged, locked>>

CommitUnlogged(r) ==
    /\ pc[r] = "commit"
    /\ row' = [row EXCEPT ![req[r].case] = obj[r]]
    /\ locked' = [locked EXCEPT ![r] = FALSE]
    /\ Goto(r, "answered")
    /\ UNCHANGED <<timeline, published, clock, req, obj, dirty, logged>>

\* session.commit(): the flushed columns and entries become visible.
Commit(r) ==
    LET old == row[req[r].case]
    IN  /\ pc[r] = "commit"
        /\ row' = [row EXCEPT ![req[r].case] =
             [status |-> IF "status" \in dirty[r] THEN obj[r].status ELSE old.status,
              closed |-> IF "closed" \in dirty[r] THEN obj[r].closed ELSE old.closed,
              title  |-> IF "title" \in dirty[r] THEN obj[r].title ELSE old.title]]
        /\ timeline' = timeline \cup logged[r]
        /\ obj' = [obj EXCEPT ![r] = Absent]
        /\ dirty' = [dirty EXCEPT ![r] = {}]
        /\ logged' = [logged EXCEPT ![r] = {}]
        /\ locked' = [locked EXCEPT ![r] = FALSE]
        /\ Goto(r, "answered")
        /\ UNCHANGED <<published, clock, req>>

\* Anything raises: a database error, a lock timeout, a failing stage of the
\* pipeline, the commit itself.
Fail(r) == Active(r) /\ Rollback(r, "failed")

-----------------------------------------------------------------------------
SeedRow == {x \in CaseRow : /\ x.status \in SeedStatus
                            /\ x.status \in {"CLOSED", "ARCHIVED"} => x.closed
                            /\ x.status = "OPEN" => ~x.closed}

SeedEntry(c) == [case |-> c, status |-> row[c].status, at |-> 0, by |-> "seed",
                 kind |-> IF row[c].status = "OPEN" THEN "case_opened"
                                                    ELSE "case_status_changed"]

Init ==
    /\ row \in [Cases -> SeedRow \cup {Absent}]
    /\ timeline = {SeedEntry(c) : c \in {d \in Cases : row[d] # Absent}}
    /\ published = {}
    /\ clock = 0
    /\ req = [r \in Requests |-> NoRequest]
    /\ pc = [r \in Requests |-> "idle"]
    /\ obj = [r \in Requests |-> Absent]
    /\ dirty = [r \in Requests |-> {}]
    /\ logged = [r \in Requests |-> {}]
    /\ locked = [r \in Requests |-> FALSE]

\* One step of r's handler that no error cuts short.
Step(r) ==
    \/ Load(r) \/ NotFound(r)
    \/ CheckDuplicate(r) \/ RefuseDuplicate(r) \/ InsertCase(r)
    \/ FlushStatus(r) \/ RefuseTransition(r)
    \/ FlushAssignment(r) \/ FlushDetails(r) \/ FlushAmendment(r)
    \/ RecordStatus(r) \/ RecordAssignment(r)
    \/ Ingest(r) \/ Analyze(r) \/ StartInvestigating(r) \/ KeepStatus(r)
    \/ RecomputeRisk(r) \/ Commit(r)

\* Every request has been answered and no further one is sent.
Quiet == (\A r \in Requests : pc[r] \in Finished) /\ UNCHANGED vars

Next == (\E r \in Requests : Arrive(r) \/ Step(r) \/ Fail(r)) \/ Quiet

Spec == Init /\ [][Next]_vars

\* The server runs every handler it has started.
FairSpec == Spec /\ \A r \in Requests : WF_vars(Step(r))

\* The server reads the next request when it has answered the last one.
ArriveAlone(r) == (\A q \in Requests : ~Active(q)) /\ Arrive(r)
SerialNext == (\E r \in Requests : ArriveAlone(r) \/ Step(r) \/ Fail(r)) \/ Quiet
SerialSpec == Init /\ [][SerialNext]_vars

-----------------------------------------------------------------------------
(* Properties. *)

\* The shape of the state; a session holds uncommitted work only while its
\* handler runs.
TypeOK ==
    /\ row \in [Cases -> CaseRow \cup {Absent}]
    /\ timeline \subseteq Entry
    /\ published \subseteq Event
    /\ clock \in Nat
    /\ req \in [Requests -> Request \cup {NoRequest}]
    /\ pc \in [Requests -> {"idle"} \cup Running \cup Finished]
    /\ obj \in [Requests -> CaseRow \cup {Absent}]
    /\ dirty \in [Requests -> SUBSET Columns]
    /\ logged \in [Requests -> SUBSET Entry]
    /\ locked \in [Requests -> BOOLEAN]

\* A committed case that is CLOSED or ARCHIVED has its closed_at set.  The two
\* columns are written by different requests from objects of different age,
\* and a reopened case keeps its old closed_at.
ClosedIsStamped ==
    \A c \in Cases : row[c].status \in {"CLOSED", "ARCHIVED"} => row[c].closed

StatusTrail(c) == {e \in timeline : e.case = c /\ e.kind \in StatusKinds}

\* Reading a case's timeline in timestamp order, the last status entry says
\* the status the row has, whichever requests raced to write it: the flush
\* that takes the row's lock precedes the timestamp of the entry.
AuditTrailEndsInStatus ==
    \A c \in Cases : row[c] # Absent =>
        \E e \in StatusTrail(c) :
            /\ e.status = row[c].status
            /\ \A f \in StatusTrail(c) : f # e => f.at < e.at

\* What a timeline entry is published as: the kinds not listed as nothing.
EventsOf(e) ==
    CASE e.kind = "case_opened"         -> {"case_created"}
      [] e.kind = "case_status_changed" -> {StatusEvent(e.status)}
      [] e.kind = "case_assigned"       -> {"case_assigned"}
      [] e.kind = "evidence_ingested"   -> {"evidence_attached"}
      [] e.kind = "finding_generated"   -> {"finding_attached"}
      [] OTHER                          -> {}

AnnouncedKinds == StatusKinds \cup {"case_assigned", "evidence_ingested", "finding_generated"}

WasPublished(e) == \E v \in published : /\ v.by = e.by
                                       /\ v.case = e.case
                                       /\ v.kind \in EventsOf(e)

\* Nothing a refused or failed request inserted is in the timeline, and of the
\* five kinds that have an event (AnnouncedKinds) no entry was committed that
\* subscribers had not been told of.  An event may announce what is later
\* rolled back.
CommittedWasAnnounced ==
    \A e \in timeline : e.by # "seed" =>
        /\ pc[e.by] = "answered"
        /\ e.kind \in AnnouncedKinds => WasPublished(e)

\* A status PATCH that was answered with success is in the timeline, once.
AnsweredMovesAreAudited ==
    \A r \in Requests : pc[r] = "answered" /\ req[r].op = "status" =>
        \E e \in timeline : /\ e.by = r
                            /\ e.case = req[r].case
                            /\ e.status = req[r].arg
                            /\ \A f \in timeline : f.by = r => f = e

Moves(c) == row'[c].status # row[c].status

\* core/services/case_lifecycle.py: an illegal move never reaches the database.
LegalMoves ==
    [][\A c \in Cases : row[c] # Absent /\ Moves(c)
            => ValidTransition(row[c].status, row'[c].status)]_vars

\* Every request that arrives is answered, whatever it waits for.
EveryRequestEnds == \A r \in Requests : Active(r) ~> pc[r] \in Finished
=============================================================================
