# A TLA+ model of the Cyber Defense Copilot

The Cyber Defense Copilot keeps security cases: an analyst opens a case,
uploads evidence to it (logs, mails, scans, source code, shell commands, HTTP
transactions), and each upload is parsed, mined for indicators, turned into
findings and handed to a graph of specialist agents, which leave behind a
response plan and a report. The API (`apps/api`, FastAPI on one uvicorn process)
and the pages (`apps/web`, Streamlit) call services (`core/services`), which use
the packages below `core/`. State lives in a SQL database (SQLite by default,
PostgreSQL in deployment), in files (the bytes of the evidence), in a vector
store (memory) and in the process (chat sessions, metrics).

This directory holds TLA+ modules translated from that code, the configurations
TLC checks them with and proofs for TLAPS. `PROJECT.json` maps each definition
to the lines it models.

    tlc -workers 2 -config CaseRequests_race.cfg MCCaseRequests.tla
    tlapm CaseRequestsProofs.tla

The modules with proofs are those whose names end in `Proofs`; tlapm checks each of
them by itself.

## 1. Inventory

For each part: its state; its operations; what is hard about it; what makes it
correct.

**Case lifecycle and case requests** (`core/services/case_lifecycle.py`,
`case_service.py`, `case_events.py`, `core/db/case_repository.py`,
`session.py`, `apps/api/routers/cases.py`).
State: the `cases` row (status, closed_at, title, analyst, priority, labels, risk
score), its append-only `timeline_events`, the CaseEvents published in the
process. Operations: create, change status, assign, change details, priority or
labels, and the automatic move of an upload. Hard: every request has a database
session of its own whose identity map serves an ever older object; writes lock
late; publishing is not undone by a rollback. Correct when the timeline tells the
story of the row, a closed case has its time, only legal moves are committed.

**Notes, tags and listings** (`case_note_repository.py`,
`case_tag_repository.py`, `base_repository.py`). State: notes, tags, timeline.
Operations: add, edit and delete a note, add and remove a tag, page through a
listing by cursor. Hard: check-then-act between requests, rows that come and go
between pages. Correct when what was answered stays, what was deleted stays
deleted, and a page sequence skips and repeats nothing.

**Upload pipeline** (`case_service.investigate_new_evidence`,
`evidence_service.py`, `threat_intel_service.py`, `finding_service.py`, the
assessment services). State: the blob on disk, the rows of evidence,
indicators, findings, assessments, plan and report, the memory. One transaction
around about fifteen stages. Hard: two uploads interleave at every await; a
failure or crash rolls the database back but neither files nor memory; rows are
named by two different kinds of ids; SQLite does not enforce keys and PostgreSQL
does. Correct when what is committed is one consistent set.

**Workflow engine and investigation graph** (`core/graph`, `core/agents/base.py`,
`coordinator.py`, `planning_agent.py`, `registry.py`). State: the graph's shared
state, the agents' copies, the metrics. Operations: plan, fan out, call with
retry, recover, merge. Hard: agents of a superstep run on threads and their
updates merge by reducers; failures escape at three levels. Correct when the
merge neither loses nor doubles and every failure is accounted for.

**Findings** (`core/findings`, `finding_service.py`). State: the findings of a
case with indicators, mappings, severity, priority. Operations: map indicators to
techniques, generate candidates, find duplicates by six similarities, merge.
Hard: a long sequence of uploads; merging depends on time and on earlier merges.
Correct when a merge loses nothing and no finding lacks what its rule saw.

**Specialist agents and tools** (`core/agents`, `core/tools`). Agents keep no
state between runs; a tool validates, computes and counts. Hard: what an agent
answers when its records are malformed, oversized or missing. Correct when a run is
bounded and each agent reads what was stored for it.

**Parsers** (`core/parsers`). Validation, detection of the format, one parser per
format, degradation to plain text. Stateless but for metrics. Hard: ambiguous
formats, limits. Correct when every accepted upload has exactly one parser and
no record is invented.

**Threat intelligence, vulnerabilities, Linux security and advisor, OWASP web
and source code** (`core/threat_intel`, `core/vulnerabilities`,
`core/linux_security`, `core/linux_advisor`, `core/owasp_web`,
`core/owasp_security` and their services). Pure rules over the records of one
upload: extraction, validation, scoring, correlation, detection windows. Hard:
boundaries of windows and scores, aggregation that depends on the order, tables
kept apart that must agree. Correct when more evidence never hides a finding, and
what is worse never scores lower.

**Incident response and reporting** (`core/incident_response`,
`core/reporting`). From records to a plan (severity, recommendations and their
order) and to a report (sections, completeness, confidence), exported on demand.
Hard: merging and consolidation, what is read before and after the run. Correct
when a plan forgets no finding that asked for a response, and a report is not made
of nothing.

**Conversation** (`core/conversation`, `conversation_service.py`). State: chat
sessions of the process (at most 1000, the least recently used is forgotten), and
the rows of sessions, messages and summaries. Hard: a client continues a session that
is gone; requests of one chat number their messages at once and overwrite each
other's summary; a model may claim anything. Correct when questions and answers stay
paired, the summary tells each message once, the prompt ends with the latest of the
chat, and an answer rests on what was retrieved.

**Memory and knowledge** (`core/memory`, `core/knowledge`). A vector store of
findings and reports, written outside the transaction and read back as advice;
read-only reference data. Hard: the case's own entries compete with those of the
others. Correct when what is recalled is of other cases, and the nearest.

**Shell** (`core/config`, `core/logging`, `core/security`, `apps/api/main.py`,
middleware, migrations, `apps/web`, `scripts`). Settings, log lines, masking,
pages: constants or no effect on the state above.

Components call each other through services; they share the database (one
session per request), the process (event buses, metrics, chat sessions), the
blob directory and the vector store. Left aside: `handoff`, `data`, `context`,
`docs`, `examples` and `tests`, which are prototypes, data and text.

## 2. Modules

| module | models | checked in |
|---|---|---|
| `CaseLifecycle` | the transition table, closed-like statuses | (used by the next two) |
| `CaseRequests` | every request that writes a case row | `MCCaseRequests`, `CaseRequests_*.cfg` |
| `CaseBoard` | what a case promises, with no sessions and no locks | as a property |
| `CaseBoardRefinement` | what the rows and the timeline show on the board | `MCCaseRequests`, `CaseRequests_serial.cfg` |
| `CaseRequestsProofs` | proofs about CaseRequests: rows and their trail, events and the timeline; served serially, its moves and CaseBoard | tlapm |
| `CaseAnnotations` | notes and tags | `MCCaseAnnotations`, `CaseAnnotations_*.cfg` |
| `CaseAnnotationsProofs` | proofs about CaseAnnotations | tlapm |
| `CursorPaging` | a client paging through a listing ordered by time | `CursorPaging_timeline.cfg` |
| `FindingStore` | the findings of a case over its uploads | `MCFindingStore`, `FindingStore_*.cfg` |
| `FindingStoreProofs` | proofs about FindingStore | tlapm |
| `UploadPipeline` | concurrent uploads, stage by stage | `MCUploadPipeline`, `UploadPipeline_*.cfg` |
| `UploadPipelineProofs` | proofs about UploadPipeline | tlapm |
| `WorkflowEngine` | one investigation run | `MCWorkflowEngine`, `WorkflowEngine_*.cfg` |
| `WorkflowEngineProofs` | proofs about WorkflowEngine | tlapm |
| `EvidenceAnalysis` | the analyses an upload sets off, record by record; composes the next ten | `MCEvidenceAnalysis`, `EvidenceAnalysis_*.cfg` |
| `ThreatIntel` | indicators of one artifact | |
| `Vulnerabilities`, `CvssCalculator` | findings of a scan report, scores of vectors | |
| `LinuxSecurity` | detectors over a log, and when their times do not compare | |
| `LinuxAdvisor` | advice on commands and listings | |
| `WebSecurity` | advice on an HTTP transcript | |
| `SourceReview` | review of a source file | |
| `IncidentResponse` | the response plan of a case | |
| `Reporting` | the report of a case and its export | |
| `CaseMemory` | what an investigation recalls | (and `Conversation`) |
| `ChatAnswer` | how a question is answered | (extended by `Conversation`) |
| `Selection` | what is taken from a list, and in what order | (used by the analyses, `CaseMemory` and `ChatAnswer`) |
| `Conversation` | concurrent requests of chats | `MCConversation`, `Conversation_*.cfg` |
| `SelectionProofs` | lemmas about Selection, lists and numbers, for the next two | tlapm |
| `ConversationProofs` | proofs about Conversation | tlapm |
| `EvidenceAnalysisProofs` | proofs about EvidenceAnalysis | tlapm |

### CaseRequests

`row` and `timeline` are the committed tables, `published` the events subscribers
have seen, `clock` the source of timestamps. Per request: `req` what it asks, `pc`
the await it is at, `obj` the Case object in its identity map, `dirty` the columns
it has flushed, `logged` the timeline entries it has inserted, `locked` its write
lock. A handler is a path through `Load`, a flush (`FlushStatus`,
`FlushAssignment`, `FlushDetails`, `FlushAmendment`), `RecordStatus` or
`RecordAssignment`, and `Commit`; creation goes `CheckDuplicate`, `InsertCase`;
an upload goes `Ingest`, `Analyze` (the entries of its later stages, one of the sets in
`Analyses`), `StartInvestigating` or `KeepStatus`, `RecomputeRisk`. The timeline keeps every
kind of entry but `manual_note`, which is CaseAnnotations'. `Fail` is an exception at any of
them. The column-wise `Commit` is SQLAlchemy's: only
assigned columns are sent. `WholeDatabaseLock` tells SQLite (one writer) from
PostgreSQL (a lock per row). Priority and labels differ from details only in
columns that are not kept, and share the action `FlushAmendment`.

### CaseAnnotations and CursorPaging

Notes are named by the request that adds them. An edit names its text; of an
edit whose text is the one that was looked up the UPDATE has no body (`Sends`).
`Find` is the lookup, with `NotFound`
and `AlreadyTagged` its early ends, `Write` the flush, `Conflict` the unique constraint of a tag, `Record` the
paired timeline entry. In CursorPaging `key` is the time a row was added at, which orders the listing,
`cursor` the id the client sends, `kept` the rows that were there all along; rows
are inserted and deleted between reads.

### FindingStore

An indicator is named by the upload that brought it, its kind and the hour it was
seen in. `Mapped` is the rule engine with its confidence threshold, `Candidate` the
generator, `Similarity` the sum of six equal weights in units of 1/2520 (so that
all quotients of small sets are whole numbers), `Merge` the merge. The code's similarities
are floats, not multiples of a unit; the cap of a reading is assumed to be at most the
unit (`ReadingsAssumption`, the default is 2000), so that one indicator more or less in
a quotient is never rounded away. One `Upload` runs
them all for the indicators of the case. Rules, weights and severities are
constants; the instance has two rules with the shapes of the code's table: one
plain, one that needs a second kind beside it.

### UploadPipeline

`db` is the committed database, `mine` what a session has added to it, `blob` the
files, `memory` the vector store. The actions follow `investigate_new_evidence`:
`Accept`/`Reject`, `Store`, `Ingest`, `Extract`, `Generate`, `Assess`, `Analyze` (the
graph run), `LoadPlan`/`FlushPlan` (the two steps of the upsert), `PersistReport`,
`Remember`, `Commit`; `StoreFails`, `Refuse` (a foreign key), `PlanConflict` (the
unique key of a plan), `Fail` and `Crash` end one early. How an agent fails
inside the run is WorkflowEngine's subject: here `Analyze` chooses which of the two that
matter (`Fallible`) fail, so that no plan is persisted, or no report, and each planned
agent leaves its entry either way. The
writes to the case row at the end of an upload are CaseRequests'. Uploads
serialise from the first flush on SQLite. The MITRE reference rows are imported
before the first upload.

### WorkflowEngine

A list field of the state is the sequence of the nodes that appended to it.
`Coordinate` plans agents by capability, `FanOut` schedules them, `Start` gives each
its copy of the state; a call ends in `Succeed`, `Degrade`, `FailSafely` or `Raise`,
which `Retry` may repeat; `Complete` cuts the update out of the copy, `Recover` and
`RaiseAgain` are the recovery policy, `Merge` reduces the updates one after the other, in
the order of the agents' names (`merged` counts them; a node that was not scheduled has
an update without content), `RefuseUpdates` is LangGraph rejecting two writers of one field, and `Abort` ends the
run. Exceptions are of four classes, the ones `retry.py`, `failure_recovery.py` and
`base.py` tell apart.

### EvidenceAnalysis and the analyses

Each analysis is an operator from the sequence of records a parser has read to what
its service stores and its agent answers. `EvidenceAnalysis` reads the records of one
artifact (or of one case, for the plan, the report and the memory) one at a time, so
that each state has the analysis of a prefix: an action property then compares an
artifact with a longer one. The reading is not the program's, which analyzes whole
artifacts; every prefix is an artifact of its own. `ReadUnparsed` is
a line the parser makes no record of: it is not in `records`, and lowers the quality of
the whole artifact, which enters the scores. A candidate of `LinuxSecurity` knows whether
its time is the log's or the clock's (`seen`), since the two do not compare (`Aborts`).
A line, a value or a
record is the set of things the code's expressions recognise in it. `CvssCalculator` computes
in fixed point with digits enough for every vector of versions 2 and 3; `Worsen` walks
over all vectors of version 3.1. `ExportReport` asks for every format, theme and size
of the report there is. `Remember` leaves a finding or a report in the vector store, and
the investigation of one of the cases recalls; what the store already has is never read again.

A filter, an ORDER BY, a LIMIT and a stable sort are operators of `Selection`, which speak
of the positions of a list: the n-th of the result is the position with n - 1 others
ahead of it. That is what a fold or a sort computes, said without the computation, so
that lists of any length can be reasoned about. The cap of a context is said in the same way
(`OversizedGuard`): the code takes the last item of the fullest category away, the
first of several, until the rest fits, so the items that go are the ones furthest back.

### Conversation, ChatAnswer and CaseMemory

`sessions` and `chat` are the process, `rows`, `messages` and `summaries` the
committed tables, `mine` what a request has flushed. A request goes through `Ask`
(the session: the client's, if the process still knows it, or a new one), `OpenRow` or
`InsertRow`, `ReadWindow`, `CountTurns`, `Summarise` and `Upsert`, `Generate`, then
`ReadIndex`, `AppendQuestion`, `AppendAnswer`, `ReadTurns`, `Touch` and `Commit`; with the backend
"memory" only `ReadWindow`, `Generate` and `Remember` (the process keeps the turns).
There is a step for each await at which another request may come between. `ReadIndex` is apart from `AppendQuestion` because the number is read before
the insert takes its lock; on SQLite the answer's number is read under the lock, and
on PostgreSQL its insert waits for nothing, so there both are one step. `ReadTurns` is the
second reading of the session's row: nothing holds the object of the first one, so the
identity map has let go of it. The model is a choice of any set of the ids it
may claim; the template claims what it was given and what a line of it begins with. `raced`
remembers the sessions two requests have had in use at once, which the properties need
and the code does not have.

## 3. Runs

Runs that pass:

| run | shows | bounds |
|---|---|---|
| `cases_race` | row and timeline stay consistent under any interleaving, answered moves are in it once, entries that have an event were announced, and every request ends | 3 requests on one OPEN case, row locks |
| `cases_serial` | served one at a time, requests implement the board and move cases along the table | 2 requests, 2 cases, 2 titles, every operation |
| `notes_race` | a note shows the last body that was sent, deletions are final, answered tags stay | 3 requests, 2 tags |
| `findings_uploads` | one finding per technique has every indicator; above the cap merges still only add | 3 uploads of any of three kinds in two hours, all or 3 of the indicators read |
| `uploads` | what is assessed reaches its specialist, the row of a plan is one plan, a report is made from the plan before its run and replaced with its own plan unless the response agent failed | 3 uploads of four kinds of evidence, on SQLite and on PostgreSQL, with failing agents, failures and crashes everywhere |
| `evidence_reading` | more evidence hides nothing but what section 5 names, scores move the right way, a plan keeps what it rests on, no report is hollow, the nearest memory is recalled | 3 to 4 records of each kind of artifact, all vectors of CVSS 3.1 |
| `conversation` | questions and answers stay paired, the stored summary tells nothing twice, the prompt ends with the latest, no answer claims what was not retrieved | 2 requests, a chat with 2 exchanges, a process that remembers one session, both databases, both backends, a model and the template |
| `graph_run` | the merge is exact, failures and metrics add up, no call outside the policy, every run ends | 3 agents, 4 capabilities, every outcome of every call, three policies |

Why they are enough: a lost update needs two writers and a third request to
expose it, so three requests; two cases tell a row lock from a database lock;
from OPEN one request closes the case and two race on the closed row, which reaches the
statuses that matter to the stamp (the others take part in `cases_serial`, from any status);
four of the seven types of evidence have between them an indicator, a finding, a suspicion
of a stored and of an unstored assessment and an agent each, and one has two (that the tables
of the other types agree is part of the theorem `AssessedAnalyzed`); a
finding is created, merged and merged into again in three uploads, and two hours
make the time window matter or not; three agents give two siblings that share a
capability and one that does not; two records show what a merge or a table does and three or four
what a window or a cap does, with every threshold lowered to two or three; two
requests of one chat are what numbering, summaries and eviction need, with a window of two
turns, a summary from the fourth message on and one session to remember. Requests, and uploads, are interchangeable, so
symmetry reduction is used where only safety is checked.

Which policy a run has, which database an upload meets and how many indicators
are read are initial choices (`policy`, `database`, `reading`) that no step changes, so
one run covers them all; `PlanRowIsOnePlan` is stated of SQLite alone, because the
code does not keep it on PostgreSQL (section 5). The policies of `graph_run` are the default one of the
deployed engine (one attempt, manual triage), one that retries and aborts, and
one that retries and continues degraded.

Runs that show where the code departs from what it says of itself, each with one
property and one counterexample (section 5):

| run | property that fails | bounds |
|---|---|---|
| `cases_moves` | `LegalMoves` | 2 requests on a CLOSED case |
| `paging_timeline` | `PagesCoverTheList` | 5 ids, pages of two |
| `chat_resent` | `CoveredNotResent` | 1 request in a chat with 2 exchanges |
| `graph_crash` | `TriageNeverCrashes` | 3 agents, the default policy |

Deadlock is checked in every passing run but those of FindingStore and
EvidenceAnalysis, whose bounded numbers of uploads and records really end; the other modules stutter only when every actor is
done (`Quiet`, `Rest`).

## 4. Fairness

`CaseRequests!FairSpec` assumes weak fairness of each handler's steps: the event
loop resumes every coroutine whose await is done, and a lock that stays free is
granted. It assumes nothing of clients and of failures. `WorkflowEngine!FairSpec`
assumes that threads of a superstep run and that the engine continues after it. No
other run uses fairness.

## 5. Disagreements found

Shown by a run, and quoted with their lines in `PROJECT.json`:

- `cases_moves`: a status update validates the object its session loaded and writes
  later, so overlapping requests commit moves the table forbids.
- `paging_timeline`: the timeline (and the notes and tags) are ordered by another
  column and cut by a random id, so pages skip rows.
- `chat_resent`: with the window wider than what a summary leaves uncovered, as the defaults
  are (20 and 10), a prompt has messages both in the summary and verbatim.
- `graph_crash`: two sibling agents whose failures both escape crash the run that
  was to be flagged for triage.

Seen while the modules were written; the models behave like the code, and no
property claims otherwise:

- An upload that loaded an OPEN case puts it back to INVESTIGATING whatever was
  committed since (`case_service.py:1450`), so that of two uploads both move the case,
  against "never on later uploads" (1124); the duplicate check of a creation (402), which
  lets two creations that check before either commits both pass, the deletion of a note (620)
  and the addition of a tag (647) are check-then-act in the same way.
- Updates of details, priority and labels publish an event and record no timeline entry
  (`case_service.py:524`, 543, 567); notes, indicators, assessments, agents' analyses, plans and
  reports are recorded without an event (595, 609, 625, 1158, 1199, 1224, 1280, 1317, 1356, 1426,
  1646, 1681); `case_events.py:12-15` has it that the two are always emitted together.
  `CommittedWasAnnounced` is about the five kinds of entries that have an event.
- An editor of a note who submits the text that was loaded sends no body
  (`case_note_repository.py:40`), so the note may keep another's text under an entry that is
  the timeline's last, against `case_note.py:5-8`. `NoteShowsLastSent` is about the
  bodies that were sent.
- Indicators are stored under an id that is not the evidence row's (`case_service.py:1088`), so
  the agents never see them, against 695: `SessionOK` in `UploadPipelineProofs` has it that
  no session ever holds one.
- A merge of findings takes the higher severity and keeps the older priority
  (`dedup.py:210`), drops the supporting indicators of a mapping both have (201),
  and two techniques with the same indicators never merge (107), against
  `finding_service.py:147-150`.
- On PostgreSQL the foreign key of an indicator refuses every upload that has one
  (`threat_intel_service.py:339`), and columns of two plans mix in one row
  (`incident_response_plan_repository.py:51`), since only changed columns are sent.
- A write of the evidence bytes that fails half way is kept by every later upload
  of the same bytes (`evidence_service.py:186`).
- A transient failure of an agent becomes a FAILED result before the retry policy
  sees it (`agents/base.py:126`).

Of the analyses:

- Linux security: success need not come after the failures for a compromise by brute
  force; creating an account again hides its escalation; equal findings are kept by
  their first severity. A line the parser cannot read lowers the score of every finding
  (`syslog_parser.py:77`), and of an indicator the severity that follows from it.
  `MoreEvidenceNeverClears` leaves out these two effects of a lower quality, the account that is
  created again, headers, which may be missing until their line is read, and the lines
  that end the analysis.
- Linux security: a log's times are naive, the time that stands in for a missing one (a date such
  as Feb 30, `syslog_common.py:52`) is aware; a finding made of both compares them
  (`finding_generator.py:57`), which raises and ends the analysis (`Aborts`), though
  `linux_security_service.py:327` says a malformed line never does.
- Vulnerabilities: of duplicates the first record's severity and score are kept
  (`dedup.py:102-122`), so the order of rows matters; a vector of version 4 alone scores 0
  and overrides the scanner's own severity (`extractor.py:250-287`).
- Threat intelligence: with the default rules nothing reaches "malicious" or medium
  (`IndicatorsAtMostLow`); the settings `threat_intel_max_regex_input_chars` and
  `threat_intel_min_confidence` are read by nothing.
- OWASP web: a claim of the wrong type in a token raises and ends the analysis of the
  transcript, although `advisory_engine.py:11-18` has it that a line never does (`Aborts`);
  a line with a token is read as nothing else.
- OWASP source code: one line that Python cannot parse leaves the file to no rule at all
  (`Degraded`), and the language of a file without a known extension may change with its text.
- Linux advisor: entries of `ls -l` that end in "." or "+" count as malformed
  (`permission_parser.py:128`); the first of several permission patterns decides.
- Incident response: `playbook_rules.py:146-148` says a template's priority "may escalate
  (never downgrade)", and `risk_prioritizer.py` lowers it for low severities; the record kinds
  that are skipped lower the confidence of the plan.
- Reporting: the severities of Linux advice are in the plan and not in the report's risk;
  reports are of one type, whose sections leave some charts without content; the degraded
  report cannot be reached through the agent, which refuses first (`NoHollowReport`).
- Conversation: a message committed late with a number the summary covers is never
  told; a session of another case is accepted; the process forgets nothing on a rollback.
- Memory: `LongTermMemoryManager` swallows what the store raises, so with the store down the
  agent succeeds with nothing found (`AgentRecall`); a case's own entries may crowd out the
  others (`RecallsTheNearest` says when); entries are written before the commit.

## 6. Proofs

`CaseRequestsProofs` proves, for any number of requests, cases and titles, any
workload and both kinds of lock:

- `TypeCorrect`: `Spec => []TypeOK`;
- `ClosedStamped`: a CLOSED or ARCHIVED row has its time;
- `AuditTrailCorrect`: the last status entry of a case is the status of its row.

Neither of the last two is inductive: a commit writes columns of an object
that was loaded long before. The invariant `IInv` adds what a handler's place
says of its session (`PlaceInv`), that a case in creation is nobody else's
(`CreateInv`), that whoever has written is locked and locks exclude each other
(`LockInv`), that a session's status entry carries the status its object has
(`LogInv`), that an uncommitted entry is later than every committed one of its
case (`TrailInv`: the entry is stamped under the lock), and that an object is closed
only if its row is or it will write the column (`ClosedInv`). There is one lemma
for each action; `ARCHIVED` needs the table: it is reached from CLOSED only.
The assumptions are those the constants carry in `CaseRequests`.

and of what has happened outside of the transaction:

- `TimelinePublished`: what is in the timeline is of an answered request, and the five kinds of
  entries that have an event were published as one;
- `MovesAudited`: an answered status update has its one entry in the timeline.

Events are published before the commit, so the invariant speaks of what a session has
not yet committed: each entry it has inserted was announced, unless its kind has no event
(`AnnouncedInv`; the stages of an upload have none but the findings), and a
status update holds no entry up to its flush, and exactly the one of the status it was
asked for when it commits (`MoveInv`). Both lean on `IInv` for what a session's
place says of its object. The mark of a seeded entry is assumed to be no request
(`RequestsAssumption`).

and of the server that handles one request at a time (`SerialSpec`):

- `SerialMovesLegal`: every committed move is one of the lifecycle table, which concurrency
  breaks (`cases_moves`);
- `SerialImplementsBoard`: the rows and the timeline implement `CaseBoard`.

`SerialSpec` has the steps of `Spec` and one condition more on arrival, so `IInv` holds.
`SInv` adds that one request is under way (`Alone`), that its object has the columns
of the row but for what it has written, which is a legal move or a title (`Fresh`),
that a creation past its check still has no rival, and that trails are finite. The history
of a case is its status entries in the order of their times. Of a trail with distinct
times the mapping is shown to give back an appended entry at the end (the trail's new entry
is the latest, by `TrailInv`), so that `Commit` maps to the board's `Open`,
`Move` or `Retitle`, or to a stutter, and every other step to a stutter.

`CaseAnnotationsProofs` proves of one case, for any number of requests, any tags
and both kinds of lock:

- `TypeCorrect`: `Spec => []TypeOK`;
- `LastSentShown`: a note shows the last of the bodies that were sent, by its timeline;
- `DeletedForever`: a deleted note never comes back;
- `TagsKept`: an answered tag stays unless its removal was answered too.

A request acts on what it looked up long before, so the invariant says what has
become of that by the time it writes: what a request asks (`AskedInv`), that whoever
has written is alone with its row, and that an editor's row is still there
(`LockInv`), that the note a request adds is nobody else's until it is answered
(`BirthInv`: its id is not known to any client before), and that the entry a session
has yet to commit is the latest of its note (`TrailInv`); what a note shows was sent by a request
that is over (`WriterInv`). With these the three
properties are part of an inductive invariant; each action has its lemma, and
`RollbackKeeps` serves all the ways to end without a commit.

`UploadPipelineProofs` proves of one case, for any number of uploads of any contents,
on either database, with a failure or a crash at every step:

- `PlanRowWhole`: on SQLite the columns beside a plan's JSON are those of that plan;
- `AssessedAnalyzed`: what was assessed was analysed by the agent that reads it;
- `ReportOneRunBehind`: a report has the plan that was the case's before its upload;
- `ReportWithPlan`: whoever replaces the report replaces the plan, unless the response agent of
  the run failed.

The invariant says that on SQLite one upload at most is past its first flush
(`TurnInv`), so that what it has read of the plan is still what is committed, and it
has a plan of its own if there are findings and its response agent has not failed (`ReadOK`); that a session has its
own content and nothing else (`SessionOK`); that the required agents have all left
an entry once the run is over (`EntriesOK`); and that whose plan the case has was
answered (`CommittedInv`). On PostgreSQL the last two results hold for a poorer
reason, and the invariant shows it: the foreign key refuses every upload with an
indicator, so there is never a finding, nor a report. The mark for "no upload" is
assumed to be none (`NobodyAssumption`).

`WorkflowEngineProofs` proves of one run, for any agents and capabilities, any plan,
policy and outcome of every call:

- `RunTyped`: `Spec => []TypeOK`;
- `MergeExact`: the merge neither loses nor doubles what an agent did;
- `CopiesPrivate`: no agent sees what a sibling has written;
- `EscapesFlagged`: under manual triage the case is flagged exactly if it has to be;
- `EventsBalance`: the events account for every agent that was started;
- `CapabilitiesAnswered`: every capability some agent has was reported on, or its failure
  recorded;
- `CallsBounded`: no call after a report, none beyond the policy.

In each state, `WInv` says what a node has done from where it is (`NodeInv`): its copy is
the coordinator's state with the traces of one outcome, its update is exactly those
traces, its counters fit. `PhaseInv` says which nodes may be where in each phase, and
that the merge starts when all planned nodes are done. `MergeInv` follows the merge one
update at a time: of the agents whose turn has come the shared state has what their
updates have, of the others nothing. The model reduces one update per step for this
invariant to have a state to speak of; as one fold over all of them it would be an
induction over data. `NamesAssumption` says that the names list the agents, each once, and
that no agent has a name of the framework (`RESERVED_FRAMEWORK_AGENT_NAMES` in
`planning_agent.py`): an agent named "coordinator" would be counted twice.

`FindingStoreProofs` proves of one case, for any rules, kinds, severities, times and
numbers of uploads:

- `FindingsTyped`: `Spec => []TypeOK`;
- `MergesKeep`: no upload takes indicators or severity from a finding, whatever is read;
- `EvidenceTogether`: if all indicators are read, one finding of each technique has all
  that its rule maps;
- `LargestGrows`: only a finding that holds the others of its technique grows.

`OneFindingHasAll` needs two facts: a finding is named by its upload and technique
(`Named`), so a merge replaces one finding, and the findings of a technique are a
chain of sets (`Nested`). The candidate of an upload holds all that supports its technique,
so of the findings of a technique the largest is the most similar, and the merge goes
there; `EvidenceTogether` then follows because a candidate that merges with nothing is a
finding of its own. The order of similarities is a comparison of quotients
of cardinalities; whole units are the model's alone, and the bound assumed of a
reading's cap (`ReadingsAssumption`) is what makes them order as the code's floats do.

`ConversationProofs` proves, for any number of requests, chats and cases, both databases and
both backends, and a chat with any number of exchanges at the start:

- `ChatsPaired`: the messages stored of a case are questions with their answers behind them,
  and the counters of turns and messages agree with that;
- `ChatsRemembered`: a stored summary tells no message twice and none that is not there, and the
  prompt of a request that is alone in its session ends with the latest (that the prompt
  tells none twice is false: `chat_resent`);
- `ChatsGrounded`: whatever the model claims, an answer cites what its case, the knowledge
  base or the memory of other cases has, and one that claims confidence cites something.

Two requests of one chat may read the same numbers, so nothing can be said of the numbers of
different exchanges. The invariant `CInv` says what a session has written at each place
(`MineOK`: nothing, its question, or both messages, the answer with the higher number, since
`NextIndex` sees the question), that the turns it has read are at most half of the messages
(`SeenOK`: rows are overwritten, but messages are only ever added), that a message of a
request is there only if the request was answered (`AuthorInv`: so its exchange is the
first one), and that each case has two messages per answer (`CountInv`). Of `NextIndex` it is
shown that it is above every number of a sequence of any length, by looking at the
shortest one for which it is not. Questions are about cases there are, and have finitely many words
(`WorkloadAssumption`), and the exchanges of the chat at the start are told from those of
requests (`SeedAssumption`).

`HInv` is about the stored summary of a chat and the end of a prompt. Requests that are at once in a session have raced
for it (`Alone`); as long as nobody has, the numbers of its messages rise, what a request is
about to write is numbered after them (`NewestLast`), and what it has read is the end of what
is there (`Prompted`), because a window that is asked for newest first and turned round is
the end of a list with rising numbers. The summary a chat has, a request has read, or is about to
write tells what is stored (`SummaryTold`), and whether it is made from an earlier summary and the
messages behind that or from all of them, it never tells one twice. The three bounds of a history are positive
(`HistoryAssumption`, as `settings.py` has it).

`GInv` says that each answer is grounded in the case that was asked about. Context and
citations come from what `Hydrate` reads, so the proof follows sets: a selection, a ranking or a
cut of a list over T is a list over T (from `SelectionProofs`), and T is what the evidence,
the knowledge base and the memory of others have. The evidence, the documents
and the store are lists of texts (`EvidenceAssumption`, `DocumentAssumption`,
`StoreAssumption`), and limits are integers (`LimitAssumption`).

`SelectionProofs` has the lemmas these proofs and the next ones share. The main one: of
finitely many positions and any order that is transitive and irreflexive, ties
broken by place, `Sorted` lists each position once and in the order (`SortedSelects`), so that
whoever is ahead of an element is before it. From it follow what a first part of a list
leaves out (`FirstTaken`), what concatenating lists of lists yields, that selections of
selections are rankings, and that of what is sorted by nearness the first n are the
nearest n (`SelectedNearest`, `SelectedEnough`). What would be an induction over a
list is proved by its least counterexample: the shortest prefix, or the lowest rank,
for which a claim fails.

`EvidenceAnalysisProofs` proves, for artifacts and cases of any number of records:

- `ReportsFilled`: a report that is made is never hollow;
- `IndicatorsLow`: with the shipped thresholds and default rules, whatever a text holds and
  whatever the parser's confidence in it, no indicator is more severe than low;
- `PlanKept`: merging, consolidating and ordering recommendations keeps each finding in every
  category it calls for, no less urgent and no less risky than alone;
- `NearestRecalled`: what is recalled is of other cases and has fewer than TopK nearer
  entries, and a near one is missed only if the case's own entries crowd it out or the
  context is cut.

In all four the invariant is that `intel` is the analysis of the `records` read (`ReportInv`,
`ThreatInv`, `PlanInv`, `MemoryInv`), and what each reading needs of them; the work is in
lemmas about the analyses. For the report: each kind of record that lets a report be made fills an
appendix. For indicators: each way to find one and each merge of duplicates keeps
its confidence among a few values, a rule that matches adds a bounded amount, and the sum
over the rules in effect stays below the medium threshold. `TextAssumption`
has finite texts; `RulesAssumption` has thresholds as shipped or higher, and rules
registered beside the default ones that only combine others. For the plan: an action is `Sound` if
it keeps its findings and is as urgent and risky as each of them, which the first
step makes true and each merge keeps; grades are in the ranges their models give them
(`CaseAssumption`). For the memory: nearness, a comparison of quotients, is a weak order,
and each stage (three times as many as wanted, those of others, as many as wanted, the near
ones, the first TopK) keeps the nearest of the stage before. Texts have finitely many
words, and numbers asked for are positive (`MemoryAssumption`).

Only model-checked: liveness under fairness, which is out of the provers' reach
(`EveryRequestEnds`, `RunEnds`); `MoreEvidenceNeverClears`, which compares the analyses of two
artifacts, each a fold over records with windows and caps (an induction over data);
`WorseNeverScoresLower` and `HeaderNoWorseThanNone`, which are about finitely many vectors and
headers, all of which TLC visits; and the paging of
`CursorPaging` and the other runs of section 5, whose properties the code does not have.

## 7. Not modelled

Texts, log lines, latencies and layout (the renderers of reports, the pages); the
risk score of a case; composite confidence and escalation by tactic of findings; the
parsers, of which only is kept that an upload is accepted and which records there are;
the verdicts of the SOC analyst's and the phishing agent; short-term memory and
retention, which nothing calls; migrations, settings (constants here), scripts.
`PROJECT.json` lists every component with its status.

## 8. Plan

1. (done) Case requests with their proof, the workflow engine, notes, paging, the
   findings, the upload pipeline; the analyses, plan, report, memory and conversation.
2. Parser selection and degradation; the confidence and risk of findings and cases.
3. (done) Proofs about case requests and their refinement, notes, uploads, the engine,
   findings, chats, and the analyses: every invariant of a passing run.
4. Proofs left: `MoreEvidenceNeverClears`, one detector at a time, where a detector is a
   selection (`SelectionProofs`) and not a fold.
