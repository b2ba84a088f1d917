--------------------------- MODULE UploadPipeline ---------------------------
(***************************************************************************)
(* The pipeline of an uploaded artifact: store the bytes, insert the       *)
(* evidence row, extract indicators, generate findings, assess by type,    *)
(* run the specialist agents, persist the response plan and the report,    *)
(* remember the findings, commit.                                          *)
(*                                                                         *)
(* All rows belong to one transaction; the bytes and the memory do not.    *)
(* On SQLite an upload holds the write lock from its evidence row to its   *)
(* commit and foreign keys are not enforced; on PostgreSQL they are, and   *)
(* only the row of the case's plan is contended for.  What the uploads do  *)
(* to the row of the case is in CaseRequests, how findings are mapped and  *)
(* merged in FindingStore, how agents run in WorkflowEngine.  Here every   *)
(* planned agent leaves a result, as BaseAgent makes of any error one that *)
(* says so; that of a failed agent has no plan, and no report.             *)
(***************************************************************************)
EXTENDS Naturals

CONSTANTS
    Uploads,
    Contents,       \* the bytes of artifacts
    Type,           \* the evidence type of each content
    Indicative,     \* contents in which indicators are found
    Suspicious,     \* contents an assessment finds something in
    Severities,     \* of incident response plans
    Databases       \* what the application may be deployed on

VARIABLES
    database,
    blob,       \* of each content in the evidence directory
    db,         \* the committed rows of the case
    memory,     \* uploads whose findings are in the vector store
    job,        \* the content of each upload
    pc,         \* where its handler is
    mine        \* what its transaction has so far

vars == <<database, blob, db, memory, job, pc, mine>>

EvidenceTypes == {"email", "scan", "auth", "command", "http", "code", "log"}

ASSUME TypeAssumption == Type \in [Contents -> EvidenceTypes]
ASSUME ContentAssumption == Indicative \subseteq Contents /\ Suspicious \subseteq Contents
ASSUME DatabaseAssumption == Databases \subseteq {"SQLite", "PostgreSQL"}

PostgreSQL == database = "PostgreSQL"

CrossCutting == {"mitre", "response", "report", "memory"}

\* A slip: a type has one specialist.
OneSpecialist(type) ==
    CASE type = "email" -> {"phishing"}
      [] type = "scan" -> {"vulnerability"}
      [] type = "command" -> {"linux"}
      [] type = "http" -> {"web"}
      [] type = "code" -> {"sast"}
      [] OTHER -> {"soc"}

Specialists(type) ==
    CASE type = "email" -> {"phishing"}
      [] type = "scan" -> {"vulnerability"}
      [] type = "auth" -> {"soc", "hunter"}
      [] type = "command" -> {"linux"}
      [] type = "http" -> {"web"}
      [] type = "code" -> {"sast"}
      [] OTHER -> {"soc"}

RequiredCapabilities(type) == Specialists(type) \cup CrossCutting

\* The agent that reads the records of the assessment of a type, if there is one.
AssessedFor(type) ==
    CASE type = "scan" -> {"vulnerability"}
      [] type = "auth" -> {"hunter"}
      [] type = "command" -> {"linux"}
      [] type = "http" -> {"web"}
      [] type = "code" -> {"sast"}
      [] OTHER -> {}

\* Assessments that insert rows, which refer to the evidence.
Stored(type) == type \in {"scan", "auth"}

\* The id of the evidence row, and the id the parser gives its result.
RowId(u) == <<"row", u>>
RecordId(u) == <<"record", u>>

Nobody == "none"
ASSUME NobodyAssumption == Nobody \notin Uploads

NoPlan == [data |-> Nobody, severity |-> Nobody]
NoReport == [by |-> Nobody, plan |-> Nobody]
Nothing == [rows |-> {}, iocs |-> {}, findings |-> {}, entries |-> {},
            suspicion |-> FALSE, indicators |-> {}, hydrated |-> Nobody,
            failed |-> {}, loaded |-> NoPlan, plan |-> NoPlan, report |-> NoReport]

InTransaction ==
    {"extract", "generate", "assess", "analyze", "load", "flush", "report",
     "remember", "commit"}
Running == {"validate", "store", "ingest"} \cup InTransaction
Finished == {"answered", "rejected", "failed", "refused", "conflict"}
Active(u) == pc[u] \in Running

Kind(u) == Type[job[u]]
Goto(u, place) == pc' = [pc EXCEPT ![u] = place]
Entry(u, kind, agent) == [up |-> u, kind |-> kind, agent |-> agent]
Note(u, kind, agents) == mine[u].entries \cup {Entry(u, kind, a) : a \in agents}

\* The foreign key of a row that names an evidence id.
Refers(u, id) == PostgreSQL => id \in db.evidence \cup mine[u].rows

Abandon(u, outcome) ==
    /\ Goto(u, outcome)
    /\ mine' = [mine EXCEPT ![u] = Nothing]
    /\ UNCHANGED <<database, db, job>>

Rollback(u, outcome) == Abandon(u, outcome) /\ UNCHANGED <<blob, memory>>

-----------------------------------------------------------------------------
(* Ingestion. *)
Arrive(u) ==
    /\ pc[u] = "idle"
    /\ \E c \in Contents : job' = [job EXCEPT ![u] = c]
    /\ Goto(u, "validate")
    /\ UNCHANGED <<database, blob, db, memory, mine>>

Accept(u) ==
    /\ pc[u] = "validate"
    /\ Goto(u, "store")
    /\ UNCHANGED <<database, blob, db, memory, job, mine>>

Reject(u) == pc[u] = "validate" /\ Rollback(u, "rejected")

\* _store_raw_content: only a path that does not exist is written.
Store(u) ==
    /\ pc[u] = "store"
    /\ blob' = [blob EXCEPT ![job[u]] = IF @ = "none" THEN "whole" ELSE @]
    /\ Goto(u, "ingest")
    /\ UNCHANGED <<database, db, memory, job, mine>>

\* The disk is full, or the process is killed, in the middle of the write.
StoreFails(u) ==
    /\ pc[u] = "store"
    /\ blob[job[u]] = "none"
    /\ blob' = [blob EXCEPT ![job[u]] = "part"]
    /\ Abandon(u, "failed")
    /\ UNCHANGED memory

MayWrite(u) == PostgreSQL \/ \A v \in Uploads \ {u} : pc[v] \notin InTransaction

Ingest(u) ==
    /\ pc[u] = "ingest"
    /\ MayWrite(u)
    /\ mine' = [mine EXCEPT ![u].rows = {RowId(u)},
                            ![u].entries = Note(u, "evidence_ingested", {Nobody})]
    /\ Goto(u, "extract")
    /\ UNCHANGED <<database, blob, db, memory, job>>

-----------------------------------------------------------------------------
(* Extraction, findings, assessments. *)
Extract(u) ==
    LET iocs == IF job[u] \in Indicative THEN {[up |-> u, evidence |-> RecordId(u)]} ELSE {}
    IN  /\ pc[u] = "extract"
        /\ \A i \in iocs : Refers(u, i.evidence)
        /\ mine' = [mine EXCEPT ![u].iocs = iocs,
                                ![u].entries = Note(u, "ioc_extracted", {Nobody})]
        /\ Goto(u, "generate")
        /\ UNCHANGED <<database, blob, db, memory, job>>

\* New findings, if the indicators of the case map to any.
Generate(u) ==
    /\ pc[u] = "generate"
    /\ \/ mine' = mine
       \/ /\ db.iocs \cup mine[u].iocs # {}
          /\ mine' = [mine EXCEPT ![u].findings = {u},
                                  ![u].entries = Note(u, "finding_generated", {Nobody})]
    /\ Goto(u, "assess")
    /\ UNCHANGED <<database, blob, db, memory, job>>

Assess(u) ==
    /\ pc[u] = "assess"
    /\ Stored(Kind(u)) /\ job[u] \in Suspicious => Refers(u, RecordId(u))
    /\ mine' = [mine EXCEPT
         ![u].suspicion = AssessedFor(Kind(u)) # {} /\ job[u] \in Suspicious,
         ![u].entries = Note(u, "assessed", AssessedFor(Kind(u)))]
    /\ Goto(u, "analyze")
    /\ UNCHANGED <<database, blob, db, memory, job>>

\* IntegrityError of a foreign key.
Refuse(u) ==
    /\ \/ pc[u] = "extract" /\ job[u] \in Indicative
       \/ pc[u] = "assess" /\ Stored(Kind(u)) /\ job[u] \in Suspicious
    /\ ~Refers(u, RecordId(u))
    /\ Rollback(u, "refused")

-----------------------------------------------------------------------------
(* The run of the agents. *)
Findings(u) == db.findings \cup mine[u].findings

\* _hydrate_attributed_iocs
Attributed(u) == {i \in db.iocs \cup mine[u].iocs : i.evidence = RowId(u)}

\* A slip: the agents plan from the records of this upload only.
OwnConcern(u) == mine[u].suspicion \/ mine[u].findings # {}

\* There is something to plan a response to.
Concern(u) == mine[u].suspicion \/ Findings(u) # {}

\* The agents of which it matters here whether they failed: a tool refused, for
\* one as there are too many findings for a plan, or whatever else was raised.
Fallible == {"response", "report"}

Analyze(u) ==
    /\ pc[u] = "analyze"
    /\ \E s \in Severities, failed \in SUBSET Fallible : mine' = [mine EXCEPT
         ![u].indicators = Attributed(u),
         ![u].hydrated = db.plan.data,
         ![u].failed = failed,
         ![u].plan = IF Concern(u) /\ "response" \notin failed
                     THEN [data |-> u, severity |-> s] ELSE NoPlan,
         ![u].entries = Note(u, "agent_analysis", RequiredCapabilities(Kind(u)))]
    /\ Goto(u, "load")
    /\ UNCHANGED <<database, blob, db, memory, job>>

\* upsert_for_case of the plan looks for the row ...
LoadPlan(u) ==
    /\ pc[u] = "load"
    /\ mine[u].plan # NoPlan
    /\ mine' = [mine EXCEPT ![u].loaded = db.plan]
    /\ Goto(u, "flush")
    /\ UNCHANGED <<database, blob, db, memory, job>>

NoPlanMade(u) ==
    /\ pc[u] = "load"
    /\ mine[u].plan = NoPlan
    /\ Goto(u, "report")
    /\ UNCHANGED <<database, blob, db, memory, job, mine>>

PlanIsFree(u) == \A v \in Uploads \ {u} :
    ~(mine[v].plan # NoPlan /\ pc[v] \in {"report", "remember", "commit"})

\* ... and inserts or updates it, once no other upload has the row.
FlushPlan(u) ==
    /\ pc[u] = "flush"
    /\ PlanIsFree(u)
    /\ mine[u].loaded = NoPlan => db.plan = NoPlan
    /\ mine' = [mine EXCEPT ![u].entries = Note(u, "incident_response_plan_generated", {Nobody})]
    /\ Goto(u, "report")
    /\ UNCHANGED <<database, blob, db, memory, job>>

\* IntegrityError of the unique index on the case.
PlanConflict(u) ==
    /\ pc[u] = "flush"
    /\ PlanIsFree(u)
    /\ mine[u].loaded = NoPlan /\ db.plan # NoPlan
    /\ Rollback(u, "conflict")

\* A slip: the report is made with the plan of its own run.
ReportOfThisRun(u) == [by |-> u, plan |-> mine[u].plan.data]

Report(u) == [by |-> u, plan |-> mine[u].hydrated]

\* Without findings and indicators there is no report; nor is there on PostgreSQL.
\* Whether there was a plan is not asked.
PersistReport(u) ==
    /\ pc[u] = "report"
    /\ IF "report" \notin mine[u].failed /\ (Findings(u) # {} \/ mine[u].indicators # {})
       THEN mine' = [mine EXCEPT ![u].report = Report(u),
                                 ![u].entries = Note(u, "report_generated", {Nobody})]
       ELSE mine' = mine
    /\ Goto(u, "remember")
    /\ UNCHANGED <<database, blob, db, memory, job>>

\* Memory is advisory: a failure is swallowed.
Remember(u) ==
    /\ pc[u] = "remember"
    /\ \/ memory' = memory
       \/ mine[u].findings # {} /\ memory' = memory \cup {u}
    /\ Goto(u, "commit")
    /\ UNCHANGED <<database, blob, db, job, mine>>

\* A slip: the columns beside the JSON are filled by the insertion only.
PlanRowKeepsColumns(u) ==
    LET new == mine[u].plan
    IN  IF new = NoPlan THEN db.plan
        ELSE [data |-> new.data,
              severity |-> IF db.plan = NoPlan THEN new.severity ELSE db.plan.severity]

\* A column that got the value it was loaded with is not written.
PlanRow(u) ==
    LET new == mine[u].plan
    IN  IF new = NoPlan THEN db.plan
        ELSE [data |-> new.data,
              severity |-> IF new.severity = mine[u].loaded.severity
                           THEN db.plan.severity ELSE new.severity]

Commit(u) ==
    /\ pc[u] = "commit"
    /\ db' = [evidence |-> db.evidence \cup mine[u].rows,
              iocs |-> db.iocs \cup mine[u].iocs,
              findings |-> db.findings \cup mine[u].findings,
              timeline |-> db.timeline \cup mine[u].entries,
              plan |-> PlanRow(u),
              report |-> IF mine[u].report = NoReport THEN db.report ELSE mine[u].report]
    /\ Goto(u, "answered")
    /\ UNCHANGED <<database, blob, memory, job, mine>>

Fail(u) == Active(u) /\ Rollback(u, "failed")

\* The process dies; every transaction is rolled back.
Crash ==
    /\ \E u \in Uploads : Active(u)
    /\ pc' = [u \in Uploads |-> IF Active(u) THEN "failed" ELSE pc[u]]
    /\ mine' = [u \in Uploads |-> IF Active(u) THEN Nothing ELSE mine[u]]
    /\ UNCHANGED <<database, blob, db, memory, job>>

-----------------------------------------------------------------------------
Init ==
    /\ database \in Databases
    /\ blob = [c \in Contents |-> "none"]
    /\ db = [evidence |-> {}, iocs |-> {}, findings |-> {}, timeline |-> {},
             plan |-> NoPlan, report |-> NoReport]
    /\ memory = {}
    /\ job \in [Uploads -> {CHOOSE c \in Contents : TRUE}]
    /\ pc = [u \in Uploads |-> "idle"]
    /\ mine = [u \in Uploads |-> Nothing]

Step(u) ==
    \/ Accept(u) \/ Reject(u) \/ Store(u) \/ StoreFails(u) \/ Ingest(u)
    \/ Extract(u) \/ Generate(u) \/ Assess(u) \/ Refuse(u) \/ Analyze(u)
    \/ LoadPlan(u) \/ NoPlanMade(u) \/ FlushPlan(u) \/ PlanConflict(u)
    \/ PersistReport(u) \/ Remember(u) \/ Commit(u)

Quiet == (\A u \in Uploads : pc[u] \in Finished) /\ UNCHANGED vars

Next == (\E u \in Uploads : Arrive(u) \/ Step(u) \/ Fail(u)) \/ Crash \/ Quiet

Spec == Init /\ [][Next]_vars

-----------------------------------------------------------------------------
(* Properties. *)
\* The report is one run behind: it has the plan that was the case's before the
\* upload that made it was committed, however many uploads there are.
ReportIsOneRunBehind ==
    [][db'.report # db.report => db'.report.plan = db.plan.data]_vars

\* Plan and report of a case come from one run, unless the response agent of the
\* run failed: then the report is replaced, and a plan of an earlier run stays
\* beside it.  No upload brings a report and finds nothing to plan for.
ReportComesWithPlan ==
    [][db'.report # db.report =>
         \/ db'.plan.data = db'.report.by
         \/ "response" \in mine[db'.report.by].failed]_vars

\* Where uploads exclude each other, the columns of the plan's row are those of
\* the plan it holds.
PlanRowIsOnePlan ==
    ~PostgreSQL => \A u \in Uploads : db.plan.data = u => db.plan.severity = mine[u].plan.severity

\* The tables of assessments and of specialists agree: what was assessed was
\* analysed by the agent that reads the assessment.
AssessedIsAnalyzed ==
    \A e \in db.timeline :
        e.kind = "assessed" => Entry(e.up, "agent_analysis", e.agent) \in db.timeline

=============================================================================
