------------------------ MODULE UploadPipelineProofs ------------------------
(***************************************************************************)
(* Proofs about UploadPipeline: for any number of uploads of any contents, *)
(* on either database, with failures and crashes at every step.            *)
(***************************************************************************)
EXTENDS UploadPipeline, TLAPS

-----------------------------------------------------------------------------
(* The shape of the state, as far as the proofs need it. *)

Agents ==
    {"phishing", "vulnerability", "soc", "hunter", "linux", "web", "sast", "none"}
    \cup CrossCutting

EntryKinds ==
    {"evidence_ingested", "ioc_extracted", "finding_generated", "assessed",
     "agent_analysis", "incident_response_plan_generated", "report_generated"}

Rows == {RowId(u) : u \in Uploads}
Iocs == [up : Uploads, evidence : {RecordId(u) : u \in Uploads}]
Entries == [up : Uploads, kind : EntryKinds, agent : Agents]
Plans == [data : Uploads \cup {Nobody}, severity : Severities \cup {Nobody}]
Reports == [by : Uploads \cup {Nobody}, plan : Uploads \cup {Nobody}]

Sessions ==
    [rows : SUBSET Rows, iocs : SUBSET Iocs, findings : SUBSET Uploads,
     entries : SUBSET Entries, suspicion : BOOLEAN, indicators : SUBSET Iocs,
     hydrated : Uploads \cup {Nobody}, failed : SUBSET Fallible, loaded : Plans, plan : Plans, report : Reports]

Tables ==
    [evidence : SUBSET Rows, iocs : SUBSET Iocs, findings : SUBSET Uploads,
     timeline : SUBSET Entries, plan : Plans, report : Reports]

Places == {"idle"} \cup Running \cup Finished

Shape ==
    /\ db \in Tables
    /\ job \in [Uploads -> Contents \cup {CHOOSE c \in Contents : TRUE}]
    /\ pc \in [Uploads -> Places]
    /\ mine \in [Uploads -> Sessions]

-----------------------------------------------------------------------------
(* The invariant. *)

\* On SQLite one upload at most is past its first flush.
TurnInv == ~PostgreSQL =>
    \A u, v \in Uploads : pc[u] \in InTransaction /\ pc[v] \in InTransaction => u = v

Analyzed == {"load", "flush", "report", "remember", "commit"}

\* What the session m of upload u holds when its handler is at p: nothing before
\* and after the transaction; on PostgreSQL no indicators, hence no findings and no
\* report; a plan of its own.
SessionOK(u, p, m) ==
    /\ p \notin InTransaction \cup {"answered"} => m = Nothing
    /\ PostgreSQL => m.iocs = {} /\ m.findings = {}
    /\ m.indicators = {}
    /\ m.plan = NoPlan \/ m.plan.data = u
    /\ m.report # NoReport =>
         /\ ~PostgreSQL
         /\ p \in {"remember", "commit", "answered"}
         /\ m.report = [by |-> u, plan |-> m.hydrated]
         /\ m.plan # NoPlan \/ "response" \in m.failed

\* On SQLite what a session has read of the plan is still what is committed, and
\* there is a plan wherever there are findings and the response agent has not failed.
ReadOK(p, m) ==
    ~PostgreSQL =>
        /\ p \in Analyzed => /\ m.hydrated = db.plan.data
                             /\ db.findings \cup m.findings # {} =>
                                  m.plan # NoPlan \/ "response" \in m.failed
        /\ p \in Analyzed \ {"load"} /\ m.plan # NoPlan => m.loaded = db.plan

\* The entries of a session: assessed for agents that, once the run is over, have
\* each left an entry.
EntriesOK(u, p, m) ==
    /\ \A e \in m.entries :
         e.up = u /\ (e.kind = "assessed" => e.agent \in AssessedFor(Kind(u)))
    /\ p \in Analyzed =>
         \A a \in RequiredCapabilities(Kind(u)) : Entry(u, "agent_analysis", a) \in m.entries

UploadOK(u, p, m) == SessionOK(u, p, m) /\ ReadOK(p, m) /\ EntriesOK(u, p, m)

\* On PostgreSQL no indicator or finding was ever committed; whose plan the case
\* has was answered, and it is that plan.
CommittedInv ==
    /\ PostgreSQL => db.iocs = {} /\ db.findings = {}
    /\ \A u \in Uploads : db.plan.data = u =>
         pc[u] = "answered" /\ (~PostgreSQL => db.plan.severity = mine[u].plan.severity)
    /\ AssessedIsAnalyzed

IInv == /\ Shape
        /\ TurnInv
        /\ \A u \in Uploads : UploadOK(u, pc[u], mine[u])
        /\ CommittedInv
-----------------------------------------------------------------------------
(* The steps. *)

USE DatabaseAssumption, NobodyAssumption DEF Goto, Running, Finished, InTransaction

\* An agent that reads assessments of a type is required for the type.
LEMMA AssessedAreRequired ==
    ASSUME NEW type
    PROVE  /\ AssessedFor(type) \subseteq RequiredCapabilities(type)
           /\ RequiredCapabilities(type) \subseteq Agents
<1>1. AssessedFor(type) \subseteq Specialists(type)
  BY DEF AssessedFor, Specialists
<1>2. Specialists(type) \subseteq Agents
  BY DEF Specialists, Agents
<1> QED BY <1>1, <1>2 DEF RequiredCapabilities, CrossCutting, Agents

\* Sessions and tables are empty at first.
LEMMA NothingIsEmpty == Nothing \in Sessions
BY DEF Nothing, NoPlan, NoReport, Sessions, Plans, Reports

\* A session with nothing is in order wherever no transaction is.
LEMMA NothingIsOK ==
    ASSUME NEW u \in Uploads, NEW p, p \notin InTransaction
    PROVE  UploadOK(u, p, Nothing)
BY DEF UploadOK, SessionOK, ReadOK, EntriesOK, Nothing, Analyzed, NoReport, NoPlan

\* Initially no transaction is open and no row is there.
LEMMA Initially == ASSUME Init PROVE IInv
<1>1. Shape
  BY NothingIsEmpty
     DEF Init, Shape, Places, Tables, Plans, Reports, NoPlan, NoReport
<1>2. TurnInv
  BY DEF Init, TurnInv
<1>3. \A u \in Uploads : UploadOK(u, pc[u], mine[u])
  BY NothingIsOK DEF Init
<1>4. CommittedInv
  BY DEF Init, CommittedInv, AssessedIsAnalyzed, NoPlan
<1> QED BY <1>1, <1>2, <1>3, <1>4 DEF IInv

\* A step that commits nothing keeps the invariant if it leaves every session in
\* order and the answered ones alone, and starts no second transaction on SQLite.
LEMMA UncommittedKeeps ==
    ASSUME IInv, UNCHANGED <<database, db>>,
           job' \in [Uploads -> Contents \cup {CHOOSE c \in Contents : TRUE}],
           pc' \in [Uploads -> Places],
           mine' \in [Uploads -> Sessions],
           TurnInv',
           \A u \in Uploads : pc[u] = "answered" => pc'[u] = pc[u] /\ mine'[u] = mine[u],
           \A u \in Uploads : UploadOK(u, pc[u], mine[u])'
    PROVE  IInv'
<1>1. Shape'
  BY DEF IInv, Shape
<1>2. CommittedInv'
  BY DEF IInv, CommittedInv, AssessedIsAnalyzed, Entry, PostgreSQL
<1> QED BY <1>1, <1>2 DEF IInv

\* The same of one upload that goes from p to q: the others stay as they are.
LEMMA OneKeeps ==
    ASSUME IInv, UNCHANGED <<database, db, job>>, NEW u \in Uploads,
           NEW q \in Places, pc[u] # "answered", Goto(u, q),
           NEW m \in Sessions, mine' = [mine EXCEPT ![u] = m],
           q \in InTransaction /\ pc[u] \notin InTransaction => MayWrite(u),
           UploadOK(u, q, m)
    PROVE  IInv'
<1>1. pc' \in [Uploads -> Places] /\ mine' \in [Uploads -> Sessions]
  BY DEF IInv, Shape
<1>2. TurnInv'
  BY DEF IInv, Shape, TurnInv, MayWrite, PostgreSQL
<1>3. \A v \in Uploads : UploadOK(v, pc'[v], mine'[v])
  BY DEF IInv, Shape
<1>4. \A v \in Uploads : UploadOK(v, pc[v], mine[v])'
  BY <1>3 DEF UploadOK, SessionOK, ReadOK, EntriesOK, PostgreSQL, Kind
<1> QED BY <1>1, <1>2, <1>4, UncommittedKeeps DEF IInv, Shape

\* A transaction that ends without a commit leaves nothing behind in the tables.
LEMMA AbandonKeeps ==
    ASSUME IInv, NEW u \in Uploads, pc[u] # "answered",
           NEW outcome \in Finished \ {"answered"}, Abandon(u, outcome)
    PROVE  IInv'
<1>1. UploadOK(u, outcome, Nothing)
  BY NothingIsOK
<1>2. outcome \in Places
  BY DEF Places
<1> QED BY <1>1, <1>2, NothingIsEmpty, OneKeeps DEF Abandon

\* Before its transaction a handler has nothing.
LEMMA EarlyKeeps ==
    ASSUME IInv, NEW u \in Uploads, Arrive(u) \/ Accept(u) \/ Store(u)
    PROVE  IInv'
<1>1. PICK q \in {"validate", "store", "ingest"} :
        /\ pc[u] \in {"idle", "validate", "store"}
        /\ Goto(u, q)
  BY DEF Arrive, Accept, Store
<1>2. UNCHANGED <<database, db, mine>>
  BY DEF Arrive, Accept, Store
<1>3. job' \in [Uploads -> Contents \cup {CHOOSE c \in Contents : TRUE}]
      /\ \A v \in Uploads \ {u} : job'[v] = job[v]
  BY DEF Arrive, Accept, Store, IInv, Shape
<1>4. pc' \in [Uploads -> Places] /\ mine' \in [Uploads -> Sessions]
  BY <1>1, <1>2 DEF IInv, Shape, Places
<1>5. TurnInv'
  BY <1>1, <1>2 DEF IInv, Shape, TurnInv, PostgreSQL
<1>6. UploadOK(u, pc[u], mine[u])'
  <2>1. mine[u] = Nothing
    BY <1>1 DEF IInv, UploadOK, SessionOK
  <2>2. UploadOK(u, q, Nothing)'
    BY <1>1 DEF UploadOK, SessionOK, ReadOK, EntriesOK, Nothing, Analyzed, NoReport, NoPlan
  <2> QED BY <1>1, <1>2, <2>1, <2>2 DEF IInv, Shape
<1>7. ASSUME NEW v \in Uploads \ {u} PROVE UploadOK(v, pc[v], mine[v])'
  <2>1. pc'[v] = pc[v] /\ UploadOK(v, pc[v], mine[v])
    BY <1>1 DEF IInv, Shape
  <2> QED BY <1>2, <1>3, <2>1
          DEF UploadOK, SessionOK, ReadOK, EntriesOK, PostgreSQL, Kind
<1>8. \A v \in Uploads : pc[v] = "answered" => pc'[v] = pc[v] /\ mine'[v] = mine[v]
  BY <1>1, <1>2 DEF IInv, Shape
<1> QED BY <1>2, <1>3, <1>4, <1>5, <1>6, <1>7, <1>8, UncommittedKeeps

\* Entries that a step adds to its session are of the declared shape.
LEMMA NoteShape ==
    ASSUME NEW u \in Uploads, mine[u] \in Sessions,
           NEW kind \in EntryKinds, NEW agents \in SUBSET Agents
    PROVE  Note(u, kind, agents) \in SUBSET Entries
BY DEF Note, Entry, Entries, Sessions

\* The evidence row is the first a session has.
LEMMA IngestKeeps == ASSUME IInv, NEW u \in Uploads, Ingest(u) PROVE IInv'
<1> DEFINE m == [mine[u] EXCEPT !.rows = {RowId(u)},
                                !.entries = Note(u, "evidence_ingested", {Nobody})]
<1>1. mine[u] = Nothing /\ mine[u] \in Sessions
  BY DEF Ingest, IInv, Shape, UploadOK, SessionOK
<1>2. mine' = [mine EXCEPT ![u] = m]
  BY DEF Ingest, IInv, Shape
<1>3. m \in Sessions
  <2>1. Note(u, "evidence_ingested", {Nobody}) \in SUBSET Entries
    BY <1>1, NoteShape DEF EntryKinds, Agents, Nobody
  <2> QED BY <1>1, <2>1 DEF Sessions, Rows
<1>4. UploadOK(u, "extract", m)
  BY <1>1 DEF UploadOK, SessionOK, ReadOK, EntriesOK, Nothing, Analyzed, Note, Entry,
              NoReport, NoPlan
<1>5. "extract" \in Places
  BY DEF Places
<1> HIDE DEF m
<1> QED BY <1>2, <1>3, <1>4, <1>5, OneKeeps DEF Ingest

\* No indicator gets past the foreign key: it names an id no evidence row has.
LEMMA ExtractKeeps == ASSUME IInv, NEW u \in Uploads, Extract(u) PROVE IInv'
<1> DEFINE iocs == IF job[u] \in Indicative
                   THEN {[up |-> u, evidence |-> RecordId(u)]} ELSE {}
           m == [mine[u] EXCEPT !.iocs = iocs,
                                !.entries = Note(u, "ioc_extracted", {Nobody})]
<1>1. mine[u] \in Sessions /\ UploadOK(u, "extract", mine[u])
  BY DEF Extract, IInv, Shape
<1>2. mine' = [mine EXCEPT ![u] = m]
  BY DEF Extract, IInv, Shape
<1>3. m \in Sessions
  <2>1. Note(u, "ioc_extracted", {Nobody}) \in SUBSET Entries
    BY <1>1, NoteShape DEF EntryKinds, Agents, Nobody
  <2>2. iocs \in SUBSET Iocs
    BY DEF Iocs
  <2> QED BY <1>1, <2>1, <2>2 DEF Sessions
<1>4. PostgreSQL => iocs = {}
  <2>1. RecordId(u) \notin Rows
    BY DEF RecordId, RowId, Rows
  <2>2. db.evidence \cup mine[u].rows \subseteq Rows
    BY <1>1 DEF IInv, Shape, Tables, Sessions
  <2> QED BY <2>1, <2>2 DEF Extract, Refers
<1>5. UploadOK(u, "generate", m)
  <2>1. SessionOK(u, "generate", m)
    BY <1>1, <1>4 DEF UploadOK, SessionOK, Sessions
  <2>2. ReadOK("generate", m)
    BY DEF ReadOK, Analyzed
  <2>3. EntriesOK(u, "generate", m)
    BY <1>1 DEF UploadOK, EntriesOK, Analyzed, Note, Entry, Sessions
  <2> QED BY <2>1, <2>2, <2>3 DEF UploadOK
<1>6. "generate" \in Places
  BY DEF Places
<1> HIDE DEF m
<1> QED BY <1>2, <1>3, <1>5, <1>6, OneKeeps DEF Extract

\* Without indicators there are no findings.
LEMMA GenerateKeeps == ASSUME IInv, NEW u \in Uploads, Generate(u) PROVE IInv'
<1>1. mine[u] \in Sessions /\ UploadOK(u, "generate", mine[u])
  BY DEF Generate, IInv, Shape
<1>2. PICK m \in Sessions : /\ mine' = [mine EXCEPT ![u] = m]
                            /\ UploadOK(u, "assess", m)
  <2>1. CASE mine' = mine
    <3>1. mine' = [mine EXCEPT ![u] = mine[u]]
      BY <2>1 DEF IInv, Shape
    <3>2. UploadOK(u, "assess", mine[u])
      BY <1>1 DEF UploadOK, SessionOK, ReadOK, EntriesOK, Analyzed
    <3> QED BY <1>1, <3>1, <3>2
  <2>2. CASE mine' # mine
    <3> DEFINE m == [mine[u] EXCEPT !.findings = {u},
                                    !.entries = Note(u, "finding_generated", {Nobody})]
    <3>1. mine' = [mine EXCEPT ![u] = m] /\ db.iocs \cup mine[u].iocs # {}
      BY <2>2 DEF Generate, IInv, Shape
    <3>2. m \in Sessions
      <4>1. Note(u, "finding_generated", {Nobody}) \in SUBSET Entries
        BY <1>1, NoteShape DEF EntryKinds, Agents, Nobody
      <4> QED BY <1>1, <4>1 DEF Sessions
    <3>3. SessionOK(u, "assess", m)
      BY <1>1, <3>1 DEF UploadOK, SessionOK, Sessions, IInv, CommittedInv
    <3>4. ReadOK("assess", m)
      BY DEF ReadOK, Analyzed
    <3>5. EntriesOK(u, "assess", m)
      BY <1>1 DEF UploadOK, EntriesOK, Analyzed, Note, Entry, Sessions
    <3> QED BY <3>1, <3>2, <3>3, <3>4, <3>5 DEF UploadOK
  <2> QED BY <2>1, <2>2
<1>3. "assess" \in Places
  BY DEF Places
<1> QED BY <1>2, <1>3, OneKeeps DEF Generate

\* What is assessed is assessed for the agent of its type.
LEMMA AssessKeeps == ASSUME IInv, NEW u \in Uploads, Assess(u) PROVE IInv'
<1> DEFINE m == [mine[u] EXCEPT
                   !.suspicion = AssessedFor(Kind(u)) # {} /\ job[u] \in Suspicious,
                   !.entries = Note(u, "assessed", AssessedFor(Kind(u)))]
<1>1. mine[u] \in Sessions /\ UploadOK(u, "assess", mine[u])
  BY DEF Assess, IInv, Shape
<1>2. mine' = [mine EXCEPT ![u] = m]
  BY DEF Assess, IInv, Shape
<1>3. m \in Sessions
  <2>1. Note(u, "assessed", AssessedFor(Kind(u))) \in SUBSET Entries
    BY <1>1, NoteShape, AssessedAreRequired DEF EntryKinds
  <2> QED BY <1>1, <2>1 DEF Sessions
<1>4. SessionOK(u, "analyze", m)
  BY <1>1 DEF UploadOK, SessionOK, Sessions
<1>5. ReadOK("analyze", m)
  BY DEF ReadOK, Analyzed
<1>6. EntriesOK(u, "analyze", m)
  BY <1>1 DEF UploadOK, EntriesOK, Analyzed, Note, Entry, Sessions
<1>7. "analyze" \in Places /\ UploadOK(u, "analyze", m)
  BY <1>4, <1>5, <1>6 DEF UploadOK, Places
<1> HIDE DEF m
<1> QED BY <1>2, <1>3, <1>7, OneKeeps DEF Assess

\* The run reads the committed plan, and makes one if there are findings and the
\* response agent does not fail.
LEMMA AnalyzeKeeps == ASSUME IInv, NEW u \in Uploads, Analyze(u) PROVE IInv'
<1>1. mine[u] \in Sessions /\ UploadOK(u, "analyze", mine[u])
  BY DEF Analyze, IInv, Shape
<1>2. PICK s \in Severities, failed \in SUBSET Fallible : mine' = [mine EXCEPT
         ![u].indicators = Attributed(u),
         ![u].hydrated = db.plan.data,
         ![u].failed = failed,
         ![u].plan = IF Concern(u) /\ "response" \notin failed
                     THEN [data |-> u, severity |-> s] ELSE NoPlan,
         ![u].entries = Note(u, "agent_analysis", RequiredCapabilities(Kind(u)))]
  BY DEF Analyze
<1> DEFINE plan == IF Concern(u) /\ "response" \notin failed
                   THEN [data |-> u, severity |-> s] ELSE NoPlan
           entries == Note(u, "agent_analysis", RequiredCapabilities(Kind(u)))
           m == [mine[u] EXCEPT !.indicators = Attributed(u), !.hydrated = db.plan.data,
                                !.failed = failed, !.plan = plan, !.entries = entries]
<1>3. mine' = [mine EXCEPT ![u] = m]
  BY <1>2 DEF IInv, Shape
<1>4. Attributed(u) = {}
  <2>1. \A i \in db.iocs \cup mine[u].iocs : \E v \in Uploads : i.evidence = RecordId(v)
    BY <1>1 DEF IInv, Shape, Tables, Sessions, Iocs
  <2>2. \A v \in Uploads : RecordId(v) # RowId(u)
    BY DEF RecordId, RowId
  <2> QED BY <2>1, <2>2 DEF Attributed
<1>5. plan \in Plans /\ (plan = NoPlan \/ plan.data = u)
      /\ (Concern(u) => plan # NoPlan \/ "response" \in failed)
  BY DEF Plans, NoPlan
<1>6. entries \in SUBSET Entries
  BY <1>1, NoteShape, AssessedAreRequired DEF EntryKinds
<1>7. m \in Sessions
  <2>1. db.plan.data \in Uploads \cup {Nobody}
    BY DEF IInv, Shape, Tables, Plans
  <2> HIDE DEF plan, entries
  <2> QED BY <1>1, <1>4, <1>5, <1>6, <2>1 DEF Sessions
<1>8. UploadOK(u, "load", m)
  <2>1. SessionOK(u, "load", m)
    <3> HIDE DEF plan, entries
    <3> QED BY <1>1, <1>4, <1>5 DEF UploadOK, SessionOK, Sessions
  <2>2. ReadOK("load", m)
    <3> HIDE DEF plan, entries
    <3> QED BY <1>1, <1>5 DEF ReadOK, Sessions, Concern, Findings
  <2>3. EntriesOK(u, "load", m)
    <3> HIDE DEF plan
    <3> QED BY <1>1 DEF UploadOK, EntriesOK, Analyzed, Note, Entry, Sessions
  <2> QED BY <2>1, <2>2, <2>3 DEF UploadOK
<1>9. "load" \in Places
  BY DEF Places
<1> HIDE DEF m
<1> QED BY <1>3, <1>7, <1>8, <1>9, OneKeeps DEF Analyze

\* The row of the plan is loaded.
LEMMA LoadPlanKeeps == ASSUME IInv, NEW u \in Uploads, LoadPlan(u) PROVE IInv'
<1> DEFINE m == [mine[u] EXCEPT !.loaded = db.plan]
<1>1. mine[u] \in Sessions /\ UploadOK(u, "load", mine[u])
  BY DEF LoadPlan, IInv, Shape
<1>2. mine' = [mine EXCEPT ![u] = m]
  BY DEF LoadPlan, IInv, Shape
<1>3. m \in Sessions
  BY <1>1 DEF IInv, Shape, Tables, Sessions
<1>4. UploadOK(u, "flush", m)
  BY <1>1 DEF UploadOK, SessionOK, ReadOK, EntriesOK, Analyzed, Sessions
<1>5. "flush" \in Places
  BY DEF Places
<1> HIDE DEF m
<1> QED BY <1>2, <1>3, <1>4, <1>5, OneKeeps DEF LoadPlan

\* A run without a plan goes on to the report.
LEMMA NoPlanMadeKeeps == ASSUME IInv, NEW u \in Uploads, NoPlanMade(u) PROVE IInv'
<1>1. mine[u] \in Sessions /\ UploadOK(u, "load", mine[u]) /\ mine[u].plan = NoPlan
  BY DEF NoPlanMade, IInv, Shape
<1>2. mine' = [mine EXCEPT ![u] = mine[u]]
  BY DEF NoPlanMade, IInv, Shape
<1>3. UploadOK(u, "report", mine[u])
  BY <1>1 DEF UploadOK, SessionOK, ReadOK, EntriesOK, Analyzed
<1>4. "report" \in Places
  BY DEF Places
<1> QED BY <1>1, <1>2, <1>3, <1>4, OneKeeps DEF NoPlanMade

\* The flush writes no more than an entry of the plan to the session.
LEMMA FlushPlanKeeps == ASSUME IInv, NEW u \in Uploads, FlushPlan(u) PROVE IInv'
<1> DEFINE m == [mine[u] EXCEPT
                   !.entries = Note(u, "incident_response_plan_generated", {Nobody})]
<1>1. mine[u] \in Sessions /\ UploadOK(u, "flush", mine[u])
  BY DEF FlushPlan, IInv, Shape
<1>2. mine' = [mine EXCEPT ![u] = m]
  BY DEF FlushPlan, IInv, Shape
<1>3. m \in Sessions
  <2>1. Note(u, "incident_response_plan_generated", {Nobody}) \in SUBSET Entries
    BY <1>1, NoteShape DEF EntryKinds, Agents, Nobody
  <2> QED BY <1>1, <2>1 DEF Sessions
<1>4. SessionOK(u, "report", m) /\ ReadOK("report", m)
  BY <1>1 DEF UploadOK, SessionOK, ReadOK, Analyzed, Sessions
<1>5. EntriesOK(u, "report", m)
  BY <1>1 DEF UploadOK, EntriesOK, Analyzed, Note, Entry, Sessions
<1>6. "report" \in Places /\ UploadOK(u, "report", m)
  BY <1>4, <1>5 DEF UploadOK, Places
<1> HIDE DEF m
<1> QED BY <1>2, <1>3, <1>6, OneKeeps DEF FlushPlan

\* A report needs findings, so there is none on PostgreSQL, and on SQLite a plan
\* beside it or a response agent that failed; it is made with the plan the run has
\* read.
LEMMA PersistReportKeeps == ASSUME IInv, NEW u \in Uploads, PersistReport(u) PROVE IInv'
<1>1. mine[u] \in Sessions /\ UploadOK(u, "report", mine[u])
  BY DEF PersistReport, IInv, Shape
<1> DEFINE Reported == "report" \notin mine[u].failed
                       /\ (Findings(u) # {} \/ mine[u].indicators # {})
<1>2. CASE Reported
  <2> DEFINE m == [mine[u] EXCEPT !.report = Report(u),
                                  !.entries = Note(u, "report_generated", {Nobody})]
  <2>1. mine' = [mine EXCEPT ![u] = m]
    BY <1>2 DEF PersistReport, IInv, Shape
  <2>2. m \in Sessions
    <3>1. Note(u, "report_generated", {Nobody}) \in SUBSET Entries
      BY <1>1, NoteShape DEF EntryKinds, Agents, Nobody
    <3>2. Report(u) \in Reports
      BY <1>1 DEF Report, Reports, Sessions
    <3> QED BY <1>1, <3>1, <3>2 DEF Sessions
  <2>3. ~PostgreSQL /\ (mine[u].plan # NoPlan \/ "response" \in mine[u].failed)
    <3>1. Findings(u) # {}
      BY <1>1, <1>2 DEF UploadOK, SessionOK
    <3>2. ~PostgreSQL
      BY <1>1, <3>1 DEF UploadOK, SessionOK, IInv, CommittedInv, Findings
    <3> QED BY <1>1, <3>1, <3>2 DEF UploadOK, ReadOK, Findings, Analyzed
  <2>4. SessionOK(u, "remember", m) /\ ReadOK("remember", m)
    BY <1>1, <2>3 DEF UploadOK, SessionOK, ReadOK, Analyzed, Sessions, Report
  <2>5. EntriesOK(u, "remember", m)
    BY <1>1 DEF UploadOK, EntriesOK, Analyzed, Note, Entry, Sessions
  <2>6. "remember" \in Places /\ UploadOK(u, "remember", m)
    BY <2>4, <2>5 DEF UploadOK, Places
  <2> HIDE DEF m
  <2> QED BY <2>1, <2>2, <2>6, OneKeeps DEF PersistReport
<1>3. CASE ~Reported
  <2>1. mine' = [mine EXCEPT ![u] = mine[u]]
    BY <1>3 DEF PersistReport, IInv, Shape
  <2>2. "remember" \in Places /\ UploadOK(u, "remember", mine[u])
    BY <1>1 DEF UploadOK, SessionOK, ReadOK, EntriesOK, Analyzed, Places
  <2> QED BY <1>1, <2>1, <2>2, OneKeeps DEF PersistReport
<1> QED BY <1>2, <1>3

\* The vector store is no part of the transaction.
LEMMA RememberKeeps == ASSUME IInv, NEW u \in Uploads, Remember(u) PROVE IInv'
<1>1. mine[u] \in Sessions /\ UploadOK(u, "remember", mine[u])
  BY DEF Remember, IInv, Shape
<1>2. mine' = [mine EXCEPT ![u] = mine[u]]
  BY DEF Remember, IInv, Shape
<1>3. "commit" \in Places /\ UploadOK(u, "commit", mine[u])
  BY <1>1 DEF UploadOK, SessionOK, ReadOK, EntriesOK, Analyzed, Places
<1> QED BY <1>1, <1>2, <1>3, OneKeeps DEF Remember

\* The columns of the plan's row are those of the plan, where nobody else has
\* changed the row since it was loaded.
LEMMA PlanRowIsThePlan ==
    ASSUME IInv, NEW u \in Uploads, pc[u] = "commit", mine[u].plan # NoPlan
    PROVE  /\ PlanRow(u).data = u
           /\ ~PostgreSQL => PlanRow(u).severity = mine[u].plan.severity
<1>1. UploadOK(u, "commit", mine[u])
  BY DEF IInv
<1> QED BY <1>1 DEF UploadOK, SessionOK, ReadOK, Analyzed, PlanRow

\* On SQLite nobody else has read what a commit changes; on PostgreSQL nothing
\* depends on it.
LEMMA CommitKeeps == ASSUME IInv, NEW u \in Uploads, Commit(u) PROVE IInv'
<1>1. mine[u] \in Sessions /\ UploadOK(u, "commit", mine[u]) /\ pc[u] = "commit"
  BY DEF Commit, IInv, Shape
<1>2. db \in Tables /\ pc' = [pc EXCEPT ![u] = "answered"]
      /\ UNCHANGED <<database, job, mine>>
  BY DEF Commit, IInv, Shape
<1>3. PlanRow(u) \in Plans
  BY <1>1, <1>2 DEF PlanRow, Plans, Sessions, Tables
<1>4. Shape'
  <2>1. db' \in Tables
    BY <1>1, <1>2, <1>3 DEF Commit, Tables, Sessions
  <2>2. pc' \in [Uploads -> Places]
    BY <1>2 DEF IInv, Shape, Places
  <2> QED BY <1>2, <2>1, <2>2 DEF IInv, Shape
<1>5. TurnInv'
  BY <1>2 DEF IInv, Shape, TurnInv, PostgreSQL
<1>6. ASSUME NEW v \in Uploads PROVE UploadOK(v, pc[v], mine[v])'
  <2>1. CASE v = u
    <3>1. pc'[u] = "answered"
      BY <1>2 DEF IInv, Shape
    <3> QED BY <1>1, <1>2, <2>1, <3>1
            DEF UploadOK, SessionOK, ReadOK, EntriesOK, Analyzed, PostgreSQL, Kind
  <2>2. CASE v # u
    <3>1. pc'[v] = pc[v] /\ UploadOK(v, pc[v], mine[v])
      BY <1>2, <2>2 DEF IInv, Shape
    <3>2. ReadOK(pc[v], mine[v])'
      BY <1>1, <1>2, <2>2, <3>1 DEF IInv, TurnInv, ReadOK, Analyzed, PostgreSQL
    <3> QED BY <1>2, <3>1, <3>2 DEF UploadOK, SessionOK, EntriesOK, PostgreSQL, Kind
  <2> QED BY <2>1, <2>2
<1>7. CommittedInv'
  <2>1. (PostgreSQL => db.iocs = {} /\ db.findings = {})'
    BY <1>1, <1>2 DEF Commit, IInv, CommittedInv, UploadOK, SessionOK, PostgreSQL
  <2>2. ASSUME NEW v \in Uploads, db'.plan.data = v
        PROVE  pc'[v] = "answered"
               /\ (~PostgreSQL' => db'.plan.severity = mine'[v].plan.severity)
    <3>1. CASE mine[u].plan = NoPlan
      <4>1. db'.plan = db.plan
        BY <3>1 DEF Commit, PlanRow
      <4> QED BY <1>1, <1>2, <2>2, <4>1 DEF IInv, Shape, CommittedInv, PostgreSQL
    <3>2. CASE mine[u].plan # NoPlan
      <4>1. db'.plan = PlanRow(u) /\ v = u
        BY <1>1, <2>2, <3>2, PlanRowIsThePlan DEF Commit
      <4> QED BY <1>1, <1>2, <3>2, <4>1, PlanRowIsThePlan DEF IInv, Shape, PostgreSQL
    <3> QED BY <3>1, <3>2
  <2>3. AssessedIsAnalyzed'
    <3>1. ASSUME NEW e \in mine[u].entries, e.kind = "assessed"
          PROVE  Entry(e.up, "agent_analysis", e.agent) \in mine[u].entries
      BY <1>1, <3>1, AssessedAreRequired DEF UploadOK, EntriesOK, Analyzed
    <3>2. db'.timeline = db.timeline \cup mine[u].entries
      BY DEF Commit
    <3> QED BY <3>1, <3>2 DEF AssessedIsAnalyzed, IInv, CommittedInv, Entry
  <2> QED BY <2>1, <2>2, <2>3 DEF CommittedInv
<1> QED BY <1>4, <1>5, <1>6, <1>7 DEF IInv

\* A crash abandons every transaction at once.
LEMMA CrashKeeps == ASSUME IInv, Crash PROVE IInv'
<1>1. /\ pc' = [u \in Uploads |-> IF Active(u) THEN "failed" ELSE pc[u]]
      /\ mine' = [u \in Uploads |-> IF Active(u) THEN Nothing ELSE mine[u]]
      /\ UNCHANGED <<database, db, job>>
  BY DEF Crash
<1>2. pc' \in [Uploads -> Places] /\ mine' \in [Uploads -> Sessions]
  BY <1>1, NothingIsEmpty DEF IInv, Shape, Places
<1>3. TurnInv'
  BY <1>1 DEF IInv, TurnInv, PostgreSQL, Active
<1>4. ASSUME NEW u \in Uploads PROVE UploadOK(u, pc[u], mine[u])'
  <2>1. UploadOK(u, pc'[u], mine'[u])
    <3>1. CASE Active(u)
      BY <1>1, <3>1, NothingIsOK
    <3>2. CASE ~Active(u)
      BY <1>1, <3>2 DEF IInv
    <3> QED BY <3>1, <3>2
  <2> QED BY <1>1, <2>1 DEF UploadOK, SessionOK, ReadOK, EntriesOK, PostgreSQL, Kind
<1>5. \A u \in Uploads : pc[u] = "answered" => pc'[u] = pc[u] /\ mine'[u] = mine[u]
  BY <1>1 DEF Active
<1> QED BY <1>1, <1>2, <1>3, <1>4, <1>5, UncommittedKeeps DEF IInv, Shape

\* The invariant survives every step.
LEMMA StepKeeps == ASSUME IInv, [Next]_vars PROVE IInv'
<1>1. CASE UNCHANGED vars
  BY <1>1 DEF vars, IInv, Shape, TurnInv, UploadOK, SessionOK, ReadOK, EntriesOK,
              CommittedInv, AssessedIsAnalyzed, PostgreSQL, Kind
<1>2. ASSUME NEW u \in Uploads,
             Reject(u) \/ StoreFails(u) \/ Refuse(u) \/ PlanConflict(u) \/ Fail(u)
      PROVE  IInv'
  <2>1. PICK outcome \in Finished \ {"answered"} : pc[u] # "answered" /\ Abandon(u, outcome)
    BY <1>2 DEF Reject, StoreFails, Refuse, PlanConflict, Fail, Rollback, Active
  <2> QED BY <2>1, AbandonKeeps
<1>3. ASSUME NEW u \in Uploads, Arrive(u) \/ Step(u) \/ Fail(u)
      PROVE  IInv'
  BY <1>2, <1>3, EarlyKeeps, IngestKeeps, ExtractKeeps, GenerateKeeps, AssessKeeps,
     AnalyzeKeeps, LoadPlanKeeps, NoPlanMadeKeeps, FlushPlanKeeps, PersistReportKeeps,
     RememberKeeps, CommitKeeps
     DEF Step
<1> QED BY <1>1, <1>3, CrashKeeps DEF Next, Quiet

\* Every reachable state has the strengthened invariant.
LEMMA Inductive == Spec => []IInv
<1>1. Init => IInv
  BY Initially
<1>2. IInv /\ [Next]_vars => IInv'
  BY StepKeeps
<1> QED BY <1>1, <1>2, PTL DEF Spec

-----------------------------------------------------------------------------
(* The results. *)

\* Where uploads exclude each other, the columns beside the JSON of the plan's row
\* are those of the plan it holds (upsert_for_case), whoever failed in between.
THEOREM PlanRowWhole == Spec => []PlanRowIsOnePlan
<1>1. IInv => PlanRowIsOnePlan
  BY DEF IInv, CommittedInv, PlanRowIsOnePlan
<1> QED BY <1>1, Inductive, PTL

\* Whatever was assessed was analysed by the agent that reads the assessment: the
\* tables of case_service.py that route evidence types agree.
THEOREM AssessedAnalyzed == Spec => []AssessedIsAnalyzed
<1>1. IInv => AssessedIsAnalyzed
  BY DEF IInv, CommittedInv
<1> QED BY <1>1, Inductive, PTL

\* Only a commit replaces the report, by one of its own transaction.
LEMMA ReportIsCommitted ==
    ASSUME IInv, [Next]_vars, db'.report # db.report
    PROVE  \E u \in Uploads :
             /\ Commit(u)
             /\ mine[u].plan # NoPlan \/ "response" \in mine[u].failed
             /\ db'.report = [by |-> u, plan |-> db.plan.data]
<1>1. PICK u \in Uploads : Commit(u)
  BY DEF vars, Next, Quiet, Crash, Arrive, Step, Accept, Reject, Store, StoreFails, Ingest,
         Extract, Generate, Assess, Refuse, Analyze, LoadPlan, NoPlanMade, FlushPlan,
         PlanConflict, PersistReport, Remember, Fail, Rollback, Abandon
<1>2. UploadOK(u, "commit", mine[u])
  BY <1>1 DEF Commit, IInv
<1>3. mine[u].report # NoReport /\ db'.report = mine[u].report
  BY <1>1 DEF Commit
<1> QED BY <1>1, <1>2, <1>3 DEF UploadOK, SessionOK, ReadOK, Analyzed

\* The report has the plan that was the case's before its upload was committed
\* (_hydrate_incident_response_plan_record reads it before the run).
THEOREM ReportOneRunBehind == Spec => ReportIsOneRunBehind
<1>1. IInv /\ [Next]_vars => (db'.report # db.report => db'.report.plan = db.plan.data)
  <2>1. ASSUME IInv, [Next]_vars, db'.report # db.report
        PROVE  db'.report.plan = db.plan.data
    <3>1. PICK u \in Uploads : db'.report = [by |-> u, plan |-> db.plan.data]
      BY <2>1, ReportIsCommitted
    <3> QED BY <3>1
  <2> QED BY <2>1
<1>2. IInv /\ [Next]_vars =>
        [db'.report # db.report => db'.report.plan = db.plan.data]_vars
  BY <1>1
<1> QED BY <1>2, Inductive, PTL DEF Spec, ReportIsOneRunBehind

\* A report replaces another together with the plan of its run (_persist_report
\* after _persist_incident_response_plan), or the response agent of the run failed
\* (BaseAgent._execute_safely): the guards of the two agents never disagree.
THEOREM ReportWithPlan == Spec => ReportComesWithPlan
<1> DEFINE Accounted == \/ db'.plan.data = db'.report.by
                        \/ "response" \in mine[db'.report.by].failed
<1>1. IInv /\ [Next]_vars => [db'.report # db.report => Accounted]_vars
  <2>1. ASSUME IInv, [Next]_vars, db'.report # db.report
        PROVE  Accounted
    <3>1. PICK u \in Uploads :
            /\ Commit(u)
            /\ mine[u].plan # NoPlan \/ "response" \in mine[u].failed
            /\ db'.report = [by |-> u, plan |-> db.plan.data]
      BY <2>1, ReportIsCommitted
    <3>2. mine[u].plan # NoPlan => PlanRow(u).data = u
      BY <2>1, <3>1, PlanRowIsThePlan DEF Commit
    <3> QED BY <3>1, <3>2 DEF Commit
  <2> QED BY <2>1
<1> QED BY <1>1, Inductive, PTL DEF Spec, ReportComesWithPlan
=============================================================================
