----------------------------- MODULE Reporting -----------------------------
(***************************************************************************)
(* core/reporting, its agent and its export: the report made from the      *)
(* records of a case.  A record is [line, from, dict, kind, severity,      *)
(* score, type, technique, tactics, text, size]; "from" is the field of    *)
(* the investigation state it is in, "text" the recommendation it makes,   *)
(* or None.  Severities are ranks from 0 (info) to 4 (critical).  What is  *)
(* written into a section is kept as far as charts and verdicts read it.   *)
(***************************************************************************)
EXTENDS Integers, Sequences, SequencesExt, FiniteSets, FiniteSetsExt, Functions

CONSTANTS
    None,
    MaxReportRecords,     \* max_records_per_report
    MaxIocRows,           \* _MAX_IOC_TABLE_ROWS
    MaxExportSize         \* max_export_bytes

Fields ==
    {"findings", "mitre_mappings", "iocs", "vulnerability_records", "linux_security_records",
     "linux_advisory_records", "owasp_web_records", "owasp_security_records",
     "evidence_items", "thought_entries"}

\* The records that are looked at; of the evidence, what was normalized.
Context(records) ==
    LET Of(field) == SelectSeq(records, LAMBDA r : r.from = field /\ r.dict)
    IN  [records |-> [field \in Fields |-> Of(field)],
         plan    |-> Of("incident_response_plan"),
         skipped |-> Len(SelectSeq(records, LAMBDA r : ~r.dict))]

Count(context, fields) ==
    MapThenSumSet(LAMBDA field : Len(context.records[field]), fields)

\* Who is told about in the findings; the advice on commands is not.
FindingSources ==
    [findings               |-> "finding",
     vulnerability_records  |-> "vulnerability_assessment",
     linux_security_records |-> "linux_security_threat_hunting",
     owasp_web_records      |-> "owasp_web_security",
     owasp_security_records |-> "owasp_source_code_review"]

IsFinding(r) ==
    r.from \in {"owasp_web_records", "owasp_security_records"} => r.kind = "finding"

SourceFindings(context, field) == SelectSeq(context.records[field], IsFinding)

FindingSummaries(context) ==
    UNION {{[source |-> FindingSources[field], line |-> r.line, severity |-> r.severity,
             score |-> IF field \in {"owasp_web_records", "owasp_security_records"} THEN 0
                       ELSE r.score] : r \in Range(SourceFindings(context, field))} :
           field \in DOMAIN FindingSources}

HighestSeverity(severities) == Max({0} \cup severities)

Techniques(context) ==
    {r.technique : r \in Range(context.records["mitre_mappings"])} \ {None}

\* The first mapping of a technique is told, the tactics of all.
TechniqueRows(context) ==
    LET mappings == SelectSeq(context.records["mitre_mappings"], LAMBDA r : r.technique # None)
    IN  [t \in Techniques(context) |->
            SelectSeq(mappings, LAMBDA r : r.technique = t)[1].tactics]

Tactics(context) ==
    UNION {r.tactics : r \in {m \in Range(context.records["mitre_mappings"]) : m.technique # None}}

IocsByType(context) ==
    LET iocs == context.records["iocs"]
    IN  [t \in {r.type : r \in Range(iocs)} |-> Len(SelectSeq(iocs, LAMBDA r : r.type = t))]

IocRows(context) ==
    LET rows == SortSeq(context.records["iocs"], LAMBDA r, s : r.score > s.score)
    IN  SubSeq(rows, 1, Min({MaxIocRows, Len(rows)}))

RiskSignals(context) ==
    FlattenSeq([i \in 1..5 |->
        SourceFindings(context, <<"findings", "vulnerability_records", "linux_security_records",
                                  "owasp_web_records", "owasp_security_records">>[i])])
    \o context.plan

RiskBreakdown(context) ==
    [s \in {r.severity : r \in Range(RiskSignals(context))} |->
        Len(SelectSeq(RiskSignals(context), LAMBDA r : r.severity = s))]

\* The first of each text; a record without a recommendation adds none.
RecommendationTexts(context) ==
    ({r.text : r \in {a \in Range(context.records["linux_advisory_records"]) :
                        a.kind = "hardening"}}
     \cup {r.text : r \in Range(SourceFindings(context, "owasp_web_records"))
                          \cup Range(SourceFindings(context, "owasp_security_records"))}
     \cup {r.text : r \in Range(context.plan)}) \ {None}

\* A slip: the indicators are no source of the appendix.
DataSourcesWithoutIocs(context) ==
    {field \in Fields \ {"evidence_items", "thought_entries", "iocs"} :
        context.records[field] # <<>>}
    \cup (IF context.plan = <<>> THEN {} ELSE {"incident_response_plan"})

DataSources(context) ==
    {field \in Fields \ {"evidence_items", "thought_entries"} : context.records[field] # <<>>}
    \cup (IF context.plan = <<>> THEN {} ELSE {"incident_response_plan"})

-----------------------------------------------------------------------------
(* The sections. *)

PlannedActions(context) == SelectSeq(context.plan, LAMBDA r : r.text # None)

Section(type, content, empty) == [type |-> type, content |-> content, empty |-> empty]

ExecutiveSummary(context) ==
    Section("executive_summary",
            [level |-> HighestSeverity(DOMAIN RiskBreakdown(context)),
             findings |-> Cardinality(FindingSummaries(context)),
             iocs |-> Len(context.records["iocs"])],
            /\ FindingSummaries(context) = {} /\ context.records["iocs"] = <<>>
            /\ PlannedActions(context) = <<>>)

BuildSection(type, context) ==
    LET Built(content, empty) == Section(type, content, empty)
        iocs == context.records["iocs"]
    IN  CASE type = "case_overview" ->
                Built(Count(context, {"evidence_items", "findings"}),
                      Count(context, {"evidence_items", "findings"}) = 0 /\ context.plan = <<>>)
          [] type = "investigation_timeline" ->
                Built(context.records["thought_entries"],
                      context.records["thought_entries"] = <<>>)
          [] type = "evidence_summary" ->
                Built({r.type : r \in Range(context.records["evidence_items"])},
                      context.records["evidence_items"] = <<>>)
          [] type = "ioc_summary" ->
                Built([by |-> IocsByType(context), rows |-> IocRows(context)], iocs = <<>>)
          [] type = "threat_intelligence_summary" ->
                Built([techniques |-> Cardinality(Techniques(context)),
                       by |-> IocsByType(context)],
                      Techniques(context) = {} /\ iocs = <<>>)
          [] type = "mitre_mapping" ->
                Built([rows |-> TechniqueRows(context), tactics |-> Tactics(context)],
                      Techniques(context) = {})
          [] type = "findings" ->
                Built(FindingSummaries(context), FindingSummaries(context) = {})
          [] type = "incident_response_actions" ->
                Built(PlannedActions(context), PlannedActions(context) = <<>>)
          [] type = "risk_assessment" ->
                Built([level |-> HighestSeverity(DOMAIN RiskBreakdown(context)),
                       by |-> RiskBreakdown(context)],
                      RiskSignals(context) = <<>>)
          [] type = "recommendations" ->
                Built(RecommendationTexts(context), RecommendationTexts(context) = {})
          [] type = "executive_summary" -> ExecutiveSummary(context)
          [] type = "appendix" ->
                Built([skipped |-> context.skipped, sources |-> DataSources(context)],
                      DataSources(context) = {})

ReportTypeSections ==
    LET technical == <<"case_overview", "investigation_timeline", "evidence_summary", "findings",
                       "mitre_mapping", "incident_response_actions", "risk_assessment",
                       "recommendations", "appendix">>
    IN  [executive |-> <<"executive_summary", "case_overview", "risk_assessment",
                         "recommendations">>,
         module |-> technical,
         technical_investigation |-> technical,
         incident_response |-> <<"case_overview", "findings", "incident_response_actions",
                                 "risk_assessment", "recommendations", "appendix">>,
         ioc_summary  |-> <<"case_overview", "ioc_summary", "appendix">>,
         mitre_attack |-> <<"case_overview", "mitre_mapping", "appendix">>,
         timeline     |-> <<"case_overview", "investigation_timeline", "appendix">>,
         threat_intelligence |-> <<"case_overview", "threat_intelligence_summary",
                                   "ioc_summary", "appendix">>,
         evidence     |-> <<"case_overview", "evidence_summary", "appendix">>]

-----------------------------------------------------------------------------
(* The report. *)

\* Every section of the type once, and not all of them empty.
Complete(type, sections) ==
    LET types == [i \in 1..Len(sections) |-> sections[i].type]
    IN  /\ Range(ReportTypeSections[type]) \subseteq Range(types)
        /\ IsInjective(types)
        /\ \E i \in 1..Len(sections) : ~sections[i].empty

ConfidenceFields == Fields \ {"evidence_items", "thought_entries"}

\* In ten-thousandths, rounded down.
ReportConfidence(context, sections, complete) ==
    LET filled     == Len(SelectSeq(sections, LAMBDA s : ~s.empty))
        considered == Count(context, ConfidenceFields)
        total      == considered + context.skipped
        clean      == IF total = 0 THEN <<1, 1>> ELSE <<considered, total>>
    IN  (filled * clean[1] * (IF complete THEN 10000 ELSE 7500)) \div (Len(sections) * clean[2])

Statistics(context, sections) ==
    LET Kinds(field, kinds) ==
            Len(SelectSeq(context.records[field], LAMBDA r : r.kind \in kinds))
    IN  [finding       |-> Count(context, {"findings"}),
         evidence      |-> Count(context, {"evidence_items"}),
         ioc           |-> Count(context, {"iocs"}),
         technique     |-> Cardinality(Techniques(context)),
         vulnerability |-> Count(context, {"vulnerability_records"}),
         linux         |-> Count(context, {"linux_security_records"}),
         advisory      |-> Kinds("linux_advisory_records", {"command", "permission"}),
         web           |-> Kinds("owasp_web_records", {"finding"}),
         source        |-> Kinds("owasp_security_records", {"finding"}),
         actions       |-> Len(PlannedActions(context)),
         filled        |-> Len(SelectSeq(sections, LAMBDA s : ~s.empty))]

Oversized(context) == Count(context, Fields) > MaxReportRecords

GeneratedReport(context, type, sections, complete) ==
    [type       |-> type,
     sections   |-> sections,
     statistics |-> Statistics(context, sections),
     confidence |-> ReportConfidence(context, sections, complete),
     degraded   |-> ~complete]

Validated(context, type, sections) ==
    GeneratedReport(context, type, sections, Complete(type, sections))

GenerateReport(context, type) ==
    Validated(context, type, [i \in 1..Len(ReportTypeSections[type]) |->
                                 BuildSection(ReportTypeSections[type][i], context)])

NoReport == [type |-> "none", sections |-> <<>>, confidence |-> 0, degraded |-> FALSE]

(***************************************************************************)
(* ReportGeneratorAgent: always a technical report, from the plan of the   *)
(* upload before; without findings, mappings and indicators there is none. *)
(***************************************************************************)
Made(report) ==
    [status |-> IF report.degraded THEN "degraded" ELSE "succeeded", report |-> report]

Report(records) ==
    LET context == Context(records)
        nothing == \A field \in {"findings", "mitre_mappings", "iocs"} :
                      context.records[field] = <<>>
    IN  CASE nothing -> [status |-> "degraded", report |-> NoReport]
          [] ~nothing /\ Oversized(context) -> [status |-> "failed", report |-> NoReport]
          [] ~nothing /\ ~Oversized(context) ->
                Made(GenerateReport(context, "technical_investigation"))

-----------------------------------------------------------------------------
(* Export of the persisted report. *)

\* A chart reads a section, and is empty when that is missing or empty.
Content(report, type) ==
    LET found == SelectSeq(report.sections, LAMBDA s : s.type = type /\ ~s.empty)
    IN  IF found = <<>> THEN {} ELSE {found[1].content}

Charts(report) ==
    [severity_distribution |-> \E c \in Content(report, "risk_assessment") : DOMAIN c.by # {},
     risk_trend            |-> Content(report, "investigation_timeline") # {},
     timeline              |-> Content(report, "investigation_timeline") # {},
     mitre_heatmap         |-> \E c \in Content(report, "mitre_mapping") :
                                   UNION Range(c.rows) # {},
     ioc_categories        |-> \E c \in Content(report, "ioc_summary") : DOMAIN c.by # {},
     threat_intelligence_sources |-> Content(report, "threat_intelligence_summary") # {},
     finding_distribution  |-> Content(report, "findings") # {},
     case_statistics       |-> \E k \in DOMAIN report.statistics \ {"filled"} :
                                   report.statistics[k] > 0]

MediaTypes == {"pdf", "html", "markdown", "json", "docx"}
Themes == {None, "light", "dark"}

\* Charts of the paged formats become pictures, or a note when that fails.
Render(report, format, charts, encoded) ==
    [sections |-> report.sections,
     pictures |-> CASE ~charts \/ format = "json" -> {}
                    [] charts /\ format = "html"  -> DOMAIN Charts(report)
                    [] OTHER -> IF encoded THEN DOMAIN Charts(report) ELSE {}]

Export(report, size, format, theme, charts, encoded) ==
    CASE format \notin MediaTypes -> [status |-> "unsupported"]
      [] format \in MediaTypes /\ size > MaxExportSize -> [status |-> "oversized"]
      [] format \in MediaTypes /\ size <= MaxExportSize /\ theme \notin Themes ->
            [status |-> "unknown_theme"]
      [] OTHER -> [status |-> "exported", content |-> Render(report, format, charts, encoded)]

Requested(report, size, format, theme, charts, encoded) ==
    IF report = NoReport THEN [status |-> "not_found"]
    ELSE Export(report, size, format, theme, charts, encoded)
=============================================================================
