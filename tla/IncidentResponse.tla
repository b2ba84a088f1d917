-------------------------- MODULE IncidentResponse --------------------------
(***************************************************************************)
(* core/incident_response and its agent: the response plan made from all   *)
(* the records of a case.  A record is [line, from, kind, wellformed,      *)
(* severity, risk, confidence, tactics, says, target]: the analysis it     *)
(* comes from, the tactics it was mapped to and the playbook keywords its  *)
(* title or category contains.  Severities are ranks 0 (info) to 4, risks  *)
(* 0 to 100, confidences in hundredths, priorities 0 (P1) to 4 (P5).       *)
(***************************************************************************)
EXTENDS Selection, SequencesExt, FiniteSetsExt, Functions

CONSTANTS
    None,
    MaxFindings     \* max_findings_per_plan

\* The persisted findings of the case, and the records of this upload.
Sources ==
    {"finding", "vulnerability_assessment", "linux_security_threat_hunting", "linux_advisory",
     "owasp_web_security", "owasp_source_code_review"}

\* The kinds of records a source's findings are among; the others are skipped.
FindingKinds(from) ==
    CASE from = "linux_advisory" -> {"command", "permission"}
      [] from \in {"owasp_web_security", "owasp_source_code_review"} -> {"finding"}
      [] OTHER -> {"finding", "command", "permission", "hardening", "summary"}

Skipped(r) == ~r.wellformed \/ r.kind \notin FindingKinds(r.from)

\* What the plan is made from: only some sources have a score, a target, tactics.
Input(r) ==
    [line       |-> r.line,
     severity   |-> r.severity,
     risk       |-> IF r.from \in {"finding", "vulnerability_assessment",
                                   "linux_security_threat_hunting"} THEN r.risk ELSE 0,
     confidence |-> IF r.from \in {"vulnerability_assessment", "linux_security_threat_hunting"}
                    THEN 100 ELSE r.confidence,
     tactics    |-> IF r.from = "finding" THEN r.tactics ELSE {},
     says       |-> r.says \cup (IF r.from = "vulnerability_assessment"
                                 THEN {"vulnerability"} ELSE {}),
     target     |-> IF r.from \in {"vulnerability_assessment", "linux_security_threat_hunting",
                                   "linux_advisory"} THEN r.target ELSE None]

-----------------------------------------------------------------------------
(* The playbook. *)

TacticCategories ==
    [TA0043 |-> {"ioc_blocking"},
     TA0042 |-> {"ioc_blocking"},
     TA0001 |-> {"network_blocking", "ioc_blocking"},
     TA0002 |-> {"edr_action"},
     TA0003 |-> {"host_isolation", "account_disablement"},
     TA0004 |-> {"account_disablement", "patch_prioritization"},
     TA0005 |-> {"edr_action"},
     TA0006 |-> {"password_reset", "account_disablement"},
     TA0007 |-> {"edr_action"},
     TA0008 |-> {"network_blocking", "host_isolation"},
     TA0009 |-> {"evidence_preservation"},
     TA0011 |-> {"network_blocking", "ioc_blocking", "firewall_update"},
     TA0010 |-> {"network_blocking", "firewall_update"},
     TA0040 |-> {"backup_restoration", "service_shutdown"}]

KeywordCategories ==
    [brute_force      |-> {"account_disablement", "password_reset"},
     phishing         |-> {"account_disablement", "password_reset", "ioc_blocking"},
     vulnerability    |-> {"patch_prioritization"},
     malware          |-> {"host_isolation", "edr_action", "backup_restoration"},
     exfiltration     |-> {"network_blocking", "firewall_update"},
     misconfiguration |-> {"firewall_update"}]

SeverityFallback(severity) ==
    CASE severity \in {3, 4} -> {"evidence_preservation", "host_isolation"}
      [] severity = 2 -> {"evidence_preservation", "edr_action"}
      [] severity = 1 -> {"evidence_preservation"}
      [] severity = 0 -> {}

MatchCategories(f) ==
    LET Of(table, keys) == UNION {table[k] : k \in keys \cap DOMAIN table}
        matched == Of(TacticCategories, f.tactics) \cup Of(KeywordCategories, f.says)
    IN  IF matched = {} THEN SeverityFallback(f.severity) ELSE matched

\* The categories by name, and their phase, timeframe and priority.
Categories ==
    <<"account_disablement", "backup_restoration", "edr_action", "evidence_preservation",
      "firewall_update", "host_isolation", "ioc_blocking", "network_blocking",
      "password_reset", "patch_prioritization", "service_shutdown">>

Phases ==
    <<"containment", "isolation", "eradication", "recovery", "validation", "post_incident">>

CategoryTemplates ==
    LET Template(phase, timeframe, priority) ==
            [phase |-> phase, timeframe |-> timeframe, priority |-> priority]
    IN  [host_isolation        |-> Template("isolation", "immediate", 0),
         network_blocking      |-> Template("containment", "immediate", 0),
         account_disablement   |-> Template("containment", "immediate", 1),
         password_reset        |-> Template("recovery", "short_term", 1),
         ioc_blocking          |-> Template("containment", "immediate", 1),
         firewall_update       |-> Template("containment", "short_term", 2),
         edr_action            |-> Template("eradication", "short_term", 2),
         patch_prioritization  |-> Template("eradication", "long_term", 3),
         service_shutdown      |-> Template("isolation", "immediate", 1),
         backup_restoration    |-> Template("recovery", "short_term", 2),
         evidence_preservation |-> Template("containment", "immediate", 0)]

DefaultRisk(severity) == <<5, 20, 45, 70, 90>>[severity + 1]

\* One step up for a critical finding, one down for a low one.
Prioritize(f, category) ==
    LET priority == CategoryTemplates[category].priority
    IN  [priority |-> CASE f.severity = 4 -> Max({0, priority - 1})
                        [] f.severity \in {2, 3} -> priority
                        [] f.severity \in {0, 1} -> Min({4, priority + 1}),
         risk     |-> IF f.risk > 0 THEN f.risk ELSE DefaultRisk(f.severity)]

Action(f, category) ==
    [category   |-> category,
     targets    |-> {f.target} \ {None},
     phase      |-> CategoryTemplates[category].phase,
     timeframe  |-> CategoryTemplates[category].timeframe,
     priority   |-> Prioritize(f, category).priority,
     risk       |-> Prioritize(f, category).risk,
     confidence |-> f.confidence,
     findings   |-> {f.line}]

-----------------------------------------------------------------------------
(* Recommendations for the same category and target are merged, those of   *)
(* three and more targets consolidated.                                    *)

\* A slip: the less urgent recommendations lose their findings.
MergedWinner(r, all) ==
    [r EXCEPT !.targets    = UNION {s.targets : s \in all},
              !.priority   = Min({s.priority : s \in all}),
              !.risk       = Max({s.risk : s \in all}),
              !.confidence = Max({s.confidence : s \in all})]

\* The most urgent of all, which are of the category of r and so of its phase
\* and timeframe.
Merged(r, all) ==
    [r EXCEPT !.targets    = UNION {s.targets : s \in all},
              !.priority   = Min({s.priority : s \in all}),
              !.risk       = Max({s.risk : s \in all}),
              !.confidence = Max({s.confidence : s \in all}),
              !.findings   = UNION {s.findings : s \in all}]

\* Each is where the first of its category and target was.
Deduplicated(recommendations) ==
    LET Same(i) == {j \in DOMAIN recommendations :
                       /\ recommendations[j].category = recommendations[i].category
                       /\ recommendations[j].targets = recommendations[i].targets}
        merged == [i \in DOMAIN recommendations |->
                      Merged(recommendations[i], {recommendations[j] : j \in Same(i)})]
    IN  Those(merged, {i \in DOMAIN recommendations : \A j \in Same(i) : i <= j})

ConsolidationThreshold == 3

Consolidated(group) ==
    IF Len(group) < ConsolidationThreshold THEN group
    ELSE <<Merged(group[1], Range(group))>>

IndexIn(seq, x) == CHOOSE i \in 1..Len(seq) : seq[i] = x

Before(r, s) ==
    \/ r.priority < s.priority
    \/ /\ r.priority = s.priority
       /\ \/ IndexIn(Phases, r.phase) < IndexIn(Phases, s.phase)
          \/ r.phase = s.phase /\ r.risk > s.risk
          \/ /\ r.phase = s.phase /\ r.risk = s.risk
             /\ IndexIn(Categories, r.category) < IndexIn(Categories, s.category)

OrderRecommendations(recommendations) ==
    LET kept  == Deduplicated(recommendations)
        Group(category) == Those(kept, {i \in DOMAIN kept : kept[i].category = category})
        all   == FlattenSeq([i \in DOMAIN Categories |-> Consolidated(Group(Categories[i]))])
    IN  Sorted(all, DOMAIN all,
               {p \in (DOMAIN all) \X (DOMAIN all) : Before(all[p[1]], all[p[2]])})

-----------------------------------------------------------------------------
(* The plan. *)

\* The highest severity, raised with three and with six of medium and above.
Classify(findings) ==
    LET base       == Max({f.severity : f \in Range(findings)})
        qualifying == Len(SelectSeq(findings, LAMBDA f : f.severity >= 2))
        steps      == IF qualifying >= 6 THEN 2 ELSE IF qualifying >= 3 THEN 1 ELSE 0
    IN  Min({4, base + steps})

\* The mean confidence, lowered by the share of records skipped; rounded down.
PlanConfidence(recommendations, considered, skipped) ==
    IF recommendations = <<>> THEN 0
    ELSE LET total == FoldLeft(LAMBDA n, r : n + r.confidence, 0, recommendations)
         IN  (total * considered) \div (Len(recommendations) * (considered + skipped))

PlanRisk(recommendations) == Max({0} \cup {r.risk : r \in Range(recommendations)})

Lessons ==
    {{"host_isolation", "service_shutdown"}, {"patch_prioritization"},
     {"account_disablement", "password_reset"},
     {"network_blocking", "firewall_update", "ioc_blocking"}, {"backup_restoration"}}

LessonsLearned(recommendations) ==
    {lesson \in Lessons : \E r \in Range(recommendations) : r.category \in lesson}

Metrics(recommendations) ==
    LET Counted(Of(_), keys) ==
            [k \in keys |-> Len(SelectSeq(recommendations, LAMBDA r : Of(r) = k))]
    IN  [phases     |-> Counted(LAMBDA r : r.phase, Range(Phases)),
         priorities |-> Counted(LAMBDA r : r.priority, 0..4),
         categories |-> Counted(LAMBDA r : r.category, Range(Categories))]

NoPlan == [severity |-> 0, risk |-> 0, confidence |-> 0, recommendations |-> <<>>]

\* What each finding calls for, in turn.
Actions(f) ==
    LET matched == Those(Categories,
                         {i \in DOMAIN Categories : Categories[i] \in MatchCategories(f)})
    IN  [j \in 1..Len(matched) |-> Action(f, matched[j])]

ResponsePlan(ordered, findings, skipped) ==
    [severity        |-> Classify(findings),
     risk            |-> PlanRisk(ordered),
     confidence      |-> PlanConfidence(ordered, Len(findings), skipped),
     recommendations |-> ordered,
     lessons         |-> LessonsLearned(ordered),
     metrics         |-> Metrics(ordered)]

GeneratePlan(findings, skipped) ==
    ResponsePlan(OrderRecommendations(
                     FlattenSeq([i \in 1..Len(findings) |-> Actions(findings[i])])),
                 findings, skipped)

(***************************************************************************)
(* IncidentResponseAgent: the records of the sources in turn; without a    *)
(* finding, and with findings that call for nothing, it degrades, and too  *)
(* many findings fail it.                                                  *)
(***************************************************************************)
Collected(records) ==
    LET kept == Those(records, {i \in DOMAIN records : ~Skipped(records[i])})
    IN  [i \in 1..Len(kept) |-> Input(kept[i])]

Oversized(records) == Len(Collected(records)) > MaxFindings

Planned(plan) ==
    [status |-> IF plan.recommendations = <<>> THEN "degraded" ELSE "succeeded", plan |-> plan]

Respond(records) ==
    LET findings == Collected(records)
    IN  CASE Oversized(records) -> [status |-> "failed", plan |-> NoPlan]
          [] findings = <<>>    -> [status |-> "degraded", plan |-> NoPlan]
          [] ~Oversized(records) /\ findings # <<>> ->
                Planned(GeneratePlan(findings, Len(records) - Len(findings)))
=============================================================================
