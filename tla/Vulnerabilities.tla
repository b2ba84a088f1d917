-------------------------- MODULE Vulnerabilities --------------------------
(***************************************************************************)
(* core/vulnerabilities and its service: the findings of one scan report.  *)
(* A row of a report is [cve, cited, plugin, name, host, ip, port, vector2,*)
(* score2, vector3, score3, vector4, code, described, line]: "cited" is    *)
(* the first CVE its description or references mention, a host or a cve    *)
(* [name, case], a vector or a score None when the report has none.        *)
(***************************************************************************)
EXTENDS Integers, Sequences, SequencesExt, FiniteSets, FiniteSetsExt, CvssCalculator

CONSTANTS
    None,
    MaxCandidates,       \* vulnerability_max_records_per_artifact
    Criticality          \* the asset criticality the caller gives

Severities == <<"info", "low", "medium", "high", "critical">>
Place(severity) == CHOOSE i \in 1..5 : Severities[i] = severity
Priorities == <<"p4_low", "p3_medium", "p2_high", "p1_critical">>
CriticalityWeight == [low |-> 25, medium |-> 50, high |-> 75, critical |-> 100]

(***************************************************************************)
(* Extraction: a score is that of the vector if it parses, otherwise the   *)
(* number the scanner gives; the best is version 3, then 2, then 4; the    *)
(* scanner's own severity counts only when there is no score at all.       *)
(***************************************************************************)
Numeric(score) ==
    IF score = None \/ score \notin 0..100 THEN None
    ELSE [base |-> score, severity |-> SeverityOf(score)]

Resolved(vector, score) ==
    IF vector # None /\ Parses(vector) THEN CvssScore(vector) ELSE Numeric(score)

FirstOf(options) ==
    IF \E i \in 1..Len(options) : options[i] # None
    THEN SelectSeq(options, LAMBDA o : o # None)[1] ELSE None

BestCvss(row) ==
    FirstOf(<<Resolved(row.vector3, row.score3), Resolved(row.vector2, row.score2),
              Resolved(row.vector4, None)>>)

ScannerSeverity(code) == Severities[1 + Max({0, Min({4, code})})]

Candidate(row, cvss) ==
    [cve        |-> FirstOf(<<row.cve, row.cited>>),
     plugin     |-> row.plugin,
     name       |-> row.name,
     host       |-> row.host,
     ip         |-> row.ip,
     asset      |-> None,
     port       |-> row.port,
     cvss       |-> cvss,
     severity   |-> IF cvss # None THEN cvss.severity ELSE ScannerSeverity(row.code),
     described  |-> row.described,
     references |-> IF row.cited # None THEN {row.cited} ELSE {},
     lines      |-> {row.line}]

Extracted(row) == Candidate(row, BestCvss(row))

Extract(rows) ==
    IF Len(rows) > MaxCandidates THEN <<>>
    ELSE [i \in 1..Len(rows) |-> Extracted(rows[i])]

\* Something must name it, a CVE must be well formed, a port in range.
IsValid(r) ==
    /\ r.cve # None \/ r.plugin # None \/ r.name # None
    /\ r.cve # None => r.cve.wellformed
    /\ r.port # None => r.port \in 1..65535

Lowered(name) == IF name = None THEN None ELSE [name EXCEPT !.case = "lower"]
Uppered(name) == IF name = None THEN None ELSE [name EXCEPT !.case = "upper"]

\* The asset is the address, or else the host, in lower case.
Normalized(r) ==
    LET host == Lowered(r.host)
    IN  [r EXCEPT !.cve = Uppered(@), !.host = host, !.asset = FirstOf(<<r.ip, host>>)]

(***************************************************************************)
(* One record of each asset and CVE (or plugin); the first of them keeps   *)
(* its severity and score, whatever the later ones say.                    *)
(***************************************************************************)
DedupKey(r) == <<r.asset, FirstOf(<<r.cve, r.plugin>>)>>

\* A slip: the merge keeps the later record.
MergedLater(existing, incoming) == [incoming EXCEPT !.lines = @ \cup existing.lines]

Merged(existing, incoming) ==
    [existing EXCEPT !.references = @ \cup incoming.references,
                     !.lines = @ \cup incoming.lines]

Deduplicated(records) ==
    FoldLeft(LAMBDA kept, r :
                IF \E i \in 1..Len(kept) : DedupKey(kept[i]) = DedupKey(r)
                THEN [i \in 1..Len(kept) |->
                        IF DedupKey(kept[i]) = DedupKey(r) THEN Merged(kept[i], r)
                                                           ELSE kept[i]]
                ELSE Append(kept, r),
             <<>>, records)

Assets(records) ==
    {[asset    |-> a,
      severity |-> Max({Place(records[i].severity) :
                        i \in {j \in 1..Len(records) : records[j].asset = a}})] :
        a \in {records[i].asset : i \in 1..Len(records)} \ {None}}

(***************************************************************************)
(* Confidence in ten-thousandths, the score in hundredths of a point.      *)
(***************************************************************************)
Count(flags) == Cardinality({i \in 1..Len(flags) : flags[i]})

Confidence(r) ==
    2000 + (IF r.cvss # None THEN 2500 ELSE 750)
    + 625 * Count(<<r.plugin # None, r.name # None, r.described, r.references # {}>>)
    + 1250 * Count(<<r.host # None, r.ip # None>>)

Composite(r, quality) ==
    LET base == IF r.cvss = None \/ r.cvss.base = NoScore THEN 0 ELSE r.cvss.base
    IN  Rounded(100 * base + 2500 * (Place(r.severity) - 1) + Confidence(r)
                    + 100 * CriticalityWeight[Criticality] + 8000 + 100 * quality, 6)

Priority(severity) ==
    LET important == Criticality \in {"high", "critical"}
    IN  CASE severity = "critical" -> 4
          [] severity = "high"     -> IF important THEN 4 ELSE 3
          [] severity = "medium"   -> IF important THEN 3 ELSE 2
          [] severity = "low"      -> IF important THEN 2 ELSE 1
          [] severity = "info"     -> 1

FindingKey(r) == FirstOf(<<r.cve, r.plugin, r.name>>)

\* One finding of each vulnerability, over all the assets it was found on.
Findings(records, quality) ==
    LET group(k) == {i \in 1..Len(records) : FindingKey(records[i]) = k}
    IN  {[key      |-> k,
          severity |-> Max({Place(records[i].severity) : i \in group(k)}),
          priority |-> Max({Priority(records[i].severity) : i \in group(k)}),
          score    |-> Max({Composite(records[i], quality) : i \in group(k)}),
          assets   |-> {records[i].asset : i \in group(k)} \ {None}] :
            k \in {FindingKey(records[i]) : i \in 1..Len(records)}}

AllNormalized(valid) == [i \in 1..Len(valid) |-> Normalized(valid[i])]

Judged(merged, rejected, quality) ==
    [findings |-> Findings(merged, quality), assets |-> Assets(merged), rejected |-> rejected]

Assess(rows, quality) ==
    Judged(Deduplicated(AllNormalized(SelectSeq(Extract(rows), IsValid))),
           Len(SelectSeq(Extract(rows), LAMBDA r : ~IsValid(r))), quality)

(***************************************************************************)
(* VulnerabilityAssessmentAgent: without scan evidence it degrades,        *)
(* otherwise it counts the findings it is handed; it scores nothing anew.  *)
(***************************************************************************)
Assessment(findings) ==
    [count   |-> Cardinality(findings),
     by      |-> [s \in 1..5 |-> Cardinality({f \in findings : f.severity = s})],
     highest |-> Max({0} \cup {f.score : f \in findings}),
     assets  |-> Cardinality(UNION {f.assets : f \in findings})]
=============================================================================
