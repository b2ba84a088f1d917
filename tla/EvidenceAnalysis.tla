-------------------------- MODULE EvidenceAnalysis --------------------------
(***************************************************************************)
(* The analyses an upload sets off, over the records the parser read from  *)
(* the artifact (core/services/case_service.py, investigate_new_evidence).     *)
(* Each analysis is a function of all the records; the records are read    *)
(* one by one here so that the analyses of an artifact and of a longer one *)
(* can be compared.                                                        *)
(***************************************************************************)
EXTENDS Integers, Sequences, SequencesExt, FiniteSets, FiniteSetsExt, TLC

CONSTANTS
    None, NoTime,
    BruteForceThreshold, FailureWindow, SpikeThreshold, SpikeMinSources,
    SudoFailureThreshold, ChainWindow, MaxRecords,
    ExtraRules, MaxText, MaxIndicators,
    MaliciousScore, SuspiciousScore, CriticalScore, MediumScore,
    WholeQuality, PartialQuality,
                       \* the parser's confidence in what it read whole, and in part,
                       \* in hundredths
    LogLines,          \* the lines an authentication or system log may have
    TextRecords,       \* the records indicators are looked for in
    ScanRows,          \* the rows a scan report may have
    HttpLines,         \* the lines an HTTP transcript may have
    CodeLines,         \* the lines a source file may have
    MaxCandidates, Criticality,
    MaxLines, MaxChars,
    ShellLines,        \* the commands and listings there may be to advise on
    CaseRecords,       \* the records of a case a response is planned from
    ReportRecords,     \* the records of a case a report is made from
    MaxFindings, MaxReportRecords, MaxIocRows, MaxExportSize,
    Remembered,        \* the findings and reports the uploads of cases may leave
    Documents,         \* the knowledge base
    Asked,             \* the case whose investigation asks its memory
    TopK, Overfetch, MinSimilarity, MaxTotalItems,
    MaxRead            \* the records read from one artifact, or of one case

\* The parser's confidences are shares, the cap a number, and a line of text has
\* finitely many values.
TextAssumption ==
    /\ WholeQuality \in 0 .. 100 /\ PartialQuality \in 0 .. 100 /\ MaxIndicators \in Nat
    /\ \A r \in TextRecords : "text" \in DOMAIN r /\ IsFiniteSet(r.text)
ASSUME TextAssumption

\* The thresholds are the shipped ones or higher, and the rules registered
\* beside the default ones match no indicator of their own.
RulesAssumption ==
    /\ MaliciousScore \in Int /\ MaliciousScore >= 5500
    /\ MediumScore \in Int /\ MediumScore >= 5500
    /\ SuspiciousScore \in Int
    /\ ExtraRules \in Seq(ToSet(ExtraRules))
    /\ \A rule \in ToSet(ExtraRules) : rule.type \in {"threshold", "composite"}
ASSUME RulesAssumption

\* What the records of a case are graded by is in its range.
CaseAssumption ==
    \A r \in CaseRecords :
        /\ {"severity", "risk", "confidence"} \subseteq DOMAIN r
        /\ r.severity \in 0 .. 4 /\ r.risk \in 0 .. 100 /\ r.confidence \in 0 .. 100
ASSUME CaseAssumption

\* Some entries are asked for, texts have finitely many words, and the knowledge
\* base is a list.
MemoryAssumption ==
    /\ Documents \in Seq(ToSet(Documents))
    /\ TopK \in Nat \ {0} /\ Overfetch \in Nat \ {0} /\ MinSimilarity \in Nat
    /\ \A r \in Remembered :
        /\ {"case", "id", "category", "words", "broken"} \subseteq DOMAIN r
        /\ IsFiniteSet(r.words)
ASSUME MemoryAssumption

VARIABLES
    kind,      \* the analysis of this upload
    records,   \* what was read so far
    unparsed,  \* whether there was a line that is no record
    intel      \* the result of the analysis of it

vars == <<kind, records, unparsed, intel>>

Linux  == INSTANCE LinuxSecurity
Threat == INSTANCE ThreatIntel WITH NoValue <- None

Cvss   == INSTANCE CvssCalculator
Scan   == INSTANCE Vulnerabilities

Web    == INSTANCE WebSecurity
Source == INSTANCE SourceReview
Shell  == INSTANCE LinuxAdvisor

Plan   == INSTANCE IncidentResponse
Report == INSTANCE Reporting

Memory == INSTANCE CaseMemory

\* The extensions source files are uploaded with, the last of them unknown.
Extension == [source_py |-> "py", source_js |-> "js", source_other |-> "txt"]

Kinds ==
    {"linux_security", "threat_intel", "vulnerability_scan", "cvss", "http_transaction",
     "linux_command", "incident", "report", "memory"}
    \cup DOMAIN Extension

\* A source file parses when every line of it does.
File(k, rs) ==
    [extension |-> Extension[k], lines |-> rs, parses |-> \A i \in 1..Len(rs) : rs[i].parses]

\* A record with one field more.
With(record, field, value) ==
    [f \in DOMAIN record \cup {field} |-> IF f = field THEN value ELSE record[f]]

\* The agent of an analysis counts what the service has stored of it.
Counted(assessed)  == With(assessed, "agent", Scan!Assessment(assessed.findings))
Transacted(advice) == With(advice, "agent", Web!AgentAdvice(advice))
Advised(advice)    == With(advice, "agent", Shell!AgentAdvice(advice))
Reviewed(review)   == With(review, "agent", Source!AgentReview(review))

\* What uploads left in the store, in their order, is asked for what is near
\* to the findings of a case.
Recall(store, query, context) ==
    [store |-> store, query |-> query, agent |-> Memory!AgentRecall(query, context),
     items |-> context.items, labels |-> context.labels, candidates |-> context.candidates,
     dropped |-> context.dropped, truncated |-> context.truncated]

Recalled(store, rs) ==
    LET own   == {i \in DOMAIN rs : rs[i].case = Asked /\ rs[i].category = "finding"}
        query == Memory!BuildMemoryQuery(Memory!Those(rs, own), IF rs = <<>> THEN {} ELSE {"upload"})
    IN  Recall(store, query, Memory!ResolveContext(store, Documents, query, Asked))

\* The least harmful vector of version 3.1, to be made worse metric by metric.
MildestVector ==
    [version |-> "3.1",
     metrics |-> [AV |-> "P", AC |-> "H", PR |-> "H", UI |-> "R", S |-> "U",
                  C |-> "N", I |-> "N", A |-> "N"]]

\* The parser's confidence in its records: of the parsers that read by the line or
\* row the quality in part is that of an artifact with unparsed ones, the others
\* have one confidence only.
Quality(rs, partly) ==
    IF rs = <<>> THEN 0 ELSE IF partly THEN PartialQuality ELSE WholeQuality

\* Of nothing read yet.
Analysis(k) ==
    CASE k = "linux_security"     -> Linux!Analyze(<<>>, 0)
      [] k = "threat_intel"       -> Threat!Extract(<<>>, 0)
      [] k = "vulnerability_scan" -> Counted(Scan!Assess(<<>>, 0))
      [] k = "http_transaction"   -> Transacted(Web!Advise(<<>>))
      [] k \in DOMAIN Extension   -> Reviewed(Source!Review(File(k, <<>>)))
      [] k = "linux_command"      -> Advised(Shell!Advise(<<>>))
      [] k = "incident"           -> Plan!Respond(<<>>)
      [] k = "report"             -> Report!Report(<<>>)
      [] k = "memory"             -> Recalled(<<>>, <<>>)
      [] k = "cvss"               -> Cvss!CvssScore(MildestVector)

Init ==
    /\ kind \in Kinds
    /\ records = IF kind = "cvss" THEN <<MildestVector>> ELSE <<>>
    /\ unparsed = FALSE
    /\ intel = Analysis(kind)

Read(k, record) ==
    /\ kind = k
    /\ Len(records) < MaxRead[k]
    /\ records' = Append(records, With(record, "line", Len(records) + 1))
    /\ UNCHANGED <<kind, unparsed>>

\* The analyses that the parser's confidence enters.
Weighed(k, rs, quality) ==
    CASE k = "linux_security"     -> Linux!Analyze(rs, 100 * quality)
      [] k = "threat_intel"       -> Threat!Extract(rs, quality)
      [] k = "vulnerability_scan" -> Counted(Scan!Assess(rs, quality))

ReadLogLine ==
    /\ \E r \in LogLines : Read("linux_security", r)
    /\ intel' = Weighed(kind, records', Quality(records', unparsed))

ReadTextRecord ==
    /\ \E r \in TextRecords : Read("threat_intel", r)
    /\ intel' = Weighed(kind, records', Quality(records', unparsed))

ReadScanRow ==
    /\ \E r \in ScanRows : Read("vulnerability_scan", r)
    /\ intel' = Weighed(kind, records', Quality(records', unparsed))

\* A line or row the parser finds no record in.
ReadUnparsed ==
    /\ kind \in {"linux_security", "threat_intel", "vulnerability_scan"}
    /\ ~unparsed
    /\ unparsed' = TRUE
    /\ intel' = Weighed(kind, records, Quality(records, unparsed'))
    /\ UNCHANGED <<kind, records>>

ReadHttpLine ==
    /\ \E r \in HttpLines : Read("http_transaction", r)
    /\ intel' = Transacted(Web!Advise(records'))

ReadCodeLine ==
    /\ \E k \in DOMAIN Extension, r \in CodeLines : Read(k, r)
    /\ intel' = Reviewed(Source!Review(File(kind, records')))

ReadShellLine ==
    /\ \E r \in ShellLines : Read("linux_command", r)
    /\ intel' = Advised(Shell!Advise(records'))

ReadCaseRecord ==
    /\ \E r \in CaseRecords : Read("incident", r)
    /\ intel' = Plan!Respond(records')

Remember ==
    \E r \in Remembered :
        /\ Read("memory", r)
        /\ intel' = Recalled(Memory!RecordLongTermMemory(intel.store, r.case, r), records')

\* A case has one plan at most.
ReadReportRecord ==
    /\ kind = "report"
    /\ \E r \in ReportRecords :
        /\ r.from = "incident_response_plan" =>
              \A i \in 1..Len(records) : records[i].from # "incident_response_plan"
        /\ Read("report", r)
    /\ intel' = Report!Report(records')

\* The report of the case is downloaded: in which format, how large, with what.
ExportReport ==
    /\ kind = "report" /\ "exported" \notin DOMAIN intel
    /\ \E format \in {"html", "pdf", "json", "rtf"}, size \in {1, MaxExportSize + 1},
          theme \in {None, "neon"}, charts, encoded \in BOOLEAN :
        intel' = With(intel, "exported",
                      Report!Requested(intel.report, size, format, theme, charts, encoded))
    /\ UNCHANGED <<kind, records, unparsed>>

\* The values of a metric, from harmless to harmful.
Worse == [AV |-> <<"P", "L", "A", "N">>, AC |-> <<"H", "L">>, PR |-> <<"H", "L", "N">>,
          UI |-> <<"R", "N">>, S |-> <<"U", "C">>,
          C |-> <<"N", "L", "H">>, I |-> <<"N", "L", "H">>, A |-> <<"N", "L", "H">>]

Worsen ==
    /\ kind = "cvss"
    /\ \E m \in DOMAIN Worse : \E i \in 1..(Len(Worse[m]) - 1) :
        /\ records[1].metrics[m] = Worse[m][i]
        /\ records' = <<[records[1] EXCEPT !.metrics[m] = Worse[m][i + 1]]>>
    /\ intel' = Cvss!CvssScore(records'[1])
    /\ UNCHANGED <<kind, unparsed>>

Next ==
    \/ ReadLogLine \/ ReadTextRecord \/ ReadScanRow \/ ReadUnparsed
    \/ ReadHttpLine \/ ReadCodeLine \/ ReadShellLine \/ ReadCaseRecord \/ ReadReportRecord
    \/ Remember \/ ExportReport \/ Worsen

Spec == Init /\ [][Next]_vars

-----------------------------------------------------------------------------
\* What an analysis says of whom: a key, how severe, how high it scores.
Verdicts(k, result) ==
    CASE k = "linux_security" ->
            {[key |-> <<f.category, f.subject>>, severity |-> f.severity, score |-> f.score] :
                f \in result.findings}
      [] k = "threat_intel" ->
            {[key |-> <<ioc.type, ioc.value>>, severity |-> Linux!Rank(ioc.severity),
              score |-> ioc.score] : ioc \in Range(result.iocs)}
      [] k = "vulnerability_scan" ->
            {[key |-> f.key, severity |-> f.severity, score |-> f.score] :
                f \in result.findings}
      [] k = "http_transaction" ->
            {[key |-> <<f.key, f.rules>>, severity |-> f.severity, score |-> f.confidence] :
                f \in {g \in result.findings : g.source # "header_analyzer"}}
      [] k \in DOMAIN Extension ->
            {[key |-> <<f.rule, f.line>>, severity |-> f.severity, score |-> f.confidence] :
                f \in result.findings}
            \cup {[key |-> <<"overall", 0>>, severity |-> result.overall.level, score |-> 0]}
      [] k = "linux_command" ->
            {[key |-> <<f.source, f.line>>, severity |-> f.severity, score |-> f.confidence] :
                f \in result.findings}
            \cup {[key |-> <<"overall", 0>>, severity |-> result.overall.level, score |-> 0]}
      [] k = "incident" ->
            {[key |-> <<r.category, 0>>, severity |-> 4 - r.priority, score |-> r.risk] :
                r \in Range(result.plan.recommendations)}
            \cup {[key |-> <<"overall", 0>>, severity |-> result.plan.severity,
                   score |-> result.plan.risk]}
      [] k = "report" ->
            {[key |-> <<s.type, 0>>, severity |-> 0, score |-> 0] :
                s \in {t \in Range(result.report.sections) : ~t.empty}}
            \cup {[key |-> <<"overall", 0>>, severity |-> s.content.level, score |-> 0] :
                s \in {t \in Range(result.report.sections) : t.type = "risk_assessment"}}
      [] OTHER -> {}

\* The artifact is no longer analyzed, or as another language.
Unread(k, rs) ==
    CASE k = "linux_security"     -> Linux!Oversized(rs) \/ Linux!Aborts(rs)
      [] k = "threat_intel"       -> Threat!TextLength(rs) > MaxText
      [] k = "vulnerability_scan" -> Len(rs) > MaxCandidates
      [] k = "http_transaction"   -> Web!Oversized(rs) \/ \E i \in 1..Len(rs) : Web!Aborts(rs[i])
      [] k \in DOMAIN Extension   ->
            \/ Source!Oversized(File(k, rs)) \/ Source!Degraded(File(k, rs))
            \/ Source!Language(File(k, rs)) # Source!Language(File(k, Front(rs)))
      [] k = "linux_command"      -> Shell!Oversized(rs)
      [] k = "incident"           -> Plan!Oversized(rs)
      [] k = "report"             -> Report!Oversized(Report!Context(rs))
      [] OTHER -> FALSE

\* The account of a log's last line, if that creates it and it was created before.
CreatedAgain(k, rs) ==
    IF k # "linux_security" \/ rs = <<>> THEN {}
    ELSE {u \in {Last(rs).user} :
            Len(Linux!Created(rs, u)) > 1 /\ Last(rs) = Last(Linux!Created(rs, u))}

(***************************************************************************)
(* More evidence never clears anyone: as long as an artifact is analyzed   *)
(* at all, and as the same language, reading one more record of it keeps   *)
(* every finding, no less severe and with no lower a score, though windows *)
(* slide, records are merged into earlier ones and the number of           *)
(* indicators is capped; a file never becomes a lower risk; no response    *)
(* already called for is dropped or becomes less urgent, though they are   *)
(* merged and consolidated; and no section of a report becomes empty.  A   *)
(* line or row that is no record loses nothing either, but lowers scores,  *)
(* and with it the severity of an indicator, which is read off its score.  *)
(* Three things are left out: the escalation of an account whose creation  *)
(* is logged once more, which hides the earlier one; the response headers, *)
(* which may be missing until their line is read; and the line of a log    *)
(* whose missing time does not compare, which ends the analysis (Aborts).  *)
(***************************************************************************)
MoreEvidenceNeverClears ==
    [][ ~Unread(kind, records') =>
        LET hidden(key) == \E u \in CreatedAgain(kind, records') :
                key \in {<<"privilege_escalation", u>>, <<"persistence_mechanism", u>>}
            doubted == Quality(records', unparsed') < Quality(records, unparsed)
        IN  \A v \in {x \in Verdicts(kind, intel) : ~hidden(x.key)} :
                \E w \in Verdicts(kind, intel') :
                    /\ w.key = v.key
                    /\ w.severity >= v.severity \/ (doubted /\ kind = "threat_intel")
                    /\ w.score >= v.score \/ doubted ]_vars

(***************************************************************************)
(* With the default rules and an unrated source no indicator is more than  *)
(* suspicious and low: no candidate has a severity of its own, and the two *)
(* parts of the score that come from it, with the reliability of an        *)
(* unknown source, keep every score under the medium threshold.            *)
(***************************************************************************)
IndicatorsAtMostLow ==
    kind = "threat_intel" =>
        \A ioc \in Range(intel.iocs) : ioc.severity \in {"info", "low"}

(***************************************************************************)
(* Making one metric of a vector worse, the scope included, never lowers   *)
(* its base score: the tables of the two scopes and the subtracted power   *)
(* of the impact play together.                                            *)
(***************************************************************************)
WorseNeverScoresLower ==
    [][ kind = "cvss" => intel'.base >= intel.base ]_vars

(***************************************************************************)
(* A response header counts no worse than its absence: reading the first   *)
(* line of a header the analysis asks for, whatever its value, never       *)
(* raises the risk of the transcript.  The table of missing headers and    *)
(* the rules on their values are two lists that must agree.                *)
(***************************************************************************)
HeaderNoWorseThanNone ==
    [][ /\ kind = "http_transaction"
        /\ intel.read > 0 /\ intel'.read > 0
        /\ Web!IsHeader(Last(records'))
        /\ Last(records').header \in DOMAIN Web!MissingSpecs
               \ DOMAIN Web!HeaderLines(records)
        => intel'.overall.level <= intel.overall.level ]_vars

(***************************************************************************)
(* Whatever is merged and consolidated, every finding that calls for a     *)
(* category of response is among those a recommendation of this category   *)
(* rests on, and that one is as urgent and as risky as the finding alone   *)
(* would make it.                                                          *)
(***************************************************************************)
PlanKeepsProvenance ==
    kind = "incident" /\ intel.plan # Plan!NoPlan =>
        \A f \in Range(Plan!Collected(records)) : \A c \in Plan!MatchCategories(f) :
            \E r \in Range(intel.plan.recommendations) :
                /\ r.category = c /\ f.line \in r.findings
                /\ r.priority <= Plan!Prioritize(f, c).priority
                /\ r.risk >= Plan!Prioritize(f, c).risk

(***************************************************************************)
(* A report that is made is never hollow: what the agent asks for before   *)
(* it makes one fills at least one of the sections the report has.         *)
(***************************************************************************)
NoHollowReport ==
    kind = "report" => intel.status # "degraded" \/ intel.report = Report!NoReport

\* The entries of a category the case left, those of other cases, and which of
\* these are nearer than e, by their places in the store.
Own(c) == {i \in DOMAIN intel.store : intel.store[i].category = c /\ intel.store[i].case = Asked}
Others(c) == {i \in DOMAIN intel.store : intel.store[i].category = c /\ intel.store[i].case # Asked}
Ahead(e, c) == {i \in Others(c) : Memory!Nearer(intel.query, intel.store[i], e)}

(***************************************************************************)
(* An investigation recalls the nearest of what other cases left, and      *)
(* nothing of its own: an entry that is near enough and has fewer than     *)
(* TopK nearer ones is recalled, or one just as near, unless the case      *)
(* itself left more than twice the number of candidates that is asked for  *)
(* (its own entries are taken out only after the nearest are selected), or *)
(* the context as a whole is cut.                                          *)
(***************************************************************************)
RecallsTheNearest ==
    kind = "memory" /\ intel.query.words # {} =>
        \A i \in DOMAIN Memory!RecordCategories :
            LET c == Memory!RecordCategories[i]
                found == ToSet(intel.items[i])
            IN  /\ \A e \in found :
                      (\E n \in Others(c) : e = intel.store[n]) /\ Cardinality(Ahead(e, c)) < TopK
                /\ Cardinality(Own(c)) <= 2 * Overfetch * TopK /\ intel.truncated = 0 =>
                      \A n \in Others(c) :
                          LET e == intel.store[n] IN
                          Cardinality(Ahead(e, c)) < TopK /\ Memory!Near(intel.query, e, MinSimilarity)
                          => \E d \in found :
                                ~Memory!Nearer(intel.query, e, d) /\ ~Memory!Nearer(intel.query, d, e)
=============================================================================
