----------------------- MODULE EvidenceAnalysisProofs -----------------------
(***************************************************************************)
(* What the analyses of an upload promise, for whatever was read.          *)
(***************************************************************************)
EXTENDS EvidenceAnalysis, SelectionProofs

-----------------------------------------------------------------------------
(* What is shown is the analysis of what was read. *)

\* A field is added, and the others stay.
LEMMA WithOf ==
    ASSUME NEW r, NEW field, NEW value
    PROVE  /\ DOMAIN With(r, field, value) = DOMAIN r \cup {field}
           /\ \A f \in DOMAIN r : f # field => With(r, field, value)[f] = r[f]
BY DEF With

\* The kinds are told apart.
LEMMA KindsDiffer ==
    ASSUME NEW k \in DOMAIN Extension
    PROVE  k \notin {"linux_security", "threat_intel", "vulnerability_scan", "cvss",
                     "http_transaction", "linux_command", "incident", "report", "memory"}
BY DEF Extension

\* The report is the one of some records, whether it was exported or not.
ReportInv ==
    kind = "report" =>
        /\ {"status", "report"} \subseteq DOMAIN intel
        /\ \E rs : intel.status = Report!Report(rs).status /\ intel.report = Report!Report(rs).report

\* A report has a status and what it reports.
LEMMA ReportFields == ASSUME NEW rs PROVE DOMAIN Report!Report(rs) = {"status", "report"}
BY DEF Report!Report, Report!Made

\* It is one at first.
LEMMA ReportInit == Init => ReportInv
<1> SUFFICES ASSUME Init, kind = "report" PROVE ReportInv
  BY DEF ReportInv
<1>1. kind \notin DOMAIN Extension
  BY KindsDiffer
<1>2. intel = Report!Report(<<>>)
  BY <1>1 DEF Init, Analysis
<1> QED BY <1>2, ReportFields DEF ReportInv

\* It stays one.
LEMMA ReportStep == ReportInv /\ [Next]_vars => ReportInv'
<1> SUFFICES ASSUME ReportInv, [Next]_vars, kind' = "report" PROVE ReportInv'
  BY DEF ReportInv
<1>1. CASE ReadReportRecord
  <2>1. intel' = Report!Report(records')
    BY <1>1 DEF ReadReportRecord
  <2>2. PICK rs : rs = records'
    OBVIOUS
  <2> QED BY <2>1, <2>2, ReportFields DEF ReportInv
<1>2. CASE ExportReport
  <2>1. kind = "report"
    BY <1>2 DEF ExportReport
  <2>2. PICK x : intel' = With(intel, "exported", x)
    BY <1>2 DEF ExportReport
  <2>3. PICK i, j : i = intel /\ j = intel'
    OBVIOUS
  <2>4. {"status", "report"} \subseteq DOMAIN i /\ j = With(i, "exported", x)
    BY <2>1, <2>2, <2>3 DEF ReportInv
  <2>5. {"status", "report"} \subseteq DOMAIN j
    BY <2>4 DEF With
  <2>6. j["status"] = i["status"] /\ j["report"] = i["report"]
    BY <2>4 DEF With
  <2>7. j.status = i.status /\ j.report = i.report
    BY <2>6
  <2> QED BY <2>1, <2>3, <2>5, <2>7 DEF ReportInv
<1>3. CASE UNCHANGED vars
  BY <1>3 DEF ReportInv, vars
<1>4. CASE ReadCodeLine
  BY <1>4, KindsDiffer DEF ReadCodeLine, Read
<1>5. CASE ReadLogLine \/ ReadTextRecord \/ ReadScanRow \/ ReadUnparsed \/ ReadHttpLine
            \/ ReadShellLine \/ ReadCaseRecord \/ Remember \/ Worsen
  BY <1>5 DEF ReadLogLine, ReadTextRecord, ReadScanRow, ReadUnparsed, ReadHttpLine, ReadShellLine,
              ReadCaseRecord, Remember, Worsen, Read
<1> QED BY <1>1, <1>2, <1>3, <1>4, <1>5 DEF Next

\* Something the agent asks for is in the appendix.
LEMMA AppendixFilled ==
    ASSUME NEW context, NEW field \in {"findings", "mitre_mappings", "iocs"},
           context.records[field] # <<>>
    PROVE  ~ Report!BuildSection("appendix", context).empty
<1>1. field \in Report!DataSources(context)
  BY DEF Report!DataSources, Report!Fields
<1>2. Report!BuildSection("appendix", context)
        = Report!Section("appendix", [skipped |-> context.skipped,
                                      sources |-> Report!DataSources(context)],
                         Report!DataSources(context) = {})
  BY DEF Report!BuildSection
<1>4. (Report!DataSources(context) = {}) = FALSE
  BY <1>1
<1>5. Report!BuildSection("appendix", context)
        = Report!Section("appendix", [skipped |-> context.skipped,
                                      sources |-> Report!DataSources(context)], FALSE)
  BY <1>2, <1>4, Zenon
<1>6. Report!BuildSection("appendix", context).empty = FALSE
  BY <1>5 DEF Report!Section
<1> QED BY <1>6

\* A section is of the type that was asked for.
LEMMA SectionTypes ==
    ASSUME NEW context,
           NEW type \in {"case_overview", "investigation_timeline", "evidence_summary", "findings",
                         "mitre_mapping", "incident_response_actions", "risk_assessment",
                         "recommendations", "appendix"}
    PROVE  Report!BuildSection(type, context).type = type
<1>1. \A t, c, e : Report!Section(t, c, e).type = t
  BY DEF Report!Section
<1>2. CASE type = "case_overview"
  BY <1>1, <1>2 DEF Report!BuildSection
<1>3. CASE type = "investigation_timeline"
  BY <1>1, <1>3 DEF Report!BuildSection
<1>4. CASE type = "evidence_summary"
  BY <1>1, <1>4 DEF Report!BuildSection
<1>5. CASE type = "findings"
  BY <1>1, <1>5 DEF Report!BuildSection
<1>6. CASE type = "mitre_mapping"
  BY <1>1, <1>6 DEF Report!BuildSection
<1>7. CASE type = "incident_response_actions"
  BY <1>1, <1>7 DEF Report!BuildSection
<1>8. CASE type = "risk_assessment"
  BY <1>1, <1>8 DEF Report!BuildSection
<1>9. CASE type = "recommendations"
  BY <1>1, <1>9 DEF Report!BuildSection
<1>10. CASE type = "appendix"
  BY <1>1, <1>10 DEF Report!BuildSection
<1> QED BY <1>2, <1>3, <1>4, <1>5, <1>6, <1>7, <1>8, <1>9, <1>10

\* A technical report about something the agent asks for is complete.
LEMMA TechnicalComplete ==
    ASSUME NEW context, NEW field \in {"findings", "mitre_mappings", "iocs"},
           context.records[field] # <<>>
    PROVE  ~ Report!GenerateReport(context, "technical_investigation").degraded
<1> DEFINE technical == <<"case_overview", "investigation_timeline", "evidence_summary", "findings",
                          "mitre_mapping", "incident_response_actions", "risk_assessment",
                          "recommendations", "appendix">>
           sections == [i \in 1 .. 9 |-> Report!BuildSection(technical[i], context)]
           types == [i \in 1 .. Len(sections) |-> sections[i].type]
<1>1. Report!ReportTypeSections["technical_investigation"] = technical
  BY DEF Report!ReportTypeSections
<1>2. Len(technical) = 9
  OBVIOUS
<1>3. Report!GenerateReport(context, "technical_investigation")
        = Report!Validated(context, "technical_investigation", sections)
  BY <1>1, <1>2 DEF Report!GenerateReport
<1>4. Len(sections) = 9
  OBVIOUS
<1>5. \A i \in 1 .. 9 : types[i] = technical[i]
  BY <1>4, SectionTypes
<1>6. types = technical
  BY <1>4, <1>5
<1>7. Report!IsInjective(types)
  BY <1>6 DEF Report!IsInjective
<1>8. ~ sections[9].empty
  BY AppendixFilled
<1> HIDE DEF sections
<1>9. Report!Complete("technical_investigation", sections)
  BY <1>1, <1>4, <1>6, <1>7, <1>8 DEF Report!Complete
<1>10. \A c, t, ss, b : Report!GeneratedReport(c, t, ss, b).degraded = ~b
  BY DEF Report!GeneratedReport
<1>11. Report!Complete("technical_investigation", sections) = TRUE
  BY <1>9
<1>12. Report!GenerateReport(context, "technical_investigation")
         = Report!GeneratedReport(context, "technical_investigation", sections, TRUE)
  BY <1>3, <1>11, Zenon DEF Report!Validated
<1> QED BY <1>10, <1>12, Zenon

\* Whatever was read, no report is degraded but the one that is none.
LEMMA NoneIsHollow ==
    ASSUME NEW rs
    PROVE  Report!Report(rs).status # "degraded" \/ Report!Report(rs).report = Report!NoReport
<1> DEFINE context == Report!Context(rs)
           nothing == \A field \in {"findings", "mitre_mappings", "iocs"} :
                         context.records[field] = <<>>
<1>1. CASE nothing
  BY <1>1 DEF Report!Report
<1>2. CASE ~nothing /\ Report!Oversized(context)
  BY <1>2 DEF Report!Report
<1>3. CASE ~nothing /\ ~Report!Oversized(context)
  <2>1. ~ Report!GenerateReport(context, "technical_investigation").degraded
    <3> HIDE DEF context
    <3> QED BY <1>3, TechnicalComplete
  <2>2. Report!Report(rs) = Report!Made(Report!GenerateReport(context, "technical_investigation"))
    BY <1>3 DEF Report!Report
  <2> QED BY <2>1, <2>2 DEF Report!Made
<1> QED BY <1>1, <1>2, <1>3

\* A report that is made is never hollow, whatever the case has
\* (report_generator_agent.py, its completeness check and the appendix agree).
THEOREM ReportsFilled == Spec => []NoHollowReport
<1>1. ReportInv => NoHollowReport
  BY NoneIsHollow DEF ReportInv, NoHollowReport
<1> QED BY <1>1, ReportInit, ReportStep, PTL DEF Spec
-----------------------------------------------------------------------------
(* Indicators. *)

\* The operators of the module of indicators are those of this one.
LEMMA ThreatSame ==
    /\ \A S : Threat!Cardinality(S) = Cardinality(S)
    /\ \A s, S : Threat!Those(s, S) = Those(s, S)
    /\ \A s, n : Threat!FirstOf(s, n) = FirstOf(s, n)
    /\ \A S : Threat!Max(S) = Max(S)
    /\ \A S : Threat!Min(S) = Min(S)
    /\ \A ss : Threat!FlattenSeq(ss) = FlattenSeq(ss)
    /\ \A s : Threat!ToSet(s) = ToSet(s)
<1>1. \A S : Threat!Cardinality(S) = Cardinality(S)
  BY Zenon DEF Threat!Cardinality, Cardinality
<1>2. \A S : Threat!Min(S) = Min(S)
  BY DEF Threat!Min, Min
<1>3. \A s, n : Threat!FirstOf(s, n) = FirstOf(s, n)
  BY <1>2 DEF Threat!FirstOf, FirstOf
<1>4. \A S, before : Threat!Order(S, before) = Order(S, before)
  BY Zenon DEF Threat!Order, Order, Threat!Cardinality, Cardinality
<1>5. \A s, S, before : Threat!Sorted(s, S, before) = Sorted(s, S, before)
  BY <1>4 DEF Threat!Sorted, Sorted
<1>6. \A s, S : Threat!Those(s, S) = Those(s, S)
  BY <1>5 DEF Threat!Those, Those
<1>7. \A S : Threat!Max(S) = Max(S)
  BY DEF Threat!Max, Max
<1>8. \A ss : Threat!FlattenSeq(ss) = FlattenSeq(ss)
  BY Zenon DEF Threat!FlattenSeq, FlattenSeq
<1>9. \A s : Threat!ToSet(s) = ToSet(s)
  BY DEF Threat!ToSet, ToSet
<1> QED BY <1>1, <1>2, <1>3, <1>6, <1>7, <1>8, <1>9

\* What is found has no severity of its own and one of two confidences.
Likely(c) ==
    /\ {"confidence", "severity"} \subseteq DOMAIN c
    /\ c["confidence"] \in {60, 95} /\ c["severity"] = "info"

AllLikely(s) == IsList(s) /\ \A i \in DOMAIN s : Likely(s[i])

\* An indicator that is found.
LEMMA FoundLikely ==
    ASSUME NEW t, NEW v, NEW l, NEW c \in {60, 95} PROVE Likely(Threat!IOC(t, v, l, c))
BY DEF Likely, Threat!IOC

\* In the fields of a record.
LEMMA StructuredLikely == ASSUME NEW r PROVE AllLikely(Threat!StructuredFields(r))
<1> DEFINE field == <<<<"ipv4", r.ip>>, <<"hostname", r.host>>, <<"username", r.user>>>>
           S == {i \in DOMAIN field : field[i][2] # None}
<1>1. DOMAIN field = 1 .. 3 /\ field = [i \in 1 .. 3 |-> field[i]]
  OBVIOUS
<1>2. IsList(field)
  <2> HIDE DEF field
  <2>1. 3 \in Nat
    OBVIOUS
  <2> QED BY <1>1, <2>1, ListOf, Zenon
<1>3. S \in SUBSET DOMAIN field
  OBVIOUS
<1>4. PICK given : given = Those(field, S)
  OBVIOUS
<1>5. IsList(given)
  <2> HIDE DEF field, S
  <2> QED BY <1>2, <1>3, <1>4, ThoseTaken
<1>6. PICK n \in Nat : n = Len(given)
  BY <1>5, ListLength, Zenon
<1>7. PICK found : found = Threat!StructuredFields(r)
  OBVIOUS
<1>8. found = [i \in 1 .. n |-> Threat!IOC(given[i][1], given[i][2], r.line, 95)]
  BY <1>4, <1>6, <1>7, ThreatSame, Zenon DEF Threat!StructuredFields
<1>9. DOMAIN found = 1 .. n /\ \A i \in 1 .. n : Likely(found[i])
  BY <1>8, FoundLikely
<1>10. found = [i \in 1 .. n |-> found[i]]
  BY <1>8
<1>11. IsList(found)
  BY <1>9, <1>10, ListOf
<1> QED BY <1>7, <1>9, <1>11 DEF AllLikely

\* In the text of a record.
LEMMA PatternLikely ==
    ASSUME NEW r, IsFiniteSet(r.text) PROVE AllLikely(Threat!PatternScan(r))
<1> DEFINE F == {p \in Threat!IOCTypes \X r.text : p[1] \in p[2].looks \ {"hostname"}}
<1>1. IsFiniteSet(Threat!IOCTypes)
  <2>1. ASSUME NEW a, NEW b, NEW c, NEW d, NEW e PROVE IsFiniteSet({a, b, c, d, e})
    <3>1. IsFiniteSet({a})
      BY FS_Singleton
    <3>2. IsFiniteSet({a} \cup {b})
      BY <3>1, FS_AddElement
    <3>3. IsFiniteSet(({a} \cup {b}) \cup {c})
      BY <3>2, FS_AddElement
    <3>4. IsFiniteSet((({a} \cup {b}) \cup {c}) \cup {d})
      BY <3>3, FS_AddElement
    <3>5. IsFiniteSet(((({a} \cup {b}) \cup {c}) \cup {d}) \cup {e})
      BY <3>4, FS_AddElement
    <3>6. {a, b, c, d, e} = (((({a} \cup {b}) \cup {c}) \cup {d}) \cup {e})
      OBVIOUS
    <3> QED BY <3>5, <3>6
  <2> DEFINE A == {"ipv4", "ipv6", "domain", "hostname", "url"}
             B == {"email", "sha1", "sha256", "md5", "file_name"}
             C == {"username", "process_name", "registry_key", "port", "service"}
             D == {"mutex", "scheduled_task", "command_line", "user_agent",
                   "certificate_fingerprint"}
  <2>2. IsFiniteSet(A) /\ IsFiniteSet(B) /\ IsFiniteSet(C) /\ IsFiniteSet(D)
    BY <2>1, Zenon
  <2>3. Threat!IOCTypes = (A \cup B) \cup (C \cup D)
    BY Zenon DEF Threat!IOCTypes
  <2> HIDE DEF A, B, C, D
  <2>4. IsFiniteSet(A \cup B) /\ IsFiniteSet(C \cup D)
    BY <2>2, FS_Union
  <2> QED BY <2>3, <2>4, FS_Union
<1>2. IsFiniteSet(F)
  <2>1. IsFiniteSet(Threat!IOCTypes \X r.text)
    BY <1>1, FS_Product
  <2>2. F \subseteq Threat!IOCTypes \X r.text
    OBVIOUS
  <2> QED BY <2>1, <2>2, FS_Subset
<1>3. PICK n \in Nat : n = Cardinality(F)
  BY <1>2, FS_CardinalityType
<1>4. PICK found : found = Threat!PatternScan(r)
  OBVIOUS
<1>5. found = [i \in 1 .. n |-> Threat!IOC(Threat!SetToSeq(F)[i][1], Threat!SetToSeq(F)[i][2],
                                          r.line, 60)]
  BY <1>3, <1>4, ThreatSame, Zenon DEF Threat!PatternScan
<1> HIDE DEF F
<1>6. DOMAIN found = 1 .. n /\ \A i \in 1 .. n : Likely(found[i])
  BY <1>5, FoundLikely
<1>7. found = [i \in 1 .. n |-> found[i]]
  BY <1>5
<1>8. IsList(found)
  BY <1>6, <1>7, ListOf
<1> QED BY <1>4, <1>6, <1>8 DEF AllLikely

\* In all the records.
LEMMA DiscoverLikely ==
    ASSUME NEW rs, IsList(rs), \A i \in DOMAIN rs : IsFiniteSet(rs[i].text)
    PROVE  AllLikely(Threat!Discover(rs))
<1>1. PICK n \in Nat : n = Len(rs) /\ DOMAIN rs = 1 .. n
  BY ListLength, Zenon
<1>2. CASE Threat!TextLength(rs) > MaxText
  <2>1. PICK found : found = <<>> /\ DOMAIN found = 1 .. 0 /\ found = [i \in 1 .. 0 |-> found[i]]
    OBVIOUS
  <2>2. IsList(found) /\ \A i \in DOMAIN found : Likely(found[i])
    <3>1. IsList(found)
      BY <2>1, ListOf, 0 \in Nat, Zenon
    <3> QED BY <2>1, <3>1
  <2>3. Threat!Discover(rs) = <<>>
    BY <1>2 DEF Threat!Discover
  <2> QED BY <2>1, <2>2, <2>3 DEF AllLikely
<1>3. CASE ~ (Threat!TextLength(rs) > MaxText)
  <2> DEFINE Found(i) == Threat!StructuredFields(rs[i]) \o Threat!PatternScan(rs[i])
  <2>1. PICK ss : ss = [i \in 1 .. n |-> Found(i)]
    OBVIOUS
  <2>2. ASSUME NEW i \in 1 .. n PROVE AllLikely(Found(i))
    <3>1. PICK a, b : a = Threat!StructuredFields(rs[i]) /\ b = Threat!PatternScan(rs[i])
      OBVIOUS
    <3>2. AllLikely(a) /\ AllLikely(b)
      BY <1>1, <3>1, StructuredLikely, PatternLikely
    <3>2a. IsList(a) /\ IsList(b)
      BY <3>2 DEF AllLikely
    <3>3. PICK t : t = a \o b
      OBVIOUS
    <3>4. IsList(t) /\ TakenOfTwo(t, a, b)
      BY <3>2a, <3>3, ConcatTaken, Zenon
    <3>5. AllLikely(t)
      BY <3>2, <3>4, Zenon DEF AllLikely, TakenOfTwo
    <3> QED BY <3>1, <3>3, <3>5
  <2> HIDE DEF Found
  <2>3. /\ DOMAIN ss = 1 .. n /\ ss = [i \in 1 .. n |-> ss[i]]
        /\ \A i \in 1 .. n : AllLikely(ss[i])
    BY <2>1, <2>2
  <2>4. PICK t : t = FlattenSeq(ss)
    OBVIOUS
  <2>5. /\ IsList(t)
        /\ \A k \in DOMAIN t : \E m \in 1 .. n : \E j \in DOMAIN ss[m] : t[k] = ss[m][j]
    <3>1. \A i \in 1 .. n : IsList(ss[i])
      BY <2>3 DEF AllLikely
    <3>2. IsList(t) /\ TakenOfAll(t, ss)
      BY <2>3, <2>4, <3>1, FlattenTaken, Zenon
    <3> QED BY <2>3, <3>2 DEF TakenOfAll
  <2>6. AllLikely(t)
    BY <2>3, <2>5, Zenon DEF AllLikely
  <2>7. Threat!Discover(rs) = t
    BY <1>1, <1>3, <2>1, <2>4, ThreatSame, Zenon DEF Threat!Discover, Found
  <2> QED BY <2>6, <2>7
<1> QED BY <1>2, <1>3

\* The highest of two confidences is one of them.
LEMMA HighestConfidence ==
    ASSUME NEW S, S \subseteq {60, 95}, S # {} PROVE Max(S) \in {60, 95}
<1>1. \E x \in S : \A y \in S : x >= y
  <2>1. CASE 95 \in S
    BY <2>1
  <2>2. CASE 95 \notin S
    <3>1. \A y \in S : y = 60
      BY <2>2
    <3>2. PICK y : y \in S
      OBVIOUS
    <3>3. 60 \in S
      BY <3>1, <3>2
    <3> QED BY <3>1, <3>3
  <2> QED BY <2>1, <2>2
<1>2. Max(S) \in S
  BY <1>1, Zenon DEF Max
<1> QED BY <1>2

\* Indicators that are merged.
LEMMA DeduplicateLikely ==
    ASSUME NEW s, AllLikely(s) PROVE AllLikely(Threat!Deduplicate(s))
<1> DEFINE Same(i) == {j \in DOMAIN s : Threat!SameIndicator(s[i], s[j])}
           First == {i \in DOMAIN s : \A j \in Same(i) : i <= j}
           M(i) == Threat!Merged(s[i], {s[j] : j \in Same(i)})
<1>1. PICK merged : merged = [i \in DOMAIN s |-> M(i)]
  OBVIOUS
<1>2. ASSUME NEW i \in DOMAIN s PROVE Likely(M(i))
  <2>1. PICK all : all = {s[j] : j \in Same(i)}
    OBVIOUS
  <2>2. i \in Same(i)
    BY DEF Threat!SameIndicator
  <2>3. \A c \in all : Likely(c)
    BY <2>1 DEF AllLikely
  <2>4. s[i] \in all
    BY <2>1, <2>2
  <2> HIDE DEF Same
  <2>5. PICK C : C = {c.confidence : c \in all}
    OBVIOUS
  <2>6. C \subseteq {60, 95} /\ C # {}
    BY <2>3, <2>4, <2>5 DEF Likely
  <2>7. Max(C) \in {60, 95}
    BY <2>6, HighestConfidence
  <2>8. PICK c, ls, x : c = s[i] /\ ls = UNION {d.lines : d \in all} /\ x = Max(C)
    OBVIOUS
  <2>9. M(i) = [[c EXCEPT !.lines = ls] EXCEPT !.confidence = x]
    BY <2>1, <2>5, <2>8, ThreatSame, Zenon DEF Threat!Merged
  <2>10. Likely(c) /\ x \in {60, 95}
    BY <2>3, <2>4, <2>7, <2>8
  <2> HIDE DEF M
  <2> QED BY <2>9, <2>10 DEF Likely
<1> HIDE DEF M
<1>3. DOMAIN merged = DOMAIN s /\ \A i \in DOMAIN s : Likely(merged[i])
  BY <1>1, <1>2
<1>4. PICK n \in Nat : n = Len(s) /\ DOMAIN s = 1 .. n
  BY ListLength, Zenon DEF AllLikely
<1>5. IsList(merged)
  <2>1. DOMAIN merged = 1 .. n /\ merged = [i \in 1 .. n |-> merged[i]]
    BY <1>1, <1>4
  <2> QED BY <2>1, ListOf
<1>6. PICK t : t = Those(merged, First)
  OBVIOUS
<1>7. First \in SUBSET DOMAIN merged
  BY <1>3
<1> HIDE DEF First, Same
<1>8. IsList(t) /\ \A k \in DOMAIN t : \E i \in First : t[k] = merged[i]
  BY <1>5, <1>6, <1>7, ThoseTaken
<1>9. AllLikely(t)
  BY <1>3, <1>7, <1>8 DEF AllLikely
<1>10. Threat!Deduplicate(s) = t
  BY <1>1, <1>6, ThreatSame, Zenon DEF Threat!Deduplicate, First, Same, M
<1> QED BY <1>9, <1>10
\* The lower of two numbers.
LEMMA LowerOne ==
    ASSUME NEW a \in Int, NEW b \in Int
    PROVE  Min({a, b}) \in {a, b} /\ Min({a, b}) <= a /\ Min({a, b}) <= b
<1> DEFINE S == {a, b}
<1>1. \E x \in S : \A y \in S : x <= y
  OBVIOUS
<1>2. Min(S) \in S /\ \A y \in S : Min(S) <= y
  <2> HIDE DEF S
  <2> QED BY <1>1, Zenon DEF Min
<1> QED BY <1>2

\* With two matches at most the score stays under the medium threshold.
LEMMA ScoreLow ==
    ASSUME NEW c, Likely(c), NEW m \in 0 .. 2, NEW quality \in 0 .. 100
    PROVE  /\ Threat!Score(c, m, quality, Threat!SourceReliability) \in Int
           /\ Threat!Score(c, m, quality, Threat!SourceReliability) < 5500
<1>1. PICK e \in Int, q \in Int : /\ e = c.confidence /\ 60 <= e /\ e <= 95
                                  /\ q = quality /\ 0 <= q /\ q <= 100
  BY DEF Likely
<1>2. PICK n \in 0 .. 2 : n = Threat!Saturated(m)
  <2>1. Min({3, m}) \in {3, m} /\ Min({3, m}) <= m
    BY LowerOne
  <2>2. Min({3, m}) \in 0 .. 2
    BY <2>1
  <2> QED BY <2>2, ThreatSame DEF Threat!Saturated
<1>3. PICK k \in Int : k = Min({600, 3 * e + 100 * n}) /\ k <= 485 /\ k >= 180
  <2>1. 600 \in Int /\ 3 * e + 100 * n \in Int
    BY <1>1
  <2>2. /\ Min({600, 3 * e + 100 * n}) \in {600, 3 * e + 100 * n}
        /\ Min({600, 3 * e + 100 * n}) <= 3 * e + 100 * n
    BY <2>1, LowerOne
  <2> QED BY <1>1, <2>1, <2>2
<1>4. Threat!SeverityWeight[c.severity] = 0 /\ Threat!Reliability[Threat!SourceReliability] = 20
  BY DEF Likely, Threat!SeverityWeight, Threat!Reliability, Threat!SourceReliability
<1>5. Threat!Score(c, m, quality, Threat!SourceReliability)
        = Threat!Rounded(100 * (6 * e + 12 * 0 + k + 6 * q + 6 * 20 + 200 * n), 42)
  <2>1. e = c.confidence /\ q = quality
    BY <1>1
  <2>2. Threat!Min({600, 3 * e + 100 * n}) = k
    BY <1>3, ThreatSame
  <2>3. PICK a, b : /\ a = Threat!SeverityWeight[c.severity]
                    /\ b = Threat!Reliability[Threat!SourceReliability]
    OBVIOUS
  <2>4. Threat!Score(c, m, quality, Threat!SourceReliability)
          = Threat!Rounded(100 * (6 * e + 12 * a + k + 6 * q + 6 * b + 200 * n), 42)
    <3>1. Threat!Score(c, m, quality, Threat!SourceReliability)
            = Threat!Rounded(100 * (6 * c.confidence + 12 * Threat!SeverityWeight[c.severity]
                  + Threat!Min({600, 3 * c.confidence + 100 * Threat!Saturated(m)})
                  + 6 * quality + 6 * Threat!Reliability[Threat!SourceReliability]
                  + 200 * Threat!Saturated(m)), 42)
      BY Zenon DEF Threat!Score
    <3>2. n = Threat!Saturated(m)
      BY <1>2
    <3>3. Threat!Min({600, 3 * c.confidence + 100 * Threat!Saturated(m)}) = k
      BY <2>1, <2>2, <3>2
    <3> QED BY <2>1, <2>3, <3>1, <3>2, <3>3
  <2>5. a = 0 /\ b = 20
    BY <1>4, <2>3
  <2> QED BY <2>4, <2>5, Zenon
<1>6. PICK x \in Int : x = 100 * (6 * e + 12 * 0 + k + 6 * q + 6 * 20 + 200 * n)
  BY <1>1, <1>3
<1>7. 0 <= x /\ x <= 217500
  BY <1>1, <1>2, <1>3, <1>6
<1>8. Threat!Rounded(x, 42) = (2 * x + 42) \div 84
  BY DEF Threat!Rounded
<1>9. (2 * x + 42) \div 84 \in Int /\ (2 * x + 42) \div 84 < 5500
  BY <1>7
<1> QED BY <1>5, <1>6, <1>8, <1>9

\* The rules that are registered are among those that were to be.
LEMMA RegisteredAmong ==
    ASSUME NEW rules, IsList(rules)
    PROVE  /\ IsList(Threat!Registered(rules))
           /\ \A i \in DOMAIN Threat!Registered(rules) :
                \E j \in DOMAIN rules : Threat!Registered(rules)[i] = rules[j]
<1>1. \E S : S \subseteq DOMAIN rules /\ Threat!Registered(rules) = Threat!Those(rules, S)
  BY Zenon DEF Threat!Registered
<1>2. PICK S \in SUBSET DOMAIN rules : Threat!Registered(rules) = Those(rules, S)
  BY <1>1, ThreatSame
<1>3. PICK t : t = Threat!Registered(rules)
  OBVIOUS
<1>4. IsList(t) /\ \A i \in DOMAIN t : \E j \in S : t[i] = rules[j]
  BY <1>2, <1>3, ThoseTaken
<1> QED BY <1>3, <1>4

\* The rules an upload is looked at with: the default ones match some types
\* each, the others no indicator of their own.
LEMMA RulesKnown ==
    ASSUME NEW i \in DOMAIN Threat!Registered(Threat!DefaultRules \o ExtraRules)
    PROVE  LET r == Threat!Registered(Threat!DefaultRules \o ExtraRules)[i] IN
           r \in ToSet(Threat!DefaultRules) \/ r.type \in {"threshold", "composite"}
<1>1. PICK d, x, all : d = Threat!DefaultRules /\ x = ExtraRules /\ all = d \o x
  OBVIOUS
<1>2. IsList(d)
  <2>1. DOMAIN d = 1 .. 5 /\ d = [j \in 1 .. 5 |-> d[j]]
    BY <1>1 DEF Threat!DefaultRules
  <2>2. 5 \in Nat
    OBVIOUS
  <2> QED BY <2>1, <2>2, ListOf, Zenon
<1>3. IsList(x)
  BY <1>1, RulesAssumption, LenProperties DEF RulesAssumption, IsList
<1>4. IsList(all) /\ TakenOfTwo(all, d, x)
  BY <1>1, <1>2, <1>3, ConcatTaken, Zenon
<1>5. PICK r : r = Threat!Registered(Threat!DefaultRules \o ExtraRules)[i]
  OBVIOUS
<1>6. PICK j \in DOMAIN all : r = all[j]
  BY <1>1, <1>4, <1>5, RegisteredAmong, Zenon
<1>7. CASE \E k \in DOMAIN d : all[j] = d[k]
  BY <1>1, <1>5, <1>6, <1>7 DEF ToSet
<1>8. CASE \E k \in DOMAIN x : all[j] = x[k]
  <2>1. r \in ToSet(ExtraRules)
    BY <1>1, <1>6, <1>8 DEF ToSet
  <2> QED BY <1>5, <2>1, RulesAssumption DEF RulesAssumption
<1> QED BY <1>4, <1>6, <1>7, <1>8 DEF TakenOfTwo

\* No indicator is matched by more than two rules of its own.
LEMMA OwnMatchesFew ==
    ASSUME NEW c
    PROVE  Cardinality(Threat!OwnMatches(Threat!Registered(Threat!DefaultRules \o ExtraRules), c))
             \in 0 .. 2
<1> DEFINE d == Threat!DefaultRules
<1>1. PICK rules : rules = Threat!Registered(Threat!DefaultRules \o ExtraRules)
  OBVIOUS
<1>2. PICK own : own = Threat!OwnMatches(rules, c)
  OBVIOUS
<1>3. \A r \in own : r \in ToSet(rules) /\ r.type \in {"pattern", "regex"} /\ c.type \in r.on
  BY <1>2, ThreatSame DEF Threat!OwnMatches, Threat!SimpleMatch
<1>4. ASSUME NEW r \in own PROVE r \in ToSet(d) /\ c.type \in r.on
  <2>1. PICK i \in DOMAIN rules : r = rules[i]
    BY <1>3 DEF ToSet
  <2>2. r \in ToSet(d) \/ r.type \in {"threshold", "composite"}
    BY <1>1, <2>1, RulesKnown
  <2> QED BY <1>3, <2>2
<1>5. PICK d1, d2, d3, d4, d5 :
        /\ d = <<d1, d2, d3, d4, d5>>
        /\ d1.on = {"port"} /\ d2.on = {"file_name"} /\ d3.on = {"domain", "hostname"}
        /\ d4.on = {"username"} /\ d5.on = {"file_name"}
  <2> DEFINE a1 == Threat!Simple("backdoor_port", {"port"}, "backdoor_port")
             a2 == Threat!Simple("lure_archive", {"file_name"}, "lure")
             a3 == Threat!Simple("suspicious_tld", {"domain", "hostname"}, "bad_tld")
             a4 == Threat!Simple("privileged_username", {"username"}, "privileged")
             a5 == Threat!Simple("executable_extension", {"file_name"}, "executable")
  <2>1. d = <<a1, a2, a3, a4, a5>>
    BY Zenon DEF Threat!DefaultRules
  <2>2. /\ a1.on = {"port"} /\ a2.on = {"file_name"} /\ a3.on = {"domain", "hostname"}
        /\ a4.on = {"username"} /\ a5.on = {"file_name"}
    BY DEF Threat!Simple
  <2> HIDE DEF d, a1, a2, a3, a4, a5
  <2> QED BY <2>1, <2>2, Zenon
<1>6. ToSet(d) = {d1, d2, d3, d4, d5}
  <2> HIDE DEF d
  <2> QED BY <1>5 DEF ToSet
<1> HIDE DEF d
<1>7. own \subseteq {d1} \/ own \subseteq {d2, d5} \/ own \subseteq {d3} \/ own \subseteq {d4}
  BY <1>4, <1>5, <1>6
<1>8. PICK a, b : own \subseteq {a} \cup {b}
  BY <1>7
<1>9. /\ IsFiniteSet({a} \cup {b})
      /\ Cardinality({a} \cup {b}) \in Nat /\ Cardinality({a} \cup {b}) <= 2
  <2>1. IsFiniteSet({a}) /\ Cardinality({a}) = 1
    BY FS_Singleton
  <2>2. /\ IsFiniteSet({a} \cup {b})
        /\ Cardinality({a} \cup {b}) = IF b \in {a} THEN Cardinality({a}) ELSE Cardinality({a}) + 1
    BY <2>1, FS_AddElement
  <2> QED BY <2>1, <2>2
<1>10. Cardinality(own) \in Nat /\ Cardinality(own) <= Cardinality({a} \cup {b})
  BY <1>8, <1>9, FS_Subset, FS_CardinalityType
<1> QED BY <1>1, <1>2, <1>9, <1>10
\* An indicator that is scored low is of low severity at most.
LEMMA ScoredLow ==
    ASSUME NEW c, Likely(c), NEW quality \in 0 .. 100
    PROVE  Threat!ScoredIOC(Threat!Registered(Threat!DefaultRules \o ExtraRules), c, quality).severity
             \in {"info", "low"}
<1>1. PICK rules : rules = Threat!Registered(Threat!DefaultRules \o ExtraRules)
  OBVIOUS
<1>2. PICK m \in 0 .. 2 : m = Threat!Cardinality(Threat!OwnMatches(rules, c))
  BY <1>1, OwnMatchesFew, ThreatSame
<1>3. PICK score \in Int : /\ score = Threat!Score(c, m, quality, Threat!SourceReliability)
                           /\ score < 5500
  BY ScoreLow
<1>4. PICK e \in Int : e = c.confidence /\ e > 0
  BY DEF Likely
<1>5. PICK category : category = Threat!Category(score, m, e)
  OBVIOUS
<1>6. Threat!ScoredIOC(rules, c, quality).severity = Threat!Severity(category, score)
  <2>1. Threat!ScoredIOC(rules, c, quality).severity
          = Threat!Severity(Threat!Category(
                Threat!Score(c, Threat!Cardinality(Threat!OwnMatches(rules, c)), quality,
                             Threat!SourceReliability),
                Threat!Cardinality(Threat!OwnMatches(rules, c)), c.confidence),
              Threat!Score(c, Threat!Cardinality(Threat!OwnMatches(rules, c)), quality,
                           Threat!SourceReliability))
    BY DEF Threat!ScoredIOC
  <2> QED BY <1>2, <1>3, <1>4, <1>5, <2>1
<1>7. category \in {"suspicious", "benign"}
  <2>1. score < MaliciousScore /\ MaliciousScore \in Int /\ SuspiciousScore \in Int
    BY <1>3, RulesAssumption DEF RulesAssumption
  <2>2. CASE score >= SuspiciousScore \/ m > 0
    BY <1>5, <2>1, <2>2 DEF Threat!Category
  <2>3. CASE ~ (score >= SuspiciousScore \/ m > 0)
    BY <1>2, <1>3, <1>4, <1>5, <2>1, <2>3 DEF Threat!Category
  <2> QED BY <2>2, <2>3
<1>8. ~ (score >= MediumScore)
  BY <1>3, RulesAssumption DEF RulesAssumption
<1>9. Threat!Severity(category, score) \in {"info", "low"}
  BY <1>7, <1>8 DEF Threat!Severity
<1> QED BY <1>1, <1>6, <1>9

\* All indicators of an upload are of low severity at most.
LEMMA ExtractLow ==
    ASSUME NEW rs, IsList(rs), \A i \in DOMAIN rs : IsFiniteSet(rs[i].text),
           NEW quality \in 0 .. 100
    PROVE  LET iocs == Threat!Extract(rs, quality).iocs IN
           \A i \in DOMAIN iocs : iocs[i].severity \in {"info", "low"}
<1>1. PICK candidates : candidates = Threat!Discover(rs)
  OBVIOUS
<1>2. AllLikely(candidates)
  BY <1>1, DiscoverLikely
<1> DEFINE S == {i \in DOMAIN candidates : Threat!Valid(candidates[i])}
<1>3. PICK valid : valid = Those(candidates, S)
  OBVIOUS
<1>4. AllLikely(valid)
  <2>1. S \in SUBSET DOMAIN candidates
    OBVIOUS
  <2> HIDE DEF S
  <2>2. IsList(candidates)
    BY <1>2 DEF AllLikely
  <2>3. IsList(valid) /\ \A n \in DOMAIN valid : \E i \in S : valid[n] = candidates[i]
    BY <1>3, <2>1, <2>2, ThoseTaken
  <2> QED BY <1>2, <2>1, <2>3 DEF AllLikely
<1>5. PICK n \in Nat : n = Len(valid) /\ DOMAIN valid = 1 .. n
  BY <1>4, ListLength, Zenon DEF AllLikely
<1>6. PICK canonical : canonical = [i \in 1 .. n |-> Threat!Canonical(valid[i])]
  OBVIOUS
<1>7. AllLikely(canonical)
  <2>1. ASSUME NEW c, Likely(c) PROVE Likely(Threat!Canonical(c))
    <3>1. PICK x : Threat!Canonical(c) = [c EXCEPT !.value = x]
      BY Zenon DEF Threat!Canonical
    <3> QED BY <2>1, <3>1 DEF Likely
  <2>2. /\ DOMAIN canonical = 1 .. n /\ canonical = [i \in 1 .. n |-> canonical[i]]
        /\ \A i \in 1 .. n : Likely(canonical[i])
    BY <1>4, <1>5, <1>6, <2>1 DEF AllLikely
  <2>3. IsList(canonical)
    BY <2>2, ListOf
  <2> QED BY <2>2, <2>3 DEF AllLikely
<1>8. PICK unique : unique = Threat!Deduplicate(canonical)
  OBVIOUS
<1>9. AllLikely(unique)
  BY <1>7, <1>8, DeduplicateLikely
<1>10. PICK kept : kept = FirstOf(unique, MaxIndicators)
  OBVIOUS
<1>11. AllLikely(kept)
  <2>1. IsList(unique) /\ MaxIndicators \in Nat
    BY <1>9, TextAssumption DEF AllLikely, TextAssumption
  <2>2. IsList(kept) /\ DOMAIN kept \subseteq DOMAIN unique /\ \A i \in DOMAIN kept : kept[i] = unique[i]
    BY <1>10, <2>1, FirstTaken
  <2> QED BY <1>9, <2>2 DEF AllLikely
<1>12. PICK m \in Nat : m = Len(kept) /\ DOMAIN kept = 1 .. m
  BY <1>11, ListLength, Zenon DEF AllLikely
<1> DEFINE rules == Threat!Registered(Threat!DefaultRules \o ExtraRules)
<1>13. PICK iocs : iocs = [i \in 1 .. m |-> Threat!ScoredIOC(rules, kept[i], quality)]
  OBVIOUS
<1>14. Threat!Extract(rs, quality).iocs = iocs
  <2>1. kept = Threat!Capped(Threat!Deduplicate(canonical))
    BY <1>8, <1>10, ThreatSame DEF Threat!Capped
  <2>2. valid = Threat!Those(candidates, S)
    BY <1>3, ThreatSame
  <2>3. canonical = [i \in 1 .. Len(valid) |-> Threat!Canonical(valid[i])]
    BY <1>5, <1>6
  <2>4. Threat!Extract(rs, quality).iocs
          = [i \in 1 .. Len(kept) |-> Threat!ScoredIOC(rules, kept[i], quality)]
    BY <1>1, <2>1, <2>2, <2>3 DEF Threat!Extract
  <2> QED BY <1>12, <1>13, <2>4
<1>15. ASSUME NEW i \in 1 .. m PROVE iocs[i].severity \in {"info", "low"}
  <2>1. Likely(kept[i])
    BY <1>11, <1>12 DEF AllLikely
  <2>2. iocs[i] = Threat!ScoredIOC(rules, kept[i], quality)
    BY <1>13
  <2> QED BY <2>1, <2>2, ScoredLow
<1>16. DOMAIN iocs = 1 .. m
  BY <1>13
<1> QED BY <1>14, <1>15, <1>16

\* The indicators are those of the records that were read.
ThreatInv ==
    kind = "threat_intel" =>
        /\ IsList(records) /\ \A i \in DOMAIN records : IsFiniteSet(records[i].text)
        /\ \E quality \in 0 .. 100 : intel = Threat!Extract(records, quality)

\* The parser's confidence is a share.
LEMMA QualityRange == ASSUME NEW rs, NEW partly PROVE Quality(rs, partly) \in 0 .. 100
BY TextAssumption DEF TextAssumption, Quality

\* Of nothing first.
LEMMA ThreatInit == Init => ThreatInv
<1> SUFFICES ASSUME Init, kind = "threat_intel" PROVE ThreatInv
  BY DEF ThreatInv
<1>1. kind \notin DOMAIN Extension
  BY KindsDiffer
<1>2. intel = Threat!Extract(<<>>, 0) /\ records = <<>>
  BY <1>1 DEF Init, Analysis
<1> QED BY <1>2, NothingListed DEF ThreatInv

\* Then of one record more.
LEMMA ThreatStep == ThreatInv /\ [Next]_vars => ThreatInv'
<1> SUFFICES ASSUME ThreatInv, [Next]_vars, kind' = "threat_intel" PROVE ThreatInv'
  BY DEF ThreatInv
<1>1. CASE ReadTextRecord
  <2>1. PICK r \in TextRecords : Read("threat_intel", r)
    BY <1>1 DEF ReadTextRecord
  <2>2. PICK s, t, x : /\ s = records /\ t = records' /\ x = With(r, "line", Len(records) + 1)
                       /\ t = Append(s, x)
    BY <2>1 DEF Read
  <2>3. IsList(s) /\ \A i \in DOMAIN s : IsFiniteSet(s[i].text)
    BY <2>1, <2>2 DEF ThreatInv, Read
  <2>4. IsFiniteSet(x.text)
    <3>1. "text" \in DOMAIN r /\ IsFiniteSet(r["text"])
      BY TextAssumption DEF TextAssumption
    <3>2. x["text"] = r["text"]
      BY <2>2, <3>1 DEF With
    <3> QED BY <3>1, <3>2
  <2>5. IsList(t) /\ TakenOrNew(t, s, x)
    BY <2>2, <2>3, OneMore, Zenon
  <2>6. \A i \in DOMAIN t : IsFiniteSet(t[i].text)
    BY <2>3, <2>4, <2>5 DEF TakenOrNew
  <2>7. intel' = Threat!Extract(records', Quality(records', unparsed))
    BY <1>1, <2>1 DEF ReadTextRecord, Read, Weighed
  <2>8. Quality(records', unparsed) \in 0 .. 100
    BY QualityRange
  <2> QED BY <2>2, <2>5, <2>6, <2>7, <2>8 DEF ThreatInv
<1>6. CASE ReadUnparsed
  <2>1. /\ kind = "threat_intel" /\ UNCHANGED <<kind, records>>
        /\ intel' = Weighed(kind, records, Quality(records, unparsed'))
    BY <1>6 DEF ReadUnparsed
  <2>2. intel' = Threat!Extract(records', Quality(records, unparsed'))
    BY <2>1 DEF Weighed
  <2>3. Quality(records, unparsed') \in 0 .. 100
    BY QualityRange
  <2> QED BY <2>1, <2>2, <2>3 DEF ThreatInv
<1>2. CASE ExportReport
  BY <1>2 DEF ExportReport
<1>3. CASE UNCHANGED vars
  BY <1>3 DEF ThreatInv, vars
<1>4. CASE ReadCodeLine
  BY <1>4, KindsDiffer DEF ReadCodeLine, Read
<1>5. CASE ReadLogLine \/ ReadScanRow \/ ReadHttpLine \/ ReadShellLine \/ ReadCaseRecord
            \/ ReadReportRecord \/ Remember \/ Worsen
  BY <1>5 DEF ReadLogLine, ReadScanRow, ReadHttpLine, ReadShellLine, ReadCaseRecord,
              ReadReportRecord, Remember, Worsen, Read
<1> QED BY <1>1, <1>2, <1>3, <1>4, <1>5, <1>6 DEF Next

\* With the default rules and an unrated source no indicator is more than low,
\* however it is found, merged and matched (the weights of scoring.py, the rules
\* of default_rules.py and the thresholds of classification.py together).
THEOREM IndicatorsLow == Spec => []IndicatorsAtMostLow
<1>1. ThreatInv => IndicatorsAtMostLow
  <2> SUFFICES ASSUME ThreatInv, kind = "threat_intel", NEW ioc \in Range(intel.iocs)
               PROVE  ioc.severity \in {"info", "low"}
    BY DEF IndicatorsAtMostLow
  <2>1. PICK rs, iocs : rs = records /\ iocs = intel.iocs
    OBVIOUS
  <2>2. /\ IsList(rs) /\ \A i \in DOMAIN rs : IsFiniteSet(rs[i].text)
    BY <2>1 DEF ThreatInv
  <2>4. PICK quality \in 0 .. 100 : iocs = Threat!Extract(rs, quality).iocs
    BY <2>1 DEF ThreatInv
  <2>3. PICK i \in DOMAIN iocs : ioc = iocs[i]
    BY <2>1 DEF Range
  <2> QED BY <2>2, <2>3, <2>4, ExtractLow
<1> QED BY <1>1, ThreatInit, ThreatStep, PTL DEF Spec
-----------------------------------------------------------------------------
(* Response plans. *)

\* The operators of the module of plans are those of this one.
LEMMA PlanSame ==
    /\ \A s, S : Plan!Those(s, S) = Those(s, S)
    /\ \A s, S, before : Plan!Sorted(s, S, before) = Sorted(s, S, before)
    /\ \A S : Plan!Max(S) = Max(S)
    /\ \A S : Plan!Min(S) = Min(S)
    /\ \A ss : Plan!FlattenSeq(ss) = FlattenSeq(ss)
    /\ \A f : Plan!Range(f) = Range(f)
<1>1. \A S : Plan!Min(S) = Min(S)
  BY DEF Plan!Min, Min
<1>2. \A S, before : Plan!Order(S, before) = Order(S, before)
  BY Zenon DEF Plan!Order, Order, Plan!Cardinality, Cardinality
<1>3. \A s, S, before : Plan!Sorted(s, S, before) = Sorted(s, S, before)
  BY <1>2 DEF Plan!Sorted, Sorted
<1>4. \A s, S : Plan!Those(s, S) = Those(s, S)
  BY <1>3 DEF Plan!Those, Those
<1>5. \A S : Plan!Max(S) = Max(S)
  BY DEF Plan!Max, Max
<1>6. \A ss : Plan!FlattenSeq(ss) = FlattenSeq(ss)
  BY Zenon DEF Plan!FlattenSeq, FlattenSeq
<1>7. \A f : Plan!Range(f) = Range(f)
  BY DEF Plan!Range, Range
<1> QED BY <1>1, <1>3, <1>4, <1>5, <1>6, <1>7

\* What a plan is made from is graded.
Graded(f) ==
    f.severity \in 0 .. 4 /\ f.risk \in 0 .. 100 /\ f.confidence \in 0 .. 100

\* A recommendation that can be ordered.
CategorySet ==
    {"account_disablement", "backup_restoration", "edr_action", "evidence_preservation",
     "firewall_update", "host_isolation", "ioc_blocking", "network_blocking",
     "password_reset", "patch_prioritization", "service_shutdown"}
PhaseSet ==
    {"containment", "isolation", "eradication", "recovery", "validation", "post_incident"}

Sound(r) ==
    /\ {"category", "targets", "phase", "timeframe", "priority", "risk", "confidence",
        "findings"} \subseteq DOMAIN r
    /\ r["category"] \in CategorySet /\ r["phase"] \in PhaseSet
    /\ r["priority"] \in 0 .. 4 /\ r["risk"] \in 0 .. 100 /\ r["confidence"] \in 0 .. 100

AllSound(s) == IsList(s) /\ \A i \in DOMAIN s : Sound(s[i])

\* r answers what finding l calls for: category c, priority p and risk q.
Covers(r, c, l, p, q) ==
    r["category"] = c /\ l \in r["findings"] /\ r["priority"] <= p /\ r["risk"] >= q

Answered(s, c, l, p, q) == \E i \in DOMAIN s : Covers(s[i], c, l, p, q)

\* t answers whatever s does.
Keeps(t, s) ==
    \A c, l : \A p \in 0 .. 4, q \in 0 .. 100 : Answered(s, c, l, p, q) => Answered(t, c, l, p, q)

\* The categories and phases are listed.
LEMMA CategoriesListed ==
    /\ DOMAIN Plan!Categories = 1 .. 11
    /\ \A i \in 1 .. 11 : Plan!Categories[i] \in CategorySet
    /\ \A c \in CategorySet : \E i \in 1 .. 11 : Plan!Categories[i] = c
<1>1. DOMAIN Plan!Categories = 1 .. 11
  BY DEF Plan!Categories
<1>2. ASSUME NEW i \in 1 .. 11 PROVE Plan!Categories[i] \in CategorySet
  BY DEF Plan!Categories, CategorySet
<1>3. ASSUME NEW c \in CategorySet PROVE \E i \in 1 .. 11 : Plan!Categories[i] = c
  <2>1. /\ Plan!Categories[1] = "account_disablement" /\ Plan!Categories[2] = "backup_restoration"
        /\ Plan!Categories[3] = "edr_action" /\ Plan!Categories[4] = "evidence_preservation"
        /\ Plan!Categories[5] = "firewall_update" /\ Plan!Categories[6] = "host_isolation"
        /\ Plan!Categories[7] = "ioc_blocking" /\ Plan!Categories[8] = "network_blocking"
        /\ Plan!Categories[9] = "password_reset" /\ Plan!Categories[10] = "patch_prioritization"
        /\ Plan!Categories[11] = "service_shutdown"
    BY DEF Plan!Categories
  <2> QED BY <2>1 DEF CategorySet
<1> QED BY <1>1, <1>2, <1>3

\* What a finding calls for is one of the categories.
LEMMA MatchedKnown ==
    ASSUME NEW f, Graded(f) PROVE Plan!MatchCategories(f) \subseteq CategorySet
<1>1. ASSUME NEW k \in DOMAIN Plan!TacticCategories
      PROVE  Plan!TacticCategories[k] \subseteq CategorySet
  BY DEF Plan!TacticCategories, CategorySet
<1>2. ASSUME NEW k \in DOMAIN Plan!KeywordCategories
      PROVE  Plan!KeywordCategories[k] \subseteq CategorySet
  BY DEF Plan!KeywordCategories, CategorySet
<1>3. Plan!SeverityFallback(f.severity) \subseteq CategorySet
  <2>1. PICK v \in 0 .. 4 : v = f.severity
    BY DEF Graded
  <2>2. v = 0 \/ v = 1 \/ v = 2 \/ v \in {3, 4}
    OBVIOUS
  <2> QED BY <2>1, <2>2 DEF Plan!SeverityFallback, CategorySet
<1> QED BY <1>1, <1>2, <1>3 DEF Plan!MatchCategories

\* The template of a category.
LEMMA TemplatesKnown ==
    ASSUME NEW c \in CategorySet
    PROVE  /\ Plan!CategoryTemplates[c].phase \in PhaseSet
           /\ Plan!CategoryTemplates[c].priority \in 0 .. 3
BY DEF Plan!CategoryTemplates, CategorySet, PhaseSet

\* The least of some numbers.
LEMMA LeastGrade ==
    ASSUME NEW S, S \subseteq Nat, S # {} PROVE Min(S) \in S /\ \A x \in S : Min(S) <= x
<1>1. \E x \in S : \A y \in S : x <= y
  BY LeastOne
<1> QED BY <1>1, Zenon DEF Min

\* The highest of some grades.
LEMMA HighestGrade ==
    ASSUME NEW S, S \subseteq 0 .. 100, S # {} PROVE Max(S) \in S /\ \A x \in S : Max(S) >= x
<1> DEFINE T == {n \in 0 .. 100 : 100 - n \in S}
<1>1. T \subseteq Nat /\ T # {}
  <2>1. PICK x : x \in S
    OBVIOUS
  <2>2. x \in 0 .. 100
    BY <2>1
  <2>3. 100 - x \in 0 .. 100 /\ 100 - (100 - x) = x
    BY <2>2
  <2>4. 100 - x \in T
    BY <2>1, <2>3
  <2> QED BY <2>4
<1>2. PICK n \in T : \A m \in T : n <= m
  <2> HIDE DEF T
  <2> QED BY <1>1, LeastOne
<1>3. 100 - n \in S /\ n \in 0 .. 100
  BY <1>2
<1>4. ASSUME NEW y \in S PROVE 100 - n >= y
  <2>1. y \in 0 .. 100
    OBVIOUS
  <2>2. 100 - y \in 0 .. 100 /\ 100 - (100 - y) = y
    BY <2>1
  <2>3. 100 - y \in T
    BY <2>2
  <2>4. n <= 100 - y
    <3> HIDE DEF T
    <3> QED BY <1>2, <2>3
  <2> QED BY <1>3, <2>1, <2>4
<1>5. \E x \in S : \A y \in S : x >= y
  BY <1>3, <1>4
<1> QED BY <1>5, Zenon DEF Max

\* How urgent an action is.
LEMMA PriorityKnown ==
    ASSUME NEW f, Graded(f), NEW c \in CategorySet
    PROVE  /\ Plan!Prioritize(f, c).priority \in 0 .. 4
           /\ Plan!Prioritize(f, c).risk \in 0 .. 100
<1>1. PICK v \in 0 .. 4, k \in 0 .. 100, p \in 0 .. 3 :
        v = f.severity /\ k = f.risk /\ p = Plan!CategoryTemplates[c].priority
  BY TemplatesKnown DEF Graded
<1>2. Plan!DefaultRisk(v) \in 0 .. 100
  <2>1. v + 1 \in 1 .. 5
    OBVIOUS
  <2> QED BY <2>1 DEF Plan!DefaultRisk
<1>3. Plan!Max({0, p - 1}) \in 0 .. 4
  <2>1. PICK S : S = {0, p - 1}
    OBVIOUS
  <2>2. \E x \in S : \A y \in S : x >= y
    BY <2>1
  <2>3. Max(S) \in S /\ \A y \in S : Max(S) >= y
    BY <2>2, Zenon DEF Max
  <2>4. Max(S) \in 0 .. 4
    BY <2>1, <2>3
  <2> QED BY <2>1, <2>4, PlanSame
<1>4. Plan!Min({4, p + 1}) \in 0 .. 4
  <2>1. Min({4, p + 1}) \in {4, p + 1}
    BY LeastGrade
  <2>2. Min({4, p + 1}) \in 0 .. 4
    BY <2>1
  <2> QED BY <2>2, PlanSame
<1>5. Plan!Prioritize(f, c).priority
        = (CASE v = 4 -> Plan!Max({0, p - 1})
             [] v \in {2, 3} -> p
             [] v \in {0, 1} -> Plan!Min({4, p + 1}))
  BY <1>1 DEF Plan!Prioritize
<1>6. Plan!Prioritize(f, c).risk = IF k > 0 THEN k ELSE Plan!DefaultRisk(v)
  BY <1>1 DEF Plan!Prioritize
<1>7. v = 4 \/ v \in {2, 3} \/ v \in {0, 1}
  OBVIOUS
<1>8. Plan!Prioritize(f, c).priority \in 0 .. 4
  BY <1>3, <1>4, <1>5, <1>7
<1>9. Plan!Prioritize(f, c).risk \in 0 .. 100
  BY <1>2, <1>6
<1> QED BY <1>8, <1>9, Zenon

\* An action is sound, and answers what it was made from.
LEMMA ActionSound ==
    ASSUME NEW f, Graded(f), NEW c \in CategorySet
    PROVE  /\ Sound(Plan!Action(f, c))
           /\ Covers(Plan!Action(f, c), c, f.line, Plan!Prioritize(f, c).priority,
                     Plan!Prioritize(f, c).risk)
<1>1. PICK p \in 0 .. 4, q \in 0 .. 100, h \in PhaseSet, e \in 0 .. 100 :
        /\ p = Plan!Prioritize(f, c).priority /\ q = Plan!Prioritize(f, c).risk
        /\ h = Plan!CategoryTemplates[c].phase /\ e = f.confidence
  <2>1. /\ Plan!Prioritize(f, c).priority \in 0 .. 4 /\ Plan!Prioritize(f, c).risk \in 0 .. 100
        /\ Plan!CategoryTemplates[c].phase \in PhaseSet /\ f.confidence \in 0 .. 100
    BY PriorityKnown, TemplatesKnown DEF Graded
  <2> QED BY <2>1, Zenon
<1>2. PICK l, t, m : l = f.line /\ t = Plan!CategoryTemplates[c].timeframe /\ m = {f.target} \ {None}
  OBVIOUS
<1>3. Plan!Action(f, c) = [category |-> c, targets |-> m, phase |-> h, timeframe |-> t,
                           priority |-> p, risk |-> q, confidence |-> e, findings |-> {l}]
  BY <1>1, <1>2 DEF Plan!Action
<1>4. Sound(Plan!Action(f, c))
  BY <1>3 DEF Sound
<1>5. Covers(Plan!Action(f, c), c, l, p, q)
  BY <1>3 DEF Covers
<1> QED BY <1>1, <1>2, <1>4, <1>5
\* What a finding calls for is asked for.
LEMMA ActionsSound ==
    ASSUME NEW f, Graded(f)
    PROVE  /\ AllSound(Plan!Actions(f))
           /\ \A c \in Plan!MatchCategories(f) :
                Answered(Plan!Actions(f), c, f.line, Plan!Prioritize(f, c).priority,
                         Plan!Prioritize(f, c).risk)
<1> DEFINE S == {i \in DOMAIN Plan!Categories : Plan!Categories[i] \in Plan!MatchCategories(f)}
<1>1. PICK all : all = Plan!Categories /\ DOMAIN all = 1 .. 11 /\ all = [i \in 1 .. 11 |-> all[i]]
  <2>1. Plan!Categories = [i \in 1 .. 11 |-> Plan!Categories[i]]
    BY DEF Plan!Categories
  <2> QED BY <2>1, CategoriesListed, Zenon
<1>2. IsList(all)
  BY <1>1, ListOf, 11 \in Nat, Zenon
<1>3. PICK matched : matched = Those(all, S)
  OBVIOUS
<1>4. S \in SUBSET DOMAIN all
  BY <1>1
<1>5. /\ IsList(matched)
      /\ \A i \in S : \E n \in DOMAIN matched : matched[n] = all[i]
      /\ \A n \in DOMAIN matched : \E i \in S : matched[n] = all[i]
  <2> HIDE DEF S
  <2> QED BY <1>2, <1>3, <1>4, ThoseTaken
<1>6. PICK n \in Nat : n = Len(matched) /\ DOMAIN matched = 1 .. n
  BY <1>5, ListLength, Zenon
<1>7. PICK t : t = [j \in 1 .. n |-> Plan!Action(f, matched[j])]
  OBVIOUS
<1>8. Plan!Actions(f) = t
  BY <1>1, <1>3, <1>6, <1>7, PlanSame, Zenon DEF Plan!Actions
<1>9. \A j \in 1 .. n : matched[j] \in CategorySet
  BY <1>1, <1>5, <1>6, CategoriesListed
<1>10. IsList(t) /\ DOMAIN t = 1 .. n /\ \A j \in 1 .. n : Sound(t[j])
  <2>1. DOMAIN t = 1 .. n /\ t = [j \in 1 .. n |-> t[j]]
    BY <1>7
  <2>2. IsList(t)
    BY <2>1, ListOf
  <2> QED BY <1>7, <1>9, <2>1, <2>2, ActionSound
<1>11. ASSUME NEW c \in Plan!MatchCategories(f)
       PROVE  \E j \in 1 .. n : matched[j] = c
  <2>1. c \in CategorySet
    BY MatchedKnown
  <2>2. PICK i \in 1 .. 11 : all[i] = c
    BY <1>1, <2>1, CategoriesListed
  <2>3. i \in S
    BY <1>1, <2>2
  <2> QED BY <1>5, <1>6, <2>2, <2>3
<1>12. ASSUME NEW c \in Plan!MatchCategories(f)
       PROVE  Answered(t, c, f.line, Plan!Prioritize(f, c).priority, Plan!Prioritize(f, c).risk)
  <2>1. PICK j \in 1 .. n : matched[j] = c
    BY <1>11
  <2>2. c \in CategorySet
    BY MatchedKnown
  <2>3. t[j] = Plan!Action(f, c)
    BY <1>7, <2>1
  <2>4. Covers(t[j], c, f.line, Plan!Prioritize(f, c).priority, Plan!Prioritize(f, c).risk)
    BY <2>2, <2>3, ActionSound
  <2> QED BY <1>10, <2>4 DEF Answered
<1> QED BY <1>8, <1>10, <1>12 DEF AllSound

\* What is merged into r.
LEMMA MergedSound ==
    ASSUME NEW r, Sound(r), NEW all, r \in all, \A s \in all : Sound(s)
    PROVE  /\ Sound(Plan!Merged(r, all))
           /\ Plan!Merged(r, all)["category"] = r["category"]
           /\ \A s \in all : s["category"] = r["category"] =>
                \A c, l : \A p \in 0 .. 4, q \in 0 .. 100 :
                    Covers(s, c, l, p, q) => Covers(Plan!Merged(r, all), c, l, p, q)
<1>1. PICK P, Q, E : /\ P = {s.priority : s \in all} /\ Q = {s.risk : s \in all}
                     /\ E = {s.confidence : s \in all}
  OBVIOUS
<1>2. /\ P \subseteq 0 .. 4 /\ P # {} /\ Q \subseteq 0 .. 100 /\ Q # {}
      /\ E \subseteq 0 .. 100 /\ E # {}
  BY <1>1 DEF Sound
<1>3. PICK p0, q0, e0 : p0 = Min(P) /\ q0 = Max(Q) /\ e0 = Max(E)
  OBVIOUS
<1>4. /\ p0 \in 0 .. 4 /\ \A x \in P : p0 <= x
      /\ q0 \in 0 .. 100 /\ \A x \in Q : q0 >= x
      /\ e0 \in 0 .. 100
  <2>1. P \subseteq Nat
    BY <1>2
  <2> QED BY <1>2, <1>3, <2>1, LeastGrade, HighestGrade
<1>5. PICK T, F : T = UNION {s.targets : s \in all} /\ F = UNION {s.findings : s \in all}
  OBVIOUS
<1>6. PICK m : m = Plan!Merged(r, all)
  OBVIOUS
<1>7. m = [r EXCEPT !.targets = T, !.priority = p0, !.risk = q0, !.confidence = e0, !.findings = F]
  BY <1>1, <1>3, <1>5, <1>6, PlanSame, Zenon DEF Plan!Merged
<1>8. /\ DOMAIN m = DOMAIN r /\ m["category"] = r["category"] /\ m["phase"] = r["phase"]
      /\ m["priority"] = p0 /\ m["risk"] = q0 /\ m["confidence"] = e0 /\ m["findings"] = F
  BY <1>7 DEF Sound
<1>9. Sound(m)
  BY <1>4, <1>8 DEF Sound
<1>10. ASSUME NEW s \in all, s["category"] = r["category"],
              NEW c, NEW l, NEW p \in 0 .. 4, NEW q \in 0 .. 100, Covers(s, c, l, p, q)
       PROVE  Covers(m, c, l, p, q)
  <2>1. l \in F
    BY <1>5, <1>10 DEF Covers
  <2>2. p0 <= s["priority"] /\ q0 >= s["risk"]
    BY <1>1, <1>4
  <2>3. s["priority"] \in Int /\ s["risk"] \in Int
    BY DEF Sound
  <2>4. p0 <= p /\ q0 >= q
    BY <1>4, <1>10, <2>2, <2>3 DEF Covers
  <2> QED BY <1>8, <1>10, <2>1, <2>4 DEF Covers
<1> QED BY <1>6, <1>8, <1>9, <1>10

\* Recommendations for the same category and targets are one.
LEMMA DeduplicatedSound ==
    ASSUME NEW s, AllSound(s)
    PROVE  AllSound(Plan!Deduplicated(s)) /\ Keeps(Plan!Deduplicated(s), s)
<1> DEFINE Same(i) == {j \in DOMAIN s : /\ s[j].category = s[i].category
                                        /\ s[j].targets = s[i].targets}
           First == {i \in DOMAIN s : \A j \in Same(i) : i <= j}
           M(i) == Plan!Merged(s[i], {s[j] : j \in Same(i)})
<1>1. PICK n \in Nat : n = Len(s) /\ DOMAIN s = 1 .. n
  BY LenProperties DEF AllSound, IsList
<1>2. PICK merged : merged = [i \in DOMAIN s |-> M(i)]
  OBVIOUS
<1>3. ASSUME NEW i \in DOMAIN s
      PROVE  /\ Sound(M(i))
             /\ \A j \in Same(i) : \A c, l : \A p \in 0 .. 4, q \in 0 .. 100 :
                  Covers(s[j], c, l, p, q) => Covers(M(i), c, l, p, q)
  <2>1. PICK all, r : all = {s[j] : j \in Same(i)} /\ r = s[i]
    OBVIOUS
  <2>2. i \in Same(i)
    OBVIOUS
  <2>3. r \in all /\ Sound(r) /\ \A x \in all : Sound(x) /\ x["category"] = r["category"]
    BY <2>1, <2>2 DEF AllSound
  <2>4. \A j \in Same(i) : s[j] \in all
    BY <2>1
  <2>5. M(i) = Plan!Merged(r, all)
    BY <2>1
  <2> HIDE DEF Same, M
  <2>6. /\ Sound(Plan!Merged(r, all))
        /\ Plan!Merged(r, all)["category"] = r["category"]
        /\ \A x \in all : x["category"] = r["category"] =>
             \A c, l : \A p \in 0 .. 4, q \in 0 .. 100 :
                 Covers(x, c, l, p, q) => Covers(Plan!Merged(r, all), c, l, p, q)
    BY <2>3, MergedSound
  <2> QED BY <2>3, <2>4, <2>5, <2>6
<1>4. ASSUME NEW i \in DOMAIN s PROVE \E k \in First : i \in Same(k)
  <2>1. i \in Same(i) /\ Same(i) \subseteq Nat
    BY <1>1
  <2>2. PICK k \in Same(i) : \A j \in Same(i) : k <= j
    <3> HIDE DEF Same
    <3> QED BY <2>1, LeastOne
  <2>3. k \in DOMAIN s /\ Same(k) = Same(i)
    BY <2>2
  <2>4. k \in First
    <3> HIDE DEF Same
    <3> QED BY <2>2, <2>3
  <2> HIDE DEF First
  <2>5. i \in Same(k)
    <3> HIDE DEF Same
    <3> QED BY <2>1, <2>3
  <2> QED BY <2>4, <2>5
<1>5. IsList(merged) /\ DOMAIN merged = DOMAIN s
  <2> HIDE DEF M
  <2>1. DOMAIN merged = 1 .. n /\ merged = [i \in 1 .. n |-> merged[i]]
    BY <1>1, <1>2
  <2> QED BY <1>1, <2>1, ListOf
<1>6. First \in SUBSET DOMAIN merged
  BY <1>5
<1>7. PICK t : t = Those(merged, First)
  OBVIOUS
<1>8. Plan!Deduplicated(s) = t
  BY <1>2, <1>7, PlanSame, Zenon DEF Plan!Deduplicated
<1> HIDE DEF First, Same, M
<1>9. /\ IsList(t)
      /\ \A i \in First : \E m \in DOMAIN t : t[m] = merged[i]
      /\ \A m \in DOMAIN t : \E i \in First : t[m] = merged[i]
  BY <1>5, <1>6, <1>7, ThoseTaken
<1>10. AllSound(t)
  BY <1>2, <1>3, <1>5, <1>6, <1>9 DEF AllSound
<1>11. Keeps(t, s)
  <2> SUFFICES ASSUME NEW c, NEW l, NEW p \in 0 .. 4, NEW q \in 0 .. 100,
                      NEW i \in DOMAIN s, Covers(s[i], c, l, p, q)
               PROVE  \E m \in DOMAIN t : Covers(t[m], c, l, p, q)
    BY DEF Keeps, Answered
  <2>1. PICK k \in First : i \in Same(k)
    BY <1>4
  <2>2. k \in DOMAIN s
    BY <1>5, <1>6
  <2>3. Covers(merged[k], c, l, p, q)
    BY <1>2, <1>3, <2>1, <2>2
  <2> QED BY <1>9, <2>1, <2>3
<1> QED BY <1>8, <1>10, <1>11

\* Recommendations of one category are consolidated.
LEMMA ConsolidatedSound ==
    ASSUME NEW g, AllSound(g), \A i, j \in DOMAIN g : g[i]["category"] = g[j]["category"]
    PROVE  AllSound(Plan!Consolidated(g)) /\ Keeps(Plan!Consolidated(g), g)
<1>1. PICK n \in Nat : n = Len(g) /\ DOMAIN g = 1 .. n
  BY ListLength, Zenon DEF AllSound
<1>2. CASE n < 3
  <2>1. Plan!Consolidated(g) = g
    BY <1>1, <1>2 DEF Plan!Consolidated, Plan!ConsolidationThreshold
  <2> QED BY <2>1 DEF Keeps
<1>3. CASE ~ (n < 3)
  <2>1. PICK r, all : r = g[1] /\ all = {g[i] : i \in DOMAIN g}
    OBVIOUS
  <2>2. 1 \in DOMAIN g
    BY <1>1, <1>3
  <2>3. Sound(r) /\ r \in all /\ \A s \in all : Sound(s)
    BY <2>1, <2>2 DEF AllSound
  <2>4. PICK m : m = Plan!Merged(r, all)
    OBVIOUS
  <2>5. /\ Sound(m)
        /\ \A s \in all : s["category"] = r["category"] =>
             \A c, l : \A p \in 0 .. 4, q \in 0 .. 100 :
                 Covers(s, c, l, p, q) => Covers(m, c, l, p, q)
    BY <2>3, <2>4, MergedSound
  <2>6. PICK t : t = <<m>> /\ IsList(t) /\ DOMAIN t = 1 .. 1 /\ t[1] = m
    BY OneListed, Zenon
  <2>7. Plan!Consolidated(g) = t
    <3>1. Range(g) = all
      BY <2>1 DEF Range
    <3>2. Plan!Consolidated(g) = <<Plan!Merged(g[1], Plan!Range(g))>>
      BY <1>1, <1>3 DEF Plan!Consolidated, Plan!ConsolidationThreshold
    <3> QED BY <2>1, <2>4, <2>6, <3>1, <3>2, PlanSame
  <2>9. AllSound(t)
    BY <2>5, <2>6 DEF AllSound
  <2>10. ASSUME NEW c, NEW l, NEW p \in 0 .. 4, NEW q \in 0 .. 100,
                NEW i \in DOMAIN g, Covers(g[i], c, l, p, q)
         PROVE  Covers(m, c, l, p, q)
    <3>1. g[i] \in all /\ g[i]["category"] = r["category"]
      BY <2>1, <2>2
    <3> QED BY <2>5, <2>10, <3>1
  <2>11. Keeps(t, g)
    BY <2>6, <2>10 DEF Keeps, Answered
  <2> QED BY <2>7, <2>9, <2>11
<1> QED BY <1>2, <1>3

\* Where a phase and a category are listed.
LEMMA PlacesKnown ==
    /\ \A h \in PhaseSet : /\ Plan!IndexIn(Plan!Phases, h) \in Int
                           /\ Plan!Phases[Plan!IndexIn(Plan!Phases, h)] = h
    /\ \A c \in CategorySet : /\ Plan!IndexIn(Plan!Categories, c) \in Int
                              /\ Plan!Categories[Plan!IndexIn(Plan!Categories, c)] = c
<1>1. ASSUME NEW h \in PhaseSet
      PROVE  /\ Plan!IndexIn(Plan!Phases, h) \in Int
             /\ Plan!Phases[Plan!IndexIn(Plan!Phases, h)] = h
  <2>1. /\ Plan!Phases[1] = "containment" /\ Plan!Phases[2] = "isolation"
        /\ Plan!Phases[3] = "eradication" /\ Plan!Phases[4] = "recovery"
        /\ Plan!Phases[5] = "validation" /\ Plan!Phases[6] = "post_incident"
        /\ Len(Plan!Phases) = 6
    BY DEF Plan!Phases
  <2>2. \E i \in 1 .. 6 : Plan!Phases[i] = h
    BY <2>1 DEF PhaseSet
  <2>3. \E i \in 1 .. Len(Plan!Phases) : Plan!Phases[i] = h
    BY <2>1, <2>2
  <2>4. /\ Plan!IndexIn(Plan!Phases, h) \in 1 .. Len(Plan!Phases)
        /\ Plan!Phases[Plan!IndexIn(Plan!Phases, h)] = h
    BY <2>3, Zenon DEF Plan!IndexIn
  <2> QED BY <2>1, <2>4
<1>2. ASSUME NEW c \in CategorySet
      PROVE  /\ Plan!IndexIn(Plan!Categories, c) \in Int
             /\ Plan!Categories[Plan!IndexIn(Plan!Categories, c)] = c
  <2>1. Len(Plan!Categories) = 11
    BY DEF Plan!Categories
  <2>2. \E i \in 1 .. Len(Plan!Categories) : Plan!Categories[i] = c
    BY <2>1, CategoriesListed
  <2>3. /\ Plan!IndexIn(Plan!Categories, c) \in 1 .. Len(Plan!Categories)
        /\ Plan!Categories[Plan!IndexIn(Plan!Categories, c)] = c
    BY <2>2, Zenon DEF Plan!IndexIn
  <2> QED BY <2>1, <2>3
<1> QED BY <1>1, <1>2

\* What recommendations are ordered by are numbers.
LEMMA SoundNumbers ==
    ASSUME NEW r, Sound(r)
    PROVE  /\ r["priority"] \in Int /\ r["risk"] \in Int
           /\ Plan!IndexIn(Plan!Phases, r["phase"]) \in Int
           /\ Plan!IndexIn(Plan!Categories, r["category"]) \in Int
BY PlacesKnown DEF Sound

\* Four numbers come before four others.
Sooner(p, h, x, c, q, i, y, d) ==
    p < q \/ (p = q /\ (h < i \/ (h = i /\ (x > y \/ (x = y /\ c < d)))))

\* Recommendations are ordered by their grades and the places of their phase
\* and category.
LEMMA BeforeIsSooner ==
    ASSUME NEW r, Sound(r), NEW s, Sound(s)
    PROVE  Plan!Before(r, s) <=>
             Sooner(r["priority"], Plan!IndexIn(Plan!Phases, r["phase"]), r["risk"],
                    Plan!IndexIn(Plan!Categories, r["category"]),
                    s["priority"], Plan!IndexIn(Plan!Phases, s["phase"]), s["risk"],
                    Plan!IndexIn(Plan!Categories, s["category"]))
<1>1. PICK h, i, c, d : /\ h = Plan!IndexIn(Plan!Phases, r["phase"])
                        /\ i = Plan!IndexIn(Plan!Phases, s["phase"])
                        /\ c = Plan!IndexIn(Plan!Categories, r["category"])
                        /\ d = Plan!IndexIn(Plan!Categories, s["category"])
  OBVIOUS
<1>2. h \in Int /\ i \in Int /\ (h = i <=> r["phase"] = s["phase"])
  BY <1>1, PlacesKnown DEF Sound
<1>3. PICK p \in Int, q \in Int, x \in Int, y \in Int :
        p = r["priority"] /\ q = s["priority"] /\ x = r["risk"] /\ y = s["risk"]
  BY SoundNumbers, Zenon
<1>4. Plan!Before(r, s) <=>
        \/ p < q
        \/ /\ p = q
           /\ \/ h < i
              \/ r["phase"] = s["phase"] /\ x > y
              \/ r["phase"] = s["phase"] /\ x = y /\ c < d
  BY <1>1, <1>3 DEF Plan!Before
<1>5. Plan!Before(r, s) <=> Sooner(p, h, x, c, q, i, y, d)
  BY <1>2, <1>4, Zenon DEF Sooner
<1> QED BY <1>1, <1>3, <1>5

\* Which is a weak order.
LEMMA BeforeOrders ==
    ASSUME NEW r, Sound(r), NEW s, Sound(s), NEW t, Sound(t), Plan!Before(r, s)
    PROVE  ~Plan!Before(s, r) /\ (Plan!Before(r, t) \/ Plan!Before(t, s))
<1>1. PICK p \in Int, h \in Int, x \in Int, c \in Int :
        /\ p = r["priority"] /\ h = Plan!IndexIn(Plan!Phases, r["phase"]) /\ x = r["risk"]
        /\ c = Plan!IndexIn(Plan!Categories, r["category"])
  BY SoundNumbers, Zenon
<1>2. PICK q \in Int, i \in Int, y \in Int, d \in Int :
        /\ q = s["priority"] /\ i = Plan!IndexIn(Plan!Phases, s["phase"]) /\ y = s["risk"]
        /\ d = Plan!IndexIn(Plan!Categories, s["category"])
  BY SoundNumbers, Zenon
<1>3. PICK o \in Int, j \in Int, z \in Int, e \in Int :
        /\ o = t["priority"] /\ j = Plan!IndexIn(Plan!Phases, t["phase"]) /\ z = t["risk"]
        /\ e = Plan!IndexIn(Plan!Categories, t["category"])
  BY SoundNumbers, Zenon
<1>4. /\ Sooner(p, h, x, c, q, i, y, d)
      /\ Plan!Before(s, r) <=> Sooner(q, i, y, d, p, h, x, c)
      /\ Plan!Before(r, t) <=> Sooner(p, h, x, c, o, j, z, e)
      /\ Plan!Before(t, s) <=> Sooner(o, j, z, e, q, i, y, d)
  BY <1>1, <1>2, <1>3, BeforeIsSooner
<1>5. ~Sooner(q, i, y, d, p, h, x, c)
  BY <1>4 DEF Sooner
<1>6. Sooner(p, h, x, c, o, j, z, e) \/ Sooner(o, j, z, e, q, i, y, d)
  BY <1>4 DEF Sooner
<1> QED BY <1>4, <1>5, <1>6

\* What is kept of what was kept.
LEMMA KeepsOn ==
    ASSUME NEW s, NEW t, NEW u, Keeps(t, s), Keeps(u, t) PROVE Keeps(u, s)
BY Zenon DEF Keeps

\* Ordering the recommendations loses none.
LEMMA OrderSound ==
    ASSUME NEW s, AllSound(s)
    PROVE  AllSound(Plan!OrderRecommendations(s)) /\ Keeps(Plan!OrderRecommendations(s), s)
<1>1. PICK kept : kept = Plan!Deduplicated(s)
  OBVIOUS
<1>2. AllSound(kept) /\ Keeps(kept, s)
  BY <1>1, DeduplicatedSound
<1> DEFINE Which(c) == {i \in DOMAIN kept : kept[i].category = c}
           Group(c) == Those(kept, Which(c))
           Part(i) == Plan!Consolidated(Group(Plan!Categories[i]))
<1>3. ASSUME NEW c
      PROVE  /\ AllSound(Plan!Consolidated(Group(c)))
             /\ \A i \in Which(c) : \A d, l : \A p \in 0 .. 4, q \in 0 .. 100 :
                  Covers(kept[i], d, l, p, q) => Answered(Plan!Consolidated(Group(c)), d, l, p, q)
  <2>1. PICK g, S : S = Which(c) /\ g = Those(kept, S)
    OBVIOUS
  <2>2. S \in SUBSET DOMAIN kept /\ \A i \in S : kept[i]["category"] = c
    BY <2>1
  <2>3. /\ IsList(g)
        /\ \A i \in S : \E n \in DOMAIN g : g[n] = kept[i]
        /\ \A n \in DOMAIN g : \E i \in S : g[n] = kept[i]
    <3>1. IsList(kept)
      BY <1>2 DEF AllSound
    <3> HIDE DEF Which, Group
    <3> QED BY <2>1, <2>2, <3>1, ThoseTaken
  <2>4. AllSound(g) /\ \A i, j \in DOMAIN g : g[i]["category"] = g[j]["category"]
    BY <1>2, <2>2, <2>3 DEF AllSound
  <2>5. PICK k : k = Plan!Consolidated(g)
    OBVIOUS
  <2>6. AllSound(k) /\ Keeps(k, g)
    BY <2>4, <2>5, ConsolidatedSound
  <2>7. ASSUME NEW i \in S, NEW d, NEW l, NEW p \in 0 .. 4, NEW q \in 0 .. 100,
               Covers(kept[i], d, l, p, q)
        PROVE  Answered(k, d, l, p, q)
    <3>1. Answered(g, d, l, p, q)
      BY <2>3, <2>7 DEF Answered
    <3> QED BY <2>6, <3>1, Zenon DEF Keeps
  <2>8. k = Plan!Consolidated(Group(c)) /\ S = Which(c)
    BY <2>1, <2>5
  <2> HIDE DEF Group, Which
  <2> QED BY <2>6, <2>7, <2>8
<1>4. PICK ss : ss = [i \in 1 .. 11 |-> Part(i)]
  OBVIOUS
<1>5. /\ DOMAIN ss = 1 .. 11 /\ ss = [i \in 1 .. 11 |-> ss[i]]
      /\ \A i \in 1 .. 11 : ss[i] = Part(i)
  <2> HIDE DEF Part
  <2> QED BY <1>4
<1>6. \A i \in 1 .. 11 : AllSound(ss[i])
  BY <1>3, <1>5
<1>7. PICK all : all = FlattenSeq(ss)
  OBVIOUS
<1>8. IsList(all) /\ TakenOfAll(all, ss)
  <2>1. \A i \in 1 .. 11 : IsList(ss[i])
    BY <1>6 DEF AllSound
  <2>2. 11 \in Nat
    OBVIOUS
  <2> QED BY <1>5, <1>7, <2>1, <2>2, FlattenTaken, Zenon
<1>9. AllSound(all)
  BY <1>5, <1>6, <1>8, Zenon DEF AllSound, TakenOfAll
<1>10. Keeps(all, kept)
  <2> SUFFICES ASSUME NEW c, NEW l, NEW p \in 0 .. 4, NEW q \in 0 .. 100,
                      NEW i \in DOMAIN kept, Covers(kept[i], c, l, p, q)
               PROVE  Answered(all, c, l, p, q)
    BY DEF Keeps, Answered
  <2>1. kept[i].category \in CategorySet
    BY <1>2 DEF AllSound, Sound
  <2>2. PICK m \in 1 .. 11 : Plan!Categories[m] = kept[i].category
    BY <2>1, CategoriesListed
  <2>3. i \in Which(Plan!Categories[m])
    BY <2>2
  <2>4. Answered(ss[m], c, l, p, q)
    <3> HIDE DEF Which, Group
    <3> QED BY <1>3, <1>5, <2>3
  <2>5. PICK j \in DOMAIN ss[m] : Covers(ss[m][j], c, l, p, q)
    BY <2>4, Zenon DEF Answered
  <2>6. PICK k \in DOMAIN all : all[k] = ss[m][j]
    BY <1>5, <1>8, Zenon DEF TakenOfAll
  <2> QED BY <2>5, <2>6, Zenon DEF Answered
<1>11. PICK before :
         before = {p \in (DOMAIN all) \X (DOMAIN all) : Plan!Before(all[p[1]], all[p[2]])}
  OBVIOUS
<1>12. WeakOrder(DOMAIN all, before)
  <2>1. \A i, j \in DOMAIN all : <<i, j>> \in before <=> Plan!Before(all[i], all[j])
    BY <1>11
  <2> QED BY <1>9, <2>1, BeforeOrders DEF WeakOrder, AllSound
<1>13. PICK t : t = Sorted(all, DOMAIN all, before)
  OBVIOUS
<1>14. /\ IsList(t)
       /\ \A i \in DOMAIN all : \E n \in DOMAIN t : t[n] = all[i]
       /\ \A n \in DOMAIN t : \E i \in DOMAIN all : t[n] = all[i]
  <2>1. DOMAIN all \in SUBSET DOMAIN all
    OBVIOUS
  <2> QED BY <1>8, <1>12, <1>13, <2>1, SortedTaken
<1>15. AllSound(t)
  BY <1>9, <1>14, Zenon DEF AllSound
<1>16. Keeps(t, all)
  BY <1>14, Zenon DEF Keeps, Answered
<1>17. Keeps(t, s)
  BY <1>2, <1>10, <1>16, KeepsOn
<1>18. Plan!OrderRecommendations(s) = t
  <2>1. DOMAIN Plan!Categories = 1 .. 11
    BY CategoriesListed
  <2>2. ss = [i \in DOMAIN Plan!Categories |-> Plan!Consolidated(
                  Plan!Those(kept, {j \in DOMAIN kept : kept[j].category = Plan!Categories[i]}))]
    BY <1>4, <2>1, PlanSame
  <2>3. all = Plan!FlattenSeq(ss)
    BY <1>7, PlanSame
  <2>4. t = Plan!Sorted(all, DOMAIN all, before)
    BY <1>13, PlanSame
  <2> QED BY <1>1, <1>11, <2>2, <2>3, <2>4, Zenon DEF Plan!OrderRecommendations
<1> QED BY <1>15, <1>17, <1>18

\* What a plan is made from is graded, if the records are.
LEMMA InputGraded ==
    ASSUME NEW r, Graded(r) PROVE Graded(Plan!Input(r))
BY DEF Graded, Plan!Input

\* The findings a plan is made from.
LEMMA CollectedGraded ==
    ASSUME NEW rs, IsList(rs), \A i \in DOMAIN rs : Graded(rs[i])
    PROVE  /\ IsList(Plan!Collected(rs))
           /\ \A i \in DOMAIN Plan!Collected(rs) : Graded(Plan!Collected(rs)[i])
<1> DEFINE S == {i \in DOMAIN rs : ~Plan!Skipped(rs[i])}
<1>1. PICK kept : kept = Those(rs, S)
  OBVIOUS
<1>2. S \in SUBSET DOMAIN rs
  OBVIOUS
<1>3. IsList(kept) /\ \A n \in DOMAIN kept : \E i \in S : kept[n] = rs[i]
  <2> HIDE DEF S
  <2> QED BY <1>1, <1>2, ThoseTaken
<1>4. PICK n \in Nat : n = Len(kept) /\ DOMAIN kept = 1 .. n
  BY <1>3, ListLength, Zenon
<1>5. PICK t : t = [i \in 1 .. n |-> Plan!Input(kept[i])]
  OBVIOUS
<1>6. Plan!Collected(rs) = t
  BY <1>1, <1>4, <1>5, PlanSame, Zenon DEF Plan!Collected
<1>7. DOMAIN t = 1 .. n /\ t = [i \in 1 .. n |-> t[i]]
  BY <1>5
<1>8. ASSUME NEW i \in 1 .. n PROVE Graded(t[i])
  <2>1. Graded(kept[i])
    BY <1>2, <1>3, <1>4
  <2>2. t[i] = Plan!Input(kept[i])
    BY <1>5
  <2> QED BY <2>1, <2>2, InputGraded
<1>9. IsList(t)
  BY <1>7, ListOf
<1> QED BY <1>6, <1>7, <1>8, <1>9

\* A plan answers every finding it is made from.
LEMMA PlanAnswers ==
    ASSUME NEW fs, IsList(fs), \A i \in DOMAIN fs : Graded(fs[i]), NEW skipped,
           NEW i \in DOMAIN fs, NEW c \in Plan!MatchCategories(fs[i])
    PROVE  Answered(Plan!GeneratePlan(fs, skipped).recommendations, c, fs[i].line,
                    Plan!Prioritize(fs[i], c).priority, Plan!Prioritize(fs[i], c).risk)
<1>1. PICK n \in Nat : n = Len(fs) /\ DOMAIN fs = 1 .. n
  BY ListLength, Zenon
<1>2. PICK ss : ss = [j \in 1 .. n |-> Plan!Actions(fs[j])]
  OBVIOUS
<1>3. /\ DOMAIN ss = 1 .. n /\ ss = [j \in 1 .. n |-> ss[j]]
      /\ \A j \in 1 .. n : ss[j] = Plan!Actions(fs[j])
  BY <1>2
<1>4. \A j \in 1 .. n : AllSound(ss[j])
  BY <1>1, <1>3, ActionsSound
<1>5. PICK all : all = FlattenSeq(ss)
  OBVIOUS
<1>6. IsList(all) /\ TakenOfAll(all, ss)
  <2>1. \A j \in 1 .. n : IsList(ss[j])
    BY <1>4 DEF AllSound
  <2> QED BY <1>3, <1>5, <2>1, FlattenTaken, Zenon
<1>7. AllSound(all)
  BY <1>3, <1>4, <1>6, Zenon DEF AllSound, TakenOfAll
<1> DEFINE l == fs[i].line
<1>8. PICK p \in 0 .. 4, q \in 0 .. 100 :
        p = Plan!Prioritize(fs[i], c).priority /\ q = Plan!Prioritize(fs[i], c).risk
  <2>1. c \in CategorySet
    BY MatchedKnown
  <2>2. /\ Plan!Prioritize(fs[i], c).priority \in 0 .. 4
        /\ Plan!Prioritize(fs[i], c).risk \in 0 .. 100
    BY <2>1, PriorityKnown
  <2> QED BY <2>2, Zenon
<1>9. Answered(ss[i], c, l, p, q)
  BY <1>1, <1>3, <1>8, ActionsSound
<1>10. PICK j \in DOMAIN ss[i] : Covers(ss[i][j], c, l, p, q)
  BY <1>9, Zenon DEF Answered
<1>11. PICK k \in DOMAIN all : all[k] = ss[i][j]
  BY <1>1, <1>3, <1>6, Zenon DEF TakenOfAll
<1>12. Answered(all, c, l, p, q)
  BY <1>10, <1>11, Zenon DEF Answered
<1>13. PICK t : t = Plan!OrderRecommendations(all)
  OBVIOUS
<1>14. Answered(t, c, l, p, q)
  <2>1. Keeps(t, all)
    BY <1>7, <1>13, OrderSound
  <2> QED BY <1>12, <2>1, Zenon DEF Keeps
<1>15. Plan!GeneratePlan(fs, skipped).recommendations = t
  <2>1. ss = [w \in 1 .. Len(fs) |-> Plan!Actions(fs[w])] /\ all = Plan!FlattenSeq(ss)
    BY <1>1, <1>2, <1>5, PlanSame
  <2>2. Plan!GeneratePlan(fs, skipped) = Plan!ResponsePlan(t, fs, skipped)
    BY <1>13, <2>1, Zenon DEF Plan!GeneratePlan
  <2> QED BY <2>2 DEF Plan!ResponsePlan
<1> QED BY <1>8, <1>14, <1>15

\* The plan is made from the records that were read.
PlanInv ==
    kind = "incident" =>
        /\ IsList(records) /\ \A i \in DOMAIN records : Graded(records[i])
        /\ intel = Plan!Respond(records)

\* From nothing first.
LEMMA PlanInit == Init => PlanInv
<1> SUFFICES ASSUME Init, kind = "incident" PROVE PlanInv
  BY DEF PlanInv
<1>1. kind \notin DOMAIN Extension
  BY KindsDiffer
<1>2. intel = Plan!Respond(<<>>) /\ records = <<>>
  BY <1>1 DEF Init, Analysis
<1> QED BY <1>2, NothingListed DEF PlanInv

\* Then from one record more.
LEMMA PlanStep == PlanInv /\ [Next]_vars => PlanInv'
<1> SUFFICES ASSUME PlanInv, [Next]_vars, kind' = "incident" PROVE PlanInv'
  BY DEF PlanInv
<1>1. CASE ReadCaseRecord
  <2>1. PICK r \in CaseRecords : Read("incident", r)
    BY <1>1 DEF ReadCaseRecord
  <2>2. PICK s, t, x : /\ s = records /\ t = records' /\ x = With(r, "line", Len(records) + 1)
                       /\ t = Append(s, x)
    BY <2>1 DEF Read
  <2>3. IsList(s) /\ \A i \in DOMAIN s : Graded(s[i])
    BY <2>1, <2>2 DEF PlanInv, Read
  <2>4. Graded(x)
    <3>1. /\ {"severity", "risk", "confidence"} \subseteq DOMAIN r
          /\ r["severity"] \in 0 .. 4 /\ r["risk"] \in 0 .. 100 /\ r["confidence"] \in 0 .. 100
      BY CaseAssumption DEF CaseAssumption
    <3>2. /\ x["severity"] = r["severity"] /\ x["risk"] = r["risk"]
          /\ x["confidence"] = r["confidence"]
      BY <2>2, <3>1 DEF With
    <3> QED BY <3>1, <3>2 DEF Graded
  <2>5. IsList(t) /\ TakenOrNew(t, s, x)
    BY <2>2, <2>3, OneMore, Zenon
  <2>6. \A i \in DOMAIN t : Graded(t[i])
    BY <2>3, <2>4, <2>5 DEF TakenOrNew
  <2>7. intel' = Plan!Respond(records')
    BY <1>1 DEF ReadCaseRecord
  <2> QED BY <2>2, <2>5, <2>6, <2>7 DEF PlanInv
<1>2. CASE ExportReport
  BY <1>2 DEF ExportReport
<1>3. CASE UNCHANGED vars
  BY <1>3 DEF PlanInv, vars
<1>4. CASE ReadCodeLine
  BY <1>4, KindsDiffer DEF ReadCodeLine, Read
<1>5. CASE ReadLogLine \/ ReadTextRecord \/ ReadScanRow \/ ReadUnparsed \/ ReadHttpLine
            \/ ReadShellLine \/ ReadReportRecord \/ Remember \/ Worsen
  BY <1>5 DEF ReadLogLine, ReadTextRecord, ReadScanRow, ReadUnparsed, ReadHttpLine, ReadShellLine,
              ReadReportRecord, Remember, Worsen, Read
<1> QED BY <1>1, <1>2, <1>3, <1>4, <1>5 DEF Next

\* Whatever the case has, its plan answers each finding in each category it
\* calls for, no less urgently and no less riskily than alone: merging by
\* category and target, consolidating and ordering lose nothing
\* (risk_prioritizer.py and action_ordering.py together).
THEOREM PlanKept == Spec => []PlanKeepsProvenance
<1>1. PlanInv => PlanKeepsProvenance
  <2> SUFFICES ASSUME PlanInv, kind = "incident", intel.plan # Plan!NoPlan,
                      NEW f \in Range(Plan!Collected(records)),
                      NEW c \in Plan!MatchCategories(f)
               PROVE  \E r \in Range(intel.plan.recommendations) :
                        /\ r.category = c /\ f.line \in r.findings
                        /\ r.priority <= Plan!Prioritize(f, c).priority
                        /\ r.risk >= Plan!Prioritize(f, c).risk
    BY DEF PlanKeepsProvenance
  <2>1. PICK rs, fs, result : rs = records /\ fs = Plan!Collected(rs) /\ result = intel
    OBVIOUS
  <2>2. /\ IsList(rs) /\ \A i \in DOMAIN rs : Graded(rs[i])
        /\ result = Plan!Respond(rs)
    BY <2>1 DEF PlanInv
  <2>3. IsList(fs) /\ \A i \in DOMAIN fs : Graded(fs[i])
    BY <2>1, <2>2, CollectedGraded
  <2>4. PICK i \in DOMAIN fs : f = fs[i]
    BY <2>1 DEF Range
  <2>5. ~Plan!Oversized(rs) /\ fs # <<>>
    <3>1. CASE Plan!Oversized(rs)
      BY <2>1, <2>2, <3>1 DEF Plan!Respond
    <3>2. CASE ~Plan!Oversized(rs) /\ fs = <<>>
      BY <2>1, <2>2, <3>2 DEF Plan!Respond
    <3> QED BY <3>1, <3>2
  <2>6. PICK skipped, plan : skipped = Len(rs) - Len(fs) /\ plan = Plan!GeneratePlan(fs, skipped)
    OBVIOUS
  <2>7. result = Plan!Planned(plan)
    BY <2>1, <2>2, <2>5, <2>6 DEF Plan!Respond
  <2>8. result.plan = plan
    BY <2>7 DEF Plan!Planned
  <2>9. PICK s : s = plan.recommendations
    OBVIOUS
  <2>10. Answered(s, c, f.line, Plan!Prioritize(f, c).priority, Plan!Prioritize(f, c).risk)
    BY <2>3, <2>4, <2>6, <2>9, PlanAnswers
  <2>11. PICK k \in DOMAIN s :
           Covers(s[k], c, f.line, Plan!Prioritize(f, c).priority, Plan!Prioritize(f, c).risk)
    BY <2>10 DEF Answered
  <2>12. s[k] \in Range(s) /\ s = intel.plan.recommendations
    BY <2>1, <2>8, <2>9 DEF Range
  <2> QED BY <2>11, <2>12 DEF Covers
<1> QED BY <1>1, PlanInit, PlanStep, PTL DEF Spec
-----------------------------------------------------------------------------
(* What an investigation is reminded of. *)

\* What CaseMemory takes from a list is taken as elsewhere.
LEMMA MemorySame ==
    /\ \A s, n : Memory!FirstOf(s, n) = FirstOf(s, n)
    /\ \A s, S : Memory!Those(s, S) = Those(s, S)
    /\ \A s, S, before : Memory!Sorted(s, S, before) = Sorted(s, S, before)
    /\ \A S : Memory!Cardinality(S) = Cardinality(S)
    /\ \A s : Memory!ToSet(s) = ToSet(s)
<1>0. \A S : Memory!Cardinality(S) = Cardinality(S)
  BY Zenon DEF Memory!Cardinality, Cardinality
<1>1. \A S : Memory!Min(S) = Min(S)
  BY DEF Memory!Min, Min
<1>2. \A s, n : Memory!FirstOf(s, n) = FirstOf(s, n)
  BY <1>1 DEF Memory!FirstOf, FirstOf
<1>3. \A S, before : Memory!Order(S, before) = Order(S, before)
  BY Zenon DEF Memory!Order, Order, Memory!Cardinality, Cardinality
<1>4. \A s, S, before : Memory!Sorted(s, S, before) = Sorted(s, S, before)
  BY <1>3 DEF Memory!Sorted, Sorted
<1>5. \A s, S : Memory!Those(s, S) = Those(s, S)
  BY <1>4 DEF Memory!Those, Those
<1>6. \A s : Memory!ToSet(s) = ToSet(s)
  BY DEF Memory!ToSet, ToSet
<1> QED BY <1>0, <1>2, <1>4, <1>5, <1>6

\* A store of texts, each with finitely many words and at least one.
Worded(store) ==
    /\ IsList(store)
    /\ \A i \in DOMAIN store : IsFiniteSet(store[i].words) /\ store[i].words # {}

\* A text is counted.
LEMMA Counts ==
    ASSUME NEW q, IsFiniteSet(q.words), NEW e, IsFiniteSet(e.words), e.words # {}
    PROVE  /\ Memory!Shared(q, e) \in Nat
           /\ Cardinality(e.words) \in Nat \ {0} /\ Cardinality(q.words) \in Nat
<1>1. Memory!Shared(q, e) \in Nat
  BY SharedCounted, MemorySame DEF Memory!Shared
<1>2. Cardinality(e.words) \in Nat /\ Cardinality(e.words) # 0
  BY FS_CardinalityType, FS_EmptySet
<1>3. Cardinality(q.words) \in Nat
  BY FS_CardinalityType
<1> QED BY <1>1, <1>2, <1>3

\* The pairs of places of a store, the nearer one first.
NearerIn(store, query, S) ==
    {p \in S \X S : Memory!Nearer(query, store[p[1]], store[p[2]])}

\* They order it.
LEMMA NearerIsOrder ==
    ASSUME NEW store, Worded(store), NEW query, IsFiniteSet(query.words),
           NEW S \in SUBSET DOMAIN store, NEW before, before = NearerIn(store, query, S)
    PROVE  WeakOrder(S, before)
<1> DEFINE A(i) == Memory!Shared(query, store[i]) * Memory!Shared(query, store[i])
           W(i) == Cardinality(store[i].words)
<1>1. ASSUME NEW i \in S PROVE A(i) \in Nat /\ W(i) \in Nat \ {0}
  <2>1. IsFiniteSet(store[i].words) /\ store[i].words # {}
    BY DEF Worded
  <2>2. Memory!Shared(query, store[i]) \in Nat /\ W(i) \in Nat \ {0}
    BY <2>1, Counts
  <2> QED BY <2>2
<1>2. \A i, j \in S : <<i, j>> \in before <=> A(i) * W(j) > A(j) * W(i)
  <2> SUFFICES ASSUME NEW i \in S, NEW j \in S
               PROVE  <<i, j>> \in before <=> A(i) * W(j) > A(j) * W(i)
    BY Zenon
  <2>1. <<i, j>> \in before <=> Memory!Nearer(query, store[i], store[j])
    BY DEF NearerIn
  <2> QED BY <2>1, MemorySame DEF Memory!Nearer
<1> HIDE DEF A, W
<1>3. ASSUME NEW i \in S, NEW j \in S, <<i, j>> \in before PROVE <<j, i>> \notin before
  <2> DEFINE x == A(i) * W(j)
             y == A(j) * W(i)
  <2>1. x \in Nat /\ y \in Nat
    BY <1>1
  <2> HIDE DEF x, y
  <2>2. x > y /\ (<<j, i>> \in before <=> y > x)
    BY <1>2, <1>3 DEF x, y
  <2> QED BY <2>1, <2>2
<1>4. ASSUME NEW i \in S, NEW j \in S, NEW k \in S, <<i, j>> \in before
      PROVE  <<i, k>> \in before \/ <<k, j>> \in before
  <2>1. /\ A(i) \in Nat /\ A(j) \in Nat /\ A(k) \in Nat
        /\ W(i) \in Nat \ {0} /\ W(j) \in Nat \ {0} /\ W(k) \in Nat \ {0}
    BY <1>1
  <2>2. A(i) * W(j) > A(j) * W(i)
    BY <1>2, <1>4
  <2>3. A(i) * W(k) > A(k) * W(i) \/ A(k) * W(j) > A(j) * W(k)
    BY <2>1, <2>2, FractionsOrdered
  <2> QED BY <1>2, <2>3
<1> QED BY <1>3, <1>4 DEF WeakOrder

\* What is at least as near as what is near enough is near enough.
LEMMA NearOn ==
    ASSUME NEW q, IsFiniteSet(q.words), NEW d, IsFiniteSet(d.words), d.words # {},
           NEW e, IsFiniteSet(e.words), e.words # {},
           Memory!Near(q, e, MinSimilarity), ~Memory!Nearer(q, e, d)
    PROVE  Memory!Near(q, d, MinSimilarity)
<1> DEFINE m == MinSimilarity
           n == Cardinality(q.words)
           u == Cardinality(d.words)
           v == Cardinality(e.words)
           x == Memory!Shared(q, d)
           y == Memory!Shared(q, e)
<1>1. /\ m \in Nat /\ n \in Nat /\ u \in Nat \ {0} /\ v \in Nat \ {0} /\ x \in Nat /\ y \in Nat
  BY Counts, MemoryAssumption DEF MemoryAssumption
<1>2. 10000 * y * y >= m * m * n * v /\ ~(y * y * u > x * x * v)
  BY MemorySame DEF Memory!Near, Memory!Nearer
<1>3. Memory!Near(q, d, m) <=> 10000 * x * x >= m * m * n * u
  BY MemorySame DEF Memory!Near
<1> HIDE DEF m, n, u, v, x, y
<1>4. PICK k, f, g \in Nat : k = m * m * n /\ f = x * x /\ g = y * y
  BY <1>1
<1>5. 10000 * g >= k * v /\ g * u <= f * v
  BY <1>1, <1>2, <1>4
<1>6. 10000 * f >= k * u
  BY <1>1, <1>4, <1>5, ShareOn
<1>7. 10000 * x * x >= m * m * n * u
  BY <1>1, <1>4, <1>6
<1> QED BY <1>3, <1>7 DEF m

\* The places of a category in a store.
Places(store, c) == {n \in DOMAIN store : store[n].category = c}

\* F has the nearest ones of what others left in a category, and enough of them.
Retrieved(F, store, query, case, c) ==
    LET W == Places(store, c)
        own == {n \in W : store[n].case = case}
        near == {n \in W : Memory!Near(query, store[n], MinSimilarity)}
        before == NearerIn(store, query, W)
    IN  /\ Nearest(F, W, own, near, before, TopK)
        /\ Cardinality(own) <= 2 * (Overfetch * TopK) => Enough(F, W, own, near, before, TopK)

\* t has what is at the places F, the nearest first.
RankedBy(t, store, F, query, c) == Ranked(t, store, F, NearerIn(store, query, Places(store, c)))

\* What is retrieved of a category.
LEMMA RetrievedNearest ==
    ASSUME NEW store, Worded(store), NEW query, IsFiniteSet(query.words), NEW case, NEW c,
           NEW t, t = Memory!RetrieveCategory(store, query, case, c).results
    PROVE  \E F : RankedBy(t, store, F, query, c) /\ Retrieved(F, store, query, case, c)
<1>0. PICK W, own, near, before :
        /\ W = Places(store, c)
        /\ own = {n \in W : store[n].case = case}
        /\ near = {n \in W : Memory!Near(query, store[n], MinSimilarity)}
        /\ before = NearerIn(store, query, W)
  OBVIOUS
<1>1. PICK K, L : K = TopK /\ L = Overfetch * TopK
  OBVIOUS
<1>2. K \in Nat \ {0} /\ L \in Nat /\ K <= L
  <2>1. TopK \in Nat /\ TopK # 0 /\ Overfetch \in Nat /\ Overfetch >= 1
    BY MemoryAssumption DEF MemoryAssumption
  <2>2. \A x, y, z \in Nat : x <= y => x * z <= y * z
    OBVIOUS
  <2>3. 1 * TopK <= Overfetch * TopK
    BY <2>1, <2>2
  <2> QED BY <1>1, <2>1, <2>3
<1>3. PICK sorted : sorted = Sorted(store, W, before)
  OBVIOUS
<1>4. PICK candidates : candidates = FirstOf(sorted, 3 * L)
  OBVIOUS
<1>5. PICK others : others = Those(candidates, {i \in DOMAIN candidates : candidates[i].case # case})
  OBVIOUS
<1>6. PICK raw : raw = FirstOf(others, L)
  OBVIOUS
<1>7. PICK some : some = Those(raw, {i \in DOMAIN raw : Memory!Near(query, raw[i], MinSimilarity)})
  OBVIOUS
<1>8. t = FirstOf(some, K)
  <2>1. W = {i \in DOMAIN store : store[i].category \in {c}}
    BY <1>0 DEF Places
  <2>2. before = {p \in W \X W : Memory!Nearer(query, store[p[1]], store[p[2]])}
    BY <1>0 DEF NearerIn
  <2>3. candidates = Memory!QueryEmbedding(store, query, 3 * L, {c})
    BY <1>3, <1>4, <2>1, <2>2, MemorySame, Zenon DEF Memory!QueryEmbedding
  <2>4. raw = Memory!FindSimilarExcludingCase(store, query, case, L, {c})
    BY <1>5, <1>6, <2>3, MemorySame, Zenon DEF Memory!FindSimilarExcludingCase
  <2>5. some = Memory!Those(raw, {i \in DOMAIN raw : Memory!Near(query, raw[i], MinSimilarity)})
    BY <1>7, MemorySame, Zenon
  <2>6. t = Memory!FirstOf(some, K)
    BY <1>1, <2>4, <2>5 DEF Memory!RetrieveCategory
  <2> QED BY <2>6, MemorySame, Zenon
<1>9. W \in SUBSET DOMAIN store /\ own \in SUBSET W /\ near \in SUBSET W
  BY <1>0 DEF Places
<1>10. WeakOrder(W, before)
  BY <1>0, <1>9, NearerIsOrder
<1>11. Ranked(sorted, store, W, before)
  BY <1>3, <1>9, <1>10, SortedRanked DEF Worded
<1>12. IsFiniteSet(W)
  BY <1>11, RankedTaken
<1>13. PICK C : Firsts(C, W, before, 3 * L) /\ Ranked(candidates, store, C, before)
  <2>1. 3 * L \in Nat
    BY <1>2
  <2> QED BY <1>4, <1>11, <2>1, FirstsTaken
<1>14. Ranked(others, store, C \ own, before)
  <2>1. PICK S \in SUBSET DOMAIN candidates :
          S = {k \in DOMAIN candidates : candidates[k].case # case}
    OBVIOUS
  <2>2. C \subseteq W /\ C \ own \in SUBSET C
    BY <1>13 DEF Firsts
  <2>3. \A k \in DOMAIN candidates : \A p \in C : candidates[k] = store[p] => (k \in S <=> p \in C \ own)
    BY <1>0, <2>1, <2>2
  <2> QED BY <1>5, <1>13, <2>1, <2>2, <2>3, ThoseRanked
<1>15. PICK R : Firsts(R, C \ own, before, L) /\ Ranked(raw, store, R, before)
  BY <1>2, <1>6, <1>14, FirstsTaken
<1>16. Ranked(some, store, R \cap near, before)
  <2>1. PICK S \in SUBSET DOMAIN raw :
          S = {k \in DOMAIN raw : Memory!Near(query, raw[k], MinSimilarity)}
    OBVIOUS
  <2>2. R \subseteq W /\ R \cap near \in SUBSET R
    BY <1>13, <1>15 DEF Firsts
  <2>3. \A k \in DOMAIN raw : \A p \in R : raw[k] = store[p] => (k \in S <=> p \in R \cap near)
    BY <1>0, <2>1, <2>2
  <2> QED BY <1>7, <1>15, <2>1, <2>2, <2>3, ThoseRanked
<1>17. PICK F : Firsts(F, R \cap near, before, K) /\ Ranked(t, store, F, before)
  BY <1>2, <1>8, <1>16, FirstsTaken
<1>18. ASSUME NEW p \in near, NEW q \in W, <<p, q>> \notin before PROVE q \in near
  <2>1. /\ IsFiniteSet(store[p].words) /\ store[p].words # {}
        /\ IsFiniteSet(store[q].words) /\ store[q].words # {}
    BY <1>9, <1>18 DEF Worded
  <2>2. Memory!Near(query, store[p], MinSimilarity) /\ ~Memory!Nearer(query, store[p], store[q])
    BY <1>0, <1>18 DEF NearerIn
  <2>3. Memory!Near(query, store[q], MinSimilarity)
    BY <2>1, <2>2, NearOn
  <2> QED BY <1>0, <2>3
<1>19. Nearest(F, W, own, near, before, K)
  BY <1>2, <1>9, <1>10, <1>12, <1>13, <1>15, <1>17, <1>18, SelectedNearest
<1>20. Cardinality(own) <= 2 * L => Enough(F, W, own, near, before, K)
  BY <1>2, <1>9, <1>10, <1>12, <1>13, <1>15, <1>17, <1>18, SelectedEnough
<1>21. RankedBy(t, store, F, query, c)
  BY <1>0, <1>17 DEF RankedBy
<1>22. Retrieved(F, store, query, case, c)
  BY <1>0, <1>1, <1>19, <1>20, Zenon DEF Retrieved
<1> QED BY <1>21, <1>22

\* What the knowledge base says is a list.
LEMMA KnowledgeListed ==
    ASSUME NEW query, IsFiniteSet(query.words), NEW t,
           t = Memory!RetrieveKnowledge(Documents, query, TopK)
    PROVE  IsList(t)
<1> DEFINE A(i) == Memory!Shared(query, Documents[i])
           which == {i \in DOMAIN Documents : A(i) > 0}
           better == {p \in which \X which : A(p[1]) > A(p[2])}
           sorted == Sorted(Documents, which, better)
<1>1. t = FirstOf(sorted, TopK)
  BY MemorySame DEF Memory!RetrieveKnowledge
<1>2. \A i \in which : A(i) \in Nat
  BY SharedCounted, MemorySame DEF Memory!Shared
<1>3. which \in SUBSET DOMAIN Documents
  OBVIOUS
<1> HIDE DEF A, which
<1>4. WeakOrder(which, better)
  BY <1>2 DEF WeakOrder
<1>5. IsList(Documents)
  <2>1. Documents \in Seq(ToSet(Documents))
    BY MemoryAssumption DEF MemoryAssumption
  <2> QED BY <2>1, LenProperties DEF IsList
<1> HIDE DEF better
<1>6. IsList(sorted)
  BY <1>3, <1>4, <1>5, SortedTaken
<1> HIDE DEF sorted
<1>7. TopK \in Nat
  BY MemoryAssumption DEF MemoryAssumption
<1> QED BY <1>1, <1>6, <1>7, FirstTaken

\* What a context keeps of its buckets: nothing else, and everything if they fit.
LEMMA GuardKeeps ==
    ASSUME NEW N \in Nat, NEW b, DOMAIN b = 1 .. N, \A i \in 1 .. N : IsList(b[i]),
           NEW i \in 1 .. N, NEW t, t = Memory!OversizedGuard(b)[i]
    PROVE  From(t, b[i]) /\ (Memory!Excess(b) = 0 => From(b[i], t))
<1>1. PICK s : s = b[i]
  OBVIOUS
<1>2. PICK S : S = {j \in DOMAIN s : Cardinality(Memory!DroppedBefore(b, i, j)) >= Memory!Excess(b)}
  OBVIOUS
<1>3. t = Those(s, S)
  BY <1>1, <1>2, MemorySame DEF Memory!OversizedGuard
<1>4. S \in SUBSET DOMAIN s /\ IsList(s)
  BY <1>1, <1>2
<1>5. /\ \A j \in S : \E k \in DOMAIN t : t[k] = s[j]
      /\ \A k \in DOMAIN t : \E j \in S : t[k] = s[j]
  BY <1>3, <1>4, ThoseTaken
<1>6. ASSUME NEW j \in DOMAIN s PROVE Cardinality(Memory!DroppedBefore(b, i, j)) \in Nat
  <2>1. PICK U : U = Memory!DroppedBefore(b, i, j)
    OBVIOUS
  <2>2. PICK g : g = [d \in 1 .. N |-> {d} \X DOMAIN b[d]]
    OBVIOUS
  <2>3. ASSUME NEW d \in 1 .. N PROVE IsFiniteSet(g[d])
    <3>1. IsFiniteSet({d})
      BY FS_Singleton
    <3>2. DOMAIN b[d] = 1 .. Len(b[d]) /\ Len(b[d]) \in Nat
      BY ListLength
    <3>3. IsFiniteSet(DOMAIN b[d])
      BY <3>2, FS_Interval
    <3>4. IsFiniteSet({d} \X DOMAIN b[d])
      BY <3>1, <3>3, FS_Product
    <3> QED BY <2>2, <3>4
  <2>4. \A x \in U : \E d \in 1 .. N : x \in g[d]
    BY <2>1, <2>2 DEF Memory!DroppedBefore
  <2>5. DOMAIN g = 1 .. N
    BY <2>2
  <2>6. IsFiniteSet(U)
    BY <2>3, <2>4, <2>5, FewOfFew
  <2> QED BY <2>1, <2>6, FS_CardinalityType
<1>7. Memory!Excess(b) = 0 => S = DOMAIN s
  BY <1>2, <1>6
<1>8. From(t, s)
  BY <1>4, <1>5 DEF From
<1>9. Memory!Excess(b) = 0 => From(s, t)
  BY <1>5, <1>7 DEF From
<1> QED BY <1>1, <1>8, <1>9

\* The texts of records.
TextsRead(rs) == IsList(rs) /\ \A i \in DOMAIN rs : IsFiniteSet(rs[i].words)

\* What an investigation asks for has finitely many words.
LEMMA QueryCounted ==
    ASSUME NEW rs, TextsRead(rs), NEW S \in SUBSET DOMAIN rs, NEW evidence, IsFiniteSet(evidence)
    PROVE  IsFiniteSet(Memory!BuildMemoryQuery(Memory!Those(rs, S), evidence).words)
<1>1. PICK fs : fs = Those(rs, S)
  OBVIOUS
<1>2. IsList(fs) /\ \A n \in DOMAIN fs : \E i \in S : fs[n] = rs[i]
  BY <1>1, ThoseTaken DEF TextsRead
<1>3. PICK n \in Nat : n = Len(fs) /\ DOMAIN fs = 1 .. n
  BY <1>2, ListLength, Zenon
<1>4. PICK U : U = UNION {f.words : f \in {h \in ToSet(fs) : ~h.broken}}
  BY Zenon
<1>5. PICK g : g = [m \in 1 .. n |-> fs[m].words]
  OBVIOUS
<1>6. DOMAIN g = 1 .. n /\ \A m \in 1 .. n : IsFiniteSet(g[m])
  BY <1>2, <1>3, <1>5 DEF TextsRead
<1>7. \A x \in U : \E m \in 1 .. n : x \in g[m]
  BY <1>3, <1>4, <1>5 DEF ToSet
<1>8. IsFiniteSet(U)
  BY <1>6, <1>7, FewOfFew
<1>9. Memory!Those(rs, S) = fs /\ Memory!ToSet(fs) = ToSet(fs)
  BY <1>1, MemorySame
<1>10. Memory!BuildMemoryQuery(fs, evidence) = [words |-> IF U = {} THEN evidence ELSE U]
  BY <1>4, <1>9, Zenon DEF Memory!BuildMemoryQuery
<1> QED BY <1>8, <1>9, <1>10

\* What an investigation is answered: what is at the places F, all of it unless
\* the context is cut.
Answers(items, truncated, store, F) ==
    /\ \A k \in DOMAIN items : \E p \in F : items[k] = store[p]
    /\ truncated = 0 => \A p \in F : \E k \in DOMAIN items : items[k] = store[p]

\* It is the nearest.
LEMMA ContextRecalls ==
    ASSUME NEW store, Worded(store), NEW query, IsFiniteSet(query.words), query.words # {},
           NEW case, NEW i \in DOMAIN Memory!RecordCategories,
           NEW context, context = Memory!ResolveContext(store, Documents, query, case)
    PROVE  \E F : /\ Answers(context.items[i], context.truncated, store, F)
                  /\ Retrieved(F, store, query, case, Memory!RecordCategories[i])
<1>1. DOMAIN Memory!RecordCategories = 1 .. 5 /\ i \in 1 .. 6
  BY DEF Memory!RecordCategories
<1>2. PICK outcomes :
        outcomes = [j \in DOMAIN Memory!RecordCategories |->
                      Memory!RetrieveCategory(store, query, case, Memory!RecordCategories[j])]
  OBVIOUS
<1>3. PICK known : known = Memory!RetrieveKnowledge(Documents, query, TopK)
  OBVIOUS
<1>4. PICK results : results = [j \in DOMAIN outcomes |-> outcomes[j].results]
  OBVIOUS
<1>5. PICK found : found = Append(results, known)
  OBVIOUS
<1>6. context = Memory!Guarded(outcomes, found, query)
  BY <1>2, <1>3, <1>4, <1>5, Zenon DEF Memory!ResolveContext, Memory!Resolved
<1>7. context.items = Memory!OversizedGuard(found) /\ context.truncated = Memory!Excess(found)
  BY <1>6 DEF Memory!Guarded, Memory!Context
<1>8. DOMAIN outcomes = 1 .. 5 /\ DOMAIN results = 1 .. 5
  BY <1>1, <1>2, <1>4
<1>9. \A j \in 1 .. 5 :
        results[j] = Memory!RetrieveCategory(store, query, case, Memory!RecordCategories[j]).results
  BY <1>1, <1>2, <1>4, <1>8
<1>10. ASSUME NEW j \in 1 .. 5
       PROVE  \E F : /\ RankedBy(results[j], store, F, query, Memory!RecordCategories[j])
                     /\ Retrieved(F, store, query, case, Memory!RecordCategories[j])
  BY <1>9, RetrievedNearest, Zenon
<1>11. \A j \in 1 .. 5 : IsList(results[j])
  BY <1>10, RankedTaken DEF RankedBy
<1>12. PICK F : /\ RankedBy(results[i], store, F, query, Memory!RecordCategories[i])
                /\ Retrieved(F, store, query, case, Memory!RecordCategories[i])
  BY <1>1, <1>10
<1>13. /\ \A p \in F : \E k \in DOMAIN results[i] : results[i][k] = store[p]
       /\ \A k \in DOMAIN results[i] : \E p \in F : results[i][k] = store[p]
  BY <1>12, RankedTaken DEF RankedBy
<1>14. IsList(results) /\ Len(results) = 5
  BY <1>4, <1>8, ListOf
<1>15. /\ DOMAIN found = 1 .. 6 /\ \A j \in 1 .. 5 : found[j] = results[j]
       /\ found[6] = known
  <2>1. PICK T : results \in Seq(T)
    BY <1>14 DEF IsList
  <2>2. PICK U : U = T \cup {known}
    OBVIOUS
  <2>3. results \in Seq(U) /\ known \in U
    BY <1>8, <1>14, <2>1, <2>2
  <2>4. /\ found \in Seq(U) /\ Len(found) = 5 + 1
        /\ \A j \in 1 .. 5 : found[j] = results[j]
        /\ found[5 + 1] = known
    <3>1. /\ Append(results, known) \in Seq(U)
          /\ Len(Append(results, known)) = Len(results) + 1
          /\ \A j \in 1 .. Len(results) : Append(results, known)[j] = results[j]
          /\ Append(results, known)[Len(results) + 1] = known
      BY <2>3, AppendProperties
    <3> QED BY <1>5, <1>14, <3>1, Zenon
  <2> QED BY <2>4, LenProperties
<1>16. IsList(known)
  BY <1>3, KnowledgeListed
<1>17. \A j \in 1 .. 6 : IsList(found[j])
  <2>1. \A j \in 1 .. 6 : j = 6 \/ j \in 1 .. 5
    OBVIOUS
  <2> QED BY <1>11, <1>15, <1>16, <2>1
<1>18. PICK t : t = context.items[i] /\ t = Memory!OversizedGuard(found)[i]
  BY <1>7
<1>19. From(t, found[i]) /\ (Memory!Excess(found) = 0 => From(found[i], t))
  <2>1. 6 \in Nat
    OBVIOUS
  <2> QED BY <1>1, <1>15, <1>17, <1>18, <2>1, GuardKeeps, Zenon
<1>20. found[i] = results[i]
  BY <1>1, <1>15
<1>21. \A k \in DOMAIN t : \E p \in F : t[k] = store[p]
  BY <1>13, <1>19, <1>20 DEF From
<1>22. context.truncated = 0 => \A p \in F : \E k \in DOMAIN t : t[k] = store[p]
  BY <1>7, <1>13, <1>19, <1>20 DEF From
<1>23. Answers(t, context.truncated, store, F)
  BY <1>21, <1>22 DEF Answers
<1> QED BY <1>12, <1>18, <1>23

\* What was read are texts, and what is recalled is recalled from a store of texts.
MemoryInv ==
    kind = "memory" =>
        /\ TextsRead(records)
        /\ \E store : Worded(store) /\ intel = Recalled(store, records)

\* The findings of the case asked for.
Mine(rs) == {j \in DOMAIN rs : rs[j].case = Asked /\ rs[j].category = "finding"}

\* What is asked for.
Question(rs) ==
    Memory!BuildMemoryQuery(Memory!Those(rs, Mine(rs)), IF rs = <<>> THEN {} ELSE {"upload"})

\* The store that is recalled from is the one that was asked.
LEMMA RecalledFrom ==
    ASSUME NEW store, NEW rs, NEW result, result = Recalled(store, rs),
           NEW context, context = Memory!ResolveContext(store, Documents, Question(rs), Asked)
    PROVE  /\ result.store = store /\ result.query = Question(rs)
           /\ result.items = context.items /\ result.truncated = context.truncated
<1>1. result = Recall(store, Question(rs), context)
  BY Zenon DEF Recalled, Question, Mine
<1> QED BY <1>1 DEF Recall

\* Nothing was stored first.
LEMMA MemoryInit == Init => MemoryInv
<1> SUFFICES ASSUME Init, kind = "memory" PROVE MemoryInv
  BY DEF MemoryInv
<1>1. kind \notin DOMAIN Extension
  BY KindsDiffer
<1>2. intel = Recalled(<<>>, <<>>) /\ records = <<>>
  BY <1>1 DEF Init, Analysis
<1>3. Worded(<<>>) /\ TextsRead(<<>>)
  BY NothingListed DEF Worded, TextsRead
<1> QED BY <1>2, <1>3 DEF MemoryInv

\* What is stored is a text again.
LEMMA StoreWorded ==
    ASSUME NEW store, Worded(store), NEW case, NEW d, IsFiniteSet(d.words)
    PROVE  Worded(Memory!RecordLongTermMemory(store, case, d))
<1>1. CASE d.broken \/ d.words = {}
  BY <1>1 DEF Memory!RecordLongTermMemory
<1>2. CASE ~(d.broken \/ d.words = {})
  <2>1. PICK e : e = [case |-> case, id |-> d.id, category |-> d.category, words |-> d.words]
    OBVIOUS
  <2>2. IsFiniteSet(e.words) /\ e.words # {}
    BY <1>2, <2>1
  <2>3. PICK t : t = Memory!UpsertEmbedding(store, e)
    OBVIOUS
  <2>4. Memory!RecordLongTermMemory(store, case, d) = t
    BY <1>2, <2>1, <2>3 DEF Memory!RecordLongTermMemory
  <2>5. CASE \E i \in DOMAIN store : store[i].case = e.case /\ store[i].id = e.id
    <3>1. PICK n \in Nat : n = Len(store) /\ DOMAIN store = 1 .. n
      BY ListLength, Zenon DEF Worded
    <3>2. t = [i \in 1 .. n |->
                  IF store[i].case = e.case /\ store[i].id = e.id THEN e ELSE store[i]]
      BY <2>3, <2>5, <3>1 DEF Memory!UpsertEmbedding
    <3>3. DOMAIN t = 1 .. n /\ t = [i \in 1 .. n |-> t[i]]
      BY <3>2
    <3>4. IsList(t)
      BY <3>3, ListOf
    <3>5. \A i \in 1 .. n : t[i] = e \/ t[i] = store[i]
      BY <3>2
    <3> QED BY <2>2, <2>4, <3>1, <3>3, <3>4, <3>5 DEF Worded
  <2>6. CASE ~(\E i \in DOMAIN store : store[i].case = e.case /\ store[i].id = e.id)
    <3>1. t = Append(store, e)
      BY <2>3, <2>6 DEF Memory!UpsertEmbedding
    <3>2. IsList(t) /\ TakenOrNew(t, store, e)
      BY <3>1, OneMore DEF Worded
    <3> QED BY <2>2, <2>4, <3>2 DEF Worded, TakenOrNew
  <2> QED BY <2>5, <2>6
<1> QED BY <1>1, <1>2

\* A record more is remembered as a text.
LEMMA MemoryStep == MemoryInv /\ [Next]_vars => MemoryInv'
<1> SUFFICES ASSUME MemoryInv, [Next]_vars, kind' = "memory" PROVE MemoryInv'
  BY DEF MemoryInv
<1>1. CASE Remember
  <2>1. PICK r \in Remembered :
          /\ Read("memory", r)
          /\ intel' = Recalled(Memory!RecordLongTermMemory(intel.store, r.case, r), records')
    BY <1>1 DEF Remember
  <2>2. PICK s, t, x : /\ s = records /\ t = records' /\ x = With(r, "line", Len(records) + 1)
                       /\ t = Append(s, x)
    BY <2>1 DEF Read
  <2>3. kind = "memory"
    BY <2>1 DEF Read
  <2>4. PICK store, result : Worded(store) /\ result = intel /\ result = Recalled(store, s)
    BY <2>2, <2>3 DEF MemoryInv
  <2>5. TextsRead(s)
    BY <2>2, <2>3 DEF MemoryInv
  <2>6. "words" \in DOMAIN r /\ IsFiniteSet(r.words)
    BY MemoryAssumption DEF MemoryAssumption
  <2>7. IsFiniteSet(x.words)
    <3>1. x["words"] = r["words"]
      BY <2>2, <2>6 DEF With
    <3> QED BY <2>6, <3>1
  <2>8. IsList(t) /\ TakenOrNew(t, s, x)
    BY <2>2, <2>5, OneMore, Zenon DEF TextsRead
  <2>9. TextsRead(t)
    BY <2>5, <2>7, <2>8 DEF TextsRead, TakenOrNew
  <2>10. result.store = store
    <3>1. PICK context : context = Memory!ResolveContext(store, Documents, Question(s), Asked)
      OBVIOUS
    <3> QED BY <2>4, <3>1, RecalledFrom
  <2>11. PICK u : u = Memory!RecordLongTermMemory(store, r.case, r) /\ Worded(u)
    BY <2>4, <2>6, StoreWorded
  <2>12. intel' = Recalled(u, records')
    BY <2>1, <2>4, <2>10, <2>11
  <2> QED BY <2>2, <2>9, <2>11, <2>12 DEF MemoryInv
<1>2. CASE ExportReport
  BY <1>2 DEF ExportReport
<1>3. CASE UNCHANGED vars
  BY <1>3 DEF MemoryInv, vars
<1>4. CASE ReadCodeLine
  BY <1>4, KindsDiffer DEF ReadCodeLine, Read
<1>5. CASE ReadLogLine \/ ReadTextRecord \/ ReadScanRow \/ ReadUnparsed \/ ReadHttpLine
            \/ ReadShellLine \/ ReadCaseRecord \/ ReadReportRecord \/ Worsen
  BY <1>5 DEF ReadLogLine, ReadTextRecord, ReadScanRow, ReadUnparsed, ReadHttpLine, ReadShellLine,
              ReadCaseRecord, ReadReportRecord, Worsen, Read
<1> QED BY <1>1, <1>2, <1>3, <1>4, <1>5 DEF Next

\* Whatever uploads left and in whatever order, an investigation recalls the
\* nearest of what other cases left and none of its own, and misses none that is
\* near enough, unless its own take the places or the context is cut: asking for
\* three times the limit, leaving out one's own and what is too far, and cutting
\* come after each other (memory_tools.py and the vector store together).
THEOREM NearestRecalled == Spec => []RecallsTheNearest
<1>1. MemoryInv => RecallsTheNearest
  <2> SUFFICES ASSUME MemoryInv, kind = "memory", intel.query.words # {},
                      NEW i \in DOMAIN Memory!RecordCategories
               PROVE  LET c == Memory!RecordCategories[i]
                          found == ToSet(intel.items[i])
                      IN  /\ \A e \in found :
                                /\ \E n \in Others(c) : e = intel.store[n]
                                /\ Cardinality(Ahead(e, c)) < TopK
                          /\ Cardinality(Own(c)) <= 2 * Overfetch * TopK /\ intel.truncated = 0 =>
                                \A n \in Others(c) :
                                    LET e == intel.store[n] IN
                                    /\ Cardinality(Ahead(e, c)) < TopK
                                    /\ Memory!Near(intel.query, e, MinSimilarity)
                                    => \E d \in found : /\ ~Memory!Nearer(intel.query, e, d)
                                                        /\ ~Memory!Nearer(intel.query, d, e)
    BY DEF RecallsTheNearest
  <2>1. PICK rs, result, store :
          /\ rs = records /\ result = intel /\ TextsRead(rs)
          /\ Worded(store) /\ result = Recalled(store, rs)
    BY DEF MemoryInv
  <2>2. PICK query : query = Question(rs)
    OBVIOUS
  <2>3. PICK context : context = Memory!ResolveContext(store, Documents, query, Asked)
    OBVIOUS
  <2>4. /\ intel.store = store /\ intel.query = query
        /\ intel.items = context.items /\ intel.truncated = context.truncated
    <3>1. /\ result.store = store /\ result.query = query
          /\ result.items = context.items /\ result.truncated = context.truncated
      BY <2>1, <2>2, <2>3, RecalledFrom
    <3> QED BY <2>1, <3>1
  <2>5. IsFiniteSet(query.words)
    <3>1. PICK evidence : evidence = IF rs = <<>> THEN {} ELSE {"upload"}
      OBVIOUS
    <3>2. IsFiniteSet(evidence)
      BY <3>1, FS_EmptySet, FS_Singleton
    <3>3. Mine(rs) \in SUBSET DOMAIN rs
      BY DEF Mine
    <3>4. IsFiniteSet(Memory!BuildMemoryQuery(Memory!Those(rs, Mine(rs)), evidence).words)
      BY <2>1, <3>2, <3>3, QueryCounted
    <3> QED BY <2>2, <3>1, <3>4 DEF Question
  <2>6. PICK c : c = Memory!RecordCategories[i]
    OBVIOUS
  <2>7. PICK t : t = context.items[i]
    OBVIOUS
  <2>8. PICK F : Answers(t, context.truncated, store, F) /\ Retrieved(F, store, query, Asked, c)
    <3>1. query.words # {}
      BY <2>4
    <3> QED BY <2>1, <2>3, <2>5, <2>6, <2>7, <3>1, ContextRecalls, Zenon
  <2>9. PICK W, own, near, before :
          /\ W = Places(store, c)
          /\ own = {n \in W : store[n].case = Asked}
          /\ near = {n \in W : Memory!Near(query, store[n], MinSimilarity)}
          /\ before = NearerIn(store, query, W)
    OBVIOUS
  <2>10. /\ Nearest(F, W, own, near, before, TopK)
         /\ Cardinality(own) <= 2 * (Overfetch * TopK) => Enough(F, W, own, near, before, TopK)
    BY <2>8, <2>9, Zenon DEF Retrieved
  <2>11. Own(c) = own /\ Others(c) = W \ own
    BY <2>4, <2>9 DEF Own, Others, Places
  <2>12. ASSUME NEW p \in W, NEW e, e = store[p]
         PROVE  Ahead(e, c) = NearerTo(W, own, before, p)
    <3>1. \A n \in W \ own : <<n, p>> \in before <=> Memory!Nearer(query, store[n], e)
      BY <2>9, <2>12 DEF NearerIn
    <3>2. Ahead(e, c) = {n \in W \ own : Memory!Nearer(query, store[n], e)}
      BY <2>4, <2>11 DEF Ahead
    <3> QED BY <3>1, <3>2 DEF NearerTo
  <2>13. PICK found : found = ToSet(intel.items[i]) /\ found = {t[k] : k \in DOMAIN t}
    BY <2>4, <2>7 DEF ToSet
  <2>14. ASSUME NEW e \in found
         PROVE  (\E n \in Others(c) : e = intel.store[n]) /\ Cardinality(Ahead(e, c)) < TopK
    <3>1. PICK p \in F : e = store[p]
      BY <2>8, <2>13 DEF Answers
    <3>2. p \in W \ own /\ Cardinality(NearerTo(W, own, before, p)) < TopK
      BY <2>9, <2>10 DEF Nearest
    <3> QED BY <2>4, <2>11, <2>12, <3>1, <3>2
  <2>15. ASSUME Cardinality(Own(c)) <= 2 * Overfetch * TopK, intel.truncated = 0,
                NEW n \in Others(c), NEW e, e = intel.store[n],
                Cardinality(Ahead(e, c)) < TopK, Memory!Near(intel.query, e, MinSimilarity)
         PROVE  \E d \in found : ~Memory!Nearer(intel.query, e, d) /\ ~Memory!Nearer(intel.query, d, e)
    <3>1. n \in near \ own /\ n \in W /\ e = store[n]
      BY <2>4, <2>9, <2>11, <2>15
    <3>2. Cardinality(NearerTo(W, own, before, n)) < TopK
      BY <2>12, <2>15, <3>1
    <3>3. Enough(F, W, own, near, before, TopK)
      <4>1. 2 * Overfetch * TopK = 2 * (Overfetch * TopK)
        BY MemoryAssumption DEF MemoryAssumption
      <4> QED BY <2>10, <2>11, <2>15, <4>1
    <3>4. PICK f \in F : <<f, n>> \notin before /\ <<n, f>> \notin before
      BY <3>1, <3>2, <3>3 DEF Enough
    <3>5. f \in W
      BY <2>9, <2>10 DEF Nearest
    <3>6. ~Memory!Nearer(query, store[f], e) /\ ~Memory!Nearer(query, e, store[f])
      BY <2>9, <3>1, <3>4, <3>5 DEF NearerIn
    <3>7. store[f] \in found
      BY <2>4, <2>8, <2>13, <2>15 DEF Answers
    <3> QED BY <2>4, <3>6, <3>7
  <2> QED BY <2>6, <2>13, <2>14, <2>15, Zenon
<1> QED BY <1>1, MemoryInit, MemoryStep, PTL DEF Spec
=============================================================================
