---------------------------- MODULE ThreatIntel ----------------------------
(***************************************************************************)
(* core/threat_intel and its service: the indicators of one evidence       *)
(* artifact, from its records to their score, category and severity.  A    *)
(* record is [line, host, user, ip, text], text the set of values found in *)
(* its raw line; a value is [name, case, looks, wellformed]: the           *)
(* indicator types whose pattern matches it and those whose validator      *)
(* accepts it, and the case it is written in.                              *)
(***************************************************************************)
EXTENDS Selection, SequencesExt, FiniteSetsExt

CONSTANTS
    ExtraRules,              \* the rules registered beside the default ones
    NoValue,                 \* a structured field the parser left empty
    MaxText,                 \* DEFAULT_MAX_INPUT_CHARS, in values of text
    MaxIndicators,           \* threat_intel_max_iocs_per_artifact
    MaliciousScore,          \* threat_intel_malicious_score_threshold
    SuspiciousScore,         \* threat_intel_suspicious_score_threshold
    CriticalScore,           \* DEFAULT_CRITICAL_SEVERITY_THRESHOLD
    MediumScore              \* DEFAULT_SUSPICIOUS_MEDIUM_THRESHOLD

IOCTypes == {"ipv4", "ipv6", "domain", "hostname", "url", "email", "sha1", "sha256",
    "md5", "file_name", "username", "process_name", "registry_key", "port", "service",
    "mutex", "scheduled_task", "command_line", "user_agent", "certificate_fingerprint"}

SeverityWeight == [info |-> 0, low |-> 25, medium |-> 50, high |-> 75, critical |-> 100]
Reliability ==
    [unknown |-> 20, low |-> 40, medium |-> 60, high |-> 80, confirmed |-> 100]
SourceReliability == "unknown"

(***************************************************************************)
(* Discovery: the structured fields, then what the patterns find in the    *)
(* raw line.  A record's confidence is in hundredths.                      *)
(***************************************************************************)
IOC(type, value, line, confidence) ==
    [type |-> type, value |-> value, lines |-> {line}, confidence |-> confidence,
     severity |-> "info"]

StructuredFields(record) ==
    LET field == <<<<"ipv4", record.ip>>, <<"hostname", record.host>>,
                   <<"username", record.user>>>>
        given == Those(field, {i \in DOMAIN field : field[i][2] # NoValue})
    IN  [i \in 1..Len(given) |-> IOC(given[i][1], given[i][2], record.line, 95)]

\* Hostnames are never guessed from text.
PatternScan(record) ==
    LET found == {p \in IOCTypes \X record.text : p[1] \in p[2].looks \ {"hostname"}}
    IN  [i \in 1..Cardinality(found) |->
            IOC(SetToSeq(found)[i][1], SetToSeq(found)[i][2], record.line, 60)]

TextLength(records) ==
    FoldLeft(LAMBDA n, r : n + Cardinality(r.text), 0, records)

\* An oversized artifact degrades to no candidates.
Discover(records) ==
    IF TextLength(records) > MaxText THEN <<>>
    ELSE FlattenSeq([i \in 1..Len(records) |->
            StructuredFields(records[i]) \o PatternScan(records[i])])

(***************************************************************************)
(* Validation, then the canonical form of the type, then one indicator of  *)
(* each type and value, with all the lines it was seen on; what the cap    *)
(* cuts off is the last found.                                             *)
(***************************************************************************)
Valid(ioc) == ioc.type \in ioc.value.wellformed

Canonical(ioc) ==
    [ioc EXCEPT !.value.case =
        CASE ioc.type \in {"domain", "hostname", "email", "sha1", "sha256", "md5",
                           "username", "process_name", "service"} -> "lower"
          [] ioc.type \in {"registry_key", "certificate_fingerprint"} -> "upper"
          [] OTHER -> @]

Merged(ioc, sightings) ==
    [ioc EXCEPT !.lines = UNION {s.lines : s \in sightings},
                !.confidence = Max({s.confidence : s \in sightings})]

SameIndicator(a, b) == a.type = b.type /\ a.value = b.value

Deduplicate(candidates) ==
    LET Same(i) == {j \in DOMAIN candidates : SameIndicator(candidates[i], candidates[j])}
        merged == [i \in DOMAIN candidates |->
                      Merged(candidates[i], {candidates[j] : j \in Same(i)})]
    IN  Those(merged, {i \in DOMAIN candidates : \A j \in Same(i) : i <= j})

Capped(iocs) == FirstOf(iocs, MaxIndicators)

(***************************************************************************)
(* Detection rules, highest priority first.  Simple rules (a pattern or an *)
(* expression) match indicators one by one, a threshold rule counts those  *)
(* of a type, a composite asks for all or any of other rules; a composite  *)
(* of lower priority has not been evaluated when it is asked for.          *)
(***************************************************************************)
Simple(id, on, matches) ==
    [id |-> id, type |-> "regex", on |-> on, matches |-> matches]
DefaultRules == <<
    Simple("backdoor_port", {"port"}, "backdoor_port"),
    Simple("lure_archive", {"file_name"}, "lure"),
    Simple("suspicious_tld", {"domain", "hostname"}, "bad_tld"),
    Simple("privileged_username", {"username"}, "privileged"),
    Simple("executable_extension", {"file_name"}, "executable")>>

WellShaped(rule, known) ==
    CASE rule.type \in {"pattern", "regex"} -> rule.matches # NoValue
      [] rule.type = "threshold" -> rule.on \in IOCTypes /\ rule.atLeast >= 1
      [] rule.type = "composite" -> rule.of # {} /\ rule.of \subseteq known

\* A rule is registered only when well shaped, over those registered before.
Registered(rules) ==
    LET known[n \in 0 .. Len(rules)] ==
            IF n = 0 THEN {}
            ELSE IF WellShaped(rules[n], known[n - 1])
                 THEN known[n - 1] \cup {rules[n].id} ELSE known[n - 1]
    IN  Those(rules, {i \in DOMAIN rules : WellShaped(rules[i], known[i - 1])})

Compared(observed, operator, value) ==
    CASE operator = "gte" -> observed >= value
      [] operator = "gt"  -> observed > value
      [] operator = "eq"  -> observed = value

SimpleMatch(rule, ioc) ==
    /\ rule.type \in {"pattern", "regex"}
    /\ ioc.type \in rule.on
    /\ rule.matches \in ioc.value.looks

ThresholdMatch(rule, iocs) ==
    /\ rule.type = "threshold"
    /\ Compared(Cardinality({i \in 1..Len(iocs) : iocs[i].type = rule.on}),
                rule.operator, rule.atLeast)

CompositeMatch(rule, matched) ==
    /\ rule.type = "composite"
    /\ IF rule.operator = "and" THEN rule.of \subseteq matched
                                ELSE rule.of \cap matched # {}

Evaluate(rules, iocs) ==
    LET direct == {r.id : r \in {s \in ToSet(rules) :
                      \/ \E i \in 1..Len(iocs) : SimpleMatch(s, iocs[i])
                      \/ ThresholdMatch(s, iocs)}}
    IN  FoldLeft(LAMBDA matched, r :
                    IF CompositeMatch(r, matched) THEN matched \cup {r.id} ELSE matched,
                 direct, rules)

\* Of the matches only those of simple rules name an indicator.
OwnMatches(rules, ioc) == {r \in ToSet(rules) : SimpleMatch(r, ioc)}

(***************************************************************************)
(* Scores, in hundredths of a point: seven equal parts, of which severity  *)
(* and impact are those of the candidate and so zero.                      *)
(***************************************************************************)
Rounded(n, d) == (2 * n + d) \div (2 * d)
Saturated(matches) == Min({3, matches})

Score(ioc, matches, quality, reliability) ==
    LET n == Saturated(matches)
        s == SeverityWeight[ioc.severity]
    IN  Rounded(100 * (6 * ioc.confidence + 12 * s
                        + Min({600, 3 * ioc.confidence + 100 * n})
                        + 6 * quality + 6 * Reliability[reliability] + 200 * n), 42)

\* ConfidenceCalculator, in three-hundredths.
CombinedConfidence(extraction, matches, reliability) ==
    (150 * extraction + 3000 * Saturated(matches) + 60 * Reliability[reliability]) \div 100

Category(score, matches, confidence) ==
    CASE score >= MaliciousScore -> "malicious"
      [] score < MaliciousScore /\ (score >= SuspiciousScore \/ matches > 0) -> "suspicious"
      [] score < SuspiciousScore /\ matches = 0 /\ confidence = 0 -> "unknown"
      [] score < SuspiciousScore /\ matches = 0 /\ confidence > 0 -> "benign"

Severity(category, score) ==
    CASE category = "malicious"  -> IF score >= CriticalScore THEN "critical" ELSE "high"
      [] category = "suspicious" -> IF score >= MediumScore THEN "medium" ELSE "low"
      [] OTHER -> "info"

\* A slip: an unknown source taken as confirmed.
ScoredTrusting(rules, ioc, quality) ==
    LET matches  == Cardinality(OwnMatches(rules, ioc))
        score    == Score(ioc, matches, quality, "confirmed")
        category == Category(score, matches, ioc.confidence)
    IN  [type |-> ioc.type, value |-> ioc.value, lines |-> ioc.lines, score |-> score,
         category |-> category, severity |-> Severity(category, score),
         confidence |-> CombinedConfidence(ioc.confidence, matches, "confirmed")]

ScoredIOC(rules, ioc, quality) ==
    LET matches  == Cardinality(OwnMatches(rules, ioc))
        score    == Score(ioc, matches, quality, SourceReliability)
        category == Category(score, matches, ioc.confidence)
    IN  [type        |-> ioc.type,
         value       |-> ioc.value,
         lines       |-> ioc.lines,
         score       |-> score,
         category    |-> category,
         severity    |-> Severity(category, score),
         confidence  |-> CombinedConfidence(ioc.confidence, matches, SourceReliability)]

(***************************************************************************)
(* extract_threat_intelligence: what one upload adds to the case.          *)
(***************************************************************************)
Extract(records, quality) ==
    LET candidates == Discover(records)
        valid      == Those(candidates, {i \in DOMAIN candidates : Valid(candidates[i])})
        canonical  == [i \in 1..Len(valid) |-> Canonical(valid[i])]
        unique     == Deduplicate(canonical)
        kept       == Capped(unique)
        rules      == Registered(DefaultRules \o ExtraRules)
    IN  [iocs      |-> [i \in 1..Len(kept) |-> ScoredIOC(rules, kept[i], quality)],
         matched   |-> Evaluate(rules, kept),
         rejected  |-> Len(candidates) - Len(valid),
         truncated |-> Len(unique) - Len(kept)]

\* publish_event: an indicator under 20 points is published as degraded.
Published(scored) == IF scored.score < 2000 THEN "degraded" ELSE "classified"
=============================================================================
