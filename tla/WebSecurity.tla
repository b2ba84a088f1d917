---------------------------- MODULE WebSecurity ----------------------------
(***************************************************************************)
(* core/owasp_web and its service: the advice on one HTTP transcript.  A   *)
(* line of it is [line, size, visible, token, cookie, header, says]: the   *)
(* first JWT-shaped token in it, the parsed Set-Cookie line and the header *)
(* name it is, or None, and which of the patterns of the rules it has.     *)
(* Severities are ranks from 0 (info) to 4 (critical), confidences are in  *)
(* ten-thousandths.                                                        *)
(***************************************************************************)
EXTENDS Integers, Sequences, FiniteSets, FiniteSetsExt, Functions, TLC

CONSTANTS
    None,
    MaxLines, MaxChars      \* owasp_web_max_lines/chars_per_artifact

Info == 0
Low == 1
Medium == 2
High == 3
Critical == 4

CriticalCategories == {"a02", "a07", "a08"}

(***************************************************************************)
(* The rule engine: rules by identifier, a later one with the same one in  *)
(* place of the earlier; the enabled ones in order of priority.            *)
(***************************************************************************)
Register(rules, rule) ==
    IF \E i \in 1..Len(rules) : rules[i].id = rule.id
    THEN [i \in 1..Len(rules) |-> IF rules[i].id = rule.id THEN rule ELSE rules[i]]
    ELSE Append(rules, rule)

ListRules(rules) ==
    SelectSeq(SortSeq(rules, LAMBDA r, s : r.priority > s.priority), LAMBDA r : r.enabled)

Rule(id, category, severity, confidence, priority) ==
    [id |-> id, category |-> category, severity |-> severity,
     confidence |-> 100 * confidence, priority |-> priority, enabled |-> TRUE]

\* The rules that match are those whose pattern the text has.
Matches(rules, text) == SelectSeq(ListRules(rules), LAMBDA r : r.id \in text)

\* The first of the most severe issues gives a finding its category.
Highest(issues) ==
    issues[Min({i \in 1..Len(issues) :
                \A j \in 1..Len(issues) : issues[j].severity <= issues[i].severity})]

Finding(source, key, issues) ==
    LET highest == Highest(issues)
    IN  [source |-> source, key |-> key, category |-> highest.category,
         severity |-> highest.severity, confidence |-> highest.confidence,
         rules |-> {issues[i].id : i \in 1..Len(issues)}]

Found(source, key, issues) == IF issues = <<>> THEN {} ELSE {Finding(source, key, issues)}

(***************************************************************************)
(* Response headers: what is missing, and what the values of the present   *)
(* ones allow.  Of a header sent twice the last value counts.              *)
(***************************************************************************)
MissingSpecs ==
    [csp |-> Rule("missing_csp", "a05", Medium, 100, 0),
     hsts |-> Rule("missing_hsts", "a02", Medium, 100, 0),
     x_frame_options |-> Rule("missing_x_frame_options", "a05", Low, 100, 0),
     x_content_type_options |-> Rule("missing_x_content_type_options", "a05", Low, 100, 0),
     referrer_policy |-> Rule("missing_referrer_policy", "a05", Low, 100, 0),
     permissions_policy |-> Rule("missing_permissions_policy", "a05", Info, 100, 0)]

\* A slip: a weak policy counts as high, the missing one as medium.
HeaderValueRulesUneven ==
    <<Rule("csp_unsafe_inline", "a05", High, 90, 80),
      Rule("csp_wildcard_source", "a05", High, 85, 75)>>

HeaderValueRules ==
    <<Rule("csp_unsafe_inline", "a05", Medium, 90, 80),
      Rule("csp_wildcard_source", "a05", Medium, 85, 75),
      Rule("hsts_missing_max_age_or_short", "a02", Low, 80, 60),
      Rule("hsts_missing_include_subdomains", "a02", Info, 70, 40),
      Rule("x_frame_options_invalid_value", "a05", Low, 75, 50),
      Rule("referrer_policy_unsafe_url", "a05", Low, 85, 45),
      Rule("server_header_version_disclosure", "a05", Low, 70, 55)>>

\* The patterns of a header and its value; "says" is what the value has.
HeaderText(name, says) ==
    CASE name = "csp"  -> {r \in {"csp_unsafe_inline", "csp_wildcard_source"} : r \in says}
      [] name = "hsts" ->
            (IF "long_max_age" \in says THEN {} ELSE {"hsts_missing_max_age_or_short"})
            \cup (IF "include_subdomains" \in says THEN {}
                  ELSE {"hsts_missing_include_subdomains"})
      [] name = "x_frame_options" /\ "nonstandard" \in says -> {"x_frame_options_invalid_value"}
      [] name = "referrer_policy" /\ "unsafe_url" \in says  -> {"referrer_policy_unsafe_url"}
      [] name = "server" /\ "version" \in says -> {"server_header_version_disclosure"}
      [] OTHER -> {}

AnalyzeMissing(present) ==
    UNION {Found("header_analyzer", <<0, name>>, <<MissingSpecs[name]>>) :
            name \in DOMAIN MissingSpecs \ present}

AnalyzeHeaders(headers) ==
    AnalyzeMissing(DOMAIN headers)
    \cup UNION {Found("header_analyzer", <<0, name>>,
                      Matches(HeaderValueRules, HeaderText(name, headers[name]))) :
                name \in DOMAIN headers}

(***************************************************************************)
(* Cookies: [session, secure, httpOnly, sameSite, longLived, broad].       *)
(***************************************************************************)
Issue(holds, issue) == IF holds THEN <<issue>> ELSE <<>>

CookieIssues(c) ==
    LET exposed == IF c.session THEN High ELSE Medium
    IN  Issue(~c.secure, Rule("cookie_missing_secure", "a02", exposed, 90, 0))
        \o Issue(~c.httpOnly, Rule("cookie_missing_http_only", "a07", exposed, 90, 0))
        \o Issue(c.sameSite = None, Rule("cookie_missing_samesite", "a01", Medium, 85, 0))
        \o Issue(c.sameSite = "none" /\ ~c.secure,
                 Rule("cookie_samesite_none_without_secure", "a01", High, 90, 0))
        \o Issue(c.longLived, Rule("cookie_excessive_expiration", "a05", Low, 75, 0))
        \o Issue(c.broad, Rule("cookie_broad_domain", "a05", Low, 60, 0))

(***************************************************************************)
(* Tokens: [wellformed, typed, alg, exp, iss, aud, notable].               *)
(***************************************************************************)
JwtIssues(t) ==
    Issue(t.alg \in {None, "none"},
          Rule("jwt_none_or_missing_algorithm", "a02", Critical, 85, 0))
    \o Issue(t.exp = None, Rule("jwt_missing_expiration", "a07", High, 85, 0))
    \o Issue(t.exp = "past", Rule("jwt_expired", "a07", Info, 85, 0))
    \o Issue(~t.iss, Rule("jwt_missing_issuer", "a07", Medium, 85, 0))
    \o Issue(~t.aud, Rule("jwt_missing_audience", "a07", Medium, 85, 0))
    \o Issue(t.notable, Rule("jwt_header_anomaly", "a08", High, 85, 0))

MisconfigRules ==
    <<Rule("directory_listing_enabled", "a05", Medium, 90, 70),
      Rule("debug_endpoint_exposed", "a05", High, 75, 85),
      Rule("default_credentials_indicator", "a07", High, 60, 65),
      Rule("stack_trace_disclosure", "a05", Medium, 85, 60),
      Rule("weak_tls_protocol_metadata", "a02", High, 80, 75),
      Rule("excessive_information_disclosure", "a05", Low, 55, 40)>>

(***************************************************************************)
(* The risk of all findings together: a weighted sum in ten-thousandths.   *)
(***************************************************************************)
RiskLevel(composite) ==
    CASE composite >= 8000 -> Critical
      [] composite \in 6000..7999 -> High
      [] composite \in 3500..5999 -> Medium
      [] composite \in 1000..3499 -> Low
      [] composite < 1000 -> Info

Overall(findings, critical) ==
    IF findings = {} THEN [level |-> Info, confidence |-> 10000]
    ELSE LET severity   == Max({f.severity : f \in findings})
             confidence == Max({f.confidence : f \in findings})
         IN  [level |-> RiskLevel(
                  875 * severity + confidence \div 5
                  + 300 * Min({5, Cardinality(findings)})
                  + (IF \E f \in findings : f.category \in critical THEN 2000 ELSE 0)
                  + (IF Cardinality({f.source : f \in findings}) > 1 THEN 1000 ELSE 0)),
              confidence |-> confidence]

(***************************************************************************)
(* WebSecurityAdvisoryEngine.analyze: each line is one thing only, a token *)
(* before a cookie before a header before anything else.  A malformed one  *)
(* is skipped; a claim that is no string escapes the skipping.             *)
(***************************************************************************)
Oversized(lines) ==
    \/ Len(lines) > MaxLines
    \/ SumFunction([i \in DOMAIN lines |-> lines[i].size]) > MaxChars

IsToken(l)  == l.visible /\ l.token # None
IsCookie(l) == l.visible /\ l.token = None /\ l.cookie # None
IsHeader(l) == l.visible /\ l.token = None /\ l.cookie = None /\ l.header # None
IsOther(l)  == l.visible /\ l.token = None /\ l.cookie = None /\ l.header = None

Skipped(l) ==
    \/ ~l.visible
    \/ IsToken(l) /\ ~l.token.wellformed
    \/ IsCookie(l) /\ ~l.cookie.wellformed

Aborts(l) == IsToken(l) /\ l.token.wellformed /\ ~l.token.typed

\* Of several lines of a header the last one counts.
HeaderLines(lines) ==
    LET at == {i \in DOMAIN lines : IsHeader(lines[i])}
        of(name) == {i \in at : lines[i].header = name}
    IN  [name \in {lines[i].header : i \in at} |-> lines[Max(of(name))].says]

LineFindings(l) ==
    CASE Skipped(l)  -> {}
      [] ~Skipped(l) /\ IsToken(l)  -> Found("jwt_analyzer", <<l.line, "token">>, JwtIssues(l.token))
      [] ~Skipped(l) /\ IsCookie(l) -> Found("cookie_analyzer", <<l.line, "cookie">>, CookieIssues(l.cookie))
      [] ~Skipped(l) /\ IsOther(l)  ->
            Found("misconfiguration_detector", <<l.line, "text">>, Matches(MisconfigRules, l.says))
      [] OTHER -> {}

Advise(lines) ==
    IF Oversized(lines) \/ \E i \in 1..Len(lines) : Aborts(lines[i])
    THEN [read |-> 0, findings |-> {}, overall |-> Overall({}, {}), skipped |-> 0]
    ELSE LET findings ==
                 (IF lines = <<>> THEN {} ELSE AnalyzeHeaders(HeaderLines(lines)))
                 \cup UNION {LineFindings(lines[i]) : i \in 1..Len(lines)}
         IN  [read     |-> Len(lines),
              findings |-> findings,
              overall  |-> Overall(findings, CriticalCategories),
              skipped  |-> Cardinality({i \in 1..Len(lines) : Skipped(lines[i])})]

(***************************************************************************)
(* WebSecurityAgent: without a transcript it degrades; otherwise it counts *)
(* and ranks the findings it is handed, under the risk they were given.    *)
(***************************************************************************)
TopN == 5

\* The worst, and of these the surest; with all that tie with the last of them.
Ranked(findings) ==
    {f \in findings :
        Cardinality({g \in findings :
            \/ g.severity > f.severity
            \/ g.severity = f.severity /\ g.confidence > f.confidence}) < TopN}

AgentAdvice(advice) ==
    IF advice.read = 0 THEN [status |-> "degraded"]
    ELSE [status  |-> "succeeded",
          count   |-> Cardinality(advice.findings),
          by      |-> [s \in Info..Critical |->
                         Cardinality({f \in advice.findings : f.severity = s})],
          overall |-> advice.overall,
          top     |-> Ranked(advice.findings)]
=============================================================================
