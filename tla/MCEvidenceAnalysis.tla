------------------------- MODULE MCEvidenceAnalysis -------------------------
EXTENDS EvidenceAnalysis, TLC
Line(process, user, ip, at, says) ==
    [process |-> process, user |-> user, ip |-> ip, host |-> "h", at |-> at, says |-> says]
MCLogLines ==
    {Line("auth_failure", "root", "a", t, {"text"}) : t \in {0, 2, 5}}
    \cup {Line("auth_failure", "root", "b", 3, {"text"}),
          Line("auth_success", "root", "a", 1, {"text"}),
          Line("sudo", "u", None, 2, {"auth_failure"}),
          Line("sudo", "u", None, 4, {"as_root", "shell_escape", "sensitive_file", "reverse_shell"}),
          Line("useradd", "u", None, 1, {"text"}),
          Line("useradd", "u", None, 4, {"text"}),
          Line("usermod", "u", None, 3, {"privileged_group"}),
          Line("CRON", "u", None, NoTime, {"download_to_shell", "suspicious_path"}),
          Line("CRON", "u", None, 3, {"suspicious_path"}),
          Line("systemd", None, None, 2, {"exec_start", "suspicious_path"}),
          Line("kernel", None, None, 1, {"text"})}

Value(name, case, looks) ==
    [name |-> name, case |-> case, looks |-> looks, wellformed |-> looks \cap Threat!IOCTypes]
Text(user, ip, text) == [user |-> user, ip |-> ip, host |-> None, text |-> text]
Root == Value("root", "lower", {"username", "privileged"})
RootUpper == Value("root", "mixed", {"username", "privileged"})
Archive == Value("zip", "lower", {"file_name", "domain", "bad_tld", "lure"})
Program == Value("exe", "lower", {"file_name", "domain", "lure", "executable"})
Addr == Value("addr", "lower", {"ipv4"})
Addr6 == Value("addr6", "lower", {"ipv6"})
Port == Value("port", "lower", {"port", "backdoor_port"})
MCTextRecords ==
    {Text(u, i, t) : u \in {None, RootUpper}, i \in {None, Addr6},
                     t \in {{}, {Archive, Program}, {Addr, Port}, {Root, Addr6, Port}}}
MCExtraRules == <<
   [id |-> "many_files", type |-> "threshold", on |-> "file_name", operator |-> "gte", atLeast |-> 2],
   [id |-> "combined", type |-> "composite", of |-> {"later", "many_files"}, operator |-> "and"],
   [id |-> "later", type |-> "composite", of |-> {"many_files"}, operator |-> "or"],
   [id |-> "combined2", type |-> "composite", of |-> {"later", "many_files"}, operator |-> "and"] >>

Cve(name, case) == [name |-> name, case |-> case, wellformed |-> name # "bad"]
Plugin(name) == [name |-> name, case |-> "upper", wellformed |-> TRUE]
Host(case) == [name |-> "web", case |-> case]
V2Vector == [version |-> "2.0", metrics |-> [AV |-> "N", AC |-> "L", Au |-> "N", C |-> "P", I |-> "P", A |-> "C"]]
V4Vector == [version |-> "4.0", metrics |-> [m \in DOMAIN Cvss!V4 |-> "N"]]
Row(cve, cited, plugin, host, v2, s3, v4, code, port) ==
    [cve |-> cve, cited |-> cited, plugin |-> plugin, name |-> None, host |-> host, ip |-> None,
     vector2 |-> v2, score2 |-> None, vector3 |-> None, score3 |-> s3, vector4 |-> v4,
     code |-> code, port |-> port, described |-> cited # None]
MCScanRows ==
    {Row(Cve("one", "mixed"), None, Plugin("p"), Host("mixed"), None, None, V4Vector, 4, 443),
     Row(Cve("one", "upper"), Cve("one", "upper"), Plugin("p"), Host("lower"), V2Vector, None, None, 1, 443),
     Row(None, Cve("one", "upper"), Plugin("q"), Host("lower"), None, 98, None, 0, 80),
     Row(None, None, Plugin("p"), Host("lower"), None, None, None, 3, 80),
     Row(None, None, Plugin("p"), None, None, 45, None, 3, None),
     Row(Cve("bad", "upper"), None, Plugin("p"), Host("lower"), None, None, None, 3, 80),
     Row(Cve("two", "upper"), None, Plugin("q"), Host("lower"), None, None, None, 5, 70000),
     Row(Cve("two", "upper"), None, Plugin("q"), None, None, 120, None, 7, 80),
     Row(None, None, None, None, None, None, None, 2, 80)}
HttpLine(token, cookie, header, says) ==
    [size |-> 1, visible |-> TRUE, token |-> token, cookie |-> cookie, header |-> header,
     says |-> says]
Token(wellformed, typed, alg, exp, claims) ==
    [wellformed |-> wellformed, typed |-> typed, alg |-> alg, exp |-> exp,
     iss |-> claims, aud |-> claims, notable |-> ~claims]
Cookie(wellformed, session, secure, sameSite) ==
    [wellformed |-> wellformed, session |-> session, secure |-> secure, httpOnly |-> secure,
     sameSite |-> sameSite, longLived |-> session, broad |-> session]
MCHttpLines ==
    {HttpLine(Token(TRUE, TRUE, "none", None, FALSE), None, None, {}),
     HttpLine(Token(TRUE, TRUE, "strong", "past", TRUE), None, None, {}),
     HttpLine(Token(FALSE, TRUE, None, None, FALSE), None, "csp", {}),
     HttpLine(Token(TRUE, FALSE, "strong", None, TRUE), None, None, {}),
     HttpLine(None, Cookie(TRUE, TRUE, FALSE, "none"), None, {}),
     HttpLine(None, Cookie(TRUE, FALSE, TRUE, None), None, {}),
     HttpLine(None, Cookie(FALSE, FALSE, TRUE, None), None, {}),
     HttpLine(None, None, "csp", {"csp_unsafe_inline", "csp_wildcard_source"}),
     HttpLine(None, None, "csp", {}),
     HttpLine(None, None, "hsts", {}),
     HttpLine(None, None, "hsts", {"long_max_age"}),
     HttpLine(None, None, "x_frame_options", {"nonstandard"}),
     HttpLine(None, None, "referrer_policy", {"unsafe_url"}),
     HttpLine(None, None, "server", {"version"}),
     HttpLine(None, None, None, {"directory_listing_enabled", "debug_endpoint_exposed"}),
     HttpLine(None, None, None, {}),
     [HttpLine(None, None, None, {}) EXCEPT !.visible = FALSE]}

Argument(constant, input, secret, mode) ==
    [constant |-> constant, input |-> input, secret |-> secret, mode |-> mode]
Call(root, last, names, args, keywords) ==
    [kind |-> "call", root |-> root, last |-> last, names |-> names, plain |-> root = last,
     dotted |-> TRUE, args |-> args, keywords |-> keywords,
     secret |-> FALSE, text |-> "short", debug |-> FALSE, equality |-> FALSE]
Statement(what, secret, text, debug) ==
    [Call("x", "x", {}, <<>>, {}) EXCEPT !.kind = what, !.secret = secret, !.text = text,
                                         !.debug = debug, !.equality = TRUE]
Code(node, says, suggests) ==
    [size |-> 1, node |-> node, says |-> says, suggests |-> suggests, parses |-> TRUE]
MCCodeLines ==
    {Code(Call("os", "system", {}, <<Argument(FALSE, TRUE, FALSE, None)>>, {}),
          {"command_injection_js", "command_injection_java"}, {}),
     Code(Call("eval", "eval", {}, <<Argument(FALSE, TRUE, FALSE, None)>>, {}),
          {"unsafe_deserialization_js", "hardcoded_secrets"}, {"javascript_code"}),
     Code(Call("db", "execute", {}, <<Argument(FALSE, FALSE, FALSE, None)>>, {}),
          {"sql_injection_js", "sql_injection_java"}, {"java_class"}),
     Code(Call("requests", "get", {"requests"}, <<Argument(FALSE, FALSE, FALSE, None)>>,
               {"verify_false"}), {"ssrf_fetch"}, {}),
     Code(Call("os", "chmod", {}, <<Argument(TRUE, FALSE, FALSE, None),
                                    Argument(TRUE, FALSE, FALSE, "world_writable")>>, {}),
          {}, {"python_import"}),
     Code(Statement("assign", TRUE, "long", TRUE), {"hardcoded_secrets"}, {}),
     Code(Statement("compare", TRUE, "short", FALSE), {"broken_authentication"}, {}),
     [Code(None, {}, {}) EXCEPT !.parses = FALSE]}

Bits(read, write, exec) == [read |-> read, write |-> write, exec |-> exec]
Entry(type, owner, other, user, file) ==
    [type |-> type, owner |-> Bits(TRUE, TRUE, owner), group |-> Bits(TRUE, FALSE, "-"),
     other |-> other, user |-> user, file |-> file, extra |-> FALSE]
ShellLine(words, says, listing) ==
    [size |-> 1, visible |-> TRUE, tokenized |-> TRUE, protected |-> FALSE, words |-> words,
     says |-> says, listing |-> listing]
MCShellLines ==
    {ShellLine(<<"rm", "-rf", "/">>, {"rm_rf_root", "rm_rf_generic"}, None),
     ShellLine(<<"sudo", "chmod", "777", "/etc">>, {"chmod_777", "mkdir_then_chmod_777"}, None),
     ShellLine(<<"sudo", "su">>, {"sudo_su_root"}, None),
     ShellLine(<<"ls">>, {}, None),
     [ShellLine(<<>>, {"curl_pipe_shell"}, None) EXCEPT !.tokenized = FALSE],
     ShellLine(<<>>, {}, Entry("-", "x", Bits(TRUE, FALSE, "-"), "root", "/etc/passwd")),
     ShellLine(<<>>, {}, Entry("d", "x", Bits(TRUE, TRUE, "x"), None, "tmp")),
     ShellLine(<<>>, {}, Entry("-", "s", Bits(TRUE, TRUE, "x"), "root", "tool")),
     ShellLine(<<>>, {}, Entry("-", "s", Bits(TRUE, TRUE, "x"), "root", "bash")),
     ShellLine(<<>>, {}, Entry("-", "x", Bits(FALSE, TRUE, "-"), "root", "data")),
     ShellLine(<<>>, {}, [Entry("d", "x", Bits(TRUE, TRUE, "x"), "root", "tmp")
                             EXCEPT !.extra = TRUE])}

CaseRecord(from, severity, risk, tactics, says, target) ==
    [from |-> from, kind |-> "finding", wellformed |-> TRUE, severity |-> severity,
     risk |-> risk, confidence |-> 80, tactics |-> tactics, says |-> says, target |-> target]
MCCaseRecords ==
    {CaseRecord("finding", 4, 60, {"TA0006"}, {"brute_force"}, None),
     CaseRecord("finding", 1, 0, {"TA0011", "TA0042"}, {}, None),
     CaseRecord("finding", 0, 0, {}, {}, None),
     CaseRecord("vulnerability_assessment", 2, 95, {}, {}, "h"),
     CaseRecord("linux_security_threat_hunting", 3, 0, {}, {"brute_force"}, "h"),
     CaseRecord("linux_security_threat_hunting", 1, 30, {}, {"brute_force"}, "i"),
     CaseRecord("linux_security_threat_hunting", 3, 0, {}, {}, "h"),
     [CaseRecord("linux_advisory", 4, 0, {}, {"malware"}, "j") EXCEPT !.kind = "command"],
     [CaseRecord("linux_advisory", 0, 0, {}, {}, None) EXCEPT !.kind = "hardening"],
     [CaseRecord("finding", 4, 0, {}, {}, None) EXCEPT !.wellformed = FALSE],
     CaseRecord("owasp_web_security", 2, 0, {}, {"misconfiguration"}, "h")}

ReportRecord(from, rest, severity, score, text) ==
    [from |-> from, dict |-> TRUE, kind |-> rest, type |-> rest, technique |-> None,
     tactics |-> {}, severity |-> severity, score |-> score, text |-> text]
MCReportRecords ==
    {ReportRecord("findings", "finding", 3, 70, None),
     [ReportRecord("mitre_mappings", "mapping", 0, 0, None) EXCEPT !.technique = "T1110"],
     [ReportRecord("mitre_mappings", "mapping", 0, 0, None) EXCEPT !.technique = "T1110",
                                                                    !.tactics = {"TA0006"}],
     ReportRecord("iocs", "ipv4", 1, 30, None),
     ReportRecord("iocs", "domain", 2, 50, None),
     ReportRecord("evidence_items", "linux_command_input", 0, 0, None),
     ReportRecord("thought_entries", "thought", 0, 0, None),
     ReportRecord("linux_security_records", "finding", 4, 90, None),
     ReportRecord("linux_advisory_records", "command", 4, 0, None),
     ReportRecord("linux_advisory_records", "hardening", 0, 0, "least privilege"),
     ReportRecord("owasp_web_records", "finding", 2, 0, "set a policy"),
     ReportRecord("owasp_security_records", "summary", 0, 0, None),
     ReportRecord("incident_response_plan", "plan", 4, 0, "isolate"),
     ReportRecord("incident_response_plan", "plan", 1, 0, None),
     [ReportRecord("findings", "finding", 3, 70, None) EXCEPT !.dict = FALSE]}

\* "c" is the case that asks.
Left(case, id, category, words) ==
    [case |-> case, id |-> id, category |-> category, words |-> words, broken |-> FALSE]
MCRemembered ==
    {Left("c", "f1", "finding", {"brute", "force"}),
     Left("c", "f2", "finding", {"brute"}),
     Left("c", "f3", "finding", {"brute", "ssh"}),
     [Left("c", "f4", "finding", {"brute"}) EXCEPT !.broken = TRUE],
     Left("c", "p1", "report", {"report"}),
     Left("d", "f5", "finding", {"brute", "ssh", "root", "login"}),
     Left("d", "f5", "finding", {"brute", "force", "upload"}),
     Left("e", "f6", "finding", {"upload"}),
     Left("e", "p2", "report", {"brute"})}
MCDocuments == <<[id |-> "k1", words |-> {"force"}], [id |-> "k2", words |-> {"brute", "force"}]>>

MCMaxRead ==
    [memory |-> 4, linux_command |-> 4, incident |-> 4, report |-> 3,
     linux_security |-> 3, threat_intel |-> 3, vulnerability_scan |-> 4, http_transaction |-> 3,
     source_py |-> 4, source_js |-> 4, source_other |-> 3]
=============================================================================
