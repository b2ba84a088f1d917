---------------------------- MODULE SourceReview ----------------------------
(***************************************************************************)
(* core/owasp_security and its service: the review of one source file.  A  *)
(* file is its extension, whether Python can parse it, and its lines; a    *)
(* line is [line, size, node, says, suggests], the call, assignment or     *)
(* comparison on it (or None), the patterns it has for the languages       *)
(* without a parser and the heuristics of language detection it fits.      *)
(*                                                                         *)
(* A call is [kind, root, last, names, plain, dotted, args, keywords]: the *)
(* first and the last part of its dotted name, the modules named anywhere  *)
(* in it, whether it is one bare name and whether it is a dotted name at   *)
(* all, its arguments [constant, input, secret, mode] and what its keyword *)
(* arguments say.  Assignments and comparisons are [kind, secret, text,    *)
(* debug, equality].                                                       *)
(***************************************************************************)
EXTENDS Integers, Sequences, FiniteSets, FiniteSetsExt, Functions, TLC

CONSTANTS
    None,
    MaxLines, MaxChars      \* owasp_security_max_lines/chars_per_artifact

Risk == INSTANCE WebSecurity

CriticalCategories == {"command_injection", "unsafe_deserialization", "sql_injection"}

\* The one category of the OWASP list, and the one weakness, of each category.
OwaspCategory ==
    [sql_injection |-> "a03", cross_site_scripting |-> "a03", command_injection |-> "a03",
     path_traversal |-> "a01", server_side_request_forgery |-> "a10",
     hardcoded_secrets |-> "a02", weak_cryptography |-> "a02", insecure_randomness |-> "a02",
     unsafe_deserialization |-> "a08", broken_authentication |-> "a07",
     missing_input_validation |-> "a04", dangerous_file_operations |-> "a01",
     open_redirect |-> "a01", sensitive_information_exposure |-> "a09",
     insecure_configuration |-> "a05"]

Weakness ==
    [sql_injection |-> 89, cross_site_scripting |-> 79, command_injection |-> 78,
     path_traversal |-> 22, server_side_request_forgery |-> 918, hardcoded_secrets |-> 798,
     weak_cryptography |-> 327, insecure_randomness |-> 330, unsafe_deserialization |-> 502,
     broken_authentication |-> 287, missing_input_validation |-> 20,
     dangerous_file_operations |-> 73, open_redirect |-> 601,
     sensitive_information_exposure |-> 200, insecure_configuration |-> 16]

(***************************************************************************)
(* Language: that of a known extension, otherwise that of the first        *)
(* heuristic any line fits, in the order of the heuristics; that of a Java *)
(* class looks at the beginning of the file only.                          *)
(***************************************************************************)
Extensions == [py |-> "python", js |-> "javascript", ts |-> "typescript", java |-> "java"]

Heuristics ==
    <<"python_shebang", "python_import", "python_def", "java_class", "java_package",
      "typescript_type", "typescript_interface", "javascript_code">>
HeuristicLanguage ==
    <<"python", "python", "python", "java", "java", "typescript", "typescript", "javascript">>

Language(file) ==
    LET fits == {i \in 1..Len(Heuristics) :
                    \E l \in 1..Len(file.lines) :
                        /\ Heuristics[i] \in file.lines[l].suggests
                        /\ Heuristics[i] = "java_class" => l = 1}
    IN  IF file.extension \in DOMAIN Extensions THEN Extensions[file.extension]
        ELSE IF fits # {} THEN HeuristicLanguage[Min(fits)] ELSE "unknown"

(***************************************************************************)
(* The predicates of the Python rules, one per category.  An argument is   *)
(* dynamic when it is anything but a constant.                             *)
(***************************************************************************)
IsCall(n) == n # None /\ n.kind = "call"
IsDotted(n) == IsCall(n) /\ n.dotted
Dynamic(arg) == ~arg.constant
FirstDynamic(n) == n.args # <<>> /\ Dynamic(n.args[1])

SqlInjection(n) ==
    /\ IsCall(n) /\ ~n.plain
    /\ n.last \in {"execute", "executemany", "raw", "executescript"}
    /\ FirstDynamic(n)

Xss(n) == IsDotted(n) /\ n.last \in {"mark_safe", "render_template_string"}

CommandInjection(n) ==
    /\ IsDotted(n)
    /\ \/ n.last \in {"system", "popen"} /\ n.root = "os"
       \/ /\ n.last \in {"call", "run", "Popen", "check_call", "check_output"}
          /\ "shell_true" \in n.keywords

PathTraversal(n) == IsCall(n) /\ n.plain /\ n.last = "open" /\ FirstDynamic(n)

Ssrf(n) ==
    /\ IsDotted(n)
    /\ n.last \in {"get", "post", "put", "delete", "patch", "urlopen", "request"}
    /\ n.names \cap {"requests", "urlopen", "urllib"} # {}
    /\ FirstDynamic(n)

HardcodedSecret(n) ==
    n # None /\ n.kind = "assign" /\ n.secret /\ n.text = "long"

WeakCryptography(n) == IsDotted(n) /\ n.last \in {"md5", "sha1"} /\ "hashlib" \in n.names

InsecureRandomness(n) ==
    /\ IsDotted(n) /\ ~n.plain /\ n.root = "random"
    /\ n.last \in {"random", "randint", "choice", "randrange", "uniform"}

UnsafeDeserialization(n) ==
    /\ IsDotted(n)
    /\ \/ n.plain /\ n.last \in {"eval", "exec"}
       \/ n.root = "pickle" /\ n.last \in {"loads", "load"}
       \/ n.last = "load" /\ "yaml" \in n.names /\ "safe_loader" \notin n.keywords

BrokenAuthentication(n) ==
    n # None /\ n.kind = "compare" /\ n.equality /\ n.secret

MissingInputValidation(n) ==
    /\ IsDotted(n)
    /\ n.last \in {"system", "popen", "execute", "eval", "exec", "open"}
    /\ \E i \in 1..Len(n.args) : n.args[i].input

DangerousFileOperation(n) ==
    /\ IsDotted(n)
    /\ \/ n.last \in {"remove", "rmdir", "rmtree", "unlink"}
       \/ n.last = "chmod" /\ Len(n.args) >= 2 /\ n.args[2].mode = "world_writable"

OpenRedirect(n) == IsDotted(n) /\ n.last = "redirect" /\ FirstDynamic(n)

SensitiveInformationExposure(n) ==
    /\ IsDotted(n)
    /\ n.last \in {"print", "debug", "info", "warning", "error", "critical", "exception"}
    /\ \E i \in 1..Len(n.args) : n.args[i].secret

InsecureConfiguration(n) ==
    \/ n # None /\ n.kind = "assign" /\ n.debug
    \/ IsCall(n) /\ "verify_false" \in n.keywords

Detected(n) ==
    {c \in DOMAIN Weakness :
        CASE c = "sql_injection"               -> SqlInjection(n)
          [] c = "cross_site_scripting"        -> Xss(n)
          [] c = "command_injection"           -> CommandInjection(n)
          [] c = "path_traversal"              -> PathTraversal(n)
          [] c = "server_side_request_forgery" -> Ssrf(n)
          [] c = "hardcoded_secrets"           -> HardcodedSecret(n)
          [] c = "weak_cryptography"           -> WeakCryptography(n)
          [] c = "insecure_randomness"         -> InsecureRandomness(n)
          [] c = "unsafe_deserialization"      -> UnsafeDeserialization(n)
          [] c = "broken_authentication"       -> BrokenAuthentication(n)
          [] c = "missing_input_validation"    -> MissingInputValidation(n)
          [] c = "dangerous_file_operations"   -> DangerousFileOperation(n)
          [] c = "open_redirect"               -> OpenRedirect(n)
          [] c = "sensitive_information_exposure" -> SensitiveInformationExposure(n)
          [] c = "insecure_configuration"      -> InsecureConfiguration(n)}

(***************************************************************************)
(* The rules: [severity, confidence] of the Python rule of each category,  *)
(* and the pattern rules with the languages they apply to.                 *)
(***************************************************************************)
InputRules ==
    [sql_injection |-> <<3, 75>>, cross_site_scripting |-> <<3, 70>>,
     command_injection |-> <<4, 85>>, path_traversal |-> <<2, 60>>,
     server_side_request_forgery |-> <<3, 60>>, hardcoded_secrets |-> <<3, 65>>,
     weak_cryptography |-> <<2, 80>>, insecure_randomness |-> <<2, 50>>]
UseRules ==
    [unsafe_deserialization |-> <<4, 85>>, broken_authentication |-> <<2, 45>>,
     missing_input_validation |-> <<2, 40>>, dangerous_file_operations |-> <<2, 55>>,
     open_redirect |-> <<2, 55>>, sensitive_information_exposure |-> <<2, 50>>,
     insecure_configuration |-> <<2, 70>>]
AstRules == InputRules @@ UseRules

Script == {"javascript", "typescript"}
Java == {"java"}

PatternRule(id, category, severity, confidence, languages) ==
    [id |-> id, category |-> category, severity |-> severity, confidence |-> confidence,
     languages |-> languages]

InputPatterns == {
    PatternRule("sql_injection_js", "sql_injection", 3, 55, Script),
    PatternRule("sql_injection_java", "sql_injection", 3, 55, Java),
    PatternRule("xss_innerhtml", "cross_site_scripting", 3, 50, Script),
    PatternRule("xss_document_write", "cross_site_scripting", 2, 45, Script),
    PatternRule("command_injection_js", "command_injection", 4, 70, Script),
    PatternRule("command_injection_java", "command_injection", 4, 65, Java),
    PatternRule("path_traversal", "path_traversal", 2, 40, Script \cup Java),
    PatternRule("path_traversal_java_file", "path_traversal", 2, 40, Java),
    PatternRule("ssrf_fetch", "server_side_request_forgery", 3, 45, Script)}
SecretPatterns == {
    PatternRule("hardcoded_secrets", "hardcoded_secrets", 3, 55, Script \cup Java),
    PatternRule("weak_cryptography_js", "weak_cryptography", 2, 60, Script),
    PatternRule("weak_cryptography_java", "weak_cryptography", 2, 60, Java),
    PatternRule("insecure_randomness_js", "insecure_randomness", 2, 40, Script),
    PatternRule("insecure_randomness_java", "insecure_randomness", 2, 40, Java),
    PatternRule("unsafe_deserialization_js", "unsafe_deserialization", 4, 60, Script),
    PatternRule("unsafe_deserialization_java", "unsafe_deserialization", 4, 60, Java)}
UsePatterns == {
    PatternRule("broken_authentication", "broken_authentication", 2, 35, Script \cup Java),
    PatternRule("missing_input_validation", "missing_input_validation", 2, 30,
                Script \cup Java),
    PatternRule("dangerous_file_operations_js", "dangerous_file_operations", 2, 50, Script),
    PatternRule("dangerous_file_operations_java", "dangerous_file_operations", 2, 50, Java),
    PatternRule("open_redirect_js", "open_redirect", 2, 40, Script),
    PatternRule("open_redirect_java", "open_redirect", 2, 40, Java),
    PatternRule("sensitive_information_exposure", "sensitive_information_exposure", 2, 35,
                Script),
    PatternRule("insecure_configuration_js", "insecure_configuration", 3, 60, Script),
    PatternRule("insecure_configuration_java", "insecure_configuration", 3, 50, Java)}
PatternRules == InputPatterns \cup SecretPatterns \cup UsePatterns

\* A pattern counts three quarters of what the word of the parser counts.
AstFindings(line) ==
    {[source |-> "python_ast_analyzer", rule |-> c, line |-> line.line, category |-> c,
      severity |-> AstRules[c][1], confidence |-> 100 * AstRules[c][2]] :
        c \in Detected(line.node)}

PatternFindings(line, language) ==
    {[source |-> "pattern_analyzer", rule |-> r.id, line |-> line.line,
      category |-> r.category, severity |-> r.severity, confidence |-> 75 * r.confidence] :
        r \in {p \in PatternRules : p.id \in line.says /\ language \in p.languages}}

(***************************************************************************)
(* SourceCodeAnalysisEngine.analyze: a file of no known language, or that  *)
(* Python cannot parse, has no findings, the lowest risk and no confidence.*)
(***************************************************************************)
Oversized(file) ==
    \/ Len(file.lines) > MaxLines
    \/ SumFunction([i \in DOMAIN file.lines |-> file.lines[i].size]) > MaxChars

Degraded(file) ==
    LET language == Language(file)
    IN  language = "unknown" \/ (language = "python" /\ ~file.parses)

FindingsIn(file) ==
    LET language == Language(file)
    IN  IF Degraded(file) THEN {}
        ELSE UNION {IF language = "python" THEN AstFindings(file.lines[i])
                    ELSE PatternFindings(file.lines[i], language) :
                        i \in 1..Len(file.lines)}

\* The weighted sum of WebSecurity, written once more for these findings.
Overall(findings) == Risk!Overall(findings, CriticalCategories)

\* One tip of every category, whatever was found, and one for each finding.
Recommendations(findings) ==
    {[category |-> c, line |-> 0, priority |-> 1] : c \in DOMAIN Weakness}
    \cup {[category |-> f.category, line |-> f.line,
           priority |-> Min({5, Max({2, f.severity + 1})})] : f \in findings}

Review(file) ==
    IF Oversized(file)
    THEN [read |-> 0, language |-> "unknown", findings |-> {}, degraded |-> TRUE,
          overall |-> [level |-> 0, confidence |-> 0], recommendations |-> {}]
    ELSE LET findings == FindingsIn(file)
         IN  [read            |-> Len(file.lines),
              language        |-> Language(file),
              findings        |-> findings,
              degraded        |-> Degraded(file),
              overall         |-> IF Degraded(file) THEN [level |-> 0, confidence |-> 0]
                                  ELSE Overall(findings),
              recommendations |-> Recommendations(findings)]

(***************************************************************************)
(* OwaspSecurityAgent: without source code it degrades, otherwise it       *)
(* counts the findings it is handed by category and by weakness.           *)
(***************************************************************************)
AgentReview(review) ==
    IF review.read = 0 THEN [status |-> "degraded"]
    ELSE [status   |-> "succeeded",
          language |-> review.language,
          owasp    |-> [c \in {OwaspCategory[f.category] : f \in review.findings} |->
                          Cardinality({f \in review.findings : OwaspCategory[f.category] = c})],
          weak     |-> [w \in {Weakness[f.category] : f \in review.findings} |->
                          Cardinality({f \in review.findings : Weakness[f.category] = w})],
          overall  |-> review.overall,
          degraded |-> review.degraded]
=============================================================================
