---------------------------- MODULE LinuxAdvisor ----------------------------
(***************************************************************************)
(* core/linux_advisor and its service: the advice on shell commands and    *)
(* "ls -l" listings.  A line is [line, size, visible, words, tokenized,    *)
(* protected, says, listing]: the words it splits into, whether one of the *)
(* arguments is under a protected directory, the patterns of the rules it  *)
(* has, and the listing entry it begins with, or None.                     *)
(***************************************************************************)
EXTENDS Integers, Sequences, SequencesExt, FiniteSets, FiniteSetsExt, Functions

CONSTANTS
    None,
    MaxLines, MaxChars      \* linux_advisor_max_lines/chars_per_artifact

Risk == INSTANCE WebSecurity

ExecutionRules ==
    <<Risk!Rule("rm_rf_root", "destructive_command", Risk!Critical, 95, 100),
      Risk!Rule("rm_rf_generic", "destructive_command", Risk!High, 70, 50),
      Risk!Rule("chmod_777", "insecure_permission_change", Risk!High, 90, 90),
      Risk!Rule("chmod_666", "insecure_permission_change", Risk!Medium, 85, 60),
      Risk!Rule("curl_pipe_shell", "untrusted_execution", Risk!Critical, 90, 95),
      Risk!Rule("wget_pipe_shell", "untrusted_execution", Risk!Critical, 90, 95)>>

OwnershipRules ==
    <<Risk!Rule("sudo_nopasswd_all", "unrestricted_sudo", Risk!Critical, 90, 90),
      Risk!Rule("sudo_su_root", "unrestricted_sudo", Risk!Medium, 80, 55),
      Risk!Rule("chown_sensitive_away_from_root", "insecure_ownership_change",
                Risk!Critical, 85, 98),
      Risk!Rule("mkdir_then_chmod_777", "insecure_permission_change", Risk!High, 75, 70)>>

Evaluate(l) == Risk!Matches(ExecutionRules \o OwnershipRules, l.says)

\* A listing has no rule here, so listings never are of a critical category.
CriticalRules ==
    {"rm_rf_root", "curl_pipe_shell", "wget_pipe_shell", "sudo_nopasswd_all",
     "chown_sensitive_away_from_root"}

\* A text that does not split into words is a command without a name.
Command(l) ==
    LET words == IF l.tokenized THEN l.words ELSE <<>>
        sudo  == words # <<>> /\ words[1] = "sudo"
        rest  == IF sudo /\ Len(words) > 1 THEN Tail(words) ELSE words
    IN  [name      |-> IF rest = <<>> THEN None ELSE rest[1],
         sudo      |-> sudo,
         protected |-> l.protected /\ Len(rest) > 1]

RequiresPrivilege(command) ==
    \/ command.sudo
    \/ command.name \in {"useradd", "usermod", "passwd", "systemctl"}
    \/ command.protected

Assessed(source, l, severity, confidence, rules) ==
    [source |-> source, line |-> l.line, severity |-> severity, confidence |-> confidence,
     rules |-> rules,
     category |-> IF source = "command" /\ rules \cap CriticalRules # {}
                  THEN "critical" ELSE "other"]

\* The first of the matches that are worst by severity, then confidence.
Top(matches) ==
    matches[Min({i \in 1..Len(matches) : \A j \in 1..Len(matches) :
                    \/ matches[j].severity < matches[i].severity
                    \/ /\ matches[j].severity = matches[i].severity
                       /\ matches[j].confidence <= matches[i].confidence})]

CommandRisk(l) ==
    LET matches == Evaluate(l)
    IN  IF matches = <<>> THEN Assessed("command", l, Risk!Info, 10000, {})
        ELSE Assessed("command", l, Top(matches).severity, Top(matches).confidence,
                      {m.id : m \in Range(matches)})

(***************************************************************************)
(* A listing entry: [type, owner, group, other, user, file, extra], each   *)
(* of the three [read, write, exec] with the character of the third place; *)
(* "extra" is a character after the tenth (an ACL or a security context).  *)
(***************************************************************************)
Executes(c) == c \in {"x", "s", "t"}
Special(c)  == c \in {"s", "S", "t", "T"}

Digit(t) ==
    (IF t.read THEN 4 ELSE 0) + (IF t.write THEN 2 ELSE 0) + (IF Executes(t.exec) THEN 1 ELSE 0)

\* The mode in octal, its four digits as a decimal number.
NumericMode(e) ==
    1000 * ((IF Special(e.owner.exec) THEN 4 ELSE 0) + (IF Special(e.group.exec) THEN 2 ELSE 0)
            + (IF Special(e.other.exec) THEN 1 ELSE 0))
    + 100 * Digit(e.owner) + 10 * Digit(e.group) + Digit(e.other)

Parses(e) == ~e.extra

SensitiveFiles == {"/etc/shadow", "/etc/passwd", "/etc/sudoers", "/etc/ssh/sshd_config"}
Interpreters ==
    {"bash", "sh", "zsh", "dash", "ksh", "python", "python3", "perl", "ruby", "nc", "ncat"}

\* What is wrong with an entry, in the order it is looked for.
PermissionIssues(e) ==
    LET runsAs    == Special(e.owner.exec) \/ Special(e.group.exec)
        sensitive == e.file \in SensitiveFiles
    IN  Risk!Issue(sensitive /\ e.user \notin {None, "root"},
                   Risk!Rule("sensitive_file_not_root_owned", "", Risk!Critical, 95, 0))
        \o Risk!Issue(sensitive /\ Digit(e.other) # 0,
                      Risk!Rule("sensitive_file_overly_permissive", "", Risk!Critical, 90, 0))
        \o Risk!Issue(e.other.write /\ e.type = "d" /\ ~Special(e.other.exec),
                      Risk!Rule("world_writable_dir_no_sticky_bit", "", Risk!High, 85, 0))
        \o Risk!Issue(runsAs /\ e.file \in Interpreters,
                      Risk!Rule("suid_sgid_on_shell_interpreter", "", Risk!Critical, 90, 0))
        \o Risk!Issue(runsAs, Risk!Rule("suid_sgid_set", "", Risk!Medium, 60, 0))
        \o Risk!Issue(e.other.write,
                      Risk!Rule("world_writable", "",
                                IF Digit(e.other) = 7 THEN Risk!High ELSE Risk!Medium, 75, 0))

\* Only the first issue of an entry is told.
PermissionRisk(l) ==
    LET issues == PermissionIssues(l.listing)
    IN  IF issues = <<>> THEN Assessed("permission", l, Risk!Info, 10000, {})
        ELSE Assessed("permission", l, issues[1].severity, issues[1].confidence, {issues[1].id})

-----------------------------------------------------------------------------
\* What is recommended, and the rules that call for it.
CommandHardening ==
    <<<<"sudo_configuration", {"sudo_nopasswd_all", "sudo_su_root"}>>,
      <<"file_permissions", {"chmod_777", "chmod_666", "mkdir_then_chmod_777"}>>,
      <<"ownership", {"chown_sensitive_away_from_root"}>>,
      <<"least_privilege", {"curl_pipe_shell", "wget_pipe_shell"}>>,
      <<"least_privilege", {"rm_rf_root", "rm_rf_generic"}>>>>

PermissionHardening ==
    <<<<"ownership", {"sensitive_file_not_root_owned", "sensitive_file_overly_permissive"}>>,
      <<"filesystem_security", {"world_writable_dir_no_sticky_bit"}>>,
      <<"account_security", {"suid_sgid_on_shell_interpreter", "suid_sgid_set"}>>,
      <<"file_permissions", {"world_writable"}>>>>

Baseline ==
    LET Always(category, priority) ==
            [category |-> category, priority |-> priority, line |-> 0, baseline |-> TRUE]
    IN  <<Always("ssh_configuration", 2), Always("ssh_configuration", 2),
          Always("sudo_configuration", 2), Always("file_permissions", 3),
          Always("ownership", 2), Always("services", 3), Always("least_privilege", 3),
          Always("filesystem_security", 3), Always("account_security", 3)>>

HardeningFor(risks, table) ==
    FlattenSeq([i \in 1..Len(risks) |->
        LET called == SelectSeq(table, LAMBDA h : h[2] \cap risks[i].rules # {})
        IN  [j \in 1..Len(called) |->
                [category |-> called[j][1], priority |-> 1, line |-> risks[i].line,
                 baseline |-> FALSE]]])

Hardening(commands, permissions) ==
    HardeningFor(commands, CommandHardening)
    \o HardeningFor(permissions, PermissionHardening)
    \o Baseline

Overall(findings) == Risk!Overall(findings, {"critical"})

Oversized(lines) == Risk!Oversized(lines)

IsListing(l) == l.visible /\ l.listing # None
IsCommand(l) == l.visible /\ l.listing = None
Skipped(l)   == ~l.visible \/ (IsListing(l) /\ ~Parses(l.listing))

Advise(lines) ==
    IF Oversized(lines)
    THEN [read |-> 0, findings |-> {}, hardening |-> <<>>, overall |-> Overall({}),
          skipped |-> 0]
    ELSE LET typed       == SelectSeq(lines, IsCommand)
             listed      == SelectSeq(lines, LAMBDA l : IsListing(l) /\ ~Skipped(l))
             commands    == [i \in DOMAIN typed |-> CommandRisk(typed[i])]
             permissions == [i \in DOMAIN listed |-> PermissionRisk(listed[i])]
             findings    == {r \in Range(commands) \cup Range(permissions) : r.rules # {}}
         IN  [read      |-> Len(lines),
              findings  |-> findings,
              hardening |-> Hardening(commands, permissions),
              overall   |-> Overall(findings),
              skipped   |-> Len(SelectSeq(lines, Skipped))]

(***************************************************************************)
(* LinuxSecurityAgent: what the advice is summarised to.                   *)
(***************************************************************************)
AgentSummary(advice) ==
         [flagged   |-> [s \in {"command", "permission"} |->
                            Cardinality({f \in advice.findings : f.source = s})],
          by        |-> [s \in Risk!Info..Risk!Critical |->
                            Cardinality({f \in advice.findings : f.severity = s})],
          baseline  |-> Len(SelectSeq(advice.hardening, LAMBDA h : h.baseline)),
          triggered |-> Len(SelectSeq(advice.hardening, LAMBDA h : ~h.baseline)),
          overall   |-> advice.overall,
          top       |-> [s \in {"command", "permission"} |->
                            Risk!Ranked({f \in advice.findings : f.source = s})]]

AgentAdvice(advice) ==
    IF advice.read = 0 THEN [status |-> "degraded"]
    ELSE [status |-> "succeeded", summary |-> AgentSummary(advice)]
=============================================================================
