--------------------------- MODULE LinuxSecurity ---------------------------
(***************************************************************************)
(* core/linux_security: what the analysis of one SSH or system log yields. *)
(* The functions are pure: a log is a sequence of events, an event is a    *)
(* record [process, user, ip, host, at, line, says], where "says" is the   *)
(* set of things the analyzers' regular expressions recognise in the       *)
(* message.  Times and windows are minutes, NoTime a missing timestamp.    *)
(***************************************************************************)
EXTENDS Integers, Sequences, SequencesExt, FiniteSets, FiniteSetsExt

CONSTANTS
    NoTime,                  \* the timestamp of an event without one
    None,                    \* a missing address, host or user
    BruteForceThreshold,     \* brute_force_threshold
    FailureWindow,           \* brute_force_window_minutes
    SpikeThreshold,          \* failed_login_spike_threshold
    SpikeMinSources,         \* failed_login_spike_min_sources
    SudoFailureThreshold,    \* failure_threshold
    ChainWindow,             \* escalation_chain_window_minutes
    MaxRecords               \* max_records

(***************************************************************************)
(* Severities, lowest first; a severity is kept as its place here.         *)
(***************************************************************************)
SeverityOrder == <<"info", "low", "medium", "high", "critical">>
Rank(severity) == CHOOSE i \in 1..5 : SeverityOrder[i] = severity

Categories == {"brute_force", "compromise_after_brute_force", "failed_login_spike",
    "root_login", "new_user", "user_deletion", "password_change", "sudo_abuse",
    "privilege_escalation", "suspicious_cron", "reverse_shell", "suspicious_service",
    "suspicious_process", "persistence_mechanism", "unauthorized_account_activity"}

(***************************************************************************)
(* One detection: confidence in hundredths, complete counts which of       *)
(* evidence id, lines and description it carries, chain marks the combined *)
(* pattern the persistence detector looks for.  Of first_seen and          *)
(* last_seen only what the comparison of two of them depends on is kept:   *)
(* the parser's times have no zone, those of the clock have one, and are   *)
(* taken where an event has no time.                                       *)
(***************************************************************************)
Candidate(category, severity, subject, confidence, occurrences, lines, complete, chain) ==
    [category |-> category, severity |-> Rank(severity), subject |-> subject,
     confidence |-> confidence, occurrences |-> occurrences, lines |-> lines,
     complete |-> complete, chain |-> chain, seen |-> "log"]

By(time) == IF time = NoTime THEN "clock" ELSE "log"

\* What one event shows by itself.
Seen(event, category, severity, subject) ==
    [Candidate(category, severity, subject, 100, 1, {event.line}, 3, FALSE)
        EXCEPT !.seen = By(event.at)]

Or(value, otherwise) == IF value = None THEN otherwise ELSE value

\* The normalizer skips a record without time, process and message.
Normalize(records) ==
    SelectSeq(records, LAMBDA r : r.at # NoTime \/ r.process # None \/ r.says # {})

Oversized(records) == Len(records) > MaxRecords

\* A slip: the count at the last time, not the best of all.
WindowLast(times, width) ==
    LET ordered == SortSeq(times, <)
    IN  Cardinality({i \in 1..Len(ordered) : ordered[Len(ordered)] - ordered[i] <= width})

(***************************************************************************)
(* The largest number of the times that one window of the given width      *)
(* holds: left and right move over the sorted times, the counts of every   *)
(* right end are compared.                                                 *)
(***************************************************************************)
SlidingWindow(times, width) ==
    LET ordered == SortSeq(times, <)
        Left[right \in 0..Len(ordered)] ==
            IF right = 0 THEN 1
            ELSE CHOOSE l \in Left[right - 1]..right :
                    /\ ordered[right] - ordered[l] <= width
                    /\ \A k \in Left[right - 1]..(l - 1) :
                            ordered[right] - ordered[k] > width
    IN  Max({0} \cup {right - Left[right] + 1 : right \in 1..Len(ordered)})

Times(events) == [i \in 1..Len(events) |-> events[i].at]
Lines(events) == {events[i].line : i \in 1..Len(events)}

(***************************************************************************)
(* SshAuthAnalyzer.  An address that failed often enough within a window   *)
(* is a brute force; a success of such an address, whenever it was, is a   *)
(* compromise.                                                             *)
(***************************************************************************)
Failures(events, ip) ==
    SelectSeq(events, LAMBDA e : e.process = "auth_failure" /\ e.ip = ip /\ e.at # NoTime)
Successes(events) ==
    SelectSeq(events, LAMBDA e : e.process = "auth_success" /\ e.at # NoTime)
AllFailures(events) ==
    SelectSeq(events, LAMBDA e : e.process = "auth_failure" /\ e.ip # None /\ e.at # NoTime)
Addresses(events) == {events[i].ip : i \in 1..Len(events)}

RootLogins(events) ==
    LET root == SelectSeq(Successes(events), LAMBDA e : e.user = "root")
    IN  [i \in 1..Len(root) |->
            Seen(root[i], "root_login", "high", Or(root[i].ip, Or(root[i].host, "unknown")))]

BruteForces(events) ==
    LET best(ip) == SlidingWindow(Times(Failures(events, ip)), FailureWindow)
    IN  SetToSeq({Candidate("brute_force", "high", ip, 100, best(ip),
                            Lines(Failures(events, ip)), 3, FALSE) :
                    ip \in {a \in Addresses(AllFailures(events)) :
                                best(a) >= BruteForceThreshold}})

Compromises(events) ==
    LET forced   == {c.subject : c \in Range(BruteForces(events))}
        admitted(ip) == SelectSeq(Successes(events), LAMBDA e : e.ip = ip)
        latest(ip) == CHOOSE e \in Range(admitted(ip)) :
                        \A f \in Range(admitted(ip)) : f.at <= e.at
    IN  SetToSeq({Seen(latest(ip), "compromise_after_brute_force", "critical", ip) :
                    ip \in {a \in forced : admitted(a) # <<>>}})

Spike(events) ==
    LET failed == AllFailures(events)
        best   == SlidingWindow(Times(failed), FailureWindow)
    IN  IF best >= SpikeThreshold /\ Cardinality(Addresses(failed)) >= SpikeMinSources
        THEN <<Candidate("failed_login_spike", "medium", "global", 100, best, {}, 1, FALSE)>>
        ELSE <<>>

SshAuth(events) ==
    RootLogins(events) \o BruteForces(events) \o Compromises(events) \o Spike(events)

(***************************************************************************)
(* find_suspicious_commands: a finding for each reverse-shell pattern the  *)
(* text matches; a download piped to a shell is one of the nine.  Called   *)
(* on a command alone it is told neither the evidence nor the time.        *)
(***************************************************************************)
SuspiciousCommands(event, subject, complete) ==
    LET matched == event.says \cap {"reverse_shell", "download_to_shell"}
    IN  [i \in 1..Cardinality(matched) |->
            [Candidate("reverse_shell", "critical", subject, 100, 1, {event.line},
                       complete, FALSE)
                EXCEPT !.seen = IF complete = 3 THEN By(event.at) ELSE "clock"]]

\* Every line of every process, under the host (or else user or address).
GenericLines(events) ==
    FlattenSeq([i \in 1..Len(events) |->
        SuspiciousCommands(events[i],
            Or(events[i].host, Or(events[i].user, Or(events[i].ip, "unknown"))), 3)])

(***************************************************************************)
(* SudoActivityAnalyzer: a command is judged by itself, failures together. *)
(***************************************************************************)
SudoCommand(event) ==
    (IF "sensitive_file" \in event.says
        THEN <<Seen(event, "sudo_abuse", "high", event.user)>> ELSE <<>>)
    \o (IF {"as_root", "shell_escape"} \subseteq event.says
        THEN <<Seen(event, "sudo_abuse", "high", event.user)>> ELSE <<>>)
    \o SuspiciousCommands(event, event.user, 2)

SudoFailures(events) ==
    LET failed(user) == SelectSeq(events, LAMBDA e :
            e.process = "sudo" /\ "auth_failure" \in e.says /\ e.user = user /\ e.at # NoTime)
        best(user)   == SlidingWindow(Times(failed(user)), FailureWindow)
        users        == {e.user : e \in Range(events)}
    IN  SetToSeq({Candidate("sudo_abuse", "medium", user, 100, best(user),
                            Lines(failed(user)), 3, FALSE) :
                    user \in {u \in users : best(u) >= SudoFailureThreshold}})

Sudo(events) ==
    LET commands == SelectSeq(events, LAMBDA e :
                        e.process = "sudo" /\ "auth_failure" \notin e.says)
    IN  FlattenSeq([i \in 1..Len(commands) |-> SudoCommand(commands[i])])
        \o SudoFailures(events)

(***************************************************************************)
(* PrivilegeEscalationDetector: each account event, then each escalation   *)
(* that follows the (last) creation of the same account closely.           *)
(***************************************************************************)
Account(event) ==
    CASE event.process \in {"useradd", "adduser"} ->
            <<Seen(event, "new_user", "low", Or(event.user, "unknown"))>>
      [] event.process \in {"userdel", "deluser"} ->
            <<Seen(event, "user_deletion", "low", Or(event.user, "unknown"))>>
      [] event.process = "passwd" /\ "password_changed" \in event.says ->
            <<Seen(event, "password_change", "info", event.user)>>
      [] event.process = "usermod" /\ "privileged_group" \in event.says ->
            <<Seen(event, "privilege_escalation", "high", event.user)>>
      [] event.process = "su" /\ "to_root" \in event.says ->
            <<Seen(event, "unauthorized_account_activity", "medium",
                   Or(event.user, "unknown"))>>
      [] OTHER -> <<>>

Escalations(events) ==
    SelectSeq(events, LAMBDA e : e.process = "usermod" /\ "privileged_group" \in e.says)

Created(events, user) ==
    SelectSeq(events, LAMBDA e : e.process \in {"useradd", "adduser"} /\ e.user = user)

Chain(events, escalation) ==
    LET created == Created(events, escalation.user)
        last    == Last(created)
    IN  IF /\ created # <<>>
           /\ last.at # NoTime
           /\ escalation.at # NoTime
           /\ escalation.at - last.at \in 0..ChainWindow
        THEN <<Candidate("privilege_escalation", "critical", escalation.user, 95, 1,
                         {last.line, escalation.line}, 3, TRUE)>>
        ELSE <<>>

PrivilegeEscalation(events) ==
    FlattenSeq([i \in 1..Len(events) |-> Account(events[i])])
    \o FlattenSeq([i \in 1..Len(Escalations(events)) |->
            Chain(events, Escalations(events)[i])])

(***************************************************************************)
(* CronAnalyzer and ServiceAnalyzer, and what of theirs (and of the chain) *)
(* is a persistence mechanism as well.                                     *)
(***************************************************************************)
CronJob(event) ==
    (IF "suspicious_path" \in event.says
        THEN <<Seen(event, "suspicious_cron", "high", event.user)>> ELSE <<>>)
    \o (IF "download_to_shell" \in event.says
        THEN <<Seen(event, "suspicious_cron", "critical", event.user)>> ELSE <<>>)
    \o SuspiciousCommands(event, event.user, 2)

Cron(events) ==
    FlattenSeq([i \in 1..Len(events) |->
        IF events[i].process = "CRON" THEN CronJob(events[i]) ELSE <<>>])

ServiceUnit(event) ==
    LET subject == Or(event.host, "unknown")
    IN  CASE {"exec_start", "suspicious_path"} \subseteq event.says ->
                <<[Seen(event, "suspicious_service", "high", subject)
                    EXCEPT !.confidence = 80]>>
          [] {"started", "nonstandard_path"} \subseteq event.says ->
                <<[Seen(event, "suspicious_service", "low", subject)
                    EXCEPT !.confidence = 40]>>
          [] OTHER -> <<>>

Service(events) ==
    FlattenSeq([i \in 1..Len(events) |->
        IF events[i].process \in {"systemd", "init"} THEN ServiceUnit(events[i]) ELSE <<>>])

Persistence(cron, service, privilege) ==
    LET direct == SelectSeq(cron \o service, LAMBDA c :
                    c.category \in {"suspicious_cron", "suspicious_service"})
        kept   == direct \o SelectSeq(privilege, LAMBDA c : c.chain)
    IN  [i \in 1..Len(kept) |-> [kept[i] EXCEPT !.category = "persistence_mechanism"]]

\* build_timeline: the authentication events, by time.
Timeline(events) ==
    SortSeq(SelectSeq(events, LAMBDA e :
                /\ e.process \in {"auth_failure", "auth_success", "disconnect",
                                  "session_opened", "sudo", "su"}
                /\ e.at # NoTime),
            LAMBDA a, b : a.at < b.at)

(***************************************************************************)
(* The scores.  Confidence is in ten-thousandths and the composite in      *)
(* hundredths of a point: both are rounded to that in the code.            *)
(***************************************************************************)
Rounded(n, d) == (2 * n + d) \div (2 * d)

Confidence(c, corroborating) ==
    Rounded(90 * c.confidence + 1500 * Min({5, c.occurrences}) + 2500 * c.complete
                + 3000 * Min({2, corroborating}), 3)

Composite(c, corroborating, quality) ==
    Rounded(Confidence(c, corroborating) + 1000 * Min({10, c.occurrences})
                + 2500 * (c.severity - 1) + quality + 8000
                + 2000 * Min({5, corroborating}), 7)

Scored(candidates, quality) ==
    LET others(i) == Cardinality({j \in 1..Len(candidates) : j # i
                        /\ candidates[j].category = candidates[i].category
                        /\ candidates[j].subject = candidates[i].subject})
    IN  [i \in 1..Len(candidates) |->
            [candidate |-> candidates[i],
             score     |-> Composite(candidates[i], others(i), quality)]]

(***************************************************************************)
(* LinuxSecurityFindingGenerator: one finding for a category and subject,  *)
(* with the highest severity and score and the sum of the occurrences, and *)
(* the earliest first_seen of all: min() raises TypeError when one of them *)
(* has a zone and another has none.                                        *)
(***************************************************************************)
Key(candidate) == <<candidate.category, candidate.subject>>

Incomparable(candidates) ==
    \E i, j \in 1..Len(candidates) :
        Key(candidates[i]) = Key(candidates[j]) /\ candidates[i].seen # candidates[j].seen

Findings(scored) ==
    LET key(s)   == Key(s.candidate)
        group(k) == {i \in 1..Len(scored) : key(scored[i]) = k}
    IN  {[category    |-> k[1],
          subject     |-> k[2],
          severity    |-> Max({scored[i].candidate.severity : i \in group(k)}),
          score       |-> Max({scored[i].score : i \in group(k)}),
          occurrences |-> MapThenSumSet(LAMBDA i : scored[i].candidate.occurrences, group(k)),
          lines       |-> UNION {scored[i].candidate.lines : i \in group(k)}] :
            k \in {key(scored[i]) : i \in 1..Len(scored)}}

(***************************************************************************)
(* LinuxSecurityAnalysisEngine.analyze, which the service repeats stage by *)
(* stage: refused when too large, otherwise every analyzer over the        *)
(* normalized events.  What the findings raise nobody catches before the   *)
(* request ends.                                                           *)
(***************************************************************************)
Candidates(events) ==
    LET privilege == Sudo(events) \o PrivilegeEscalation(events)
        cron      == Cron(events)
        service   == Service(events)
    IN  SshAuth(events) \o privilege \o cron \o service
        \o Persistence(cron, service, privilege) \o GenericLines(events)

Aborts(records) == Incomparable(Candidates(Normalize(records)))

Analyze(records, quality) ==
    LET events == Normalize(records)
        none   == [status |-> "refused", findings |-> {}, timeline |-> <<>>, skipped |-> 0]
    IN  CASE Oversized(records) -> none
          [] ~Oversized(records) /\ Aborts(records) -> [none EXCEPT !.status = "raised"]
          [] ~Oversized(records) /\ ~Aborts(records) ->
                [status   |-> "analyzed",
                 findings |-> Findings(Scored(Candidates(events), quality)),
                 timeline |-> Timeline(events),
                 skipped  |-> Len(records) - Len(events)]

\* publish_event: a finding under 20 points is published as degraded.
Published(finding) == IF finding.score < 2000 THEN "degraded" ELSE "finding_generated"
=============================================================================
