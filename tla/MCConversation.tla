--------------------------- MODULE MCConversation ---------------------------
(* An instance of Conversation for TLC. *)
EXTENDS Conversation, TLC

Symmetry == Permutations(Requests)

Doc(id, words, text) ==
    [id |-> id, words |-> words, text |-> text, size |-> 1, quotes |-> {}, starts |-> {}]
Finding(id, words, mappings) ==
    Doc(id, words, id) @@ [broken |-> FALSE, mappings |-> mappings]

\* A finding quotes a tag of its own, a report has a line that begins with one,
\* two indicators have the same text, and a mapping has no technique.
MCEvidence ==
    [c1 |-> [findings |-> <<[Finding("f1", {"brute", "force"}, <<Doc("T1", {"t1"}, "T1"),
                                                                 Doc(None, {}, None)>>)
                                EXCEPT !.quotes = {"fake"}],
                            [Finding("f2", {"force"}, <<Doc("T2", {}, "T2")>>)
                                EXCEPT !.broken = TRUE]>>,
             iocs     |-> <<Doc("i1", {"addr"}, "addr"), Doc("i2", {"addr"}, "addr")>>,
             reports  |-> <<[Doc("p1", {"brute"}, "report") EXCEPT !.starts = {"line"}]>>,
             timeline |-> <<Doc("e1", {"opened"}, None)>>],
     c2 |-> [findings |-> <<>>, iocs |-> <<>>, reports |-> <<>>, timeline |-> <<>>]]

MCDocuments == <<Doc("k1", {"brute"}, "guide"), [Doc("k2", {"force"}, "handbook") EXCEPT !.size = 9]>>
MCStore == <<[case |-> "c1", id |-> "f1", category |-> "finding", words |-> {"brute", "force"}],
             [case |-> "c2", id |-> "f9", category |-> "finding", words |-> {"brute"}]>>

Question(topics, words, says) == [topics |-> topics, words |-> words, says |-> says]
MCWorkload ==
    {[case |-> "c1", question |-> Question({}, {"brute", "force"}, {})],
     [case |-> "c1", question |-> Question({"ioc", "similar_case"}, {"who"}, {"role_override"})],
     [case |-> "c2", question |-> Question({"knowledge"}, {"brute"}, {})]}

MCLlmSettings ==
    {[provider |-> "openai", key |-> TRUE, reachable |-> FALSE],
     [provider |-> "ollama", key |-> FALSE, reachable |-> FALSE]}
=============================================================================
