----------------------------- MODULE ChatAnswer -----------------------------
(***************************************************************************)
(* core/conversation: how a question about a case is answered.             *)
(*                                                                         *)
(* What can be retrieved is a document [id, words, text, size, quotes,     *)
(* starts]: "text" its normalized text, or None; "quotes" the ids that     *)
(* look like evidence tags somewhere in it, "starts" those that a line of  *)
(* it begins with.  A question is [topics, words, says]: the categories a  *)
(* keyword of which it has, its words, and what the prompt guard finds in  *)
(* it.  Confidence is in tenths.  The wording of answers is left out.      *)
(***************************************************************************)
EXTENDS Selection, SequencesExt, FiniteSetsExt, Functions

CONSTANTS
    None,
    MaxCandidates,      \* finding_max_candidates_per_case
    MaxTimeline,        \* timeline events that are read
    MaxDocuments,       \* knowledge documents that are read
    MaxSimilar,         \* similar cases that are read
    MaxRecords,         \* MAX_RECORDS_PER_CATEGORY
    FallbackRecords,    \* FALLBACK_RECORDS_PER_CATEGORY
    MaxContext          \* DEFAULT_MAX_CHARS

ASSUME LimitAssumption ==
    {MaxCandidates, MaxTimeline, MaxDocuments, MaxSimilar, FallbackRecords} \subseteq Int

\* In the order of their names, which is the one ranking breaks ties by.
Categories ==
    <<"finding", "ioc", "knowledge", "mitre_mapping", "report", "similar_case",
      "timeline_event">>

CaseCategories == {"finding", "ioc", "mitre_mapping", "report", "timeline_event"}

\* A question without any keyword is about everything.
Select(question) ==
    [categories |-> IF question.topics = {} THEN ToSet(Categories) ELSE question.topics,
     explicit   |-> question.topics # {}]

-----------------------------------------------------------------------------
(* Hydration: what a request reads of the case, and beside it. *)

\* A finding that cannot be read takes its mappings along.
Hydrate(rows, question, documents, similar) ==
    LET read == FirstOf(rows.findings, MaxCandidates)
        findings == Those(read, {i \in DOMAIN read : ~read[i].broken})
        Mapped(ms) == Those(ms, {i \in DOMAIN ms : ms[i].id # None})
        asked == Select(question).categories
    IN  [finding        |-> findings,
         mitre_mapping  |-> FlattenSeq([i \in DOMAIN findings |-> Mapped(findings[i].mappings)]),
         ioc            |-> FirstOf(rows.iocs, MaxCandidates),
         report         |-> FirstOf(rows.reports, 1),
         timeline_event |-> FirstOf(rows.timeline, MaxTimeline),
         knowledge      |-> IF "knowledge" \in asked THEN documents ELSE <<>>,
         similar_case   |-> IF "similar_case" \in asked THEN similar ELSE <<>>]

-----------------------------------------------------------------------------
(* Retrieval and the context of the prompt. *)

Score(question, d) == Cardinality(question.words \cap d.words)

Item(category, d, score) ==
    [category |-> category, id |-> d.id, text |-> d.text, size |-> d.size,
     quotes |-> d.quotes, starts |-> d.starts, score |-> score]

Oversized(context, question) ==
    \E c \in Select(question).categories : Len(context[c]) > MaxRecords

\* A category that was asked for answers with its first records, least of all
\* relevant, when none matches.
ItemsOf(context, question, c) ==
    LET all == context[c]
        matching == Those(all, {i \in DOMAIN all : Score(question, all[i]) > 0})
        fallback == IF Select(question).explicit THEN FirstOf(all, FallbackRecords) ELSE <<>>
        chosen == IF matching = <<>> THEN fallback ELSE matching
    IN  [i \in DOMAIN chosen |-> Item(c, chosen[i], Score(question, chosen[i]))]

Retrieve(context, question) ==
    FlattenSeq([i \in DOMAIN Categories |->
        IF Categories[i] \in Select(question).categories
        THEN ItemsOf(context, question, Categories[i]) ELSE <<>>])

Rank(items) ==
    LET Better == {p \in (DOMAIN items) \X (DOMAIN items) :
                      items[p[1]].score > items[p[2]].score}
    IN  Sorted(items, DOMAIN items, Better)

Deduplicate(items) ==
    Those(items, {i \in DOMAIN items :
        items[i].text # None => \A j \in 1 .. i - 1 : items[j].text # items[i].text})

\* What does not fit is passed over for a smaller one behind it.
TruncateToBudget(items) ==
    LET Fits(used, i) == used + items[i].size <= MaxContext
        used[n \in 0 .. Len(items)] ==
            IF n = 0 THEN 0
            ELSE IF Fits(used[n - 1], n) THEN used[n - 1] + items[n].size ELSE used[n - 1]
    IN  Those(items, {i \in DOMAIN items : Fits(used[i - 1], i)})

Assemble(items) == TruncateToBudget(Deduplicate(Rank(items)))

-----------------------------------------------------------------------------
(* The answer. *)

Ids(items) == {i.id : i \in ToSet(items)}
Tags(items, field) == UNION {i[field] : i \in ToSet(items)}

\* The provider of the settings, or the template when it cannot be had.
ChatModelProvider(settings) ==
    LET available == IF settings.provider = "ollama" THEN settings.reachable ELSE settings.key
    IN  IF available THEN "model" ELSE "template"

\* The ids a completion of the provider may claim to rest on.
Completions(provider, items) ==
    IF provider = "template" THEN {Ids(items) \cup Tags(items, "starts")}
    ELSE SUBSET (Ids(items) \cup Tags(items, "quotes"))

Cite(used, items) == used \cap Ids(items)

\* A slip: an answer that cites nothing passes.
ValidWhateverCited(used, items) == used \subseteq Ids(items)

Valid(used, items) ==
    /\ used \subseteq Ids(items)
    /\ items # <<>> => Cite(used, items) # {}

Confidence(used, items) ==
    IF items = <<>> \/ ~Valid(used, items) THEN 0 ELSE Min({10, 5 + Len(items)})

CaseRecords(context) == SumFunction([c \in CaseCategories |-> Len(context[c])])

\* The phrases the prompt guard looks for, by group.
GuardPatterns == {"instruction_override", "role_override", "exfiltration", "obfuscation"}

Answer(context, question, items, used, failed) ==
    [citations  |-> Cite(used, items),
     confidence |-> Confidence(used, items),
     degraded   |-> \/ items = <<>> \/ CaseRecords(context) = 0
                    \/ ~Valid(used, items) \/ failed,
     categories |-> Select(question).categories,
     flagged    |-> question.says \cap GuardPatterns # {}]

\* A model that fails is replaced by the template.
Answers(context, question, provider) ==
    LET items == Assemble(Retrieve(context, question))
    IN  {Answer(context, question, items, used, FALSE) : used \in Completions(provider, items)}
        \cup {Answer(context, question, items, used, TRUE) :
                  used \in IF provider = "model" THEN Completions("template", items) ELSE {}}
=============================================================================
