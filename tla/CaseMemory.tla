----------------------------- MODULE CaseMemory -----------------------------
(***************************************************************************)
(* core/memory as cases use it: what other cases left in the vector store  *)
(* and what the knowledge base holds.  A text is its set of words; the     *)
(* hashed vectors of two texts are as near as the words they share, so an  *)
(* entry of the store is [case, id, category, words], in the order of the  *)
(* first writes.  Similarities are in hundredths.                          *)
(***************************************************************************)
EXTENDS Selection, SequencesExt, FiniteSetsExt, Functions

CONSTANTS
    TopK,            \* memory_agent_top_k_per_category
    Overfetch,       \* overfetch_multiplier
    MinSimilarity,   \* memory_agent_min_similarity
    MaxTotalItems    \* MAX_TOTAL_ITEMS

Items(buckets) == SumFunction([c \in DOMAIN buckets |-> Len(buckets[c])])

Shared(a, b) == Cardinality(a.words \cap b.words)

\* The cosine of a and b is Shared(a, b) / sqrt(|a| |b|).
Near(query, e, least) ==
    10000 * Shared(query, e) * Shared(query, e)
        >= least * least * Cardinality(query.words) * Cardinality(e.words)

Nearer(query, d, e) ==
    Shared(query, d) * Shared(query, d) * Cardinality(e.words)
        > Shared(query, e) * Shared(query, e) * Cardinality(d.words)

QueryEmbedding(store, query, limit, categories) ==
    LET which == {i \in DOMAIN store : store[i].category \in categories}
        nearer == {p \in which \X which : Nearer(query, store[p[1]], store[p[2]])}
    IN  FirstOf(Sorted(store, which, nearer), limit)

\* The vectors of an id are replaced where they are.
UpsertEmbedding(store, e) ==
    IF \E i \in DOMAIN store : store[i].case = e.case /\ store[i].id = e.id
    THEN [i \in DOMAIN store |->
             IF store[i].case = e.case /\ store[i].id = e.id THEN e ELSE store[i]]
    ELSE Append(store, e)

\* A slip: the case's own entries are taken for candidates, the limit for enough.
FindSimilarOfAll(store, query, case, limit, categories) ==
    LET candidates == QueryEmbedding(store, query, limit, categories)
    IN  Those(candidates, {i \in DOMAIN candidates : candidates[i].case # case})

\* Three times the limit is asked for, so that enough is left without one's own.
FindSimilarExcludingCase(store, query, case, limit, categories) ==
    LET candidates == QueryEmbedding(store, query, 3 * limit, categories)
    IN  FirstOf(Those(candidates, {i \in DOMAIN candidates : candidates[i].case # case}), limit)

\* As the context has them.
RecordCategories == <<"case_summary", "finding", "ioc", "mitre_technique", "report">>

\* What a finding or a report d leaves in the store; a broken row leaves nothing.
RecordLongTermMemory(store, case, d) ==
    IF d.broken \/ d.words = {} THEN store
    ELSE UpsertEmbedding(store, [case |-> case, id |-> d.id,
                                 category |-> d.category, words |-> d.words])

-----------------------------------------------------------------------------
(* The knowledge base. *)

\* The share of the query's words a document has; the best ones first.
RetrieveKnowledge(documents, query, limit) ==
    LET which == {i \in DOMAIN documents : Shared(query, documents[i]) > 0}
        better == {p \in which \X which :
                      Shared(query, documents[p[1]]) > Shared(query, documents[p[2]])}
    IN  FirstOf(Sorted(documents, which, better), limit)

-----------------------------------------------------------------------------
(* The context an investigation is given. *)

\* What the case's findings say, or else what its evidence is.
BuildMemoryQuery(findings, evidence) ==
    LET readable == {f \in ToSet(findings) : ~f.broken}
        said == UNION {f.words : f \in readable}
    IN  [words |-> IF said = {} THEN evidence ELSE said]

RetrieveCategory(store, query, case, category) ==
    LET raw  == FindSimilarExcludingCase(store, query, case, Overfetch * TopK, {category})
        near == Those(raw, {i \in DOMAIN raw : Near(query, raw[i], MinSimilarity)})
    IN  [category |-> category, results |-> FirstOf(near, TopK), raw |-> Len(raw),
         dropped |-> Len(raw) - Len(near)]

Excess(buckets) == Max({0, Items(buckets) - MaxTotalItems})

\* From the largest category, the first of several, the last item is dropped
\* until the rest fits: so the items go that are furthest back in theirs.
DroppedBefore(buckets, c, j) ==
    {p \in UNION {{d} \X DOMAIN buckets[d] : d \in DOMAIN buckets} :
        p[2] > j \/ (p[2] = j /\ p[1] < c)}

OversizedGuard(buckets) ==
    [c \in DOMAIN buckets |->
        Those(buckets[c], {j \in DOMAIN buckets[c] :
                             Cardinality(DroppedBefore(buckets, c, j)) >= Excess(buckets)})]

\* confidence_label, of the thresholds a score reaches, in hundredths.
Label(reached) == IF 75 \in reached THEN "high" ELSE IF 50 \in reached THEN "medium" ELSE "low"

\* The last bucket holds what the knowledge base has.
Labels(kept, query) ==
    LET Above(i, e, n) ==
            IF i = Len(kept) THEN 100 * Shared(query, e) >= n * Cardinality(query.words)
            ELSE Near(query, e, n)
    IN  [i \in DOMAIN kept |->
            [j \in DOMAIN kept[i] |-> Label({n \in {50, 75} : Above(i, kept[i][j], n)})]]

\* Of what was kept of all that was found in a category each.
Context(outcomes, found, kept, query) ==
    [items      |-> kept,
     labels     |-> Labels(kept, query),
     candidates |-> SumFunction([i \in DOMAIN outcomes |-> outcomes[i].raw]),
     dropped    |-> SumFunction([i \in DOMAIN outcomes |-> outcomes[i].dropped]),
     truncated  |-> Excess(found)]

Guarded(outcomes, found, query) == Context(outcomes, found, OversizedGuard(found), query)

Resolved(outcomes, known, query) ==
    Guarded(outcomes, Append([i \in DOMAIN outcomes |-> outcomes[i].results], known), query)

ResolveContext(store, documents, query, case) ==
    IF query.words = {} THEN Resolved(<<>>, <<>>, query)
    ELSE Resolved([i \in DOMAIN RecordCategories |->
                      RetrieveCategory(store, query, case, RecordCategories[i])],
                  RetrieveKnowledge(documents, query, TopK), query)

\* A store that fails answers with nothing, so only an empty query degrades.
AgentRecall(query, context) ==
    [status |-> IF query.words = {} THEN "degraded" ELSE "succeeded",
     hit    |-> Items(context.items) > 0]
=============================================================================
