---------------------------- MODULE FindingStore ----------------------------
(***************************************************************************)
(* The findings of one case over a sequence of uploads.                    *)
(*                                                                         *)
(* An upload adds its indicators (IOCs), maps all indicators of the case   *)
(* to ATT&CK techniques, makes one candidate finding per technique, and    *)
(* merges each candidate into the most similar open finding or keeps it as *)
(* a new one.  On SQLite an upload holds the write lock from its first row *)
(* to its commit, so uploads are taken one at a time.                      *)
(*                                                                         *)
(* Confidences are in percent, similarities in units of 1/(6*Unit), times  *)
(* in hours: the similarity of times, which falls off within an hour, is   *)
(* all or nothing.  What confidence adds to severity, priority and risk,   *)
(* and the mapping a merged finding keeps, are left out.                   *)
(***************************************************************************)
EXTENDS Naturals, FiniteSets, FiniteSetsExt

CONSTANTS
    Techniques,
    Kinds,          \* of indicators: a value and its type
    AssetKinds,     \* hosts and addresses
    Rule,           \* the mapping rule of each technique
    Weight,         \* 25 * confidence + 15 * evidence quality of each kind
    Severity,       \* of each kind, 0 .. 4
    Readings,       \* finding_max_candidates_per_case, and an order the random
                    \* row ids give the indicators
    MinConfidence,  \* finding_mapping_min_confidence
    Threshold,      \* finding_dedup_similarity_threshold
    MaxUploads,     \* bounds the model
    MaxHour         \* bounds the model

VARIABLES
    iocs,       \* the indicators of the case
    findings,   \* its open findings
    uploads,    \* how many there were
    hour,
    reading

vars == <<iocs, findings, uploads, hour, reading>>

\* Similarities are counted in whole steps of one case's indicators: up to Unit
\* of them, more than the cap lets in by default, a step is never rounded away.
Unit == 2520

ASSUME BoundsAssumption == MaxUploads \in Nat /\ MaxHour \in Nat
ASSUME KindsAssumption ==
    IsFiniteSet(Kinds) /\ AssetKinds \subseteq Kinds /\ Severity \in [Kinds -> 0 .. 4]
ASSUME ReadingsAssumption ==
    Readings \subseteq [cap : 0 .. Unit, rank : [(1 .. MaxUploads) \X Kinds -> Nat]]
ASSUME RuleAssumption ==
    Rule \in [Techniques -> [kinds : SUBSET Kinds, needs : SUBSET Kinds,
                             strength : 0 .. 100, boost : 0 .. 100, required : BOOLEAN]]

IOC == [up : 1 .. MaxUploads, kind : Kinds, seen : 0 .. MaxHour]
Finding == [up : 1 .. MaxUploads, tech : Techniques, iocs : SUBSET IOC, severity : 0 .. 4]

\* A finding keeps the id it was created with.
SameFinding(f, g) == f.up = g.up /\ f.tech = g.tech

-----------------------------------------------------------------------------
(* Mapping and generation. *)

RankOf(i) == reading.rank[<<i.up, i.kind>>]

\* A slip: only the indicators of the latest upload are read.
DiscoverLatest(all) == {i \in all : \A j \in all : j.up <= i.up}

\* find_by_case(limit=cap), ordered by row id.
Discover(all) ==
    {i \in all : Cardinality({j \in all : RankOf(j) < RankOf(i)}) < reading.cap}

CoOccurs(t, read) == \E i \in read : i.kind \in Rule[t].needs

Supporting(t, read) ==
    IF Rule[t].required /\ ~CoOccurs(t, read) THEN {}
    ELSE {i \in read : i.kind \in Rule[t].kinds}

\* 0.5 rule + 0.25 confidence + 0.15 quality + bonus, against the minimum.
Confident(t, read) ==
    LET support == Supporting(t, read)
        n == Cardinality(support)
        rule == Min({100, Rule[t].strength
                          + (IF CoOccurs(t, read) THEN Rule[t].boost ELSE 0)})
        bonus == Min({1500, 500 * (n - 1)})
    IN  n * (50 * rule + bonus) + MapThenSumSet(LAMBDA i : Weight[i.kind], support)
            >= n * 100 * MinConfidence

Mapped(read) == {t \in Techniques : Supporting(t, read) # {} /\ Confident(t, read)}

Candidate(t, read) ==
    [up |-> uploads + 1, tech |-> t, iocs |-> Supporting(t, read),
     severity |-> Max({Severity[i.kind] : i \in Supporting(t, read)})]

-----------------------------------------------------------------------------
(* Deduplication. *)

Score(agree) == IF agree THEN Unit ELSE 0
Jaccard(a, b) ==
    IF a \cup b = {} THEN Unit
    ELSE (Unit * Cardinality(a \cap b)) \div Cardinality(a \cup b)

Evidence(f) == {i.up : i \in f.iocs}
Assets(f) == {i.kind : i \in f.iocs} \cap AssetKinds
Recent(f) == \E i \in f.iocs : i.seen = hour

\* Content hash, indicators, technique, evidence, time window, hosts.
Similarity(c, f) ==
    Score(c.iocs = f.iocs) + Jaccard(c.iocs, f.iocs) + Unit
    + Jaccard(Evidence(c), Evidence(f)) + Score(Recent(f)) + Jaccard(Assets(c), Assets(f))

\* Findings of different techniques are never merged.
Rivals(c) == {f \in findings : f.tech = c.tech}

MostSimilar(c) ==
    {f \in Rivals(c) : \A g \in Rivals(c) : Similarity(c, g) <= Similarity(c, f)}

\* A slip: the best score is kept, but with whatever finding came last.
LastCompared(c) ==
    {f \in Rivals(c) : \E g \in Rivals(c) : 100 * Similarity(c, g) >= 6 * Unit * Threshold}

Duplicated(c) ==
    {f \in MostSimilar(c) : 100 * Similarity(c, f) >= 6 * Unit * Threshold}

\* A slip: the references of the candidate replace those of the finding.
MergeReplacing(f, c) == [c EXCEPT !.up = f.up]

\* A slip: severities are added up.
MergeAddingUp(f, c) ==
    [f EXCEPT !.iocs = @ \cup c.iocs, !.severity = @ + c.severity]

\* merge_findings.
Merge(f, c) ==
    [f EXCEPT !.iocs = @ \cup c.iocs, !.severity = Max({@, c.severity})]

-----------------------------------------------------------------------------
(* investigate_new_evidence, as far as it is about indicators and findings. *)
Upload(kinds, seen) ==
    LET all == iocs \cup {[up |-> uploads + 1, kind |-> k, seen |-> seen] : k \in kinds}
        read == Discover(all)
        new == {Candidate(t, read) : t \in Mapped(read)}
        merged == {c \in new : Duplicated(c) # {}}
    IN  /\ uploads < MaxUploads
        /\ seen <= hour
        /\ uploads' = uploads + 1
        /\ iocs' = all
        /\ \E target \in [merged -> findings] :
            /\ \A c \in merged : target[c] \in Duplicated(c)
            /\ findings' = (findings \ {target[c] : c \in merged})
                           \cup {Merge(target[c], c) : c \in merged}
                           \cup (new \ merged)
        /\ UNCHANGED <<hour, reading>>

Pass ==
    /\ hour < MaxHour
    /\ hour' = hour + 1
    /\ UNCHANGED <<iocs, findings, uploads, reading>>

Init ==
    /\ iocs = {}
    /\ findings = {}
    /\ uploads = 0
    /\ hour = 0
    /\ reading \in Readings

Next ==
    \/ \E kinds \in SUBSET Kinds, seen \in 0 .. MaxHour : Upload(kinds, seen)
    \/ Pass

Spec == Init /\ [][Next]_vars

-----------------------------------------------------------------------------
(* Properties. *)

\* The shape of the state.
TypeOK ==
    /\ iocs \subseteq IOC
    /\ findings \subseteq Finding
    /\ uploads \in 0 .. MaxUploads
    /\ hour \in 0 .. MaxHour
    /\ reading \in Readings

\* merge_findings never drops evidence: a finding keeps its indicators and never
\* becomes less severe, even when the cap hides some of them from an upload.
MergesOnlyAdd ==
    [][\A f \in findings : \E g \in findings' :
           /\ SameFinding(f, g)
           /\ f.iocs \subseteq g.iocs
           /\ f.severity <= g.severity]_vars

\* Nothing is hidden from an upload that leaves these indicators behind.
AllRead(all) == Cardinality(all) <= reading.cap

\* However the uploads came and whatever was merged, some finding of each
\* technique the case's indicators map to names all of them.
OneFindingHasAll ==
    AllRead(iocs) =>
        \A t \in Mapped(iocs) : \E f \in findings :
            f.tech = t /\ Supporting(t, iocs) \subseteq f.iocs

\* The findings of a technique are nested, and only the largest ever grows: the
\* smaller ones are what earlier uploads knew.
LargestFindingGrows ==
    [][AllRead(iocs') => \A f \in findings, g \in findings' :
           SameFinding(f, g) /\ f # g =>
               \A h \in findings : h.tech = f.tech => h.iocs \subseteq f.iocs]_vars
=============================================================================
