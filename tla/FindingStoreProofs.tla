------------------------- MODULE FindingStoreProofs -------------------------
(***************************************************************************)
(* Proofs about FindingStore: for any rules, indicators, thresholds and    *)
(* numbers of uploads, what deduplication keeps.                           *)
(***************************************************************************)
EXTENDS FindingStore, FiniteSetTheorems, TLAPS

\* What an upload makes of the indicators it reads.
New(read) == {Candidate(t, read) : t \in Mapped(read)}
Repeated(read) == {c \in New(read) : Duplicated(c) # {}}

\* How an upload that takes the duplicates to their targets leaves the findings.
Settled(read, target) ==
    (findings \ {target[c] : c \in Repeated(read)})
    \cup {Merge(target[c], c) : c \in Repeated(read)}
    \cup (New(read) \ Repeated(read))

\* A finding is named by the upload and the technique it was made for.
Named ==
    /\ \A f \in findings : f.up <= uploads
    /\ \A f, g \in findings : SameFinding(f, g) => f = g

\* While all indicators are read, the findings of a technique are nested in
\* what supports it.
Nested ==
    AllRead(iocs) =>
        /\ \A f \in findings : f.iocs \subseteq Supporting(f.tech, iocs)
        /\ \A f, g \in findings : f.tech = g.tech =>
             f.iocs \subseteq g.iocs \/ g.iocs \subseteq f.iocs

FInv == TypeOK /\ IsFiniteSet(iocs) /\ Named /\ Nested /\ OneFindingHasAll
-----------------------------------------------------------------------------
(* The operators. *)

\* A set of severities has a greatest one.
LEMMA MaxSeverity ==
    ASSUME NEW S, S \subseteq 0 .. 4, S # {}
    PROVE  Max(S) \in S /\ Max(S) \in 0 .. 4 /\ \A y \in S : y <= Max(S)
<1>1. \E x \in S : \A y \in S : x >= y
  <2>1. CASE 4 \in S
    BY <2>1
  <2>2. CASE 4 \notin S /\ 3 \in S
    BY <2>2
  <2>3. CASE 4 \notin S /\ 3 \notin S /\ 2 \in S
    BY <2>3
  <2>4. CASE 4 \notin S /\ 3 \notin S /\ 2 \notin S /\ 1 \in S
    BY <2>4
  <2>5. CASE 4 \notin S /\ 3 \notin S /\ 2 \notin S /\ 1 \notin S
    <3>1. \A x \in S : x = 0
      BY <2>5
    <3>2. PICK x \in S : TRUE
      OBVIOUS
    <3>3. x \in S /\ \A y \in S : x >= y
      BY <3>1, <3>2
    <3> QED BY <3>3
  <2> QED BY <2>1, <2>2, <2>3, <2>4, <2>5
<1>2. Max(S) \in S /\ \A y \in S : Max(S) >= y
  BY <1>1 DEF Max
<1> QED BY <1>2

\* More indicators support a technique no less.
LEMMA SupportGrows ==
    ASSUME NEW t, NEW few, NEW many, few \subseteq many
    PROVE  Supporting(t, few) \subseteq Supporting(t, many)
  BY DEF Supporting, CoOccurs

\* What supports a technique was read.
LEMMA SupportRead == \A t, read : Supporting(t, read) \subseteq read
  BY DEF Supporting

\* What is merged keeps its name, and gains indicators and severity.
LEMMA MergeShape ==
    ASSUME NEW f \in Finding, NEW c \in Finding
    PROVE  /\ Merge(f, c) \in Finding
           /\ SameFinding(f, Merge(f, c)) /\ Merge(f, c).tech = f.tech /\ Merge(f, c).up = f.up
           /\ Merge(f, c).iocs = f.iocs \cup c.iocs
           /\ f.severity <= Merge(f, c).severity
<1> DEFINE both == f.iocs \cup c.iocs
           worse == Max({f.severity, c.severity})
<1>1. both \subseteq IOC
  BY DEF Finding
<1>2. worse \in 0 .. 4 /\ f.severity <= worse
  <2>1. {f.severity, c.severity} \subseteq 0 .. 4
    BY DEF Finding
  <2> QED BY <2>1, MaxSeverity
<1>3. Merge(f, c) = [f EXCEPT !.iocs = both, !.severity = worse]
  BY DEF Merge
<1> HIDE DEF both, worse
<1>4. /\ Merge(f, c) \in Finding /\ Merge(f, c).iocs = both /\ Merge(f, c).severity = worse
      /\ Merge(f, c).up = f.up /\ Merge(f, c).tech = f.tech
  BY <1>1, <1>2, <1>3 DEF Finding
<1> QED BY <1>2, <1>4 DEF SameFinding, both

\* What an upload generates.
LEMMA CandidateShape ==
    ASSUME NEW read, read \subseteq IOC, uploads \in 0 .. MaxUploads, uploads < MaxUploads,
           NEW t \in Mapped(read)
    PROVE  /\ Candidate(t, read) \in Finding
           /\ Candidate(t, read).up = uploads + 1 /\ Candidate(t, read).tech = t
           /\ Candidate(t, read).iocs = Supporting(t, read) /\ Supporting(t, read) # {}
<1> DEFINE all == {Severity[i.kind] : i \in Supporting(t, read)}
<1>1. t \in Techniques /\ Supporting(t, read) # {} /\ Supporting(t, read) \subseteq IOC
  BY SupportRead DEF Mapped
<1>2. all \subseteq 0 .. 4 /\ all # {}
  BY <1>1, KindsAssumption DEF IOC
<1>3. Max(all) \in 0 .. 4
  BY <1>2, MaxSeverity
<1>4. uploads + 1 \in 1 .. MaxUploads
  BY BoundsAssumption
<1> QED BY <1>1, <1>3, <1>4 DEF Candidate, Finding

\* The cap, and the order of the rows.
LEMMA CapAndRank ==
    ASSUME TypeOK
    PROVE  /\ Unit \in Nat /\ Unit > 0
           /\ reading.cap \in Nat /\ reading.cap <= Unit
           /\ reading.rank \in [(1 .. MaxUploads) \X Kinds -> Nat]
<1>1. Unit \in Nat /\ Unit > 0
  BY DEF Unit
<1>2. reading \in [cap : 0 .. Unit, rank : [(1 .. MaxUploads) \X Kinds -> Nat]]
  BY ReadingsAssumption DEF TypeOK
<1>3. reading.cap \in 0 .. Unit /\ reading.rank \in [(1 .. MaxUploads) \X Kinds -> Nat]
  BY <1>2
<1> QED BY <1>1, <1>3

\* Below the cap every indicator is read.
LEMMA DiscoverAll ==
    ASSUME TypeOK, NEW all, all \subseteq IOC, IsFiniteSet(all), AllRead(all)
    PROVE  Discover(all) = all
<1>1. reading.cap \in Nat /\ reading.rank \in [(1 .. MaxUploads) \X Kinds -> Nat]
  BY CapAndRank
<1>2. ASSUME NEW i \in all
      PROVE  Cardinality({j \in all : RankOf(j) < RankOf(i)}) < reading.cap
  <2> DEFINE S == {j \in all : RankOf(j) < RankOf(i)}
  <2>1. RankOf(i) \in Nat
    BY <1>1 DEF RankOf, IOC
  <2>2. S \subseteq all /\ i \notin S
    BY <2>1
  <2> HIDE DEF S
  <2>3. /\ Cardinality(S) <= Cardinality(all) /\ Cardinality(S) # Cardinality(all)
        /\ Cardinality(S) \in Nat /\ Cardinality(all) \in Nat
    BY <2>2, FS_Subset, FS_CardinalityType
  <2>4. Cardinality(S) < reading.cap
    BY <1>1, <2>3 DEF AllRead
  <2> QED BY <2>4 DEF S
<1> QED BY <1>2 DEF Discover
-----------------------------------------------------------------------------
(* An upload. *)

\* The step, with its findings named.
LEMMA UploadStep ==
    ASSUME NEW kinds \in SUBSET Kinds, NEW seen \in 0 .. MaxHour, Upload(kinds, seen)
    PROVE  /\ uploads < MaxUploads /\ uploads' = uploads + 1
           /\ UNCHANGED <<hour, reading>>
           /\ iocs' = iocs \cup {[up |-> uploads + 1, kind |-> k, seen |-> seen] : k \in kinds}
           /\ \E target \in [Repeated(Discover(iocs')) -> findings] :
                /\ \A c \in Repeated(Discover(iocs')) : target[c] \in Duplicated(c)
                /\ findings' = Settled(Discover(iocs'), target)
<1> DEFINE all == iocs \cup {[up |-> uploads + 1, kind |-> k, seen |-> seen] : k \in kinds}
           read == Discover(all)
           new == {Candidate(t, read) : t \in Mapped(read)}
           merged == {c \in new : Duplicated(c) # {}}
<1>1. /\ uploads < MaxUploads /\ uploads' = uploads + 1
      /\ UNCHANGED <<hour, reading>> /\ iocs' = all
      /\ \E target \in [merged -> findings] :
           /\ \A c \in merged : target[c] \in Duplicated(c)
           /\ findings' = (findings \ {target[c] : c \in merged})
                          \cup {Merge(target[c], c) : c \in merged}
                          \cup (new \ merged)
  BY DEF Upload
<1>2. new = New(read) /\ merged = Repeated(read)
  BY DEF New, Repeated
<1> HIDE DEF new, merged, read
<1>3. read = Discover(iocs')
  BY <1>1 DEF read
<1> QED BY <1>1, <1>2, <1>3 DEF Settled

\* The indicators after an upload.
LEMMA UploadIndicators ==
    ASSUME FInv, NEW kinds \in SUBSET Kinds, NEW seen \in 0 .. MaxHour, Upload(kinds, seen)
    PROVE  /\ iocs \subseteq iocs' /\ iocs' \subseteq IOC /\ IsFiniteSet(iocs')
           /\ Discover(iocs') \subseteq IOC
           /\ AllRead(iocs') => AllRead(iocs) /\ Discover(iocs') = iocs'
<1> DEFINE added == {[up |-> uploads + 1, kind |-> k, seen |-> seen] : k \in kinds}
<1>1. iocs' = iocs \cup added /\ uploads < MaxUploads
  BY UploadStep
<1>2. TypeOK /\ IsFiniteSet(iocs)
  BY DEF FInv
<1>3. uploads + 1 \in 1 .. MaxUploads
  BY <1>1, <1>2, BoundsAssumption DEF TypeOK
<1>4. added \subseteq IOC
  BY <1>3 DEF IOC
<1>5. IsFiniteSet(kinds)
  BY KindsAssumption, FS_Subset
<1>6. IsFiniteSet(added)
  <2> DEFINE f == [k \in kinds |-> [up |-> uploads + 1, kind |-> k, seen |-> seen]]
  <2>1. f \in Surjection(kinds, added)
    BY DEF Surjection
  <2> HIDE DEF f, added
  <2> QED BY <1>5, <2>1, FS_Surjection
<1> HIDE DEF added
<1>7. iocs \subseteq iocs' /\ iocs' \subseteq IOC /\ IsFiniteSet(iocs')
  BY <1>1, <1>2, <1>4, <1>6, FS_Union DEF TypeOK
<1>8. AllRead(iocs') => AllRead(iocs)
  <2>1. /\ Cardinality(iocs) <= Cardinality(iocs') /\ Cardinality(iocs) \in Nat
        /\ Cardinality(iocs') \in Nat
    BY <1>2, <1>7, FS_Subset, FS_CardinalityType
  <2>2. reading.cap \in Nat
    BY <1>2, CapAndRank
  <2> QED BY <2>1, <2>2 DEF AllRead
<1>9. AllRead(iocs') => Discover(iocs') = iocs'
  BY <1>2, <1>7, DiscoverAll
<1> QED BY <1>7, <1>8, <1>9 DEF Discover

\* What is generated.
LEMMA NewShape ==
    ASSUME TypeOK, NEW read, read \subseteq IOC, uploads < MaxUploads, NEW c \in New(read)
    PROVE  /\ c \in Finding /\ c.up = uploads + 1 /\ c.tech \in Mapped(read)
           /\ c.iocs = Supporting(c.tech, read) /\ c.iocs # {}
           /\ c = Candidate(c.tech, read)
<1>1. PICK t \in Mapped(read) : c = Candidate(t, read)
  BY DEF New
<1>2. uploads \in 0 .. MaxUploads
  BY DEF TypeOK
<1> QED BY <1>1, <1>2, CandidateShape

\* What is merged, and into what.
LEMMA RepeatedShape ==
    ASSUME TypeOK, NEW read, read \subseteq IOC, uploads < MaxUploads,
           NEW target \in [Repeated(read) -> findings],
           \A c \in Repeated(read) : target[c] \in Duplicated(c),
           NEW c \in Repeated(read)
    PROVE  /\ c \in New(read) /\ target[c] \in findings /\ target[c].tech = c.tech
           /\ target[c] \in MostSimilar(c)
           /\ Merge(target[c], c) \in Finding
           /\ SameFinding(target[c], Merge(target[c], c))
           /\ Merge(target[c], c).up = target[c].up
           /\ Merge(target[c], c).tech = c.tech
           /\ Merge(target[c], c).iocs = target[c].iocs \cup c.iocs
           /\ target[c].severity <= Merge(target[c], c).severity
<1>1. c \in New(read) /\ target[c] \in findings /\ target[c] \in Duplicated(c)
  BY DEF Repeated
<1>2. target[c] \in MostSimilar(c) /\ target[c].tech = c.tech
  BY <1>1 DEF Duplicated, MostSimilar, Rivals
<1>3. c \in Finding /\ target[c] \in Finding
  BY <1>1, NewShape DEF TypeOK
<1> QED BY <1>1, <1>2, <1>3, MergeShape

\* Where the findings after an upload come from.
LEMMA SettledFrom ==
    ASSUME NEW read, NEW target, NEW g \in Settled(read, target)
    PROVE  \/ g \in findings
           \/ g \in New(read)
           \/ \E c \in Repeated(read) : g = Merge(target[c], c)
  BY DEF Settled

\* Where those before it went.
LEMMA SettledInto ==
    ASSUME NEW read, NEW target, NEW f \in findings
    PROVE  \/ f \in Settled(read, target)
           \/ \E c \in Repeated(read) : f = target[c] /\ Merge(f, c) \in Settled(read, target)
  BY DEF Settled

\* An upload keeps the shape and the names.
LEMMA UploadKeepsNames ==
    ASSUME FInv, NEW kinds \in SUBSET Kinds, NEW seen \in 0 .. MaxHour, Upload(kinds, seen)
    PROVE  TypeOK' /\ Named'
<1> DEFINE read == Discover(iocs')
<1>1. /\ uploads < MaxUploads /\ uploads' = uploads + 1 /\ UNCHANGED <<hour, reading>>
      /\ read \subseteq IOC /\ iocs' \subseteq IOC
  BY UploadStep, UploadIndicators
<1>2. PICK target \in [Repeated(read) -> findings] :
        /\ \A c \in Repeated(read) : target[c] \in Duplicated(c)
        /\ findings' = Settled(read, target)
  BY UploadStep
<1>3. TypeOK /\ Named /\ uploads \in Nat
  BY BoundsAssumption DEF FInv, TypeOK
<1> HIDE DEF read
<1>4. TypeOK'
  <2>1. ASSUME NEW g \in findings' PROVE g \in Finding
    <3>1. CASE g \in findings
      BY <1>3, <3>1 DEF TypeOK
    <3>2. CASE g \in New(read)
      BY <1>1, <1>3, <3>2, NewShape
    <3>3. CASE \E c \in Repeated(read) : g = Merge(target[c], c)
      BY <1>1, <1>2, <1>3, <3>3, RepeatedShape
    <3> QED BY <1>2, <2>1, <3>1, <3>2, <3>3, SettledFrom
  <2>2. uploads' \in 0 .. MaxUploads
    BY <1>1, <1>3, BoundsAssumption
  <2> QED BY <1>1, <1>3, <2>1, <2>2 DEF TypeOK
<1>5. \A f \in findings' : f.up <= uploads'
  <2> TAKE f \in findings'
  <2>1. CASE f \in findings
    <3>1. f.up <= uploads /\ f.up \in Nat
      BY <1>3, <2>1, BoundsAssumption DEF Named, TypeOK, Finding
    <3> QED BY <1>1, <1>3, <3>1
  <2>2. CASE f \in New(read)
    BY <1>1, <1>3, <2>2, NewShape
  <2>3. ASSUME NEW c \in Repeated(read), f = Merge(target[c], c) PROVE f.up <= uploads'
    <3>1. f.up = target[c].up /\ target[c] \in findings
      BY <1>1, <1>2, <1>3, <2>3, RepeatedShape
    <3>2. f.up <= uploads /\ f.up \in Nat
      BY <1>3, <3>1, BoundsAssumption DEF Named, TypeOK, Finding
    <3> QED BY <1>1, <1>3, <3>2
  <2> QED BY <1>2, <2>1, <2>2, <2>3, SettledFrom
<1>6. ASSUME NEW f \in findings', NEW g \in findings', SameFinding(f, g) PROVE f = g
  <2>1. f.up = g.up /\ f.tech = g.tech
    BY <1>6 DEF SameFinding
  <2>2. \A h \in findings : h.up <= uploads /\ h.up # uploads + 1
    BY <1>3, BoundsAssumption DEF Named, TypeOK, Finding
  <2>3. \A c, d \in New(read) : c.tech = d.tech => c = d
    BY <1>1, <1>3, NewShape
  <2>4. \A c \in Repeated(read) :
          /\ c \in New(read) /\ target[c] \in findings /\ target[c].tech = c.tech
          /\ Merge(target[c], c).up = target[c].up /\ Merge(target[c], c).tech = c.tech
    BY <1>1, <1>2, <1>3, RepeatedShape
  <2>5. \A c \in New(read) : c.up = uploads + 1
    BY <1>1, <1>3, NewShape
  \* one of the two was merged, the other was not
  <2>6. ASSUME NEW h \in findings, NEW c \in Repeated(read), h \in findings',
               h.up = Merge(target[c], c).up, h.tech = Merge(target[c], c).tech
        PROVE  h = Merge(target[c], c)
    <3>1. h = target[c]
      BY <1>3, <2>4, <2>6 DEF Named, SameFinding
    <3>2. h \notin findings \ {target[d] : d \in Repeated(read)}
      BY <3>1
    <3>3. h \notin New(read)
      BY <2>2, <2>5
    <3>4. PICK d \in Repeated(read) : h = Merge(target[d], d)
      BY <1>2, <2>6, <3>2, <3>3 DEF Settled
    <3>5. d = c
      BY <2>3, <2>4, <2>6, <3>4
    <3> QED BY <3>4, <3>5
  <2>7. CASE f \in findings /\ g \in findings
    BY <1>3, <1>6, <2>7 DEF Named
  <2>8. CASE f \in New(read) /\ g \in New(read)
    BY <2>1, <2>3, <2>8
  <2>9. ASSUME NEW c \in Repeated(read), NEW d \in Repeated(read),
               f = Merge(target[c], c), g = Merge(target[d], d)
        PROVE  f = g
    <3>1. c = d
      BY <2>1, <2>3, <2>4, <2>9
    <3> QED BY <2>9, <3>1
  <2> QED BY <1>2, <1>6, <2>1, <2>2, <2>4, <2>5, <2>6, <2>7, <2>8, <2>9, SettledFrom
<1> QED BY <1>4, <1>5, <1>6 DEF Named

\* What is mapped depends on what is read alone.
LEMMA MappedLater ==
    /\ Mapped(iocs)' = Mapped(iocs')
    /\ \A t : Supporting(t, iocs)' = Supporting(t, iocs')
  OBVIOUS

\* The indicators of a finding after an upload that has read them all.
LEMMA Grown ==
    ASSUME FInv, NEW kinds \in SUBSET Kinds, NEW seen \in 0 .. MaxHour, Upload(kinds, seen),
           AllRead(iocs')
    PROVE  /\ \A f \in findings : f.iocs \subseteq Supporting(f.tech, iocs')
           /\ \A g \in findings' :
                g \in findings \/ g.iocs = Supporting(g.tech, iocs')
           /\ \A t \in Mapped(iocs') : \E g \in findings' :
                g.tech = t /\ g.iocs = Supporting(t, iocs')
<1> DEFINE read == Discover(iocs')
<1>1. /\ uploads < MaxUploads /\ read = iocs' /\ read \subseteq IOC
      /\ iocs \subseteq iocs' /\ AllRead(iocs)
  BY UploadStep, UploadIndicators
<1>2. PICK target \in [Repeated(read) -> findings] :
        /\ \A c \in Repeated(read) : target[c] \in Duplicated(c)
        /\ findings' = Settled(read, target)
  BY UploadStep
<1>3. TypeOK /\ Nested
  BY DEF FInv
<1> HIDE DEF read
<1>4. \A f \in findings : f.iocs \subseteq Supporting(f.tech, iocs')
  <2> TAKE f \in findings
  <2>1. f.iocs \subseteq Supporting(f.tech, iocs)
    BY <1>1, <1>3 DEF Nested
  <2>2. Supporting(f.tech, iocs) \subseteq Supporting(f.tech, iocs')
    BY <1>1, SupportGrows
  <2> QED BY <2>1, <2>2
<1>5. ASSUME NEW c \in Repeated(read)
      PROVE  /\ Merge(target[c], c).tech = c.tech
             /\ Merge(target[c], c).iocs = Supporting(c.tech, iocs')
  <2>1. /\ c \in New(read) /\ target[c] \in findings /\ target[c].tech = c.tech
        /\ Merge(target[c], c).tech = c.tech
        /\ Merge(target[c], c).iocs = target[c].iocs \cup c.iocs
    BY <1>1, <1>2, <1>3, RepeatedShape
  <2>2. c.iocs = Supporting(c.tech, iocs')
    BY <1>1, <1>3, <2>1, NewShape
  <2>3. target[c].iocs \subseteq c.iocs
    BY <1>4, <2>1, <2>2
  <2> QED BY <2>1, <2>2, <2>3
<1>6. ASSUME NEW c \in New(read) PROVE c.iocs = Supporting(c.tech, iocs')
  BY <1>1, <1>3, NewShape
<1>7. \A g \in findings' : g \in findings \/ g.iocs = Supporting(g.tech, iocs')
  BY <1>2, <1>5, <1>6, SettledFrom
<1>8. ASSUME NEW t \in Mapped(iocs')
      PROVE  \E g \in findings' : g.tech = t /\ g.iocs = Supporting(t, iocs')
  <2> DEFINE c == Candidate(t, read)
  <2>1. c \in New(read) /\ c.tech = t
    BY <1>1 DEF New, Candidate
  <2> HIDE DEF c
  <2>2. CASE c \in Repeated(read)
    <3>1. Merge(target[c], c) \in findings'
      BY <1>2, <2>2 DEF Settled
    <3> QED BY <1>5, <2>1, <2>2, <3>1
  <2>3. CASE c \notin Repeated(read)
    <3>1. c \in findings'
      BY <1>2, <2>1, <2>3 DEF Settled
    <3> QED BY <1>6, <2>1, <3>1
  <2> QED BY <2>2, <2>3
<1> QED BY <1>4, <1>7, <1>8

\* The invariant is inductive.
LEMMA FindingsInductive == FInv /\ [Next]_vars => FInv'
<1> SUFFICES ASSUME FInv, [Next]_vars PROVE FInv'
  OBVIOUS
<1>1. ASSUME NEW kinds \in SUBSET Kinds, NEW seen \in 0 .. MaxHour, Upload(kinds, seen)
      PROVE  FInv'
  <2>1. TypeOK' /\ Named'
    BY <1>1, UploadKeepsNames
  <2>2. IsFiniteSet(iocs') /\ reading' = reading
    BY <1>1, UploadIndicators, UploadStep
  <2>3. ASSUME AllRead(iocs)'
        PROVE  /\ \A f \in findings : f.iocs \subseteq Supporting(f.tech, iocs')
               /\ \A g \in findings' : g \in findings \/ g.iocs = Supporting(g.tech, iocs')
               /\ \A t \in Mapped(iocs') : \E g \in findings' :
                    g.tech = t /\ g.iocs = Supporting(t, iocs')
               /\ Nested /\ AllRead(iocs)
    <3>1. AllRead(iocs')
      BY <2>2, <2>3 DEF AllRead
    <3> QED BY <1>1, <3>1, Grown, UploadIndicators DEF FInv
  <2>4. Nested'
    <3> SUFFICES ASSUME AllRead(iocs)'
                 PROVE  /\ \A f \in findings' : f.iocs \subseteq Supporting(f.tech, iocs')
                        /\ \A f, g \in findings' : f.tech = g.tech =>
                             f.iocs \subseteq g.iocs \/ g.iocs \subseteq f.iocs
      BY MappedLater DEF Nested
    <3>1. \A f \in findings' : f.iocs \subseteq Supporting(f.tech, iocs')
      BY <2>3
    <3>2. ASSUME NEW f \in findings', NEW g \in findings', f.tech = g.tech
          PROVE  f.iocs \subseteq g.iocs \/ g.iocs \subseteq f.iocs
      <4>1. CASE f \in findings /\ g \in findings
        BY <2>3, <3>2, <4>1 DEF Nested
      <4>2. CASE f \notin findings
        BY <2>3, <3>1, <3>2, <4>2
      <4>3. CASE g \notin findings
        BY <2>3, <3>1, <3>2, <4>3
      <4> QED BY <4>1, <4>2, <4>3
    <3> QED BY <3>1, <3>2
  <2>5. OneFindingHasAll'
    <3> SUFFICES ASSUME AllRead(iocs)', NEW t \in Mapped(iocs')
                 PROVE  \E f \in findings' : f.tech = t /\ Supporting(t, iocs') \subseteq f.iocs
      BY MappedLater DEF OneFindingHasAll
    <3> QED BY <2>3
  <2> QED BY <2>1, <2>2, <2>4, <2>5 DEF FInv
<1>2. CASE Pass \/ UNCHANGED vars
  <2>1. /\ iocs' = iocs /\ findings' = findings /\ uploads' = uploads /\ reading' = reading
        /\ hour' \in 0 .. MaxHour
    BY <1>2, BoundsAssumption DEF Pass, vars, FInv, TypeOK
  <2>2. TypeOK' /\ Named' /\ IsFiniteSet(iocs)'
    BY <2>1 DEF FInv, TypeOK, Named
  <2>3. Nested' /\ OneFindingHasAll'
    BY <2>1, MappedLater DEF FInv, Nested, OneFindingHasAll, AllRead
  <2> QED BY <2>2, <2>3 DEF FInv
<1> QED BY <1>1, <1>2 DEF Next

\* A case without evidence.
LEMMA FindingsInit == Init => FInv
<1> SUFFICES ASSUME Init PROVE FInv
  OBVIOUS
<1>1. /\ iocs = {} /\ findings = {} /\ uploads = 0 /\ hour = 0 /\ reading \in Readings
  BY DEF Init
<1>2. TypeOK
  BY <1>1, BoundsAssumption DEF TypeOK
<1>3. IsFiniteSet(iocs) /\ Named /\ Nested
  BY <1>1, FS_EmptySet DEF Named, Nested
<1>4. OneFindingHasAll
  <2>1. Mapped(iocs) = {}
    BY <1>1, SupportRead DEF Mapped
  <2> QED BY <2>1 DEF OneFindingHasAll
<1> QED BY <1>2, <1>3, <1>4 DEF FInv

\* The inductive invariant of a case's findings.
THEOREM FindingsInvariant == Spec => []FInv
  BY FindingsInit, FindingsInductive, PTL DEF Spec

\* The shape of the state.
THEOREM FindingsTyped == Spec => []TypeOK
<1>1. FInv => TypeOK
  BY DEF FInv
<1> QED BY <1>1, FindingsInvariant, PTL

\* Deduplication splits no technique's evidence.
THEOREM EvidenceTogether == Spec => []OneFindingHasAll
<1>1. FInv => OneFindingHasAll
  BY DEF FInv
<1> QED BY <1>1, FindingsInvariant, PTL
-----------------------------------------------------------------------------
(* The steps. *)

\* merge_findings drops no evidence.
THEOREM MergesKeep == Spec => MergesOnlyAdd
<1>1. ASSUME FInv, Next, NEW f \in findings
      PROVE  \E g \in findings' : /\ SameFinding(f, g) /\ f.iocs \subseteq g.iocs
                                  /\ f.severity <= g.severity
  <2>1. TypeOK /\ f \in Finding /\ f.severity <= f.severity
    <3>1. TypeOK
      BY <1>1 DEF FInv
    <3>2. f \in Finding
      BY <1>1, <3>1 DEF TypeOK
    <3> QED BY <3>1, <3>2 DEF Finding
  <2>2. CASE f \in findings'
    BY <2>1, <2>2 DEF SameFinding
  <2>3. ASSUME NEW kinds \in SUBSET Kinds, NEW seen \in 0 .. MaxHour, Upload(kinds, seen),
               f \notin findings'
        PROVE  \E g \in findings' : /\ SameFinding(f, g) /\ f.iocs \subseteq g.iocs
                                    /\ f.severity <= g.severity
    <3> DEFINE read == Discover(iocs')
    <3>1. uploads < MaxUploads /\ read \subseteq IOC
      BY <1>1, <2>3, UploadStep, UploadIndicators
    <3>2. PICK target \in [Repeated(read) -> findings] :
            /\ \A c \in Repeated(read) : target[c] \in Duplicated(c)
            /\ findings' = Settled(read, target)
      BY <2>3, UploadStep
    <3> HIDE DEF read
    <3>3. PICK c \in Repeated(read) : f = target[c] /\ Merge(f, c) \in findings'
      BY <1>1, <2>3, <3>2, SettledInto
    <3>4. /\ SameFinding(f, Merge(f, c)) /\ Merge(f, c).iocs = f.iocs \cup c.iocs
          /\ f.severity <= Merge(f, c).severity
      BY <2>1, <3>1, <3>2, <3>3, RepeatedShape
    <3> QED BY <3>3, <3>4
  <2>4. CASE Pass
    BY <1>1, <2>2, <2>4 DEF Pass
  <2> QED BY <1>1, <2>2, <2>3, <2>4 DEF Next
<1>2. ASSUME FInv, [Next]_vars
      PROVE  [\A f \in findings : \E g \in findings' :
                 /\ SameFinding(f, g)
                 /\ f.iocs \subseteq g.iocs
                 /\ f.severity <= g.severity]_vars
  BY <1>1, <1>2
<1> QED BY <1>2, FindingsInvariant, PTL DEF Spec, MergesOnlyAdd

\* A larger dividend has no smaller quotient, and a larger one if it is larger
\* by the divisor.
LEMMA QuotientGrows ==
    ASSUME NEW x \in Nat, NEW y \in Nat, NEW n \in Nat, n > 0, x <= y
    PROVE  x \div n \in Nat /\ x \div n <= y \div n /\ (x + n <= y => x \div n < y \div n)
  OBVIOUS

\* Of two subsets the larger is the more similar one.
LEMMA JaccardGrows ==
    ASSUME NEW whole, IsFiniteSet(whole), NEW more, more \subseteq whole,
           NEW less, less \subseteq more
    PROVE  /\ Jaccard(whole, less) \in Nat /\ Jaccard(whole, more) \in Nat
           /\ Jaccard(whole, less) <= Jaccard(whole, more)
           /\ less # more /\ Cardinality(whole) <= Unit =>
                Jaccard(whole, less) < Jaccard(whole, more)
<1>0. Unit \in Nat
  BY DEF Unit
<1>1. /\ whole \cup less = whole /\ whole \cap less = less
      /\ whole \cup more = whole /\ whole \cap more = more
  OBVIOUS
<1> DEFINE n == Cardinality(whole)
           x == Cardinality(less)
           y == Cardinality(more)
<1>2. /\ n \in Nat /\ x \in Nat /\ y \in Nat /\ x <= y /\ (less # more => x < y)
  <2>1. IsFiniteSet(more) /\ n \in Nat
    BY FS_Subset, FS_CardinalityType
  <2>2. IsFiniteSet(less) /\ y \in Nat /\ x \in Nat
    BY <2>1, FS_Subset, FS_CardinalityType
  <2>3. x <= y /\ (x = y => less = more)
    BY <2>1, FS_Subset
  <2> QED BY <2>1, <2>2, <2>3
<1>3. CASE whole = {}
  <2>1. less = {} /\ more = {}
    BY <1>3
  <2> QED BY <1>0, <1>3, <2>1 DEF Jaccard
<1>4. CASE whole # {}
  <2>1. n > 0
    BY <1>2, <1>4, FS_EmptySet
  <2>2. /\ Jaccard(whole, less) = (Unit * x) \div n
        /\ Jaccard(whole, more) = (Unit * y) \div n
    BY <1>1, <1>4 DEF Jaccard
  <2> HIDE DEF n, x, y
  <2>3. Unit * x \in Nat /\ Unit * y \in Nat /\ Unit * x <= Unit * y
    BY <1>0, <1>2
  <2>4. x < y /\ n <= Unit => Unit * x + n <= Unit * y
    <3> SUFFICES ASSUME x < y, n <= Unit PROVE Unit * x + n <= Unit * y
      OBVIOUS
    <3>1. Unit * (x + 1) <= Unit * y
      BY <1>0, <1>2
    <3>2. Unit * (x + 1) = Unit * x + Unit
      BY <1>0, <1>2
    <3> QED BY <1>0, <1>2, <2>3, <3>1, <3>2
  <2>5. (Unit * y) \div n \in Nat
    BY <1>2, <2>1, <2>3, QuotientGrows
  <2> QED BY <1>2, <2>1, <2>2, <2>3, <2>4, <2>5, QuotientGrows DEF n
<1> QED BY <1>3, <1>4

\* Evidence, hosts and recency of more indicators.
LEMMA PartsGrow ==
    ASSUME NEW f, NEW h, f.iocs \subseteq h.iocs, IsFiniteSet(h.iocs)
    PROVE  /\ Evidence(f) \subseteq Evidence(h) /\ IsFiniteSet(Evidence(h))
           /\ Assets(f) \subseteq Assets(h) /\ IsFiniteSet(Assets(h))
           /\ Recent(f) => Recent(h)
<1>1. Evidence(f) \subseteq Evidence(h) /\ Assets(f) \subseteq Assets(h) /\ (Recent(f) => Recent(h))
  BY DEF Evidence, Assets, Recent
<1>2. IsFiniteSet(Evidence(h))
  <2> DEFINE S == h.iocs
             T == Evidence(h)
             m == [i \in S |-> i.up]
  <2>1. m \in Surjection(S, T)
    BY DEF Surjection, Evidence
  <2> HIDE DEF m, T
  <2>2. IsFiniteSet(T)
    BY <2>1, FS_Surjection
  <2> QED BY <2>2 DEF T
<1>3. IsFiniteSet(Assets(h))
  <2> DEFINE S == h.iocs
             T == {i.kind : i \in S}
             m == [i \in S |-> i.kind]
  <2>1. m \in Surjection(S, T)
    BY DEF Surjection
  <2>2. Assets(h) \subseteq T
    BY DEF Assets
  <2> HIDE DEF m, T
  <2>3. IsFiniteSet(T)
    BY <2>1, FS_Surjection
  <2> QED BY <2>2, <2>3, FS_Subset
<1> QED BY <1>1, <1>2, <1>3

\* Of two nested findings the larger is the more similar one to a candidate
\* that has all their indicators.
LEMMA LargerIsMoreSimilar ==
    ASSUME NEW c, NEW f, NEW h, f.iocs \subseteq h.iocs, h.iocs \subseteq c.iocs,
           f.iocs # h.iocs, IsFiniteSet(c.iocs), Cardinality(c.iocs) <= Unit
    PROVE  ~ (Similarity(c, h) <= Similarity(c, f))
<1>1. IsFiniteSet(h.iocs)
  BY FS_Subset
<1>2. /\ Evidence(f) \subseteq Evidence(h) /\ Evidence(h) \subseteq Evidence(c)
      /\ Assets(f) \subseteq Assets(h) /\ Assets(h) \subseteq Assets(c)
      /\ IsFiniteSet(Evidence(c)) /\ IsFiniteSet(Assets(c))
      /\ Recent(f) => Recent(h)
  BY <1>1, PartsGrow
<1> DEFINE a1 == Score(c.iocs = f.iocs)
           a2 == Score(c.iocs = h.iocs)
           b1 == Jaccard(c.iocs, f.iocs)
           b2 == Jaccard(c.iocs, h.iocs)
           d1 == Jaccard(Evidence(c), Evidence(f))
           d2 == Jaccard(Evidence(c), Evidence(h))
           e1 == Score(Recent(f))
           e2 == Score(Recent(h))
           g1 == Jaccard(Assets(c), Assets(f))
           g2 == Jaccard(Assets(c), Assets(h))
<1>3. Unit \in Nat
  BY DEF Unit
<1>4. a1 \in Nat /\ a2 \in Nat /\ a1 <= a2 /\ e1 \in Nat /\ e2 \in Nat /\ e1 <= e2
  <2>1. c.iocs # f.iocs
    OBVIOUS
  <2> QED BY <1>2, <1>3, <2>1 DEF Score
<1>5. b1 \in Nat /\ b2 \in Nat /\ b1 < b2
  BY JaccardGrows
<1>6. d1 \in Nat /\ d2 \in Nat /\ d1 <= d2
  BY <1>2, JaccardGrows
<1>7. g1 \in Nat /\ g2 \in Nat /\ g1 <= g2
  BY <1>2, JaccardGrows
<1>8. /\ Similarity(c, f) = a1 + b1 + Unit + d1 + e1 + g1
      /\ Similarity(c, h) = a2 + b2 + Unit + d2 + e2 + g2
  BY DEF Similarity
<1> HIDE DEF a1, a2, b1, b2, d1, d2, e1, e2, g1, g2
<1> QED BY <1>3, <1>4, <1>5, <1>6, <1>7, <1>8

\* Only the largest finding of a technique grows.
THEOREM LargestGrows == Spec => LargestFindingGrows
<1>1. ASSUME FInv, Next, AllRead(iocs'), NEW f \in findings, NEW g \in findings',
             SameFinding(f, g), f # g, NEW h \in findings, h.tech = f.tech
      PROVE  h.iocs \subseteq f.iocs
  <2>1. /\ TypeOK /\ Named /\ uploads \in Nat
        /\ \A k \in findings : k.up <= uploads /\ k.up \in Nat
    BY <1>1, BoundsAssumption DEF FInv, Named, TypeOK, Finding
  <2>2. g \notin findings
    BY <1>1, <2>1 DEF Named
  <2>3. PICK kinds \in SUBSET Kinds, seen \in 0 .. MaxHour : Upload(kinds, seen)
    BY <1>1, <2>2 DEF Next, Pass
  <2> DEFINE read == Discover(iocs')
  <2>4. /\ uploads < MaxUploads /\ read = iocs' /\ read \subseteq IOC
        /\ AllRead(iocs) /\ IsFiniteSet(iocs')
    BY <1>1, <2>3, UploadStep, UploadIndicators
  <2>5. PICK target \in [Repeated(read) -> findings] :
          /\ \A c \in Repeated(read) : target[c] \in Duplicated(c)
          /\ findings' = Settled(read, target)
    BY <2>3, UploadStep
  <2>6. \A k \in findings : k.iocs \subseteq Supporting(k.tech, iocs')
    BY <1>1, <2>3, Grown
  <2> HIDE DEF read
  <2>7. g \notin New(read)
    BY <1>1, <2>1, <2>4, NewShape DEF SameFinding
  <2>8. PICK c \in Repeated(read) : g = Merge(target[c], c)
    BY <1>1, <2>2, <2>5, <2>7, SettledFrom
  <2>9. /\ c \in New(read) /\ target[c] \in findings /\ target[c] \in MostSimilar(c)
        /\ SameFinding(target[c], g) /\ target[c].tech = c.tech
    BY <2>1, <2>4, <2>5, <2>8, RepeatedShape
  <2>10. f = target[c]
    BY <1>1, <2>1, <2>9 DEF Named, SameFinding
  <2>11. c.iocs = Supporting(c.tech, iocs')
    BY <2>1, <2>4, <2>9, NewShape
  <2>12. h.iocs \subseteq c.iocs /\ f.iocs \subseteq c.iocs
    BY <1>1, <2>6, <2>9, <2>10, <2>11
  <2>13. f.iocs \subseteq h.iocs \/ h.iocs \subseteq f.iocs
    BY <1>1, <2>4 DEF FInv, Nested
  <2>14. Similarity(c, h) <= Similarity(c, f)
    BY <1>1, <2>9, <2>10 DEF MostSimilar, Rivals
  <2>15. IsFiniteSet(c.iocs) /\ Cardinality(c.iocs) <= Unit
    <3>1. c.iocs \subseteq iocs'
      BY <2>11, SupportRead
    <3>2. /\ IsFiniteSet(c.iocs) /\ Cardinality(c.iocs) <= Cardinality(iocs')
          /\ Cardinality(c.iocs) \in Nat /\ Cardinality(iocs') \in Nat
      BY <2>4, <3>1, FS_Subset, FS_CardinalityType
    <3>3. reading.cap \in Nat /\ reading.cap <= Unit /\ Unit \in Nat
      BY <2>1, CapAndRank
    <3> QED BY <1>1, <3>2, <3>3 DEF AllRead
  <2>16. CASE f.iocs \subseteq h.iocs /\ f.iocs # h.iocs
    BY <2>12, <2>14, <2>15, <2>16, LargerIsMoreSimilar
  <2> QED BY <2>13, <2>16
<1>2. ASSUME FInv, [Next]_vars
      PROVE  [AllRead(iocs') => \A f \in findings, g \in findings' :
                 SameFinding(f, g) /\ f # g =>
                     \A h \in findings : h.tech = f.tech => h.iocs \subseteq f.iocs]_vars
  BY <1>1, <1>2
<1> QED BY <1>2, FindingsInvariant, PTL DEF Spec, LargestFindingGrows
=============================================================================
