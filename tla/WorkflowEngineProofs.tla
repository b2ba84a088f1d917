------------------------ MODULE WorkflowEngineProofs ------------------------
(***************************************************************************)
(* Proofs about WorkflowEngine: for any number of agents, whatever they    *)
(* offer and under any policy, what the nodes of the superstep return is   *)
(* merged without loss and without doubling.                               *)
(***************************************************************************)
EXTENDS WorkflowEngine, FiniteSetTheorems, SequenceTheorems, TLAPS

\* What becomes of the node of an agent: the status it reports, or "none" if
\* its exception left it.
Outcomes == Status \cup {"none"}

FindingsOf(a, outcome) == IF outcome = "SUCCEEDED" THEN <<a>> ELSE <<>>
ThoughtsOf(a, outcome) == IF outcome = "none" THEN <<>> ELSE <<a>>
ErrorsOf(a, outcome) == IF outcome \in {"none", "FAILED"} THEN <<a>> ELSE <<>>
Flags(outcome) == outcome = "none" /\ policy.action = "MANUAL_TRIAGE"

\* The copy such a node ends with, and the update that is cut out of it.
Worked(a, outcome) ==
    [findings |-> Coordinated.findings \o FindingsOf(a, outcome),
     thoughts |-> Coordinated.thoughts \o ThoughtsOf(a, outcome),
     errors   |-> Coordinated.errors \o ErrorsOf(a, outcome),
     outputs  |-> [Coordinated.outputs EXCEPT ![a] = outcome],
     plan     |-> Coordinated.plan,
     triage   |-> Coordinated.triage \/ Flags(outcome)]

Updates(a, outcome) ==
    [findings |-> FindingsOf(a, outcome),
     thoughts |-> ThoughtsOf(a, outcome),
     errors   |-> ErrorsOf(a, outcome),
     outputs  |-> [n \in IF outcome = "none" THEN {} ELSE {a} |-> outcome],
     triage   |-> Flags(outcome)]

Counted(a, i, s, f) == metrics[a] = [invocations |-> i, successes |-> s, failures |-> f]

\* Where a node is says what it has done.
NodeInv(a) ==
    /\ pc[a] \in {"idle", "scheduled"} =>
         working[a] = Empty /\ attempts[a] = 0 /\ Counted(a, 0, 0, 0)
    /\ pc[a] \in {"calling", "backoff", "escaped"} =>
         working[a] = Coordinated /\ Counted(a, 1, 0, 0)
    /\ pc[a] \in {"calling", "backoff"} => attempts[a] < policy.attempts
    /\ pc[a] = "aborting" => working[a] = Coordinated /\ Counted(a, 1, 0, 1)
    /\ pc[a] = "returned" =>
         Counted(a, 1, 0, 0) /\ \E st \in Status : working[a] = Worked(a, st)
    /\ pc[a] # "done" => update[a] = NoUpdate
    /\ pc[a] = "done" => \E outcome \in Outcomes :
         /\ working[a] = Worked(a, outcome)
         /\ update[a] = Updates(a, outcome)
         /\ IF outcome = "none" THEN Counted(a, 1, 0, 1) ELSE Counted(a, 1, 1, 0)

\* How far the run is.
PhaseInv ==
    /\ phase = "started" => shared = Empty
    /\ phase # "started" /\ merged = 0 => shared = Coordinated
    /\ phase # "started" => shared.plan = Coordinated.plan
    /\ phase \in {"started", "routing"} => merged = 0 /\ \A a \in Agents : pc[a] = "idle"
    /\ phase = "superstep" => merged < Len(Names) /\ ~Coordinated.triage
    /\ phase \in {"superstep", "crashed", "aborted"} =>
         \A a \in Agents : pc[a] = "idle" <=> a \notin Coordinated.plan
    /\ merged > 0 => \A a \in Agents :
         pc[a] = IF a \in Coordinated.plan THEN "done" ELSE "idle"
    /\ phase = "crashed" => \A a \in Agents : pc[a] \in {"idle", "done"}
    /\ phase = "aborted" => \A a \in Agents :
         pc[a] \in {"idle", "scheduled", "done", "aborting"}
    /\ phase = "completed" => \/ merged = Len(Names)
                              \/ Coordinated.plan = {} /\ merged = 0
                                 /\ \A a \in Agents : pc[a] = "idle"

\* What the updates merged so far have left of the i-th agent.
Contributed(i) ==
    LET a == Names[i]
        u == IF i <= merged THEN update[a] ELSE NoUpdate
    IN  /\ Times(a, shared.findings) = Times(a, u.findings)
        /\ Times(a, shared.thoughts) = Times(a, u.thoughts)
        /\ Times(a, shared.errors) = Times(a, u.errors)
        /\ shared.outputs[a] = IF a \in DOMAIN u.outputs THEN u.outputs[a] ELSE "none"

MergeInv == phase # "started" =>
    /\ \A i \in 1 .. Len(Names) : Contributed(i)
    /\ Times("coordinator", shared.thoughts) = 1
    /\ shared.triage <=> \/ Coordinated.triage
                         \/ \E i \in 1 .. merged : update[Names[i]].triage

WInv == /\ TypeOK
        /\ \A a \in Agents : NodeInv(a)
        /\ PhaseInv
        /\ MergeInv
-----------------------------------------------------------------------------
(* Sequences, and the plan. *)

\* A set of numbers that is not empty has a least one.
LEMMA LeastOne == ASSUME NEW S, S \subseteq Nat, S # {} PROVE Min(S) \in S
<1>1. IsWellFoundedOn(OpToRel(<, Nat), Nat)
  BY NatLessThanWellFounded
<1>2. PICK x \in S : \A y \in S : ~ (<<y, x>> \in OpToRel(<, Nat))
  BY <1>1, WFMin
<1>3. \A y \in S : x =< y
  <2>1. \A y \in Nat : y < x => <<y, x>> \in OpToRel(<, Nat)
    BY Zenon DEF OpToRel
  <2>2. \A y \in S : ~ (y < x)
    BY <1>2, <2>1, Zenon
  <2> QED BY <2>2
<1> QED BY <1>3 DEF Min

\* What is added at the end of a sequence is what its difference to the
\* sequence before shows.
LEMMA AddedBack ==
    ASSUME NEW S, NEW s \in Seq(S), NEW t \in Seq(S)
    PROVE  Added(s, s \o t) = t
<1> DEFINE w == s \o t
           d == SubSeq(w, Len(s) + 1, Len(w))
<1>1. /\ w \in Seq(S) /\ Len(w) = Len(s) + Len(t)
      /\ Len(s) \in Nat /\ Len(t) \in Nat
      /\ \A i \in 1 .. Len(w) : w[i] = IF i <= Len(s) THEN s[i] ELSE t[i - Len(s)]
  BY ConcatProperties, LenProperties
<1>2. \A i \in Len(s) + 1 .. Len(w) : w[i] \in S
  BY <1>1, ElementOfSeq
<1> HIDE DEF w
<1>3. /\ d \in Seq(S) /\ Len(d) = Len(t)
      /\ \A i \in 1 .. Len(t) : d[i] = w[Len(s) + i]
  BY <1>1, <1>2, SubSeqProperties
<1>4. \A i \in 1 .. Len(t) : d[i] = t[i]
  BY <1>1, <1>3
<1> HIDE DEF d
<1>5. d = t
  BY <1>3, <1>4, SeqEqual
<1> QED BY <1>5 DEF Added, d, w

\* How often an element occurs.
LEMMA TimesOfNone == \A x : Times(x, <<>>) = 0
<1> TAKE x
<1>1. {i \in DOMAIN <<>> : <<>>[i] = x} = {}
  OBVIOUS
<1> QED BY <1>1, FS_EmptySet DEF Times

\* One more entry counts once for its name, and for no other.
LEMMA TimesOfMore ==
    ASSUME NEW S, NEW s \in Seq(S), NEW y \in S, NEW x
    PROVE  /\ Times(x, s) \in Nat
           /\ Times(x, s \o <<y>>) = Times(x, s) + IF x = y THEN 1 ELSE 0
<1> DEFINE w == s \o <<y>>
           n == Len(s)
           A == {i \in DOMAIN s : s[i] = x}
           B == {i \in DOMAIN w : w[i] = x}
<1>1. n \in Nat /\ DOMAIN s = 1 .. n
  BY LenProperties
<1>2. DOMAIN w = 1 .. n + 1 /\ \A i \in 1 .. n + 1 : w[i] = IF i = n + 1 THEN y ELSE s[i]
  <2>1. <<y>> \in Seq(S) /\ Len(<<y>>) = 1 /\ <<y>>[1] = y
    OBVIOUS
  <2> HIDE DEF n
  <2>2. w \in Seq(S) /\ Len(w) = n + 1
    BY <2>1, ConcatProperties DEF n
  <2>3. \A i \in 1 .. n + 1 : w[i] = IF i <= n THEN s[i] ELSE <<y>>[i - n]
    BY <2>1, ConcatProperties DEF n
  <2>4. DOMAIN w = 1 .. n + 1
    BY <2>2, LenProperties
  <2> HIDE DEF w
  <2>5. \A i \in 1 .. n + 1 : i <= n <=> i # n + 1
    BY <1>1
  <2> QED BY <1>1, <2>1, <2>3, <2>4, <2>5
<1>3. IsFiniteSet(A) /\ Cardinality(A) \in Nat
  <2>1. A \subseteq 1 .. n
    BY <1>1
  <2>2. IsFiniteSet(1 .. n)
    BY <1>1, FS_Interval
  <2> QED BY <2>1, <2>2, FS_Subset, FS_CardinalityType
<1>4. B = A \cup IF x = y THEN {n + 1} ELSE {}
  <2> HIDE DEF w, n
  <2> QED BY <1>1, <1>2
<1>5. n + 1 \notin A
  BY <1>1
<1> HIDE DEF A, B, w, n
<1>6. Cardinality(B) = Cardinality(A) + IF x = y THEN 1 ELSE 0
  <2>1. CASE x = y
    <3>1. B = A \cup {n + 1}
      BY <1>4, <2>1
    <3> QED BY <1>3, <1>5, <2>1, <3>1, FS_AddElement
  <2>2. CASE x # y
    BY <1>3, <1>4, <2>2
  <2> QED BY <2>1, <2>2
<1> QED BY <1>3, <1>6 DEF Times, A, B, w

\* A sequence of one element.
LEMMA TimesOfOne ==
    ASSUME NEW x, NEW y
    PROVE  Times(x, <<y>>) = IF x = y THEN 1 ELSE 0
<1>1. <<>> \in Seq({y}) /\ <<>> \o <<y>> = <<y>>
  OBVIOUS
<1>2. Times(x, <<>> \o <<y>>) = Times(x, <<>>) + IF x = y THEN 1 ELSE 0
  BY <1>1, TimesOfMore
<1> QED BY <1>1, <1>2, TimesOfNone
\* The names list the agents, each once; the framework's own are not among them.
LEMMA NamesList ==
    /\ Len(Names) \in Nat
    /\ \A i \in 1 .. Len(Names) : Names[i] \in Agents
    /\ \A a \in Agents : \E i \in 1 .. Len(Names) : Names[i] = a
    /\ \A i, j \in 1 .. Len(Names) : Names[i] = Names[j] => i = j
    /\ \A a \in Agents : a \in Nodes /\ a # "coordinator" /\ a # "planning_agent"
<1>1. Names \in Seq(Agents) /\ Len(Names) \in Nat /\ DOMAIN Names = 1 .. Len(Names)
  BY NamesAssumption, LenProperties
<1>2. \A i \in 1 .. Len(Names) : Names[i] \in Agents
  BY <1>1, ElementOfSeq
<1>3. \A a \in Agents : \E i \in 1 .. Len(Names) : Names[i] = a
  BY <1>1 DEF Agents, ToSet
<1>4. \A i, j \in 1 .. Len(Names) : Names[i] = Names[j] => i = j
  BY <1>1, NamesAssumption DEF IsInjective
<1>5. \A a \in Agents : a \in Nodes /\ a # "coordinator" /\ a # "planning_agent"
  BY NamesAssumption DEF Nodes
<1> QED BY <1>1, <1>2, <1>3, <1>4, <1>5

\* The agent the planner takes for a capability offers it.
LEMMA ChosenOffers ==
    ASSUME NEW c, Candidates(c) # {}
    PROVE  Chosen(c) \in Candidates(c) /\ Chosen(c) \in Agents
<1> DEFINE I == {i \in DOMAIN Names : Names[i] \in Candidates(c)}
<1>1. DOMAIN Names = 1 .. Len(Names)
  BY NamesAssumption, LenProperties
<1>2. I \subseteq Nat /\ I # {}
  BY <1>1, NamesList DEF Candidates
<1>3. Min(I) \in I
  BY <1>2, LeastOne
<1> QED BY <1>3 DEF Chosen, Candidates

\* What the Coordinator leaves.
LEMMA CoordinatedShape ==
    /\ Coordinated.findings = <<>>
    /\ Coordinated.errors = <<>>
    /\ Coordinated.thoughts \in {<<"coordinator">>, <<"planning_agent", "coordinator">>}
    /\ Coordinated.outputs \in [Nodes -> Outcomes]
    /\ \A a \in Agents : Coordinated.outputs[a] = "none"
    /\ Coordinated.plan \subseteq Agents
    /\ Coordinated.triage <=> Coordinated.plan = {}
    /\ Coordinated.plan = IF evidence \/ required # {} THEN PlanFor(required) ELSE {}
    /\ Coordinated = [findings |-> Coordinated.findings, thoughts |-> Coordinated.thoughts,
                      errors |-> Coordinated.errors, outputs |-> Coordinated.outputs,
                      plan |-> Coordinated.plan, triage |-> Coordinated.triage]
    /\ Coordinated.triage \in BOOLEAN
<1>1. PlanFor(required) \subseteq Agents
  BY ChosenOffers DEF PlanFor
<1>2. \A a \in Agents : a \in Nodes /\ a # "coordinator" /\ a # "planning_agent"
  BY NamesList
<1> DEFINE asked == evidence \/ required # {}
           plan == IF asked THEN PlanFor(required) ELSE {}
           out1 == IF plan = {} THEN "DEGRADED" ELSE "SUCCEEDED"
           out2 == IF asked THEN PlanningStatus(required) ELSE "none"
           seen == IF asked THEN <<"planning_agent", "coordinator">> ELSE <<"coordinator">>
<1>3. out1 \in Status /\ out2 \in Outcomes
  BY DEF Status, Outcomes, PlanningStatus
<1>4. Coordinated = [Empty EXCEPT !.plan = plan, !.triage = plan = {}, !.thoughts = seen,
                       !.outputs["coordinator"] = out1, !.outputs["planning_agent"] = out2]
  <2>1. Empty.outputs["planning_agent"] = "none"
    BY DEF Empty, Nodes
  <2>2. [Empty.outputs EXCEPT !["coordinator"] = out1]["planning_agent"] = "none"
    BY <2>1 DEF Empty, Nodes
  <2> QED BY <2>1, <2>2 DEF Coordinated, Empty
<1> HIDE DEF plan, seen, out1, out2
<1> DEFINE f == [n \in Nodes |-> "none"]
           g == [f EXCEPT !["coordinator"] = out1]
           h == [g EXCEPT !["planning_agent"] = out2]
           empty == plan = {}
<1>5. Coordinated = [findings |-> <<>>, thoughts |-> seen, errors |-> <<>>,
                     outputs |-> h, plan |-> plan, triage |-> empty]
  BY <1>4 DEF Empty
<1>6. /\ h \in [Nodes -> Outcomes]
      /\ \A a \in Agents : h[a] = "none"
  <2>1. f \in [Nodes -> Outcomes] /\ \A a \in Agents : f[a] = "none"
    BY <1>2 DEF Outcomes
  <2> HIDE DEF f
  <2>2. g \in [Nodes -> Outcomes] /\ \A a \in Agents : g[a] = "none"
    BY <1>2, <1>3, <2>1 DEF Outcomes
  <2> HIDE DEF g
  <2> QED BY <1>2, <1>3, <2>2
<1>7. empty \in BOOLEAN /\ (empty <=> plan = {})
  OBVIOUS
<1> HIDE DEF h, empty
<1> QED BY <1>1, <1>5, <1>6, <1>7 DEF plan, seen

\* Each list of an update has at most the agent's own name in it.
LEMMA ListsOf ==
    ASSUME NEW a, NEW outcome \in Outcomes
    PROVE  /\ FindingsOf(a, outcome) \in {<<>>, <<a>>}
           /\ ThoughtsOf(a, outcome) \in {<<>>, <<a>>}
           /\ ErrorsOf(a, outcome) \in {<<>>, <<a>>}
  BY DEF FindingsOf, ThoughtsOf, ErrorsOf

\* Copies and updates have the declared shape.
LEMMA Shapes ==
    /\ Empty \in State /\ Coordinated \in State /\ NoUpdate \in Update
    /\ \A a \in Agents, outcome \in Outcomes :
         Worked(a, outcome) \in State /\ Updates(a, outcome) \in Update
<1>1. Empty \in State
  BY DEF Empty, State, Outcomes
<1>2. <<"coordinator">> \in Seq(Nodes) /\ <<"planning_agent", "coordinator">> \in Seq(Nodes)
  BY DEF Nodes
<1>4. /\ Coordinated.findings \in Seq(Agents)
      /\ Coordinated.thoughts \in Seq(Nodes)
      /\ Coordinated.errors \in Seq(Nodes)
      /\ Coordinated.triage \in BOOLEAN
  <2>1. <<>> \in Seq(Agents) /\ <<>> \in Seq(Nodes)
    OBVIOUS
  <2> QED BY <1>2, <2>1, CoordinatedShape
<1>5. Coordinated \in State
  <2> DEFINE x == Coordinated
  <2>1. /\ x.outputs \in [Nodes -> Status \cup {"none"}] /\ x.plan \in SUBSET Agents
        /\ x = [findings |-> x.findings, thoughts |-> x.thoughts, errors |-> x.errors,
                outputs |-> x.outputs, plan |-> x.plan, triage |-> x.triage]
        /\ x.triage \in BOOLEAN
    BY CoordinatedShape DEF Outcomes
  <2>2. x.findings \in Seq(Agents) /\ x.thoughts \in Seq(Nodes) /\ x.errors \in Seq(Nodes)
    BY <1>4
  <2> HIDE DEF x
  <2>3. x \in State
    BY <2>1, <2>2 DEF State
  <2> QED BY <2>3 DEF x
<1>6. NoUpdate \in Update
  <2>1. <<>> \in [{} -> Status] /\ {} \in SUBSET Nodes
    OBVIOUS
  <2>2. <<>> \in UNION {[N -> Status] : N \in SUBSET Nodes}
    BY <2>1
  <2>3. <<>> \in Seq(Agents) /\ <<>> \in Seq(Nodes)
    OBVIOUS
  <2> QED BY <2>2, <2>3 DEF NoUpdate, Update
<1>7. ASSUME NEW a \in Agents, NEW outcome \in Outcomes
      PROVE  Worked(a, outcome) \in State /\ Updates(a, outcome) \in Update
  <2>1. a \in Nodes
    BY NamesList
  <2>2. /\ FindingsOf(a, outcome) \in Seq(Agents)
        /\ ThoughtsOf(a, outcome) \in Seq(Nodes)
        /\ ErrorsOf(a, outcome) \in Seq(Nodes)
    <3>1. <<>> \in Seq(Agents) /\ <<a>> \in Seq(Agents)
      OBVIOUS
    <3>2. <<>> \in Seq(Nodes) /\ <<a>> \in Seq(Nodes)
      BY <2>1
    <3> QED BY <3>1, <3>2, ListsOf
  <2>3. /\ Coordinated.findings \o FindingsOf(a, outcome) \in Seq(Agents)
        /\ Coordinated.thoughts \o ThoughtsOf(a, outcome) \in Seq(Nodes)
        /\ Coordinated.errors \o ErrorsOf(a, outcome) \in Seq(Nodes)
    BY <1>4, <2>2, ConcatProperties
  <2>4. [Coordinated.outputs EXCEPT ![a] = outcome] \in [Nodes -> Status \cup {"none"}]
    BY CoordinatedShape DEF Outcomes
  <2>5. Worked(a, outcome) \in State
    BY <1>4, <2>3, <2>4, CoordinatedShape DEF Worked, State, Flags
  <2> DEFINE N == IF outcome = "none" THEN {} ELSE {a}
  <2>6. [n \in N |-> outcome] \in [N -> Status] /\ N \in SUBSET Nodes
    BY <2>1 DEF Outcomes
  <2>7. [n \in N |-> outcome] \in UNION {[M -> Status] : M \in SUBSET Nodes}
    BY <2>6
  <2>8. Updates(a, outcome) \in Update
    BY <2>2, <2>7 DEF Updates, Update, Flags
  <2> QED BY <2>5, <2>8
<1> QED BY <1>1, <1>5, <1>6, <1>7

\* The update is what the agent did to its copy.
LEMMA CutOut ==
    ASSUME NEW a \in Agents, NEW outcome \in Outcomes, ~Coordinated.triage
    PROVE  Diff(Coordinated, Worked(a, outcome)) = Updates(a, outcome)
<1> DEFINE s == Coordinated
           w == Worked(a, outcome)
           u == Updates(a, outcome)
<1>1. /\ w.findings = s.findings \o u.findings
      /\ w.thoughts = s.thoughts \o u.thoughts
      /\ w.errors = s.errors \o u.errors
      /\ w.outputs = [s.outputs EXCEPT ![a] = outcome]
      /\ w.triage = (s.triage \/ u.triage)
  BY DEF Worked, Updates
<1>2. /\ s.findings \in Seq(Agents) /\ s.thoughts \in Seq(Nodes) /\ s.errors \in Seq(Nodes)
      /\ s.outputs \in [Nodes -> Outcomes] /\ s.outputs[a] = "none" /\ a \in Nodes
  BY Shapes, CoordinatedShape, NamesList DEF State
<1>3. /\ u.findings \in Seq(Agents) /\ u.thoughts \in Seq(Nodes) /\ u.errors \in Seq(Nodes)
      /\ u.triage \in BOOLEAN
  <2>1. u \in Update
    BY Shapes
  <2> HIDE DEF u
  <2> QED BY <2>1 DEF Update
<1>4. u = [findings |-> u.findings, thoughts |-> u.thoughts, errors |-> u.errors,
           outputs |-> u.outputs, triage |-> u.triage]
  BY DEF Updates
<1>5. u.outputs = [n \in IF outcome = "none" THEN {} ELSE {a} |-> outcome]
  BY DEF Updates
<1> HIDE DEF s, w, u
<1>6. /\ Added(s.findings, w.findings) = u.findings
      /\ Added(s.thoughts, w.thoughts) = u.thoughts
      /\ Added(s.errors, w.errors) = u.errors
  BY <1>1, <1>2, <1>3, AddedBack
<1>7. {m \in Nodes : w.outputs[m] # s.outputs[m]} = IF outcome = "none" THEN {} ELSE {a}
  BY <1>1, <1>2
<1>8. [n \in {m \in Nodes : w.outputs[m] # s.outputs[m]} |-> w.outputs[n]] = u.outputs
  BY <1>1, <1>2, <1>5, <1>7
<1>9. (w.triage # s.triage) = u.triage
  <2>1. s.triage = FALSE
    <3>1. Coordinated.triage \in BOOLEAN
      BY Shapes DEF State
    <3> QED BY <3>1 DEF s
  <2> QED BY <1>1, <1>3, <2>1
<1>10. Diff(s, w) = u
  BY <1>4, <1>6, <1>8, <1>9 DEF Diff
<1> QED BY <1>10 DEF s, w, u

\* Adding at most the name of b changes the count of b only.
LEMMA TimesOfAdded ==
    ASSUME NEW S, NEW s \in Seq(S), NEW b \in S, NEW t, t = <<>> \/ t = <<b>>
    PROVE  /\ \A x : Times(x, s \o t) = Times(x, s) + Times(x, t)
           /\ \A x : x # b => Times(x, s \o t) = Times(x, s)
           /\ Times(b, t) \in Nat
<1>1. \A x : Times(x, s) \in Nat
  BY TimesOfMore
<1>2. CASE t = <<>>
  <2>1. s \o t = s
    BY <1>2
  <2> QED BY <1>1, <1>2, <2>1, TimesOfNone
<1>3. CASE t = <<b>>
  <2>1. \A x : /\ Times(x, s \o <<b>>) = Times(x, s) + IF x = b THEN 1 ELSE 0
               /\ Times(x, <<b>>) = IF x = b THEN 1 ELSE 0
    BY TimesOfMore, TimesOfOne
  <2> QED BY <1>1, <1>3, <2>1
<1> QED BY <1>2, <1>3
-----------------------------------------------------------------------------
(* The steps. *)

Places == {"idle", "scheduled", "calling", "backoff", "returned", "escaped", "aborting", "done"}
Count == [invocations : 0 .. 1, successes : 0 .. 1, failures : 0 .. 1]

\* What the run was started with stays, and so what the proofs derive from it.
LEMMA SameInput ==
    ASSUME UNCHANGED input
    PROVE  /\ evidence' = evidence /\ required' = required /\ policy' = policy
           /\ Coordinated' = Coordinated
           /\ \A a, outcome : /\ Worked(a, outcome)' = Worked(a, outcome)
                              /\ Updates(a, outcome)' = Updates(a, outcome)
<1>1. evidence' = evidence /\ required' = required /\ policy' = policy
  BY DEF input
<1>2. Coordinated' = Coordinated
  BY <1>1 DEF Coordinated
<1> QED BY <1>1, <1>2 DEF Worked, Updates, Flags

\* A step of one node, whose own part of the invariant holds after it.
LEMMA NodeStepKeeps ==
    ASSUME WInv, NEW a \in Agents, phase = "superstep", pc[a] \notin {"idle", "done"},
           NEW place \in Places \ {"idle"}, Goto(a, place),
           UNCHANGED <<input, phase, shared, merged>>,
           working' = [working EXCEPT ![a] = working'[a]], working'[a] \in State,
           attempts' = [attempts EXCEPT ![a] = attempts'[a]],
           attempts'[a] \in 0 .. policy.attempts,
           update' = [update EXCEPT ![a] = update'[a]], update'[a] \in Update,
           metrics' = [metrics EXCEPT ![a] = metrics'[a]], metrics'[a] \in Count,
           NodeInv(a)'
    PROVE  WInv'
<1>1. /\ policy' = policy /\ required' = required /\ evidence' = evidence
      /\ Coordinated' = Coordinated
      /\ \A b, outcome : /\ Worked(b, outcome)' = Worked(b, outcome)
                         /\ Updates(b, outcome)' = Updates(b, outcome)
  BY SameInput
<1>2. TypeOK
  BY DEF WInv
<1>3. TypeOK'
  BY <1>1, <1>2 DEF TypeOK, Places, Count, Goto
<1>4. \A b \in Agents \ {a} :
        /\ pc'[b] = pc[b] /\ working'[b] = working[b] /\ attempts'[b] = attempts[b]
        /\ update'[b] = update[b] /\ metrics'[b] = metrics[b]
  BY <1>2 DEF TypeOK, Goto
<1>5. ASSUME NEW b \in Agents PROVE NodeInv(b)'
  <2>1. CASE b # a
    <3>1. NodeInv(b)
      BY DEF WInv
    <3>2. /\ pc'[b] = pc[b] /\ working'[b] = working[b] /\ attempts'[b] = attempts[b]
          /\ update'[b] = update[b] /\ metrics'[b] = metrics[b]
      BY <1>4, <2>1
    <3> QED BY <1>1, <3>1, <3>2 DEF NodeInv, Counted
  <2>2. CASE b = a
    BY <2>2
  <2> QED BY <2>1, <2>2
<1>6. merged = 0 /\ a \in Coordinated.plan /\ pc'[a] = place
  <2>1. PhaseInv
    BY DEF WInv
  <2> QED BY <1>2, <2>1 DEF PhaseInv, TypeOK, Goto
<1>7. PhaseInv'
  <2>1. PhaseInv
    BY DEF WInv
  <2> QED BY <1>1, <1>4, <1>6, <2>1 DEF PhaseInv
<1>8. MergeInv'
  <2>1. MergeInv
    BY DEF WInv
  <2> QED BY <1>1, <1>6, <2>1 DEF MergeInv, Contributed
<1> QED BY <1>3, <1>5, <1>7, <1>8 DEF WInv

\* What the invariant says of a node that is in the superstep.
LEMMA AtNode ==
    ASSUME WInv, NEW a \in Agents, phase = "superstep", pc[a] # "idle"
    PROVE  /\ TypeOK /\ NodeInv(a) /\ a \in Nodes
           /\ shared = Coordinated \/ pc[a] = "done"
           /\ ~Coordinated.triage
           /\ policy.attempts \in Nat \ {0}
           /\ metrics[a] \in Count /\ working[a] \in State /\ update[a] \in Update
           /\ attempts[a] \in 0 .. policy.attempts
<1>1. TypeOK /\ NodeInv(a) /\ PhaseInv
  BY DEF WInv
<1>2. a \in Nodes
  BY NamesList
<1>3. policy.attempts \in Nat \ {0}
  BY <1>1, PoliciesAssumption DEF TypeOK
<1>4. shared = Coordinated \/ pc[a] = "done"
  BY <1>1 DEF PhaseInv, TypeOK
<1>5. ~Coordinated.triage
  BY <1>1 DEF PhaseInv
<1>6. metrics[a] \in Count /\ working[a] \in State /\ update[a] \in Update
      /\ attempts[a] \in 0 .. policy.attempts
  BY <1>1 DEF TypeOK, Count
<1> QED BY <1>1, <1>2, <1>3, <1>4, <1>5, <1>6

\* A node starts with a copy of the shared state.
LEMMA StartKeeps == ASSUME WInv, NEW a \in Agents, Start(a) PROVE WInv'
<1>1. phase = "superstep" /\ pc[a] = "scheduled" /\ Goto(a, "calling")
  BY DEF Start, At
<1>2. /\ TypeOK /\ NodeInv(a) /\ shared = Coordinated /\ policy.attempts \in Nat \ {0}
  BY <1>1, AtNode
<1>3. /\ working[a] = Empty /\ update[a] = NoUpdate
      /\ attempts[a] = 0 /\ Counted(a, 0, 0, 0)
  BY <1>1, <1>2 DEF NodeInv
<1>4. /\ working'[a] = Coordinated /\ working' = [working EXCEPT ![a] = working'[a]]
      /\ update' = update /\ attempts' = attempts
      /\ metrics' = [metrics EXCEPT ![a] = metrics'[a]]
      /\ metrics'[a] = [invocations |-> 1, successes |-> 0, failures |-> 0]
      /\ UNCHANGED <<input, phase, shared, merged>>
      /\ pc'[a] = "calling"
  BY <1>1, <1>2, <1>3 DEF Start, Private, TypeOK, Goto, Counted
<1>5. /\ working'[a] \in State /\ metrics'[a] \in Count /\ update'[a] \in Update
      /\ attempts'[a] \in 0 .. policy.attempts
      /\ update' = [update EXCEPT ![a] = update'[a]]
      /\ attempts' = [attempts EXCEPT ![a] = attempts'[a]]
  BY <1>2, <1>3, <1>4, Shapes DEF Count, TypeOK
<1>6. NodeInv(a)'
  <2>1. Coordinated' = Coordinated /\ policy' = policy
    BY <1>4, SameInput
  <2> QED BY <1>2, <1>3, <1>4, <2>1 DEF NodeInv, Counted
<1> QED BY <1>1, <1>4, <1>5, <1>6, NodeStepKeeps DEF Places

\* A record of a state with four fields set, one after the other.
LEMMA FourFields ==
    ASSUME NEW c, NEW f, NEW t, NEW e, NEW o, NEW p, NEW g, NEW x, NEW y, NEW z, NEW u,
           c = [findings |-> f, thoughts |-> t, errors |-> e, outputs |-> o, plan |-> p,
                triage |-> g]
    PROVE  [c EXCEPT !.findings = x, !.thoughts = y, !.outputs = u, !.errors = z] =
             [findings |-> x, thoughts |-> y, errors |-> z, outputs |-> u, plan |-> p,
              triage |-> g]
<1> DEFINE c1 == [c EXCEPT !.findings = x]
           c2 == [c1 EXCEPT !.thoughts = y]
           c3 == [c2 EXCEPT !.outputs = u]
<1>1. c1 = [findings |-> x, thoughts |-> t, errors |-> e, outputs |-> o, plan |-> p, triage |-> g]
  OBVIOUS
<1> HIDE DEF c1
<1>2. c2 = [findings |-> x, thoughts |-> y, errors |-> e, outputs |-> o, plan |-> p, triage |-> g]
  BY <1>1
<1> HIDE DEF c2
<1>3. c3 = [findings |-> x, thoughts |-> y, errors |-> e, outputs |-> u, plan |-> p, triage |-> g]
  BY <1>2
<1> HIDE DEF c3
<1>4. [c3 EXCEPT !.errors = z] =
        [findings |-> x, thoughts |-> y, errors |-> z, outputs |-> u, plan |-> p, triage |-> g]
  BY <1>3
<1>5. [c EXCEPT !.findings = x, !.thoughts = y, !.outputs = u, !.errors = z] =
        [c3 EXCEPT !.errors = z]
  BY DEF c3, c2, c1
<1> QED BY <1>4, <1>5

\* What a report leaves in the copy is what Worked says.
LEMMA ReportIsWork ==
    ASSUME NEW a \in Agents, NEW st \in Status
    PROVE  Reported(Coordinated, a, st, FindingsOf(a, st), ErrorsOf(a, st)) = Worked(a, st)
<1>1. st \in Outcomes /\ st # "none" /\ a \in Nodes
  BY NamesList DEF Outcomes, Status
<1>2. Append(Coordinated.thoughts, a) = Coordinated.thoughts \o ThoughtsOf(a, st)
  <2>1. Coordinated.thoughts \in Seq(Nodes)
    BY Shapes DEF State
  <2> QED BY <1>1, <2>1, AppendIsConcat DEF ThoughtsOf
<1>3. ~Flags(st) /\ Coordinated.triage \in BOOLEAN
  BY <1>1, CoordinatedShape DEF Flags
<1>4. Coordinated.triage = (Coordinated.triage \/ Flags(st))
  BY <1>3
<1> DEFINE F == FindingsOf(a, st)
           T == ThoughtsOf(a, st)
           E == ErrorsOf(a, st)
           c == Coordinated
<1>5. c = [findings |-> c.findings, thoughts |-> c.thoughts, errors |-> c.errors,
           outputs |-> c.outputs, plan |-> c.plan, triage |-> c.triage]
  BY CoordinatedShape
<1>6. Append(c.thoughts, a) = c.thoughts \o T /\ c.triage = (c.triage \/ Flags(st))
  BY <1>2, <1>4
<1>7. Worked(a, st) = [findings |-> c.findings \o F, thoughts |-> c.thoughts \o T,
                       errors |-> c.errors \o E, outputs |-> [c.outputs EXCEPT ![a] = st],
                       plan |-> c.plan, triage |-> c.triage \/ Flags(st)]
  BY DEF Worked
<1> HIDE DEF F, T, E, c
<1>8. Reported(c, a, st, F, E) =
        [findings |-> c.findings \o F, thoughts |-> Append(c.thoughts, a),
         errors |-> c.errors \o E, outputs |-> [c.outputs EXCEPT ![a] = st],
         plan |-> c.plan, triage |-> c.triage]
  <2> DEFINE x == c.findings \o F
             y == Append(c.thoughts, a)
             z == c.errors \o E
             u == [c.outputs EXCEPT ![a] = st]
  <2>1. Reported(c, a, st, F, E) =
          [c EXCEPT !.findings = x, !.thoughts = y, !.outputs = u, !.errors = z]
    BY Zenon DEF Reported
  <2> HIDE DEF x, y, z, u
  <2>2. Reported(c, a, st, F, E) =
          [findings |-> x, thoughts |-> y, errors |-> z, outputs |-> u, plan |-> c.plan,
           triage |-> c.triage]
    BY <1>5, <2>1, FourFields
  <2> QED BY <2>2 DEF x, y, z, u
<1>9. Reported(c, a, st, F, E) = Worked(a, st)
  BY <1>6, <1>7, <1>8
<1> QED BY <1>9 DEF F, E, c

\* A report.
LEMMA ReportKeeps ==
    ASSUME WInv, NEW a \in Agents, NEW st \in Status,
           Report(a, st, FindingsOf(a, st), ErrorsOf(a, st))
    PROVE  WInv'
<1>1. phase = "superstep" /\ pc[a] = "calling" /\ Goto(a, "returned")
  BY DEF Report, At
<1>2. TypeOK /\ NodeInv(a) /\ policy.attempts \in Nat \ {0} /\ a \in Nodes
  BY <1>1, AtNode
<1>3. /\ working[a] = Coordinated /\ update[a] = NoUpdate
      /\ attempts[a] < policy.attempts /\ Counted(a, 1, 0, 0)
  BY <1>1, <1>2 DEF NodeInv
<1>4. st \in Outcomes /\ st # "none"
  BY DEF Outcomes, Status
<1>5. working'[a] = Worked(a, st)
  <2>1. working'[a] = Reported(Coordinated, a, st, FindingsOf(a, st), ErrorsOf(a, st))
    BY <1>2, <1>3 DEF Report, TypeOK
  <2> QED BY <2>1, ReportIsWork
<1>6. /\ working' = [working EXCEPT ![a] = working'[a]]
      /\ update' = update /\ metrics' = metrics
      /\ attempts' = [attempts EXCEPT ![a] = attempts'[a]]
      /\ attempts'[a] = attempts[a] + 1
      /\ UNCHANGED <<input, phase, shared, merged>>
      /\ pc'[a] = "returned"
  <2>2. working' = [working EXCEPT ![a] = working'[a]]
    <3> DEFINE r == Reported(working[a], a, st, FindingsOf(a, st), ErrorsOf(a, st))
    <3>1. working' = [working EXCEPT ![a] = r]
      BY DEF Report
    <3> HIDE DEF r
    <3> QED BY <1>2, <3>1 DEF TypeOK
  <2>3. /\ attempts' = [attempts EXCEPT ![a] = attempts[a] + 1] /\ attempts'[a] = attempts[a] + 1
        /\ UNCHANGED <<input, phase, shared, merged, update, metrics>>
    BY <1>2 DEF Report, TypeOK
  <2>4. pc'[a] = "returned"
    BY <1>1, <1>2 DEF TypeOK, Goto
  <2> QED BY <2>2, <2>3, <2>4
<1>7. /\ working'[a] \in State /\ metrics'[a] \in Count /\ update'[a] \in Update
      /\ attempts'[a] \in 0 .. policy.attempts
      /\ update' = [update EXCEPT ![a] = update'[a]]
      /\ metrics' = [metrics EXCEPT ![a] = metrics'[a]]
  BY <1>2, <1>3, <1>4, <1>5, <1>6, Shapes DEF Count, TypeOK
<1>8. NodeInv(a)'
  <2>1. Worked(a, st)' = Worked(a, st)
    BY <1>6, SameInput
  <2>2. Counted(a, 1, 0, 0)'
    BY <1>3, <1>6 DEF Counted
  <2>3. \E s \in Status : working'[a] = Worked(a, s)'
    BY <1>5, <2>1
  <2> QED BY <1>3, <1>6, <2>2, <2>3 DEF NodeInv
<1> QED BY <1>1, <1>6, <1>7, <1>8, NodeStepKeeps DEF Places

\* A raise is retried only while the policy allows another call.
LEMMA RaiseKeeps == ASSUME WInv, NEW a \in Agents, Raise(a) PROVE WInv'
<1> DEFINE place == IF "agent" \in policy.retryable /\ attempts[a] + 1 < policy.attempts
                    THEN "backoff" ELSE "escaped"
<1>1. phase = "superstep" /\ pc[a] = "calling" /\ Goto(a, place)
  BY DEF Raise, At
<1>2. TypeOK /\ NodeInv(a) /\ policy.attempts \in Nat \ {0} /\ working[a] \in State
      /\ update[a] \in Update /\ metrics[a] \in Count
  BY <1>1, AtNode
<1>3. /\ working[a] = Coordinated /\ update[a] = NoUpdate
      /\ attempts[a] < policy.attempts /\ Counted(a, 1, 0, 0)
  BY <1>1, <1>2 DEF NodeInv
<1>4. /\ working' = working /\ update' = update /\ metrics' = metrics
      /\ attempts' = [attempts EXCEPT ![a] = attempts'[a]]
      /\ attempts'[a] = attempts[a] + 1
      /\ UNCHANGED <<input, phase, shared, merged>>
      /\ pc'[a] = place
  BY <1>1, <1>2 DEF Raise, TypeOK, Goto
<1>5. /\ working'[a] \in State /\ metrics'[a] \in Count /\ update'[a] \in Update
      /\ attempts'[a] \in 0 .. policy.attempts
      /\ working' = [working EXCEPT ![a] = working'[a]]
      /\ update' = [update EXCEPT ![a] = update'[a]]
      /\ metrics' = [metrics EXCEPT ![a] = metrics'[a]]
  BY <1>2, <1>3, <1>4 DEF TypeOK
<1>6. NodeInv(a)'
  <2>1. Coordinated' = Coordinated /\ policy' = policy
    BY <1>4, SameInput
  <2> QED BY <1>2, <1>3, <1>4, <2>1 DEF NodeInv, Counted
<1>7. place \in Places \ {"idle"}
  BY DEF Places
<1> HIDE DEF place
<1> QED BY <1>1, <1>4, <1>5, <1>6, <1>7, NodeStepKeeps

\* The next attempt.
LEMMA RetryKeeps == ASSUME WInv, NEW a \in Agents, Retry(a) PROVE WInv'
<1>1. phase = "superstep" /\ pc[a] = "backoff" /\ Goto(a, "calling")
  BY DEF Retry, At
<1>2. TypeOK /\ NodeInv(a) /\ working[a] \in State /\ update[a] \in Update
      /\ metrics[a] \in Count /\ attempts[a] \in 0 .. policy.attempts
  BY <1>1, AtNode
<1>3. /\ UNCHANGED <<input, phase, shared, merged, working, attempts, update, metrics>>
      /\ pc'[a] = "calling"
  BY <1>1, <1>2 DEF Retry, TypeOK, Goto
<1>4. /\ working' = [working EXCEPT ![a] = working'[a]]
      /\ attempts' = [attempts EXCEPT ![a] = attempts'[a]]
      /\ update' = [update EXCEPT ![a] = update'[a]]
      /\ metrics' = [metrics EXCEPT ![a] = metrics'[a]]
  BY <1>2, <1>3 DEF TypeOK
<1>5. NodeInv(a)'
  <2>1. Coordinated' = Coordinated /\ policy' = policy
    BY <1>3, SameInput
  <2> QED BY <1>1, <1>2, <1>3, <2>1 DEF NodeInv, Counted
<1> QED BY <1>1, <1>2, <1>3, <1>4, <1>5, NodeStepKeeps DEF Places

\* A record of a state with two fields set.
LEMMA TwoFields ==
    ASSUME NEW c, NEW f, NEW t, NEW e, NEW o, NEW p, NEW g, NEW z, NEW u,
           c = [findings |-> f, thoughts |-> t, errors |-> e, outputs |-> o, plan |-> p,
                triage |-> g]
    PROVE  [c EXCEPT !.errors = z, !.triage = u] =
             [findings |-> f, thoughts |-> t, errors |-> z, outputs |-> o, plan |-> p,
              triage |-> u]
<1> DEFINE c1 == [c EXCEPT !.errors = z]
<1>1. c1 = [findings |-> f, thoughts |-> t, errors |-> z, outputs |-> o, plan |-> p, triage |-> g]
  OBVIOUS
<1> HIDE DEF c1
<1>2. [c1 EXCEPT !.triage = u] =
        [findings |-> f, thoughts |-> t, errors |-> z, outputs |-> o, plan |-> p, triage |-> u]
  BY <1>1
<1>3. [c EXCEPT !.errors = z, !.triage = u] = [c1 EXCEPT !.triage = u]
  BY DEF c1
<1> QED BY <1>2, <1>3

\* What recover() leaves in the copy.
LEMMA RecoveryIsWork ==
    ASSUME NEW a \in Agents
    PROVE  Recovered(Coordinated, a) = Worked(a, "none")
<1> DEFINE c == Coordinated
           z == Append(c.errors, a)
<1>0. PICK g : g = (c.triage \/ policy.action = "MANUAL_TRIAGE")
  OBVIOUS
<1>1. /\ c.findings \in Seq(Agents) /\ c.thoughts \in Seq(Nodes) /\ c.errors \in Seq(Nodes)
      /\ c.outputs \in [Nodes -> Outcomes] /\ c.outputs[a] = "none" /\ a \in Nodes
  BY Shapes, CoordinatedShape, NamesList DEF State
<1>2. /\ c.findings \o FindingsOf(a, "none") = c.findings
      /\ c.thoughts \o ThoughtsOf(a, "none") = c.thoughts
      /\ z = c.errors \o ErrorsOf(a, "none")
      /\ [c.outputs EXCEPT ![a] = "none"] = c.outputs
  <2>1. FindingsOf(a, "none") = <<>> /\ ThoughtsOf(a, "none") = <<>> /\ ErrorsOf(a, "none") = <<a>>
    BY DEF FindingsOf, ThoughtsOf, ErrorsOf
  <2>2. c.findings \o <<>> = c.findings /\ c.thoughts \o <<>> = c.thoughts
    BY <1>1, ConcatEmptySeq
  <2>3. z = c.errors \o <<a>>
    BY <1>1, AppendIsConcat
  <2>4. [c.outputs EXCEPT ![a] = "none"] = c.outputs
    BY <1>1
  <2> QED BY <2>1, <2>2, <2>3, <2>4
<1>3. g = (c.triage \/ Flags("none"))
  BY <1>0 DEF Flags
<1>4. c = [findings |-> c.findings, thoughts |-> c.thoughts, errors |-> c.errors,
           outputs |-> c.outputs, plan |-> c.plan, triage |-> c.triage]
  BY CoordinatedShape
<1>5. Worked(a, "none") =
        [findings |-> c.findings \o FindingsOf(a, "none"),
         thoughts |-> c.thoughts \o ThoughtsOf(a, "none"),
         errors |-> c.errors \o ErrorsOf(a, "none"),
         outputs |-> [c.outputs EXCEPT ![a] = "none"],
         plan |-> c.plan, triage |-> c.triage \/ Flags("none")]
  BY DEF Worked
<1>6. Recovered(c, a) = [c EXCEPT !.errors = z, !.triage = g]
  BY <1>0, Zenon DEF Recovered
<1> HIDE DEF c, z
<1>7. Recovered(c, a) =
        [findings |-> c.findings, thoughts |-> c.thoughts, errors |-> z,
         outputs |-> c.outputs, plan |-> c.plan, triage |-> g]
  BY <1>4, <1>6, TwoFields
<1>8. Recovered(c, a) = Worked(a, "none")
  BY <1>2, <1>3, <1>5, <1>7
<1> QED BY <1>8 DEF c

\* The update of a node that has reported.
LEMMA CompleteKeeps == ASSUME WInv, NEW a \in Agents, Complete(a) PROVE WInv'
<1>1. phase = "superstep" /\ pc[a] = "returned" /\ Goto(a, "done")
  BY DEF Complete, At
<1>2. /\ TypeOK /\ NodeInv(a) /\ shared = Coordinated /\ ~Coordinated.triage
      /\ working[a] \in State /\ attempts[a] \in 0 .. policy.attempts
  BY <1>1, AtNode
<1>3. Counted(a, 1, 0, 0)
  BY <1>1, <1>2 DEF NodeInv
<1>4. PICK st \in Status : working[a] = Worked(a, st)
  BY <1>1, <1>2 DEF NodeInv
<1>5. st \in Outcomes /\ st # "none"
  BY DEF Outcomes, Status
<1>6. Diff(shared, working[a]) = Updates(a, st)
  BY <1>2, <1>4, <1>5, CutOut
<1>7. /\ update' = [update EXCEPT ![a] = Updates(a, st)]
      /\ metrics' = [metrics EXCEPT ![a].successes = @ + 1]
      /\ UNCHANGED <<input, phase, shared, merged, working, attempts>>
  BY <1>6 DEF Complete
<1>8. /\ update'[a] = Updates(a, st) /\ update' = [update EXCEPT ![a] = update'[a]]
      /\ metrics' = [metrics EXCEPT ![a] = metrics'[a]]
      /\ metrics'[a] = [invocations |-> 1, successes |-> 1, failures |-> 0]
      /\ pc'[a] = "done"
  BY <1>1, <1>2, <1>3, <1>7 DEF TypeOK, Goto, Counted
<1>9. /\ working' = [working EXCEPT ![a] = working'[a]]
      /\ attempts' = [attempts EXCEPT ![a] = attempts'[a]]
      /\ working'[a] \in State /\ attempts'[a] \in 0 .. policy.attempts
      /\ update'[a] \in Update /\ metrics'[a] \in Count
  BY <1>2, <1>5, <1>7, <1>8, Shapes DEF TypeOK, Count
<1>10. NodeInv(a)'
  <2>1. Worked(a, st)' = Worked(a, st) /\ Updates(a, st)' = Updates(a, st)
    BY <1>7, SameInput
  <2>2. /\ working'[a] = Worked(a, st)' /\ update'[a] = Updates(a, st)'
        /\ Counted(a, 1, 1, 0)'
    BY <1>4, <1>7, <1>8, <2>1 DEF Counted
  <2> QED BY <1>5, <1>8, <2>2 DEF NodeInv
<1> QED BY <1>1, <1>7, <1>8, <1>9, <1>10, NodeStepKeeps DEF Places

\* The update of a node whose exception the engine recovered from.
LEMMA RecoverKeeps == ASSUME WInv, NEW a \in Agents, Recover(a) PROVE WInv'
<1>1. phase = "superstep" /\ pc[a] = "escaped" /\ Goto(a, "done")
  BY DEF Recover, At
<1>2. /\ TypeOK /\ NodeInv(a) /\ shared = Coordinated /\ ~Coordinated.triage
      /\ attempts[a] \in 0 .. policy.attempts
  BY <1>1, AtNode
<1>3. Counted(a, 1, 0, 0) /\ working[a] = Coordinated
  BY <1>1, <1>2 DEF NodeInv
<1>4. "none" \in Outcomes
  BY DEF Outcomes
<1>5. Recovered(working[a], a) = Worked(a, "none")
  BY <1>3, RecoveryIsWork
<1>6. Diff(shared, Recovered(working[a], a)) = Updates(a, "none")
  BY <1>2, <1>4, <1>5, CutOut
<1>7. /\ update' = [update EXCEPT ![a] = Updates(a, "none")]
      /\ working' = [working EXCEPT ![a] = Worked(a, "none")]
      /\ metrics' = [metrics EXCEPT ![a].failures = @ + 1]
      /\ UNCHANGED <<input, phase, shared, merged, attempts>>
  BY <1>5, <1>6 DEF Recover
<1>8. /\ update'[a] = Updates(a, "none") /\ update' = [update EXCEPT ![a] = update'[a]]
      /\ working'[a] = Worked(a, "none") /\ working' = [working EXCEPT ![a] = working'[a]]
      /\ metrics' = [metrics EXCEPT ![a] = metrics'[a]]
      /\ metrics'[a] = [invocations |-> 1, successes |-> 0, failures |-> 1]
      /\ pc'[a] = "done"
  BY <1>1, <1>2, <1>3, <1>7 DEF TypeOK, Goto, Counted
<1>9. /\ attempts' = [attempts EXCEPT ![a] = attempts'[a]]
      /\ working'[a] \in State /\ attempts'[a] \in 0 .. policy.attempts
      /\ update'[a] \in Update /\ metrics'[a] \in Count
  BY <1>2, <1>4, <1>7, <1>8, Shapes DEF TypeOK, Count
<1>10. NodeInv(a)'
  <2>1. Worked(a, "none")' = Worked(a, "none") /\ Updates(a, "none")' = Updates(a, "none")
    BY <1>7, SameInput
  <2>2. /\ working'[a] = Worked(a, "none")' /\ update'[a] = Updates(a, "none")'
        /\ Counted(a, 1, 0, 1)'
    BY <1>7, <1>8, <2>1 DEF Counted
  <2> QED BY <1>4, <1>8, <2>2 DEF NodeInv
<1> QED BY <1>1, <1>7, <1>8, <1>9, <1>10, NodeStepKeeps DEF Places

\* An exception that leaves the node.
LEMMA RaiseAgainKeeps == ASSUME WInv, NEW a \in Agents, RaiseAgain(a) PROVE WInv'
<1>1. phase = "superstep" /\ pc[a] = "escaped" /\ Goto(a, "aborting")
  BY DEF RaiseAgain, At
<1>2. /\ TypeOK /\ NodeInv(a) /\ working[a] \in State /\ update[a] \in Update
      /\ attempts[a] \in 0 .. policy.attempts
  BY <1>1, AtNode
<1>3. Counted(a, 1, 0, 0) /\ working[a] = Coordinated /\ update[a] = NoUpdate
  BY <1>1, <1>2 DEF NodeInv
<1>4. /\ working' = working /\ update' = update /\ attempts' = attempts
      /\ metrics' = [metrics EXCEPT ![a] = metrics'[a]]
      /\ metrics'[a] = [invocations |-> 1, successes |-> 0, failures |-> 1]
      /\ UNCHANGED <<input, phase, shared, merged>>
      /\ pc'[a] = "aborting"
  BY <1>1, <1>2, <1>3 DEF RaiseAgain, TypeOK, Goto, Counted
<1>5. /\ working' = [working EXCEPT ![a] = working'[a]]
      /\ update' = [update EXCEPT ![a] = update'[a]]
      /\ attempts' = [attempts EXCEPT ![a] = attempts'[a]]
      /\ working'[a] \in State /\ attempts'[a] \in 0 .. policy.attempts
      /\ update'[a] \in Update /\ metrics'[a] \in Count
  BY <1>2, <1>4 DEF TypeOK, Count
<1>6. NodeInv(a)'
  <2>1. Coordinated' = Coordinated
    BY <1>4, SameInput
  <2> QED BY <1>3, <1>4, <2>1 DEF NodeInv, Counted
<1> QED BY <1>1, <1>4, <1>5, <1>6, NodeStepKeeps DEF Places

\* A step of one node keeps the invariant.
LEMMA NodeStepsKeep == ASSUME WInv, NEW a \in Agents, NodeStep(a) PROVE WInv'
<1>1. ASSUME NEW st \in Status, Report(a, st, FindingsOf(a, st), ErrorsOf(a, st)) PROVE WInv'
  BY <1>1, ReportKeeps
<1>2. CASE Succeed(a)
  <2>1. "SUCCEEDED" \in Status /\ FindingsOf(a, "SUCCEEDED") = <<a>> /\ ErrorsOf(a, "SUCCEEDED") = <<>>
    BY DEF Status, FindingsOf, ErrorsOf
  <2> QED BY <1>1, <1>2, <2>1 DEF Succeed
<1>3. CASE Degrade(a)
  <2>1. "DEGRADED" \in Status /\ FindingsOf(a, "DEGRADED") = <<>> /\ ErrorsOf(a, "DEGRADED") = <<>>
    BY DEF Status, FindingsOf, ErrorsOf
  <2> QED BY <1>1, <1>3, <2>1 DEF Degrade
<1>4. CASE FailSafely(a)
  <2>1. "FAILED" \in Status /\ FindingsOf(a, "FAILED") = <<>> /\ ErrorsOf(a, "FAILED") = <<a>>
    BY DEF Status, FindingsOf, ErrorsOf
  <2> QED BY <1>1, <1>4, <2>1 DEF FailSafely
<1> QED
  BY <1>2, <1>3, <1>4, StartKeeps, RaiseKeeps, RetryKeeps, CompleteKeeps, RecoverKeeps,
     RaiseAgainKeeps DEF NodeStep

\* The Coordinator thinks once, the agents not at all before they are called.
LEMMA SeenByCoordinator ==
    /\ Times("coordinator", Coordinated.thoughts) = 1
    /\ \A a \in Agents : Times(a, Coordinated.thoughts) = 0
<1> DEFINE s == Coordinated.thoughts
<1>1. \A a \in Agents : a # "coordinator" /\ a # "planning_agent"
  BY NamesList
<1>2. s \in {<<"coordinator">>, <<"planning_agent", "coordinator">>}
  BY CoordinatedShape
<1> HIDE DEF s
<1>3. \A a \in Agents : {i \in DOMAIN s : s[i] = a} = {}
  BY <1>1, <1>2
<1>4. PICK k : {i \in DOMAIN s : s[i] = "coordinator"} = {k}
  <2>1. CASE s = <<"coordinator">>
    <3>1. {i \in DOMAIN s : s[i] = "coordinator"} = {1}
      BY <2>1
    <3> QED BY <3>1
  <2>2. CASE s = <<"planning_agent", "coordinator">>
    <3>1. {i \in DOMAIN s : s[i] = "coordinator"} = {2}
      BY <2>2
    <3> QED BY <3>1
  <2> QED BY <1>2, <2>1, <2>2
<1>5. Cardinality({}) = 0 /\ Cardinality({k}) = 1
  BY FS_EmptySet, FS_Singleton
<1> QED BY <1>3, <1>4, <1>5 DEF Times, s

\* The Coordinator's own update is merged as it is.
LEMMA CoordinateKeeps == ASSUME WInv, Coordinate PROVE WInv'
<1>1. /\ TypeOK /\ merged = 0 /\ \A a \in Agents : pc[a] = "idle" /\ NodeInv(a)
      /\ phase = "started"
  BY DEF WInv, PhaseInv, Coordinate
<1>2. /\ shared' = Coordinated /\ phase' = "routing"
      /\ UNCHANGED <<input, pc, working, attempts, update, merged>>
      /\ metrics' = [metrics EXCEPT !["coordinator"] =
                       [invocations |-> 1, successes |-> 1, failures |-> 0]]
  BY DEF Coordinate
<1>3. policy' = policy /\ required' = required /\ evidence' = evidence
      /\ Coordinated' = Coordinated
  BY <1>2, SameInput
<1>4. TypeOK'
  <2>1. [invocations |-> 1, successes |-> 1, failures |-> 0] \in Count
    BY DEF Count
  <2>2. metrics' \in [Agents \cup {"coordinator"} -> Count]
    BY <1>1, <1>2, <2>1 DEF TypeOK, Count
  <2> QED BY <1>1, <1>2, <1>3, <2>2, Shapes DEF TypeOK, Count
<1>5. \A a \in Agents : NodeInv(a)'
  <2> TAKE a \in Agents
  <2>1. metrics'[a] = metrics[a]
    BY <1>1, <1>2, NamesList DEF TypeOK
  <2> QED BY <1>1, <1>2, <2>1 DEF NodeInv, Counted
<1>6. PhaseInv'
  BY <1>1, <1>2, <1>3 DEF PhaseInv
<1>7. MergeInv'
  <2>1. ASSUME NEW i \in 1 .. Len(Names)
        PROVE  /\ Names[i] \in Agents
               /\ Times(Names[i], Coordinated.findings) = Times(Names[i], NoUpdate.findings)
               /\ Times(Names[i], Coordinated.thoughts) = Times(Names[i], NoUpdate.thoughts)
               /\ Times(Names[i], Coordinated.errors) = Times(Names[i], NoUpdate.errors)
               /\ Coordinated.outputs[Names[i]] = "none"
               /\ Names[i] \notin DOMAIN NoUpdate.outputs
    <3>1. Names[i] \in Agents
      BY NamesList
    <3>2. /\ NoUpdate.findings = <<>> /\ NoUpdate.thoughts = <<>> /\ NoUpdate.errors = <<>>
          /\ NoUpdate.outputs = <<>>
      BY DEF NoUpdate
    <3> QED BY <3>1, <3>2, CoordinatedShape, SeenByCoordinator, TimesOfNone
  <2>2. ~ (\E i \in 1 .. merged' : update'[Names[i]].triage)
    BY <1>1, <1>2
  <2>3. \A i \in 1 .. Len(Names) : ~ (i <= merged')
    BY <1>1, <1>2
  <2> QED BY <1>2, <1>3, <2>1, <2>2, <2>3, SeenByCoordinator DEF MergeInv, Contributed
<1> QED BY <1>4, <1>5, <1>6, <1>7 DEF WInv

\* Steps that only move the run on.
LEMMA PhaseKeeps ==
    ASSUME WInv, phase # "started", UNCHANGED <<input, shared, merged, node>>,
           phase' \in {"completed", "crashed", "aborted"}, PhaseInv'
    PROVE  WInv'
<1>1. /\ TypeOK /\ MergeInv /\ \A a \in Agents : NodeInv(a)
      /\ policy' = policy /\ required' = required /\ evidence' = evidence
      /\ Coordinated' = Coordinated
      /\ \A b, outcome : /\ Worked(b, outcome)' = Worked(b, outcome)
                         /\ Updates(b, outcome)' = Updates(b, outcome)
  BY SameInput DEF WInv
<1>2. UNCHANGED <<shared, merged, pc, working, attempts, update, metrics>>
  BY DEF node
<1>3. TypeOK'
  BY <1>1, <1>2 DEF TypeOK
<1>4. \A a \in Agents : NodeInv(a)'
  BY <1>1, <1>2 DEF NodeInv, Counted
<1>5. MergeInv'
  BY <1>1, <1>2 DEF MergeInv, Contributed
<1> QED BY <1>3, <1>4, <1>5 DEF WInv

\* The run ends at the Coordinator, in a conflict, or when a node raises.
LEMMA EndsKeep == ASSUME WInv, RouteToEnd \/ RefuseUpdates \/ Abort PROVE WInv'
<1>1. PhaseInv /\ TypeOK
  BY DEF WInv
<1>2. UNCHANGED <<input, shared, merged, node>> /\ phase # "started"
      /\ phase' \in {"completed", "crashed", "aborted"}
  BY DEF RouteToEnd, RefuseUpdates, Abort, AllDone
<1>3. Coordinated' = Coordinated /\ pc' = pc /\ shared' = shared /\ merged' = merged
  BY <1>2, SameInput DEF node
<1>4. CASE RouteToEnd
  <2>1. merged = 0 /\ shared = Coordinated /\ phase' = "completed"
        /\ \A a \in Agents : pc[a] = "idle"
    BY <1>1, <1>4 DEF PhaseInv, RouteToEnd
  <2>2. Coordinated.plan = {}
    BY <1>4, <2>1, CoordinatedShape DEF RouteToEnd
  <2> QED BY <1>1, <1>2, <1>3, <2>1, <2>2, PhaseKeeps DEF PhaseInv
<1>5. CASE RefuseUpdates
  <2>1. \A a \in Coordinated.plan : pc[a] = "done"
    BY <1>1, <1>5 DEF RefuseUpdates, AllDone, PhaseInv
  <2>2. phase = "superstep" /\ phase' = "crashed"
    BY <1>5 DEF RefuseUpdates, AllDone
  <2>3. PhaseInv'
    BY <1>1, <1>3, <2>1, <2>2 DEF PhaseInv
  <2> QED BY <1>2, <2>3, PhaseKeeps
<1>6. CASE Abort
  <2>1. \A a \in Coordinated.plan : pc[a] \in {"scheduled", "done", "aborting"}
    BY <1>1, <1>6 DEF Abort, PhaseInv
  <2>2. phase = "superstep" /\ phase' = "aborted"
    BY <1>6 DEF Abort
  <2>3. PhaseInv'
    BY <1>1, <1>3, <2>1, <2>2 DEF PhaseInv
  <2> QED BY <1>2, <2>3, PhaseKeeps
<1> QED BY <1>4, <1>5, <1>6

\* The fan-out schedules the planned agents.
LEMMA FanOutKeeps == ASSUME WInv, FanOut PROVE WInv'
<1>1. /\ TypeOK /\ PhaseInv /\ MergeInv /\ \A a \in Agents : NodeInv(a)
      /\ phase = "routing"
  BY DEF WInv, FanOut
<1>2. merged = 0 /\ shared = Coordinated /\ \A a \in Agents : pc[a] = "idle"
  BY <1>1 DEF PhaseInv
<1>3. /\ phase' = "superstep" /\ UNCHANGED <<input, shared, working, attempts, update, merged, metrics>>
      /\ pc' = [a \in Agents |-> IF a \in Coordinated.plan THEN "scheduled" ELSE "idle"]
      /\ ~Coordinated.triage /\ Coordinated.plan # {}
  BY <1>2 DEF FanOut
<1>4. policy' = policy /\ required' = required /\ evidence' = evidence
      /\ Coordinated' = Coordinated
  BY <1>3, SameInput
<1>5. TypeOK'
  BY <1>1, <1>3, <1>4 DEF TypeOK
<1>6. \A a \in Agents : NodeInv(a)'
  BY <1>1, <1>2, <1>3 DEF NodeInv, Counted
<1>7. PhaseInv'
  <2>1. 0 < Len(Names)
    BY <1>3, CoordinatedShape, NamesList
  <2> QED BY <1>2, <1>3, <1>4, <2>1 DEF PhaseInv
<1>8. MergeInv'
  BY <1>1, <1>2, <1>3, <1>4 DEF MergeInv, Contributed
<1> QED BY <1>5, <1>6, <1>7, <1>8 DEF WInv

\* What the reducers make of the fields, and that they keep the shape.
LEMMA ReduceShape ==
    ASSUME NEW s \in State, NEW u \in Update
    PROVE  /\ Reduce(s, u) \in State
           /\ Reduce(s, u).findings = s.findings \o u.findings
           /\ Reduce(s, u).thoughts = s.thoughts \o u.thoughts
           /\ Reduce(s, u).errors = s.errors \o u.errors
           /\ Reduce(s, u).plan = s.plan
           /\ Reduce(s, u).triage = (s.triage \/ u.triage)
           /\ \A n \in Nodes : Reduce(s, u).outputs[n] =
                IF n \in DOMAIN u.outputs THEN u.outputs[n] ELSE s.outputs[n]
<1> DEFINE f == s.findings \o u.findings
           t == s.thoughts \o u.thoughts
           e == s.errors \o u.errors
           o == MergeDicts(s.outputs, u.outputs)
<1>1. PICK g : g = (s.triage \/ u.triage)
  OBVIOUS
<1>2. /\ s.findings \in Seq(Agents) /\ s.thoughts \in Seq(Nodes) /\ s.errors \in Seq(Nodes)
      /\ s.outputs \in [Nodes -> Outcomes] /\ s.plan \in SUBSET Agents /\ s.triage \in BOOLEAN
  BY DEF State, Outcomes
<1>3. /\ u.findings \in Seq(Agents) /\ u.thoughts \in Seq(Nodes) /\ u.errors \in Seq(Nodes)
      /\ u.outputs \in UNION {[N -> Status] : N \in SUBSET Nodes} /\ u.triage \in BOOLEAN
  BY DEF Update
<1>4. f \in Seq(Agents) /\ t \in Seq(Nodes) /\ e \in Seq(Nodes) /\ g \in BOOLEAN
  BY <1>1, <1>2, <1>3, ConcatProperties
<1>5. /\ o \in [Nodes -> Outcomes]
      /\ \A n \in Nodes : o[n] = IF n \in DOMAIN u.outputs THEN u.outputs[n] ELSE s.outputs[n]
  <2>1. PICK N \in SUBSET Nodes : u.outputs \in [N -> Status]
    BY <1>3
  <2>2. \A n \in DOMAIN u.outputs : u.outputs[n] \in Outcomes
    BY <2>1 DEF Outcomes
  <2> QED BY <1>2, <2>2 DEF MergeDicts
<1>6. Reduce(s, u) = [s EXCEPT !.findings = f, !.thoughts = t, !.errors = e,
                                !.outputs = o, !.triage = g]
  BY <1>1, Zenon DEF Reduce
<1> HIDE DEF f, t, e, o
<1> DEFINE s1 == [s EXCEPT !.findings = f]
           s2 == [s1 EXCEPT !.thoughts = t]
           s3 == [s2 EXCEPT !.errors = e]
           s4 == [s3 EXCEPT !.outputs = o]
           s5 == [s4 EXCEPT !.triage = g]
<1>7. s1 \in State /\ s1.findings = f /\ s1.plan = s.plan
  BY <1>4 DEF State
<1> HIDE DEF s1
<1>8. s2 \in State /\ s2.findings = f /\ s2.thoughts = t /\ s2.plan = s.plan
  BY <1>4, <1>7 DEF State
<1> HIDE DEF s2
<1>9. s3 \in State /\ s3.findings = f /\ s3.thoughts = t /\ s3.errors = e /\ s3.plan = s.plan
  BY <1>4, <1>8 DEF State
<1> HIDE DEF s3
<1>10. /\ s4 \in State /\ s4.findings = f /\ s4.thoughts = t /\ s4.errors = e
       /\ s4.outputs = o /\ s4.plan = s.plan
  BY <1>5, <1>9 DEF State, Outcomes
<1> HIDE DEF s4
<1>11. /\ s5 \in State /\ s5.findings = f /\ s5.thoughts = t /\ s5.errors = e
       /\ s5.outputs = o /\ s5.plan = s.plan /\ s5.triage = g
  BY <1>4, <1>10 DEF State
<1>12. Reduce(s, u) = s5
  BY <1>6 DEF s1, s2, s3, s4, s5
<1> HIDE DEF s5
<1> QED BY <1>1, <1>5, <1>11, <1>12 DEF f, t, e

\* The update of one agent concerns this agent only.
LEMMA OwnUpdate ==
    ASSUME WInv, AllDone, NEW b \in Agents
    PROVE  LET u == update[b]
           IN  /\ u.findings = <<>> \/ u.findings = <<b>>
               /\ u.thoughts = <<>> \/ u.thoughts = <<b>>
               /\ u.errors = <<>> \/ u.errors = <<b>>
               /\ DOMAIN u.outputs \subseteq {b}
<1>1. NodeInv(b)
  BY DEF WInv
<1>2. CASE pc[b] = "done"
  <2>1. PICK o \in Outcomes : update[b] = Updates(b, o)
    BY <1>1, <1>2 DEF NodeInv
  <2> DEFINE u == Updates(b, o)
  <2>2. /\ u.findings = FindingsOf(b, o) /\ u.thoughts = ThoughtsOf(b, o)
        /\ u.errors = ErrorsOf(b, o) /\ DOMAIN u.outputs \subseteq {b}
    BY DEF Updates
  <2> HIDE DEF u
  <2> QED BY <2>1, <2>2, ListsOf DEF u
<1>3. CASE pc[b] # "done"
  <2>1. update[b] = NoUpdate
    BY <1>1, <1>3 DEF NodeInv
  <2> QED BY <2>1 DEF NoUpdate
<1> QED BY <1>2, <1>3

\* The reducers take the next update.
LEMMA MergeKeeps == ASSUME WInv, Merge PROVE WInv'
<1> DEFINE n == merged + 1
           b == Names[n]
           u == update[b]
<1>1. /\ TypeOK /\ PhaseInv /\ MergeInv /\ \A a \in Agents : NodeInv(a)
      /\ AllDone /\ phase = "superstep"
  BY DEF WInv, Merge, AllDone
<1>2. merged \in Nat /\ merged < Len(Names) /\ Len(Names) \in Nat /\ n \in 1 .. Len(Names)
      /\ ~Coordinated.triage
  BY <1>1, NamesList DEF PhaseInv, TypeOK
<1>3. b \in Agents /\ u \in Update /\ shared \in State
  BY <1>1, <1>2, NamesList DEF TypeOK
<1>4. /\ shared' = Reduce(shared, u) /\ merged' = n
      /\ phase' = IF n = Len(Names) THEN "completed" ELSE phase
      /\ UNCHANGED <<input, pc, working, attempts, update, metrics>>
  BY DEF Merge, node
<1>5. policy' = policy /\ required' = required /\ evidence' = evidence
      /\ Coordinated' = Coordinated
      /\ \A a, outcome : /\ Worked(a, outcome)' = Worked(a, outcome)
                         /\ Updates(a, outcome)' = Updates(a, outcome)
  BY <1>4, SameInput
<1>6. /\ u.findings = <<>> \/ u.findings = <<b>>
      /\ u.thoughts = <<>> \/ u.thoughts = <<b>>
      /\ u.errors = <<>> \/ u.errors = <<b>>
      /\ DOMAIN u.outputs \subseteq {b}
  BY <1>1, <1>3, OwnUpdate
<1> HIDE DEF u, b
<1>7. /\ shared' \in State
      /\ shared'.findings = shared.findings \o u.findings
      /\ shared'.thoughts = shared.thoughts \o u.thoughts
      /\ shared'.errors = shared.errors \o u.errors
      /\ shared'.plan = shared.plan
      /\ shared'.triage = (shared.triage \/ u.triage)
      /\ \A m \in Nodes : shared'.outputs[m] =
           IF m \in DOMAIN u.outputs THEN u.outputs[m] ELSE shared.outputs[m]
  BY <1>3, <1>4, ReduceShape
<1>8. TypeOK'
  BY <1>1, <1>2, <1>4, <1>5, <1>7 DEF TypeOK
<1>9. \A a \in Agents : NodeInv(a)'
  BY <1>1, <1>4, <1>5 DEF NodeInv, Counted
<1>10. PhaseInv'
  <2>1. shared.plan = Coordinated.plan
    BY <1>1 DEF PhaseInv
  <2>2. \A a \in Agents : pc[a] = IF a \in Coordinated.plan THEN "done" ELSE "idle"
    BY <1>1, <2>1 DEF PhaseInv, AllDone
  <2>3. n # 0 /\ n > 0 /\ (n # Len(Names) => n < Len(Names))
    BY <1>2
  <2> QED BY <1>1, <1>2, <1>4, <1>5, <1>7, <2>1, <2>2, <2>3 DEF PhaseInv
<1>11. MergeInv'
  <2>1. /\ \A i \in 1 .. Len(Names) : Contributed(i)
        /\ Times("coordinator", shared.thoughts) = 1
        /\ shared.triage <=> \/ Coordinated.triage
                             \/ \E i \in 1 .. merged : update[Names[i]].triage
    BY <1>1 DEF MergeInv
  <2>2. b = Names[n] /\ b \in Nodes /\ b # "coordinator" /\ u = update[b]
    BY <1>3, NamesList DEF b, u
  <2>3. /\ shared.findings \in Seq(Agents) /\ shared.thoughts \in Seq(Nodes)
        /\ shared.errors \in Seq(Nodes)
    BY <1>3 DEF State
  <2>4. /\ \A x : /\ Times(x, shared'.findings) = Times(x, shared.findings) + Times(x, u.findings)
                  /\ Times(x, shared'.thoughts) = Times(x, shared.thoughts) + Times(x, u.thoughts)
                  /\ Times(x, shared'.errors) = Times(x, shared.errors) + Times(x, u.errors)
        /\ \A x : x # b => /\ Times(x, shared'.findings) = Times(x, shared.findings)
                           /\ Times(x, shared'.thoughts) = Times(x, shared.thoughts)
                           /\ Times(x, shared'.errors) = Times(x, shared.errors)
        /\ Times(b, u.findings) \in Nat /\ Times(b, u.thoughts) \in Nat
        /\ Times(b, u.errors) \in Nat
    <3>1. /\ \A x : Times(x, shared.findings \o u.findings) = Times(x, shared.findings) + Times(x, u.findings)
          /\ \A x : x # b => Times(x, shared.findings \o u.findings) = Times(x, shared.findings)
          /\ Times(b, u.findings) \in Nat
      <4> DEFINE s == shared.findings
                 t == u.findings
      <4>1. s \in Seq(Agents) /\ b \in Agents /\ (t = <<>> \/ t = <<b>>)
        BY <1>3, <1>6, <2>3
      <4> HIDE DEF s, t
      <4>2. /\ \A x : Times(x, s \o t) = Times(x, s) + Times(x, t)
            /\ \A x : x # b => Times(x, s \o t) = Times(x, s)
            /\ Times(b, t) \in Nat
        BY <4>1, TimesOfAdded
      <4> QED BY <4>2 DEF s, t
    <3>2. /\ \A x : Times(x, shared.thoughts \o u.thoughts) = Times(x, shared.thoughts) + Times(x, u.thoughts)
          /\ \A x : x # b => Times(x, shared.thoughts \o u.thoughts) = Times(x, shared.thoughts)
          /\ Times(b, u.thoughts) \in Nat
      <4> DEFINE s == shared.thoughts
                 t == u.thoughts
      <4>1. s \in Seq(Nodes) /\ b \in Nodes /\ (t = <<>> \/ t = <<b>>)
        BY <1>6, <2>2, <2>3
      <4> HIDE DEF s, t
      <4>2. /\ \A x : Times(x, s \o t) = Times(x, s) + Times(x, t)
            /\ \A x : x # b => Times(x, s \o t) = Times(x, s)
            /\ Times(b, t) \in Nat
        BY <4>1, TimesOfAdded
      <4> QED BY <4>2 DEF s, t
    <3>3. /\ \A x : Times(x, shared.errors \o u.errors) = Times(x, shared.errors) + Times(x, u.errors)
          /\ \A x : x # b => Times(x, shared.errors \o u.errors) = Times(x, shared.errors)
          /\ Times(b, u.errors) \in Nat
      <4> DEFINE s == shared.errors
                 t == u.errors
      <4>1. s \in Seq(Nodes) /\ b \in Nodes /\ (t = <<>> \/ t = <<b>>)
        BY <1>6, <2>2, <2>3
      <4> HIDE DEF s, t
      <4>2. /\ \A x : Times(x, s \o t) = Times(x, s) + Times(x, t)
            /\ \A x : x # b => Times(x, s \o t) = Times(x, s)
            /\ Times(b, t) \in Nat
        BY <4>1, TimesOfAdded
      <4> QED BY <4>2 DEF s, t
    <3> QED BY <1>7, <3>1, <3>2, <3>3
  <2>5. ASSUME NEW i \in 1 .. Len(Names) PROVE Contributed(i)'
    <3> DEFINE a == Names[i]
    <3>1. a \in Agents /\ a \in Nodes /\ Contributed(i) /\ (a = b => i = n)
      BY <1>2, <2>1, <2>2, NamesList
    <3>2. CASE i = n
      <4>1. ~ (i <= merged) /\ i <= merged'
        BY <1>2, <1>4, <3>2
      <4>2. /\ Times(b, shared.findings) = Times(b, NoUpdate.findings)
            /\ Times(b, shared.thoughts) = Times(b, NoUpdate.thoughts)
            /\ Times(b, shared.errors) = Times(b, NoUpdate.errors)
            /\ shared.outputs[b] = "none"
        BY <2>2, <3>1, <3>2, <4>1 DEF Contributed, NoUpdate
      <4>3. /\ Times(b, shared.findings) = 0 /\ Times(b, shared.thoughts) = 0
            /\ Times(b, shared.errors) = 0
        BY <4>2, TimesOfNone DEF NoUpdate
      <4>4. /\ Times(b, shared'.findings) = Times(b, u.findings)
            /\ Times(b, shared'.thoughts) = Times(b, u.thoughts)
            /\ Times(b, shared'.errors) = Times(b, u.errors)
            /\ shared'.outputs[b] = IF b \in DOMAIN u.outputs THEN u.outputs[b] ELSE "none"
        BY <1>7, <2>2, <2>4, <4>2, <4>3
      <4>5. update' = update /\ Names[i] = b
        BY <1>4, <2>2, <3>2
      <4> QED BY <2>2, <4>1, <4>4, <4>5 DEF Contributed
    <3>3. CASE i # n
      <4>1. a # b /\ (i <= merged <=> i <= merged') /\ update' = update
        BY <1>2, <1>4, <3>1, <3>3
      <4>2. /\ Times(a, shared'.findings) = Times(a, shared.findings)
            /\ Times(a, shared'.thoughts) = Times(a, shared.thoughts)
            /\ Times(a, shared'.errors) = Times(a, shared.errors)
            /\ shared'.outputs[a] = shared.outputs[a]
        BY <1>6, <1>7, <2>4, <3>1, <4>1
      <4> HIDE DEF a
      <4>3. Contributed(i) <=> Contributed(i)'
        BY <4>1, <4>2 DEF Contributed, a
      <4> QED BY <3>1, <4>3
    <3> QED BY <3>2, <3>3
  <2>6. Times("coordinator", shared'.thoughts) = 1
    BY <2>1, <2>2, <2>4
  <2>7. shared'.triage <=> \/ Coordinated'.triage
                           \/ \E i \in 1 .. merged' : update'[Names[i]].triage
    <3>1. u.triage <=> update[Names[n]].triage
      BY <2>2
    <3>2. \A i : i \in 1 .. n <=> i \in 1 .. merged \/ i = n
      BY <1>2
    <3>3. (\E i \in 1 .. n : update[Names[i]].triage) <=>
             (\E i \in 1 .. merged : update[Names[i]].triage) \/ update[Names[n]].triage
      BY <3>2
    <3>4. shared'.triage <=> shared.triage \/ u.triage
      BY <1>7
    <3> HIDE DEF n
    <3> QED BY <1>4, <1>5, <2>1, <3>1, <3>3, <3>4
  <2> QED BY <2>5, <2>6, <2>7 DEF MergeInv
<1> QED BY <1>8, <1>9, <1>10, <1>11 DEF WInv
-----------------------------------------------------------------------------
(* The invariant. *)

\* It holds of a run that has not started.
LEMMA InitWInv == Init => WInv
<1> SUFFICES ASSUME Init PROVE WInv
  OBVIOUS
<1>1. /\ evidence \in BOOLEAN /\ required \in SUBSET Capabilities /\ policy \in Policies
      /\ phase = "started" /\ shared = Empty /\ pc = [a \in Agents |-> "idle"]
      /\ working = [a \in Agents |-> Empty] /\ attempts = [a \in Agents |-> 0]
      /\ update = [a \in Agents |-> NoUpdate] /\ merged = 0
      /\ metrics = [n \in Agents \cup {"coordinator"} |->
                      [invocations |-> 0, successes |-> 0, failures |-> 0]]
  BY DEF Init
<1>2. TypeOK
  <2>1. policy.attempts \in Nat /\ 0 \in 0 .. policy.attempts
    BY <1>1, PoliciesAssumption
  <2>2. [invocations |-> 0, successes |-> 0, failures |-> 0] \in Count
    BY DEF Count
  <2>3. metrics \in [Agents \cup {"coordinator"} -> Count]
    BY <1>1, <2>2
  <2>4. 0 \in 0 .. Len(Names)
    BY NamesList
  <2> QED BY <1>1, <2>1, <2>3, <2>4, Shapes DEF TypeOK, Count
<1>3. \A a \in Agents : NodeInv(a)
  BY <1>1 DEF NodeInv, Counted
<1>4. PhaseInv
  BY <1>1 DEF PhaseInv
<1>5. MergeInv
  BY <1>1 DEF MergeInv
<1> QED BY <1>2, <1>3, <1>4, <1>5 DEF WInv

\* Every step keeps it.
LEMMA NextWInv == WInv /\ [Next]_vars => WInv'
<1> SUFFICES ASSUME WInv, [Next]_vars PROVE WInv'
  OBVIOUS
<1>1. CASE Next
  <2>1. CASE Over \/ UNCHANGED vars
    <3>1. UNCHANGED vars
      BY <2>1 DEF Over
    <3>2. /\ UNCHANGED input
          /\ UNCHANGED <<phase, shared, pc, working, attempts, update, merged, metrics>>
      BY <3>1 DEF vars, input
    <3> QED BY <3>2, SameInput DEF WInv, TypeOK, NodeInv, Counted, PhaseInv, MergeInv, Contributed, input
  <2> QED BY <1>1, <2>1, CoordinateKeeps, EndsKeep, FanOutKeeps, NodeStepsKeep, MergeKeeps
          DEF Next
<1>2. CASE UNCHANGED vars
  <2>1. /\ UNCHANGED input
        /\ UNCHANGED <<phase, shared, pc, working, attempts, update, merged, metrics>>
    BY <1>2 DEF vars, input
  <2> QED BY <2>1, SameInput DEF WInv, TypeOK, NodeInv, Counted, PhaseInv, MergeInv, Contributed, input
<1> QED BY <1>1, <1>2

\* The inductive invariant of a run.
THEOREM RunInvariant == Spec => []WInv
  BY InitWInv, NextWInv, PTL DEF Spec

\* The shape of the state.
THEOREM RunTyped == Spec => []TypeOK
<1>1. WInv => TypeOK
  BY DEF WInv
<1> QED BY <1>1, RunInvariant, PTL
-----------------------------------------------------------------------------
(* What follows from it. *)

\* What a completed run says of an agent.
LEMMA AtEnd ==
    ASSUME WInv, phase = "completed", NEW a \in Agents
    PROVE  /\ shared.plan = Coordinated.plan
           /\ a \notin shared.plan =>
                /\ shared.outputs[a] = "none" /\ update[a] = NoUpdate /\ Counted(a, 0, 0, 0)
                /\ Times(a, shared.findings) = 0 /\ Times(a, shared.thoughts) = 0
                /\ Times(a, shared.errors) = 0
           /\ a \in shared.plan => \E o \in Outcomes :
                /\ shared.outputs[a] = o /\ update[a] = Updates(a, o)
                /\ IF o = "none" THEN Counted(a, 1, 0, 1) ELSE Counted(a, 1, 1, 0)
                /\ Times(a, shared.findings) = IF o = "SUCCEEDED" THEN 1 ELSE 0
                /\ Times(a, shared.thoughts) = IF o = "none" THEN 0 ELSE 1
                /\ Times(a, shared.errors) = IF o \in {"none", "FAILED"} THEN 1 ELSE 0
<1>1. TypeOK /\ NodeInv(a) /\ PhaseInv /\ MergeInv
  BY DEF WInv
<1>2. PICK i \in 1 .. Len(Names) : Names[i] = a
  BY NamesList
<1>3. /\ pc[a] = (IF a \in Coordinated.plan THEN "done" ELSE "idle")
      /\ i <= merged \/ a \notin Coordinated.plan
      /\ shared.plan = Coordinated.plan
  <2>1. merged \in Nat /\ Len(Names) \in Nat
    BY <1>1, NamesList DEF TypeOK
  <2>2. CASE merged = Len(Names)
    <3>1. merged > 0 /\ i <= merged
      BY <1>2, <2>1, <2>2
    <3> QED BY <1>1, <3>1 DEF PhaseInv
  <2>3. CASE Coordinated.plan = {} /\ \A b \in Agents : pc[b] = "idle"
    BY <1>1, <2>3 DEF PhaseInv
  <2> QED BY <1>1, <2>2, <2>3 DEF PhaseInv
<1>4. Contributed(i)
  BY <1>1 DEF MergeInv
<1>5. CASE a \notin Coordinated.plan
  <2>1. update[a] = NoUpdate /\ Counted(a, 0, 0, 0)
    BY <1>1, <1>3, <1>5 DEF NodeInv
  <2>2. /\ Times(a, shared.findings) = Times(a, NoUpdate.findings)
        /\ Times(a, shared.thoughts) = Times(a, NoUpdate.thoughts)
        /\ Times(a, shared.errors) = Times(a, NoUpdate.errors)
        /\ shared.outputs[a] = IF a \in DOMAIN NoUpdate.outputs THEN NoUpdate.outputs[a] ELSE "none"
    BY <1>2, <1>4, <2>1 DEF Contributed
  <2>3. /\ NoUpdate.findings = <<>> /\ NoUpdate.thoughts = <<>> /\ NoUpdate.errors = <<>>
        /\ a \notin DOMAIN NoUpdate.outputs
    BY DEF NoUpdate
  <2> QED BY <1>3, <1>5, <2>1, <2>2, <2>3, TimesOfNone
<1>6. CASE a \in Coordinated.plan
  <2>1. PICK o \in Outcomes :
          /\ update[a] = Updates(a, o)
          /\ IF o = "none" THEN Counted(a, 1, 0, 1) ELSE Counted(a, 1, 1, 0)
    BY <1>1, <1>3, <1>6 DEF NodeInv
  <2> DEFINE u == Updates(a, o)
  <2>2. /\ Times(a, shared.findings) = Times(a, u.findings)
        /\ Times(a, shared.thoughts) = Times(a, u.thoughts)
        /\ Times(a, shared.errors) = Times(a, u.errors)
        /\ shared.outputs[a] = IF a \in DOMAIN u.outputs THEN u.outputs[a] ELSE "none"
    <3> HIDE DEF u
    <3>1. update[a] = u /\ i <= merged
      BY <1>3, <1>6, <2>1 DEF u
    <3> QED BY <1>2, <1>4, <3>1 DEF Contributed
  <2>3. /\ u.findings = FindingsOf(a, o) /\ u.thoughts = ThoughtsOf(a, o)
        /\ u.errors = ErrorsOf(a, o)
        /\ u.outputs = [n \in IF o = "none" THEN {} ELSE {a} |-> o]
    BY DEF Updates
  <2> HIDE DEF u
  <2>4. shared.outputs[a] = o
    BY <2>2, <2>3
  <2>5. /\ Times(a, FindingsOf(a, o)) = IF o = "SUCCEEDED" THEN 1 ELSE 0
        /\ Times(a, ThoughtsOf(a, o)) = IF o = "none" THEN 0 ELSE 1
        /\ Times(a, ErrorsOf(a, o)) = IF o \in {"none", "FAILED"} THEN 1 ELSE 0
    BY TimesOfNone, TimesOfOne DEF FindingsOf, ThoughtsOf, ErrorsOf
  <2> QED BY <1>3, <1>6, <2>1, <2>2, <2>3, <2>4, <2>5
<1> QED BY <1>5, <1>6

\* _merge_dicts and add_messages lose and double nothing.
THEOREM MergeExact == Spec => []MergedOnce
<1>1. ASSUME WInv PROVE MergedOnce
  <2> SUFFICES ASSUME phase = "completed"
               PROVE  /\ Times("coordinator", shared.thoughts) = 1
                      /\ \A a \in Agents :
                           LET status == shared.outputs[a]
                           IN  /\ Times(a, shared.findings) = (IF status = "SUCCEEDED" THEN 1 ELSE 0)
                               /\ Times(a, shared.thoughts) = (IF status # "none" THEN 1 ELSE 0)
                               /\ Times(a, shared.errors) =
                                    (IF a \in shared.plan /\ status \in {"none", "FAILED"} THEN 1 ELSE 0)
    BY DEF MergedOnce
  <2>1. Times("coordinator", shared.thoughts) = 1
    BY <1>1 DEF WInv, MergeInv
  <2>2. ASSUME NEW a \in Agents
        PROVE  LET status == shared.outputs[a]
               IN  /\ Times(a, shared.findings) = (IF status = "SUCCEEDED" THEN 1 ELSE 0)
                   /\ Times(a, shared.thoughts) = (IF status # "none" THEN 1 ELSE 0)
                   /\ Times(a, shared.errors) =
                        (IF a \in shared.plan /\ status \in {"none", "FAILED"} THEN 1 ELSE 0)
    <3>1. CASE a \in shared.plan
      BY <1>1, <3>1, AtEnd
    <3>2. CASE a \notin shared.plan
      BY <1>1, <3>2, AtEnd
    <3> QED BY <3>1, <3>2
  <2> QED BY <2>1, <2>2
<1> QED BY <1>1, RunInvariant, PTL

\* The copies are private: nothing of a sibling shows in one.
THEOREM CopiesPrivate == Spec => []SiblingsUnseen
<1>1. ASSUME WInv PROVE SiblingsUnseen
  <2> SUFFICES ASSUME NEW a \in Agents, NEW b \in Agents, a # b
               PROVE  /\ Times(b, working[a].thoughts) = 0
                      /\ Times(b, working[a].findings) = 0
                      /\ working[a].outputs[b] = "none"
    BY DEF SiblingsUnseen
  <2>1. NodeInv(a) /\ TypeOK
    BY <1>1 DEF WInv
  <2>2. \/ working[a] = Empty \/ working[a] = Coordinated
        \/ \E o \in Outcomes : working[a] = Worked(a, o)
    BY <2>1 DEF NodeInv, TypeOK, Outcomes
  <2>3. /\ Times(b, Coordinated.thoughts) = 0 /\ Times(b, Coordinated.findings) = 0
        /\ Coordinated.outputs[b] = "none"
    BY CoordinatedShape, SeenByCoordinator, TimesOfNone
  <2>4. CASE working[a] = Empty
    BY <2>4, TimesOfNone, NamesList DEF Empty
  <2>5. CASE working[a] = Coordinated
    BY <2>3, <2>5
  <2>6. ASSUME NEW o \in Outcomes, working[a] = Worked(a, o)
        PROVE  /\ Times(b, working[a].thoughts) = 0
               /\ Times(b, working[a].findings) = 0
               /\ working[a].outputs[b] = "none"
    <3>1. /\ working[a].thoughts = Coordinated.thoughts \o ThoughtsOf(a, o)
          /\ working[a].findings = Coordinated.findings \o FindingsOf(a, o)
          /\ working[a].outputs = [Coordinated.outputs EXCEPT ![a] = o]
      BY <2>6 DEF Worked
    <3>2. Coordinated.thoughts \in Seq(Nodes) /\ Coordinated.findings \in Seq(Agents) /\ a \in Nodes
      BY Shapes, NamesList DEF State
    <3>3. /\ ThoughtsOf(a, o) = <<>> \/ ThoughtsOf(a, o) = <<a>>
          /\ FindingsOf(a, o) = <<>> \/ FindingsOf(a, o) = <<a>>
      BY DEF ThoughtsOf, FindingsOf
    <3>4. /\ Times(b, Coordinated.thoughts \o ThoughtsOf(a, o)) = 0
          /\ Times(b, Coordinated.findings \o FindingsOf(a, o)) = 0
      <4> DEFINE s1 == Coordinated.thoughts
                 s2 == Coordinated.findings
                 t1 == ThoughtsOf(a, o)
                 t2 == FindingsOf(a, o)
      <4>1. /\ s1 \in Seq(Nodes) /\ s2 \in Seq(Agents)
            /\ (t1 = <<>> \/ t1 = <<a>>) /\ (t2 = <<>> \/ t2 = <<a>>)
            /\ Times(b, s1) = 0 /\ Times(b, s2) = 0
        BY <2>3, <3>2, <3>3
      <4> HIDE DEF s1, s2, t1, t2
      <4>2. Times(b, s1 \o t1) = 0
        BY <3>2, <4>1, TimesOfAdded
      <4>3. Times(b, s2 \o t2) = 0
        BY <4>1, TimesOfAdded
      <4> QED BY <4>2, <4>3 DEF s1, s2, t1, t2
    <3>5. working[a].outputs[b] = "none"
      BY <2>3, <3>1, CoordinatedShape
    <3> QED BY <3>1, <3>4, <3>5
  <2> QED BY <2>2, <2>4, <2>5, <2>6
<1> QED BY <1>1, RunInvariant, PTL

\* FailureRecovery with MANUAL_TRIAGE: the flag is there if and only if the
\* Coordinator raised it or an agent escaped.
THEOREM EscapesFlagged == Spec => []EscapesAreTriaged
<1>1. ASSUME WInv PROVE EscapesAreTriaged
  <2> SUFFICES ASSUME policy.action = "MANUAL_TRIAGE", phase = "completed"
               PROVE  shared.triage <=> \/ shared.plan = {}
                                        \/ \E a \in shared.plan : shared.outputs[a] = "none"
    BY DEF EscapesAreTriaged
  <2>1. /\ shared.triage <=> \/ Coordinated.triage
                             \/ \E i \in 1 .. merged : update[Names[i]].triage
        /\ merged = Len(Names) \/ (Coordinated.plan = {} /\ merged = 0)
        /\ shared.plan = Coordinated.plan
        /\ Coordinated.triage <=> Coordinated.plan = {}
        /\ Coordinated.plan \subseteq Agents
    BY <1>1, CoordinatedShape DEF WInv, MergeInv, PhaseInv
  <2>2. ASSUME NEW a \in Agents
        PROVE  update[a].triage <=> a \in shared.plan /\ shared.outputs[a] = "none"
    <3>1. CASE a \in shared.plan
      <4>1. PICK o \in Outcomes : shared.outputs[a] = o /\ update[a] = Updates(a, o)
        BY <1>1, <3>1, AtEnd
      <4>2. Updates(a, o).triage = Flags(o)
        BY DEF Updates
      <4>3. Flags(o) <=> o = "none"
        BY DEF Flags
      <4> QED BY <3>1, <4>1, <4>2, <4>3
    <3>2. CASE a \notin shared.plan
      <4>1. update[a] = NoUpdate
        BY <1>1, <3>2, AtEnd
      <4> QED BY <3>2, <4>1 DEF NoUpdate
    <3> QED BY <3>1, <3>2
  <2>3. CASE merged = Len(Names)
    <3>1. (\E i \in 1 .. merged : update[Names[i]].triage) <=> \E a \in Agents : update[a].triage
      BY <2>3, NamesList
    <3> QED BY <2>1, <2>2, <3>1
  <2>4. CASE Coordinated.plan = {}
    BY <2>1, <2>4
  <2> QED BY <2>1, <2>3, <2>4
<1> QED BY <1>1, RunInvariant, PTL

\* MetricsCollector: of a run that is over, started is completed plus failed.
THEOREM EventsBalance == Spec => []MetricsBalance
<1>1. ASSUME WInv PROVE MetricsBalance
  <2> SUFFICES ASSUME Finished, NEW a \in Agents
               PROVE  /\ metrics[a].invocations = metrics[a].successes + metrics[a].failures
                      /\ phase # "aborted" => (metrics[a].invocations = 1 <=> a \in shared.plan)
    BY DEF MetricsBalance
  <2>1. /\ NodeInv(a) /\ PhaseInv /\ phase # "started"
        /\ phase \in {"completed", "crashed", "aborted"}
    BY <1>1 DEF WInv, Finished
  <2>2. CASE phase = "completed"
    <3>1. a \in shared.plan => Counted(a, 1, 0, 1) \/ Counted(a, 1, 1, 0)
      BY <1>1, <2>2, AtEnd
    <3>2. a \notin shared.plan => Counted(a, 0, 0, 0)
      BY <1>1, <2>2, AtEnd
    <3> QED BY <3>1, <3>2 DEF Counted
  <2>3. CASE phase \in {"crashed", "aborted"}
    <3>1. /\ pc[a] = "idle" <=> a \notin shared.plan
          /\ pc[a] \in {"idle", "scheduled", "done", "aborting"}
          /\ phase = "crashed" => pc[a] # "scheduled" /\ pc[a] # "aborting"
      BY <2>1, <2>3 DEF PhaseInv
    <3>2. CASE pc[a] = "done"
      BY <2>1, <3>1, <3>2 DEF NodeInv, Counted
    <3>3. CASE pc[a] \in {"idle", "scheduled"}
      <4>1. Counted(a, 0, 0, 0)
        BY <2>1, <3>3 DEF NodeInv
      <4> QED BY <2>3, <3>1, <3>3, <4>1 DEF Counted
    <3>4. CASE pc[a] = "aborting"
      <4>1. Counted(a, 1, 0, 1)
        BY <2>1, <3>4 DEF NodeInv
      <4> QED BY <2>3, <3>1, <3>4, <4>1 DEF Counted
    <3> QED BY <3>1, <3>2, <3>3, <3>4
  <2> QED BY <2>1, <2>2, <2>3
<1> QED BY <1>1, RunInvariant, PTL

\* PlanningAgent and the merge together: a capability some agent offers is
\* answered by one that offers it.
THEOREM CapabilitiesAnswered == Spec => []CapabilitiesCovered
<1>1. ASSUME WInv PROVE CapabilitiesCovered
  <2> SUFFICES ASSUME phase = "completed", NEW c \in required, Candidates(c) # {}
               PROVE  \E a \in Candidates(c) : shared.outputs[a] # "none"
                                               \/ Times(a, shared.errors) > 0
    BY DEF CapabilitiesCovered
  <2> DEFINE a == Chosen(c)
  <2>1. a \in Candidates(c) /\ a \in Agents
    BY ChosenOffers
  <2>2. a \in Coordinated.plan
    <3>1. Coordinated.plan = PlanFor(required)
      BY CoordinatedShape
    <3> QED BY <3>1 DEF PlanFor
  <2> HIDE DEF a
  <2>3. shared.plan = Coordinated.plan
    BY <1>1, <2>1, AtEnd
  <2>4. PICK o \in Outcomes :
          /\ shared.outputs[a] = o
          /\ Times(a, shared.errors) = IF o \in {"none", "FAILED"} THEN 1 ELSE 0
    BY <1>1, <2>1, <2>2, <2>3, AtEnd
  <2>5. shared.outputs[a] # "none" \/ Times(a, shared.errors) > 0
    BY <2>4
  <2> QED BY <2>1, <2>5
<1> QED BY <1>1, RunInvariant, PTL

\* run_with_retry: an agent that has reported is not called again, and the
\* policy's attempts are the most it is called.
THEOREM CallsBounded == Spec => NoCallAfterReport
<1>1. ASSUME WInv, Next, NEW a \in Agents, attempts'[a] # attempts[a]
      PROVE  working[a].outputs[a] = "none" /\ attempts[a] < policy.attempts
  <2>1. TypeOK /\ NodeInv(a)
    BY <1>1 DEF WInv
  <2>2. pc[a] = "calling"
    <3>1. PICK b \in Agents : NodeStep(b)
      BY <1>1 DEF Next, Coordinate, RouteToEnd, FanOut, Merge, RefuseUpdates, Abort, Over, node, vars
    <3>2. /\ attempts' # attempts
          /\ Succeed(b) \/ Degrade(b) \/ FailSafely(b) \/ Raise(b)
      BY <1>1, <3>1 DEF NodeStep, Start, Retry, Complete, Recover, RaiseAgain
    <3>3. pc[b] = "calling" /\ attempts' = [attempts EXCEPT ![b] = @ + 1]
      BY <3>2 DEF Succeed, Degrade, FailSafely, Raise, Report, At
    <3>4. a = b
      BY <1>1, <2>1, <3>3 DEF TypeOK
    <3> QED BY <3>3, <3>4
  <2>3. working[a] = Coordinated /\ attempts[a] < policy.attempts
    BY <2>1, <2>2 DEF NodeInv
  <2> QED BY <2>3, CoordinatedShape
<1>2. ASSUME WInv, [Next]_vars
      PROVE  [\A a \in Agents : attempts'[a] # attempts[a] =>
                working[a].outputs[a] = "none" /\ attempts[a] < policy.attempts]_vars
  BY <1>1, <1>2 DEF vars
<1> QED BY <1>2, RunInvariant, PTL DEF Spec, NoCallAfterReport
=============================================================================
