--------------------------- MODULE WorkflowEngine ---------------------------
(***************************************************************************)
(* One investigation run: the Coordinator plans, the graph fans out to the *)
(* planned agents in one superstep, and what they return is merged.        *)
(*                                                                         *)
(* The agents of a superstep run on threads.  Each gets a private copy of  *)
(* the shared state; what it adds to that copy is cut out as an update     *)
(* (_diff_state_update) and the updates are merged, field by field, when   *)
(* all nodes of the superstep are done.  List and dict fields have a       *)
(* reducer; requires_manual_triage has none, so LangGraph refuses a        *)
(* superstep in which two nodes write it.                                  *)
(*                                                                         *)
(* A list field is a sequence of the names of the nodes that appended      *)
(* (thoughts stands for execution_history too), agent_outputs (and         *)
(* confidence_scores) a function from nodes to the status of the result.   *)
(***************************************************************************)
EXTENDS Naturals, FiniteSets, SequencesExt

CONSTANTS
    Names,          \* the specialist agents, sorted by name
    Capabilities,
    Offers,         \* the capabilities each agent is registered with
    Policies        \* a RetryPolicy and a FailureRecoveryPolicy in one record

VARIABLES
    evidence,   \* whether the case has any
    required,   \* metadata["required_capabilities"]
    policy,     \* what the engine was built with
    phase,      \* of the run
    shared,     \* the graph's CaseInvestigationState
    pc,         \* where the node of each agent is
    working,    \* its private copy
    attempts,   \* how often its agent has been called
    update,     \* what it has returned
    merged,     \* how many agents' updates have been merged
    metrics     \* MetricsCollector, fed by the agent events

vars == <<evidence, required, policy, phase, shared, pc, working, attempts,
          update, merged, metrics>>
input == <<evidence, required, policy>>
node == <<pc, working, attempts, update, metrics>>

Agents == ToSet(Names)
Nodes == Agents \cup {"coordinator", "planning_agent"}

\* What can go wrong inside execute(): a ToolExecutionError, an
\* ExternalServiceError, an AgentExecutionError, anything else.
Errors == {"tool", "external", "agent", "other"}
Status == {"SUCCEEDED", "DEGRADED", "FAILED"}

ASSUME NamesAssumption ==
    /\ Names \in Seq(Agents) /\ IsInjective(Names)
    /\ Agents \cap {"coordinator", "planning_agent"} = {}
ASSUME OffersAssumption == Offers \in [Agents -> SUBSET Capabilities]
ASSUME PoliciesAssumption ==
    Policies \subseteq [attempts : Nat \ {0}, retryable : SUBSET Errors, abort : SUBSET Errors,
                       action : {"CONTINUE_DEGRADED", "MANUAL_TRIAGE", "ABORT_WORKFLOW"}]

State == [findings : Seq(Agents), thoughts : Seq(Nodes), errors : Seq(Nodes),
          outputs : [Nodes -> Status \cup {"none"}],
          plan : SUBSET Agents, triage : BOOLEAN]

Update == [findings : Seq(Agents), thoughts : Seq(Nodes), errors : Seq(Nodes),
           outputs : UNION {[N -> Status] : N \in SUBSET Nodes}, triage : BOOLEAN]

Empty == [findings |-> <<>>, thoughts |-> <<>>, errors |-> <<>>,
          outputs |-> [n \in Nodes |-> "none"], plan |-> {}, triage |-> FALSE]

NoUpdate == [findings |-> <<>>, thoughts |-> <<>>, errors |-> <<>>,
             outputs |-> <<>>, triage |-> FALSE]

-----------------------------------------------------------------------------
(* Planning and routing. *)

Candidates(c) == {a \in Agents : c \in Offers[a]}

\* min(candidates, key=name).
Chosen(c) == Names[Min({i \in DOMAIN Names : Names[i] \in Candidates(c)})]

\* A slip: an unmatched capability empties the plan.
PlanAllOrNothing(C) ==
    IF \A c \in C : Candidates(c) # {} THEN {Chosen(c) : c \in C} ELSE {}

\* PlanningAgent: one step per capability an agent offers; the same agent may
\* be chosen twice and is one node of the graph.
PlanFor(C) == {Chosen(c) : c \in {d \in C : Candidates(d) # {}}}

PlanningStatus(C) ==
    IF \A c \in C : Candidates(c) # {} THEN "SUCCEEDED" ELSE "DEGRADED"

\* CoordinatorAgent.execute: without any signal, or with an empty plan, the
\* case is flagged.  Its node ran alone, so the update is merged as it is.
Coordinated ==
    LET asked == evidence \/ required # {}
        plan == IF asked THEN PlanFor(required) ELSE {}
    IN  [Empty EXCEPT
           !.plan = plan,
           !.triage = plan = {},
           !.thoughts = IF asked THEN <<"planning_agent", "coordinator">>
                                 ELSE <<"coordinator">>,
           !.outputs["coordinator"] = IF plan = {} THEN "DEGRADED" ELSE "SUCCEEDED",
           !.outputs["planning_agent"] = IF asked THEN PlanningStatus(required) ELSE @]

Coordinate ==
    /\ phase = "started"
    /\ shared' = Coordinated
    /\ metrics' = [metrics EXCEPT !["coordinator"] =
                     [invocations |-> 1, successes |-> 1, failures |-> 0]]
    /\ phase' = "routing"
    /\ UNCHANGED <<input, pc, working, attempts, update, merged>>

\* route_from_coordinator: to END, which completes the run.
RouteToEnd ==
    /\ phase = "routing"
    /\ shared.triage \/ shared.plan = {}
    /\ phase' = "completed"
    /\ UNCHANGED <<input, shared, merged, node>>

FanOut ==
    /\ phase = "routing"
    /\ ~shared.triage /\ shared.plan # {}
    /\ phase' = "superstep"
    /\ pc' = [a \in Agents |-> IF a \in shared.plan THEN "scheduled" ELSE "idle"]
    /\ UNCHANGED <<input, shared, working, attempts, update, merged, metrics>>

-----------------------------------------------------------------------------
(* The node of agent a. *)

\* A slip: the nodes of a superstep work on one object.
Aliased(a) ==
    IF \E b \in shared.plan : pc[b] = "returned"
    THEN working[CHOOSE b \in shared.plan : pc[b] = "returned"]
    ELSE shared

Private(a) == shared

At(a, place) == phase = "superstep" /\ pc[a] = place
Goto(a, place) == pc' = [pc EXCEPT ![a] = place]

Start(a) ==
    /\ At(a, "scheduled")
    /\ working' = [working EXCEPT ![a] = Private(a)]
    /\ metrics' = [metrics EXCEPT ![a].invocations = @ + 1]
    /\ Goto(a, "calling")
    /\ UNCHANGED <<input, phase, shared, merged, attempts, update>>

\* BaseAgent.__call__ when execute() returned, or was made to return, a result.
Reported(s, a, status, findings, errors) ==
    [s EXCEPT !.findings = @ \o findings,
              !.thoughts = Append(@, a),
              !.outputs  = [@ EXCEPT ![a] = status],
              !.errors   = @ \o errors]

Report(a, status, findings, errors) ==
    /\ At(a, "calling")
    /\ working' = [working EXCEPT ![a] = Reported(@, a, status, findings, errors)]
    /\ attempts' = [attempts EXCEPT ![a] = @ + 1]
    /\ Goto(a, "returned")
    /\ UNCHANGED <<input, phase, shared, merged, update, metrics>>

Succeed(a) == Report(a, "SUCCEEDED", <<a>>, <<>>)

\* A tool failed, or there was too little evidence.
Degrade(a) == Report(a, "DEGRADED", <<>>, <<>>)

\* Any other exception but AgentExecutionError, transient ones included.
FailSafely(a) == Report(a, "FAILED", <<>>, <<a>>)

\* Slips: an off-by-one of the attempts; attempts that are not counted.
RaiseOnceMore(a) ==
    /\ At(a, "calling")
    /\ attempts' = [attempts EXCEPT ![a] = @ + 1]
    /\ Goto(a, IF attempts[a] < policy.attempts THEN "backoff" ELSE "escaped")
    /\ UNCHANGED <<input, phase, shared, merged, working, update, metrics>>

RaiseUncounted(a) ==
    /\ At(a, "calling")
    /\ Goto(a, "backoff")
    /\ UNCHANGED <<input, phase, shared, merged, working, attempts, update, metrics>>

\* An AgentExecutionError leaves __call__; run_with_retry may catch it.
Raise(a) ==
    /\ At(a, "calling")
    /\ attempts' = [attempts EXCEPT ![a] = @ + 1]
    /\ Goto(a, IF "agent" \in policy.retryable /\ attempts[a] + 1 < policy.attempts
               THEN "backoff" ELSE "escaped")
    /\ UNCHANGED <<input, phase, shared, merged, working, update, metrics>>

Retry(a) ==
    /\ At(a, "backoff")
    /\ Goto(a, "calling")
    /\ UNCHANGED <<input, phase, shared, merged, working, attempts, update, metrics>>

\* A slip: a list field is returned whole.
Everything(before, after) == after

\* _diff_state_update, against the state the node was given.
Added(before, after) == SubSeq(after, Len(before) + 1, Len(after))

\* A slip: a dict field is returned whole.
DiffWholeDict(before, after) ==
    [findings |-> Added(before.findings, after.findings),
     thoughts |-> Added(before.thoughts, after.thoughts),
     errors   |-> Added(before.errors, after.errors),
     outputs  |-> after.outputs,
     triage   |-> after.triage # before.triage]

Diff(before, after) ==
    [findings |-> Added(before.findings, after.findings),
     thoughts |-> Added(before.thoughts, after.thoughts),
     errors   |-> Added(before.errors, after.errors),
     outputs  |-> [n \in {m \in Nodes : after.outputs[m] # before.outputs[m]}
                     |-> after.outputs[n]],
     triage   |-> after.triage # before.triage]

\* AGENT_COMPLETED, whatever the status of the result.
Complete(a) ==
    /\ At(a, "returned")
    /\ metrics' = [metrics EXCEPT ![a].successes = @ + 1]
    /\ update' = [update EXCEPT ![a] = Diff(shared, working[a])]
    /\ Goto(a, "done")
    /\ UNCHANGED <<input, phase, shared, merged, working, attempts>>

\* AGENT_FAILED, then recover().
Aborts == "agent" \in policy.abort \/ policy.action = "ABORT_WORKFLOW"

\* A slip: the error is recorded, the case is not flagged.
RecoveredQuietly(s, a) == [s EXCEPT !.errors = Append(@, a)]

Recovered(s, a) ==
    [s EXCEPT !.errors = Append(@, a),
              !.triage = @ \/ policy.action = "MANUAL_TRIAGE"]

\* A slip: AGENT_FAILED is not published.
RecoverUnpublished(a) ==
    /\ At(a, "escaped")
    /\ ~Aborts
    /\ update' = [update EXCEPT ![a] = Diff(shared, Recovered(working[a], a))]
    /\ Goto(a, "done")
    /\ UNCHANGED <<input, phase, shared, merged, working, attempts, metrics>>

Recover(a) ==
    /\ At(a, "escaped")
    /\ ~Aborts
    /\ metrics' = [metrics EXCEPT ![a].failures = @ + 1]
    /\ working' = [working EXCEPT ![a] = Recovered(@, a)]
    /\ update' = [update EXCEPT ![a] = Diff(shared, Recovered(working[a], a))]
    /\ Goto(a, "done")
    /\ UNCHANGED <<input, phase, shared, merged, attempts>>

RaiseAgain(a) ==
    /\ At(a, "escaped")
    /\ Aborts
    /\ metrics' = [metrics EXCEPT ![a].failures = @ + 1]
    /\ Goto(a, "aborting")
    /\ UNCHANGED <<input, phase, shared, merged, working, attempts, update>>

-----------------------------------------------------------------------------
(* The end of the superstep. *)

AllDone == phase = "superstep" /\ \A a \in shared.plan : pc[a] = "done"

Conflict == \E a, b \in shared.plan : a # b /\ update[a].triage /\ update[b].triage

\* {**left, **right}
MergeDicts(left, right) ==
    [n \in DOMAIN left |-> IF n \in DOMAIN right THEN right[n] ELSE left[n]]

\* The reducers of CaseInvestigationState.
Reduce(s, u) ==
    [s EXCEPT !.findings = @ \o u.findings,
              !.thoughts = @ \o u.thoughts,
              !.errors   = @ \o u.errors,
              !.outputs  = MergeDicts(@, u.outputs),
              !.triage   = @ \/ u.triage]

\* The reducers take one node's update after the other, in the order of the
\* names; after the last one invoke() returns.
Merge ==
    /\ AllDone
    /\ ~Conflict
    /\ shared' = Reduce(shared, update[Names[merged + 1]])
    /\ merged' = merged + 1
    /\ phase' = IF merged' = Len(Names) THEN "completed" ELSE phase
    /\ UNCHANGED <<input, node>>

\* InvalidUpdateError leaves invoke() and run().
RefuseUpdates ==
    /\ AllDone
    /\ Conflict
    /\ phase' = "crashed"
    /\ UNCHANGED <<input, shared, merged, node>>

\* A node raised: those already running finish, the others may never start.
Abort ==
    /\ phase = "superstep"
    /\ \E a \in shared.plan : pc[a] = "aborting"
    /\ \A a \in shared.plan : pc[a] \in {"scheduled", "done", "aborting"}
    /\ phase' = "aborted"
    /\ UNCHANGED <<input, shared, merged, node>>

Over == phase \in {"completed", "crashed", "aborted"} /\ UNCHANGED vars

-----------------------------------------------------------------------------
Init ==
    /\ evidence \in BOOLEAN
    /\ required \in SUBSET Capabilities
    /\ policy \in Policies
    /\ phase = "started"
    /\ shared = Empty
    /\ pc = [a \in Agents |-> "idle"]
    /\ working = [a \in Agents |-> Empty]
    /\ attempts = [a \in Agents |-> 0]
    /\ update = [a \in Agents |-> NoUpdate]
    /\ merged = 0
    /\ metrics = [n \in Agents \cup {"coordinator"} |->
                    [invocations |-> 0, successes |-> 0, failures |-> 0]]

NodeStep(a) ==
    \/ Start(a) \/ Succeed(a) \/ Degrade(a) \/ FailSafely(a)
    \/ Raise(a) \/ Retry(a) \/ Complete(a) \/ Recover(a) \/ RaiseAgain(a)

Next ==
    \/ Coordinate \/ RouteToEnd \/ FanOut
    \/ \E a \in Agents : NodeStep(a)
    \/ Merge \/ RefuseUpdates \/ Abort
    \/ Over

Spec == Init /\ [][Next]_vars

\* Every thread of the superstep runs, and invoke() goes on when they are done.
FairSpec == Spec /\ WF_vars(Next)

-----------------------------------------------------------------------------
(* Properties. *)

Finished == phase \in {"completed", "crashed", "aborted"}
Times(x, s) == Cardinality({i \in DOMAIN s : s[i] = x})

\* The shape of the state.
TypeOK ==
    /\ evidence \in BOOLEAN
    /\ required \subseteq Capabilities
    /\ policy \in Policies
    /\ phase \in {"started", "routing", "superstep", "completed", "crashed", "aborted"}
    /\ shared \in State
    /\ pc \in [Agents -> {"idle", "scheduled", "calling", "backoff", "returned",
                          "escaped", "aborting", "done"}]
    /\ working \in [Agents -> State]
    /\ attempts \in [Agents -> 0 .. policy.attempts]
    /\ update \in [Agents -> Update]
    /\ merged \in 0 .. Len(Names)
    /\ metrics \in [Agents \cup {"coordinator"} ->
                      [invocations : 0 .. 1, successes : 0 .. 1, failures : 0 .. 1]]

\* The merge neither loses nor doubles: in a completed run every planned agent
\* has one thought and one output, or no trace but the error of its escape, and
\* its findings once if it succeeded; nothing else was added.
MergedOnce ==
    phase = "completed" =>
        /\ Times("coordinator", shared.thoughts) = 1
        /\ \A a \in Agents :
             LET status == shared.outputs[a]
             IN  /\ Times(a, shared.findings) = (IF status = "SUCCEEDED" THEN 1 ELSE 0)
                 /\ Times(a, shared.thoughts) = (IF status # "none" THEN 1 ELSE 0)
                 /\ Times(a, shared.errors) =
                      (IF a \in shared.plan /\ status \in {"none", "FAILED"} THEN 1 ELSE 0)

\* While the superstep runs, no node's copy shows what a sibling has done.
SiblingsUnseen ==
    \A a, b \in Agents : a # b =>
        /\ Times(b, working[a].thoughts) = 0
        /\ Times(b, working[a].findings) = 0
        /\ working[a].outputs[b] = "none"

\* No escaped failure is lost: a run that completes under the manual-triage
\* policy with an agent that never reported has flagged the case.
EscapesAreTriaged ==
    policy.action = "MANUAL_TRIAGE" /\ phase = "completed" =>
        (shared.triage <=> \/ shared.plan = {}
                           \/ \E a \in shared.plan : shared.outputs[a] = "none")

\* Of a run that is over, the events account for every invocation that was
\* started, and a run that completed started each planned agent.
MetricsBalance ==
    Finished =>
        \A a \in Agents :
            /\ metrics[a].invocations = metrics[a].successes + metrics[a].failures
            /\ phase # "aborted" =>
                 (metrics[a].invocations = 1 <=> a \in shared.plan)

\* Every capability of the case that some agent offers is answered, by a report
\* or a recorded failure of an agent that offers it.
CapabilitiesCovered ==
    phase = "completed" =>
        \A c \in required : Candidates(c) # {} =>
            \E a \in Candidates(c) : shared.outputs[a] # "none"
                                     \/ Times(a, shared.errors) > 0

\* An agent is not called again once it has reported, and no call is made that
\* the policy does not allow.
NoCallAfterReport ==
    [][\A a \in Agents : attempts'[a] # attempts[a] =>
         working[a].outputs[a] = "none" /\ attempts[a] < policy.attempts]_vars

\* core/graph/failure_recovery.py: MANUAL_TRIAGE flags the case; the graph still
\* completes, not crashes.
TriageNeverCrashes == phase # "crashed"

\* Every run is over at some time, whichever agents fail.
RunEnds == <>Finished
=============================================================================
