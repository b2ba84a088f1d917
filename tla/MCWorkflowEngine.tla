-------------------------- MODULE MCWorkflowEngine --------------------------
(* Three agents: one capability two of them offer, one nobody offers.  *)
EXTENDS WorkflowEngine

MCNames == <<"mitre_mapping", "soc_analyst", "threat_hunter">>

MCCapabilities == {"mitre", "log_analysis", "threat_hunting", "sandboxing"}

MCOffers == [mitre_mapping |-> {"mitre"},
             soc_analyst |-> {"log_analysis"},
             threat_hunter |-> {"log_analysis", "threat_hunting"}]

\* The policies the application runs with, and ones that retry and abort.
Defaults == [attempts |-> 1, retryable |-> {"external"}, action |-> "MANUAL_TRIAGE",
             abort |-> {}]
Impatient == [attempts |-> 2, retryable |-> {"agent", "external"},
              action |-> "ABORT_WORKFLOW", abort |-> {}]
Lenient == [attempts |-> 2, retryable |-> {"agent"}, action |-> "CONTINUE_DEGRADED",
            abort |-> {}]
DefaultPolicies == {Defaults}
AllPolicies == {Defaults, Impatient, Lenient}
=============================================================================
