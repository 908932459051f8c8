----------------------------- MODULE MCWorkflowRun -----------------------------
(* The three workflows of workflows/definitions, with the dataset groups their *)
(* DATA_REQUIREMENTS ask for.                                                  *)
EXTENDS WorkflowRun

CollectorWorkflow   == [step_sequence |-> <<collect_data, Auditor>>,
                        groups |-> SourceKinds]
FundamentalWorkflow == [step_sequence |-> <<collect_data, Auditor, Fundamental>>,
                        groups |-> SourceKinds]
TechnicalWorkflow   == [step_sequence |-> <<collect_data, Technical>>,
                        groups |-> {"price", "profile"}]

MCWorkflows == {CollectorWorkflow, FundamentalWorkflow, TechnicalWorkflow}
MCFundamental == {FundamentalWorkflow}
================================================================================
