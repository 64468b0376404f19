-------------------------- MODULE MCPlanExecution --------------------------
(***************************************************************************)
(* Instances of PlanExecution for TLC, and what a test and a comment of    *)
(* the repository say of it.                                               *)
(***************************************************************************)
EXTENDS PlanExecution

\* Plans of two steps that between them meet every way of treating a step.
TwoStepPlans ==
    {<<"network", "network">>, <<"network", "none">>, <<"revalidation", "local">>,
     <<"model", "network">>}

NetworkPlans == {<<"network", "network">>}
MixedPlans == {<<"network", "none">>, <<"local", "model">>}

\* test_the_step_is_charged_once (tests/research/test_concurrent_execution_state.py):
\* after two racing advances, what was spent equals the calls that were made.
ChargedForEveryCall ==
    AtRest /\ allowance.granted => calls.network <= allowance.network

\* ResearchPlanStepState.resolution: what an operator decided survives a
\* restart.  A ruling or recovery on disk is on the execution that is live.
RulingsSurviveRestart ==
    AtRest /\ exec # Absent =>
        \A s \in Steps :
            disk.exec.steps[s].resolution # "none" => exec.steps[s].resolution # "none"
=============================================================================
