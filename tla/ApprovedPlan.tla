---------------------------- MODULE ApprovedPlan ----------------------------
(***************************************************************************)
(* What the operator who approved a plan is promised about its steps,      *)
(* whatever interleaves, fails to be written, or dies:                     *)
(*                                                                         *)
(*   - a step is performed on a licence, which the approval gives it once  *)
(*     and only a ruling that it never ran gives it again;                 *)
(*   - the record says that a step was begun before it is performed;       *)
(*   - the record never offers a performed step as one yet to be tried;    *)
(*   - what is performed under a budget was paid for, in the record, within *)
(*     the budget, and a budget is not forgotten while anything may be done. *)
(*                                                                         *)
(* Nothing is said here of threads, locks, snapshots or allowances read    *)
(* early.  PlanExecution is shown to implement it.                         *)
(***************************************************************************)
EXTENDS Naturals

CONSTANTS Steps, Budget

VARIABLES
    record,     \* what the durable record says of each step
    licensed,   \* the steps that may be performed
    performed,  \* how many times a step was performed, all steps together
    metered,    \* whether the record holds a budget for them
    paid        \* how many the record says were paid for

apVars == <<record, licensed, performed, metered, paid>>

\* "begun" may have been performed, "over" may not be performed again.
Entry == {"untried", "begun", "over"}

Init ==
    /\ record = [s \in Steps |-> "untried"]
    /\ licensed = Steps
    /\ performed = 0
    /\ metered = FALSE
    /\ paid = 0

Untried(r) == {s \in Steps : r[s] = "untried"}

\* The record is replaced.  It may lag, and a charge may be taken back, but it
\* offers only what may be performed, and its budget covers all that was.  Only
\* a record that leaves nothing to try may lose the budget, or find it again.
Write ==
    /\ record' \in [Steps -> Entry]
    /\ Untried(record') \subseteq licensed
    /\ metered' \in BOOLEAN
    /\ IF metered' THEN paid' \in performed..Budget ELSE paid' = 0
    /\ \/ metered' = metered
       \/ performed = 0
       \/ Untried(record') = {}
    /\ UNCHANGED <<licensed, performed>>

Perform(s) ==
    /\ s \in licensed \ Untried(record)
    /\ metered => performed < paid
    /\ licensed' = licensed \ {s}
    /\ performed' = performed + 1
    /\ UNCHANGED <<record, metered, paid>>

\* An operator rules that a step in doubt never ran, or the ruling is dropped
\* because it could not be written.
RuleNeverRan(s) ==
    /\ record[s] = "begun"
    /\ licensed' = licensed \cup {s}
    /\ UNCHANGED <<record, performed, metered, paid>>

DropRuling(s) ==
    /\ record[s] = "begun"
    /\ licensed' = licensed \ {s}
    /\ UNCHANGED <<record, performed, metered, paid>>

\* A restart knows the record only: a step it says was begun is in doubt.
Restart ==
    /\ licensed' = licensed \cap Untried(record)
    /\ UNCHANGED <<record, performed, metered, paid>>

Next ==
    \/ Write \/ Restart
    \/ \E s \in Steps : Perform(s) \/ RuleNeverRan(s) \/ DropRuling(s)

Spec == Init /\ [][Next]_apVars
=============================================================================
