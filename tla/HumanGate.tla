------------------------------ MODULE HumanGate ------------------------------
(***************************************************************************)
(* What the SOC workflow promises its operators (architecture.md,          *)
(* implementation-plan.md): it only ever asks.  The question carries a     *)
(* severity and whether the finding warrants a handoff; it stands until it *)
(* is answered, once; it never keeps from the human a handoff the scanner  *)
(* found warranted; and a handoff is requested only after a yes to a       *)
(* question that said one is warranted.  The severity in it is whatever    *)
(* the specialist made of it: nothing is promised of that.                 *)
(***************************************************************************)
CONSTANTS
    Threads,        \* the runs of the workflow
    Finding,        \* what the scanner finds
    Severities,     \* what a question may say of its severity
    NoQuestion      \* what is shown of a run that asks nothing yet

VARIABLES
    found,          \* found[t]: the scanner's finding
    stage,          \* stage[t]: where the run is with its human
    shown,          \* shown[t]: what the question of the run says
    requested       \* requested[t]: is a handoff requested?

vars == <<found, stage, shown, requested>>

Stages == {"working", "failed", "asked", "agreed", "closed"}

Question == [severity : Severities, warrants : BOOLEAN]

\* Nobody is talked out of a handoff.
Grounded(f, q) == f.warrants => q.warrants

Init ==
    /\ found \in [Threads -> Finding]
    /\ stage = [t \in Threads |-> "working"]
    /\ shown = [t \in Threads |-> NoQuestion]
    /\ requested = [t \in Threads |-> FALSE]

Ask(t) ==
    /\ stage[t] = "working"
    /\ \E q \in Question :
          /\ Grounded(found[t], q)
          /\ shown' = [shown EXCEPT ![t] = q]
    /\ stage' = [stage EXCEPT ![t] = "asked"]
    /\ UNCHANGED <<found, requested>>

Fail(t) ==
    /\ stage[t] = "working"
    /\ stage' = [stage EXCEPT ![t] = "failed"]
    /\ UNCHANGED <<found, shown, requested>>

\* A yes to a question that says no handoff is warranted closes the run too.
Answer(t) ==
    /\ stage[t] = "asked"
    /\ \/ stage' = [stage EXCEPT ![t] = "closed"]
       \/ shown[t].warrants /\ stage' = [stage EXCEPT ![t] = "agreed"]
    /\ UNCHANGED <<found, shown, requested>>

Request(t) ==
    /\ stage[t] = "agreed"
    /\ requested' = [requested EXCEPT ![t] = TRUE]
    /\ stage' = [stage EXCEPT ![t] = "closed"]
    /\ UNCHANGED <<found, shown>>

Next == \E t \in Threads : Ask(t) \/ Fail(t) \/ Answer(t) \/ Request(t)

Spec == Init /\ [][Next]_vars

=============================================================================
