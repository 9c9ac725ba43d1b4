---------------------------- MODULE CaseService ----------------------------
(***************************************************************************)
(* What the operations of app/cases/service.py and app/cases/verifier.py   *)
(* do to one SecurityCase record. The record keeps the fields that decide  *)
(* a transition or a resolution; titles, timestamps, severity and the      *)
(* append-only event trail are left out.                                   *)
(***************************************************************************)
EXTENDS CasePolicy, LhpContract

CONSTANTS
    Required,       \* required_consecutive_passes of every case
    AutoResolve,    \* SOC_CASE_AUTO_RESOLVE_ENABLED
    DryRun          \* SOC_CASE_VERIFICATION_DRY_RUN

\* SecurityCase.required_consecutive_passes is declared with ge=1.
ASSUME RequiredAssumption == Required \in Nat \ {0}
ASSUME SwitchAssumption == AutoResolve \in BOOLEAN /\ DryRun \in BOOLEAN

\* No handoff has been built, or no case has been opened, for a control.
Absent == "absent"

\* SecurityCase; "absent" where the store holds no case for the fingerprint.
Case ==
    [status                 : CaseStatuses \cup {Absent},
     consecutive_pass_count : Nat,
     last_scan_degraded     : BOOLEAN,
     observed_passing       : BOOLEAN,  \* last_observed_passing is set
     handoff_linked         : BOOLEAN,  \* handoff_ids is not empty
     handoff_status         : HandoffStatuses \cup {Absent},
     issue_recorded         : BOOLEAN]  \* issue_url is set

NoCase ==
    [status |-> Absent, consecutive_pass_count |-> 0,
     last_scan_degraded |-> FALSE, observed_passing |-> FALSE,
     handoff_linked |-> FALSE, handoff_status |-> Absent,
     issue_recorded |-> FALSE]

Exists(case) == case.status # Absent

\* _transition: a move the policy refuses raises and leaves the case alone.
Transition(case, target, actor) ==
    IF AllowedTransition(case.status, target, actor)
      THEN [case EXCEPT !.status = target]
      ELSE case

\* Mutant of Refreshed: the clean streak survives a failing read.
RefreshedKeepsStreak(case) ==
    [case EXCEPT !.status = IF @ \in TerminalStatuses \cup {Absent}
                              THEN "open" ELSE @,
                 !.last_scan_degraded = FALSE]

\* What _record_failing puts first: a new case is open, a resolved or closed
\* one is reopened, and the clean streak starts again.
Refreshed(case) ==
    [case EXCEPT !.status = IF @ \in TerminalStatuses \cup {Absent}
                              THEN "open" ELSE @,
                 !.last_scan_degraded = FALSE,
                 !.consecutive_pass_count = 0]

\* observe_finding of a firing finding. A new or reopened case is put as
\* "open" and triaged at once by a second put.
RecordFailing(case) ==
    IF case.status \in TerminalStatuses \cup {Absent}
      THEN Transition(Refreshed(case), "triaged", "loop")
      ELSE Refreshed(case)

\* Mutant of RecordPassing: a pass does not clear last_scan_degraded.
RecordPassingStillDegraded(case) ==
    IF case.status \in ActiveStatuses
      THEN [case EXCEPT !.observed_passing = TRUE,
                        !.consecutive_pass_count = @ + 1]
      ELSE case

\* observe_finding of a passing finding: a positive re-check of an active
\* case, nothing otherwise.
RecordPassing(case) ==
    IF case.status \in ActiveStatuses
      THEN [case EXCEPT !.observed_passing = TRUE,
                        !.last_scan_degraded = FALSE,
                        !.consecutive_pass_count = @ + 1]
      ELSE case

\* note_scan_degraded: the streak is carried forward.
NoteScanDegraded(case) == [case EXCEPT !.last_scan_degraded = TRUE]

\* request_handoff raises, after the handoff and its objective are stored,
\* when the policy forbids the move.
CanRequestHandoff(case) ==
    \/ case.status \in {"handoff_requested", "handoff_in_progress"}
    \/ AllowedTransition(case.status, "handoff_requested", "loop")

\* Mutant of HandedOff: the new handoff is not added to handoff_ids.
HandedOffUnlinked(case) ==
    [case EXCEPT !.status = "handoff_requested",
                 !.handoff_status = "requested"]

\* request_handoff's write of the case.
HandedOff(case) ==
    [case EXCEPT !.status = IF @ \in {"handoff_requested", "handoff_in_progress"}
                              THEN @ ELSE "handoff_requested",
                 !.handoff_linked = TRUE,
                 !.handoff_status = "requested"]

\* _HANDOFF_TO_CASE_STATUS
HandoffToCaseStatus ==
    [accepted       |-> "handoff_in_progress",
     in_progress    |-> "handoff_in_progress",
     change_planned |-> "handoff_in_progress",
     implemented    |-> "verification_pending",
     blocked        |-> "blocked",
     failed         |-> "failed",
     needs_human    |-> "needs_human"]

\* The case status an engineering update asks for; Absent when it asks for none.
UpdateTarget(update) ==
    IF update.type = "change_applied" THEN "verification_pending"
    ELSE IF update.status \in DOMAIN HandoffToCaseStatus
           THEN HandoffToCaseStatus[update.status]
           ELSE Absent

\* Mutant of EngineeringUpdated: an applied change is taken for a resolution.
EngineeringUpdatedResolves(case, update) ==
    [case EXCEPT !.status = IF /\ update.type = "change_applied"
                               /\ @ \in ActiveStatuses
                              THEN "resolved" ELSE @,
                 !.handoff_status = update.status]

\* record_engineering_update's write of the case: the move is made only if the
\* policy allows it; handoff_status is overwritten either way.
EngineeringUpdated(case, update) ==
    LET target == UpdateTarget(update)
    IN  [case EXCEPT !.status =
                        IF /\ target # Absent
                           /\ AllowedTransition(@, target, "engineering")
                          THEN target ELSE @,
                     !.handoff_status = update.status]

\* SecurityVerifier.verify_case: whether it resolves, and the case it puts.
VerifierResolves(case) ==
    /\ case.status \in ActiveStatuses
    /\ CanResolve(case, Required)
    /\ AutoResolve /\ ~DryRun
    /\ AllowedTransition(case.status, "resolved", "verifier")

Verified(case) ==
    IF VerifierResolves(case)
      THEN [case EXCEPT !.status = "resolved",
                        !.handoff_status = IF case.handoff_linked
                                             THEN "resolved" ELSE @]
      ELSE case
=============================================================================
