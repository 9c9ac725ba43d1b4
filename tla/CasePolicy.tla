----------------------------- MODULE CasePolicy -----------------------------
(***************************************************************************)
(* app/cases/policy.py: the SecurityCase status graph, who may move a case *)
(* to which status, and the No-False-All-Clear gate.                       *)
(***************************************************************************)
EXTENDS Naturals

\* SecurityCasePolicy.active_statuses
ActiveStatuses ==
    {"open", "triaged", "context_requested", "investigating",
     "waiting_approval", "handoff_requested", "handoff_in_progress",
     "verification_pending", "blocked", "failed", "needs_human"}

TerminalStatuses == {"resolved", "closed"}

CaseStatuses == ActiveStatuses \cup TerminalStatuses

VerifierOnlyStatuses == {"resolved"}

\* _ALLOWED_TRANSITIONS: the successors of each status.
AllowedTransitions ==
    [open                 |-> {"triaged", "context_requested", "investigating",
                               "handoff_requested", "blocked", "needs_human",
                               "closed"},
     triaged              |-> {"handoff_requested", "investigating",
                               "waiting_approval", "blocked", "needs_human",
                               "resolved", "closed"},
     context_requested    |-> {"triaged", "investigating", "needs_human",
                               "closed"},
     investigating        |-> {"triaged", "waiting_approval",
                               "handoff_requested", "blocked", "needs_human",
                               "resolved", "closed"},
     waiting_approval     |-> {"handoff_requested", "blocked", "needs_human",
                               "closed"},
     handoff_requested    |-> {"handoff_in_progress", "verification_pending",
                               "blocked", "failed", "needs_human", "closed"},
     handoff_in_progress  |-> {"verification_pending", "blocked", "failed",
                               "needs_human", "resolved", "closed"},
     verification_pending |-> {"resolved", "failed", "needs_human",
                               "handoff_in_progress", "closed"},
     blocked              |-> {"triaged", "handoff_requested", "needs_human",
                               "failed", "closed"},
     failed               |-> {"triaged", "handoff_requested", "needs_human",
                               "closed"},
     needs_human          |-> {"triaged", "investigating",
                               "handoff_requested", "closed"},
     resolved             |-> {"open", "closed"},
     closed               |-> {"open"}]

\* allowed_transition: the verifier-only test comes first, so the graph's own
\* edges into "resolved" are never consulted.
AllowedTransition(current, target, actor) ==
    IF target \in VerifierOnlyStatuses
      THEN /\ actor = "verifier"
           /\ current = target \/ current \in ActiveStatuses
      ELSE current = target \/ target \in AllowedTransitions[current]

\* Mutant of CanResolve: one pass short of the threshold is enough.
CanResolveOnePassShort(case, required) ==
    /\ ~case.last_scan_degraded
    /\ case.observed_passing
    /\ case.consecutive_pass_count + 1 >= required

\* can_resolve: the No-False-All-Clear gate.
CanResolve(case, required) ==
    /\ ~case.last_scan_degraded
    /\ case.observed_passing
    /\ case.consecutive_pass_count >= required
=============================================================================
