---------------------------- MODULE LhpContract ----------------------------
(***************************************************************************)
(* The lhp.v1 handoff contract of app/lhp.py: the statuses a cross-loop    *)
(* handoff moves through, the graph it moves along and who may move it.    *)
(***************************************************************************)

HandoffStatuses ==
    {"requested", "accepted", "in_progress", "change_planned", "implemented",
     "blocked", "failed", "needs_human", "verified", "resolved", "cancelled",
     "expired"}

VerifierOnlyHandoffStatuses == {"verified", "resolved"}

\* _ALLOWED_HANDOFF_TRANSITIONS: the successors of each status.
AllowedHandoffTransitions ==
    [requested      |-> {"accepted", "blocked", "failed", "needs_human",
                         "cancelled", "expired"},
     accepted       |-> {"in_progress", "blocked", "failed", "needs_human",
                         "cancelled", "expired"},
     in_progress    |-> {"blocked", "failed", "needs_human", "change_planned",
                         "implemented", "cancelled", "expired"},
     change_planned |-> {"blocked", "failed", "needs_human", "implemented",
                         "cancelled", "expired"},
     implemented    |-> {"failed", "needs_human", "verified", "cancelled",
                         "expired"},
     verified       |-> {"resolved", "failed", "needs_human"},
     blocked        |-> {"accepted", "needs_human", "failed", "cancelled",
                         "expired"},
     failed         |-> {"accepted", "needs_human", "cancelled", "expired"},
     needs_human    |-> {"accepted", "in_progress", "cancelled", "expired"},
     resolved       |-> {},
     cancelled      |-> {},
     expired        |-> {}]

\* allowed_handoff_transition: only the NOC loop may set a verifier-only
\* status; restating the current status is always allowed.
AllowedHandoffTransition(current, target, actorLoop) ==
    /\ (target \in VerifierOnlyHandoffStatuses) => (actorLoop = "noc")
    /\ \/ current = target
       \/ target \in AllowedHandoffTransitions[current]

\* What HandoffUpdate validates when it is built: the statuses a loop other
\* than the NOC may put in an update.
UpdateStatuses == HandoffStatuses \ VerifierOnlyHandoffStatuses

\* HandoffUpdateType, by what the case service tells apart: the fix landed, or
\* any of the other seven progress reports.
UpdateTypes == {"change_applied", "progress"}
=============================================================================
