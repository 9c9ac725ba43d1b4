--------------------------- MODULE CaseLifecycle ---------------------------
(***************************************************************************)
(* The life of SOC security cases, one per control (a finding              *)
(* fingerprint), in one coherent store. Four parties act on it, in any     *)
(* order: the posture loop (app/posture/loop.py), the verification loop    *)
(* (app/posture/verification.py), the Engineering Loop's callbacks         *)
(* (app/main.py, record_engineering_update) and callers of the service's   *)
(* own transitions. The controls themselves drift and get fixed.           *)
(*                                                                         *)
(* A case has one fingerprint and one objective, so its handoff is unique  *)
(* (the idempotency key) and handoffs and objectives are indexed by        *)
(* control. An operation is one step here; CaseJournal splits them.        *)
(***************************************************************************)
EXTENDS CaseService

CONSTANTS
    Controls,       \* the fingerprints the scanner can emit
    RpkiControls,   \* those of check_rpki_in_frr: they also fire when `show rpki
                    \* cache-connection` is refused or raises
    DnsControls,    \* those of check_dns_ownership: one of their two queries is
                    \* enough for a pass, and their resource, a domain, is no host
    KeyControls,    \* those of committed WireGuard keys: no scan ever passes them
    Events,         \* external_event_ids the Engineering Loop may use
    Modes,          \* the rollout modes the posture loop is run in
    ServiceTargets, \* the moves callers of the service ask for by hand
    Misaddressed,   \* may a callback name a case other than its handoff's?
    MaxPasses       \* bound: passes the posture loop adds to one streak

ASSUME ControlsAssumption ==
    RpkiControls \cup DnsControls \cup KeyControls \subseteq Controls
ASSUME ModesAssumption ==
    Modes \subseteq {"case_only", "handoff_dry", "handoff_live"}
ASSUME ServiceTargetsAssumption == ServiceTargets \subseteq {"triaged", "needs_human"}
ASSUME MisaddressedAssumption == Misaddressed \in BOOLEAN
ASSUME MaxPassesAssumption == MaxPasses \in Nat

VARIABLES
    cases,          \* the case of each control
    handoffs,       \* the status of its handoff record
    objectives,     \* the status of its verification objective
    callbacks,      \* the event ids in the callback inbox
    live,           \* the control as it is in the network: "ok" or "drift"
    clean,          \* history: passing reads folded since the last failing
                    \* read folded, up to Required
    seen            \* history: passing reads folded since the last failing
                    \* read of any scan, folded or not, up to Required

store == <<cases, handoffs, objectives, callbacks>>
vars == <<cases, handoffs, objectives, callbacks, live, clean, seen>>

Updates ==
    {u \in [handoff : Controls, case : Controls, status : UpdateStatuses,
            type : UpdateTypes] : Misaddressed \/ u.case = u.handoff}

Init ==
    /\ cases = [c \in Controls |-> NoCase]
    /\ handoffs = [c \in Controls |-> Absent]
    /\ objectives = [c \in Controls |-> Absent]
    /\ callbacks = {}
    /\ live \in [Controls -> {"ok", "drift"}]
    /\ clean = [c \in Controls |-> 0]
    /\ seen = [c \in Controls |-> 0]

-----------------------------------------------------------------------------
(* History of the reads, for the properties. *)

Bump(n) == IF n < Required THEN n + 1 ELSE n

PassFolded(c) ==
    /\ clean' = [clean EXCEPT ![c] = Bump(@)]
    /\ seen' = [seen EXCEPT ![c] = Bump(@)]

FailureFolded(c) ==
    /\ clean' = [clean EXCEPT ![c] = 0]
    /\ seen' = [seen EXCEPT ![c] = 0]

FailureSkipped(c) ==
    /\ seen' = [seen EXCEPT ![c] = 0]
    /\ UNCHANGED clean

NoRead == UNCHANGED <<clean, seen>>

-----------------------------------------------------------------------------
(* The network. *)

ControlDrifts(c) ==
    /\ live[c] = "ok"
    /\ live' = [live EXCEPT ![c] = "drift"]
    /\ UNCHANGED store /\ NoRead

ControlFixed(c) ==
    /\ live[c] = "drift"
    /\ live' = [live EXCEPT ![c] = "ok"]
    /\ UNCHANGED store /\ NoRead

-----------------------------------------------------------------------------
(* What a scan may report of a control. It reports nothing of one whose     *)
(* read has been skipped, and that touches nothing.                         *)

ReadsAsFiring(c) == live[c] = "drift" \/ c \in RpkiControls

ReadsAsPassing(c) ==
    c \notin KeyControls /\ (live[c] = "ok" \/ c \in DnsControls)

-----------------------------------------------------------------------------
(* The posture loop, finding by finding, whether the scan was degraded or   *)
(* not.                                                                     *)

\* run_once folds every passing finding.
LoopFoldsPassing(c) ==
    /\ ReadsAsPassing(c)
    /\ cases[c].consecutive_pass_count < MaxPasses
    /\ cases' = [cases EXCEPT ![c] = RecordPassing(@)]
    /\ PassFolded(c)
    /\ UNCHANGED <<handoffs, objectives, callbacks, live>>

\* A firing finding that evaluate_gate refuses (severity floor, daily budgets)
\* or that the per-cycle cap defers is reported and not observed.
LoopSkipsFiring(c) ==
    /\ ReadsAsFiring(c)
    /\ FailureSkipped(c)
    /\ UNCHANGED <<store, live>>

\* A firing finding acted on without a handoff.
LoopObservesFiring(c) ==
    /\ ReadsAsFiring(c)
    /\ cases' = [cases EXCEPT ![c] = RecordFailing(@)]
    /\ FailureFolded(c)
    /\ UNCHANGED <<handoffs, objectives, callbacks, live>>

ModeBuildsHandoff(mode) == mode \in {"handoff_dry", "handoff_live"}
ModePostsHandoff(mode) == mode = "handoff_live"

\* ensure_candidate_issue may return a url, which record_issue stores.
IssuePosted(case, mode, url) ==
    [case EXCEPT !.issue_recorded = @ \/ (ModePostsHandoff(mode) /\ url)]

\* A firing finding acted on with a handoff that is already stored:
\* request_handoff returns it before it touches the case.
LoopFindsHandoff(c, mode, url) ==
    /\ ReadsAsFiring(c)
    /\ ModeBuildsHandoff(mode)
    /\ handoffs[c] # Absent
    /\ cases' = [cases EXCEPT ![c] = IssuePosted(RecordFailing(@), mode, url)]
    /\ FailureFolded(c)
    /\ UNCHANGED <<handoffs, objectives, callbacks, live>>

\* Mutant of LoopRequestsHandoff: the case moves and nothing is stored.
LoopRequestsHandoffUnstored(c, mode, url) ==
    /\ ReadsAsFiring(c)
    /\ ModeBuildsHandoff(mode)
    /\ handoffs[c] = Absent
    /\ cases' = [cases EXCEPT ![c] = HandedOff(RecordFailing(@))]
    /\ FailureFolded(c)
    /\ UNCHANGED <<handoffs, objectives, callbacks, live>>

\* A firing finding acted on with a new handoff. If the policy forbids the
\* case's move, request_handoff raises: the handoff and objective stay stored,
\* the case is not written again and the cycle ends.
LoopRequestsHandoff(c, mode, url) ==
    /\ ReadsAsFiring(c)
    /\ ModeBuildsHandoff(mode)
    /\ handoffs[c] = Absent
    /\ handoffs' = [handoffs EXCEPT ![c] = "requested"]
    /\ objectives' = [objectives EXCEPT ![c] = "pending"]
    /\ LET observed == RecordFailing(cases[c])
       IN  cases' = [cases EXCEPT ![c] =
                        IF CanRequestHandoff(observed)
                          THEN IssuePosted(HandedOff(observed), mode, url)
                          ELSE observed]
    /\ FailureFolded(c)
    /\ UNCHANGED <<callbacks, live>>

-----------------------------------------------------------------------------
(* The verification loop, case by case. *)

\* _VERIFIABLE_STATUSES
VerifiableStatuses == {"verification_pending", "handoff_in_progress"}

\* A degraded scan, or one without the case's finding.
VerifyDegraded(c) ==
    /\ cases[c].status \in VerifiableStatuses
    /\ cases' = [cases EXCEPT ![c] = NoteScanDegraded(@)]
    /\ NoRead
    /\ UNCHANGED <<handoffs, objectives, callbacks, live>>

\* Mutant of VerifierRuns: the objectives are left pending.
VerifierRunsObjectivesPending(c, observed) ==
    /\ cases' = [cases EXCEPT ![c] = Verified(observed)]
    /\ UNCHANGED objectives

\* Mutant of VerifierRuns: the objectives get the case's status, which is not a
\* VerificationStatus.
VerifierRunsObjectivesResolved(c, observed) ==
    /\ cases' = [cases EXCEPT ![c] = Verified(observed)]
    /\ objectives' = [objectives EXCEPT ![c] =
                        IF VerifierResolves(observed) THEN "resolved" ELSE @]

\* verify_case marks the objectives of a case it resolves as passed.
VerifierRuns(c, observed) ==
    /\ cases' = [cases EXCEPT ![c] = Verified(observed)]
    /\ objectives' = [objectives EXCEPT ![c] =
                        IF VerifierResolves(observed) /\ @ # Absent
                          THEN "pass" ELSE @]

\* A case is re-read at its resource, which for a DNS case names no host.
ReRead(c) == cases[c].status \in VerifiableStatuses /\ c \notin DnsControls

VerifyPassing(c) ==
    /\ ReRead(c)
    /\ ReadsAsPassing(c)
    /\ cases[c].consecutive_pass_count <= MaxPasses
    /\ VerifierRuns(c, RecordPassing(cases[c]))
    /\ PassFolded(c)
    /\ UNCHANGED <<handoffs, callbacks, live>>

VerifyFailing(c) ==
    /\ ReRead(c)
    /\ ReadsAsFiring(c)
    /\ VerifierRuns(c, RecordFailing(cases[c]))
    /\ FailureFolded(c)
    /\ UNCHANGED <<handoffs, callbacks, live>>

-----------------------------------------------------------------------------
(* The Engineering Loop's callbacks, delivered any number of times and in   *)
(* any order. A known event id, an unknown handoff and a transition the     *)
(* contract forbids leave the store as it is.                               *)

EngineeringUpdate(event, update) ==
    /\ event \notin callbacks
    /\ handoffs[update.handoff] # Absent
    /\ AllowedHandoffTransition(handoffs[update.handoff], update.status,
                                "engineering")
    /\ handoffs' = [handoffs EXCEPT ![update.handoff] = update.status]
    /\ cases' = [cases EXCEPT ![update.case] =
                    IF Exists(@) THEN EngineeringUpdated(@, update) ELSE @]
    /\ callbacks' = callbacks \cup {event}
    /\ NoRead
    /\ UNCHANGED <<objectives, live>>

-----------------------------------------------------------------------------
(* The service's own transitions, triage and mark_needs_human: no process   *)
(* of the repository calls them; an operator's tooling may.                 *)

ServiceTransition(c, target) ==
    /\ Exists(cases[c])
    /\ cases[c].status # target
    /\ AllowedTransition(cases[c].status, target, "loop")
    /\ cases' = [cases EXCEPT ![c] = Transition(@, target, "loop")]
    /\ NoRead
    /\ UNCHANGED <<handoffs, objectives, callbacks, live>>

-----------------------------------------------------------------------------

Loop(c) ==
    \/ LoopFoldsPassing(c)
    \/ LoopSkipsFiring(c)
    \/ LoopObservesFiring(c)
    \/ \E mode \in Modes, url \in BOOLEAN :
          LoopFindsHandoff(c, mode, url) \/ LoopRequestsHandoff(c, mode, url)

Verification(c) == VerifyDegraded(c) \/ VerifyPassing(c) \/ VerifyFailing(c)

Next ==
    \/ \E c \in Controls : ControlDrifts(c) \/ ControlFixed(c)
    \/ \E c \in Controls : Loop(c)
    \/ \E c \in Controls : Verification(c)
    \/ \E event \in Events, update \in Updates : EngineeringUpdate(event, update)
    \/ \E c \in Controls, target \in ServiceTargets :
          ServiceTransition(c, target)

Spec == Init /\ [][Next]_vars

\* The posture and verification timers re-read a control again and again, and
\* a source that stays up answers some of the reads: where a control that is fine
\* can be read as passing at all, it is in the end. Nothing makes a control drift, keeps an
\* RPKI cache from being refused now and then, or makes the Engineering Loop
\* answer or an operator act.
VerificationFairness ==
    \A c \in Controls :
        /\ WF_vars(live[c] = "ok" /\ VerifyPassing(c))
        /\ WF_vars(live[c] = "ok" /\ LoopFoldsPassing(c))

FairSpec == Spec /\ VerificationFairness

-----------------------------------------------------------------------------
(* Properties. *)

\* Every store record and history counter keeps its type.
TypeOK ==
    /\ cases \in [Controls -> Case]
    /\ handoffs \in [Controls -> UpdateStatuses \cup {Absent}]
    /\ objectives \in [Controls -> {"pending", "pass", Absent}]
    /\ callbacks \subseteq Events
    /\ live \in [Controls -> {"ok", "drift"}]
    /\ clean \in [Controls -> 0..Required]
    /\ seen \in [Controls -> 0..Required]

\* The case of a control as the verdict No-False-All-Clear speaks of.
Verdict(case) ==
    IF ~Exists(case) THEN "unknown"
    ELSE IF case.status \in TerminalStatuses THEN "clear" ELSE "drift"

AllClear == INSTANCE NoFalseAllClear
                WITH verdict <- [c \in Controls |-> Verdict(cases[c])]

\* No-False-All-Clear (policy.py, verifier.py): whatever the loops, the
\* Engineering Loop's late, repeated or reordered callbacks and operators do, a
\* case is resolved only by a passing read that completes Required passing reads
\* since the last failure folded into it, and a failing read that is folded in
\* reopens it at once.
AllClearSpec == AllClear!Spec

\* The statuses a handed-off case passes on its way to verification.
HandoffPath == {"handoff_requested", "handoff_in_progress", "verification_pending"}

\* A case links its handoff exactly when one is stored, and shows the handoff's
\* own status or the verifier's "resolved" (request_handoff,
\* record_engineering_update, verify_case). Callbacks name the handoff's case.
HandoffMirrored ==
    \A c \in Controls :
        /\ cases[c].handoff_linked = (handoffs[c] # Absent)
        /\ cases[c].handoff_linked =>
              cases[c].handoff_status \in {handoffs[c], "resolved"}

\* A case on the handoff path has the objective it will be verified against, and
\* a resolved one has it passed (request_handoff, verify_case).
ObjectiveFollowsCase ==
    \A c \in Controls :
        /\ (cases[c].status \in HandoffPath) => (objectives[c] # Absent)
        /\ (cases[c].status = "resolved") => (objectives[c] = "pass")

\* Why HandoffMirrored holds, and why request_handoff never raises after it has
\* stored the handoff: until a control's handoff is stored its case is at most
\* triaged or with a human, and from then on the case and the objective exist.
HandoffStoredWithCase ==
    \A c \in Controls :
        /\ handoffs[c] = Absent =>
              /\ cases[c].status \in {Absent, "triaged", "needs_human"}
              /\ objectives[c] = Absent
        /\ handoffs[c] # Absent => Exists(cases[c]) /\ objectives[c] # Absent

\* Why AllClearSpec holds: the streak an active case counts is covered by
\* passing reads made since the last failure folded into it.
StreakBacked ==
    \A c \in Controls :
        cases[c].status \in ActiveStatuses =>
            \/ clean[c] = Required
            \/ clean[c] >= cases[c].consecutive_pass_count

\* A control that stays fixed does not leave its case waiting for verification
\* forever (PostureVerificationLoop.run_once, verify_case with auto-resolve on),
\* unless failing reads break its streak of passes again and again: degraded reads
\* in between delay the resolution and cannot prevent it. DNS and committed-key
\* cases are left out: verification never reads them as passing.
FixedCaseLeavesVerification ==
    \A c \in Controls \ (DnsControls \cup KeyControls) :
        \/ []<>(live[c] = "drift" \/ cases[c].status \notin VerifiableStatuses)
        \/ []<><<clean[c] > 0 /\ clean'[c] = 0>>_vars

-----------------------------------------------------------------------------
(* Claims of the documentation and of comments, checked against the code.   *)

Resolves(c) == cases[c].status # "resolved" /\ cases'[c].status = "resolved"

\* service.py: "any fresh failure resets the clean streak". A case resolves only
\* if no scan has read its control as failing within the last Required passes.
FreshFailureResetsStreak ==
    [][\A c \in Controls : Resolves(c) => seen'[c] = Required]_vars

\* rollout.md:15-18: on a change_applied callback "the case moves to
\* verification_pending" (so too service.py:195 and verification.py:3-4). Every
\* such callback that is recorded and says that the change is implemented puts an
\* active case up for verification.
ChangeAppliedVerifies ==
    [][\A event \in Events, update \in Updates :
          /\ EngineeringUpdate(event, update)
          /\ update.type = "change_applied" /\ update.status = "implemented"
          /\ cases[update.case].status \in ActiveStatuses
          => cases'[update.case].status = "verification_pending"]_vars

\* policy.py: the verifier "may [resolve] from any active status (a self-healed
\* shadow case as well as a post-handoff fix)". A case whose control heals for
\* good and keeps being read is resolved in the end.
SelfHealedCaseResolves ==
    \A c \in Controls :
        <>[](live[c] = "ok") => []<>(cases[c].status \notin ActiveStatuses)
=============================================================================
