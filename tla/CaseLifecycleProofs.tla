------------------------ MODULE CaseLifecycleProofs ------------------------
(***************************************************************************)
(* Theorems about CaseLifecycle, for every set of controls and events,     *)
(* every threshold, every bound and every setting of the switches.         *)
(***************************************************************************)
EXTENDS CaseLifecycle, TLAPS

(* What the operations of CaseService do to a well-typed case. *)

\* _record_failing keeps a case well-typed and active, with no streak.
LEMMA RecordFailingType ==
    ASSUME NEW case \in Case
    PROVE  /\ RecordFailing(case) \in Case
           /\ RecordFailing(case).status \in ActiveStatuses
           /\ RecordFailing(case).consecutive_pass_count = 0
           /\ case.status \in ActiveStatuses =>
                RecordFailing(case).status = case.status
           /\ case.status \notin ActiveStatuses =>
                RecordFailing(case).status = "triaged"
           /\ RecordFailing(case).handoff_linked = case.handoff_linked
           /\ RecordFailing(case).handoff_status = case.handoff_status
  BY ZenonT(40) DEF Case, RecordFailing, Refreshed, Transition,
         AllowedTransition, AllowedTransitions, CaseStatuses, ActiveStatuses,
         TerminalStatuses, VerifierOnlyStatuses, Absent

\* _record_passing keeps the status and lengthens the streak of an active case.
LEMMA RecordPassingType ==
    ASSUME NEW case \in Case
    PROVE  /\ RecordPassing(case) \in Case
           /\ RecordPassing(case).status = case.status
           /\ case.status \in ActiveStatuses =>
                RecordPassing(case).consecutive_pass_count
                  = case.consecutive_pass_count + 1
           /\ RecordPassing(case).handoff_linked = case.handoff_linked
           /\ RecordPassing(case).handoff_status = case.handoff_status
  <1>1. case.consecutive_pass_count + 1 \in Nat
    BY DEF Case
  <1>2. CASE case.status \in ActiveStatuses
    <2>1. RecordPassing(case) \in Case
      BY <1>1, <1>2 DEF Case, RecordPassing
    <2>. QED
      BY <1>2, <2>1 DEF Case, RecordPassing
  <1>3. CASE case.status \notin ActiveStatuses
    BY <1>3 DEF Case, RecordPassing
  <1>. QED
    BY <1>2, <1>3

\* request_handoff's write leaves the case on the handoff path.
LEMMA HandedOffType ==
    ASSUME NEW case \in Case
    PROVE  /\ HandedOff(case) \in Case
           /\ HandedOff(case).status
                \in {"handoff_requested", "handoff_in_progress"}
           /\ HandedOff(case).consecutive_pass_count
                = case.consecutive_pass_count
           /\ HandedOff(case).handoff_linked = TRUE
           /\ HandedOff(case).handoff_status = "requested"
  BY DEF Case, HandedOff, CaseStatuses, ActiveStatuses, TerminalStatuses,
         HandoffStatuses

\* record_issue changes nothing the other properties look at.
LEMMA IssuePostedType ==
    ASSUME NEW case \in Case, NEW mode, NEW url \in BOOLEAN
    PROVE  /\ IssuePosted(case, mode, url) \in Case
           /\ IssuePosted(case, mode, url).status = case.status
           /\ IssuePosted(case, mode, url).consecutive_pass_count
                = case.consecutive_pass_count
           /\ IssuePosted(case, mode, url).handoff_linked = case.handoff_linked
           /\ IssuePosted(case, mode, url).handoff_status = case.handoff_status
  BY DEF Case, IssuePosted, ModePostsHandoff

\* verify_case changes the status only of a case it resolves.
LEMMA VerifiedType ==
    ASSUME NEW case \in Case
    PROVE  /\ Verified(case) \in Case
           /\ Verified(case).consecutive_pass_count
                = case.consecutive_pass_count
           /\ Verified(case).handoff_linked = case.handoff_linked
           /\ ~VerifierResolves(case) => Verified(case) = case
           /\ VerifierResolves(case) =>
                /\ case.status \in ActiveStatuses
                /\ case.consecutive_pass_count >= Required
                /\ Verified(case).status = "resolved"
                /\ Verified(case).handoff_status =
                     IF case.handoff_linked THEN "resolved"
                                            ELSE case.handoff_status
  BY ZenonT(40) DEF Case, Verified, VerifierResolves, CanResolve, CaseStatuses,
         TerminalStatuses, HandoffStatuses

\* note_scan_degraded keeps the status and the streak.
LEMMA NoteScanDegradedType ==
    ASSUME NEW case \in Case
    PROVE  /\ NoteScanDegraded(case) \in Case
           /\ NoteScanDegraded(case).status = case.status
           /\ NoteScanDegraded(case).consecutive_pass_count
                = case.consecutive_pass_count
           /\ NoteScanDegraded(case).handoff_linked = case.handoff_linked
           /\ NoteScanDegraded(case).handoff_status = case.handoff_status
  BY DEF Case, NoteScanDegraded

\* An engineering update never asks for a terminal status.
LEMMA UpdateTargetType ==
    ASSUME NEW update \in Updates
    PROVE  UpdateTarget(update) \in
             {"handoff_in_progress", "verification_pending", "blocked",
              "failed", "needs_human", Absent}
  BY DEF UpdateTarget, HandoffToCaseStatus, Updates

\* An engineering update moves a case along the policy graph or leaves its
\* status alone, and never reaches a terminal status.
LEMMA EngineeringUpdatedType ==
    ASSUME NEW case \in Case, NEW update \in Updates, Exists(case)
    PROVE  /\ EngineeringUpdated(case, update) \in Case
           /\ EngineeringUpdated(case, update).consecutive_pass_count
                = case.consecutive_pass_count
           /\ EngineeringUpdated(case, update).handoff_linked
                = case.handoff_linked
           /\ EngineeringUpdated(case, update).handoff_status = update.status
           /\ \/ EngineeringUpdated(case, update).status = case.status
              \/ /\ EngineeringUpdated(case, update).status
                      = UpdateTarget(update)
                 /\ UpdateTarget(update) \in AllowedTransitions[case.status]
                 /\ case.status \in ActiveStatuses
                 /\ UpdateTarget(update) \in ActiveStatuses
  <1> DEFINE target == UpdateTarget(update)
  <1>1. target \in ActiveStatuses \cup {Absent}
    BY UpdateTargetType DEF ActiveStatuses
  <1>2. target \in {"handoff_in_progress", "verification_pending", "blocked",
                    "failed", "needs_human", Absent}
    BY UpdateTargetType
  <1>3. update.status \in HandoffStatuses
    BY DEF Updates, UpdateStatuses
  <1>4. case.status \in CaseStatuses
    BY DEF Case, Exists
  <1>5. CASE target # Absent /\ AllowedTransition(case.status, target, "engineering")
    <2>1. EngineeringUpdated(case, update) =
            [case EXCEPT !.status = target, !.handoff_status = update.status]
      BY <1>5 DEF EngineeringUpdated
    <2>2. case.status = target \/ target \in AllowedTransitions[case.status]
      BY <1>2, <1>5 DEF AllowedTransition, VerifierOnlyStatuses, Absent
    <2>3. target \in AllowedTransitions[case.status] =>
            case.status \in ActiveStatuses
      BY <1>2, <1>4, <1>5 DEF AllowedTransitions, CaseStatuses, ActiveStatuses,
           TerminalStatuses
    <2>. QED
      BY <1>1, <1>3, <1>5, <2>1, <2>2, <2>3 DEF Case, CaseStatuses
  <1>6. CASE ~(target # Absent /\ AllowedTransition(case.status, target, "engineering"))
    <2>1. EngineeringUpdated(case, update) =
            [case EXCEPT !.status = case.status, !.handoff_status = update.status]
      BY <1>6 DEF EngineeringUpdated
    <2>. QED
      BY <1>3, <2>1 DEF Case
  <1>. QED
    BY <1>5, <1>6

\* A transition of the service made by the loop never reaches "resolved".
LEMMA TransitionType ==
    ASSUME NEW case \in Case, NEW target \in ServiceTargets,
           AllowedTransition(case.status, target, "loop"), Exists(case),
           case.status # target
    PROVE  /\ Transition(case, target, "loop") \in Case
           /\ Transition(case, target, "loop").status = target
           /\ target \in {"triaged", "needs_human"}
           /\ case.status \in ActiveStatuses
           /\ Transition(case, target, "loop").consecutive_pass_count
                = case.consecutive_pass_count
           /\ Transition(case, target, "loop").handoff_linked
                = case.handoff_linked
           /\ Transition(case, target, "loop").handoff_status
                = case.handoff_status
  <1>1. target \in {"triaged", "needs_human"}
    BY ServiceTargetsAssumption
  <1>2. case.status \in ActiveStatuses
    BY <1>1 DEF Case, Exists, AllowedTransition, AllowedTransitions, CaseStatuses,
         ActiveStatuses, TerminalStatuses, VerifierOnlyStatuses
  <1>. QED
    BY <1>1, <1>2 DEF Case, Transition, CaseStatuses, ActiveStatuses

-----------------------------------------------------------------------------
(* Type correctness. *)

\* The history counters stay within their range.
LEMMA BumpType ==
    ASSUME NEW n \in 0..Required
    PROVE  /\ Bump(n) \in 0..Required
           /\ Bump(n) = Required \/ Bump(n) = n + 1
           /\ Bump(n) >= n
  BY RequiredAssumption DEF Bump

\* The types hold at first.
LEMMA InitTypeOK == Init => TypeOK
  <1>1. NoCase \in Case
    BY DEF NoCase, Case
  <1>. QED
    BY <1>1, RequiredAssumption DEF Init, TypeOK

\* What a read does to the history keeps its type.
LEMMA HistoryType ==
    ASSUME TypeOK, NEW c \in Controls,
           PassFolded(c) \/ FailureFolded(c) \/ FailureSkipped(c) \/ NoRead
    PROVE  clean' \in [Controls -> 0..Required] /\ seen' \in [Controls -> 0..Required]
  <1>1. 0 \in 0..Required
    BY RequiredAssumption
  <1>2. Bump(clean[c]) \in 0..Required /\ Bump(seen[c]) \in 0..Required
    BY BumpType DEF TypeOK
  <1>. QED
    BY <1>1, <1>2 DEF TypeOK, PassFolded, FailureFolded, FailureSkipped, NoRead

\* Every step keeps the types.
LEMMA NextTypeOK == TypeOK /\ [Next]_vars => TypeOK'
  <1> SUFFICES ASSUME TypeOK, [Next]_vars
               PROVE  TypeOK'
    OBVIOUS
  <1>1. ASSUME NEW c \in Controls, ControlDrifts(c) \/ ControlFixed(c)
        PROVE  TypeOK'
    BY <1>1 DEF TypeOK, ControlDrifts, ControlFixed, store, NoRead
  <1>2. ASSUME NEW c \in Controls, LoopFoldsPassing(c)
        PROVE  TypeOK'
    <2>1. RecordPassing(cases[c]) \in Case
      BY RecordPassingType DEF TypeOK
    <2>. QED
      BY <1>2, <2>1, HistoryType DEF TypeOK, LoopFoldsPassing
  <1>3. ASSUME NEW c \in Controls, LoopSkipsFiring(c)
        PROVE  TypeOK'
    BY <1>3, HistoryType DEF TypeOK, LoopSkipsFiring, store
  <1>4. ASSUME NEW c \in Controls, LoopObservesFiring(c)
        PROVE  TypeOK'
    <2>1. RecordFailing(cases[c]) \in Case
      BY RecordFailingType DEF TypeOK
    <2>. QED
      BY <1>4, <2>1, HistoryType DEF TypeOK, LoopObservesFiring
  <1>5. ASSUME NEW c \in Controls, NEW mode \in Modes, NEW url \in BOOLEAN,
               LoopFindsHandoff(c, mode, url)
        PROVE  TypeOK'
    <2>1. RecordFailing(cases[c]) \in Case
      BY RecordFailingType DEF TypeOK
    <2>2. IssuePosted(RecordFailing(cases[c]), mode, url) \in Case
      BY <2>1, IssuePostedType
    <2>. QED
      BY <1>5, <2>2, HistoryType DEF TypeOK, LoopFindsHandoff
  <1>6. ASSUME NEW c \in Controls, NEW mode \in Modes, NEW url \in BOOLEAN,
               LoopRequestsHandoff(c, mode, url)
        PROVE  TypeOK'
    <2> DEFINE observed == RecordFailing(cases[c])
    <2>1. observed \in Case
      BY RecordFailingType DEF TypeOK
    <2>2. IssuePosted(HandedOff(observed), mode, url) \in Case
      BY <2>1, HandedOffType, IssuePostedType
    <2>3. cases' \in [Controls -> Case]
      BY <1>6, <2>1, <2>2 DEF TypeOK, LoopRequestsHandoff
    <2>4. handoffs' \in [Controls -> UpdateStatuses \cup {Absent}]
      BY <1>6 DEF TypeOK, LoopRequestsHandoff, UpdateStatuses, HandoffStatuses,
           VerifierOnlyHandoffStatuses
    <2>. QED
      BY <1>6, <2>3, <2>4, HistoryType DEF TypeOK, LoopRequestsHandoff
  <1>7. ASSUME NEW c \in Controls, VerifyDegraded(c)
        PROVE  TypeOK'
    <2>1. NoteScanDegraded(cases[c]) \in Case
      BY NoteScanDegradedType DEF TypeOK
    <2>. QED
      BY <1>7, <2>1, HistoryType DEF TypeOK, VerifyDegraded
  <1>8. ASSUME NEW c \in Controls, VerifyPassing(c)
        PROVE  TypeOK'
    <2>1. Verified(RecordPassing(cases[c])) \in Case
      BY RecordPassingType, VerifiedType DEF TypeOK
    <2>. QED
      BY <1>8, <2>1, HistoryType DEF TypeOK, VerifyPassing, VerifierRuns
  <1>9. ASSUME NEW c \in Controls, VerifyFailing(c)
        PROVE  TypeOK'
    <2>1. Verified(RecordFailing(cases[c])) \in Case
      BY RecordFailingType, VerifiedType DEF TypeOK
    <2>. QED
      BY <1>9, <2>1, HistoryType DEF TypeOK, VerifyFailing, VerifierRuns
  <1>10. ASSUME NEW event \in Events, NEW update \in Updates,
                EngineeringUpdate(event, update)
         PROVE  TypeOK'
    <2>1. update.case \in Controls /\ update.handoff \in Controls
          /\ update.status \in UpdateStatuses
      BY DEF Updates
    <2>2. Exists(cases[update.case]) =>
            EngineeringUpdated(cases[update.case], update) \in Case
      BY <2>1, EngineeringUpdatedType DEF TypeOK
    <2>3. cases' \in [Controls -> Case]
      BY <1>10, <2>1, <2>2 DEF TypeOK, EngineeringUpdate
    <2>. QED
      BY <1>10, <2>1, <2>3 DEF TypeOK, EngineeringUpdate, NoRead
  <1>11. ASSUME NEW c \in Controls, NEW target \in ServiceTargets,
                ServiceTransition(c, target)
         PROVE  TypeOK'
    <2>1. Transition(cases[c], target, "loop") \in Case
      BY <1>11, TransitionType DEF TypeOK, ServiceTransition
    <2>. QED
      BY <1>11, <2>1 DEF TypeOK, ServiceTransition, NoRead
  <1>12. CASE UNCHANGED vars
    BY <1>12 DEF TypeOK, vars
  <1>. QED
    BY <1>1, <1>2, <1>3, <1>4, <1>5, <1>6, <1>7, <1>8, <1>9, <1>10, <1>11,
       <1>12 DEF Next, Loop, Verification

\* Every store record and history counter keeps its type, in every behaviour of
\* the case service, whatever the constants.
THEOREM TypeCorrect == Spec => []TypeOK
  BY InitTypeOK, NextTypeOK, PTL DEF Spec

-----------------------------------------------------------------------------
(* No-False-All-Clear. *)

\* A failing read resolves nothing: the streak it leaves is below the threshold.
LEMMA FailingReadResolvesNothing ==
    ASSUME NEW case \in Case
    PROVE  Verified(RecordFailing(case)) = RecordFailing(case)
  <1>1. RecordFailing(case) \in Case
        /\ RecordFailing(case).consecutive_pass_count = 0
    BY RecordFailingType
  <1>2. ~VerifierResolves(RecordFailing(case))
    BY <1>1, VerifiedType, RequiredAssumption
  <1>. QED
    BY <1>1, <1>2, VerifiedType

\* StreakBacked for one control whose case and history a step replaces.
LEMMA StreakBackedStep ==
    ASSUME TypeOK, StreakBacked, NEW c \in Controls, NEW x \in Case,
           cases' = [cases EXCEPT ![c] = x],
           \A d \in Controls \ {c} : clean'[d] = clean[d],
           x.status \in ActiveStatuses =>
               clean'[c] = Required \/ clean'[c] >= x.consecutive_pass_count
    PROVE  StreakBacked'
  BY DEF TypeOK, StreakBacked

\* No streak is counted at first.
LEMMA InitStreakBacked == Init => StreakBacked
  BY RequiredAssumption DEF Init, StreakBacked, NoCase, ActiveStatuses, Absent

\* Every step keeps the streaks backed by passing reads.
LEMMA NextStreakBacked == TypeOK /\ StreakBacked /\ [Next]_vars => StreakBacked'
  <1> SUFFICES ASSUME TypeOK, StreakBacked, [Next]_vars
               PROVE  StreakBacked'
    OBVIOUS
  <1>1. ASSUME UNCHANGED <<cases, clean>>
        PROVE  StreakBacked'
    BY <1>1 DEF StreakBacked
  <1>2. ASSUME NEW c \in Controls, FailureFolded(c)
        PROVE  /\ clean'[c] = 0
               /\ \A d \in Controls \ {c} : clean'[d] = clean[d]
    BY <1>2 DEF FailureFolded, TypeOK
  <1>3. ASSUME NEW c \in Controls, PassFolded(c), cases[c].status \in ActiveStatuses
        PROVE  /\ \A d \in Controls \ {c} : clean'[d] = clean[d]
               /\ \/ clean'[c] = Required
                  \/ clean'[c] >= cases[c].consecutive_pass_count + 1
    <2>1. clean'[c] = Bump(clean[c]) /\ \A d \in Controls \ {c} : clean'[d] = clean[d]
      BY <1>3 DEF PassFolded, TypeOK
    <2>2. clean[c] \in 0..Required /\ cases[c].consecutive_pass_count \in Nat
      BY DEF TypeOK, Case
    <2>3. clean[c] = Required \/ clean[c] >= cases[c].consecutive_pass_count
      BY <1>3 DEF StreakBacked
    <2>. QED
      BY <2>1, <2>2, <2>3, BumpType, RequiredAssumption
  <1>4. ASSUME NEW c \in Controls, LoopFoldsPassing(c)
        PROVE  StreakBacked'
    <2> DEFINE x == RecordPassing(cases[c])
    <2>1. x \in Case /\ x.status = cases[c].status
          /\ (cases[c].status \in ActiveStatuses =>
                x.consecutive_pass_count = cases[c].consecutive_pass_count + 1)
      BY RecordPassingType DEF TypeOK
    <2>2. \A d \in Controls \ {c} : clean'[d] = clean[d]
      BY <1>4 DEF LoopFoldsPassing, PassFolded, TypeOK
    <2>3. x.status \in ActiveStatuses =>
            clean'[c] = Required \/ clean'[c] >= x.consecutive_pass_count
      BY <1>3, <1>4, <2>1 DEF LoopFoldsPassing
    <2>4. cases' = [cases EXCEPT ![c] = x]
      BY <1>4 DEF LoopFoldsPassing
    <2> HIDE DEF x
    <2>. QED
      BY <2>1, <2>2, <2>3, <2>4, StreakBackedStep
  <1>5. ASSUME NEW c \in Controls, LoopSkipsFiring(c)
        PROVE  StreakBacked'
    BY <1>1, <1>5 DEF LoopSkipsFiring, FailureSkipped, store
  <1>6. ASSUME NEW c \in Controls, NEW x \in Case, FailureFolded(c),
               cases' = [cases EXCEPT ![c] = x], x.consecutive_pass_count = 0
        PROVE  StreakBacked'
    <2>1. clean'[c] = 0 /\ \A d \in Controls \ {c} : clean'[d] = clean[d]
      BY <1>2, <1>6
    <2>2. clean'[c] >= x.consecutive_pass_count
      BY <1>6, <2>1
    <2>. QED
      BY <1>6, <2>1, <2>2, StreakBackedStep
  <1>7. ASSUME NEW c \in Controls, LoopObservesFiring(c)
        PROVE  StreakBacked'
    <2>1. RecordFailing(cases[c]) \in Case
          /\ RecordFailing(cases[c]).consecutive_pass_count = 0
      BY RecordFailingType DEF TypeOK
    <2>. QED
      BY <1>6, <1>7, <2>1 DEF LoopObservesFiring
  <1>8. ASSUME NEW c \in Controls, NEW mode \in Modes, NEW url \in BOOLEAN,
               LoopFindsHandoff(c, mode, url) \/ LoopRequestsHandoff(c, mode, url)
        PROVE  StreakBacked'
    <2> DEFINE observed == RecordFailing(cases[c])
    <2>1. observed \in Case /\ observed.consecutive_pass_count = 0
      BY RecordFailingType DEF TypeOK
    <2>2. HandedOff(observed) \in Case
          /\ HandedOff(observed).consecutive_pass_count = 0
      BY <2>1, HandedOffType
    <2>3. \A y \in {observed, HandedOff(observed)} :
            /\ IssuePosted(y, mode, url) \in Case
            /\ IssuePosted(y, mode, url).consecutive_pass_count = 0
      BY <2>1, <2>2, IssuePostedType
    <2>4. FailureFolded(c)
          /\ \E x \in {observed, IssuePosted(observed, mode, url),
                       IssuePosted(HandedOff(observed), mode, url)} :
                cases' = [cases EXCEPT ![c] = x]
      BY <1>8 DEF LoopFindsHandoff, LoopRequestsHandoff
    <2> HIDE DEF observed
    <2>. QED
      BY <1>6, <2>1, <2>2, <2>3, <2>4
  <1>9. ASSUME NEW c \in Controls, NEW x \in Case,
               cases' = [cases EXCEPT ![c] = x], clean' = clean,
               x.status \in ActiveStatuses => cases[c].status \in ActiveStatuses,
               x.consecutive_pass_count = cases[c].consecutive_pass_count
        PROVE  StreakBacked'
    BY <1>9, StreakBackedStep DEF StreakBacked
  <1>10. ASSUME NEW c \in Controls, VerifyDegraded(c)
         PROVE  StreakBacked'
    <2>1. cases[c] \in Case
      BY DEF TypeOK
    <2>. QED
      BY <1>9, <1>10, <2>1, NoteScanDegradedType DEF VerifyDegraded, NoRead
  <1>11. ASSUME NEW c \in Controls, VerifyPassing(c)
         PROVE  StreakBacked'
    <2> DEFINE y == RecordPassing(cases[c])
               x == Verified(y)
    <2>1. y \in Case /\ cases[c].status \in ActiveStatuses
          /\ y.consecutive_pass_count = cases[c].consecutive_pass_count + 1
      BY <1>11, RecordPassingType
         DEF TypeOK, VerifyPassing, ReRead, VerifiableStatuses, ActiveStatuses
    <2>2. x \in Case /\ x.consecutive_pass_count = y.consecutive_pass_count
      BY <2>1, VerifiedType
    <2>3. cases' = [cases EXCEPT ![c] = x] /\ PassFolded(c)
      BY <1>11 DEF VerifyPassing, VerifierRuns
    <2> HIDE DEF x, y
    <2>. QED
      BY <1>3, <2>1, <2>2, <2>3, StreakBackedStep
  <1>12. ASSUME NEW c \in Controls, VerifyFailing(c)
         PROVE  StreakBacked'
    <2>1. RecordFailing(cases[c]) \in Case
          /\ RecordFailing(cases[c]).consecutive_pass_count = 0
          /\ Verified(RecordFailing(cases[c])) = RecordFailing(cases[c])
      BY RecordFailingType, FailingReadResolvesNothing DEF TypeOK
    <2>. QED
      BY <1>6, <1>12, <2>1 DEF VerifyFailing, VerifierRuns
  <1>13. ASSUME NEW event \in Events, NEW update \in Updates,
                EngineeringUpdate(event, update)
         PROVE  StreakBacked'
    <2> DEFINE c == update.case
               x == IF Exists(cases[c]) THEN EngineeringUpdated(cases[c], update)
                                        ELSE cases[c]
    <2>1. c \in Controls
      BY DEF Updates
    <2>2. x \in Case /\ x.consecutive_pass_count = cases[c].consecutive_pass_count
          /\ (x.status \in ActiveStatuses => cases[c].status \in ActiveStatuses)
      BY <2>1, EngineeringUpdatedType DEF TypeOK
    <2>3. cases' = [cases EXCEPT ![c] = x] /\ clean' = clean
      BY <1>13 DEF EngineeringUpdate, NoRead
    <2> HIDE DEF c, x
    <2>. QED
      BY <1>9, <2>1, <2>2, <2>3
  <1>14. ASSUME NEW c \in Controls, NEW target \in ServiceTargets,
                ServiceTransition(c, target)
         PROVE  StreakBacked'
    <2>1. cases[c] \in Case
      BY DEF TypeOK
    <2>. QED
      BY <1>9, <1>14, <2>1, TransitionType DEF ServiceTransition, NoRead
  <1>15. ASSUME NEW c \in Controls, ControlDrifts(c) \/ ControlFixed(c)
         PROVE  StreakBacked'
    BY <1>1, <1>15 DEF ControlDrifts, ControlFixed, store, NoRead
  <1>16. CASE UNCHANGED vars
    BY <1>1, <1>16 DEF vars
  <1>. QED
    BY <1>4, <1>5, <1>7, <1>8, <1>10, <1>11, <1>12, <1>13, <1>14, <1>15, <1>16
       DEF Next, Loop, Verification

Verdicts == [c \in Controls |-> Verdict(cases[c])]

\* A step on the case of one control changes the verdict of that control only.
LEMMA VerdictStep ==
    ASSUME TypeOK, NEW c \in Controls, NEW x, cases' = [cases EXCEPT ![c] = x]
    PROVE  Verdicts' = [Verdicts EXCEPT ![c] = Verdict(x)]
  BY DEF TypeOK, Verdicts

\* A case whose status is kept keeps its verdict.
LEMMA VerdictKept ==
    ASSUME TypeOK, NEW c \in Controls, NEW x, cases' = [cases EXCEPT ![c] = x],
           Verdict(x) = Verdict(cases[c])
    PROVE  Verdicts' = Verdicts
  BY VerdictStep DEF TypeOK, Verdicts

\* The verdict of a case follows from its status.
LEMMA VerdictOfStatus ==
    ASSUME NEW x \in Case
    PROVE  /\ x.status \in ActiveStatuses => Verdict(x) = "drift"
           /\ x.status = "resolved" => Verdict(x) = "clear"
           /\ \A y \in Case : x.status = y.status => Verdict(x) = Verdict(y)
  BY DEF Verdict, Exists, ActiveStatuses, TerminalStatuses, Absent

\* A step that folds a failing read into a control's case.
LEMMA FailureRefines ==
    ASSUME TypeOK, NEW c \in Controls, NEW x \in Case, FailureFolded(c),
           cases' = [cases EXCEPT ![c] = x], x.status \in ActiveStatuses
    PROVE  AllClear!Fails(c)
  <1>1. Verdicts' = [Verdicts EXCEPT ![c] = "drift"]
    BY VerdictStep, VerdictOfStatus
  <1>. QED
    BY <1>1 DEF AllClear!Fails, FailureFolded, Verdicts

\* A step that changes neither a verdict nor the history of folded reads.
LEMMA SilentRefines ==
    ASSUME TypeOK, NEW c \in Controls, NEW x \in Case, clean' = clean,
           cases' = [cases EXCEPT ![c] = x], Verdict(x) = Verdict(cases[c])
    PROVE  UNCHANGED AllClear!vars
  <1>1. Verdicts' = Verdicts
    BY VerdictKept
  <1>. QED
    BY <1>1 DEF AllClear!vars, Verdicts

\* The initial states are initial states of NoFalseAllClear.
LEMMA InitRefines == Init => AllClear!Init
  <1> SUFFICES ASSUME Init PROVE AllClear!Init
    OBVIOUS
  <1>1. Verdict(NoCase) = "unknown"
    BY DEF Verdict, NoCase, Exists
  <1>. QED
    BY <1>1 DEF Init, AllClear!Init

\* Every step is a step of NoFalseAllClear, or changes nothing it sees.
LEMMA NextRefines ==
    TypeOK /\ StreakBacked /\ [Next]_vars => [AllClear!Next]_(AllClear!vars)
  <1> SUFFICES ASSUME TypeOK, StreakBacked, [Next]_vars
               PROVE  AllClear!Next \/ UNCHANGED AllClear!vars
    OBVIOUS
  <1>1. ASSUME UNCHANGED <<cases, clean>>
        PROVE  UNCHANGED AllClear!vars
    BY <1>1 DEF AllClear!vars
  <1>2. ASSUME NEW c \in Controls, AllClear!Fails(c) \/ AllClear!Passes(c)
                                    \/ AllClear!PassesAndClears(c)
        PROVE  AllClear!Next
    BY <1>2 DEF AllClear!Next
  <1>3. ASSUME NEW c \in Controls, PassFolded(c)
        PROVE  clean' = [clean EXCEPT ![c] = AllClear!Bump(@)]
    BY <1>3 DEF PassFolded, Bump, AllClear!Bump, TypeOK
  <1>4. ASSUME NEW c \in Controls, LoopFoldsPassing(c)
        PROVE  AllClear!Next
    <2>1. RecordPassing(cases[c]) \in Case
          /\ RecordPassing(cases[c]).status = cases[c].status
      BY RecordPassingType DEF TypeOK
    <2>2. Verdicts' = Verdicts
      BY <1>4, <2>1, VerdictKept, VerdictOfStatus DEF LoopFoldsPassing, TypeOK
    <2>3. clean' = [clean EXCEPT ![c] = AllClear!Bump(@)]
      BY <1>3, <1>4 DEF LoopFoldsPassing
    <2>. QED
      BY <1>2, <2>2, <2>3 DEF AllClear!Passes, Verdicts
  <1>5. ASSUME NEW c \in Controls, LoopSkipsFiring(c)
        PROVE  UNCHANGED AllClear!vars
    BY <1>1, <1>5 DEF LoopSkipsFiring, FailureSkipped, store
  <1>6. ASSUME NEW c \in Controls, LoopObservesFiring(c)
        PROVE  AllClear!Next
    <2>1. RecordFailing(cases[c]) \in Case
          /\ RecordFailing(cases[c]).status \in ActiveStatuses
      BY RecordFailingType DEF TypeOK
    <2>. QED
      BY <1>2, <1>6, <2>1, FailureRefines DEF LoopObservesFiring
  <1>7. ASSUME NEW c \in Controls, NEW mode \in Modes, NEW url \in BOOLEAN,
               LoopFindsHandoff(c, mode, url) \/ LoopRequestsHandoff(c, mode, url)
        PROVE  AllClear!Next
    <2> DEFINE observed == RecordFailing(cases[c])
    <2>1. observed \in Case /\ observed.status \in ActiveStatuses
      BY RecordFailingType DEF TypeOK
    <2>2. HandedOff(observed) \in Case
          /\ HandedOff(observed).status \in ActiveStatuses
      BY <2>1, HandedOffType DEF ActiveStatuses
    <2>3. \A y \in {observed, HandedOff(observed)} :
            /\ IssuePosted(y, mode, url) \in Case
            /\ IssuePosted(y, mode, url).status \in ActiveStatuses
      BY <2>1, <2>2, IssuePostedType
    <2>4. FailureFolded(c)
          /\ \E x \in {observed, IssuePosted(observed, mode, url),
                       IssuePosted(HandedOff(observed), mode, url)} :
                cases' = [cases EXCEPT ![c] = x]
      BY <1>7 DEF LoopFindsHandoff, LoopRequestsHandoff
    <2> HIDE DEF observed
    <2>. QED
      BY <1>2, <2>1, <2>2, <2>3, <2>4, FailureRefines
  <1>8. ASSUME NEW c \in Controls, VerifyDegraded(c)
        PROVE  UNCHANGED AllClear!vars
    <2>1. NoteScanDegraded(cases[c]) \in Case /\ cases[c] \in Case
          /\ NoteScanDegraded(cases[c]).status = cases[c].status
      BY NoteScanDegradedType DEF TypeOK
    <2>. QED
      BY <1>8, <2>1, SilentRefines, VerdictOfStatus DEF VerifyDegraded, NoRead
  <1>9. ASSUME NEW c \in Controls, VerifyPassing(c)
        PROVE  AllClear!Next
    <2> DEFINE y == RecordPassing(cases[c])
               x == Verified(y)
    <2>1. /\ cases[c] \in Case /\ y \in Case /\ y.status = cases[c].status
          /\ cases[c].status \in ActiveStatuses
          /\ y.consecutive_pass_count = cases[c].consecutive_pass_count + 1
      BY <1>9, RecordPassingType
         DEF TypeOK, VerifyPassing, ReRead, VerifiableStatuses, ActiveStatuses
    <2>2. cases' = [cases EXCEPT ![c] = x] /\ PassFolded(c)
      BY <1>9 DEF VerifyPassing, VerifierRuns
    <2>3. clean' = [clean EXCEPT ![c] = AllClear!Bump(@)]
      BY <1>3, <2>2
    <2>4. CASE VerifierResolves(y)
      <3>1. x \in Case /\ x.status = "resolved" /\ y.consecutive_pass_count >= Required
        BY <2>1, <2>4, VerifiedType
      <3>2. Verdicts' = [Verdicts EXCEPT ![c] = "clear"] /\ Verdicts[c] = "drift"
        <4>1. Verdict(x) = "clear"
          BY <3>1, VerdictOfStatus
        <4>2. Verdicts' = [Verdicts EXCEPT ![c] = Verdict(x)]
          BY <2>2, VerdictStep
        <4>3. Verdicts[c] = "drift"
          BY <2>1, VerdictOfStatus DEF Verdicts
        <4>. QED
          BY <4>1, <4>2, <4>3
      <3>3. clean[c] \in 0..Required /\ cases[c].consecutive_pass_count \in Nat
            /\ clean'[c] = Bump(clean[c])
        BY <2>2 DEF TypeOK, Case, PassFolded
      <3>4. clean[c] = Required \/ clean[c] >= cases[c].consecutive_pass_count
        BY <2>1 DEF StreakBacked
      <3>5. cases[c].consecutive_pass_count + 1 >= Required
        BY <2>1, <3>1
      <3>6. Bump(clean[c]) \in 0..Required
            /\ (Bump(clean[c]) = Required \/ Bump(clean[c]) = clean[c] + 1)
            /\ Bump(clean[c]) >= clean[c]
        BY <3>3, BumpType
      <3>7. clean'[c] = Required
        BY <3>3, <3>4, <3>5, <3>6, RequiredAssumption
      <3>. QED
        BY <1>2, <2>3, <3>2, <3>7 DEF AllClear!PassesAndClears, Verdicts
    <2>5. CASE ~VerifierResolves(y)
      <3>1. x = y
        BY <2>1, <2>5, VerifiedType
      <3>2. Verdicts' = Verdicts
        BY <2>1, <2>2, <3>1, VerdictKept, VerdictOfStatus
      <3>. QED
        BY <1>2, <2>3, <3>2 DEF AllClear!Passes, Verdicts
    <2>. QED
      BY <2>4, <2>5
  <1>10. ASSUME NEW c \in Controls, VerifyFailing(c)
         PROVE  AllClear!Next
    <2>1. RecordFailing(cases[c]) \in Case
          /\ RecordFailing(cases[c]).status \in ActiveStatuses
          /\ Verified(RecordFailing(cases[c])) = RecordFailing(cases[c])
      BY RecordFailingType, FailingReadResolvesNothing DEF TypeOK
    <2>. QED
      BY <1>2, <1>10, <2>1, FailureRefines DEF VerifyFailing, VerifierRuns
  <1>11. ASSUME NEW event \in Events, NEW update \in Updates,
                EngineeringUpdate(event, update)
         PROVE  UNCHANGED AllClear!vars
    <2> DEFINE c == update.case
               x == IF Exists(cases[c]) THEN EngineeringUpdated(cases[c], update)
                                        ELSE cases[c]
    <2>1. c \in Controls /\ cases[c] \in Case
      BY DEF Updates, TypeOK
    <2>2. x \in Case
      BY <2>1, EngineeringUpdatedType
    <2>3. \/ x.status = cases[c].status
          \/ x.status \in ActiveStatuses /\ cases[c].status \in ActiveStatuses
      BY <2>1, EngineeringUpdatedType
    <2>4. Verdict(x) = Verdict(cases[c])
      BY <2>1, <2>2, <2>3, VerdictOfStatus
    <2>5. cases' = [cases EXCEPT ![c] = x] /\ clean' = clean
      BY <1>11 DEF EngineeringUpdate, NoRead
    <2> HIDE DEF c, x
    <2>. QED
      BY <2>1, <2>2, <2>4, <2>5, SilentRefines
  <1>12. ASSUME NEW c \in Controls, NEW target \in ServiceTargets,
                ServiceTransition(c, target)
         PROVE  UNCHANGED AllClear!vars
    <2> DEFINE x == Transition(cases[c], target, "loop")
    <2>1. cases[c] \in Case
      BY DEF TypeOK
    <2>2. x \in Case /\ x.status \in {"triaged", "needs_human"}
          /\ cases[c].status \in ActiveStatuses
      BY <1>12, <2>1, TransitionType DEF ServiceTransition
    <2>3. x.status \in ActiveStatuses
      BY <2>2 DEF ActiveStatuses
    <2>4. Verdict(x) = Verdict(cases[c])
      BY <2>1, <2>2, <2>3, VerdictOfStatus
    <2>5. cases' = [cases EXCEPT ![c] = x] /\ clean' = clean
      BY <1>12 DEF ServiceTransition, NoRead
    <2> HIDE DEF x
    <2>. QED
      BY <2>2, <2>4, <2>5, SilentRefines
  <1>13. ASSUME NEW c \in Controls, ControlDrifts(c) \/ ControlFixed(c)
         PROVE  UNCHANGED AllClear!vars
    BY <1>1, <1>13 DEF ControlDrifts, ControlFixed, store, NoRead
  <1>14. CASE UNCHANGED vars
    BY <1>1, <1>14 DEF vars
  <1>. QED
    BY <1>4, <1>5, <1>6, <1>7, <1>8, <1>9, <1>10, <1>11, <1>12, <1>13, <1>14
       DEF Next, Loop, Verification

\* The streak a case counts never exceeds the passing reads behind it.
THEOREM StreakIsBacked == Spec => []StreakBacked
  <1>1. Init => TypeOK /\ StreakBacked
    BY InitTypeOK, InitStreakBacked
  <1>2. TypeOK /\ StreakBacked /\ [Next]_vars => (TypeOK /\ StreakBacked)'
    BY NextTypeOK, NextStreakBacked
  <1>. QED
    BY <1>1, <1>2, PTL DEF Spec

\* No-False-All-Clear: the case service, in every behaviour, lifts a verdict of
\* drift only with a passing read that completes Required of them since the last
\* recorded failure, and restores it with the next recorded failure.
THEOREM RefinesNoFalseAllClear == Spec => AllClearSpec
  <1>1. Spec => [](TypeOK /\ StreakBacked)
    BY TypeCorrect, StreakIsBacked, PTL
  <1>2. TypeOK /\ StreakBacked /\ [Next]_vars => [AllClear!Next]_(AllClear!vars)
    BY NextRefines
  <1>. QED
    BY <1>1, <1>2, InitRefines, PTL DEF Spec, AllClearSpec, AllClear!Spec

-----------------------------------------------------------------------------
(* The case, its handoff and its objective. *)

HandoffInv == HandoffMirrored /\ ObjectiveFollowsCase /\ HandoffStoredWithCase

\* HandoffInv of one control: case x, handoff h, objective o.
Booked(x, h, o) ==
    /\ x.handoff_linked = (h # Absent)
    /\ x.handoff_linked => x.handoff_status \in {h, "resolved"}
    /\ x.status \in HandoffPath => o # Absent
    /\ x.status = "resolved" => o = "pass"
    /\ h = Absent => x.status \in {Absent, "triaged", "needs_human"} /\ o = Absent
    /\ h # Absent => Exists(x) /\ o # Absent

\* The handoff invariant, control by control.
LEMMA HandoffInvBooked ==
    HandoffInv <=> \A c \in Controls : Booked(cases[c], handoffs[c], objectives[c])
  BY DEF HandoffInv, HandoffMirrored, ObjectiveFollowsCase,
         HandoffStoredWithCase, Booked

\* A step on the books of one control keeps the invariant of the others.
LEMMA BookedStep ==
    ASSUME TypeOK, HandoffInv, NEW c \in Controls, NEW x, NEW h, NEW o,
           cases' = [cases EXCEPT ![c] = x],
           handoffs' = [handoffs EXCEPT ![c] = h],
           objectives' = [objectives EXCEPT ![c] = o],
           Booked(x, h, o)
    PROVE  HandoffInv'
  <1>1. \A d \in Controls : Booked(cases[d], handoffs[d], objectives[d])
    BY HandoffInvBooked
  <1>2. \A d \in Controls : Booked(cases'[d], handoffs'[d], objectives'[d])
    BY <1>1 DEF TypeOK
  <1>. QED
    BY <1>2 DEF HandoffInv, HandoffMirrored, ObjectiveFollowsCase,
         HandoffStoredWithCase, Booked

\* A step that rewrites the case of c and leaves its handoff alone.
LEMMA BookedCaseStep ==
    ASSUME TypeOK, HandoffInv, NEW c \in Controls, NEW x,
           cases' = [cases EXCEPT ![c] = x],
           handoffs' = handoffs, objectives' = objectives,
           Booked(x, handoffs[c], objectives[c])
    PROVE  HandoffInv'
  BY BookedStep DEF TypeOK

\* A failing read keeps the books of a control.
LEMMA BookedFailing ==
    ASSUME NEW x \in Case, NEW h, NEW o, Booked(x, h, o)
    PROVE  Booked(RecordFailing(x), h, o)
  BY RecordFailingType DEF Booked, Exists, HandoffPath, ActiveStatuses, Absent,
     Case, CaseStatuses, TerminalStatuses

\* A passing read keeps the books of a control.
LEMMA BookedPassing ==
    ASSUME NEW x \in Case, NEW h, NEW o, Booked(x, h, o)
    PROVE  Booked(RecordPassing(x), h, o)
  BY RecordPassingType DEF Booked, Exists

\* record_issue keeps the books of a control.
LEMMA BookedIssue ==
    ASSUME NEW x \in Case, NEW h, NEW o, Booked(x, h, o),
           NEW mode, NEW url \in BOOLEAN
    PROVE  Booked(IssuePosted(x, mode, url), h, o)
  <1>1. IssuePosted(x, mode, url).status = x.status
        /\ IssuePosted(x, mode, url).handoff_linked = x.handoff_linked
        /\ IssuePosted(x, mode, url).handoff_status = x.handoff_status
    BY IssuePostedType
  <1>. QED
    BY <1>1 DEF Booked, Exists

\* The verifier runs on a case whose objective exists, and passes the objective
\* of a case it resolves.
LEMMA BookedVerified ==
    ASSUME NEW x \in Case, NEW h, NEW o, Booked(x, h, o), h # Absent
    PROVE  Booked(Verified(x), h, IF VerifierResolves(x) THEN "pass" ELSE o)
  <1>1. CASE VerifierResolves(x)
    BY <1>1, VerifiedType DEF Booked, Exists, HandoffPath, Absent, Case
  <1>2. CASE ~VerifierResolves(x)
    BY <1>2, VerifiedType
  <1>. QED
    BY <1>1, <1>2

\* The books are empty at first.
LEMMA InitHandoffInv == Init => HandoffInv
  <1> SUFFICES ASSUME Init PROVE HandoffInv
    OBVIOUS
  <1>1. NoCase.handoff_linked = FALSE /\ NoCase.status = Absent
    BY DEF NoCase
  <1>2. Booked(NoCase, Absent, Absent)
    BY <1>1 DEF Booked, HandoffPath, Absent
  <1>. QED
    BY <1>2, HandoffInvBooked DEF Init

\* Every step keeps the books of every control.
LEMMA NextHandoffInv ==
    ASSUME ~Misaddressed, TypeOK, HandoffInv, [Next]_vars
    PROVE  HandoffInv'
  <1>1. ASSUME NEW c \in Controls
        PROVE  /\ cases[c] \in Case
               /\ Booked(cases[c], handoffs[c], objectives[c])
               /\ RecordFailing(cases[c]) \in Case
               /\ Booked(RecordFailing(cases[c]), handoffs[c], objectives[c])
               /\ RecordPassing(cases[c]) \in Case
               /\ Booked(RecordPassing(cases[c]), handoffs[c], objectives[c])
    BY HandoffInvBooked, BookedFailing, BookedPassing, RecordFailingType,
       RecordPassingType DEF TypeOK
  <1>2. ASSUME UNCHANGED <<cases, handoffs, objectives>>
        PROVE  HandoffInv'
    BY <1>2 DEF HandoffInv, HandoffMirrored, ObjectiveFollowsCase,
       HandoffStoredWithCase
  <1>3. ASSUME NEW c \in Controls, LoopFoldsPassing(c)
        PROVE  HandoffInv'
    BY <1>1, <1>3, BookedCaseStep DEF LoopFoldsPassing
  <1>4. ASSUME NEW c \in Controls, LoopObservesFiring(c)
        PROVE  HandoffInv'
    BY <1>1, <1>4, BookedCaseStep DEF LoopObservesFiring
  <1>5. ASSUME NEW c \in Controls, NEW mode \in Modes, NEW url \in BOOLEAN,
               LoopFindsHandoff(c, mode, url)
        PROVE  HandoffInv'
    BY <1>1, <1>5, BookedIssue, BookedCaseStep DEF LoopFindsHandoff
  <1>6. ASSUME NEW c \in Controls, NEW mode \in Modes, NEW url \in BOOLEAN,
               LoopRequestsHandoff(c, mode, url)
        PROVE  HandoffInv'
    <2> DEFINE observed == RecordFailing(cases[c])
               x == IssuePosted(HandedOff(observed), mode, url)
    <2>1. observed \in Case /\ Booked(observed, Absent, objectives[c])
      BY <1>1, <1>6 DEF LoopRequestsHandoff
    <2>2. observed.status \in {"triaged", "needs_human"}
      BY <2>1, RecordFailingType DEF Booked, TypeOK, ActiveStatuses, Absent
    <2>3. CanRequestHandoff(observed)
      BY <2>2 DEF CanRequestHandoff, AllowedTransition, AllowedTransitions,
         VerifierOnlyStatuses
    <2>4. /\ cases' = [cases EXCEPT ![c] = x]
          /\ handoffs' = [handoffs EXCEPT ![c] = "requested"]
          /\ objectives' = [objectives EXCEPT ![c] = "pending"]
      BY <1>6, <2>3 DEF LoopRequestsHandoff
    <2>5. Booked(HandedOff(observed), "requested", "pending")
      BY <2>1, HandedOffType DEF Booked, Exists, HandoffPath, Absent
    <2>6. Booked(x, "requested", "pending")
      BY <2>1, <2>5, HandedOffType, BookedIssue
    <2> HIDE DEF x
    <2>. QED
      BY <2>4, <2>6, BookedStep
  <1>7. ASSUME NEW c \in Controls, VerifyDegraded(c)
        PROVE  HandoffInv'
    <2>1. Booked(NoteScanDegraded(cases[c]), handoffs[c], objectives[c])
      BY <1>1, NoteScanDegradedType DEF Booked, Exists
    <2>. QED
      BY <1>7, <2>1, BookedCaseStep DEF VerifyDegraded
  <1>8. ASSUME NEW c \in Controls, VerifyPassing(c) \/ VerifyFailing(c)
        PROVE  HandoffInv'
    <2>1. PICK y \in {RecordPassing(cases[c]), RecordFailing(cases[c])} :
            VerifierRuns(c, y)
      BY <1>8 DEF VerifyPassing, VerifyFailing
    <2>2. y \in Case /\ Booked(y, handoffs[c], objectives[c])
      BY <1>1, <2>1
    <2>3. handoffs[c] # Absent
      BY <1>1, <1>8 DEF Booked, VerifyPassing, VerifyFailing, ReRead, VerifiableStatuses,
         Absent
    <2>4. objectives[c] # Absent
      BY <2>2, <2>3 DEF Booked
    <2> DEFINE o == IF VerifierResolves(y) THEN "pass" ELSE objectives[c]
    <2>5. objectives' = [objectives EXCEPT ![c] = o]
      BY <2>1, <2>4 DEF VerifierRuns
    <2>6. cases' = [cases EXCEPT ![c] = Verified(y)]
      BY <2>1 DEF VerifierRuns
    <2>7. handoffs' = [handoffs EXCEPT ![c] = handoffs[c]]
      BY <1>8 DEF VerifyPassing, VerifyFailing, TypeOK
    <2>8. Booked(Verified(y), handoffs[c], o)
      BY <2>2, <2>3, BookedVerified
    <2> HIDE DEF o
    <2>. QED
      BY <2>5, <2>6, <2>7, <2>8, BookedStep
  <1>9. ASSUME NEW event \in Events, NEW update \in Updates,
               EngineeringUpdate(event, update)
        PROVE  HandoffInv'
    <2> DEFINE c == update.handoff
               x == EngineeringUpdated(cases[c], update)
    <2>1. /\ c \in Controls /\ update.case = c
          /\ update.status # Absent
      BY DEF Updates, UpdateStatuses, HandoffStatuses, Absent
    <2>2. handoffs[c] # Absent /\ cases[c] \in Case
          /\ Booked(cases[c], handoffs[c], objectives[c])
      BY <1>1, <1>9, <2>1 DEF EngineeringUpdate
    <2>3. Exists(cases[c]) /\ objectives[c] # Absent /\ cases[c].handoff_linked = TRUE
      BY <2>2 DEF Booked
    <2>4. /\ cases' = [cases EXCEPT ![c] = x]
          /\ handoffs' = [handoffs EXCEPT ![c] = update.status]
          /\ objectives' = [objectives EXCEPT ![c] = objectives[c]]
      BY <1>9, <2>1, <2>3 DEF EngineeringUpdate, TypeOK
    <2>5. /\ x.handoff_linked = TRUE /\ x.handoff_status = update.status
          /\ \/ x.status = cases[c].status
             \/ x.status \in ActiveStatuses
      BY <2>2, <2>3, EngineeringUpdatedType
    <2>6. Booked(x, update.status, objectives[c])
      BY <2>1, <2>2, <2>3, <2>5 DEF Booked, Exists, ActiveStatuses, Absent
    <2> HIDE DEF c, x
    <2>. QED
      BY <2>1, <2>4, <2>6, BookedStep
  <1>10. ASSUME NEW c \in Controls, NEW target \in ServiceTargets,
                ServiceTransition(c, target)
         PROVE  HandoffInv'
    <2> DEFINE x == Transition(cases[c], target, "loop")
    <2>1. /\ x.status \in {"triaged", "needs_human"}
          /\ x.handoff_linked = cases[c].handoff_linked
          /\ x.handoff_status = cases[c].handoff_status
      BY <1>1, <1>10, TransitionType DEF ServiceTransition
    <2>2. Booked(x, handoffs[c], objectives[c])
      BY <1>1, <2>1 DEF Booked, Exists, HandoffPath, Absent
    <2>. QED
      BY <1>10, <2>2, BookedCaseStep DEF ServiceTransition
  <1>11. ASSUME NEW c \in Controls,
                ControlDrifts(c) \/ ControlFixed(c) \/ LoopSkipsFiring(c)
         PROVE  HandoffInv'
    BY <1>2, <1>11 DEF ControlDrifts, ControlFixed, LoopSkipsFiring, store
  <1>12. CASE UNCHANGED vars
    BY <1>2, <1>12 DEF vars
  <1>. QED
    BY <1>3, <1>4, <1>5, <1>6, <1>7, <1>8, <1>9, <1>10, <1>11, <1>12
       DEF Next, Loop, Verification

\* The books of handoffs, objectives and cases agree in every reachable state.
LEMMA HandoffInvInvariant ==
    ASSUME ~Misaddressed
    PROVE  Spec => []HandoffInv
  <1>1. TypeOK /\ HandoffInv /\ [Next]_vars => HandoffInv'
    BY NextHandoffInv
  <1>. QED
    BY <1>1, InitHandoffInv, TypeCorrect, PTL DEF Spec

\* While callbacks name the case of their handoff, a case shows its handoff's
\* status or the verifier's "resolved".
THEOREM HandoffsMirrored ==
    ASSUME ~Misaddressed
    PROVE  Spec => []HandoffMirrored
  BY HandoffInvInvariant, PTL DEF HandoffInv

\* While callbacks name the case of their handoff, every case on the handoff path
\* has an objective and a resolved case has passed it.
THEOREM ObjectivesFollowCases ==
    ASSUME ~Misaddressed
    PROVE  Spec => []ObjectiveFollowsCase
  BY HandoffInvInvariant, PTL DEF HandoffInv

\* While callbacks name the case of their handoff, request_handoff never raises
\* between the write of the handoff and that of the case.
THEOREM HandoffsStoredWithCases ==
    ASSUME ~Misaddressed
    PROVE  Spec => []HandoffStoredWithCase
  BY HandoffInvInvariant, PTL DEF HandoffInv

=============================================================================
