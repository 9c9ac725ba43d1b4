------------------------------ MODULE SocGraph ------------------------------
(***************************************************************************)
(* The SOC commander workflow (app/graph/, app/graph_runtime.py,           *)
(* app/agents/assessments.py), one action per node, and its two users: an  *)
(* operator, who resumes the run at its question, and the posture loop     *)
(* (app/posture/loop.py), which gates a finding, has it enriched, and      *)
(* stores and hands off what comes back, but never answers the question.   *)
(* A model answers as it likes, or fails.                                  *)
(***************************************************************************)
EXTENDS Naturals

CONSTANTS
    Threads,        \* the thread ids
    Findings,       \* the findings the scanner seeds them with
    Severe,         \* the severities at or above the severity floor
    HasModel,       \* is a model configured?
    Answers,        \* the assessments a model may return
    BuildsHandoffs  \* do SOC_MODE and SOC_POSTURE_HANDOFF_ENABLED allow one?

Specialists == {"routing_security", "exposure", "crypto", "detection"}
Categories == {"bgp_rpki", "dns", "firewall", "listening_ports", "isolation",
               "wireguard", "vault", "tls", "detection", "other"}
Severities == {"HIGH", "MEDIUM", "LOW", "UNKNOWN"}
Confidences == {"confirmed", "high", "medium", "low", "tentative"}

\* A finding; measured says whether some evidence has a source_tool other than
\* "git".  Only an operator's finding has a hint: SecurityFinding has no such field.
Finding == [category : Categories, hint : Specialists \cup {"", "unknown"}, severity : Severities,
            confidence : Confidences, measured : BOOLEAN, warrants : BOOLEAN]

\* A SpecialistAssessment.
Assessment == [severity : Severities, confidence : Confidences, warrants : BOOLEAN]

ASSUME GraphAssumption ==
    /\ Findings \subseteq Finding
    /\ Answers \subseteq Assessment
    /\ Severe \subseteq Severities
    /\ {HasModel, BuildsHandoffs} \subseteq BOOLEAN

VARIABLES
    node,           \* node[t]: the node thread t is at
    finding,        \* finding[t]: the seed
    specialist,     \* specialist[t]: who owns it
    assessment,     \* assessment[t]: what the specialist says
    enriched,       \* enriched[t]: enriched_finding, or the seed if there is none
    handoff_requested,
    user,           \* user[t]: who starts the thread: "operator" or "loop"
    cycle,          \* cycle[t]: where the loop is with the finding
    build_handoff,  \* build_handoff[t]: what the gate has decided
    acted,          \* acted[t]: the finding the loop goes on with
    handed          \* handed[t]: has the loop built a handoff of it?

graph == <<node, specialist, assessment, enriched, handoff_requested>>
loop == <<cycle, build_handoff, acted, handed>>
vars == <<graph, finding, user, loop>>

Nodes == {"start", "correlate_and_dedupe", "recall_history", "soc_commander_route",
          "specialist", "evidence_validation", "finding_build", "prepare_approval",
          "approval_interrupt", "request_handoff", "end", "failed"}

Init ==
    /\ node = [t \in Threads |-> "start"]
    /\ finding \in [Threads -> Findings]
    /\ specialist = [t \in Threads |-> "exposure"]
    /\ assessment = [t \in Threads |-> [severity |-> "UNKNOWN", confidence |-> "medium",
                                        warrants |-> FALSE]]
    /\ enriched = finding
    /\ handoff_requested = [t \in Threads |-> FALSE]
    /\ user \in [Threads -> {"operator", "loop"}]
    /\ \A t \in Threads : user[t] = "loop" => finding[t].hint = ""
    /\ cycle = [t \in Threads |-> "gating"]
    /\ build_handoff = [t \in Threads |-> FALSE]
    /\ acted = finding
    /\ handed = [t \in Threads |-> FALSE]

-----------------------------------------------------------------------------
(* The nodes. *)

GoesTo(t, next) == node' = [node EXCEPT ![t] = next]

Owner(category) ==
    CASE category \in {"bgp_rpki", "dns"} -> "routing_security"
      [] category \in {"wireguard", "vault", "tls"} -> "crypto"
      [] category = "detection" -> "detection"
      [] OTHER -> "exposure"

\* Mutant of Classified: any hint is followed.
ClassifiedByAnyHint(f) == IF f.hint # "" THEN f.hint ELSE Owner(f.category)

\* classify_specialist: a valid hint comes before the category.
Classified(f) == IF f.hint \in Specialists THEN f.hint ELSE Owner(f.category)

\* correlate_and_dedupe and recall_history only read.
Correlate(t) ==
    /\ node[t] = "correlate_and_dedupe"
    /\ GoesTo(t, "recall_history")
    /\ UNCHANGED <<finding, specialist, assessment, enriched, handoff_requested,
                   user, loop>>

RecallHistory(t) ==
    /\ node[t] = "recall_history"
    /\ GoesTo(t, "soc_commander_route")
    /\ UNCHANGED <<finding, specialist, assessment, enriched, handoff_requested,
                   user, loop>>

Route(t) ==
    /\ node[t] = "soc_commander_route"
    /\ specialist' = [specialist EXCEPT ![t] = Classified(finding[t])]
    /\ GoesTo(t, "specialist")
    /\ UNCHANGED <<finding, assessment, enriched, handoff_requested, user, loop>>

\* deterministic_assessment: the scanner's own conclusion.
Deterministic(f) ==
    [severity |-> f.severity, confidence |-> f.confidence, warrants |-> f.warrants]

Assessed(t, a) ==
    /\ node[t] = "specialist"
    /\ assessment' = [assessment EXCEPT ![t] = a]
    /\ GoesTo(t, "evidence_validation")
    /\ UNCHANGED <<finding, specialist, enriched, handoff_requested, user, loop>>

\* _run_specialist: the model answers,
ModelAnswers(t, a) == HasModel /\ Assessed(t, a)

\* Mutant of ModelFails: the failure is not caught, and ends the run.
ModelFailsUncaught(t) ==
    /\ node[t] = "specialist"
    /\ GoesTo(t, "end")
    /\ UNCHANGED <<finding, specialist, assessment, enriched, handoff_requested,
                   user, loop>>

\* or there is none, or it fails, in whatever way.
ModelFails(t) == Assessed(t, Deterministic(finding[t]))

\* Mutant of Lowered: below the lowest confidence comes index -1, the last.
LoweredRoundTheEnd ==
    [c \in Confidences |->
        CASE c = "confirmed" -> "high"
          [] c = "high" -> "medium"
          [] c = "medium" -> "low"
          [] c = "low" -> "tentative"
          [] OTHER -> "confirmed"]

\* One step down _CONFIDENCE_ORDER, to the lowest at most.
Lowered ==
    [c \in Confidences |->
        CASE c = "confirmed" -> "high"
          [] c = "high" -> "medium"
          [] c = "medium" -> "low"
          [] OTHER -> "tentative"]

\* evidence_validation lowers the confidence in what nobody has measured.
ValidateEvidence(t) ==
    /\ node[t] = "evidence_validation"
    /\ assessment' =
          [assessment EXCEPT ![t].confidence =
              IF finding[t].measured THEN @ ELSE Lowered[@]]
    /\ GoesTo(t, "finding_build")
    /\ UNCHANGED <<finding, specialist, enriched, handoff_requested, user, loop>>

\* Mutant of BuildFinding: the model's word on the handoff replaces the scanner's.
BuildFindingByModel(t) ==
    /\ node[t] = "finding_build"
    /\ enriched' =
          [enriched EXCEPT ![t] =
              [finding[t] EXCEPT !.severity = assessment[t].severity,
                                 !.confidence = assessment[t].confidence,
                                 !.warrants = assessment[t].warrants]]
    /\ GoesTo(t, "prepare_approval")
    /\ UNCHANGED <<finding, specialist, assessment, handoff_requested, user, loop>>

BuildFinding(t) ==
    /\ node[t] = "finding_build"
    /\ enriched' =
          [enriched EXCEPT ![t] =
              [finding[t] EXCEPT !.severity = assessment[t].severity,
                                 !.confidence = assessment[t].confidence,
                                 !.warrants = @ \/ assessment[t].warrants]]
    /\ GoesTo(t, "prepare_approval")
    /\ UNCHANGED <<finding, specialist, assessment, handoff_requested, user, loop>>

\* What approval_interrupt tells the human of a finding, besides its case and
\* title: its severity and whether it warrants a handoff.  Its confidence and the
\* evidence are not in the question.
Question(f) == [severity |-> f.severity, warrants |-> f.warrants]

\* prepare_approval; approval_interrupt asks its question and stops the run.
Interrupt(t) ==
    /\ node[t] = "prepare_approval"
    /\ GoesTo(t, "approval_interrupt")
    /\ UNCHANGED <<finding, specialist, assessment, enriched, handoff_requested,
                   user, loop>>

\* Only a dict whose "decision" says so approves: a bare word does not.
Decisions == {"approve", "reject", "a bare word"}

\* resume, the rest of approval_interrupt and _route_after_approval.
Resume(t, decision) ==
    /\ user[t] = "operator"
    /\ node[t] = "approval_interrupt"
    /\ GoesTo(t, IF decision = "approve" /\ enriched[t].warrants
                 THEN "request_handoff" ELSE "end")
    /\ UNCHANGED <<finding, specialist, assessment, enriched, handoff_requested,
                   user, loop>>

RequestHandoff(t) ==
    /\ node[t] = "request_handoff"
    /\ handoff_requested' = [handoff_requested EXCEPT ![t] = TRUE]
    /\ GoesTo(t, "end")
    /\ UNCHANGED <<finding, specialist, assessment, enriched, user, loop>>

-----------------------------------------------------------------------------
(* The users. *)

OperatorStarts(t) ==
    /\ user[t] = "operator"
    /\ node[t] = "start"
    /\ GoesTo(t, "correlate_and_dedupe")
    /\ UNCHANGED <<finding, specialist, assessment, enriched, handoff_requested,
                   user, loop>>

\* evaluate_gate, on the scanner's finding; then _enrich starts a thread.
LoopStarts(t) ==
    /\ user[t] = "loop"
    /\ cycle[t] = "gating"
    /\ finding[t].severity \in Severe
    /\ build_handoff' =
          [build_handoff EXCEPT ![t] =
              finding[t].warrants /\ finding[t].severity = "HIGH" /\ BuildsHandoffs]
    /\ cycle' = [cycle EXCEPT ![t] = "enriching"]
    /\ GoesTo(t, "correlate_and_dedupe")
    /\ UNCHANGED <<finding, specialist, assessment, enriched, handoff_requested,
                   user, acted, handed>>

\* start returns at the interrupt, and the loop goes on with enriched_finding.
LoopReads(t) ==
    /\ cycle[t] = "enriching"
    /\ node[t] = "approval_interrupt"
    /\ acted' = [acted EXCEPT ![t] = enriched[t]]
    /\ cycle' = [cycle EXCEPT ![t] = "acting"]
    /\ UNCHANGED <<finding, graph, user, build_handoff, handed>>

\* _enrich catches whatever the workflow raises, and keeps the scanner's finding.
LoopFails(t) ==
    /\ cycle[t] = "enriching"
    /\ node[t] \notin {"start", "approval_interrupt", "request_handoff", "end", "failed"}
    /\ GoesTo(t, "failed")
    /\ cycle' = [cycle EXCEPT ![t] = "acting"]
    /\ UNCHANGED <<finding, specialist, assessment, enriched, handoff_requested,
                   user, build_handoff, acted, handed>>

\* Mutant of LoopActs: the gate is asked again, about the enriched finding.
LoopActsOnAnswer(t) ==
    /\ cycle[t] = "acting"
    /\ handed' = [handed EXCEPT ![t] =
                     acted[t].warrants /\ acted[t].severity = "HIGH" /\ BuildsHandoffs]
    /\ cycle' = [cycle EXCEPT ![t] = "done"]
    /\ UNCHANGED <<finding, graph, user, build_handoff, acted>>

\* observe_finding stores the finding, request_handoff hands it off.
LoopActs(t) ==
    /\ cycle[t] = "acting"
    /\ handed' = [handed EXCEPT ![t] = build_handoff[t]]
    /\ cycle' = [cycle EXCEPT ![t] = "done"]
    /\ UNCHANGED <<finding, graph, user, build_handoff, acted>>

Runs(t) ==
    \/ Correlate(t) \/ RecallHistory(t) \/ Route(t) \/ ModelFails(t)
    \/ \E a \in Answers : ModelAnswers(t, a)
    \/ ValidateEvidence(t) \/ BuildFinding(t) \/ Interrupt(t) \/ RequestHandoff(t)

Acts(t) == LoopStarts(t) \/ LoopReads(t) \/ LoopFails(t) \/ LoopActs(t)

Next ==
    \E t \in Threads :
        \/ Runs(t) \/ Acts(t) \/ OperatorStarts(t)
        \/ \E decision \in Decisions : Resume(t, decision)

Spec == Init /\ [][Next]_vars

\* A run goes on by itself once started, and the loop with it; a model answers or
\* fails. An operator may never start or answer one.
FairSpec == Spec /\ \A t \in Threads : WF_vars(Runs(t)) /\ WF_vars(LoopReads(t) \/ LoopActs(t))

-----------------------------------------------------------------------------
(* Properties. *)

TypeOK ==
    /\ node \in [Threads -> Nodes]
    /\ finding \in [Threads -> Finding]
    /\ specialist \in [Threads -> Specialists]
    /\ assessment \in [Threads -> Assessment]
    /\ enriched \in [Threads -> Finding]
    /\ handoff_requested \in [Threads -> BOOLEAN]
    /\ user \in [Threads -> {"operator", "loop"}]
    /\ cycle \in [Threads -> {"gating", "enriching", "acting", "done"}]
    /\ build_handoff \in [Threads -> BOOLEAN]
    /\ acted \in [Threads -> Finding]
    /\ handed \in [Threads -> BOOLEAN]

\* The workflow as its operators see it: what is asked once is the question about
\* the enriched finding, and it stays what it was when it is approved.
Stage(t) ==
    CASE node[t] = "approval_interrupt" -> "asked"
      [] node[t] = "request_handoff" -> "agreed"
      [] node[t] = "end" -> "closed"
      [] node[t] = "failed" -> "failed"
      [] OTHER -> "working"

StageBar == [t \in Threads |-> Stage(t)]

NothingAsked == [severity |-> "", warrants |-> FALSE]

ShownBar ==
    [t \in Threads |->
        IF Stage(t) \in {"working", "failed"} THEN NothingAsked ELSE Question(enriched[t])]

Gate == INSTANCE HumanGate WITH
    NoQuestion <- NothingAsked,
    found <- finding, stage <- StageBar, shown <- ShownBar,
    requested <- handoff_requested

\* architecture.md: the graph ends at a human, and hands off nothing by itself:
\* whatever the model says, the workflow is a HumanGate.  The question it asks
\* warrants whatever handoff the scanner found warranted; the severity in it is
\* the model's.
HumanGateSpec == Gate!Spec

\* implementation-plan.md:39-40: "the deterministic checks remain the ground truth":
\* the loop hands off only what the scanner itself found HIGH and worth a handoff,
\* and hands off all of that once it has acted, whatever the model made of it.
ScannerDecidesHandoff ==
    \A t \in Threads :
        LET scanned == finding[t]
        IN  /\ handed[t] => scanned.warrants /\ scanned.severity = "HIGH"
            /\ /\ cycle[t] = "done" /\ BuildsHandoffs
               /\ scanned.warrants /\ scanned.severity = "HIGH"
               => handed[t]

\* nodes.py:109-120: the enriched finding is "confirmed" only if something measured
\* it, however sure the scanner and the model are: when the human is asked, when the
\* run ends, and when the loop has taken it over from a run that did not fail.
SureOnlyIfMeasured ==
    \A t \in Threads :
        /\ /\ node[t] \in {"prepare_approval", "approval_interrupt", "request_handoff", "end"}
           /\ enriched[t].confidence = "confirmed"
           => finding[t].measured
        /\ /\ cycle[t] \in {"acting", "done"} /\ node[t] # "failed"
           /\ acted[t].confidence = "confirmed"
           => finding[t].measured

\* nodes.py:97: "a model failure must not crash the graph": every run that is
\* started comes to its question, or to an exception that the loop catches; and a
\* finding that the loop has taken up is stored, one way or the other.
EveryRunIsAsked ==
    \A t \in Threads :
        /\ node[t] = "correlate_and_dedupe" ~> node[t] \in {"approval_interrupt", "failed"}
        /\ cycle[t] = "enriching" ~> cycle[t] = "done"

=============================================================================
