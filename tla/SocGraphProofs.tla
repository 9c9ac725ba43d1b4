--------------------------- MODULE SocGraphProofs ---------------------------
(***************************************************************************)
(* The SOC workflow implements HumanGate, only a measured finding comes out*)
(* of it confirmed, and the posture loop hands off by the scanner's        *)
(* verdict, for any findings, any model and any number of threads.         *)
(***************************************************************************)
EXTENDS SocGraph, TLAPS

\* The gate has let through what the scanner found worth a handoff.
Passed(t) == finding[t].warrants /\ finding[t].severity = "HIGH" /\ BuildsHandoffs

\* Who has started what: an operator's thread is none of the loop's, and the
\* loop has not started what it still gates.
UsersApart ==
    \A t \in Threads :
        /\ user[t] = "operator" => cycle[t] = "gating"
        /\ user[t] = "loop" /\ cycle[t] = "gating" => node[t] = "start"

\* What is sure is measured.
Sure(f, e) == e.confidence = "confirmed" => f.measured

Built == {"prepare_approval", "approval_interrupt", "request_handoff", "end"}

\* The assessment is grounded once validated, the enriched finding once built, and
\* so is what the loop takes over.
GroundedSoFar ==
    \A t \in Threads :
        /\ node[t] = "finding_build" => Sure(finding[t], assessment[t])
        /\ node[t] \in Built =>
               /\ Sure(finding[t], enriched[t])
               /\ Gate!Grounded(finding[t], Question(enriched[t]))
        /\ node[t] = "request_handoff" => enriched[t].warrants
        /\ cycle[t] \in {"acting", "done"} /\ node[t] # "failed" => Sure(finding[t], acted[t])

\* The gate's decision stands from the gate to the handoff.
DecisionKept ==
    \A t \in Threads :
        /\ cycle[t] \in {"enriching", "acting"} => build_handoff[t] = Passed(t)
        /\ handed[t] = (cycle[t] = "done" /\ Passed(t))

IInv == TypeOK /\ UsersApart /\ GroundedSoFar /\ DecisionKept

USE GraphAssumption DEF Nodes, Built, GoesTo, graph, loop

LEMMA LoweredType ==
  /\ \A c \in Confidences : Lowered[c] \in Confidences /\ Lowered[c] # "confirmed"
  BY DEF Lowered, Confidences

LEMMA InitIInv == Init => IInv
<1>1. SUFFICES ASSUME Init PROVE IInv
  OBVIOUS
<1>2. finding \in [Threads -> Finding] /\ enriched = finding /\ acted = finding
  BY <1>1 DEF Init
<1>3. assessment \in [Threads -> Assessment] /\ specialist \in [Threads -> Specialists]
  BY <1>1 DEF Init, Assessment, Severities, Confidences, Specialists
<1>4. TypeOK
  BY <1>1, <1>2, <1>3 DEF Init, TypeOK
<1>5. UsersApart /\ GroundedSoFar /\ DecisionKept
  BY <1>1 DEF Init, UsersApart, GroundedSoFar, DecisionKept
<1>6. QED
  BY <1>4, <1>5 DEF IInv

-----------------------------------------------------------------------------
(* The nodes keep the invariant. *)

LEMMA StepsIInv ==
  ASSUME IInv, NEW t \in Threads,
         \/ Correlate(t) \/ RecallHistory(t) \/ Interrupt(t) \/ RequestHandoff(t)
         \/ OperatorStarts(t)
  PROVE  IInv'
<1>1. TypeOK'
  BY DEF IInv, TypeOK, Correlate, RecallHistory, Interrupt, RequestHandoff, OperatorStarts
<1>2. UsersApart'
  BY DEF IInv, TypeOK, UsersApart,
         Correlate, RecallHistory, Interrupt, RequestHandoff, OperatorStarts
<1>3. GroundedSoFar'
  BY DEF IInv, TypeOK, GroundedSoFar, Sure, Question, Gate!Grounded,
         Correlate, RecallHistory, Interrupt, RequestHandoff, OperatorStarts
<1>4. DecisionKept'
  BY DEF IInv, DecisionKept, Passed,
         Correlate, RecallHistory, Interrupt, RequestHandoff, OperatorStarts
<1>5. QED
  BY <1>1, <1>2, <1>3, <1>4 DEF IInv

LEMMA RouteIInv == ASSUME IInv, NEW t \in Threads, Route(t) PROVE IInv'
<1>1. Classified(finding[t]) \in Specialists
  BY DEF Classified, Owner, Specialists
<1>2. TypeOK'
  BY <1>1 DEF IInv, TypeOK, Route
<1>3. UsersApart' /\ GroundedSoFar' /\ DecisionKept'
  BY DEF IInv, TypeOK, UsersApart, GroundedSoFar, Sure, Question, Gate!Grounded, DecisionKept, Passed, Route
<1>4. QED
  BY <1>2, <1>3 DEF IInv

LEMMA AssessedIInv ==
  ASSUME IInv, NEW t \in Threads, NEW a \in Assessment, Assessed(t, a) PROVE IInv'
<1>1. TypeOK'
  BY DEF IInv, TypeOK, Assessed
<1>2. UsersApart' /\ GroundedSoFar' /\ DecisionKept'
  BY DEF IInv, TypeOK, UsersApart, GroundedSoFar, Sure, Question, Gate!Grounded, DecisionKept, Passed, Assessed
<1>3. QED
  BY <1>1, <1>2 DEF IInv

LEMMA ValidateIInv == ASSUME IInv, NEW t \in Threads, ValidateEvidence(t) PROVE IInv'
<1> DEFINE a == assessment[t]
           c == IF finding[t].measured THEN a.confidence ELSE Lowered[a.confidence]
<1>1. a \in Assessment /\ a.confidence \in Confidences
  BY DEF IInv, TypeOK, Assessment
<1>2. c \in Confidences /\ (c = "confirmed" => finding[t].measured)
  BY <1>1, LoweredType
<1>3. assessment' = [assessment EXCEPT ![t] = [a EXCEPT !.confidence = c]]
  BY DEF ValidateEvidence
<1>4. [a EXCEPT !.confidence = c] \in Assessment
      /\ [a EXCEPT !.confidence = c].confidence = c
  BY <1>1, <1>2 DEF Assessment
<1>5. TypeOK'
  BY <1>3, <1>4 DEF IInv, TypeOK, ValidateEvidence
<1>6. GroundedSoFar'
  BY <1>2, <1>3, <1>4 DEF IInv, TypeOK, GroundedSoFar, Sure, Question, Gate!Grounded, ValidateEvidence
<1>7. UsersApart' /\ DecisionKept'
  BY DEF IInv, TypeOK, UsersApart, DecisionKept, Passed, ValidateEvidence
<1>8. QED
  BY <1>5, <1>6, <1>7 DEF IInv

LEMMA BuildIInv == ASSUME IInv, NEW t \in Threads, BuildFinding(t) PROVE IInv'
<1> DEFINE f == finding[t]
           a == assessment[t]
           e == [f EXCEPT !.severity = a.severity, !.confidence = a.confidence,
                          !.warrants = @ \/ a.warrants]
<1>1. f \in Finding /\ a \in Assessment
  BY DEF IInv, TypeOK
<1>2. e \in Finding /\ e.confidence = a.confidence
      /\ e.warrants = (f.warrants \/ a.warrants)
  BY <1>1 DEF Finding, Assessment
<1>3. enriched' = [enriched EXCEPT ![t] = e]
  BY DEF BuildFinding
<1>4. Sure(f, e) /\ Gate!Grounded(f, Question(e))
  BY <1>1, <1>2
  DEF IInv, GroundedSoFar, BuildFinding, Sure, Question, Gate!Grounded, Finding
<1>5. TypeOK'
  BY <1>2, <1>3 DEF IInv, TypeOK, BuildFinding
<1>6. GroundedSoFar'
  <2>1. enriched'[t] = e /\ finding' = finding
    BY <1>3 DEF IInv, TypeOK, BuildFinding
  <2> HIDE DEF e
  <2>2. QED
    BY <1>3, <1>4, <2>1
    DEF IInv, TypeOK, GroundedSoFar, Sure, Question, Gate!Grounded, BuildFinding
<1>7. UsersApart' /\ DecisionKept'
  BY DEF IInv, TypeOK, UsersApart, DecisionKept, Passed, BuildFinding
<1>8. QED
  BY <1>5, <1>6, <1>7 DEF IInv

LEMMA ResumeIInv ==
  ASSUME IInv, NEW t \in Threads, NEW d \in Decisions, Resume(t, d) PROVE IInv'
<1>1. TypeOK' /\ UsersApart'
  BY DEF IInv, TypeOK, UsersApart, Resume
<1>2. GroundedSoFar' /\ DecisionKept'
  BY DEF IInv, TypeOK, GroundedSoFar, Sure, Question, Gate!Grounded, DecisionKept, Passed, Resume
<1>3. QED
  BY <1>1, <1>2 DEF IInv

-----------------------------------------------------------------------------
(* So do the loop's steps. *)

LEMMA LoopStartsIInv == ASSUME IInv, NEW t \in Threads, LoopStarts(t) PROVE IInv'
<1>1. finding[t].warrants \in BOOLEAN
  BY DEF IInv, TypeOK, Finding
<1>2. TypeOK'
  BY <1>1 DEF IInv, TypeOK, LoopStarts
<1>3. UsersApart' /\ GroundedSoFar'
  BY DEF IInv, TypeOK, UsersApart, GroundedSoFar, Sure, Question, Gate!Grounded, LoopStarts
<1>4. DecisionKept'
  BY DEF IInv, TypeOK, DecisionKept, Passed, LoopStarts
<1>5. QED
  BY <1>2, <1>3, <1>4 DEF IInv

LEMMA LoopGoesOnIInv ==
  ASSUME IInv, NEW t \in Threads, LoopReads(t) \/ LoopFails(t) \/ LoopActs(t)
  PROVE  IInv'
<1>1. TypeOK'
  BY DEF IInv, TypeOK, LoopReads, LoopFails, LoopActs
<1>2. UsersApart'
  BY DEF IInv, TypeOK, UsersApart, LoopReads, LoopFails, LoopActs
<1>3. GroundedSoFar'
  BY DEF IInv, TypeOK, GroundedSoFar, Sure, Question, Gate!Grounded, LoopReads, LoopFails, LoopActs
<1>4. DecisionKept'
  BY DEF IInv, TypeOK, DecisionKept, Passed, LoopReads, LoopFails, LoopActs
<1>5. QED
  BY <1>1, <1>2, <1>3, <1>4 DEF IInv

LEMMA StepIInv == IInv /\ [Next]_vars => IInv'
<1>1. SUFFICES ASSUME IInv, [Next]_vars PROVE IInv'
  OBVIOUS
<1>2. ASSUME NEW t \in Threads, Runs(t) PROVE IInv'
  <2>1. CASE Correlate(t) \/ RecallHistory(t) \/ Interrupt(t) \/ RequestHandoff(t)
    BY <1>1, <2>1, StepsIInv
  <2>2. CASE Route(t)
    BY <1>1, <2>2, RouteIInv
  <2>3. CASE ModelFails(t)
    <3>1. Deterministic(finding[t]) \in Assessment
      BY <1>1 DEF IInv, TypeOK, Deterministic, Finding, Assessment
    <3>2. QED
      BY <1>1, <2>3, <3>1, AssessedIInv DEF ModelFails
  <2>4. ASSUME NEW a \in Answers, ModelAnswers(t, a) PROVE IInv'
    <3>1. a \in Assessment
      BY GraphAssumption
    <3>2. QED
      BY <1>1, <2>4, <3>1, AssessedIInv DEF ModelAnswers
  <2>5. CASE ValidateEvidence(t)
    BY <1>1, <2>5, ValidateIInv
  <2>6. CASE BuildFinding(t)
    BY <1>1, <2>6, BuildIInv
  <2>7. QED
    BY <1>2, <2>1, <2>2, <2>3, <2>4, <2>5, <2>6 DEF Runs
<1>3. ASSUME NEW t \in Threads, Acts(t) PROVE IInv'
  BY <1>1, <1>3, LoopStartsIInv, LoopGoesOnIInv DEF Acts
<1>4. ASSUME NEW t \in Threads, OperatorStarts(t) PROVE IInv'
  BY <1>1, <1>4, StepsIInv
<1>5. ASSUME NEW t \in Threads, NEW d \in Decisions, Resume(t, d) PROVE IInv'
  BY <1>1, <1>5, ResumeIInv
<1>6. CASE UNCHANGED vars
  BY <1>1, <1>6
  DEF vars, IInv, TypeOK, UsersApart, GroundedSoFar, Sure, Question, Gate!Grounded, DecisionKept, Passed
<1>7. QED
  BY <1>1, <1>2, <1>3, <1>4, <1>5, <1>6 DEF Next

LEMMA IInvAlways == Spec => []IInv
  BY InitIInv, StepIInv, PTL DEF Spec

-----------------------------------------------------------------------------
(* The theorems. *)

\* Every variable keeps its type.
THEOREM GraphTypes == Spec => []TypeOK
<1>1. IInv => TypeOK
  BY DEF IInv
<1>2. QED
  BY <1>1, IInvAlways, PTL

\* implementation-plan.md:39-40: the loop hands off exactly what the scanner found
\* HIGH and worth a handoff, of all it has acted on.
THEOREM ScannerDecides == Spec => []ScannerDecidesHandoff
<1>1. IInv => ScannerDecidesHandoff
  BY DEF IInv, DecisionKept, Passed, ScannerDecidesHandoff
<1>2. QED
  BY <1>1, IInvAlways, PTL

\* nodes.py:109-120: whatever the scanner and the model say, the finding that is
\* asked about, the one the run ends with and the one the loop stores after a run
\* that did not fail are "confirmed" only if something measured them.
THEOREM ConfirmedIsMeasured == Spec => []SureOnlyIfMeasured
<1>1. IInv => SureOnlyIfMeasured
  BY DEF IInv, GroundedSoFar, Sure, SureOnlyIfMeasured
<1>2. QED
  BY <1>1, IInvAlways, PTL

-----------------------------------------------------------------------------
(* Refinement: a node between the start and the question, and whatever the *)
(* loop does besides catching an exception, is a stutter of HumanGate.     *)

LEMMA Asks == ASSUME IInv, NEW t \in Threads, Interrupt(t) PROVE Gate!Ask(t)
<1>1. StageBar[t] = "working" /\ StageBar' = [StageBar EXCEPT ![t] = "asked"]
  BY DEF IInv, TypeOK, StageBar, Stage, Interrupt
<1>2. ShownBar' = [ShownBar EXCEPT ![t] = Question(enriched[t])]
  BY DEF IInv, TypeOK, ShownBar, Stage, Interrupt
<1>3. Question(enriched[t]) \in Gate!Question
      /\ Gate!Grounded(finding[t], Question(enriched[t]))
  BY DEF IInv, TypeOK, GroundedSoFar, Interrupt, Finding, Question, Gate!Question
<1>4. QED
  BY <1>1, <1>2, <1>3 DEF Gate!Ask, Interrupt

LEMMA OperatorAnswers ==
  ASSUME IInv, NEW t \in Threads, NEW d \in Decisions, Resume(t, d)
  PROVE  Gate!Answer(t)
<1>1. /\ StageBar[t] = "asked" /\ ShownBar[t].warrants = enriched[t].warrants
      /\ ShownBar' = ShownBar
  BY DEF Question, IInv, TypeOK, StageBar, ShownBar, Stage, Resume
<1>2. \/ StageBar' = [StageBar EXCEPT ![t] = "closed"]
      \/ enriched[t].warrants /\ StageBar' = [StageBar EXCEPT ![t] = "agreed"]
  BY DEF IInv, TypeOK, StageBar, Stage, Resume
<1>3. QED
  BY <1>1, <1>2 DEF Gate!Answer, Resume

LEMMA Requests == ASSUME IInv, NEW t \in Threads, RequestHandoff(t) PROVE Gate!Request(t)
<1>1. StageBar[t] = "agreed" /\ StageBar' = [StageBar EXCEPT ![t] = "closed"]
      /\ ShownBar' = ShownBar
  BY ZenonT(40) DEF IInv, TypeOK, StageBar, ShownBar, Stage, RequestHandoff
<1>2. QED
  BY <1>1 DEF Gate!Request, RequestHandoff

LEMMA Fails == ASSUME IInv, NEW t \in Threads, LoopFails(t) PROVE Gate!Fail(t)
<1>1. StageBar[t] = "working" /\ StageBar' = [StageBar EXCEPT ![t] = "failed"]
      /\ ShownBar' = ShownBar
  BY DEF IInv, TypeOK, StageBar, ShownBar, Stage, LoopFails
<1>2. QED
  BY <1>1 DEF Gate!Fail, LoopFails

LEMMA Stutters ==
  ASSUME IInv, UNCHANGED <<finding, handoff_requested>>, NEW t \in Threads,
         \A u \in Threads \ {t} : node'[u] = node[u] /\ enriched'[u] = enriched[u],
         Stage(t)' = Stage(t),
         Stage(t) \in {"working", "failed"} \/ enriched'[t] = enriched[t]
  PROVE  UNCHANGED Gate!vars
<1>1. \A u \in Threads : Stage(u)' = Stage(u)
  BY DEF Stage
<1>2. StageBar' = StageBar /\ ShownBar' = ShownBar
  BY <1>1 DEF StageBar, ShownBar
<1>3. QED
  BY <1>2 DEF Gate!vars

LEMMA StepImplements == IInv /\ [Next]_vars => [Gate!Next]_(Gate!vars)
<1>1. SUFFICES ASSUME IInv, [Next]_vars PROVE [Gate!Next]_(Gate!vars)
  OBVIOUS
<1>2. ASSUME NEW t \in Threads, Runs(t) PROVE [Gate!Next]_(Gate!vars)
  <2>1. CASE Interrupt(t)
    BY <1>1, <2>1, Asks DEF Gate!Next
  <2>2. CASE RequestHandoff(t)
    BY <1>1, <2>2, Requests DEF Gate!Next
  <2>3. ASSUME \/ Correlate(t) \/ RecallHistory(t) \/ Route(t)
               \/ \E a \in Assessment : Assessed(t, a)
               \/ ValidateEvidence(t) \/ BuildFinding(t)
        PROVE  UNCHANGED Gate!vars
    <3>1. /\ UNCHANGED <<finding, handoff_requested>>
          /\ \A u \in Threads \ {t} : node'[u] = node[u] /\ enriched'[u] = enriched[u]
          /\ node[t] \in {"correlate_and_dedupe", "recall_history", "soc_commander_route",
                          "specialist", "evidence_validation", "finding_build"}
          /\ node'[t] \in {"recall_history", "soc_commander_route", "specialist",
                           "evidence_validation", "finding_build", "prepare_approval"}
      BY <1>1, <2>3
      DEF IInv, TypeOK, Correlate, RecallHistory, Route, Assessed, ValidateEvidence,
          BuildFinding
    <3>2. Stage(t) = "working" /\ Stage(t)' = "working"
      BY <3>1 DEF Stage
    <3>3. QED
      BY <1>1, <3>1, <3>2, Stutters
  <2>4. CASE ModelFails(t) \/ \E a \in Answers : ModelAnswers(t, a)
    <3>1. Deterministic(finding[t]) \in Assessment
      BY <1>1 DEF IInv, TypeOK, Deterministic, Finding, Assessment
    <3>2. \E a \in Assessment : Assessed(t, a)
      BY <2>4, <3>1, GraphAssumption DEF ModelFails, ModelAnswers
    <3>3. QED
      BY <2>3, <3>2
  <2>5. QED
    BY <1>2, <2>1, <2>2, <2>3, <2>4 DEF Runs
<1>3. ASSUME NEW t \in Threads, Acts(t) PROVE [Gate!Next]_(Gate!vars)
  <2>1. CASE LoopFails(t)
    BY <1>1, <2>1, Fails DEF Gate!Next
  <2>2. CASE LoopStarts(t)
    <3>1. node[t] = "start" /\ node'[t] = "correlate_and_dedupe"
      BY <1>1, <2>2 DEF IInv, TypeOK, UsersApart, LoopStarts
    <3>2. Stage(t) = "working" /\ Stage(t)' = "working"
      BY <3>1 DEF Stage
    <3>3. UNCHANGED Gate!vars
      BY <1>1, <2>2, <3>2, Stutters DEF IInv, TypeOK, LoopStarts
    <3>4. QED
      BY <3>3
  <2>3. CASE LoopReads(t) \/ LoopActs(t)
    <3>1. UNCHANGED <<finding, node, enriched, handoff_requested>>
      BY <2>3 DEF LoopReads, LoopActs
    <3>2. UNCHANGED Gate!vars
      BY <3>1 DEF Gate!vars, StageBar, ShownBar, Stage
    <3>3. QED
      BY <3>2
  <2>4. QED
    BY <1>3, <2>1, <2>2, <2>3 DEF Acts
<1>4. ASSUME NEW t \in Threads, OperatorStarts(t) PROVE [Gate!Next]_(Gate!vars)
  <2>1. node[t] = "start" /\ node'[t] = "correlate_and_dedupe"
    BY <1>1, <1>4 DEF IInv, TypeOK, OperatorStarts
  <2>2. Stage(t) = "working" /\ Stage(t)' = "working"
    BY <2>1 DEF Stage
  <2>3. UNCHANGED Gate!vars
    BY <1>1, <1>4, <2>2, Stutters DEF IInv, TypeOK, OperatorStarts
  <2>4. QED
    BY <2>3
<1>5. ASSUME NEW t \in Threads, NEW d \in Decisions, Resume(t, d)
      PROVE  [Gate!Next]_(Gate!vars)
  BY <1>1, <1>5, OperatorAnswers DEF Gate!Next
<1>6. CASE UNCHANGED vars
  BY <1>6 DEF vars, Gate!vars, StageBar, ShownBar, Stage
<1>7. QED
  BY <1>1, <1>2, <1>3, <1>4, <1>5, <1>6 DEF Next

LEMMA InitImplements == Init => Gate!Init
<1>1. SUFFICES ASSUME Init PROVE Gate!Init
  OBVIOUS
<1>2. \A t \in Threads : Stage(t) = "working"
  BY <1>1 DEF Init, Stage
<1>3. finding \in [Threads -> Finding]
  BY <1>1 DEF Init
<1>4. StageBar = [t \in Threads |-> "working"]
      /\ ShownBar = [t \in Threads |-> NothingAsked]
  BY <1>2 DEF StageBar, ShownBar
<1>5. QED
  BY <1>1, <1>3, <1>4 DEF Init, Gate!Init

\* architecture.md: the workflow is a HumanGate: its question says that a handoff is
\* warranted whenever the scanner found so, stands until it is answered, once, and
\* nothing is requested but after a yes to a question that said so.
THEOREM ImplementsHumanGate == Spec => HumanGateSpec
  BY InitImplements, StepImplements, IInvAlways, PTL DEF Spec, HumanGateSpec, Gate!Spec
=============================================================================
