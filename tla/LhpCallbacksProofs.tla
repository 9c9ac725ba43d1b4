------------------------- MODULE LhpCallbacksProofs -------------------------
(***************************************************************************)
(* The inbox keeps the server and the Engineering Loop in step, for any    *)
(* statuses and types that are reported, any number of reports, any network*)
(* and any skew of the clocks.                                             *)
(*                                                                         *)
(* Engineering has at most one report that is not answered.  The inbox is  *)
(* always the reports before it, or these and it: so a request is either of*)
(* a report the inbox has, and changes nothing, or of the one in progress. *)
(***************************************************************************)
EXTENDS LhpCallbacks, SequenceTheorems, TLAPS

\* The status the handoff has after the first n reports.
After(n) == IF n = 0 THEN FreshHandoff ELSE updates[n].status

\* Before Engineering has fetched the handoff, nothing was exchanged.
NotFetched ==
    view = Absent =>
        /\ updates = <<>> /\ answered = 0 /\ inbox = {}
        /\ requests = {} /\ answers = {}
        /\ handoff # Absent =>
              handoff = FreshHandoff /\ case.handoff_status = FreshHandoff

\* Once it has, the server has the answered reports, or all of them.
InStep(n) ==
    /\ handoff = After(n)
    /\ case.handoff_status = After(n)
    /\ inbox = 1..n

Fetched ==
    view # Absent => InStep(answered) \/ InStep(Len(updates))

\* One report at a time; requests are of reports that were made, answers of
\* reports that were applied.
Exchange ==
    /\ answered = Len(updates) \/ answered = Len(updates) - 1
    /\ \A r \in requests : r.event <= Len(updates)
    /\ answers \subseteq inbox

IInv == TypeOK /\ NotFetched /\ Fetched /\ Exchange

\* An update asks a case for an active status, or for none.
LEMMA TargetIsActive ==
  ASSUME NEW update \in Reports
  PROVE  UpdateTarget(update) \in ActiveStatuses \cup {Absent}
  BY ReportsAssumption
  DEF Reports, UpdateTarget, HandoffToCaseStatus, ActiveStatuses

\* record_engineering_update keeps a case well-typed and mirrors the status.
LEMMA UpdatedCase ==
  ASSUME NEW c \in Case, NEW update \in Reports
  PROVE  /\ EngineeringUpdated(c, update) \in Case
         /\ EngineeringUpdated(c, update).handoff_status = update.status
<1> DEFINE target == UpdateTarget(update)
           status == IF target # Absent /\ AllowedTransition(c.status, target, "engineering")
                       THEN target ELSE c.status
<1>1. status \in CaseStatuses \cup {Absent}
  BY TargetIsActive DEF CaseStatuses, Case
<1>2. update.status \in HandoffStatuses
  BY ReportsAssumption DEF Reports, UpdateStatuses
<1>3. EngineeringUpdated(c, update) =
        [c EXCEPT !.status = status, !.handoff_status = update.status]
  BY DEF EngineeringUpdated
<1> HIDE DEF status
<1>4. QED
  BY <1>1, <1>2, <1>3 DEF Case

\* request_handoff's case, as a restarted server loads it.
LEMMA FreshTypes ==
  /\ FreshHandoff \in UpdateStatuses /\ FreshHandoff # Absent
  /\ FreshCase \in Case /\ FreshCase.handoff_status = FreshHandoff
  /\ NoCase \in Case
<1>1. NoCase \in Case /\ NoCase.status = Absent
  BY DEF NoCase, Case
<1>2. Refreshed(NoCase) \in Case
  BY <1>1 DEF Case, Refreshed, CaseStatuses, ActiveStatuses
<1>3. RecordFailing(NoCase) \in Case
  BY <1>1, <1>2 DEF Case, RecordFailing, Transition, CaseStatuses, ActiveStatuses
<1>4. FreshCase \in Case /\ FreshCase.handoff_status = "requested"
  BY <1>3 DEF FreshCase, HandedOff, Case, CaseStatuses, ActiveStatuses, HandoffStatuses
<1>5. QED
  BY <1>1, <1>4
  DEF FreshHandoff, UpdateStatuses, HandoffStatuses, VerifierOnlyHandoffStatuses, Absent

\* What was reported is a status an update may have.
LEMMA AfterType ==
  ASSUME TypeOK, NEW n \in 0..Len(updates)
  PROVE  After(n) \in UpdateStatuses /\ After(n) # Absent
<1>1. n # 0 => updates[n] \in Reports
  BY DEF TypeOK
<1>2. n # 0 => updates[n].status \in UpdateStatuses
  BY <1>1, ReportsAssumption DEF Reports
<1>3. Absent \notin UpdateStatuses
  BY DEF Absent, UpdateStatuses, HandoffStatuses
<1>4. QED
  BY <1>2, <1>3, FreshTypes DEF After

LEMMA InitIInv == Init => IInv
<1> SUFFICES ASSUME Init PROVE IInv
  OBVIOUS
<1>1. TypeOK
  <2>1. updates \in Seq(Reports) /\ Len(updates) = 0
    BY EmptySeq DEF Init
  <2>2. QED
    <3>1. Len(updates) <= MaxUpdates /\ answered \in 0..Len(updates) /\ now \in 0..MaxTime
      BY <2>1, MaxUpdatesAssumption, ClockAssumption DEF Init
    <3>2. QED
      BY <2>1, <3>1, FreshTypes DEF Init, TypeOK
<1>2. NotFetched /\ Fetched
  BY DEF Init, NotFetched, Fetched
<1>3. Exchange
  BY EmptySeq DEF Init, Exchange
<1>4. QED
  BY <1>1, <1>2, <1>3 DEF IInv

\* Steps of the posture process, the network and the clock leave the server and
\* Engineering alone, and make nobody forget a report.
LEMMA AroundIInv ==
  ASSUME IInv, RequestHandoff \/ Tick
               \/ (\E r \in Requests : LoseRequest(r))
               \/ (\E e \in 1..MaxUpdates : LoseAnswer(e))
  PROVE  IInv'
<1>1. /\ UNCHANGED <<server, engineering>>
      /\ requests' \subseteq requests /\ answers' \subseteq answers
      /\ stored' \in BOOLEAN /\ now' \in 0..MaxTime
  <2> stored \in BOOLEAN /\ now \in 0..MaxTime
    BY DEF IInv, TypeOK
  <2>1. CASE RequestHandoff
    BY <2>1 DEF RequestHandoff, network, server, engineering
  <2>2. CASE Tick
    BY <2>2, ClockAssumption DEF Tick, network, server, engineering
  <2>3. CASE \E r \in Requests : LoseRequest(r)
    BY <2>3 DEF LoseRequest, server, engineering
  <2>4. CASE \E e \in 1..MaxUpdates : LoseAnswer(e)
    BY <2>4 DEF LoseAnswer, server, engineering
  <2>5. QED
    BY <2>1, <2>2, <2>3, <2>4
<1>2. TypeOK'
  BY <1>1 DEF IInv, TypeOK, server, engineering
<1>3. NotFetched' /\ Fetched' /\ Exchange'
  BY <1>1
  DEF IInv, NotFetched, Fetched, InStep, After, Exchange, server, engineering
<1>4. QED
  BY <1>2, <1>3 DEF IInv

\* A restart loads the handoff only into a server that Engineering has not found.
LEMMA RestartIInv == ASSUME IInv, Restart PROVE IInv'
<1>1. TypeOK'
  BY FreshTypes DEF IInv, TypeOK, Restart, engineering, network
<1>2. view # Absent => handoff # Absent
  <2>1. answered \in 0..Len(updates) /\ Len(updates) \in 0..Len(updates)
    BY DEF IInv, TypeOK
  <2>2. QED
    BY <2>1, AfterType DEF IInv, Fetched, InStep
<1>3. NotFetched' /\ Fetched' /\ Exchange'
  BY <1>2, FreshTypes
  DEF IInv, NotFetched, Fetched, InStep, After, Exchange, Restart, engineering, network
<1>4. QED
  BY <1>1, <1>3 DEF IInv

\* Fetching finds the handoff as it was stored.
LEMMA FetchIInv == ASSUME IInv, Fetch PROVE IInv'
<1>1. /\ updates = <<>> /\ answered = 0 /\ inbox = {} /\ Len(updates) = 0
      /\ handoff = FreshHandoff /\ case.handoff_status = FreshHandoff
  BY EmptySeq DEF IInv, NotFetched, Fetch
<1>2. view' = FreshHandoff /\ view' # Absent /\ view' \in UpdateStatuses
  BY <1>1, FreshTypes DEF Fetch
<1>3. UNCHANGED <<stored, serving, handoff, case, inbox, updates, answered,
                  requests, answers, now>>
  BY DEF Fetch, server, network
<1>4. TypeOK'
  BY <1>2, <1>3 DEF IInv, TypeOK
<1>5. Fetched'
  <2>1. After(0)' = FreshHandoff
    BY DEF After, FreshHandoff
  <2>2. inbox' = 1..0
    BY <1>1, <1>3
  <2>3. QED
    BY <1>1, <1>3, <2>1, <2>2 DEF Fetched, InStep
<1>6. NotFetched' /\ Exchange'
  BY <1>2, <1>3 DEF IInv, NotFetched, Exchange
<1>7. QED
  BY <1>4, <1>5, <1>6 DEF IInv

\* A new report leaves the answered ones as they were.
LEMMA ReportIInv == ASSUME IInv, NEW update \in Reports, Report(update) PROVE IInv'
<1> DEFINE n == Len(updates)
<1>1. /\ updates \in Seq(Reports) /\ n \in Nat /\ answered = n /\ n < MaxUpdates
  BY DEF IInv, TypeOK, Report, Waiting
<1>2. /\ updates' \in Seq(Reports) /\ Len(updates') = n + 1
      /\ \A i \in 1..n : updates'[i] = updates[i]
  BY <1>1, AppendProperties DEF Report
<1>3. UNCHANGED <<stored, serving, handoff, case, inbox, answered, requests,
                  answers, now>>
  BY DEF Report, server, network
<1>4. view' \in UpdateStatuses /\ view' # Absent /\ view # Absent
  <2>1. update.status \in UpdateStatuses
    BY ReportsAssumption DEF Reports
  <2>2. Absent \notin UpdateStatuses
    BY DEF Absent, UpdateStatuses, HandoffStatuses
  <2>3. QED
    BY <2>1, <2>2 DEF Report
<1>5. TypeOK'
  BY <1>1, <1>2, <1>3, <1>4, MaxUpdatesAssumption DEF IInv, TypeOK
<1>6. Fetched'
  <2>1. InStep(n)
    BY <1>1, <1>4 DEF IInv, Fetched
  <2>2. /\ handoff' = handoff /\ case' = case /\ inbox' = inbox /\ answered' = n
    BY <1>1, <1>3
  <2>3. InStep(answered)'
    BY <1>1, <1>2, <2>1, <2>2 DEF InStep, After, FreshHandoff
  <2>4. QED
    BY <2>3 DEF Fetched
<1>7. NotFetched' /\ Exchange'
  BY <1>1, <1>2, <1>3, <1>4 DEF IInv, TypeOK, NotFetched, Exchange, Requests
<1>8. QED
  BY <1>5, <1>6, <1>7 DEF IInv

LEMMA SendIInv == ASSUME IInv, Send PROVE IInv'
<1> DEFINE sent == [event |-> Len(updates), time |-> now + Ahead]
<1>1. /\ Len(updates) \in 1..MaxUpdates /\ answered \in Nat /\ now \in 0..MaxTime
  BY MaxUpdatesAssumption DEF IInv, TypeOK, Send, Waiting
<1>2. sent \in Requests /\ requests' = requests \cup {sent} /\ view # Absent
  <2>1. now + Ahead \in 0..(MaxTime + Ahead)
    BY <1>1, ClockAssumption
  <2>2. view # Absent
    BY <1>1, EmptySeq DEF IInv, NotFetched
  <2>3. QED
    BY <1>1, <2>1, <2>2 DEF Requests, Send
<1>3. UNCHANGED <<stored, server, engineering, answers, now>>
  BY DEF Send
<1>4. TypeOK'
  BY <1>2, <1>3 DEF IInv, TypeOK, server, engineering
<1>5. NotFetched' /\ Fetched'
  BY <1>2, <1>3 DEF IInv, NotFetched, Fetched, InStep, After, server, engineering
<1>6. Exchange'
  BY <1>1, <1>2, <1>3 DEF IInv, Exchange, server, engineering
<1>7. QED
  BY <1>4, <1>5, <1>6 DEF IInv

\* The answer to the report in progress is heard: the server has it, then.
LEMMA HearIInv == ASSUME IInv, NEW event \in 1..MaxUpdates, Hear(event) PROVE IInv'
<1>1. UNCHANGED <<stored, serving, handoff, case, inbox, view, updates, requests, now>>
  BY DEF Hear, server
<1>2. answers' \subseteq answers /\ event \in inbox /\ view # Absent
  BY DEF IInv, NotFetched, Exchange, Hear
<1>3. /\ answered \in 0..Len(updates) /\ Len(updates) \in Nat
      /\ answered' \in 0..Len(updates)
  BY DEF IInv, TypeOK, Hear
<1>4. TypeOK'
  BY <1>1, <1>2, <1>3 DEF IInv, TypeOK
<1>5. CASE event = Len(updates)
  <2>1. InStep(Len(updates))
    BY <1>2, <1>3, <1>5 DEF IInv, Fetched, InStep
  <2>2. InStep(Len(updates))'
    BY <1>1, <2>1 DEF InStep, After
  <2>3. answered' = Len(updates')
    BY <1>1, <1>5 DEF Hear
  <2>4. QED
    BY <1>1, <1>2, <1>4, <2>2, <2>3 DEF IInv, NotFetched, Fetched, Exchange
<1>6. CASE event # Len(updates)
  <2>1. answered' = answered
    BY <1>6 DEF Hear
  <2>2. QED
    BY <1>1, <1>2, <1>4, <2>1 DEF IInv, NotFetched, Fetched, InStep, After, Exchange
<1>7. QED
  BY <1>5, <1>6

\* A delivery changes the server only if it brings the report in progress.
LEMMA ReceiveIInv ==
  ASSUME IInv, NEW request \in Requests, Receive(request) PROVE IInv'
<1> DEFINE e == request.event
           n == Len(updates)
<1>1. UNCHANGED <<stored, serving, view, updates, answered, requests, now>>
  BY DEF Receive, engineering
<1>2. /\ e \in 1..MaxUpdates /\ e \in 1..n /\ n \in Nat /\ view # Absent
      /\ updates \in Seq(Reports) /\ answered \in 0..n
  BY MaxUpdatesAssumption, EmptySeq
  DEF IInv, TypeOK, NotFetched, Exchange, Receive, Requests
<1>3. updates[e] \in Reports
  BY <1>2
<1>4. CASE Answer(request) # "accepted"
  <2>1. UNCHANGED <<handoff, case, inbox>>
    BY <1>4 DEF Receive
  <2>2. answers' \subseteq inbox /\ answers' \subseteq 1..MaxUpdates
    <3>1. Answer(request) # "rejected" => e \in inbox
      BY <1>4 DEF Answer
    <3>2. QED
      BY <1>2, <3>1 DEF IInv, TypeOK, Exchange, Receive
  <2>3. TypeOK'
    BY <1>1, <2>1, <2>2 DEF IInv, TypeOK
  <2>4. QED
    BY <1>1, <1>2, <2>1, <2>2, <2>3
    DEF IInv, NotFetched, Fetched, InStep, After, Exchange
<1>5. CASE Answer(request) = "accepted"
  <2>1. e \notin inbox
    BY <1>5 DEF Answer
  <2>2. e = n /\ answered = n - 1 /\ inbox = 1..(n - 1)
    BY <1>2, <2>1 DEF IInv, Fetched, InStep, Exchange
  <2>3. /\ handoff' = updates[n].status /\ inbox' = 1..n
        /\ case' = EngineeringUpdated(case, updates[n])
        /\ answers' = answers \cup {n}
    <3>1. Apply(n) /\ answers' = answers \cup {n}
      BY <1>5, <2>2 DEF Receive
    <3>2. (1..(n - 1)) \cup {n} = 1..n
      BY <1>2
    <3>3. QED
      BY <2>2, <3>1, <3>2 DEF Apply
  <2>4. case' \in Case /\ case'.handoff_status = updates[n].status
    BY <1>3, <2>2, <2>3, UpdatedCase DEF IInv, TypeOK
  <2>5. handoff' \in UpdateStatuses
    BY <1>3, <2>2, <2>3, ReportsAssumption DEF Reports
  <2>6. TypeOK'
    <3>1. 1..n \subseteq 1..MaxUpdates /\ n \in 1..MaxUpdates
      BY <1>2, <2>2, MaxUpdatesAssumption
    <3>2. inbox' \subseteq InboxRecords /\ answers' \subseteq 1..MaxUpdates
      <4>1. answers \subseteq 1..MaxUpdates
        BY DEF IInv, TypeOK
      <4>2. QED
        BY <2>3, <3>1, <4>1 DEF InboxRecords
    <3>3. QED
      BY <1>1, <2>4, <2>5, <3>2 DEF IInv, TypeOK
  <2>7. InStep(Len(updates))'
    BY <1>1, <1>2, <2>3, <2>4 DEF InStep, After
  <2>8. QED
    <3>1. answers' \subseteq inbox'
      <4>1. answers \subseteq inbox
        BY DEF IInv, Exchange
      <4>2. (1..(n - 1)) \subseteq 1..n /\ n \in 1..n
        BY <1>2, <2>2
      <4>3. QED
        BY <2>2, <2>3, <4>1, <4>2
    <3>2. Exchange'
      BY <1>1, <3>1 DEF IInv, Exchange
    <3>3. QED
      BY <1>1, <1>2, <2>6, <2>7, <3>2 DEF IInv, NotFetched, Fetched
<1>6. QED
  BY <1>4, <1>5

LEMMA StepIInv == IInv /\ [Next]_vars => IInv'
<1> SUFFICES ASSUME IInv, [Next]_vars PROVE IInv'
  OBVIOUS
<1>1. CASE UNCHANGED vars
  BY <1>1
  DEF vars, server, engineering, network, IInv, TypeOK, NotFetched, Fetched, InStep,
      After, Exchange
<1>2. QED
  BY <1>1, AroundIInv, RestartIInv, FetchIInv, ReportIInv, SendIInv, HearIInv,
     ReceiveIInv
  DEF Next

\* The exchange keeps its types, the stored handoff's status in particular, for
\* any reports and any network (soc_lhp_handoff_update, record_engineering_update).
THEOREM ExchangeTypes == Spec => []TypeOK
<1>1. IInv => TypeOK
  BY DEF IInv
<1>2. QED
  BY <1>1, InitIInv, StepIInv, PTL DEF Spec

\* record_engineering_update is idempotent by the event id: whatever the network
\* loses, repeats or delays, and however the clocks differ, the server has what
\* Engineering has reported, but perhaps for the report in progress, exactly once.
THEOREM ServerAlwaysKeepsUp == Spec => []ServerKeepsUp
<1>1. IInv => ServerKeepsUp
  BY DEF IInv, Fetched, InStep, After, ServerKeepsUp
<1>2. QED
  BY <1>1, InitIInv, StepIInv, PTL DEF Spec
=============================================================================
