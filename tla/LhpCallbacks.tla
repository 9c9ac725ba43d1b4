---------------------------- MODULE LhpCallbacks ----------------------------
(***************************************************************************)
(* The lhp.v1 exchange over one handoff: the Engineering Loop fetches it   *)
(* and reports its progress, over a network that loses, repeats and delays *)
(* requests and answers, to the API server (app/main.py), which keeps the  *)
(* snapshot of the store that it loaded when it started. The posture       *)
(* process stores the handoff, so the server may be up before it is there. *)
(*                                                                         *)
(* The Engineering Loop is not part of the repository. It is taken to      *)
(* follow the contract both sides share (app/lhp.py): it reports only moves*)
(* the contract allows, one at a time, and sends a report again, signed    *)
(* afresh, until it is answered. A handler of the server is one step: it   *)
(* waits for nothing once it has the body.                                 *)
(***************************************************************************)
EXTENDS CaseService, Sequences, FiniteSets

CONSTANTS
    SentStatuses,   \* the handoff statuses Engineering reports
    SentTypes,      \* the types of its reports
    MaxUpdates,     \* bound: reports
    InFlight,       \* bound: requests the network carries at a time
    MaxTime,        \* bound: ticks of the clock
    MaxSkew,        \* max_skew_s, in ticks
    Ahead           \* how far Engineering's clock is ahead of the server's

ASSUME ReportsAssumption ==
    SentStatuses \subseteq UpdateStatuses /\ SentTypes \subseteq UpdateTypes
ASSUME MaxUpdatesAssumption == MaxUpdates \in Nat
ASSUME NetworkAssumption == InFlight \in Nat
ASSUME ClockAssumption == MaxTime \in Nat /\ MaxSkew \in Nat /\ Ahead \in 0..MaxSkew

VARIABLES
    stored,         \* has the posture process stored the handoff?
    serving,        \* is LHP enabled and its secret set for the server?
    handoff,        \* the handoff's status in the server's snapshot
    case,           \* its case there
    inbox,          \* the processed event ids there
    view,           \* the handoff's status as Engineering has it
    updates,        \* what Engineering has reported; an event id is an index
    answered,       \* how many of the reports have been answered
    requests,       \* the requests the network carries
    answers,        \* the reports whose 200 it carries
    now             \* the server's clock

server == <<serving, handoff, case, inbox>>
engineering == <<view, updates, answered>>
network == <<requests, answers>>
vars == <<stored, server, engineering, network, now>>

Reports == [status : SentStatuses, type : SentTypes]
Requests == [event : 1..MaxUpdates, time : 0..(MaxTime + Ahead)]

\* The callback inbox has one record for each external_event_id.
InboxRecords == 1..MaxUpdates

\* build_handoff and request_handoff: the handoff and its case as they are stored.
FreshHandoff == "requested"
FreshCase == HandedOff(RecordFailing(NoCase))

Init ==
    /\ stored = FALSE
    /\ serving \in BOOLEAN
    /\ handoff = Absent
    /\ case = NoCase
    /\ inbox = {}
    /\ view = Absent
    /\ updates = <<>>
    /\ answered = 0
    /\ requests = {}
    /\ answers = {}
    /\ now = 0

-----------------------------------------------------------------------------
(* The SOC side. *)

RequestHandoff ==
    /\ ~stored
    /\ stored' = TRUE
    /\ UNCHANGED <<server, engineering, network, now>>

\* The server starts again, with LHP switched on or off, and loads the store.
Restart ==
    /\ serving' \in BOOLEAN
    /\ IF stored /\ handoff = Absent
         THEN handoff' = FreshHandoff /\ case' = FreshCase
         ELSE UNCHANGED <<handoff, case>>
    /\ UNCHANGED <<stored, inbox, engineering, network, now>>

\* _lhp_timestamp_fresh: the window is closed at both ends.
Fresh(time) == time <= now + MaxSkew /\ now <= time + MaxSkew

\* Mutant of Answer: the contract is asked before the inbox, and a report that is
\* known is no longer allowed.
AnswerInboxLast(request) ==
    LET update == updates[request.event]
    IN  IF \/ ~serving
           \/ ~Fresh(request.time)
           \/ handoff = Absent
           \/ ~AllowedHandoffTransition(handoff, update.status, "engineering")
           \/ request.event \in inbox
          THEN "rejected"
          ELSE "accepted"

\* Mutant of Answer: the inbox is not asked.
AnswerWithoutInbox(request) ==
    LET update == updates[request.event]
    IN  IF \/ ~serving
           \/ ~Fresh(request.time)
           \/ handoff = Absent
           \/ ~AllowedHandoffTransition(handoff, update.status, "engineering")
          THEN "rejected"
          ELSE "accepted"

\* soc_lhp_handoff_update, with its 4xx answers as one.
Answer(request) ==
    LET update == updates[request.event]
    IN  IF ~serving \/ ~Fresh(request.time) THEN "rejected"
        ELSE IF request.event \in inbox THEN "duplicate"
        ELSE IF \/ handoff = Absent
                \/ ~AllowedHandoffTransition(handoff, update.status, "engineering")
          THEN "rejected"
        ELSE "accepted"

\* Mutant of Apply: the type of the report is stored for its status.
ApplyType(event) ==
    /\ handoff' = updates[event].type
    /\ case' = EngineeringUpdated(case, updates[event])
    /\ inbox' = inbox \cup {event}

\* record_engineering_update of a report that is accepted.
Apply(event) ==
    /\ handoff' = updates[event].status
    /\ case' = EngineeringUpdated(case, updates[event])
    /\ inbox' = inbox \cup {event}

\* A request is handled each time it is delivered; the network may keep it. A 4xx
\* changes nothing for Engineering, which tries again, and is left out.
Receive(request) ==
    /\ request \in requests
    /\ LET verdict == Answer(request)
       IN  /\ IF verdict = "accepted"
                THEN Apply(request.event)
                ELSE UNCHANGED <<handoff, case, inbox>>
           /\ answers' = IF verdict = "rejected" THEN answers
                         ELSE answers \cup {request.event}
    /\ UNCHANGED <<stored, serving, engineering, requests, now>>

-----------------------------------------------------------------------------
(* The Engineering Loop. *)

Waiting == answered < Len(updates)

\* soc_lhp_handoff_fetch finds the handoff and its case. Fetching is repeatable,
\* so a fetch and its answer are one step.
Fetch ==
    /\ view = Absent
    /\ serving
    /\ handoff # Absent
    /\ view' = handoff
    /\ UNCHANGED <<stored, server, updates, answered, network, now>>

Report(update) ==
    /\ view # Absent
    /\ ~Waiting
    /\ Len(updates) < MaxUpdates
    /\ AllowedHandoffTransition(view, update.status, "engineering")
    /\ view' = update.status
    /\ updates' = Append(updates, update)
    /\ UNCHANGED <<stored, server, answered, network, now>>

\* The report, or a retry of it, is signed and sent.
Send ==
    /\ Waiting
    /\ requests' = requests \cup {[event |-> Len(updates), time |-> now + Ahead]}
    /\ requests' # requests
    /\ Cardinality(requests') <= InFlight
    /\ UNCHANGED <<stored, server, engineering, answers, now>>

\* A 200, for "accepted" and "duplicate" alike, answers the report.
Hear(event) ==
    /\ event \in answers
    /\ answers' = answers \ {event}
    /\ answered' = IF event = Len(updates) THEN event ELSE answered
    /\ UNCHANGED <<stored, server, view, updates, requests, now>>

-----------------------------------------------------------------------------
(* The network and the clock. *)

LoseRequest(request) ==
    /\ request \in requests
    /\ requests' = requests \ {request}
    /\ UNCHANGED <<stored, server, engineering, answers, now>>

LoseAnswer(event) ==
    /\ event \in answers
    /\ answers' = answers \ {event}
    /\ UNCHANGED <<stored, server, engineering, requests, now>>

Tick ==
    /\ now < MaxTime
    /\ now' = now + 1
    /\ UNCHANGED <<stored, server, engineering, network>>

Next ==
    \/ RequestHandoff \/ Restart \/ Fetch \/ Send \/ Tick
    \/ \E update \in Reports : Report(update)
    \/ \E request \in Requests : Receive(request) \/ LoseRequest(request)
    \/ \E event \in 1..MaxUpdates : Hear(event) \/ LoseAnswer(event)

Spec == Init /\ [][Next]_vars

\* Engineering sends its report again and again, and a network that carries
\* requests and answers again and again gets some of them through. It loses what
\* is too old to be of use, and makes room. Nothing makes the posture process
\* run, the server restart or Engineering report.
CurrentRequest(request) == request.event = Len(updates) /\ Fresh(request.time)

Delivery ==
    \E request \in Requests : CurrentRequest(request) /\ Receive(request)
Hearing == \E event \in 1..MaxUpdates : event = Len(updates) /\ Hear(event)
Forgetting ==
    \E request \in Requests : ~CurrentRequest(request) /\ LoseRequest(request)

NetworkFairness ==
    /\ WF_vars(Send) /\ WF_vars(Forgetting)
    /\ SF_vars(Delivery) /\ SF_vars(Hearing)

FairSpec == Spec /\ NetworkFairness

-----------------------------------------------------------------------------
(* Properties. *)

\* Every variable keeps its type; in particular the stored handoff only ever has a
\* status a loop other than the NOC may set.
TypeOK ==
    /\ stored \in BOOLEAN /\ serving \in BOOLEAN
    /\ handoff \in UpdateStatuses \cup {Absent}
    /\ case \in Case
    /\ inbox \subseteq InboxRecords
    /\ view \in UpdateStatuses \cup {Absent}
    /\ updates \in Seq(Reports) /\ Len(updates) <= MaxUpdates
    /\ answered \in 0..Len(updates)
    /\ requests \subseteq Requests
    /\ answers \subseteq 1..MaxUpdates
    /\ now \in 0..MaxTime

\* The inbox makes the exchange idempotent (record_engineering_update): however
\* often and however late its requests arrive, the server has exactly what
\* Engineering has reported, but perhaps for the report in progress, on the
\* handoff and on its case.
ServerKeepsUp ==
    view # Absent =>
        LET reported(n) == IF n = 0 THEN FreshHandoff ELSE updates[n].status
        IN  \E n \in {answered, Len(updates)} :
                /\ handoff = reported(n)
                /\ case.handoff_status = reported(n)
                /\ inbox = 1..n

\* A report does not wait for its answer forever while the server has the handoff
\* and LHP is on: not when the answer to the delivery that was applied is lost,
\* nor when requests are delivered out of their time window.
ReportsAreAnswered == []<>(~Waiting \/ ~serving)
=============================================================================
