--------------------------- MODULE CaseIdentities ---------------------------
(***************************************************************************)
(* Whose case, whose handoff, whose issue.  A finding that fires again is  *)
(* known by its fingerprint, a handoff by an idempotency key that holds    *)
(* the case's id, an issue by the fingerprint in its body; each is looked  *)
(* up in the process's own snapshot of the store, or at GitHub, and made   *)
(* when it is not there (observe_finding, request_handoff and record_issue *)
(* in app/cases/service.py, the lookups of app/cases/store.py, run_once in *)
(* app/posture/loop.py, ensure_candidate_issue in app/posture/handoff.py). *)
(* This module follows one fingerprint through cycles that may overlap and *)
(* die. Ids are numbered in the order the files first have them.           *)
(***************************************************************************)
EXTENDS Integers, Sequences, FiniteSets

CONSTANTS
    Loops,          \* the processes that may run a posture cycle
    MaxIssues       \* bound: issues ever opened

ASSUME LoopsAssumption == IsFiniteSet(Loops)
ASSUME MaxIssuesAssumption == MaxIssues \in Nat

VARIABLES
    cases,          \* cases.jsonl: how many cases have the fingerprint
    handoffs,       \* handoffs.jsonl: handoffs[h] is the case of handoff h
    first,          \* first[c]: the first handoff of case c in that file, or 0
    issues,         \* GitHub: issues[i]: what its body points to, is it open?
    recorded,       \* recorded[c]: the issue that issue_url of case c names, or 0
    phase,          \* phase[p]: where the cycle of p is
    case,           \* case[p]: the fingerprint's case in the snapshot of p, or 0
    handoff,        \* handoff[p]: the handoff of that case in the snapshot, or 0
    found,          \* found[p]: the issue GitHub has just named to p, or 0
    peak            \* history: how many cycles were ever up at once

stored == <<cases, handoffs, first, recorded>>
vars == <<stored, issues, phase, case, handoff, found, peak>>

Phases == {"off", "scanning", "observed", "searching", "creating", "answered"}

Up == {p \in Loops : phase[p] # "off"}

Init ==
    /\ cases = 0
    /\ handoffs = <<>>
    /\ first = <<>>
    /\ issues = <<>>
    /\ recorded = <<>>
    /\ phase = [p \in Loops |-> "off"]
    /\ case = [p \in Loops |-> 0]
    /\ handoff = [p \in Loops |-> 0]
    /\ found = [p \in Loops |-> 0]
    /\ peak = 0

\* get_case_by_fingerprint on what _load has read: the first case of the file.
FirstCase == IF cases = 0 THEN 0 ELSE 1

\* get_handoff_by_idempotency_key on it: the first handoff of that case.
FirstHandoff == IF cases = 0 THEN 0 ELSE first[1]

\* Mutant of Start: the new process does not read the files.
StartUnread(p) ==
    /\ phase[p] = "off"
    /\ phase' = [phase EXCEPT ![p] = "scanning"]
    /\ case' = [case EXCEPT ![p] = 0]
    /\ handoff' = [handoff EXCEPT ![p] = 0]
    /\ peak' = IF Cardinality(Up) + 1 > peak THEN Cardinality(Up) + 1 ELSE peak
    /\ UNCHANGED <<stored, issues, found>>

\* A cycle starts: its store loads a snapshot of the files.
Start(p) ==
    /\ phase[p] = "off"
    /\ phase' = [phase EXCEPT ![p] = "scanning"]
    /\ case' = [case EXCEPT ![p] = FirstCase]
    /\ handoff' = [handoff EXCEPT ![p] = FirstHandoff]
    /\ peak' = IF Cardinality(Up) + 1 > peak THEN Cardinality(Up) + 1 ELSE peak
    /\ UNCHANGED <<stored, issues, found>>

\* observe_finding: a case with the fingerprint is refreshed or reopened,
Refresh(p) ==
    /\ phase[p] = "scanning"
    /\ case[p] # 0
    /\ phase' = [phase EXCEPT ![p] = "observed"]
    /\ UNCHANGED <<stored, issues, case, handoff, found, peak>>

\* Mutant of OpenCase: the new case is not stored.
OpenCaseInMemory(p) ==
    /\ phase[p] = "scanning"
    /\ case[p] = 0
    /\ case' = [case EXCEPT ![p] = cases + 1]
    /\ phase' = [phase EXCEPT ![p] = "observed"]
    /\ UNCHANGED <<stored, issues, handoff, found, peak>>

\* or else a new one is opened.
OpenCase(p) ==
    /\ phase[p] = "scanning"
    /\ case[p] = 0
    /\ cases' = cases + 1
    /\ recorded' = Append(recorded, 0)
    /\ first' = Append(first, 0)
    /\ case' = [case EXCEPT ![p] = cases + 1]
    /\ phase' = [phase EXCEPT ![p] = "observed"]
    /\ UNCHANGED <<handoffs, issues, handoff, found, peak>>

\* request_handoff: the case's handoff is there, and is returned,
KeepHandoff(p) ==
    /\ phase[p] = "observed"
    /\ handoff[p] # 0
    /\ phase' = [phase EXCEPT ![p] = "searching"]
    /\ UNCHANGED <<stored, issues, case, handoff, found, peak>>

\* Mutant of BuildHandoff: an existing handoff is not looked for.
BuildHandoffAgain(p) ==
    /\ phase[p] = "observed"
    /\ Len(handoffs) < 4
    /\ handoffs' = Append(handoffs, case[p])
    /\ first' = [first EXCEPT ![case[p]] = IF @ = 0 THEN Len(handoffs) + 1 ELSE @]
    /\ handoff' = [handoff EXCEPT ![p] = Len(handoffs) + 1]
    /\ phase' = [phase EXCEPT ![p] = "searching"]
    /\ UNCHANGED <<cases, recorded, issues, case, found, peak>>

\* or else one is built and stored.
BuildHandoff(p) ==
    /\ phase[p] = "observed"
    /\ handoff[p] = 0
    /\ handoffs' = Append(handoffs, case[p])
    /\ first' = [first EXCEPT ![case[p]] = IF @ = 0 THEN Len(handoffs) + 1 ELSE @]
    /\ handoff' = [handoff EXCEPT ![p] = Len(handoffs) + 1]
    /\ phase' = [phase EXCEPT ![p] = "searching"]
    /\ UNCHANGED <<cases, recorded, issues, case, found, peak>>

\* _find_open_issue finds an issue with the fingerprint, which gets a comment,
FindIssue(p) ==
    /\ phase[p] = "searching"
    /\ \E i \in DOMAIN issues :
          issues[i].open /\ found' = [found EXCEPT ![p] = i]
    /\ phase' = [phase EXCEPT ![p] = "answered"]
    /\ UNCHANGED <<stored, issues, case, handoff, peak>>

\* or none, which a search that GitHub refuses amounts to.
FindNoIssue(p) ==
    /\ phase[p] = "searching"
    /\ phase' = [phase EXCEPT ![p] = "creating"]
    /\ UNCHANGED <<stored, issues, case, handoff, found, peak>>

\* Mutant of CreateIssue: the body points to a bundle that was built anew.
CreateIssueUnstored(p) ==
    /\ phase[p] = "creating"
    /\ Len(issues) < MaxIssues
    /\ issues' = Append(issues, [case |-> case[p], handoff |-> Len(handoffs) + 1,
                                 open |-> TRUE])
    /\ found' = [found EXCEPT ![p] = Len(issues) + 1]
    /\ phase' = [phase EXCEPT ![p] = "answered"]
    /\ UNCHANGED <<stored, case, handoff, peak>>

\* GitHub opens the issue; its body points to the case and the handoff.
CreateIssue(p) ==
    /\ phase[p] = "creating"
    /\ Len(issues) < MaxIssues
    /\ issues' = Append(issues, [case |-> case[p], handoff |-> handoff[p],
                                 open |-> TRUE])
    /\ found' = [found EXCEPT ![p] = Len(issues) + 1]
    /\ phase' = [phase EXCEPT ![p] = "answered"]
    /\ UNCHANGED <<stored, case, handoff, peak>>

\* The process is done, and its memory gone.
Stops(p) ==
    /\ phase' = [phase EXCEPT ![p] = "off"]
    /\ case' = [case EXCEPT ![p] = 0]
    /\ handoff' = [handoff EXCEPT ![p] = 0]
    /\ found' = [found EXCEPT ![p] = 0]

\* The url has arrived: record_issue stores it in the case.
RecordIssue(p) ==
    /\ phase[p] = "answered"
    /\ recorded' = [recorded EXCEPT ![case[p]] = found[p]]
    /\ Stops(p)
    /\ UNCHANGED <<cases, handoffs, first, issues, peak>>

\* The cycle goes no further with the finding: it does not fire, the gate holds
\* it back, the mode builds no handoff, GitHub fails; or the process dies.
Leave(p) ==
    /\ phase[p] # "off"
    /\ Stops(p)
    /\ UNCHANGED <<stored, issues, peak>>

CloseIssue(i) ==
    /\ issues[i].open
    /\ issues' = [issues EXCEPT ![i].open = FALSE]
    /\ UNCHANGED <<stored, phase, case, handoff, found, peak>>

Next ==
    \/ \E p \in Loops :
          \/ Start(p) \/ Refresh(p) \/ OpenCase(p)
          \/ KeepHandoff(p) \/ BuildHandoff(p)
          \/ FindIssue(p) \/ FindNoIssue(p) \/ CreateIssue(p) \/ RecordIssue(p)
          \/ Leave(p)
    \/ \E i \in DOMAIN issues : CloseIssue(i)

Spec == Init /\ [][Next]_vars

-----------------------------------------------------------------------------
(* Properties. *)

TypeOK ==
    /\ cases \in Nat
    /\ handoffs \in Seq(1..cases)
    /\ first \in Seq(0..Len(handoffs)) /\ Len(first) = cases
    /\ issues \in Seq([case : 1..cases, handoff : Nat, open : BOOLEAN])
    /\ recorded \in Seq(0..Len(issues)) /\ Len(recorded) = cases
    /\ phase \in [Loops -> Phases]
    /\ case \in [Loops -> 0..cases]
    /\ handoff \in [Loops -> 0..Len(handoffs)]
    /\ found \in [Loops -> 0..Len(issues)]
    /\ peak \in Nat

HandoffsOf(c) == {h \in DOMAIN handoffs : handoffs[h] = c}

\* observe_finding "opens or refreshes a case": a fingerprint never has more cases
\* than cycles were up at once, however often the finding comes and goes and the
\* cycles die: so exactly one when cycles do not overlap.
OneCasePerCycleAtOnce == cases <= peak

\* request_handoff is "idempotent by the handoff idempotency key": nor does a case
\* have more handoffs than cycles were up at once.
OneHandoffPerCycleAtOnce ==
    \A c \in 1..cases : Cardinality(HandoffsOf(c)) <= peak

\* handoff.py: an issue carries "an LHP-v1 pointer to the authoritative handoff":
\* a case's issue points to a stored handoff of the case it names, and this is the
\* case that has recorded the issue, unless cycles have overlapped.
IssueNamesItsCase ==
    \A c \in 1..cases :
        recorded[c] # 0 =>
            LET issue == issues[recorded[c]]
            IN  /\ issue.handoff \in DOMAIN handoffs
                /\ handoffs[issue.handoff] = issue.case
                /\ peak = 1 => issue.case = c

=============================================================================
