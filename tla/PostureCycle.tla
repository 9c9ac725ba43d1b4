---------------------------- MODULE PostureCycle ----------------------------
(***************************************************************************)
(* `socctl posture run-once`, step by step: PostureLoop.run_once with the  *)
(* governance gate, the daily ledger and its file, the handoff and the     *)
(* GitHub issue (app/posture/loop.py, governance.py, ledger.py, handoff.py,*)
(* app/socctl.py). A cycle awaits the scan, the enrichment and GitHub, so  *)
(* midnight, another cycle or the end of the process may come between two  *)
(* steps. A cycle may have no state directory that it can use, and a read  *)
(* or a write of the ledger may fail, which the code passes over in        *)
(* silence. What a case does is CaseLifecycle's matter: here a finding has *)
(* a stored case or not, and a stored handoff or not.                      *)
(***************************************************************************)
EXTENDS Naturals

CONSTANTS
    Findings,           \* the findings that may fire, by fingerprint
    Rank,               \* severity_rank of each
    Score,              \* score of each
    Warrants,           \* the ones with warrants_handoff
    Floor,              \* severity_rank(SOC_POSTURE_SEVERITY_FLOOR)
    High,               \* severity_rank("HIGH")
    MaxPerCycle,        \* max_findings_per_cycle
    MaxPerDay,          \* max_findings_per_day
    CostEach,           \* cost_usd_per_investigation, in cents
    MaxCost,            \* max_cost_usd_per_day, in cents
    HandoffEnabled,     \* SOC_POSTURE_HANDOFF_ENABLED
    Wired,              \* is PostureLoop given a GitHub client?
    Modes,              \* the SOC_MODEs the cycles are run in
    Loops,              \* the processes that may run a cycle
    Exclusive,          \* is a cycle started only when no other one is up?
    Crashes,            \* may a process die within a cycle?
    GitHubFails,        \* may GitHub refuse a request, or not answer it?
    StateDirs,          \* has a cycle a state directory it can use? TRUE for one
                        \* that has, FALSE for one that has not
    FileFails,          \* may a read or a write of ledger.json raise OSError?
    MaxDay,             \* bound: days
    MaxLapses           \* bound: lapses of the ledger in a day

ASSUME FindingsAssumption ==
    Rank \in [Findings -> Nat] /\ Score \in [Findings -> Nat] /\ Warrants \subseteq Findings
ASSUME LimitsAssumption ==
    /\ MaxPerCycle \in Nat /\ MaxPerDay \in Nat
    /\ CostEach \in Nat /\ MaxCost \in Nat
    /\ Floor \in Nat /\ High \in Nat
ASSUME SwitchesAssumption ==
    /\ {HandoffEnabled, Wired, Exclusive, Crashes} \subseteq BOOLEAN
    /\ {GitHubFails, FileFails} \subseteq BOOLEAN
    /\ StateDirs \subseteq BOOLEAN
ASSUME CycleModesAssumption ==
    Modes \subseteq {"shadow", "case_only", "handoff_dry", "handoff_live"}
ASSUME MaxDayAssumption == MaxDay \in Nat /\ MaxLapses \in Nat

VARIABLES
    today,          \* the UTC day
    file,           \* ledger.json
    phase,          \* phase[p]: where the cycle of process p is
    mode,           \* mode[p]: the SOC_MODE of the cycle
    durable,        \* durable[p]: has the cycle a state directory it can use?
    todo,           \* todo[p]: the firing findings the gate has not seen yet
    current,        \* current[p]: the findings being acted on (one or none)
    acted,          \* acted[p]: findings acted on in the cycle
    ledger,         \* ledger[p]: the DailyLedger in memory
    cases,          \* the findings with a case in the files
    handoffs,       \* the findings with a handoff in the files
    issues,         \* issues[f]: its open loop:candidate issues
    actedToday,     \* history: findings acted on today, by whatever process,
                    \* counted until they are too many
    spentToday,     \* history: their cost, counted until it is too much
    lapses,         \* history: how often today the ledger's file has missed what
                    \* was acted on, or a cycle has missed the file: reads and
                    \* writes that failed, writes cut short, and cycles without
                    \* a state directory
    missed,         \* history: the findings whose open issue a search has missed
    passedOver      \* history: passedOver[p]: the findings above the floor that
                    \* the cycle has refused or deferred today

setup == <<mode, durable>>
cycleVars == <<phase, setup, todo, current, acted, ledger>>
stored == <<cases, handoffs>>
history == <<actedToday, spentToday, lapses, missed, passedOver>>
vars == <<today, file, cycleVars, stored, issues, history>>

Phases == {"off", "scanning", "gating", "enriching", "recording", "persisting",
           "handing_off", "searching", "creating"}

\* A DailyLedger that keeps to the limits.
Ledger == [day : 0..MaxDay, findings_acted : 0..MaxPerDay, cost_usd : 0..MaxCost]

\* write_text empties the file before it writes: a dead writer leaves it empty.
EmptyFile == [day |-> MaxDay + 1, findings_acted |-> 0, cost_usd |-> 0]

NewLedger == [day |-> today, findings_acted |-> 0, cost_usd |-> 0]

\* _roll_day, which every read and write of the ledger goes through first.
Rolled(book) == IF book.day = today THEN book ELSE NewLedger

\* Mutant of Load: what was acted on before the restart is forgotten.
LoadNothing == NewLedger

\* DailyLedger.load: a missing, empty or old file is a new ledger.
Load == IF file.day = today THEN file ELSE NewLedger

Init ==
    /\ today = 0
    /\ file = EmptyFile
    /\ phase = [p \in Loops |-> "off"]
    /\ mode = [p \in Loops |-> "shadow"]
    /\ durable = [p \in Loops |-> FALSE]
    /\ todo = [p \in Loops |-> {}]
    /\ current = [p \in Loops |-> {}]
    /\ acted = [p \in Loops |-> 0]
    /\ ledger = [p \in Loops |-> NewLedger]
    /\ cases = {}
    /\ handoffs = {}
    /\ issues = [f \in Findings |-> 0]
    /\ actedToday = 0
    /\ spentToday = 0
    /\ lapses = 0
    /\ missed = {}
    /\ passedOver = [p \in Loops |-> {}]

-----------------------------------------------------------------------------
(* evaluate_gate. *)

AboveFloor(f) == Rank[f] >= Floor

\* Mutant of WithinBudget: the cost of the next finding is not counted.
WithinBudgetNextFree(book) ==
    /\ book.findings_acted < MaxPerDay
    /\ book.cost_usd <= MaxCost

WithinBudget(book) ==
    /\ book.findings_acted < MaxPerDay
    /\ book.cost_usd + CostEach <= MaxCost

HandoffEligible(f) == f \in Warrants /\ HandoffEnabled /\ Rank[f] >= High

BuildsHandoff(p, f) ==
    HandoffEligible(f) /\ mode[p] \in {"handoff_dry", "handoff_live"}

PostsHandoff(p, f) == HandoffEligible(f) /\ mode[p] = "handoff_live" /\ Wired

-----------------------------------------------------------------------------
(* The cycle. *)

\* The ledger's file misses what is acted on, or is missed.
Lapse == lapses < MaxLapses /\ lapses' = lapses + 1

\* What a cycle puts into its store is in the files if it has a state directory.
Put(p, f, records) == IF durable[p] THEN records \cup {f} ELSE records

\* A cycle of mode m that has (d) a state directory it can use, or has none: its
\* ledger is then a new one that stays in memory, as its store does
\* (build_case_service_runtime), and the day's file misses what it acts on. One
\* that cannot read the file takes a new ledger too, and writes that to the file.
Start(p, m, d) ==
    /\ phase[p] = "off"
    /\ Exclusive => \A q \in Loops : phase[q] = "off"
    /\ phase' = [phase EXCEPT ![p] = "scanning"]
    /\ mode' = [mode EXCEPT ![p] = m]
    /\ durable' = [durable EXCEPT ![p] = d]
    /\ \/ /\ d
          /\ ledger' = [ledger EXCEPT ![p] = Load]
          /\ lapses' = lapses
       \/ /\ ~d \/ (FileFails /\ Load # NewLedger)
          /\ ledger' = [ledger EXCEPT ![p] = NewLedger]
          /\ Lapse
    /\ acted' = [acted EXCEPT ![p] = 0]
    /\ current' = [current EXCEPT ![p] = {}]
    /\ passedOver' = [passedOver EXCEPT ![p] = {}]
    /\ todo' = [todo EXCEPT ![p] = {}]
    /\ UNCHANGED <<today, file, stored, issues, actedToday, spentToday, missed>>

\* The scan ends. In shadow mode, or with nothing firing, so does the cycle.
Scanned(p, firing) ==
    /\ phase[p] = "scanning"
    /\ LET found == IF mode[p] = "shadow" THEN {} ELSE firing
       IN  /\ todo' = [todo EXCEPT ![p] = found]
           /\ phase' = [phase EXCEPT ![p] = IF found = {} THEN "off" ELSE "gating"]
    /\ UNCHANGED <<today, file, setup, current, acted, ledger, stored, issues,
                   history>>

\* Mutant of Foremost: the findings are taken from the lowest score up.
ForemostLowest(p, f) ==
    f \in todo[p] /\ \A g \in todo[p] : Score[f] <= Score[g]

\* The findings are taken by falling score; ties are in scan order.
Foremost(p, f) ==
    f \in todo[p] /\ \A g \in todo[p] : Score[g] <= Score[f]

\* The gate refuses a finding, or the per-cycle cap defers it.
PassOver(p, f) ==
    /\ phase[p] = "gating"
    /\ Foremost(p, f)
    /\ \/ ~AboveFloor(f)
       \/ ~WithinBudget(Rolled(ledger[p]))
       \/ acted[p] >= MaxPerCycle
    /\ ledger' = [ledger EXCEPT ![p] = Rolled(@)]
    /\ todo' = [todo EXCEPT ![p] = @ \ {f}]
    /\ phase' = [phase EXCEPT ![p] = IF todo[p] = {f} THEN "off" ELSE "gating"]
    /\ passedOver' = [passedOver EXCEPT ![p] =
                        IF AboveFloor(f) THEN @ \cup {f} ELSE @]
    /\ UNCHANGED <<today, file, setup, current, acted, stored, issues, actedToday,
                   spentToday, lapses, missed>>

Admit(p, f) ==
    /\ phase[p] = "gating"
    /\ Foremost(p, f)
    /\ AboveFloor(f)
    /\ WithinBudget(Rolled(ledger[p]))
    /\ acted[p] < MaxPerCycle
    /\ ledger' = [ledger EXCEPT ![p] = Rolled(@)]
    /\ todo' = [todo EXCEPT ![p] = @ \ {f}]
    /\ current' = [current EXCEPT ![p] = {f}]
    /\ phase' = [phase EXCEPT ![p] = "enriching"]
    /\ UNCHANGED <<today, file, setup, acted, stored, issues, history>>

\* The day is within its limits, each lapse of the file being worth a day's budget.
DayWithin ==
    actedToday <= MaxPerDay * (1 + lapses) /\ spentToday <= MaxCost * (1 + lapses)

\* _enrich returns and observe_finding stores the case.
Observe(p, f) ==
    /\ phase[p] = "enriching"
    /\ f \in current[p]
    /\ cases' = Put(p, f, cases)
    /\ actedToday' = IF DayWithin THEN actedToday + 1 ELSE actedToday
    /\ spentToday' = IF DayWithin THEN spentToday + CostEach ELSE spentToday
    /\ phase' = [phase EXCEPT ![p] = "recording"]
    /\ UNCHANGED <<today, file, setup, todo, current, acted, ledger, handoffs,
                   issues, lapses, missed, passedOver>>

Counted(book) ==
    [day |-> book.day, findings_acted |-> book.findings_acted + 1,
     cost_usd |-> book.cost_usd + CostEach]

\* Where the cycle goes with a finding that is counted.
AfterRecord(p, f) ==
    /\ acted' = [acted EXCEPT ![p] = @ + 1]
    /\ phase' = [phase EXCEPT ![p] =
                    IF BuildsHandoff(p, f) THEN "handing_off"
                    ELSE IF todo[p] = {} THEN "off" ELSE "gating"]

\* record_finding counts the finding in memory and empties the file ...
Record(p) ==
    /\ phase[p] = "recording"
    /\ durable[p]
    /\ ledger' = [ledger EXCEPT ![p] = Counted(Rolled(@))]
    /\ file' = EmptyFile
    /\ phase' = [phase EXCEPT ![p] = "persisting"]
    /\ UNCHANGED <<today, setup, todo, current, acted, stored, issues, history>>

\* ... and writes it.
Persist(p, f) ==
    /\ phase[p] = "persisting"
    /\ f \in current[p]
    /\ file' = ledger[p]
    /\ AfterRecord(p, f)
    /\ UNCHANGED <<today, setup, todo, current, ledger, stored, issues, history>>

\* The write raises OSError: the file stays empty, and the cycle goes on.
WriteFails(p, f) ==
    /\ FileFails
    /\ phase[p] = "persisting"
    /\ f \in current[p]
    /\ Lapse
    /\ AfterRecord(p, f)
    /\ UNCHANGED <<today, file, setup, todo, current, ledger, stored, issues,
                   actedToday, spentToday, missed, passedOver>>

\* There is no state path, or mkdir or the opening of the file raises OSError: the
\* finding is counted in memory, the file stays as it was, and the cycle goes on.
RecordInMemory(p, f) ==
    /\ phase[p] = "recording"
    /\ f \in current[p]
    /\ IF durable[p] THEN FileFails /\ Lapse ELSE lapses' = lapses
    /\ ledger' = [ledger EXCEPT ![p] = Counted(Rolled(@))]
    /\ AfterRecord(p, f)
    /\ UNCHANGED <<today, file, setup, todo, current, stored, issues,
                   actedToday, spentToday, missed, passedOver>>

\* The next finding, if there is one.
Proceed(p) == phase' = [phase EXCEPT ![p] = IF todo[p] = {} THEN "off" ELSE "gating"]

\* Mutant of HandOff: the handoff is built and not stored.
HandOffInMemory(p, f) ==
    /\ phase[p] = "handing_off"
    /\ f \in current[p]
    /\ IF PostsHandoff(p, f)
         THEN phase' = [phase EXCEPT ![p] = "searching"]
         ELSE Proceed(p)
    /\ UNCHANGED <<today, file, setup, todo, current, acted, ledger, stored, issues,
                   history>>

\* request_handoff stores the handoff, or finds it stored.
HandOff(p, f) ==
    /\ phase[p] = "handing_off"
    /\ f \in current[p]
    /\ handoffs' = Put(p, f, handoffs)
    /\ IF PostsHandoff(p, f)
         THEN phase' = [phase EXCEPT ![p] = "searching"]
         ELSE Proceed(p)
    /\ UNCHANGED <<today, file, setup, todo, current, acted, ledger, cases, issues,
                   history>>

-----------------------------------------------------------------------------
(* ensure_candidate_issue. *)

\* _find_open_issue finds the issue, which gets a comment.
FindIssue(p, f) ==
    /\ phase[p] = "searching"
    /\ f \in current[p]
    /\ issues[f] > 0
    /\ Proceed(p)
    /\ UNCHANGED <<today, file, setup, todo, current, acted, ledger, stored, issues,
                   history>>

\* Mutant of FindNoIssue: an issue that is there is overlooked.
FindNoIssueEver(p, f) ==
    /\ phase[p] = "searching"
    /\ f \in current[p]
    /\ phase' = [phase EXCEPT ![p] = "creating"]
    /\ UNCHANGED <<today, file, setup, todo, current, acted, ledger, stored, issues,
                   history>>

\* It finds none; an answer other than 200 counts as finding none, and misses the
\* issue that is there.
FindNoIssue(p, f) ==
    /\ phase[p] = "searching"
    /\ f \in current[p]
    /\ issues[f] = 0 \/ GitHubFails
    /\ missed' = IF issues[f] = 0 THEN missed ELSE missed \cup {f}
    /\ phase' = [phase EXCEPT ![p] = "creating"]
    /\ UNCHANGED <<today, file, setup, todo, current, acted, ledger, stored, issues,
                   actedToday, spentToday, lapses, passedOver>>

CreateIssue(p, f) ==
    /\ phase[p] = "creating"
    /\ f \in current[p]
    /\ issues[f] < 2
    /\ issues' = [issues EXCEPT ![f] = @ + 1]
    /\ Proceed(p)
    /\ UNCHANGED <<today, file, setup, todo, current, acted, ledger, stored,
                   history>>

\* A request raises or is rejected: ensure_candidate_issue returns no url.
GitHubGivesUp(p) ==
    /\ GitHubFails
    /\ phase[p] \in {"searching", "creating"}
    /\ Proceed(p)
    /\ UNCHANGED <<today, file, setup, todo, current, acted, ledger, stored, issues,
                   history>>

-----------------------------------------------------------------------------
(* Around the cycle. *)

\* The issue is closed, or loses its loop:candidate label.
CloseIssue(f) ==
    /\ issues[f] > 0
    /\ issues' = [issues EXCEPT ![f] = @ - 1]
    /\ UNCHANGED <<today, file, cycleVars, stored, history>>

\* A new day, with a budget of its own. A cycle without a state directory that is
\* up goes on acting into the new day, which the file of that day will miss.
Midnight ==
    /\ today < MaxDay
    /\ today' = today + 1
    /\ actedToday' = 0
    /\ spentToday' = 0
    /\ lapses' = IF \E p \in Loops : phase[p] # "off" /\ ~durable[p] THEN 1 ELSE 0
    /\ passedOver' = [p \in Loops |-> {}]
    /\ UNCHANGED <<file, cycleVars, stored, issues, missed>>

\* The process dies: a finding observed and not yet in the file is forgotten.
Crash(p) ==
    /\ Crashes
    /\ phase[p] # "off"
    /\ phase' = [phase EXCEPT ![p] = "off"]
    /\ IF durable[p] /\ phase[p] \in {"recording", "persisting"}
         THEN Lapse ELSE lapses' = lapses
    /\ UNCHANGED <<today, file, setup, todo, current, acted, ledger, stored, issues,
                   actedToday, spentToday, missed, passedOver>>

Acts(p, f) ==
    \/ PassOver(p, f) \/ Admit(p, f) \/ Observe(p, f)
    \/ Persist(p, f) \/ WriteFails(p, f) \/ RecordInMemory(p, f) \/ HandOff(p, f)
    \/ FindIssue(p, f) \/ FindNoIssue(p, f) \/ CreateIssue(p, f)

Next ==
    \/ \E p \in Loops, m \in Modes, d \in StateDirs : Start(p, m, d)
    \/ \E p \in Loops, firing \in SUBSET Findings : Scanned(p, firing)
    \/ \E p \in Loops, f \in Findings : Acts(p, f)
    \/ \E p \in Loops : Record(p) \/ GitHubGivesUp(p) \/ Crash(p)
    \/ \E f \in Findings : CloseIssue(f)
    \/ Midnight

Spec == Init /\ [][Next]_vars

-----------------------------------------------------------------------------
(* Properties. *)

\* Every variable keeps its type; the ledgers, in memory and in the file, keep to
\* the daily limits, whatever the processes do to each other.
TypeOK ==
    /\ today \in 0..MaxDay
    /\ file \in Ledger \cup {EmptyFile}
    /\ phase \in [Loops -> Phases]
    /\ mode \in [Loops -> Modes \cup {"shadow"}]
    /\ durable \in [Loops -> BOOLEAN]
    /\ todo \in [Loops -> SUBSET Findings]
    /\ current \in [Loops -> SUBSET Findings]
    /\ acted \in [Loops -> 0..MaxPerCycle]
    /\ ledger \in [Loops -> Ledger]
    /\ cases \subseteq Findings
    /\ handoffs \subseteq Findings
    /\ issues \in [Findings -> 0..2]
    /\ {actedToday, spentToday, lapses} \subseteq Nat
    /\ missed \subseteq Findings
    /\ passedOver \in [Loops -> SUBSET Findings]

\* ledger.py: "the loop cannot exceed SOC_POSTURE_MAX_* limits": cycles that take
\* turns keep, all together, to the limits of the day, however many they are and
\* though midnight may pass between the gate and the record; and a lapse of the
\* ledger's file (a read or write that fails, a process that dies before or within
\* a write, a cycle without a state directory) costs one budget of a day at most.
DailyBudgetRespected == DayWithin

\* ledger.py:5-6: "so limits survive restarts within a day", whatever becomes of
\* the file. The code does not keep this: _persist passes over an OSError.
LimitsSurviveRestarts == actedToday <= MaxPerDay /\ spentToday <= MaxCost

\* loop.py and models.py: "the loop acts on the most certain, most severe drift
\* first": whatever the gate refuses, the caps defer or midnight refills, the
\* finding acted on is not outranked by one above the floor that still waits or
\* that the cycle has passed over since midnight.
BestFirst ==
    \A p \in Loops :
        phase[p] = "enriching" =>
            \A f \in current[p], g \in todo[p] \cup passedOver[p] :
                AboveFloor(g) => Score[g] <= Score[f]

\* handoff.py: the issue is "idempotent by a fingerprint marker": over any number
\* of cycles that take turns, with issues closed at any time, requests lost and
\* refused and processes dying, a finding gets a second open issue only after a
\* search has missed the first.
OneOpenIssue == \A f \in Findings \ missed : issues[f] <= 1

\* handoff.py:9, "idempotent by a fingerprint marker", and rollout.md:11, "Opens
\* the loop:candidate issue", of every cycle: one open issue for a finding. The
\* code does not keep this: a search that is not answered counts as finding none.
OneIssueWhatever == \A f \in Findings : issues[f] <= 1

\* The Engineering Loop can fetch what an issue points to: an open issue has a
\* stored handoff and a stored case, of a finding that warrants one
\* (run_once's order of observe_finding, request_handoff and the post).
OpenIssueHasHandoff ==
    \A f \in Findings :
        issues[f] > 0 => f \in handoffs /\ f \in cases /\ f \in Warrants

\* rollout.md:11: handoff_live "Opens the loop:candidate issue": when the loop is
\* done with a finding it has handed off live, the finding has an open issue. The
\* code does not keep this: socctl gives PostureLoop no GitHub client.
LiveHandoffHasIssue ==
    [][\A p \in Loops, f \in Findings :
          /\ f \in current[p] /\ mode[p] = "handoff_live"
          /\ phase[p] \in {"handing_off", "searching", "creating"}
          /\ phase'[p] \in {"gating", "off"}
          => issues'[f] > 0]_vars

=============================================================================
