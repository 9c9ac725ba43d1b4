# A TLA+ model of the SOC Agent

The SOC Agent reads a network through a read-only MCP daemon, compares it with
the desired state, keeps a *security case* for every control that has drifted,
has a language model's opinion of it, hands the repair to the Engineering Loop
over lhp.v1 and resolves a case only after repeated passing re-reads
("No-False-All-Clear"). This directory holds TLA+ modules for that, TLC
configurations that check them on small
instances, and TLAPS proofs of theorems about them.

    tlc -config CaseLifecycle.cfg CaseLifecycle    # check an instance
    tlapm CaseLifecycleProofs.tla                  # check the proofs

`PROJECT.json` maps every definition to the lines it models and lists the runs,
the mutants, the theorems, the findings and the hazards.

## 1. The system

### Components

| Component | State | Operations | Talks to |
|---|---|---|---|
| LHP contract, `app/lhp.py` | none | transition table, `HandoffUpdate` validation, signatures | used by the service and the API server |
| Case policy, `app/cases/policy.py` | none | status graph per actor, `can_resolve` | service, verifier |
| Case service, `app/cases/service.py` | the store's | `observe_finding`, `note_scan_degraded`, `request_handoff`, `record_issue`, `record_engineering_update`, `triage`, `mark_needs_human` | store |
| Verifier, `app/cases/verifier.py` | the store's | `verify_case`, the one writer of `resolved` | store |
| Case store, `app/cases/store.py`, `runtime.py` | dictionaries in memory, one JSONL file per kind of record | `put_*`, `append_*`, load at start | the disk, shared by all processes |
| API server, `app/main.py`, `summaries.py` | one cached runtime | fetch a handoff, take a callback, health and status | Engineering Loop |
| Posture loop, `app/posture/loop.py`, `governance.py`, `ledger.py` | the cycle's report; the daily ledger in memory and in `ledger.json` | `run_once`, `evaluate_gate`, `record_finding` | scanner, service, GitHub |
| GitHub handoff, `app/posture/handoff.py` | GitHub's issues; a cached App token | search, comment, create; mint a token | GitHub |
| Scanner, `app/posture/scanner.py`, `app/tools/mcp_client.py` | a `ScanContext` per scan | `scan`, four checks, `_call` | MCP daemon |
| Verification loop, `app/posture/verification.py` | none | `run_once`, `verify_case_now` | scanner, service, verifier |
| Desired state, `app/posture/desired_state.py` | none | parse the checkout | scanner |
| socctl, `app/socctl.py` | none | `posture run-once`, `posture verify`, `redteam` | loops |
| Configuration, `app/config.py` | none | environment to settings, mode predicates | all |
| MCP runtime, `app/mcp_runtime.py` | none | allowlist, pass a call on | MCP client |
| SOC graph and agents, `app/graph/`, `graph_runtime.py`, `app/agents/` | a workflow state per thread | enrich a finding, stop for approval | posture loop |
| Red team, `app/redteam/` | none | RT-0 modelling, RT-1 probes behind a gate | socctl |
| Agent core trace, `app/agent_core_trace.py` | none | emit trace envelopes | posture loop |

`socctl posture run-once` and `socctl posture verify` are operating-system
processes started by timers or people. Each loads the JSONL files when it starts
and writes through. The API server is a third process; it loads the files at its
first request and keeps that snapshot. Its handlers run on one event loop and
wait for nothing once they have the body, so a handler is atomic in the process.
The posture loop waits for the scan, the enrichment and GitHub. The enrichment is
a LangGraph workflow that ends at an `interrupt`: an operator may resume it, the
loop reads what it has and drops it. No code in `app` runs a red-team exercise
yet; tests do, and so will the loop.

### What is hard, and what makes each part correct

* **Case lifecycle.** Four parties act on a case in any order, and callbacks come
  late, twice or for a case that has moved on. Correct: only enough passes since
  the last failure resolve a case; the case, its handoff and its objective
  agree; a fixed control's case gets out of verification.
* **Store.** A crash falls between any two puts or inside a line of a file that
  many records share; processes hold old snapshots. Correct: an acknowledged
  callback is on disk; a case on disk has the records it refers to; a torn line
  costs one record; only the verification resolves, old snapshots aside.
* **LHP exchange.** Requests and answers are lost, repeated and late, and clocks
  are skewed. Correct: applied exactly once and in order, answered eventually.
* **Posture cycle.** Budgets live in memory and in a file that may be missing,
  unreadable or not writable; midnight, a crash and another cycle fall between the
  gate and the record; GitHub does not answer. Correct: a lapse costs one budget
  at most, worst drift first, a second issue only after a search that missed the
  first, an issue points to a stored handoff.
* **Scanner.** Reads fail in two ways (a result with `ok` false, an exception) and
  a check may crash half way. Correct: no control vanishes from a scan that looks
  complete, no control has two verdicts, and a pass that is folded was read.

* **Identities.** A case is found by fingerprint in a snapshot, a handoff by its
  key, an issue by a marker at GitHub, and made when it is not found. Correct:
  twins only from cycles that really overlap, and pointers that fit.
* **Tokens.** One cached token, two clocks, slow requests. Correct: no request
  carries a token or a JWT that GitHub takes for expired or not yet valid.
* **Enrichment.** A model answers as it likes, late, or not at all, between the
  gate and the handoff. Correct: the scanner decides what is handed off, a human
  is asked once and no warranted handoff is kept from them, only what was measured
  is called confirmed, every run gets to its question.
* **Reach.** Switches come from the environment, files and defaults, with typos
  in all of them. Correct: nothing leaves the process that nobody asked for.

The hazards, each at its line and with the properties that catch it, are listed
in `PROJECT.json`.

## 2. The modules

| Module | Models | State |
|---|---|---|
| `LhpContract` | handoff statuses and transitions of `lhp.py` | none |
| `CasePolicy` | `policy.py` | none |
| `CaseService` | what each operation of `service.py` and `verifier.py` does to one case, as functions on a record | none |
| `NoFalseAllClear` | abstract: the verdict on a control and when it may be lifted | `verdict`, `clean` |
| `CaseLifecycle` | one store, all parties, each operation one step | `cases`, `handoffs`, `objectives`, `callbacks`, the network `live` and two histories |
| `CaseJournal` | one case on disk, in files with other records, and three processes with snapshots, each put one step | `disk`, `torn`, `mem`, `pending`, ... |
| `LhpCallbacks` | the API server and the Engineering Loop over a bad network | server, engineering, network, clock |
| `PostureCycle` | `run_once` step by step, ledger, file, issues | a program counter, ledger and lists per process |
| `PostureScan` | one scan, host by host and check by check | `todo`, `findings`, `degraded`, histories of the reads |
| `CaseIdentities` | one fingerprint's cases, handoffs and issues by id, and processes with snapshots | `cases`, `handoffs`, `issues`, a phase and a snapshot per process |
| `GitHubAuth` | `_GitHubAppAuth` and its users, on two clocks | `cached`, `now`, `skew`, a request per task |
| `HumanGate` | abstract: what the workflow asks its operators, and when it may request a handoff | `stage`, `shown`, `requested` |
| `SocGraph` | the commander workflow node by node, and both its users | `node`, `assessment`, `enriched`, the loop's `cycle` |
| `Settings` | `config.py`: environment over file over default; modes | none |
| `McpRuntime` | `mcp_runtime.py`: the tool lists and `is_allowed` | none |
| `ReadOnlyReach` | the MCP runtime's calls and the red team's exercises, under loaded settings | `settings`, the exercise being made, what was `fetched` and `asked` |
| `MC...` | values of constants for TLC | |
| `...Proofs` | theorems about the module of that name; those about `GitHubAuth` are in `PostureCycleProofs` | |

`LhpContract` and `CasePolicy` are under `CaseService`, which `CaseLifecycle`,
`CaseJournal` and `LhpCallbacks` share: the three look at the same operations as
atomic steps of many parties, as sequences of puts that a crash may cut, and as
handlers of messages. `CaseLifecycle` and `CaseJournal` each implement
`NoFalseAllClear` under a refinement mapping (`Verdict`, `DiskVerdict`).
`PostureCycle` and `PostureScan` stand beside them: the first has of a case only
that it is stored, the second ends where `observe_finding` begins.
`CaseIdentities` takes up the question that `CaseJournal` (one case) and
`PostureCycle` (one issue per finding) leave out: which case, which handoff.
`SocGraph` composes the workflow with the steps of `run_once` around it and
implements `HumanGate`; `ReadOnlyReach` composes `Settings` and `McpRuntime`
with the red team.

### How state and actions correspond to the code

* A case is the record of the `SecurityCase` fields that decide a transition or
  a resolution. `last_observed_passing`, `handoff_ids` and `issue_url` are kept
  as "is it set". The status `"absent"` stands for no record. A *control* is a
  finding's fingerprint; it indexes handoffs and objectives too, because the
  handoff's idempotency key is made of the case and its objective key.
* `RecordFailing` and `RecordPassing` are the two directions of
  `observe_finding`; `HandedOff` is `request_handoff`'s write of the case;
  `EngineeringUpdated` that of `record_engineering_update`; `Verified` that of
  `verify_case`. `FailingPuts`, `RequestPuts`, `CallbackPuts` and `VerifierPuts`
  of `CaseJournal` are the same operations as the puts they make, in order.
* In `CaseLifecycle`, what a scan says of a control is `ReadsAsFiring` and
  `ReadsAsPassing`, whether it was degraded or not. Three classes of controls read
  otherwise than they are: an RPKI control fires when the cache read is refused or
  raises (scanner.py:184); a DNS control passes on the one of its two queries that
  succeeds (559), and is not re-read by verification, which asks its domain as a
  host (`ReRead`); a committed WireGuard key is never read as passing (325-358).
  A control may be of any of them in the proofs.
* `LoopSkipsFiring` is the `continue` of `run_once` for a finding that is
  refused or deferred: reported, not observed.
* In `CaseJournal`, `Put` changes memory and appends a line, `Stop` is the end or
  death of a process between two puts, `DieInsideLine` its death in `_append`;
  `LineLost` is what `_read_jsonl` makes of a line glued to a fragment. `lost` is
  the set of records whose last line went so; only a line of the same record takes
  it out (`LineStored`). `OtherLine` and `DieInsideOtherLine` are the puts of the
  other cases, handoffs, objectives and callbacks of the same files: they meet a
  fragment, or leave one.
* In `LhpCallbacks`, `Answer` is the handler's chain of checks with every 4xx as
  "rejected"; `Restart` is `get_runtime` loading the store again.
* In `PostureCycle`, `phase` is where `run_once` is. `Record` and `Persist` are
  `_persist`'s truncation and write, `WriteFails` the `OSError` after the
  truncation, and `RecordInMemory` the return without a state path and the
  `OSError` before it. `Start` takes the ledger of the file, or a new one if there
  is no state directory (`durable` is FALSE, and the store is in memory too) or the
  file cannot be read. `lapses` counts these, and deaths before the file has what
  was acted on; `missed` are the findings whose open issue a search has missed.
* In `PostureScan`, a value read is one of the few a check tells apart:
  `"filtered"`, `"unfiltered"` and so on for a BGP configuration.
* In `CaseIdentities`, ids are numbered in the order of the files, so
  `get_case_by_fingerprint` finds case 1. `Leave` is every way a cycle goes no
  further with the finding, its death included; `peak` is the history that the
  bounds on twins are stated with.
* In `GitHubAuth`, an instant is a number on the program's clock; GitHub's clock
  is `skew` away from it. `Ends` is the end of a request however it ends.
* In `SocGraph`, a node is an action. `ModelAnswers` and `ModelFails` are the two
  outcomes of `_run_specialist`; `LoopStarts`, `LoopReads`, `LoopFails` and
  `LoopActs` are the lines of `run_once` and `_enrich` before, at and after the
  workflow; only an operator's thread is resumed, as in the code. `Question` is what
  `approval_interrupt` shows of a finding: its severity and whether it warrants a
  handoff, and neither its confidence nor its evidence.
* In `Settings`, a source says a value, is garbled, or is unset; `EnvBool`,
  `EnvInt` and `TomlValue` are the three ways the code reads it. `FileLayer` is
  the first file that exists, and no layer at all if that one is broken.
* In `ReadOnlyReach`, `RunExercise` is `RedTeamRunner.run` up to the validator,
  which then takes one target a step: `RefuseTarget`, `RefuseFetch`, `Fetch`, or
  `FetchRaises`, which throws the record away as the exception does.
* `live`, `clean`, `seen`, `lost`, `actedToday`, `spentToday`, `lapses`, `missed`,
  `passedOver`, `failed`, `answers`, `peak` and `fetched` are histories or
  surroundings: no action that models code reads them, but for `live`, which a read
  returns, and `lapses` and `lost`, which bounds stop.

## 3. The runs

| Run | Instance | Shows |
|---|---|---|
| `CaseLifecycle` | one control, an RPKI one, four events, two modes, two passes required; 71,020 states | `AllClearSpec` (refinement of `NoFalseAllClear`), `StreakBacked`, `HandoffMirrored`, `ObjectiveFollowsCase`, `HandoffStoredWithCase`, and the liveness `FixedCaseLeavesVerification` |
| `JournalCrash` | three processes one at a time, two events, two statuses, two passes required, two files torn or records lost at a time; 798,580 states | `StoredCaseHasHandoff`, `LossStaysInItsRecord`, `AcknowledgedUpdateStored`, `DiskAllClearSpec`, `ResolutionIsTheVerifiers` |
| `PostureBudget` | cycles one at a time, three findings, two days, three findings and 12 cents a day at 5 cents each; crashes, a failing GitHub, a failing ledger's file, cycles with and without a state directory; 2,166,260 states | `DailyBudgetRespected`, `BestFirst`, `OneOpenIssue` |
| `PostureOverlap` | two cycles at once, crashes, GitHub and the ledger's file failing; 2,824,385 states | `OpenIssueHasHandoff` |
| `ScanComplete` | a core router and a server, four host lists, both failures; 184,334 states | `NoControlLost`, `OneVerdict`, `VerifiedPassIsRead` |
| `LhpExchange` | three reports, two requests in flight, three ticks, a window of one tick and a clock one tick ahead; 26,208 states | `ServerKeepsUp`, and the liveness `ReportsAreAnswered` |
| `TokenRotation` | two tasks, 15 units of time, a token's life of 9 with a margin of 4, requests of up to 2, a skew of up to 2; 855,125 states | `TokenAlive`, `JwtInWindow` |
| `CaseTwins` | three processes at once, two issues; about 2.4 million states | `OneCasePerCycleAtOnce`, `OneHandoffPerCycleAtOnce`, `IssueNamesItsCase` |
| `SocWorkflow` | two threads, four findings, two answers of a model; 19,044 states | `ScannerDecidesHandoff`, `SureOnlyIfMeasured`, `HumanGateSpec` (refinement of `HumanGate`), and the liveness `EveryRunIsAsked` |
| `ReadOnlyReach` | 40 environments, 30 lists of files, three targets, up to two of them in an exercise; 458,228 states | `ReachIsOptedIn`, `EveryTargetAnswered` |

Each state module's `TypeOK` is checked by one of its runs (that of
`ReadOnlyReach` is proved only). `GitHubAuth` calls its own `AuthInit`, `AuthSpec`
and `AuthTypeOK`, so that one module can extend it and `PostureCycle`. Every
property of these runs has a mutant (a
plausible bug in a mapped definition) that breaks it.

Two runs, `DocFreshFailure` and `DocChangeApplied`, each state what a document says
and the code does not do; TLC finds a violation.

Further instances are here to be run by hand. `DocSelfHealed`, `DocStaleServer`,
`DocBudget`, `DocOneIssue`, `DocLiveIssue`, `DocDnsCase` and `DocSilentPass` each
state one more claim that TLC finds violated (section 5); where something weaker
does hold, a run above checks it. `JournalEvents` (whole lines, all four statuses;
52,993 states) and `JournalOverlap` (processes at once; 1,113,046 states) pass.

    tlc -config DocBudget.cfg MCPostureCycle
    tlc -config JournalOverlap.cfg MCCaseJournal

### The bounds

* One control in `CaseLifecycle`, an RPKI one, as it has the most reads: it fires
  at any time and passes when it is fine. The classes of DNS and key controls take
  reads away or add passes, which the safety theorems cover for every class. No
  action reads another control's records,
  except for misaddressed callbacks, which the proofs cover and the run leaves
  out (`Misaddressed = FALSE`). Four events are enough for requested, accepted,
  in progress, blocked or implemented, and one that comes late.
* `Required = 2` is the least for which a streak can be broken in its middle.
  `MaxPasses = 3` caps the passes the posture loop adds to one streak, one past
  the requirement; the verifier may always take one more, so the bound does not
  stand in the way of `FixedCaseLeavesVerification`.
* `JournalCrash`: two events are two reports, each of which may be cut and retried,
  and "accepted" and "implemented" take the case to verification. `MaxDamage = 2`
  has a fragment in one file while a record of another, or the same, is lost; over
  time there may be any number of both. Processes take turns (`Exclusive`), as most
  of these properties need; `JournalOverlap` has them at once for the one that does
  not, with one pass required, so that a case can be resolved, reopened and resolved
  again within three snapshots.
* `PostureBudget`: budget and cost end in different places (the third finding is
  affordable by count and not by cost), the cap of two is below the number of
  findings and one finding is below the floor. A midnight falls anywhere, and with
  it the lapses of one day and the cycles that go on into the next. Two lapses a
  day are one more than a single failure, so that budgets add up.
* `PostureOverlap`: two cycles are the least that interleave, in one day with one
  lapse; `issues` stops at two open ones. All cycles have a state directory
  (`StateDirs = {TRUE}`): one that has none may open an issue to a handoff that is
  stored nowhere.
* `TokenRotation`: every duration is the least that keeps the order the code's have
  (margin over two flights, JWT over two flights and the skew). 15 units see a
  token minted, reused, nearly expired and minted again.
* `CaseTwins`: three processes make a pair that overlaps and a third that comes
  after, or during, either. `MaxIssues` allows one issue, its closing, and a second.
* `SocWorkflow`: no thread reads another's state, so two are enough to show it. The
  findings differ in what the code tells apart: measured or not, warranting or
  not, sure or at the lowest confidence, hinted (validly, or not) or not.
* `ReadOnlyReach`: the environments and files hold every kind of value for every
  switch, alone and against each other; two targets are an owned and a refused
  one in either order, or one twice.
* `LhpExchange`: "accepted, blocked, accepted" is the shortest sequence in which
  a repeated first report is an allowed transition again. Two requests in flight
  are a report and its retry, or a late copy of an earlier one.

### Fairness

* `VerificationFairness` (`CaseLifecycle`): weak fairness of a passing verify and
  of folding a passing finding, both of a control that is fine. The timers run both
  loops again and again, and a source that stays up answers some of the reads.
  Where no read can pass (a committed key; a DNS case in verification) the fairness
  asks for nothing, and `FixedCaseLeavesVerification` leaves these controls out.
  Failing reads of a control that is fine, from an RPKI cache that is refused now
  and then, may come at any time: the property excepts behaviours in which they
  break a streak again and again. Nothing forces a drift, a repair, a callback or
  an operator. Degraded reads need no fairness and may come between all others.
* `NetworkFairness` (`LhpCallbacks`): Engineering retries (weak), and a network
  that carries a current request or its answer infinitely often lets one through
  (strong: each may be lost any number of times). What is out of its time window
  is dropped in the end. Restarts and the switch of LHP are not fair.
* `FairSpec` of `SocGraph`: weak fairness of the workflow's nodes (LangGraph runs
  them one after the other) and of the loop's two steps after it. A model answers
  or fails; the code sets no time-out of its own for it. No operator is fair.

## 4. The proofs

TLAPS checks these for every value of the constants that satisfies the named
assumptions (`RequiredAssumption`, `LimitsAssumption`, ...), which say what the
settings' validators guarantee.

`CaseLifecycleProofs`:

* `TypeCorrect`: `TypeOK`, which is inductive once each operator of
  `CaseService` is shown to return a `Case` (a lemma each).
* `StreakIsBacked`: `StreakBacked` is the invariant that the refinement needs. A
  case knows its count; `NoFalseAllClear` speaks of passes since the last
  failure. `TypeOK /\ StreakBacked` is inductive: a failing read that is folded
  sets both counts to zero, a pass raises both, and nothing else touches either.
* `RefinesNoFalseAllClear`: `Spec => AllClearSpec`. Each step maps to `Fails`,
  `Passes`, `PassesAndClears` or a stutter. The step that matters is
  `VerifyPassing`: `can_resolve` gives the count, `StreakBacked` turns it into
  passes. It holds for misaddressed callbacks too.
* `HandoffsMirrored`, `ObjectivesFollowCases`, `HandoffsStoredWithCases`: one
  conjunction, `HandoffInv`, is inductive, and none of its parts is: that the
  objective is there on the handoff path needs that a handoff comes with one,
  and that `request_handoff` does not raise half way needs that a case without a
  handoff is at most triaged or with a human. Stated for one control as `Booked`
  and lifted by `BookedStep`. Assumption: callbacks name their handoff's case
  (`~Misaddressed`); otherwise a callback changes `handoff_status` of another.

`PostureCycleProofs`:

* `LedgersWithinLimits`: `TypeOK`, whose type of the ledger is the daily limit.
  Inductive with `Admitted` (a finding past the gate is within the ledger's
  budget until it is recorded) and `Days` (no ledger is ahead of the day). Holds
  with overlap and crashes.
* `DailyBudgetHolds`: what a day has really seen keeps to `MaxPerDay * (1 + lapses)`
  findings and `MaxCost * (1 + lapses)` cents: to the limits, if the ledger's file
  is read and written, and to one budget more for each time it is not, or a process
  dies before it is. Its invariant `BudgetInv` adds that the file between cycles, and
  the ledger within one, cover the day but for the finding observed and not yet
  recorded and for the lapses; and that a cycle without a state directory, which
  has a lapse to its name, has the file for what came before it and its own ledger
  for what it does (`BooksCover`). Only assumption: cycles do not overlap
  (`Exclusive`).
* `OneIssuePerFinding`: with `Exclusive`, crashes and a GitHub that fails: a search
  that found nothing stays true until the creation, or has missed an issue and put
  the finding into `missed` (`SearchedFirst`).
* `IssuesAreBacked`: `OpenIssueHasHandoff` with overlap, crashes and a GitHub and a
  ledger's file that fail, for cycles that have a state directory. Stored records
  are never taken back, so it is enough that a cycle that
  has come to its issue has stored case and handoff (`StoredInOrder`).
* `ActsOnTheBestFirst`: `BestFirst`. What a cycle passed over it could not have
  acted on (`NoneSkipped`), and the queue is sorted (`BestOfTheRest`).

`CaseJournalProofs`, for any processes, events, statuses and threshold, in layers:

* `JournalTypes`: `TypeOK` and the types of the lines still to be put.
* `StoredCasesHaveHandoffs`, with processes that overlap, die and tear lines: in
  what a process has yet to put, a case on the handoff path comes after its
  handoff and its objective, unless they are stored (`HandoffFirst`). This is the
  order of the puts in `request_handoff`, which the prefix of a crash keeps.
* `ResolutionsAreTheVerifiers`, with any processes at once: what a process that is
  not the verification has yet to put moves a case to resolved only if its snapshot
  holds it resolved already (`ResolveInv`), by the contract's and the policy's tables.
* The others assume one process at a time (`Exclusive`); `SyncInv` then says
  that the snapshot of the process up and the files differ by lost records only,
  which is `LossesStayInTheirRecords`: other records' lines do not bring a lost one
  back, nor do they lose one. `AcknowledgedIsStored` adds that an event yet to be
  put follows the lines of its update (`EventsCarried`). With overlap both fail: a
  process puts a whole case from an old snapshot.
* `NoFalseAllClearOnDisk`: `Spec => DiskAllClearSpec`, every put a step of
  `NoFalseAllClear` or a stutter, through crashes between any two puts. The
  invariant `ClearInv` says that the snapshot is the stored case (`Whole`), that
  the lines a process has yet to put take the stored case on, each by a step that
  `NoFalseAllClear` allows (`OnCourse`, with `Leads`), and that the stored streak
  is of passes since the last stored failure (`DiskBacked`). It is
  stated for whole lines (`~Tearing`), with which a snapshot is the stored case.
  With torn ones `DiskAllClearSpec` is only model-checked; there the pass of a lost
  line still counts, as the process that made it goes on counting from memory.

`LhpCallbacksProofs`, for any reports, network and skew:

* `ExchangeTypes`, and `ServerAlwaysKeepsUp` (`ServerKeepsUp`): Engineering has at
  most one report without an answer (`Exchange`), and the inbox is the answered
  reports or these and that one (`Fetched`); so a request that arrives is of a
  report the inbox has, and changes nothing, or of the one in progress.

`PostureScanProofs`, for any hosts, target lists and failures of reads:

* `ScanTypes`: `TypeOK`. `TargetsAssumption` says that a target is a list of known
  hosts or the domain.
* `NoControlIsLost`: `NoControlLost`, also with hosts named twice. At every moment
  a control of the scope is `Accounted` for: it has a finding, or the scan is
  degraded, or a read of it was refused, or it is `Quiet`, still in the work left
  or read as something its check has no finding for.
* `VerdictsAreOne` and `PassesWereRead`: `OneVerdict` and `VerifiedPassIsRead` are
  conjuncts of one invariant, `VerdictInv`. The jobs left have no control in
  common (`Apart`) nor one that has a finding (`Untouched`); so a finding is the
  only one of its control, and a pass that is there was read (`PassesRead`) unless
  the read raised, which degrades the scan (`RaisedDegrades`). Hypothesis: no list
  names a host twice (`HostsOnce`). A verification always scans one host. The
  posture loop's list comes from the configuration and is not deduplicated, so
  naming a host twice there lets two reads of one control disagree.

`PostureCycleProofs`, on `GitHubAuth`, from `DurationsAssumption`, `JwtAssumption`
and `MarginAssumption`, which hold of the code's numbers (margin 300 s, JWT -60 s to
+540 s, life 3600 s) for a skew of up to a minute and requests of up to 150 s:

* `TokenTypes`; `NoDeadToken` and `JwtAlwaysInWindow` rest on one invariant: an
  instant is known by the request it belongs to. A request in flight is at most
  `Flight` old (`InFlight`), a JWT was signed at most one request earlier
  (`JwtAge`), a token was minted within the request that brought it (`TokenAge`),
  and `_expires_at` is GitHub's word or late by one flight (`CacheHonest`).

`CaseIdentitiesProofs`, for a finite set of processes:

* `NoTwinCases` and `NoTwinHandoffs`: a process can make a case only while its
  snapshot has none; those that can were up when the first was stored. From then
  on, the cases there are and the processes that may still make one only change
  places (`CaseRoom`), and so for the handoffs of a case (`HandoffRoom`). The
  lemmas count: a process moves from one finite set to another.
* `IssuesNameTheirCases`: `Pointers` and `Knows`, and `peak = 1` gives one case.

`SocGraphProofs`, for any findings, answers and threads:

* `ImplementsHumanGate`: `Spec => HumanGateSpec`. What the gate is shown is the
  question as the code asks it. `BuildFinding` lets a model add a handoff and never
  take one away, and the invariant `GroundedSoFar` carries that to the question.
* `ConfirmedIsMeasured`: `SureOnlyIfMeasured`. `ValidateEvidence` takes a step off
  the confidence in what was not measured, and nothing raises it afterwards; a run
  that fails before it leaves the loop with the scanner's own finding, of which
  nothing is claimed.
* `ScannerDecides`: `DecisionKept`, that the gate's decision stands from the gate
  to the handoff. `UsersApart` keeps the loop's threads and the operators' apart.

`ReadOnlyReachProofs`, for every set of environments, files and targets:

* `ReachNeedsOptIn`: what is fetched or sent was opted into. `OnWasSaid` is the
  lemma about the loaders: a switch that is on was said to be on where the
  process looks. `EveryTargetIsAnswered`: the results are those of a prefix of
  the targets, in order. `ReachTypes` is the type invariant.
* About the operators alone: `AllowlistsAgree`, `ScannerIsNeverRefused`,
  `TypoNeverClimbs`.

Only model-checked: the three liveness properties, `FixedCaseLeavesVerification`,
`ReportsAreAnswered` and `EveryRunIsAsked`, because the provers handle neither
fairness nor `ENABLED`; `DiskAllClearSpec` with torn lines; and the violations.
Every other property of a passing run is stated by a theorem.

## 5. Where code and documentation disagree

Shown by TLC, the first two as runs, the others by the instance named:

* `DocFreshFailure`: "any fresh failure resets the clean streak" (service.py:262).
  A failing read the gate refuses or the cap defers is not folded (loop.py:111),
  so passes before and after it add up to a resolution.
* `DocChangeApplied` (`ChangeAppliedVerifies`): on a `change_applied` callback "the
  case moves to `verification_pending`" (rollout.md:15-18; also service.py:195 and
  verification.py:3-4). Off the handoff path it does not (service.py:196): after
  needs_human, say, the handoff is stored as implemented and the case stays.
* `DocSelfHealed` (`SelfHealedCaseResolves`): the verifier resolves "a self-healed
  shadow case" too (policy.py:77). Only two statuses are ever verified
  (verification.py:23), so a case without a handoff stays active for good; in
  `case_only` there is no resolve cycle to observe (rollout.md:9).
* `DocStaleServer` (`OnlyVerifierResolves`): "The `SecurityVerifier` is the only
  writer of ... `resolved`" (architecture.md:35). The server's old snapshot puts a
  resolved case back over one that was reopened (main.py:45). What holds is
  `ResolutionIsTheVerifiers`.
* `DocBudget` (`LimitsSurviveRestarts`): "limits survive restarts within a day"
  (ledger.py:5-6). A write that fails is passed over (ledger.py:87), and the next
  cycle has a full budget; so too after a death in the write, an unreadable file,
  or without a state directory. What holds is `DailyBudgetRespected`.
* `DocOneIssue` (`OneIssueWhatever`): "Idempotent by a fingerprint marker"
  (handoff.py:9, rollout.md:11). A failed search counts as an empty one
  (handoff.py:152). What holds is `OneOpenIssue`.
* `DocLiveIssue` (`LiveHandoffHasIssue`): handoff_live "Opens the `loop:candidate`
  issue" (rollout.md:11). socctl builds the loop without a GitHub client
  (socctl.py:50-56) and `handoff_from_env` has no caller: the model's `Wired` is
  FALSE, and no issue is opened. The properties on issues are about a loop that is
  given a client, as the tests give it one.
* `DocDnsCase` (`DnsCaseIsReRead`): the verification loop "targeted-re-scans the
  exact control" (verification.py:4). For a DNS case it asks the domain as if it
  were the resolver host (verification.py:74), and gets no answer.
* `DocSilentPass` (`NeverSilentPass`): "A failed *read* degrades the cycle"
  (posture/__init__.py:5). A read that is refused, not raised, does not
  (scanner.py:51-69, 559).

Read in the code while modelling it:

* The red team's rules of engagement (redteam-safety-policy.md:9, 17, 21, 28):
  RT-1 is not rate-limited or bounded by `SOC_POSTURE_MAX_PROBES_PER_HOST_PER_CYCLE`,
  which nothing reads (`Fetch` has no such guard), and its scope is wider than an
  explicit list (`IsOwnedTarget`; validators.py:41-55).
* "the loop performs the actual LHP persistence" of an approved handoff
  (graph/nodes.py:164). It hands off by the gate's decision and never sees the
  flag; nothing in `app` resumes a thread (loop.py:176-188).
* A case in `handoff_in_progress` is verified and resolved with no fix reported
  (verification.py:23).
* A callback cut before its inbox record is applied again when it is retried
  (service.py:211), which is harmless only as restating a status is.
* A verifier that dies between its put of the resolved case and that of the
  objective leaves the objective pending for good: verify_case returns at once
  for a terminal case (verifier.py:45, 60-67).
* `run-once` does not look at `SOC_POSTURE_ENABLED` (socctl.py:126; rollout.md:32).
* No finding says that a committed plaintext key is gone (scanner.py:325-358), so
  such a case cannot accrue passes.
* The question put to a human leaves out the finding's confidence and evidence
  (nodes.py:146-154), and its severity is whatever the model made of it.
* A cycle without a state directory, or with one that raises, runs on a store in
  memory without a word (runtime.py:37): an issue it opens points to a handoff
  that is stored nowhere.
* rollout.md:22 names `SOC_CASE_VERIFICATION_REQUIRED_CONSECUTIVE_PASSES`; the
  runtime takes the posture setting (runtime.py:30).
* `max_hosts_per_cycle` always takes the first hosts (loop.py:70-73), and findings
  deferred by the cap are last again next time: either may starve.
* A handoff stored after the server's first request is a 404 until it restarts
  (main.py:45; `RequestHandoff` and `Restart` of `LhpCallbacks`).
* A payload over the limit after parsing raises a `ValueError` that no handler
  catches (main.py:98).
* An RT-1 fetch that fails for any reason but a refusal ends the exercise
  (redteam/validators.py:95-100; `FetchRaises`).
* Of two cases of one fingerprint, left by cycles that overlapped, only the first
  is ever refreshed, passed or reopened (store.py:71-78, service.py:77). The
  verifier looks at the other's own count, which stays 0: it is never resolved.
* A model that leaves `refined_severity` at its default replaces the scanner's
  severity with UNKNOWN in the stored case and handoff (nodes.py:127).
* A severity floor that is no severity has rank 0, and the gate lets everything
  by (models.py:104, governance.py:41).
* A typo in a switch is "off" (config.py:457-461), which for
  `SOC_CASE_VERIFICATION_DRY_RUN` is the less careful side.
* `finding_cooldown_s`, `human_gate_all_mutations` and `require_human_for_handoff`
  are loaded and read by nothing.

## 6. What is abstracted, and what is not modelled

* Text: messages, issue bodies, sanitising, hashing and the bytes of signatures.
  A signature is a property of its request's time only.
* One case per control in `CaseLifecycle` and `CaseJournal`; `CaseIdentities` has
  several, and of each only its id, its handoffs and its issue.
* `CaseJournal` has the case, handoff, objective and callback files, with the
  records of one case and, of the others, the fragments they meet and leave. A
  write is whole, absent or torn before its last character; a whole record that
  lacks only its newline is not modelled, nor is an append that raises in a process
  that goes on. Files do not lose flushed lines.
* `PostureCycle` takes a cycle's state directory as usable or not for the whole of
  it; of the files in it only the ledger's may fail on its own.
* `LhpCallbacks` assumes an Engineering Loop that waits for an answer before its
  next report. The code does not order reports itself: two sent at once may be
  applied in either order the contract's table allows.
* `PostureScan` answers each read at the moment of the read, with one of the
  values a check tells apart; parsing is not modelled. Of `_rpki_cache_active`
  and the route-map parser it keeps the verdict, not the text they accept.
* `GitHubAuth` bounds the skew and the time of a request, which the code does not
  (httpx's time-out of 20 s is per phase). `PostureLoop` is one task; two stand for
  a shared `_GitHubAppAuth`.
* `SocGraph` takes a finding by what decides its way; summaries, techniques and
  actions a model adds are text. A thread is run once.
* `ReadOnlyReach` keeps of a template that there is one, and of a finding its
  category. Whether a host is owned is a constant: the parsing of prefixes and
  domains is `desired_state.py`'s.
* Not modelled: `desired_state.py` (parses a checkout, keeps nothing),
  `agent_core_trace.py` and the private insights of `loop.py` (best-effort
  emission that no decision reads), `summaries.py` (renders records), and of
  `lhp.py` the sanitising, hashing and the records that nothing in `app` writes.
  None has a step to model: what they compute is data, or is not used.

## 7. Plan

Written so far, in this order: `LhpContract`, `CasePolicy`, `CaseService`,
`NoFalseAllClear`, `CaseLifecycle`, `CaseJournal`, `PostureCycle`, `PostureScan`,
`LhpCallbacks`; then `GitHubAuth`, `CaseIdentities`, `HumanGate` and `SocGraph`,
`Settings`, `McpRuntime` and `ReadOnlyReach`; and the proofs of section 4. Next:

1. When the loop or the control plane comes to resume threads or to run
   exercises, the composition of `SocGraph` and `ReadOnlyReach` with it.
2. When `record_engineering_update` comes to order reports itself, `LhpCallbacks`
   without its assumption of one report at a time.
3. Lists that name a host twice: once the loop drops repeats, `HostsOnce` becomes
   a fact about the target and no longer a hypothesis.
