---------------------------- MODULE ReadOnlyReach ----------------------------
(***************************************************************************)
(* What a SOC process may send out of itself.  The process reads its       *)
(* settings once; then it asks the MCP daemon for tools, and runs          *)
(* red-team exercises: RT-0 models attack paths from the firing findings   *)
(* without a packet, RT-1 fetches headers from owned targets, one after    *)
(* another (src/app/redteam, src/app/mcp_runtime.py).  One RedTeamGate is  *)
(* used by the runner and by the validator, as in the tests; no code in    *)
(* src/app runs an exercise yet.                                           *)
(***************************************************************************)
EXTENDS Settings, McpRuntime, FiniteSets

CONSTANTS
    Environments,   \* the environments considered: layers
    FileLists,      \* the candidate configuration files considered
    Targets,        \* what RT-1 may be asked to fetch
    Hostless,       \* targets without a host name
    Listed,         \* targets whose host is in the validator's allowed_hosts
    InPrefix,       \* targets whose host is an address in an owned prefix
    UnderDomain,    \* targets whose host is under an owned management domain
    Categories,     \* categories of posture findings
    Templated,      \* those that _TEMPLATES has an attack path for
    Detected,       \* those whose required detection the manifest declares
    MaxTargets      \* bound: targets of one exercise

ASSUME InputAssumption ==
    /\ Environments \subseteq Layer
    /\ FileLists \subseteq Seq(File)
    /\ Listed \subseteq Targets /\ InPrefix \subseteq Targets /\ UnderDomain \subseteq Targets
    /\ Templated \subseteq Categories
    /\ MaxTargets \in Nat

VARIABLES
    env, files,     \* the configuration the process finds
    settings,       \* what it made of it
    daemon,         \* a client for the MCP daemon, not disabled
    phase,          \* what the process is doing
    fetcher,        \* "live" (_default_fetch), "given", or "none": no validator
    targets,        \* rt1_targets of the exercise
    hypotheses, gaps, refused, results,   \* the record being made
    fetched,        \* targets a fetch was made for, in this exercise
    asked           \* the last tool asked for since, and what became of it

vars == <<env, files, settings, daemon, phase, fetcher, targets, hypotheses, gaps,
          refused, results, fetched, asked>>

config == <<env, files, settings, daemon>>

NotAsked == [tool |-> "none", outcome |-> "none"]

-----------------------------------------------------------------------------
(* The gate and the scope of a target.                                     *)

\* RedTeamGate.is_allowed, for tier RT-n.
Allowed(n) ==
    /\ settings.redteam_enabled
    /\ n <= settings.max_tier
    /\ n < settings.human_gate_tier

\* RedTeamGate.require raises.
Refuses(n) == n >= settings.human_gate_tier \/ ~Allowed(n)

ActiveProbesAllowed == settings.redteam_enabled /\ settings.allow_active_probes

IsOwnedTarget(t) ==
    /\ t \notin Hostless
    /\ t \in Listed \union InPrefix \union UnderDomain

-----------------------------------------------------------------------------
Init ==
    /\ env \in Environments
    /\ files \in FileLists
    /\ settings = Default
    /\ daemon = FALSE
    /\ phase = "start"
    /\ fetcher = "none"
    /\ targets = <<>> /\ hypotheses = {} /\ gaps = {} /\ refused = {}
    /\ results = <<>> /\ fetched = {}
    /\ asked = NotAsked

\* load_soc_settings, then the MCP runtime; without a daemon in the environment
\* (or with SOC_AGENT_DISABLE_MCP) there is no client.
Load ==
    /\ phase = "start"
    /\ settings' = LoadSettings(env, FileSettings(FileLayer(files)))
    /\ daemon' \in BOOLEAN
    /\ phase' = "idle"
    /\ UNCHANGED <<env, files, fetcher, targets, hypotheses, gaps, refused, results,
                   fetched, asked>>

\* SocMCPRuntime.call_tool.
CallTool(tool) ==
    /\ phase = "idle"
    /\ asked' = [tool |-> tool,
                 outcome |-> IF ~IsAllowed(tool, settings.enable_heavy_probes) THEN "forbidden"
                             ELSE IF ~daemon THEN "disabled" ELSE "sent"]
    /\ UNCHANGED <<config, phase, fetcher, targets, hypotheses, gaps, refused, results,
                   fetched>>

\* model_attack_paths: one hypothesis for each firing finding with a template;
\* detection_gap_findings: one gap for each that nothing would detect.
ModelAttackPaths(firing) == firing \intersect Templated
DetectionGaps(paths) == paths \ Detected

\* RedTeamRunner.run up to the RT-1 targets: refuse, or model the attack paths
\* of the firing findings and the gaps among them; then refuse RT-1, or hand
\* the targets to the validator.
RunExercise(firing, list, validator) ==
    LET models == Allowed(0)
        rt1 == models /\ list # <<>>
        validates == rt1 /\ ~Refuses(1) /\ validator # "none"
    IN  /\ phase = "idle"
        /\ targets' = list
        /\ fetcher' = validator
        /\ hypotheses' = IF models THEN ModelAttackPaths(firing) ELSE {}
        /\ gaps' = DetectionGaps(hypotheses')
        /\ refused' = CASE ~models -> {"RT-0"}
                        [] rt1 /\ ~validates -> {"RT-1"}
                        [] OTHER -> {}
        /\ results' = <<>>
        /\ fetched' = {}
        /\ asked' = NotAsked
        /\ phase' = IF validates THEN "validating" ELSE "returned"
        /\ UNCHANGED config

\* NonInvasiveValidator.run called without a runner: only its own gate decides.
RunValidator(list, source) ==
    /\ phase = "idle"
    /\ targets' = list
    /\ fetcher' = source
    /\ asked' = NotAsked
    /\ phase' = "validating"
    /\ UNCHANGED <<config, hypotheses, gaps, refused, results, fetched>>

-----------------------------------------------------------------------------
(* NonInvasiveValidator.run: the targets in order, one result each.        *)

Target == targets[Len(results) + 1]

Answer(check) ==
    /\ results' = Append(results, [target |-> Target, check |-> check])
    /\ UNCHANGED <<config, phase, fetcher, targets, hypotheses, gaps, refused, asked>>

RefuseTarget ==
    /\ phase = "validating" /\ Len(results) < Len(targets)
    /\ ~IsOwnedTarget(Target)
    /\ Answer("scope_refused")
    /\ UNCHANGED fetched

\* The tier gate, or the live fetcher without active probes: RedTeamRefused.
RefuseFetch ==
    /\ phase = "validating" /\ Len(results) < Len(targets)
    /\ IsOwnedTarget(Target)
    /\ Refuses(1) \/ (fetcher = "live" /\ ~ActiveProbesAllowed)
    /\ Answer("refused")
    /\ UNCHANGED fetched

MayFetch ==
    /\ phase = "validating" /\ Len(results) < Len(targets)
    /\ IsOwnedTarget(Target)
    /\ ~Refuses(1)
    /\ fetcher = "live" => ActiveProbesAllowed

Fetch ==
    /\ MayFetch
    /\ fetched' = fetched \union {Target}
    /\ Answer("http_security_headers")

\* A mutated form of FetchRaises (a bug it could have): the error ends the loop
\* over the targets, and what was done so far is returned.
FetchRaisesAndStops ==
    /\ MayFetch
    /\ fetched' = fetched \union {Target}
    /\ phase' = "returned"
    /\ UNCHANGED <<config, fetcher, targets, hypotheses, gaps, refused, results, asked>>

\* Anything but RedTeamRefused (a time-out, no route) leaves the validator and
\* the runner: the exercise made so far is lost with it.
FetchRaises ==
    /\ MayFetch
    /\ fetched' = fetched \union {Target}
    /\ phase' = "raised"
    /\ hypotheses' = {} /\ gaps' = {} /\ refused' = {} /\ results' = <<>>
    /\ UNCHANGED <<config, fetcher, targets, asked>>

Return ==
    /\ phase = "validating" /\ Len(results) = Len(targets)
    /\ phase' = "returned"
    /\ UNCHANGED <<config, fetcher, targets, hypotheses, gaps, refused, results,
                   fetched, asked>>

\* The caller takes the record (or the error); the process is free again.
Finish ==
    /\ phase \in {"returned", "raised"}
    /\ phase' = "idle"
    /\ fetcher' = "none" /\ targets' = <<>> /\ hypotheses' = {} /\ gaps' = {}
    /\ refused' = {} /\ results' = <<>> /\ fetched' = {}
    /\ UNCHANGED <<config, asked>>

TargetLists == UNION {[1..n -> Targets] : n \in 0..MaxTargets}

Next ==
    \/ Load
    \/ \E tool \in ReadOnlyTools \union ForbiddenTools \union {"unknown_tool"} : CallTool(tool)
    \/ \E firing \in SUBSET Categories, list \in TargetLists,
          validator \in {"none", "live", "given"} : RunExercise(firing, list, validator)
    \/ \E list \in TargetLists, source \in {"live", "given"} : RunValidator(list, source)
    \/ RefuseTarget \/ RefuseFetch \/ Fetch \/ FetchRaises \/ Return \/ Finish

Spec == Init /\ [][Next]_vars

-----------------------------------------------------------------------------
(* Properties.                                                             *)

\* The type of every variable.
TypeOK ==
    /\ env \in Environments
    /\ files \in FileLists
    /\ settings \in SettingsType
    /\ daemon \in BOOLEAN
    /\ phase \in {"start", "idle", "validating", "returned", "raised"}
    /\ fetcher \in {"live", "given", "none"}
    /\ targets \in Seq(Targets)
    /\ hypotheses \subseteq Templated
    /\ gaps \subseteq hypotheses
    /\ refused \subseteq {"RT-0", "RT-1"}
    /\ results \in Seq([target : Targets,
                        check : {"scope_refused", "refused", "http_security_headers"}])
    /\ fetched \subseteq Targets

\* The operator said yes where the process looks: in the environment, or, with
\* nothing there, in the first file that exists.
OptedIn(k) ==
    \/ env[k] = Said(TRUE)
    \/ /\ env[k] = Unset
       /\ \E i \in DOMAIN files :
            /\ Opened(files, i)
            /\ files[i].kind = "readable"
            /\ files[i].layer[k] = Said(TRUE)

\* The environment forbids tier RT-1: a ceiling below it, or a human gate at it.
EnvForbidsRT1 ==
    \/ env.max_tier.kind = "said" /\ env.max_tier.value < 1
    \/ env.human_gate_tier.kind = "said" /\ env.human_gate_tier.value <= 1

\* Nothing leaves the process that the operator did not ask for in so many
\* words: a target is fetched only when it is owned, the red team was switched
\* on and the tier not forbidden, and from the live network only when active
\* probes were switched on too; a tool that reaches the daemon is no mutating
\* one, and a heavy one only when heavy probes were switched on.  A typo, a
\* wrong type, a broken or a shadowed file is never a yes (config.py:445-525,
\* policy.py:25-44, validators.py:57-110, mcp_runtime.py:142-158).
ReachIsOptedIn ==
    /\ fetched # {} =>
         /\ OptedIn("redteam_enabled") /\ ~EnvForbidsRT1
         /\ fetcher = "live" => OptedIn("allow_active_probes")
         /\ fetched \subseteq (Listed \union InPrefix \union UnderDomain) \ Hostless
    /\ asked.outcome = "sent" =>
         /\ asked.tool \notin ForbiddenTools
         /\ asked.tool \in HeavyTools => OptedIn("enable_heavy_probes")

\* An exercise that returns a record has answered for every target it was
\* given, in their order: it refused the tier as a whole, or there is one
\* result per target, and the result is a header check exactly for the targets
\* it sent a request to (exercise.py:43-54, validators.py:82-101).
EveryTargetAnswered ==
    phase = "returned" /\ refused = {} /\ targets # <<>> =>
        /\ Len(results) = Len(targets)
        /\ \A i \in 1..Len(targets) :
             /\ results[i].target = targets[i]
             /\ results[i].check = "http_security_headers" <=> targets[i] \in fetched
=============================================================================
