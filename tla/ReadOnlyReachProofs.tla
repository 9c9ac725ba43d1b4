-------------------------- MODULE ReadOnlyReachProofs --------------------------
(***************************************************************************)
(* Proofs about ReadOnlyReach: nothing leaves the process without the      *)
(* operator's yes, and every target of an exercise is answered, whatever   *)
(* the environment, the files and the targets are.                         *)
(***************************************************************************)
EXTENDS ReadOnlyReach, TLAPS

-----------------------------------------------------------------------------
(* The loaders and the tool lists.                                         *)

\* The scanner's four reads are on the read-only list, with or without the
\* heavy probes: the runtime never refuses the scanner, so a scan is degraded
\* by the daemon or its absence alone (scanner.py:59-69, mcp_runtime.py:142-147).
THEOREM ScannerIsNeverRefused ==
    \A heavy \in BOOLEAN : \A tool \in ScannerTools : IsAllowed(tool, heavy)
BY DEF ScannerTools, IsAllowed, ForbiddenTools, HeavyTools, ReadOnlyTools, PostureTools,
       RoutingTools, FirewallTools, CryptoTools, DnsTools, TriageTools

\* The two rules of the runtime agree: a tool that a specialist is shown is one
\* that call_tool lets through, and no list shows a mutating tool
\* (mcp_runtime.py:93-100 against 142-147).
THEOREM AllowlistsAgree ==
    ASSUME NEW specialist, NEW heavy \in BOOLEAN, NEW tool \in SocAllowlist(specialist, heavy)
    PROVE  IsAllowed(tool, heavy)
<1>1. SpecialistTools(specialist) \subseteq ReadOnlyTools
  <2>1. /\ TriageTools \subseteq ReadOnlyTools
        /\ RoutingTools \subseteq ReadOnlyTools
        /\ FirewallTools \subseteq ReadOnlyTools
        /\ CryptoTools \subseteq ReadOnlyTools
        /\ DnsTools \subseteq ReadOnlyTools
        /\ PostureTools \subseteq ReadOnlyTools
    BY DEF ReadOnlyTools, PostureTools
  <2>. QED BY <2>1 DEF SpecialistTools
<1>. QED BY <1>1 DEF SocAllowlist, IsAllowed

\* A mode that lets the process act is named by the operator: by the
\* environment, or by the file when the environment is silent; any other text
\* is "shadow" (config.py:172-178, 212, 234).
THEOREM TypoNeverClimbs ==
    ASSUME NEW envText, NEW fileText, ModeOpensCases(LoadMode(envText, fileText))
    PROVE  \/ ModeOpensCases(envText)
           \/ envText = "" /\ ModeOpensCases(fileText)
BY DEF LoadMode, NormalizeMode, Modes, ModeOpensCases

\* The layer of the first readable file is a layer.
LEMMA FileLayerType ==
    ASSUME NEW list \in Seq(File)
    PROVE  FileLayer(list) \in Layer
<1>1. EmptyLayer \in Layer
  BY DEF EmptyLayer, Layer, SwitchSource, NumberSource
<1>2. CASE \E i \in DOMAIN list : Opened(list, i) /\ list[i].kind = "readable"
  <2>. DEFINE o == CHOOSE i \in DOMAIN list : Opened(list, i)
  <2>1. PICK i \in DOMAIN list : Opened(list, i) /\ list[i].kind = "readable"
    BY <1>2
  <2>2. o \in DOMAIN list /\ Opened(list, o)
    BY <2>1
  <2>3. o = i
    BY <2>1, <2>2 DEF Opened
  <2>4. list[i] \in File
    BY <2>1
  <2>5. list[i].layer \in Layer
    BY <2>1, <2>4 DEF File, Absent, Broken
  <2>. QED BY <1>2, <2>3, <2>5 DEF FileLayer
<1>. QED BY <1>1, <1>2 DEF FileLayer

\* What a process loads is of the settings' type.
LEMMA LoadedType ==
    ASSUME NEW e \in Layer, NEW l \in Layer
    PROVE  LoadSettings(e, FileSettings(l)) \in SettingsType
<1>1. ASSUME NEW a \in SwitchSource, NEW d \in BOOLEAN
      PROVE  TomlValue(a, d) \in BOOLEAN /\ EnvBool(a, d) \in BOOLEAN
  <2>1. TomlValue(a, d) \in BOOLEAN
    <3>1. CASE a \in {Unset, Garbled}
      BY <3>1 DEF TomlValue, Unset, Garbled
    <3>2. CASE a \in [kind : {"said"}, value : BOOLEAN]
      BY <3>2 DEF TomlValue
    <3>. QED BY <3>1, <3>2 DEF SwitchSource
  <2>2. EnvBool(a, d) \in BOOLEAN
    <3>1. (a = Said(TRUE)) \in BOOLEAN
      OBVIOUS
    <3>. QED BY <3>1 DEF EnvBool
  <2>. QED BY <2>1, <2>2
<1>2. ASSUME NEW a \in NumberSource, NEW d \in Int
      PROVE  TomlValue(a, d) \in Int /\ EnvInt(a, d) \in Int
  BY DEF TomlValue, EnvInt, NumberSource, Unset, Garbled
<1>3. ASSUME NEW m \in Layer
      PROVE  /\ m.redteam_enabled \in SwitchSource
             /\ m.allow_active_probes \in SwitchSource
             /\ m.enable_heavy_probes \in SwitchSource
             /\ m.max_tier \in NumberSource /\ m.human_gate_tier \in NumberSource
  BY DEF Layer
<1>4. /\ Default.redteam_enabled \in BOOLEAN
      /\ Default.allow_active_probes \in BOOLEAN
      /\ Default.enable_heavy_probes \in BOOLEAN
      /\ Default.max_tier \in Int /\ Default.human_gate_tier \in Int
  BY DEF Default
<1>5. FileSettings(l) \in SettingsType
  BY <1>1, <1>2, <1>3, <1>4 DEF FileSettings, SettingsType
<1>. DEFINE f == FileSettings(l)
<1>6. /\ f.redteam_enabled \in BOOLEAN /\ f.allow_active_probes \in BOOLEAN
      /\ f.enable_heavy_probes \in BOOLEAN
      /\ f.max_tier \in Int /\ f.human_gate_tier \in Int
  BY <1>5 DEF SettingsType
<1>. QED BY <1>1, <1>2, <1>3, <1>6 DEF LoadSettings, SettingsType

\* A switch that is on in what the process loaded was switched on in the
\* environment, or, with nothing there, in the file.
LEMMA OnWasSaid ==
    ASSUME NEW e \in Layer, NEW l \in Layer, NEW s, s = LoadSettings(e, FileSettings(l))
    PROVE  /\ s.redteam_enabled =>
                \/ e.redteam_enabled = Said(TRUE)
                \/ e.redteam_enabled = Unset /\ l.redteam_enabled = Said(TRUE)
           /\ s.allow_active_probes =>
                \/ e.allow_active_probes = Said(TRUE)
                \/ e.allow_active_probes = Unset /\ l.allow_active_probes = Said(TRUE)
           /\ s.enable_heavy_probes =>
                \/ e.enable_heavy_probes = Said(TRUE)
                \/ e.enable_heavy_probes = Unset /\ l.enable_heavy_probes = Said(TRUE)
<1>1. ASSUME NEW a \in SwitchSource, NEW b \in SwitchSource, EnvBool(a, TomlValue(b, FALSE))
      PROVE  a = Said(TRUE) \/ (a = Unset /\ b = Said(TRUE))
  BY <1>1 DEF EnvBool, TomlValue, SwitchSource, Said, Unset, Garbled
<1>2. /\ e.redteam_enabled \in SwitchSource /\ l.redteam_enabled \in SwitchSource
      /\ e.allow_active_probes \in SwitchSource /\ l.allow_active_probes \in SwitchSource
      /\ e.enable_heavy_probes \in SwitchSource /\ l.enable_heavy_probes \in SwitchSource
  BY DEF Layer
<1>3. /\ s.redteam_enabled = EnvBool(e.redteam_enabled, TomlValue(l.redteam_enabled, FALSE))
      /\ s.allow_active_probes
           = EnvBool(e.allow_active_probes, TomlValue(l.allow_active_probes, FALSE))
      /\ s.enable_heavy_probes
           = EnvBool(e.enable_heavy_probes, TomlValue(l.enable_heavy_probes, FALSE))
  BY DEF LoadSettings, FileSettings, Default
<1>. QED BY <1>1, <1>2, <1>3

-----------------------------------------------------------------------------
(* The invariant.                                                          *)

\* The settings in force.
Loaded == LoadSettings(env, FileSettings(FileLayer(files)))

\* A fetch of this target goes out.
CanFetch(t) ==
    /\ IsOwnedTarget(t)
    /\ ~Refuses(1)
    /\ fetcher = "live" => ActiveProbesAllowed

\* Every type but that of results, which the answers need.
Types ==
    /\ env \in Layer /\ env \in Environments
    /\ files \in Seq(File) /\ files \in FileLists
    /\ settings \in SettingsType
    /\ daemon \in BOOLEAN
    /\ phase \in {"start", "idle", "validating", "returned", "raised"}
    /\ fetcher \in {"live", "given", "none"}
    /\ targets \in Seq(Targets)
    /\ hypotheses \subseteq Templated
    /\ gaps \subseteq hypotheses
    /\ refused \subseteq {"RT-0", "RT-1"}
    /\ fetched \subseteq Targets
    /\ results \in Seq([target : Targets,
                        check : {"scope_refused", "refused", "http_security_headers"}])

\* The process acts on what it loaded, and only then; between exercises the
\* record is empty.
Quiet ==
    /\ phase # "start" => settings = Loaded
    /\ phase = "start" => asked = NotAsked
    /\ phase \in {"start", "idle"} => fetched = {} /\ results = <<>> /\ refused = {}

\* What went out was let out by the gate and the scope.
LetOut ==
    /\ \A t \in fetched : CanFetch(t)
    /\ asked.outcome = "sent" => IsAllowed(asked.tool, settings.enable_heavy_probes)

\* The results so far: one per target, a header check for those that can be
\* fetched, and the fetches are exactly those.
Answered ==
    /\ phase = "validating" => refused = {} /\ Len(results) <= Len(targets)
    /\ phase = "returned" /\ refused = {} => Len(results) = Len(targets) \/ targets = <<>>
    /\ phase \in {"validating", "returned"} =>
         /\ \A i \in 1..Len(results) :
              /\ results[i].target = targets[i]
              /\ results[i].check = "http_security_headers" <=> CanFetch(targets[i])
         /\ \A i \in 1..Len(results) : CanFetch(targets[i]) => targets[i] \in fetched

Inv == Types /\ Quiet /\ LetOut /\ Answered

LEMMA DefaultType == Default \in SettingsType
<1>1. FALSE \in BOOLEAN
  OBVIOUS
<1>. QED BY <1>1 DEF Default, SettingsType

LEMMA InitInv == Init => Inv
<1>. SUFFICES ASSUME Init PROVE Inv
  OBVIOUS
<1>. USE InputAssumption DEF Init
<1>1. Types
  <2>1. settings \in SettingsType
    BY Zenon, DefaultType
  <2>2. env \in Layer /\ files \in Seq(File)
    OBVIOUS
  <2>3. daemon \in BOOLEAN
    BY Zenon
  <2>. QED BY <2>1, <2>2, <2>3, SMT DEF Types
<1>2. Quiet
  BY DEF Quiet
<1>3. LetOut
  BY DEF LetOut, NotAsked
<1>4. Answered
  BY DEF Answered
<1>. QED BY <1>1, <1>2, <1>3, <1>4 DEF Inv

\* What CanFetch reads.
LEMMA CanFetchStable ==
    ASSUME UNCHANGED <<settings, fetcher>>, NEW t
    PROVE  CanFetch(t)' <=> CanFetch(t)
BY DEF CanFetch, IsOwnedTarget, Refuses, Allowed, ActiveProbesAllowed

LEMMA LoadInv == Inv /\ Load => Inv'
<1>. SUFFICES ASSUME Inv, Load PROVE Inv'
  OBVIOUS
<1>. USE DEF Inv, Load
<1>1. FileLayer(files) \in Layer
  BY FileLayerType DEF Types
<1>2. settings' \in SettingsType
  BY <1>1, LoadedType DEF Types
<1>3. Types'
  BY <1>2 DEF Types
<1>4. Quiet'
  BY DEF Quiet, Loaded
<1>5. LetOut'
  BY DEF LetOut, Quiet, NotAsked
<1>6. Answered'
  BY DEF Answered
<1>. QED BY <1>3, <1>4, <1>5, <1>6

LEMMA CallInv == ASSUME NEW tool PROVE Inv /\ CallTool(tool) => Inv'
<1>. SUFFICES ASSUME Inv, CallTool(tool) PROVE Inv'
  OBVIOUS
<1>. USE DEF Inv, CallTool, config
<1>1. Types'
  BY DEF Types
<1>2. Quiet'
  BY DEF Quiet, Loaded
<1>3. asked'.outcome = "sent" => IsAllowed(tool, settings.enable_heavy_probes)
  OBVIOUS
<1>4. LetOut'
  BY <1>3, CanFetchStable DEF LetOut
<1>5. Answered'
  BY DEF Answered
<1>. QED BY <1>1, <1>2, <1>4, <1>5

\* The two ways into the validator's loop, and the way past it.
LEMMA RunInv ==
    ASSUME NEW firing \in SUBSET Categories, NEW list \in Seq(Targets),
           NEW validator \in {"none", "live", "given"}
    PROVE  Inv /\ RunExercise(firing, list, validator) => Inv'
<1>. SUFFICES ASSUME Inv, RunExercise(firing, list, validator) PROVE Inv'
  OBVIOUS
<1>. USE DEF Inv, RunExercise, ModelAttackPaths, DetectionGaps, config
<1>1. Types'
  BY DEF Types
<1>2. Quiet'
  BY DEF Quiet, Loaded
<1>3. LetOut'
  BY DEF LetOut, NotAsked
<1>4. Answered'
  BY DEF Answered
<1>. QED BY <1>1, <1>2, <1>3, <1>4

LEMMA RunValidatorInv ==
    ASSUME NEW list \in Seq(Targets), NEW source \in {"live", "given"}
    PROVE  Inv /\ RunValidator(list, source) => Inv'
<1>. SUFFICES ASSUME Inv, RunValidator(list, source) PROVE Inv'
  OBVIOUS
<1>. USE DEF Inv, RunValidator, config
<1>1. Types'
  BY DEF Types
<1>2. Quiet'
  BY DEF Quiet, Loaded
<1>3. LetOut'
  BY DEF LetOut, Quiet, NotAsked
<1>4. Answered'
  BY DEF Answered, Quiet, Types
<1>. QED BY <1>1, <1>2, <1>3, <1>4

\* One more answer, the same for the three ways to answer.
LEMMA AnswerInv ==
    ASSUME Inv, phase = "validating", Len(results) < Len(targets),
           NEW check \in {"scope_refused", "refused", "http_security_headers"},
           check = "http_security_headers" <=> CanFetch(Target),
           Answer(check),
           fetched' = IF CanFetch(Target) THEN fetched \union {Target} ELSE fetched
    PROVE  Inv'
<1>. USE DEF Inv, config, Answer
<1>1. Len(results) \in Nat /\ Len(results) + 1 \in 1..Len(targets) /\ Target \in Targets
  BY DEF Types, Target
<1>2. Types'
  BY <1>1 DEF Types
<1>3. Quiet'
  BY DEF Quiet, Loaded
<1>4. LetOut'
  BY CanFetchStable DEF LetOut
<1>5. Len(results') = Len(results) + 1
  BY <1>1 DEF Types
<1>6. ASSUME NEW i \in 1..Len(results')
      PROVE  /\ results'[i].target = targets[i]
             /\ results'[i].check = "http_security_headers" <=> CanFetch(targets[i])
             /\ CanFetch(targets[i]) => targets[i] \in fetched'
  <2>1. CASE i = Len(results) + 1
    BY <1>1, <2>1 DEF Types, Target
  <2>2. CASE i \in 1..Len(results)
    <3>1. results'[i] = results[i]
      BY <2>2, <1>1 DEF Types
    <3>. QED BY <2>2, <3>1 DEF Answered
  <2>. QED BY <1>1, <1>5, <2>1, <2>2
<1>7. Answered'
  BY <1>1, <1>5, <1>6, CanFetchStable DEF Answered
<1>. QED BY <1>2, <1>3, <1>4, <1>7

LEMMA ValidateInv ==
    Inv /\ (RefuseTarget \/ RefuseFetch \/ Fetch \/ FetchRaises \/ Return \/ Finish) => Inv'
<1>1. ASSUME Inv, RefuseTarget PROVE Inv'
  <2>1. ~CanFetch(Target) /\ fetched' = fetched
    BY <1>1 DEF RefuseTarget, CanFetch
  <2>. QED BY <1>1, <2>1, AnswerInv DEF RefuseTarget
<1>2. ASSUME Inv, RefuseFetch PROVE Inv'
  <2>1. ~CanFetch(Target) /\ fetched' = fetched
    BY <1>2 DEF RefuseFetch, CanFetch
  <2>. QED BY <1>2, <2>1, AnswerInv DEF RefuseFetch
<1>3. ASSUME Inv, Fetch PROVE Inv'
  <2>1. CanFetch(Target)
    BY <1>3 DEF Fetch, MayFetch, CanFetch
  <2>. QED BY <1>3, <2>1, AnswerInv DEF Fetch, MayFetch
<1>4. ASSUME Inv, FetchRaises PROVE Inv'
  <2>. USE <1>4 DEF Inv, FetchRaises, config
  <2>1. CanFetch(Target) /\ Target \in Targets
    BY DEF MayFetch, CanFetch, Types, Target
  <2>2. Types'
    BY <2>1 DEF Types
  <2>3. Quiet'
    BY DEF Quiet, Loaded, MayFetch
  <2>4. LetOut'
    BY <2>1, CanFetchStable DEF LetOut
  <2>5. Answered'
    BY DEF Answered
  <2>. QED BY <2>2, <2>3, <2>4, <2>5
<1>5. ASSUME Inv, Return PROVE Inv'
  <2>. USE <1>5 DEF Inv, Return, config
  <2>1. Types'
    BY DEF Types
  <2>2. Quiet'
    BY DEF Quiet, Loaded
  <2>3. LetOut'
    BY CanFetchStable DEF LetOut
  <2>4. Answered'
    BY CanFetchStable DEF Answered
  <2>. QED BY <2>1, <2>2, <2>3, <2>4
<1>6. ASSUME Inv, Finish PROVE Inv'
  <2>. USE <1>6 DEF Inv, Finish, config
  <2>1. Types'
    BY DEF Types
  <2>2. Quiet'
    BY DEF Quiet, Loaded
  <2>3. LetOut'
    BY DEF LetOut
  <2>4. Answered'
    BY DEF Answered
  <2>. QED BY <2>1, <2>2, <2>3, <2>4
<1>. QED BY <1>1, <1>2, <1>3, <1>4, <1>5, <1>6

LEMMA StutterInv == Inv /\ UNCHANGED vars => Inv'
<1>. SUFFICES ASSUME Inv, UNCHANGED vars PROVE Inv'
  OBVIOUS
<1>. USE DEF Inv, vars
<1>1. Types'
  BY DEF Types
<1>2. Quiet'
  BY DEF Quiet, Loaded
<1>3. LetOut'
  BY CanFetchStable DEF LetOut
<1>4. Answered'
  BY CanFetchStable DEF Answered
<1>. QED BY <1>1, <1>2, <1>3, <1>4

LEMMA Invariance == Spec => []Inv
<1>1. Inv /\ [Next]_vars => Inv'
  <2>. SUFFICES ASSUME Inv, [Next]_vars PROVE Inv'
    OBVIOUS
  <2>1. \A list \in TargetLists : list \in Seq(Targets)
    BY InputAssumption DEF TargetLists
  <2>. QED
    BY <2>1, LoadInv, CallInv, RunInv, RunValidatorInv, ValidateInv, StutterInv DEF Next
<1>. QED BY <1>1, InitInv, PTL DEF Spec

-----------------------------------------------------------------------------
(* The theorems.                                                           *)

\* Every variable keeps its type: in particular the settings in force are
\* always booleans and integers, whatever the sources hold.
THEOREM ReachTypes == Spec => []TypeOK
<1>1. Inv => TypeOK
  BY DEF Inv, Types, TypeOK
<1>. QED BY <1>1, Invariance, PTL

\* Nothing leaves the process without the operator's yes.
THEOREM ReachNeedsOptIn == Spec => []ReachIsOptedIn
<1>1. Inv => ReachIsOptedIn
  <2>. SUFFICES ASSUME Inv PROVE ReachIsOptedIn
    OBVIOUS
  <2>. USE DEF Inv
  <2>. DEFINE l == FileLayer(files)
  <2>1. l \in Layer /\ env \in Layer
    BY FileLayerType DEF Types
  <2>2. phase # "start" => settings = LoadSettings(env, FileSettings(l))
    BY DEF Quiet, Loaded
  <2>3. ASSUME NEW i \in DOMAIN files, Opened(files, i), files[i].kind = "readable"
        PROVE  l = files[i].layer
    <3>. DEFINE o == CHOOSE j \in DOMAIN files : Opened(files, j)
    <3>1. o \in DOMAIN files /\ Opened(files, o)
      BY <2>3
    <3>2. o = i
      BY <2>3, <3>1 DEF Opened, Types
    <3>. QED BY <2>3, <3>2 DEF FileLayer
  <2>4. ASSUME NEW k \in Switches, l[k] = Said(TRUE), env[k] = Unset
        PROVE  OptedIn(k)
    <3>1. PICK i \in DOMAIN files : Opened(files, i) /\ files[i].kind = "readable"
      <4>1. EmptyLayer[k] = Unset
        BY DEF EmptyLayer, Switches
      <4>2. l # EmptyLayer
        BY <4>1, <2>4 DEF Unset, Said
      <4>. QED BY <4>2 DEF FileLayer
    <3>. QED BY <2>3, <2>4, <3>1 DEF OptedIn
  <2>5. phase # "start" =>
          /\ settings.redteam_enabled => OptedIn("redteam_enabled")
          /\ settings.allow_active_probes => OptedIn("allow_active_probes")
          /\ settings.enable_heavy_probes => OptedIn("enable_heavy_probes")
    BY <2>1, <2>2, <2>4, OnWasSaid DEF OptedIn, Switches
  <2>6. ASSUME fetched # {}
        PROVE  /\ OptedIn("redteam_enabled") /\ ~EnvForbidsRT1
               /\ fetcher = "live" => OptedIn("allow_active_probes")
               /\ fetched \subseteq (Listed \union InPrefix \union UnderDomain) \ Hostless
    <3>1. phase # "start"
      BY <2>6 DEF Quiet
    <3>2. PICK t \in fetched : CanFetch(t)
      BY <2>6 DEF LetOut
    <3>3. /\ settings.redteam_enabled
          /\ settings.max_tier >= 1 /\ settings.human_gate_tier > 1
          /\ fetcher = "live" => settings.allow_active_probes
      BY <3>2 DEF CanFetch, Refuses, Allowed, ActiveProbesAllowed, Types, SettingsType
    <3>4. ~EnvForbidsRT1
      <4>1. /\ settings.max_tier = EnvInt(env.max_tier, FileSettings(l).max_tier)
            /\ settings.human_gate_tier
                 = EnvInt(env.human_gate_tier, FileSettings(l).human_gate_tier)
        BY <2>2, <3>1 DEF LoadSettings
      <4>2. /\ env.max_tier.kind = "said" => env.max_tier.value >= 1
            /\ env.human_gate_tier.kind = "said" => env.human_gate_tier.value > 1
        BY <4>1, <3>3 DEF EnvInt
      <4>3. /\ env.max_tier.kind = "said" => env.max_tier.value \in Int
            /\ env.human_gate_tier.kind = "said" => env.human_gate_tier.value \in Int
        BY <2>1 DEF Layer, NumberSource, Unset, Garbled
      <4>. QED BY <4>2, <4>3 DEF EnvForbidsRT1
    <3>5. \A u \in fetched : u \in (Listed \union InPrefix \union UnderDomain) \ Hostless
      BY DEF LetOut, CanFetch, IsOwnedTarget
    <3>. QED BY <2>5, <3>1, <3>3, <3>4, <3>5
  <2>7. ASSUME asked.outcome = "sent"
        PROVE  /\ asked.tool \notin ForbiddenTools
               /\ asked.tool \in HeavyTools => OptedIn("enable_heavy_probes")
    <3>1. phase # "start"
      BY <2>7 DEF Quiet, NotAsked
    <3>. QED BY <2>5, <2>7, <3>1 DEF LetOut, IsAllowed
  <2>. QED BY <2>6, <2>7 DEF ReachIsOptedIn
<1>. QED BY <1>1, Invariance, PTL

\* Every target of an exercise that returns is answered.
THEOREM EveryTargetIsAnswered == Spec => []EveryTargetAnswered
<1>1. Inv => EveryTargetAnswered
  <2>. SUFFICES ASSUME Inv, phase = "returned", refused = {}, targets # <<>>
                PROVE  /\ Len(results) = Len(targets)
                       /\ \A i \in 1..Len(targets) :
                            /\ results[i].target = targets[i]
                            /\ results[i].check = "http_security_headers"
                                 <=> targets[i] \in fetched
    BY DEF EveryTargetAnswered
  <2>. USE DEF Inv
  <2>1. Len(results) = Len(targets)
    BY DEF Answered
  <2>2. ASSUME NEW i \in 1..Len(targets)
        PROVE  /\ results[i].target = targets[i]
               /\ results[i].check = "http_security_headers" <=> targets[i] \in fetched
    <3>1. i \in 1..Len(results)
      BY <2>1
    <3>. QED BY <3>1 DEF Answered, LetOut
  <2>. QED BY <2>1, <2>2
<1>. QED BY <1>1, Invariance, PTL
=============================================================================
