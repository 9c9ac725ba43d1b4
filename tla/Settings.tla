------------------------------- MODULE Settings -------------------------------
(***************************************************************************)
(* How the process reads its configuration (src/app/config.py): a SOC_*    *)
(* environment variable over the first configuration file that exists,     *)
(* over the built-in default.  A source holds a value the loader reads, a  *)
(* text it cannot read (a typo, a wrong type), or nothing (a blank         *)
(* variable counts as nothing).  The two layers treat a typo differently:  *)
(* in a file, and for a number or a mode, it gives way to a default; for a *)
(* switch in the environment it means "off", whatever the file says.       *)
(***************************************************************************)
EXTENDS Integers, Sequences

Unset == [kind |-> "unset"]
Garbled == [kind |-> "garbled"]
Said(v) == [kind |-> "said", value |-> v]

Switches == {"redteam_enabled", "allow_active_probes", "enable_heavy_probes"}

SwitchSource == {Unset, Garbled} \union [kind : {"said"}, value : BOOLEAN]
NumberSource == {Unset, Garbled} \union [kind : {"said"}, value : Int]

\* A layer: what the knobs that the red team and the MCP runtime read hold in
\* the environment, or in a file's tables.
Layer == [redteam_enabled : SwitchSource, allow_active_probes : SwitchSource,
          enable_heavy_probes : SwitchSource,
          max_tier : NumberSource, human_gate_tier : NumberSource]

EmptyLayer == [redteam_enabled |-> Unset, allow_active_probes |-> Unset,
               enable_heavy_probes |-> Unset, max_tier |-> Unset, human_gate_tier |-> Unset]

SettingsType == [redteam_enabled : BOOLEAN, allow_active_probes : BOOLEAN,
                 enable_heavy_probes : BOOLEAN, max_tier : Int, human_gate_tier : Int]

\* A candidate configuration file.
Absent == [kind |-> "absent"]
Broken == [kind |-> "broken"]
Readable(l) == [kind |-> "readable", layer |-> l]
File == {Absent, Broken} \union [kind : {"readable"}, layer : Layer]

Default == [redteam_enabled |-> FALSE, allow_active_probes |-> FALSE,
            enable_heavy_probes |-> FALSE, max_tier |-> 1, human_gate_tier |-> 2]

TomlValue(source, default) ==
    IF source.kind = "said" THEN source.value ELSE default

\* A mutated form of EnvBool (a bug it could have): a text that is no boolean
\* leaves the file's value, as it does for a number.
EnvBoolOrDefault(source, default) ==
    IF source.kind = "said" THEN source.value ELSE default

EnvBool(source, default) ==
    IF source.kind = "unset" THEN default ELSE source = Said(TRUE)

EnvInt(source, default) ==
    IF source.kind = "said" THEN source.value ELSE default

\* The file load_settings opens: the first that exists.  A broken one is not
\* passed over for the next: the defaults stand.
Opened(files, i) ==
    /\ files[i].kind # "absent"
    /\ \A j \in 1..i - 1 : files[j].kind = "absent"

FileLayer(files) ==
    IF \E i \in DOMAIN files : Opened(files, i) /\ files[i].kind = "readable"
    THEN files[CHOOSE i \in DOMAIN files : Opened(files, i)].layer
    ELSE EmptyLayer

FileSettings(layer) ==
    [redteam_enabled     |-> TomlValue(layer.redteam_enabled, Default.redteam_enabled),
     allow_active_probes |-> TomlValue(layer.allow_active_probes, Default.allow_active_probes),
     enable_heavy_probes |-> TomlValue(layer.enable_heavy_probes, Default.enable_heavy_probes),
     max_tier            |-> TomlValue(layer.max_tier, Default.max_tier),
     human_gate_tier     |-> TomlValue(layer.human_gate_tier, Default.human_gate_tier)]

\* load_soc_settings: the environment over base, the file's settings.
LoadSettings(env, base) ==
    [redteam_enabled     |-> EnvBool(env.redteam_enabled, base.redteam_enabled),
     allow_active_probes |-> EnvBool(env.allow_active_probes, base.allow_active_probes),
     enable_heavy_probes |-> EnvBool(env.enable_heavy_probes, base.enable_heavy_probes),
     max_tier            |-> EnvInt(env.max_tier, base.max_tier),
     human_gate_tier     |-> EnvInt(env.human_gate_tier, base.human_gate_tier)]

-----------------------------------------------------------------------------
(* The mode is a text: one that names no rung of the ladder is "shadow",   *)
(* in the file and again in the environment.                               *)

Modes == {"shadow", "case_only", "handoff_dry", "handoff_live"}

NormalizeMode(text) == IF text \in Modes THEN text ELSE "shadow"

\* "" is a blank or missing text.
LoadMode(envText, fileText) ==
    NormalizeMode(IF envText = "" THEN NormalizeMode(fileText) ELSE envText)

ModeOpensCases(mode) == mode \in {"case_only", "handoff_dry", "handoff_live"}
ModeBuildsHandoff(mode) == mode \in {"handoff_dry", "handoff_live"}
ModePostsHandoff(mode) == mode = "handoff_live"
=============================================================================
