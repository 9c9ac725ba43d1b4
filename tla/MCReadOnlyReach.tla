--------------------------- MODULE MCReadOnlyReach ---------------------------
(***************************************************************************)
(* An instance of ReadOnlyReach for TLC: environments and files in which   *)
(* every knob is said, garbled or missing, the red team's and the MCP      *)
(* runtime's one at a time.                                                *)
(***************************************************************************)
EXTENDS ReadOnlyReach

\* A layer that holds r where r says something, and nothing elsewhere.
With(r) == [k \in DOMAIN EmptyLayer |-> IF k \in DOMAIN r THEN r[k] ELSE Unset]

MCSwitch == {Unset, Garbled, Said(TRUE)}

MCEnvironments ==
    {With([redteam_enabled |-> a, allow_active_probes |-> b, max_tier |-> c]) :
        a \in MCSwitch \union {Said(FALSE)}, b \in MCSwitch, c \in {Unset, Garbled, Said(0)}}
    \union {With([redteam_enabled |-> Said(TRUE), human_gate_tier |-> g, max_tier |-> Said(3)]) :
              g \in {Said(1), Said(4)}}
    \union {With([enable_heavy_probes |-> h]) : h \in MCSwitch}

MCFiles ==
    {Absent, Broken,
     Readable(With([redteam_enabled |-> Said(TRUE), allow_active_probes |-> Said(TRUE)])),
     Readable(With([redteam_enabled |-> Garbled, enable_heavy_probes |-> Said(TRUE)])),
     Readable(With([redteam_enabled |-> Said(TRUE), max_tier |-> Said(0)]))}

\* An explicit SOC_AGENT_CONFIG, or the two default paths.
MCFileLists == [1..1 -> MCFiles] \union [1..2 -> MCFiles]
=============================================================================
