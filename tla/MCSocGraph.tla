----------------------------- MODULE MCSocGraph -----------------------------
(* Small instances of SocGraph for TLC: a finding the scanner is sure of, one *)
(* it has read in the repository only, one it would hand nobody, one hinted;  *)
(* a model that says nothing, one that calls everything HIGH and sure.        *)
EXTENDS SocGraph

MCFindings ==
    {[category |-> "bgp_rpki", hint |-> "", severity |-> "HIGH",
      confidence |-> "confirmed", measured |-> TRUE, warrants |-> TRUE],
     [category |-> "wireguard", hint |-> "", severity |-> "HIGH",
      confidence |-> "confirmed", measured |-> FALSE, warrants |-> TRUE],
     [category |-> "other", hint |-> "unknown", severity |-> "MEDIUM",
      confidence |-> "low", measured |-> TRUE, warrants |-> FALSE],
     [category |-> "detection", hint |-> "crypto", severity |-> "LOW",
      confidence |-> "tentative", measured |-> FALSE, warrants |-> FALSE]}

MCAnswers ==
    {[severity |-> "UNKNOWN", confidence |-> "medium", warrants |-> FALSE],
     [severity |-> "HIGH", confidence |-> "confirmed", warrants |-> TRUE]}
=============================================================================
