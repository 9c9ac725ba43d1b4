------------------------------ MODULE McpRuntime ------------------------------
(***************************************************************************)
(* The tools a SOC process may ask the MCP daemon for                      *)
(* (src/app/mcp_runtime.py): the specialists' allowlists, the heavy probes *)
(* that need an opt-in, and the mutating tools refused to every caller.    *)
(* Tools of the allowlists that nothing in the scanner, the graph or this  *)
(* module's rules tells apart are all written out: which list holds which  *)
(* tool is what the module is about.                                       *)
(***************************************************************************)

TriageTools == {"icinga_list_problems", "icinga_get_host_state",
                "prometheus_list_targets", "prometheus_query"}
RoutingTools == {"frr_vtysh_cmd", "path_explain", "ecmp_path_select",
                 "prometheus_query", "socket_listeners"}
FirewallTools == {"firewall_state", "pf_log_tail", "nft_log_tail", "socket_listeners",
                  "ndp_state", "arp_state", "path_explain", "prometheus_query"}
CryptoTools == {"wg_show", "vault_agent_status", "socket_listeners",
                "os_service_status", "os_systemd_status", "os_rcctl_check"}
DnsTools == {"dns_dig", "knot_zone_status"}

HeavyTools == {"tcpdump_capture", "system_tcpdump", "dns_probe_burst", "multi_source_probe"}

ForbiddenTools == {"os_systemd_restart", "os_service_restart", "icinga_acknowledge_alert",
                   "ssh_run_command", "prepare_commit_confirm", "confirm_change",
                   "rollback_change"}

PostureTools == RoutingTools \union FirewallTools \union CryptoTools \union DnsTools
                  \union TriageTools

ReadOnlyTools == PostureTools \union HeavyTools

\* soc_allowlist: what a specialist (or, for any other name, the scanner) sees.
SpecialistTools(specialist) ==
    CASE specialist \in {"triage", "detection"} -> TriageTools
      [] specialist = "routing_security" -> RoutingTools
      [] specialist = "exposure" -> FirewallTools
      [] specialist = "crypto" -> CryptoTools
      [] specialist = "dns" -> DnsTools
      [] OTHER -> PostureTools

SocAllowlist(specialist, heavy) ==
    (SpecialistTools(specialist) \ (IF heavy THEN {} ELSE HeavyTools)) \ ForbiddenTools

\* SocMCPRuntime.is_allowed: what call_tool lets through.
IsAllowed(tool, heavy) ==
    /\ tool \notin ForbiddenTools
    /\ tool \in HeavyTools => heavy
    /\ tool \in ReadOnlyTools

\* The four reads of the posture scanner (ScanContext.frr, sockets, wg, dig).
ScannerTools == {"frr_vtysh_cmd", "socket_listeners", "wg_show", "dns_dig"}
=============================================================================
