---------------------------- MODULE PostureScan ----------------------------
(***************************************************************************)
(* One scan of the posture engine (app/posture/scanner.py): scan() runs the*)
(* four checks one after the other over the hosts it is given, and each    *)
(* check turns MCP reads into findings. A read answers with a value, is    *)
(* refused (a result with ok = false) or raises. A value is what the       *)
(* network shows at the moment of the read; of configurations, peers,      *)
(* listeners and addresses only what a check tells apart is kept.          *)
(*                                                                         *)
(* The scan serves PostureLoop.run_once (a list of hosts) and the          *)
(* verification loop (one case's resource).                                *)
(***************************************************************************)
EXTENDS Naturals, Sequences

CONSTANTS
    Hosts,          \* the hosts the MCP daemon can reach
    CoreRouters,    \* core_routers of the golden manifest
    WgHosts,        \* the hosts with committed WireGuard configurations
    Domain,         \* the management domain
    Targets,        \* the host lists that are scanned
    Failures        \* how reads may fail: "refused", "raised"

ASSUME HostsAssumption == Domain \notin Hosts /\ CoreRouters \subseteq Hosts
ASSUME TargetsAssumption == Targets \subseteq Seq(Hosts \cup {Domain})
ASSUME FailuresAssumption == Failures \subseteq {"refused", "raised"}

VARIABLES
    target,     \* the hosts of this scan
    todo,       \* the checks left, host by host
    findings,   \* the findings reported so far
    degraded,   \* ScanContext.degraded
    failed,     \* history: the reads that failed, with their controls
    answers     \* history: the values read, with their controls

vars == <<target, todo, findings, degraded, failed, answers>>

Checks == <<"rpki_in_frr", "wireguard_hygiene", "dns_ownership", "listening_ports">>

\* Mutant of Control: the fingerprint's parts in the other order.
ControlByKey(check, key) == <<key, check, "all">>

\* A control, by what names it in the findings about it: the check, the host or
\* domain, and for WireGuard the part of the host's configuration.
Control(check, key) == <<check, key, "all">>
PlaintextKey(host) == <<"wireguard_hygiene", host, "plaintext-key">>
WgPeers(host) == <<"wireguard_hygiene", host, "peers">>

Finding(control, resource, passed) ==
    [control |-> control, resource |-> resource, passed |-> passed]

\* The hosts of a scan that count as core routers.
CoreOf(hosts) ==
    IF CoreRouters = {} THEN {hosts[i] : i \in 1..Len(hosts)} ELSE CoreRouters

\* Mutant of TasksOf: DNS is asked of every host, like the other checks.
TasksOfEveryHost(check, hosts) ==
    [i \in 1..Len(hosts) |-> [check |-> check, host |-> hosts[i]]]

\* The work of a check: a task per host, but for DNS one for the first host.
TasksOf(check, hosts) ==
    LET on == IF check = "dns_ownership" /\ hosts # <<>> THEN <<hosts[1]>> ELSE hosts
    IN  [i \in 1..Len(on) |-> [check |-> check, host |-> on[i]]]

\* ALL_CHECKS, over the hosts.
Plan(hosts) ==
    TasksOf(Checks[1], hosts) \o TasksOf(Checks[2], hosts)
      \o TasksOf(Checks[3], hosts) \o TasksOf(Checks[4], hosts)

Init ==
    /\ \E hosts \in Targets : target = hosts /\ todo = Plan(hosts)
    /\ findings = {}
    /\ degraded = FALSE
    /\ failed = {}
    /\ answers = {}

-----------------------------------------------------------------------------
(* Reads. A host the daemon does not know answers nothing. *)

Outcomes(host, values) == (IF host \in Hosts THEN values ELSE {}) \cup Failures

Answered(outcome) == outcome \notin {"refused", "raised"}

\* Mutant of Read: ctx._call swallows the exception and degrades nothing.
ReadSilently(control, host, outcomes) ==
    /\ degraded' = degraded
    /\ failed' = failed \cup
         {[control |-> control, host |-> host, how |-> o] : o \in {x \in outcomes : ~Answered(x)}}
    /\ answers' = answers \cup
         {[control |-> control, value |-> o] : o \in {x \in outcomes : Answered(x)}}

\* ctx._call: only a call that raises degrades the scan.
Read(control, host, outcomes) ==
    /\ degraded' = (degraded \/ "raised" \in outcomes)
    /\ failed' = failed \cup
         {[control |-> control, host |-> host, how |-> o] : o \in {x \in outcomes : ~Answered(x)}}
    /\ answers' = answers \cup
         {[control |-> control, value |-> o] : o \in {x \in outcomes : Answered(x)}}

\* What a task reports, after which the scan goes on.
Report(found) ==
    /\ findings' = findings \cup found
    /\ todo' = Tail(todo)
    /\ UNCHANGED target

NothingRead == UNCHANGED <<degraded, failed, answers>>

Turn(check, host) == todo # <<>> /\ Head(todo) = [check |-> check, host |-> host]

-----------------------------------------------------------------------------
(* The checks. *)

\* A router's BGP configuration: no eBGP neighbour; every one of them capped, and
\* either each filtered by its route-map or one of them not; or one uncapped.
BgpConfigs == {"no_ebgp", "filtered", "unfiltered", "uncapped"}

\* Every eBGP neighbour rejects RPKI-invalid routes and caps prefixes. A cache
\* that could not be read is not active.
RpkiPasses(config, cache) ==
    config = "filtered" \/ (config = "unfiltered" /\ cache = "active")

CheckRpki(host, config, cache) ==
    /\ Turn("rpki_in_frr", host)
    /\ LET control == Control("rpki_in_frr", host)
       IN  IF host \notin CoreOf(target)
             THEN NothingRead /\ Report({})
           ELSE IF ~Answered(config) \/ config = "no_ebgp"
             THEN Read(control, host, {config}) /\ Report({})
           ELSE /\ Read(control, host, {config, cache})
                /\ Report({Finding(control, host, RpkiPasses(config, cache))})

\* The committed key is read from the checkout, the peers from the host. No
\* finding says that a key is no longer committed.
CheckWireguard(host, committed, peers) ==
    /\ Turn("wireguard_hygiene", host)
    /\ IF host \notin CoreOf(target) \/ host \notin WgHosts
         THEN NothingRead /\ Report({})
         ELSE /\ Read(WgPeers(host), host, {peers})
              /\ Report((IF committed
                           THEN {Finding(PlaintextKey(host), host, FALSE)} ELSE {})
                        \cup
                        (IF Answered(peers)
                           THEN {Finding(WgPeers(host), host, peers = "match")} ELSE {}))

\* Mutant of DnsPasses: one owned address is enough.
DnsPassesAny(outcomes) == "owned" \in outcomes

DnsPasses(outcomes) == "foreign" \notin outcomes

\* The AAAA and the A records, asked of the first host; a read that fails adds no
\* address, and a domain without addresses is not reported.
CheckDns(host, aaaa, a) ==
    /\ Turn("dns_ownership", host)
    /\ LET control == Control("dns_ownership", Domain)
           outcomes == {aaaa, a}
       IN  /\ Read(control, host, outcomes)
           /\ Report(IF outcomes \cap {"owned", "foreign"} = {}
                       THEN {}
                       ELSE {Finding(control, Domain, DnsPasses(outcomes))})

CheckListeners(host, ports) ==
    /\ Turn("listening_ports", host)
    /\ LET control == Control("listening_ports", host)
       IN  /\ Read(control, host, {ports})
           /\ Report(IF Answered(ports)
                       THEN {Finding(control, host, ports = "allowlisted")} ELSE {})

\* A check raises (say, on a result it cannot parse): scan() drops what it has
\* found on every host, degrades the scan and goes on with the next check.
CheckCrashes ==
    /\ todo # <<>>
    /\ \E last \in {i \in 1..Len(todo) : todo[i].check = Head(todo).check} :
          /\ \A i \in (last + 1)..Len(todo) : todo[i].check # Head(todo).check
          /\ todo' = SubSeq(todo, last + 1, Len(todo))
    /\ findings' = {f \in findings : f.control[1] # Head(todo).check}
    /\ degraded' = TRUE
    /\ UNCHANGED <<target, failed, answers>>

\* The next scan, in a ScanContext of its own.
NextScan ==
    /\ todo = <<>>
    /\ \E hosts \in Targets : target' = hosts /\ todo' = Plan(hosts)
    /\ findings' = {}
    /\ degraded' = FALSE
    /\ failed' = {}
    /\ answers' = {}

Next ==
    \/ \E host \in Hosts \cup {Domain} :
        \/ \E config \in Outcomes(host, BgpConfigs),
              cache \in Outcomes(host, {"active", "inactive"}) :
              CheckRpki(host, config, cache)
        \/ \E committed \in BOOLEAN,
              peers \in Outcomes(host, {"match", "unknown", "missing"}) :
              CheckWireguard(host, committed, peers)
        \/ \E aaaa, a \in Outcomes(host, {"none", "owned", "foreign"}) :
              CheckDns(host, aaaa, a)
        \/ \E ports \in Outcomes(host, {"allowlisted", "untracked"}) :
              CheckListeners(host, ports)
    \/ CheckCrashes
    \/ NextScan

Spec == Init /\ [][Next]_vars

-----------------------------------------------------------------------------
(* Properties. *)

Ended == todo = <<>>

Reported(control) == \E f \in findings : f.control = control
Passing(control) == \E f \in findings : f.control = control /\ f.passed
Values(control) == {r.value : r \in {x \in answers : x.control = control}}
FailedHow(control) == {r.how : r \in {x \in failed : x.control = control}}

Scanned == {target[i] : i \in 1..Len(target)}
Core == IF CoreRouters = {} THEN Scanned ELSE CoreRouters \cap Scanned

\* The controls a scan of these hosts is about.
Scope ==
    {Control("rpki_in_frr", h) : h \in Core}
    \cup {WgPeers(h) : h \in Core \cap WgHosts}
    \cup {Control("listening_ports", h) : h \in Scanned}
    \cup (IF target = <<>> THEN {} ELSE {Control("dns_ownership", Domain)})

\* A router without eBGP neighbours and a domain without addresses are silent.
NothingToReport(control) == Values(control) \in {{"no_ebgp"}, {"none"}}

\* Every variable keeps its type.
TypeOK ==
    /\ target \in Targets
    /\ \A i \in 1..Len(todo) : todo[i] \in
          [check : {Checks[k] : k \in 1..4}, host : Hosts \cup {Domain}]
    /\ \A f \in findings :
          f.control[1] \in {Checks[k] : k \in 1..4} /\ f.passed \in BOOLEAN
    /\ degraded \in BOOLEAN
    /\ \A r \in failed : r.how \in Failures

\* scan()'s isolation of the checks and ctx._call together: a control in scope
\* that a scan says nothing about has nothing to report or was refused a read, or
\* the scan is degraded; an exception anywhere never makes a control vanish from
\* a scan that looks complete.
NoControlLost ==
    Ended =>
        \A c \in Scope :
            Reported(c) \/ degraded \/ NothingToReport(c) \/ "refused" \in FailedHow(c)

\* One verdict per control and scan, whichever check, host and record it comes
\* from: _verify_case takes the first match, and run_once folds them all.
OneVerdict == \A f, g \in findings : f.control = g.control => f = g

\* What a control reads as when it has drifted.
Drifted(control) ==
    \/ Values(control) \cap {"uncapped", "unknown", "missing", "foreign", "untracked"} # {}
    \/ "unfiltered" \in Values(control) /\ "active" \notin Values(control)

\* PostureVerificationLoop._verify_case folds a passing finding of a scan that is
\* not degraded: then no read of the control showed drift, none raised, and at
\* least one was answered.
VerifiedPassIsRead ==
    Ended /\ ~degraded =>
        \A c \in Scope :
            Passing(c) =>
                ~Drifted(c) /\ Values(c) # {} /\ "raised" \notin FailedHow(c)

-----------------------------------------------------------------------------
(* Claims of the documentation and of comments, checked against the code. *)

\* app/posture/__init__.py: "A failed read degrades the cycle (never a silent
\* pass)": a control one of whose reads failed does not pass in a scan that is
\* not degraded.
NeverSilentPass ==
    Ended => \A c \in Scope : Passing(c) /\ FailedHow(c) # {} => degraded

\* verification.py: the loop "targeted-re-scans the exact control for the case's
\* resource": a scan of a DNS case's resource, the domain, in which no read of a
\* host fails, reports the domain if it has addresses.
DnsCaseIsReRead ==
    Ended /\ target = <<Domain>> /\ ~degraded
        => Reported(Control("dns_ownership", Domain))
=============================================================================
