------------------------- MODULE PostureScanProofs -------------------------
(***************************************************************************)
(* What a scan of PostureScan can be trusted with, for every set of hosts, *)
(* host list and kind of failure: no control in scope vanishes from a scan *)
(* that is not degraded; and when no host is listed twice, a control has   *)
(* one verdict, and a pass of a scan that is not degraded was read.        *)
(***************************************************************************)
EXTENDS PostureScan, SequenceTheorems, TLAPS

CheckIds == {Checks[k] : k \in 1..4}

Jobs == [check : CheckIds, host : Hosts \cup {Domain}]

Elems(s) == {s[i] : i \in 1..Len(s)}

TypeInv == TypeOK /\ todo \in Seq(Jobs)

\* The controls a task may report on.
ControlsOf(task) ==
    IF task.check = "dns_ownership" THEN {Control("dns_ownership", Domain)}
    ELSE IF task.check = "wireguard_hygiene"
           THEN {PlaintextKey(task.host), WgPeers(task.host)}
           ELSE {Control(task.check, task.host)}

\* No two tasks of s report on the same control.
Apart(s) ==
    \A i, j \in 1..Len(s) : i # j => ControlsOf(s[i]) \cap ControlsOf(s[j]) = {}

\* No list of hosts names one of them twice.
HostsOnce ==
    \A hosts \in Targets : \A i, j \in 1..Len(hosts) : hosts[i] = hosts[j] => i = j

LEMMA Ids ==
  CheckIds = {"rpki_in_frr", "wireguard_hygiene", "dns_ownership", "listening_ports"}
  BY DEF CheckIds, Checks

\* A control names its check.
LEMMA ControlChecks ==
  ASSUME NEW task \in Jobs, NEW c \in ControlsOf(task) PROVE c[1] = task.check
  BY DEF ControlsOf, Control, PlaintextKey, WgPeers

-----------------------------------------------------------------------------
(* The plan of a scan. *)

LEMMA JoinedJobs ==
  ASSUME NEW s \in Seq(Jobs), NEW t \in Seq(Jobs)
  PROVE  /\ s \o t \in Seq(Jobs) /\ Elems(s \o t) = Elems(s) \cup Elems(t)
         /\ Len(s \o t) = Len(s) + Len(t) /\ Len(s) \in Nat /\ Len(t) \in Nat
         /\ \A i \in 1..Len(s) : (s \o t)[i] = s[i]
         /\ \A i \in 1..Len(t) : (s \o t)[Len(s) + i] = t[i]
<1> DEFINE r == s \o t
<1>1. /\ r \in Seq(Jobs) /\ Len(r) = Len(s) + Len(t) /\ Len(s) \in Nat /\ Len(t) \in Nat
      /\ \A i \in 1..(Len(s) + Len(t)) :
            r[i] = IF i <= Len(s) THEN s[i] ELSE t[i - Len(s)]
  BY ConcatProperties, LenProperties
<1> HIDE DEF r
<1>2. \A i \in 1..Len(s) : r[i] = s[i] /\ i \in 1..Len(r)
  BY <1>1
<1>3. \A i \in 1..Len(t) : r[Len(s) + i] = t[i] /\ Len(s) + i \in 1..Len(r)
  <2> TAKE i \in 1..Len(t)
  <2>1. Len(s) + i \in 1..(Len(s) + Len(t)) /\ ~(Len(s) + i <= Len(s))
        /\ (Len(s) + i) - Len(s) = i
    BY <1>1
  <2>2. QED
    BY <1>1, <2>1
<1>4. Elems(r) = Elems(s) \cup Elems(t)
  <2>1. Elems(s) \cup Elems(t) \subseteq Elems(r)
    BY <1>2, <1>3 DEF Elems
  <2>2. ASSUME NEW i \in 1..Len(r) PROVE r[i] \in Elems(s) \cup Elems(t)
    <3>1. i \in 1..Len(s) \/ i - Len(s) \in 1..Len(t)
      BY <1>1
    <3>2. CASE i \in 1..Len(s)
      BY <1>2, <3>2 DEF Elems
    <3>3. CASE i - Len(s) \in 1..Len(t)
      <4>1. Len(s) + (i - Len(s)) = i
        BY <1>1
      <4>2. QED
        BY <1>3, <3>3, <4>1 DEF Elems
    <3>4. QED
      BY <3>1, <3>2, <3>3
  <2>3. QED
    BY <2>1, <2>2 DEF Elems
<1>5. QED
  BY <1>1, <1>2, <1>3, <1>4 DEF r

LEMMA ElemsOfJobs ==
  ASSUME NEW s \in Seq(Jobs)
  PROVE  \A i \in 1..Len(s) : s[i] \in Jobs /\ s[i] \in Elems(s)
  BY ElementOfSeq DEF Elems

\* Tasks of different checks are apart.
LEMMA ApartJoined ==
  ASSUME NEW s \in Seq(Jobs), NEW t \in Seq(Jobs), Apart(s), Apart(t),
         \A x \in Elems(s), y \in Elems(t) : x.check # y.check
  PROVE  Apart(s \o t)
<1> DEFINE r == s \o t
           m == Len(s)
           n == Len(t)
<1>1. /\ Len(r) = m + n /\ m \in Nat /\ n \in Nat
      /\ \A i \in 1..m : r[i] = s[i]
      /\ \A i \in 1..n : r[m + i] = t[i]
  BY JoinedJobs
<1>2. ASSUME NEW i \in 1..m, NEW j \in 1..n
      PROVE  ControlsOf(s[i]) \cap ControlsOf(t[j]) = {}
  <2>1. s[i] \in Jobs /\ t[j] \in Jobs /\ s[i].check # t[j].check
    BY ElemsOfJobs
  <2>2. QED
    BY <2>1, ControlChecks
<1> HIDE DEF r
<1>3. SUFFICES ASSUME NEW i \in 1..(m + n), NEW j \in 1..(m + n), i # j
               PROVE  ControlsOf(r[i]) \cap ControlsOf(r[j]) = {}
  BY <1>1 DEF Apart, r
<1>4. \A k \in 1..(m + n) : k \in 1..m \/ (k - m \in 1..n /\ r[k] = t[k - m])
  <2> TAKE k \in 1..(m + n)
  <2>1. CASE k <= m
    BY <1>1, <2>1
  <2>2. CASE ~(k <= m)
    <3>1. k - m \in 1..n /\ m + (k - m) = k
      BY <1>1, <2>2
    <3>2. QED
      BY <1>1, <3>1
  <2>3. QED
    BY <2>1, <2>2
<1>5. CASE i \in 1..m /\ j \in 1..m
  BY <1>1, <1>3, <1>5 DEF Apart
<1>6. CASE i \in 1..m /\ j \notin 1..m
  BY <1>1, <1>2, <1>4, <1>6
<1>7. CASE i \notin 1..m /\ j \in 1..m
  BY <1>1, <1>2, <1>4, <1>7
<1>8. CASE i \notin 1..m /\ j \notin 1..m
  <2>1. i - m \in 1..n /\ j - m \in 1..n /\ r[i] = t[i - m] /\ r[j] = t[j - m]
    BY <1>4, <1>8
  <2>2. i - m # j - m
    BY <1>1, <1>3
  <2>3. QED
    BY <2>1, <2>2 DEF Apart
<1>9. QED
  BY <1>5, <1>6, <1>7, <1>8

Places == Hosts \cup {Domain}

LEMMA TasksFacts ==
  ASSUME NEW check \in CheckIds, NEW hosts \in Seq(Places)
  PROVE  LET s == TasksOf(check, hosts)
         IN  /\ s \in Seq(Jobs)
             /\ \A x \in Elems(s) : x.check = check
             /\ check # "dns_ownership" =>
                  \A i \in 1..Len(hosts) : [check |-> check, host |-> hosts[i]] \in Elems(s)
             /\ check = "dns_ownership" /\ hosts # <<>> => Elems(s) # {}
             /\ (\A i, j \in 1..Len(hosts) : hosts[i] = hosts[j] => i = j) => Apart(s)
<1> DEFINE on == IF check = "dns_ownership" /\ hosts # <<>> THEN <<hosts[1]>> ELSE hosts
           s == [i \in 1..Len(on) |-> [check |-> check, host |-> on[i]]]
<1>1. on \in Seq(Places) /\ Len(on) \in Nat
  <2>1. CASE check = "dns_ownership" /\ hosts # <<>>
    <3>1. 1 \in 1..Len(hosts)
      BY <2>1, EmptySeq
    <3>2. hosts[1] \in Places
      BY <3>1, ElementOfSeq
    <3>3. QED
      BY <2>1, <3>2
  <2>2. CASE ~(check = "dns_ownership" /\ hosts # <<>>)
    BY <2>2
  <2>3. QED
    BY <2>1, <2>2
<1>2. check = "dns_ownership" /\ hosts # <<>> => Len(on) = 1
  OBVIOUS
<1>3. check # "dns_ownership" => on = hosts
  OBVIOUS
<1>4. TasksOf(check, hosts) = s
  BY DEF TasksOf
<1>5. check = "dns_ownership" => Len(on) <= 1
  <2>1. CASE hosts = <<>>
    BY <2>1
  <2>2. QED
    BY <1>2, <2>1
<1> HIDE DEF on
<1>6. \A i \in 1..Len(on) : on[i] \in Places
  BY <1>1, ElementOfSeq
<1>7. s \in Seq(Jobs) /\ Len(s) = Len(on)
  <2>1. s \in [1..Len(on) -> Jobs]
    BY <1>6 DEF Jobs, Places
  <2> HIDE DEF s
  <2>2. QED
    BY <1>1, <2>1
<1>8. \A i \in 1..Len(on) : /\ s[i] = [check |-> check, host |-> on[i]]
                           /\ s[i].check = check /\ s[i].host = on[i]
  OBVIOUS
<1> HIDE DEF s
<1>9. \A x \in Elems(s) : x.check = check
  BY <1>7, <1>8 DEF Elems
<1>10. ASSUME check # "dns_ownership", NEW i \in 1..Len(hosts)
       PROVE  [check |-> check, host |-> hosts[i]] \in Elems(s)
  BY <1>3, <1>7, <1>8, <1>10 DEF Elems
<1>11. ASSUME check = "dns_ownership", hosts # <<>> PROVE Elems(s) # {}
  <2>1. 1 \in 1..Len(s)
    BY <1>2, <1>7, <1>11
  <2>2. QED
    BY <2>1 DEF Elems
<1>12. ASSUME \A i, j \in 1..Len(hosts) : hosts[i] = hosts[j] => i = j PROVE Apart(s)
  <2>1. SUFFICES ASSUME NEW i \in 1..Len(on), NEW j \in 1..Len(on), i # j
                 PROVE  ControlsOf(s[i]) \cap ControlsOf(s[j]) = {}
    BY <1>7 DEF Apart
  <2>2. check # "dns_ownership" /\ on[i] # on[j]
    <3>1. CASE check = "dns_ownership"
      BY <1>1, <1>5, <2>1, <3>1
    <3>2. CASE check # "dns_ownership"
      BY <1>3, <1>12, <2>1, <3>2
    <3>3. QED
      BY <3>1, <3>2
  <2>3. s[i].check = check /\ s[j].check = check /\ s[i].host # s[j].host
    BY <1>8, <2>2
  <2>4. QED
    BY <2>2, <2>3 DEF ControlsOf, Control, PlaintextKey, WgPeers
<1>13. QED
  BY <1>4, <1>7, <1>9, <1>10, <1>11, <1>12

\* scan() has every check on every host, and the domain asked of the first one.
LEMMA PlanFacts ==
  ASSUME NEW hosts \in Seq(Places)
  PROVE  /\ Plan(hosts) \in Seq(Jobs)
         /\ \A check \in CheckIds \ {"dns_ownership"}, i \in 1..Len(hosts) :
               [check |-> check, host |-> hosts[i]] \in Elems(Plan(hosts))
         /\ hosts # <<>> => \E x \in Elems(Plan(hosts)) : x.check = "dns_ownership"
         /\ (\A i, j \in 1..Len(hosts) : hosts[i] = hosts[j] => i = j) => Apart(Plan(hosts))
<1> DEFINE a == TasksOf("rpki_in_frr", hosts)
           b == TasksOf("wireguard_hygiene", hosts)
           c == TasksOf("dns_ownership", hosts)
           d == TasksOf("listening_ports", hosts)
           once == \A i, j \in 1..Len(hosts) : hosts[i] = hosts[j] => i = j
<1>1. /\ "rpki_in_frr" \in CheckIds /\ "wireguard_hygiene" \in CheckIds
      /\ "dns_ownership" \in CheckIds /\ "listening_ports" \in CheckIds
  BY Ids
<1>2. /\ a \in Seq(Jobs) /\ b \in Seq(Jobs) /\ c \in Seq(Jobs) /\ d \in Seq(Jobs)
      /\ once => Apart(a) /\ Apart(b) /\ Apart(c) /\ Apart(d)
  BY <1>1, TasksFacts
<1>3. /\ \A x \in Elems(a) : x.check = "rpki_in_frr"
      /\ \A x \in Elems(b) : x.check = "wireguard_hygiene"
      /\ \A x \in Elems(c) : x.check = "dns_ownership"
      /\ \A x \in Elems(d) : x.check = "listening_ports"
  BY <1>1, TasksFacts
<1>4. /\ \A i \in 1..Len(hosts) :
            /\ [check |-> "rpki_in_frr", host |-> hosts[i]] \in Elems(a)
            /\ [check |-> "wireguard_hygiene", host |-> hosts[i]] \in Elems(b)
            /\ [check |-> "listening_ports", host |-> hosts[i]] \in Elems(d)
      /\ hosts # <<>> => Elems(c) # {}
  BY <1>1, TasksFacts
<1>5. Plan(hosts) = ((a \o b) \o c) \o d
  BY DEF Plan, Checks
<1> HIDE DEF a, b, c, d, once
<1>6. a \o b \in Seq(Jobs) /\ Elems(a \o b) = Elems(a) \cup Elems(b)
  BY <1>2, JoinedJobs
<1>7. (a \o b) \o c \in Seq(Jobs) /\ Elems((a \o b) \o c) = Elems(a) \cup Elems(b) \cup Elems(c)
  BY <1>2, <1>6, JoinedJobs
<1>8. /\ Plan(hosts) \in Seq(Jobs)
      /\ Elems(Plan(hosts)) = Elems(a) \cup Elems(b) \cup Elems(c) \cup Elems(d)
  BY ZenonT(40), <1>2, <1>5, <1>7, JoinedJobs
<1>9. ASSUME once PROVE Apart(Plan(hosts))
  <2>1. Apart(a \o b)
    BY <1>2, <1>3, <1>9, ApartJoined
  <2>2. Apart((a \o b) \o c)
    BY <1>2, <1>3, <1>6, <1>9, <2>1, ApartJoined
  <2>3. QED
    BY <1>2, <1>3, <1>5, <1>7, <1>9, <2>2, ApartJoined
<1>10. QED
  BY <1>3, <1>4, <1>8, <1>9, Ids DEF once

-----------------------------------------------------------------------------
(* What is left of the plan. *)

LEMMA RestFacts ==
  ASSUME NEW s \in Seq(Jobs), NEW n \in 1..Len(s)
  PROVE  LET rest == SubSeq(s, n + 1, Len(s))
         IN  /\ rest \in Seq(Jobs)
             /\ \A i \in 1..Len(rest) : rest[i] = s[n + i] /\ n + i \in 1..Len(s)
             /\ Elems(rest) \subseteq Elems(s)
             /\ Apart(s) => Apart(rest)
<1> DEFINE rest == SubSeq(s, n + 1, Len(s))
<1>1. Len(s) \in Nat /\ n \in Nat /\ n + 1 \in Int /\ 1 <= n /\ n <= Len(s)
  BY LenProperties
<1>2. \A i \in (n + 1)..Len(s) : s[i] \in Jobs
  BY <1>1, ElementOfSeq
<1>3. /\ rest \in Seq(Jobs)
      /\ Len(rest) = IF n + 1 <= Len(s) THEN Len(s) - (n + 1) + 1 ELSE 0
      /\ \A i \in 1..(Len(s) - (n + 1) + 1) : rest[i] = s[(n + 1) + i - 1]
  BY <1>1, <1>2, SubSeqProperties
<1> HIDE DEF rest
<1>4. Len(rest) = Len(s) - n
  BY <1>1, <1>3
<1>5. ASSUME NEW i \in 1..Len(rest) PROVE rest[i] = s[n + i] /\ n + i \in 1..Len(s)
  <2>1. i \in 1..(Len(s) - (n + 1) + 1) /\ (n + 1) + i - 1 = n + i /\ n + i \in 1..Len(s)
    BY <1>1, <1>4
  <2>2. QED
    BY <1>3, <2>1
<1>6. Elems(rest) \subseteq Elems(s)
  BY <1>5 DEF Elems
<1>7. ASSUME Apart(s), NEW i \in 1..Len(rest), NEW j \in 1..Len(rest), i # j
      PROVE  ControlsOf(rest[i]) \cap ControlsOf(rest[j]) = {}
  <2>1. n + i # n + j
    BY <1>1, <1>4, <1>7
  <2>2. QED
    BY <1>5, <1>7, <2>1 DEF Apart
<1>8. Apart(s) => Apart(rest)
  BY <1>7 DEF Apart
<1>9. QED
  BY <1>3, <1>5, <1>6, <1>8 DEF rest

LEMMA TailFacts ==
  ASSUME NEW s \in Seq(Jobs), s # <<>>
  PROVE  /\ Head(s) \in Jobs /\ Tail(s) \in Seq(Jobs)
         /\ Elems(s) = {Head(s)} \cup Elems(Tail(s))
         /\ Apart(s) => /\ Apart(Tail(s))
                        /\ \A x \in Elems(Tail(s)) : ControlsOf(Head(s)) \cap ControlsOf(x) = {}
<1> DEFINE rest == Tail(s)
<1>1. Len(s) \in Nat \ {0} /\ 1 \in 1..Len(s)
  BY EmptySeq
<1>2. rest = SubSeq(s, 1 + 1, Len(s))
  BY TailIsSubSeq
<1>3. /\ rest \in Seq(Jobs)
      /\ \A i \in 1..Len(rest) : rest[i] = s[1 + i] /\ 1 + i \in 1..Len(s)
      /\ Elems(rest) \subseteq Elems(s)
      /\ Apart(s) => Apart(rest)
  <2> DEFINE n == 1
  <2>1. n \in 1..Len(s) /\ rest = SubSeq(s, n + 1, Len(s))
    BY <1>1, <1>2
  <2> HIDE DEF n, rest
  <2>2. /\ rest \in Seq(Jobs)
        /\ \A i \in 1..Len(rest) : rest[i] = s[n + i] /\ n + i \in 1..Len(s)
        /\ Elems(rest) \subseteq Elems(s)
        /\ Apart(s) => Apart(rest)
    BY <2>1, RestFacts
  <2>3. QED
    BY <2>2 DEF n
<1>4. Len(rest) = Len(s) - 1 /\ Head(s) = s[1] /\ s[1] \in Jobs
  BY <1>1, HeadTailProperties, ElementOfSeq
<1> HIDE DEF rest
<1>5. ASSUME NEW i \in 1..Len(s) PROVE s[i] \in {s[1]} \cup Elems(rest)
  <2>1. CASE i = 1
    BY <2>1
  <2>2. CASE i # 1
    <3>1. i - 1 \in 1..Len(rest) /\ 1 + (i - 1) = i
      BY <1>1, <1>4, <2>2
    <3>2. QED
      BY <1>3, <3>1 DEF Elems
  <2>3. QED
    BY <2>1, <2>2
<1>6. Elems(s) = {s[1]} \cup Elems(rest)
  <2>1. s[1] \in Elems(s)
    BY <1>1 DEF Elems
  <2>2. {s[1]} \cup Elems(rest) \subseteq Elems(s)
    BY <1>3, <2>1
  <2>3. Elems(s) \subseteq {s[1]} \cup Elems(rest)
    <3>1. ASSUME NEW x \in Elems(s) PROVE x \in {s[1]} \cup Elems(rest)
      <4>1. PICK i \in 1..Len(s) : x = s[i]
        BY DEF Elems
      <4>2. QED
        BY <1>5, <4>1
    <3>2. QED
      BY <3>1
  <2>4. QED
    BY <2>2, <2>3
<1>7. ASSUME Apart(s), NEW x \in Elems(rest) PROVE ControlsOf(s[1]) \cap ControlsOf(x) = {}
  <2>1. PICK i \in 1..Len(rest) : x = rest[i]
    BY DEF Elems
  <2>2. x = s[1 + i] /\ 1 + i \in 1..Len(s) /\ 1 # 1 + i
    BY <1>1, <1>3, <1>4, <2>1
  <2>3. QED
    BY <1>1, <1>7, <2>2 DEF Apart
<1>8. QED
  BY <1>3, <1>4, <1>6, <1>7 DEF rest

-----------------------------------------------------------------------------
(* Every check, by what it makes of the outcomes of its reads. *)

\* The outcomes that are answers, those of them that are no news, and drift.
Told(outcomes) == {o \in outcomes : Answered(o)}

Silence(check) ==
    IF check = "rpki_in_frr" THEN {"no_ebgp"}
    ELSE IF check = "dns_ownership" THEN {"none"} ELSE {}

DriftIn(values) ==
    \/ values \cap {"uncapped", "unknown", "missing", "foreign", "untracked"} # {}
    \/ "unfiltered" \in values /\ "active" \notin values

\* A task that reads one control reports on it unless a read of it failed or there
\* is nothing to say; it passes only what was answered and shows no drift.
Judges(task, control, outcomes, found) ==
    /\ control \in ControlsOf(task)
    /\ ControlsOf(task) \cap Scope \subseteq {control}
    /\ \A o \in outcomes : Answered(o) \/ o \in Failures
    /\ \A f \in found : f.control \in ControlsOf(task) /\ f.passed \in BOOLEAN
    /\ \A f, g \in found : f.control = g.control => f = g
    /\ \/ \E f \in found : f.control = control
       \/ outcomes \cap {"refused", "raised"} # {}
       \/ Told(outcomes) # {} /\ Told(outcomes) \subseteq Silence(task.check)
    /\ \A f \in found :
          f.passed => /\ f.control = control
                      /\ Told(outcomes) # {} /\ ~DriftIn(Told(outcomes))

\* The step of a task: out of scope, or with one control read.
Skips(task) ==
    /\ todo # <<>> /\ Head(todo) = task
    /\ Report({}) /\ NothingRead
    /\ ControlsOf(task) \cap Scope = {}

Works(task, control, outcomes, found) ==
    /\ todo # <<>> /\ Head(todo) = task
    /\ Report(found) /\ Read(control, task.host, outcomes)
    /\ Judges(task, control, outcomes, found)

Scans(task) == \E control, outcomes, found : Works(task, control, outcomes, found)

LEMMA ScopeOf ==
  ASSUME NEW host
  PROVE  /\ host \notin CoreOf(target) =>
               Control("rpki_in_frr", host) \notin Scope /\ WgPeers(host) \notin Scope
         /\ host \notin WgHosts => WgPeers(host) \notin Scope
         /\ PlaintextKey(host) \notin Scope
<1>1. Core \subseteq CoreOf(target)
  BY DEF Core, CoreOf, Scanned
<1>2. QED
  BY <1>1 DEF Scope, Control, WgPeers, PlaintextKey

LEMMA RpkiWorks ==
  ASSUME NEW host \in Places, NEW config \in Outcomes(host, BgpConfigs),
         NEW cache \in Outcomes(host, {"active", "inactive"}), CheckRpki(host, config, cache)
  PROVE  \E task \in Jobs : Skips(task) \/ Scans(task)
<1> DEFINE task == [check |-> "rpki_in_frr", host |-> host]
           control == Control("rpki_in_frr", host)
<1>1. /\ task \in Jobs /\ todo # <<>> /\ Head(todo) = task
      /\ task.check = "rpki_in_frr" /\ task.host = host
  BY Ids DEF CheckRpki, Turn, Jobs, Places
<1>2. ControlsOf(task) = {control}
  BY <1>1 DEF ControlsOf
<1>3. /\ config \in BgpConfigs \cup Failures /\ cache \in {"active", "inactive"} \cup Failures
      /\ Failures \subseteq {"refused", "raised"}
  BY FailuresAssumption DEF Outcomes
<1>4. CASE host \notin CoreOf(target)
  <2>1. Skips(task)
    BY <1>1, <1>2, <1>4, ScopeOf DEF CheckRpki, Skips
  <2>2. QED
    BY <1>1, <2>1
<1>5. CASE host \in CoreOf(target) /\ (~Answered(config) \/ config = "no_ebgp")
  <2>1. Read(control, host, {config}) /\ Report({})
    BY <1>5 DEF CheckRpki
  <2>2. Judges(task, control, {config}, {})
    BY <1>1, <1>2, <1>3, <1>5 DEF Judges, Told, Silence, Answered, BgpConfigs
  <2>3. QED
    BY <1>1, <2>1, <2>2 DEF Scans, Works
<1>6. CASE host \in CoreOf(target) /\ Answered(config) /\ config # "no_ebgp"
  <2> DEFINE f == Finding(control, host, RpkiPasses(config, cache))
  <2>1. Read(control, host, {config, cache}) /\ Report({f})
    BY <1>6 DEF CheckRpki
  <2>2. f.control = control /\ f.passed = RpkiPasses(config, cache)
    BY DEF Finding
  <2>3. RpkiPasses(config, cache) \in BOOLEAN
    BY DEF RpkiPasses
  <2>4. RpkiPasses(config, cache) =>
          Told({config, cache}) # {} /\ ~DriftIn(Told({config, cache}))
    BY <1>3, <1>6 DEF RpkiPasses, Told, DriftIn, Answered, BgpConfigs
  <2>5. \A o \in {config, cache} : Answered(o) \/ o \in Failures
    BY <1>3 DEF Answered, BgpConfigs
  <2> HIDE DEF f
  <2>6. Judges(task, control, {config, cache}, {f})
    BY <1>2, <2>2, <2>3, <2>4, <2>5 DEF Judges
  <2>7. QED
    BY <1>1, <2>1, <2>6 DEF Scans, Works
<1>7. QED
  BY <1>4, <1>5, <1>6

LEMMA WireguardWorks ==
  ASSUME NEW host \in Places, NEW committed \in BOOLEAN,
         NEW peers \in Outcomes(host, {"match", "unknown", "missing"}),
         CheckWireguard(host, committed, peers)
  PROVE  \E task \in Jobs : Skips(task) \/ Scans(task)
<1> DEFINE task == [check |-> "wireguard_hygiene", host |-> host]
           control == WgPeers(host)
           key == PlaintextKey(host)
<1>1. /\ task \in Jobs /\ todo # <<>> /\ Head(todo) = task
      /\ task.check = "wireguard_hygiene" /\ task.host = host
  BY Ids DEF CheckWireguard, Turn, Jobs, Places
<1>2. ControlsOf(task) = {key, control} /\ key # control /\ key \notin Scope
  BY <1>1, ScopeOf DEF ControlsOf, PlaintextKey, WgPeers
<1>3. /\ peers \in {"match", "unknown", "missing"} \cup Failures
      /\ Failures \subseteq {"refused", "raised"}
  BY FailuresAssumption DEF Outcomes
<1>4. CASE host \notin CoreOf(target) \/ host \notin WgHosts
  <2>1. Skips(task)
    BY <1>1, <1>2, <1>4, ScopeOf DEF CheckWireguard, Skips
  <2>2. QED
    BY <1>1, <2>1
<1>5. CASE host \in CoreOf(target) /\ host \in WgHosts
  <2> DEFINE f == Finding(key, host, FALSE)
             g == Finding(control, host, peers = "match")
             found == (IF committed THEN {f} ELSE {}) \cup (IF Answered(peers) THEN {g} ELSE {})
  <2>1. Read(control, host, {peers}) /\ Report(found)
    BY <1>5 DEF CheckWireguard
  <2>2. /\ f.control = key /\ f.passed = FALSE
        /\ g.control = control /\ g.passed = (peers = "match")
    BY DEF Finding
  <2>3. g.passed \in BOOLEAN
    BY <2>2
  <2>4. g.passed => Told({peers}) # {} /\ ~DriftIn(Told({peers}))
    BY <2>2 DEF Told, DriftIn, Answered
  <2>5. Answered(peers) \/ (peers \in Failures /\ peers \in {"refused", "raised"})
    BY <1>3 DEF Answered
  <2>6. found \subseteq {f, g} /\ (Answered(peers) => g \in found)
    OBVIOUS
  <2> HIDE DEF f, g, found
  <2>7. Judges(task, control, {peers}, found)
    BY ZenonT(40), <1>2, <2>2, <2>3, <2>4, <2>5, <2>6 DEF Judges
  <2>8. QED
    BY <1>1, <2>1, <2>7 DEF Scans, Works
<1>6. QED
  BY <1>4, <1>5

LEMMA DnsWorks ==
  ASSUME NEW host \in Places,
         NEW aaaa \in Outcomes(host, {"none", "owned", "foreign"}),
         NEW a \in Outcomes(host, {"none", "owned", "foreign"}), CheckDns(host, aaaa, a)
  PROVE  \E task \in Jobs : Scans(task)
<1> DEFINE task == [check |-> "dns_ownership", host |-> host]
           control == Control("dns_ownership", Domain)
           outcomes == {aaaa, a}
           f == Finding(control, Domain, DnsPasses(outcomes))
           found == IF outcomes \cap {"owned", "foreign"} = {} THEN {} ELSE {f}
<1>1. /\ task \in Jobs /\ todo # <<>> /\ Head(todo) = task
      /\ task.check = "dns_ownership" /\ task.host = host
  BY Ids DEF CheckDns, Turn, Jobs, Places
<1>2. ControlsOf(task) = {control}
  BY <1>1 DEF ControlsOf
<1>3. /\ outcomes \subseteq {"none", "owned", "foreign"} \cup Failures
      /\ Failures \subseteq {"refused", "raised"} /\ outcomes # {}
  BY FailuresAssumption DEF Outcomes
<1>4. Read(control, host, outcomes) /\ Report(found)
  BY DEF CheckDns
<1>5. f.control = control /\ f.passed = DnsPasses(outcomes) /\ DnsPasses(outcomes) \in BOOLEAN
  BY DEF Finding, DnsPasses
<1>6. found \subseteq {f} /\ (outcomes \cap {"owned", "foreign"} # {} => f \in found)
  OBVIOUS
<1>7. found # {} => outcomes \cap {"owned", "foreign"} # {}
  OBVIOUS
<1> HIDE DEF f, found, outcomes
<1>8. \A o \in outcomes : Answered(o) \/ o \in Failures
  BY <1>3 DEF Answered
<1>9. outcomes \cap {"owned", "foreign"} # {} /\ DnsPasses(outcomes) =>
        Told(outcomes) # {} /\ ~DriftIn(Told(outcomes))
  BY <1>3 DEF DnsPasses, Told, DriftIn, Answered
<1>10. \/ outcomes \cap {"owned", "foreign"} # {} \/ outcomes \cap {"refused", "raised"} # {}
       \/ Told(outcomes) # {} /\ Told(outcomes) \subseteq {"none"}
  BY <1>3 DEF Told, Answered
<1>11. Judges(task, control, outcomes, found)
  <2>1. Silence(task.check) = {"none"}
    BY <1>1 DEF Silence
  <2> HIDE DEF task, control
  <2>2. QED
    BY <1>2, <1>5, <1>6, <1>7, <1>8, <1>9, <1>10, <2>1 DEF Judges
<1>12. QED
  BY <1>1, <1>4, <1>11 DEF Scans, Works

LEMMA ListenersWorks ==
  ASSUME NEW host \in Places, NEW ports \in Outcomes(host, {"allowlisted", "untracked"}),
         CheckListeners(host, ports)
  PROVE  \E task \in Jobs : Scans(task)
<1> DEFINE task == [check |-> "listening_ports", host |-> host]
           control == Control("listening_ports", host)
           f == Finding(control, host, ports = "allowlisted")
           found == IF Answered(ports) THEN {f} ELSE {}
<1>1. /\ task \in Jobs /\ todo # <<>> /\ Head(todo) = task
      /\ task.check = "listening_ports" /\ task.host = host
  BY Ids DEF CheckListeners, Turn, Jobs, Places
<1>2. ControlsOf(task) = {control}
  BY <1>1 DEF ControlsOf
<1>3. /\ ports \in {"allowlisted", "untracked"} \cup Failures
      /\ Failures \subseteq {"refused", "raised"}
  BY FailuresAssumption DEF Outcomes
<1>4. Read(control, host, {ports}) /\ Report(found)
  BY DEF CheckListeners
<1>5. f.control = control /\ f.passed = (ports = "allowlisted") /\ f.passed \in BOOLEAN
  BY DEF Finding
<1>6. f.passed => Told({ports}) # {} /\ ~DriftIn(Told({ports}))
  BY <1>5 DEF Told, DriftIn, Answered
<1>7. Answered(ports) \/ (ports \in Failures /\ ports \in {"refused", "raised"})
  BY <1>3 DEF Answered
<1>8. found \subseteq {f} /\ (Answered(ports) => f \in found)
  OBVIOUS
<1> HIDE DEF f, found
<1>9. Judges(task, control, {ports}, found)
  BY <1>2, <1>5, <1>6, <1>7, <1>8 DEF Judges
<1>10. QED
  BY <1>1, <1>4, <1>9 DEF Scans, Works

LEMMA ScanSteps ==
  ASSUME [Next]_vars
  PROVE  \/ \E task \in Jobs : Skips(task) \/ Scans(task)
         \/ CheckCrashes \/ NextScan \/ UNCHANGED vars
  BY RpkiWorks, WireguardWorks, DnsWorks, ListenersWorks DEF Next, Places

\* What a read adds to what is known of a control, and of the others.
LEMMA ReadFacts ==
  ASSUME NEW control, NEW host, NEW outcomes, Read(control, host, outcomes), NEW c
  PROVE  /\ c # control => Values(c)' = Values(c) /\ FailedHow(c)' = FailedHow(c)
         /\ c = control => /\ Values(c)' = Values(c) \cup Told(outcomes)
                           /\ FailedHow(c)' = FailedHow(c) \cup {o \in outcomes : ~Answered(o)}
<1> DEFINE new == {[control |-> control, value |-> o] : o \in Told(outcomes)}
           bad == {o \in outcomes : ~Answered(o)}
           miss == {[control |-> control, host |-> host, how |-> o] : o \in bad}
<1>1. answers' = answers \cup new /\ failed' = failed \cup miss
  BY DEF Read, Told
<1>2. /\ \A r \in new : r.control = control /\ r.value \in Told(outcomes)
      /\ \A o \in Told(outcomes) : \E r \in new : r.control = control /\ r.value = o
  <2>1. ASSUME NEW r \in new PROVE r.control = control /\ r.value \in Told(outcomes)
    <3>1. PICK o \in Told(outcomes) : r = [control |-> control, value |-> o]
      OBVIOUS
    <3>2. QED
      BY <3>1
  <2>2. ASSUME NEW o \in Told(outcomes)
        PROVE  \E r \in new : r.control = control /\ r.value = o
    <3>1. [control |-> control, value |-> o] \in new
      OBVIOUS
    <3>2. QED
      BY <3>1
  <2>3. QED
    BY <2>1, <2>2
<1>3. /\ \A r \in miss : r.control = control /\ r.how \in bad
      /\ \A o \in bad : \E r \in miss : r.control = control /\ r.how = o
  <2> HIDE DEF bad
  <2>1. ASSUME NEW r \in miss PROVE r.control = control /\ r.how \in bad
    <3>1. PICK o \in bad : r = [control |-> control, host |-> host, how |-> o]
      OBVIOUS
    <3>2. QED
      BY <3>1
  <2>2. ASSUME NEW o \in bad PROVE \E r \in miss : r.control = control /\ r.how = o
    <3>1. [control |-> control, host |-> host, how |-> o] \in miss
      OBVIOUS
    <3>2. QED
      BY <3>1
  <2>3. QED
    BY <2>1, <2>2
<1> HIDE DEF new, miss, bad
<1>4. c # control => Values(c)' = Values(c) /\ FailedHow(c)' = FailedHow(c)
  BY <1>1, <1>2, <1>3 DEF Values, FailedHow
<1>5. c = control => Values(c)' = Values(c) \cup Told(outcomes)
  BY <1>1, <1>2 DEF Values
<1>6. c = control => FailedHow(c)' = FailedHow(c) \cup bad
  BY <1>1, <1>3 DEF FailedHow
<1>7. QED
  BY <1>4, <1>5, <1>6 DEF bad

-----------------------------------------------------------------------------
(* Types. *)

LEMMA ScanInit ==
  ASSUME NEW hosts \in Targets
  PROVE  /\ hosts \in Seq(Places) /\ Plan(hosts) \in Seq(Jobs)
         /\ \A i \in 1..Len(Plan(hosts)) : Plan(hosts)[i] \in Jobs
  BY TargetsAssumption, PlanFacts, ElementOfSeq DEF Places

LEMMA CrashFacts ==
  ASSUME TypeInv, CheckCrashes
  PROVE  /\ todo' \in Seq(Jobs) /\ Elems(todo') \subseteq Elems(todo)
         /\ Apart(todo) => Apart(todo')
         /\ findings' \subseteq findings /\ degraded' = TRUE
         /\ UNCHANGED <<target, failed, answers>>
<1>1. PICK n \in 1..Len(todo) : todo' = SubSeq(todo, n + 1, Len(todo))
  BY DEF CheckCrashes
<1>2. QED
  BY <1>1, RestFacts DEF TypeInv, CheckCrashes

LEMMA TypeInvInit == Init => TypeInv
  BY ScanInit DEF Init, TypeInv, TypeOK, Jobs, CheckIds

LEMMA TypeInvStep == TypeInv /\ [Next]_vars => TypeInv'
<1> SUFFICES ASSUME TypeInv, [Next]_vars PROVE TypeInv'
  OBVIOUS
<1>1. ASSUME todo' \in Seq(Jobs), target' \in Targets, degraded' \in BOOLEAN,
             \A f \in findings' : f.control[1] \in CheckIds /\ f.passed \in BOOLEAN,
             \A r \in failed' : r.how \in Failures
      PROVE  TypeInv'
  BY <1>1, ElementOfSeq DEF TypeInv, TypeOK, Jobs, CheckIds
<1>2. /\ todo \in Seq(Jobs) /\ target \in Targets /\ degraded \in BOOLEAN
      /\ \A f \in findings : f.control[1] \in CheckIds /\ f.passed \in BOOLEAN
      /\ \A r \in failed : r.how \in Failures
  BY DEF TypeInv, TypeOK, CheckIds
<1>3. ASSUME NEW task \in Jobs, Skips(task) PROVE TypeInv'
  BY <1>1, <1>2, <1>3, TailFacts DEF Skips, Report, NothingRead
<1>4. ASSUME NEW task \in Jobs, NEW control, NEW outcomes, NEW found,
             Works(task, control, outcomes, found)
      PROVE  TypeInv'
  <2>1. todo' \in Seq(Jobs) /\ target' = target
    BY <1>2, <1>4, TailFacts DEF Works, Report
  <2>2. degraded' \in BOOLEAN
    BY <1>2, <1>4 DEF Works, Read
  <2>3. \A f \in found : f.control[1] = task.check /\ f.passed \in BOOLEAN
    BY <1>4, ControlChecks DEF Works, Judges
  <2>4. \A f \in findings' : f.control[1] \in CheckIds /\ f.passed \in BOOLEAN
    BY <1>2, <1>4, <2>3 DEF Works, Report, Jobs
  <2>5. \A r \in failed' : r.how \in Failures
    BY <1>2, <1>4 DEF Works, Read, Judges
  <2>6. QED
    BY <1>1, <1>2, <2>1, <2>2, <2>4, <2>5
<1>5. CASE CheckCrashes
  BY <1>1, <1>2, <1>5, CrashFacts
<1>6. CASE NextScan
  BY <1>1, <1>6, ScanInit DEF NextScan
<1>7. CASE UNCHANGED vars
  BY <1>1, <1>2, <1>7 DEF vars
<1>8. QED
  BY <1>3, <1>4, <1>5, <1>6, <1>7, ScanSteps DEF Scans

\* Every variable keeps its type.
THEOREM ScanTypes == Spec => []TypeOK
<1>1. TypeInv => TypeOK
  BY DEF TypeInv
<1>2. QED
  BY <1>1, TypeInvInit, TypeInvStep, PTL DEF Spec

-----------------------------------------------------------------------------
(* No control is lost: what accounts for a control of the scope that has no *)
(* finding, while the scan goes on.                                         *)

Quiet(c) ==
    /\ Values(c) \subseteq Silence(c[1])
    /\ Values(c) # {} \/ \E x \in Elems(todo) : c \in ControlsOf(x)

Accounted(c) == Reported(c) \/ degraded \/ "refused" \in FailedHow(c) \/ Quiet(c)

LostInv == \A c \in Scope : Accounted(c)

\* A scan begins with a task for every control of its scope.
ScopePlanned ==
    \A c \in Scope : \E x \in Elems(Plan(target)) : c \in ControlsOf(x)

LEMMA TargetPlanned == target \in Targets => ScopePlanned
<1> SUFFICES ASSUME target \in Targets, NEW c \in Scope
             PROVE  \E x \in Elems(Plan(target)) : c \in ControlsOf(x)
  BY DEF ScopePlanned
<1> DEFINE hosts == target
<1>1. hosts \in Seq(Places)
  BY ScanInit
<1>2. ASSUME NEW check \in CheckIds \ {"dns_ownership"}, NEW h \in Scanned
      PROVE  \E x \in Elems(Plan(hosts)) : x.check = check /\ x.host = h
  <2>1. PICK i \in 1..Len(hosts) : h = hosts[i]
    BY DEF Scanned
  <2>2. [check |-> check, host |-> hosts[i]] \in Elems(Plan(hosts))
    BY <1>1, PlanFacts
  <2>3. QED
    BY <2>1, <2>2
<1>3. Core \subseteq Scanned
  BY DEF Core
<1>4. /\ "rpki_in_frr" \in CheckIds \ {"dns_ownership"}
      /\ "wireguard_hygiene" \in CheckIds \ {"dns_ownership"}
      /\ "listening_ports" \in CheckIds \ {"dns_ownership"}
  BY Ids
<1>5. CASE \E h \in Core : c = Control("rpki_in_frr", h)
  BY <1>2, <1>3, <1>4, <1>5 DEF ControlsOf
<1>6. CASE \E h \in Core \cap WgHosts : c = WgPeers(h)
  BY <1>2, <1>3, <1>4, <1>6 DEF ControlsOf
<1>7. CASE \E h \in Scanned : c = Control("listening_ports", h)
  BY <1>2, <1>4, <1>7 DEF ControlsOf
<1>8. CASE target # <<>> /\ c = Control("dns_ownership", Domain)
  BY <1>1, <1>8, PlanFacts DEF ControlsOf
<1>9. QED
  BY <1>5, <1>6, <1>7, <1>8 DEF Scope

LEMMA LostInvInit == Init => LostInv
<1> SUFFICES ASSUME Init, NEW c \in Scope PROVE Accounted(c)
  BY DEF LostInv
<1>1. target \in Targets /\ todo = Plan(target)
  BY DEF Init
<1>2. Values(c) = {}
  BY DEF Init, Values
<1>3. QED
  BY <1>1, <1>2, TargetPlanned DEF ScopePlanned, Accounted, Quiet

\* The scope is that of the hosts of the scan.
LEMMA ScopeKept == ASSUME target' = target PROVE Scope' = Scope
  BY DEF Scope, Core, Scanned

LEMMA LostInvStep == TypeInv /\ LostInv /\ [Next]_vars => LostInv'
<1> SUFFICES ASSUME TypeInv, LostInv, [Next]_vars PROVE LostInv'
  OBVIOUS
<1>1. ASSUME NEW task \in Jobs, Skips(task) PROVE LostInv'
  <2>1. /\ Scope' = Scope /\ findings' = findings /\ degraded' = degraded
        /\ failed' = failed /\ answers' = answers
    BY <1>1, ScopeKept DEF Skips, Report, NothingRead
  <2>2. Elems(todo) = {task} \cup Elems(todo')
    BY <1>1, TailFacts DEF Skips, Report, TypeInv
  <2>3. SUFFICES ASSUME NEW c \in Scope PROVE Accounted(c)'
    BY <2>1 DEF LostInv
  <2>4. Accounted(c) /\ c \notin ControlsOf(task)
    BY <1>1 DEF LostInv, Skips
  <2>5. /\ Reported(c)' = Reported(c) /\ Values(c)' = Values(c)
        /\ FailedHow(c)' = FailedHow(c)
    BY <2>1 DEF Reported, Values, FailedHow
  <2>6. Quiet(c) => Quiet(c)'
    BY <2>2, <2>4, <2>5 DEF Quiet
  <2>7. QED
    BY <2>1, <2>4, <2>5, <2>6 DEF Accounted
<1>2. ASSUME NEW task \in Jobs, NEW control, NEW outcomes, NEW found,
             Works(task, control, outcomes, found)
      PROVE  LostInv'
  <2>1. Scope' = Scope /\ findings' = findings \cup found
    BY <1>2, ScopeKept DEF Works, Report
  <2>2. degraded => degraded'
    BY <1>2 DEF Works, Read
  <2>3. Elems(todo) = {task} \cup Elems(todo')
    BY <1>2, TailFacts DEF Works, Report, TypeInv
  <2>4. SUFFICES ASSUME NEW c \in Scope PROVE Accounted(c)'
    BY <2>1 DEF LostInv
  <2>5. Accounted(c) /\ (Reported(c) => Reported(c)')
    BY <2>1 DEF LostInv, Reported
  <2>6. CASE c # control
    <3>1. Values(c)' = Values(c) /\ FailedHow(c)' = FailedHow(c)
      BY <1>2, <2>6, ReadFacts DEF Works
    <3>2. c \notin ControlsOf(task)
      BY <1>2, <2>6 DEF Works, Judges
    <3>3. Quiet(c) => Quiet(c)'
      BY <2>3, <3>1, <3>2 DEF Quiet
    <3>4. QED
      BY <2>2, <2>5, <3>1, <3>3 DEF Accounted
  <2>7. CASE c = control
    <3>1. /\ Values(c)' = Values(c) \cup Told(outcomes)
          /\ FailedHow(c)' = FailedHow(c) \cup {o \in outcomes : ~Answered(o)}
      BY <1>2, <2>7, ReadFacts DEF Works
    <3>2. c[1] = task.check
      BY <1>2, <2>7, ControlChecks DEF Works, Judges
    <3>3. CASE \E f \in found : f.control = control
      BY <2>1, <2>7, <3>3 DEF Reported, Accounted
    <3>4. CASE "refused" \in outcomes
      BY <3>1, <3>4 DEF Answered, Accounted
    <3>5. CASE "raised" \in outcomes
      BY <1>2, <3>5 DEF Works, Read, Accounted
    <3>6. CASE Told(outcomes) # {} /\ Told(outcomes) \subseteq Silence(task.check)
      <4>1. Quiet(c) => Quiet(c)'
        BY <3>1, <3>2, <3>6 DEF Quiet
      <4>2. QED
        BY <2>2, <2>5, <3>1, <4>1 DEF Accounted
    <3>7. QED
      BY <1>2, <3>3, <3>4, <3>5, <3>6 DEF Works, Judges
  <2>8. QED
    BY <2>6, <2>7
<1>3. CASE CheckCrashes
  BY <1>3, CrashFacts DEF LostInv, Accounted
<1>4. CASE NextScan
  <2>1. target' \in Targets /\ todo' = Plan(target')
    BY <1>4 DEF NextScan
  <2>2. SUFFICES ASSUME NEW c \in Scope' PROVE Accounted(c)'
    BY DEF LostInv
  <2>3. \E x \in Elems(todo') : c \in ControlsOf(x)
    <3>1. (target \in Targets => ScopePlanned)'
      BY TargetPlanned, PTL
    <3>2. QED
      BY <2>1, <3>1 DEF ScopePlanned
  <2>4. Values(c)' = {}
    BY <1>4 DEF NextScan, Values
  <2>5. QED
    BY <2>3, <2>4 DEF Accounted, Quiet
<1>5. CASE UNCHANGED vars
  <2>1. Scope' = Scope
    BY <1>5, ScopeKept DEF vars
  <2>2. QED
    BY <1>5, <2>1 DEF vars, LostInv, Accounted, Reported, FailedHow, Quiet, Values
<1>6. QED
  BY <1>1, <1>2, <1>3, <1>4, <1>5, ScanSteps DEF Scans

\* scan() with _call (app/posture/scanner.py), for any hosts, repeated or unknown,
\* and any failures: a control of the scope is reported, has nothing to report or
\* was refused a read, unless the scan is degraded.
THEOREM NoControlIsLost == Spec => []NoControlLost
<1>1. TypeInv /\ LostInv => NoControlLost
  <2> SUFFICES ASSUME LostInv, Ended, NEW c \in Scope
               PROVE  \/ Reported(c) \/ degraded \/ NothingToReport(c)
                      \/ "refused" \in FailedHow(c)
    BY DEF NoControlLost
  <2>1. Elems(todo) = {}
    BY DEF Ended, Elems
  <2>2. Quiet(c) => NothingToReport(c)
    BY <2>1 DEF Quiet, NothingToReport, Silence
  <2>3. QED
    BY <2>2 DEF LostInv, Accounted
<1>2. QED
  BY <1>1, LostInvInit, LostInvStep, TypeInvInit, TypeInvStep, PTL DEF Spec

-----------------------------------------------------------------------------
(* One verdict, and a pass that was read, when no host is listed twice. *)

\* Nothing was found or read yet of the controls that are still to be checked.
Untouched == \A x \in Elems(todo) : \A c \in ControlsOf(x) : ~Reported(c) /\ Values(c) = {}

\* What passed was read, and showed no drift.
PassesRead ==
    \A f \in findings : f.passed => Values(f.control) # {} /\ ~DriftIn(Values(f.control))

\* A read that raised degrades the scan.
RaisedDegrades == \A r \in failed : r.how = "raised" => degraded

VerdictInv == Apart(todo) /\ Untouched /\ OneVerdict /\ PassesRead /\ RaisedDegrades

LEMMA PlanApart == ASSUME HostsOnce PROVE \A hosts \in Targets : Apart(Plan(hosts))
  BY ScanInit, PlanFacts DEF HostsOnce

LEMMA VerdictInvInit == ASSUME HostsOnce PROVE Init => VerdictInv
  BY PlanApart
  DEF Init, VerdictInv, Untouched, Reported, Values, OneVerdict, PassesRead, RaisedDegrades

LEMMA VerdictInvWorks ==
  ASSUME TypeInv, VerdictInv, NEW task \in Jobs, NEW control, NEW outcomes, NEW found,
         Works(task, control, outcomes, found)
  PROVE  VerdictInv'
<1>1. todo # <<>> /\ Head(todo) = task /\ todo' = Tail(todo) /\ todo \in Seq(Jobs)
  BY DEF Works, Report, TypeInv
<1>2. /\ Apart(todo') /\ Elems(todo) = {task} \cup Elems(todo')
      /\ \A x \in Elems(todo') : ControlsOf(task) \cap ControlsOf(x) = {}
  BY <1>1, TailFacts DEF VerdictInv
<1>3. findings' = findings \cup found /\ Judges(task, control, outcomes, found)
  BY DEF Works, Report
<1>4. \A c \in ControlsOf(task) : ~Reported(c) /\ Values(c) = {}
  BY <1>2 DEF VerdictInv, Untouched
<1>5. /\ \A f \in found : f.control \in ControlsOf(task)
      /\ \A f \in findings : f.control \notin ControlsOf(task)
  BY <1>3, <1>4 DEF Judges, Reported
<1>6. ASSUME NEW c
      PROVE  /\ c # control => Values(c)' = Values(c)
             /\ c = control => Values(c)' = Values(c) \cup Told(outcomes)
  BY ReadFacts DEF Works
<1>7. Untouched'
  <2>1. SUFFICES ASSUME NEW x \in Elems(todo'), NEW c \in ControlsOf(x)
                 PROVE  ~Reported(c)' /\ Values(c)' = {}
    BY DEF Untouched
  <2>2. ~Reported(c) /\ Values(c) = {} /\ c \notin ControlsOf(task)
    BY <1>2 DEF VerdictInv, Untouched
  <2>3. c # control
    BY <1>3, <2>2 DEF Judges
  <2>4. QED
    BY <1>3, <1>5, <1>6, <2>2, <2>3 DEF Reported
<1>8. OneVerdict'
  BY <1>3, <1>5 DEF VerdictInv, OneVerdict, Judges
<1>9. PassesRead'
  <2>1. SUFFICES ASSUME NEW f \in findings', f.passed
                 PROVE  Values(f.control)' # {} /\ ~DriftIn(Values(f.control)')
    BY DEF PassesRead, DriftIn
  <2>2. CASE f \in found
    <3>1. f.control = control /\ Told(outcomes) # {} /\ ~DriftIn(Told(outcomes))
      BY <1>3, <2>1, <2>2 DEF Judges
    <3>2. Values(control) = {}
      BY <1>4, <1>5, <2>2, <3>1
    <3>3. Values(control)' = Told(outcomes)
      BY <1>6, <3>2
    <3>4. QED
      BY <3>1, <3>3
  <2>3. CASE f \in findings
    <3>1. f.control # control
      BY <1>3, <1>5, <2>3 DEF Judges
    <3>2. Values(f.control)' = Values(f.control)
      BY <1>6, <3>1
    <3>3. QED
      BY <2>1, <2>3, <3>2 DEF VerdictInv, PassesRead
  <2>4. QED
    BY <1>3, <2>1, <2>2, <2>3
<1>10. RaisedDegrades'
  <2>1. SUFFICES ASSUME NEW r \in failed', r.how = "raised" PROVE degraded'
    BY DEF RaisedDegrades
  <2>2. degraded' = (degraded \/ "raised" \in outcomes)
    BY DEF Works, Read
  <2>3. r \in failed \/ r.how \in outcomes
    BY DEF Works, Read
  <2>4. QED
    BY <2>1, <2>2, <2>3 DEF VerdictInv, RaisedDegrades
<1>11. QED
  BY <1>2, <1>7, <1>8, <1>9, <1>10 DEF VerdictInv

LEMMA VerdictInvStep ==
  ASSUME HostsOnce PROVE TypeInv /\ VerdictInv /\ [Next]_vars => VerdictInv'
<1> SUFFICES ASSUME TypeInv, VerdictInv, [Next]_vars PROVE VerdictInv'
  OBVIOUS
<1>1. ASSUME Apart(todo'), Elems(todo') \subseteq Elems(todo), findings' \subseteq findings,
             answers' = answers, failed' = failed, degraded => degraded'
      PROVE  VerdictInv'
  <2>1. \A c : Values(c)' = Values(c) /\ (Reported(c)' => Reported(c))
    BY <1>1 DEF Values, Reported
  <2>2. Untouched' /\ OneVerdict'
    BY <1>1, <2>1 DEF VerdictInv, Untouched, OneVerdict
  <2>3. PassesRead'
    BY <1>1, <2>1 DEF VerdictInv, PassesRead, DriftIn
  <2>4. RaisedDegrades'
    BY <1>1 DEF VerdictInv, RaisedDegrades
  <2>5. QED
    BY <1>1, <2>2, <2>3, <2>4 DEF VerdictInv
<1>2. ASSUME NEW task \in Jobs, Skips(task) PROVE VerdictInv'
  <2>1. todo # <<>> /\ todo' = Tail(todo) /\ todo \in Seq(Jobs)
    BY <1>2 DEF Skips, Report, TypeInv
  <2>2. Apart(todo') /\ Elems(todo') \subseteq Elems(todo)
    BY <2>1, TailFacts DEF VerdictInv
  <2>3. findings' = findings /\ answers' = answers /\ failed' = failed /\ degraded' = degraded
    BY <1>2 DEF Skips, Report, NothingRead
  <2>4. QED
    BY <1>1, <2>2, <2>3
<1>3. ASSUME NEW task \in Jobs, Scans(task) PROVE VerdictInv'
  BY <1>3, VerdictInvWorks DEF Scans
<1>4. CASE CheckCrashes
  BY <1>1, <1>4, CrashFacts DEF VerdictInv
<1>5. CASE NextScan
  BY <1>5, PlanApart
  DEF NextScan, VerdictInv, Untouched, Reported, Values, OneVerdict, PassesRead, RaisedDegrades
<1>6. CASE UNCHANGED vars
  BY <1>1, <1>6 DEF vars, VerdictInv
<1>7. QED
  BY <1>2, <1>3, <1>4, <1>5, <1>6, ScanSteps

\* _verify_case takes the first finding that matches, and run_once folds them all:
\* when no host is listed twice, they cannot disagree.
THEOREM VerdictsAreOne == ASSUME HostsOnce PROVE Spec => []OneVerdict
<1>1. VerdictInv => OneVerdict
  BY DEF VerdictInv
<1>2. QED
  BY <1>1, VerdictInvInit, VerdictInvStep, TypeInvInit, TypeInvStep, PTL DEF Spec

\* PostureVerificationLoop._verify_case: what it counts as a pass, a passing finding
\* of a scan that is not degraded, was read, without an exception and without a
\* value that shows drift, when no host is listed twice.
THEOREM PassesWereRead == ASSUME HostsOnce PROVE Spec => []VerifiedPassIsRead
<1>1. VerdictInv => VerifiedPassIsRead
  <2> SUFFICES ASSUME VerdictInv, ~degraded, NEW c, Passing(c)
               PROVE  ~Drifted(c) /\ Values(c) # {} /\ "raised" \notin FailedHow(c)
    BY DEF VerifiedPassIsRead
  <2>1. Values(c) # {} /\ ~DriftIn(Values(c))
    BY DEF Passing, VerdictInv, PassesRead
  <2>2. ~Drifted(c)
    BY <2>1 DEF Drifted, DriftIn
  <2>3. "raised" \notin FailedHow(c)
    BY DEF FailedHow, VerdictInv, RaisedDegrades
  <2>4. QED
    BY <2>1, <2>2, <2>3
<1>2. QED
  BY <1>1, VerdictInvInit, VerdictInvStep, TypeInvInit, TypeInvStep, PTL DEF Spec
=============================================================================
