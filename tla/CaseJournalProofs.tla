------------------------- MODULE CaseJournalProofs -------------------------
(***************************************************************************)
(* What the order of the puts gives CaseJournal, for any set of processes, *)
(* events and statuses and any threshold. Whatever overlaps, dies or tears *)
(* a line: a case on the handoff path is never stored before what it hands *)
(* off, and only the verification, or a process that loaded it resolved,   *)
(* resolves a case. With one process at a time: memory and files part only *)
(* in the records whose own last line was lost, and an event is            *)
(* acknowledged only once its update is stored. If no line is torn either, *)
(* the stored case is resolved only by a streak of stored passes           *)
(* (NoFalseAllClear).                                                      *)
(***************************************************************************)
EXTENDS CaseJournal, SequenceTheorems, TLAPS

\* The lines an operation may put: a case that exists, and the other records.
Lines ==
    [kind : {"case"}, value : {c \in Case : Exists(c)}, read : {"none", "pass", "fail"}]
    \cup [kind : {"handoff"}, value : UpdateStatuses, read : {"none"}]
    \cup [kind : {"objective"}, value : {"pending", "pass"}, read : {"none"}]
    \cup [kind : {"callbacks"}, value : Events, read : {"none"}]

TypeInv ==
    /\ TypeOK
    /\ pending \in [Procs -> Seq(Lines)]
    /\ \A p \in Procs : pending[p] # <<>> => p \in up

-----------------------------------------------------------------------------
(* What the operations of CaseService make of a case. *)

LEMMA Statuses ==
  /\ ActiveStatuses \subseteq CaseStatuses /\ Absent \notin CaseStatuses
  /\ HandoffPath \subseteq ActiveStatuses /\ "resolved" \notin ActiveStatuses
  /\ VerifiableStatuses \subseteq HandoffPath
  /\ Absent \notin UpdateStatuses
  BY DEF ActiveStatuses, CaseStatuses, TerminalStatuses, Absent, HandoffPath,
         VerifiableStatuses, UpdateStatuses, HandoffStatuses

\* _record_failing: the first put refreshes, reopens or opens the case, the second
\* triages it.
LEMMA RefreshedCase ==
  ASSUME NEW c \in Case
  PROVE  /\ Refreshed(c) \in Case /\ Exists(Refreshed(c))
         /\ Refreshed(c).status # "resolved"
         /\ Refreshed(c).status \in {c.status, "open"}
<1> DEFINE status == IF c.status \in TerminalStatuses \cup {Absent} THEN "open" ELSE c.status
<1>1. Refreshed(c) = [c EXCEPT !.status = status, !.last_scan_degraded = FALSE,
                               !.consecutive_pass_count = 0]
  BY DEF Refreshed, Case
<1>2. /\ status \in CaseStatuses /\ status # Absent /\ status # "resolved"
      /\ status \in {c.status, "open"}
  <2>1. c.status \in CaseStatuses \cup {Absent}
    BY DEF Case
  <2>2. "open" \in CaseStatuses /\ "resolved" \in TerminalStatuses /\ "open" # "resolved"
    BY DEF CaseStatuses, ActiveStatuses, TerminalStatuses
  <2>3. QED
    BY <2>1, <2>2, Statuses
<1> HIDE DEF status
<1>3. Refreshed(c) \in Case /\ Refreshed(c).status = status
  <2> DEFINE d == [c EXCEPT !.status = status, !.last_scan_degraded = FALSE]
  <2>1. d \in Case /\ d.status = status
    BY <1>2 DEF Case
  <2>2. Refreshed(c) = [d EXCEPT !.consecutive_pass_count = 0]
    BY <1>1 DEF Case
  <2> HIDE DEF d
  <2>3. QED
    BY <2>1, <2>2 DEF Case
<1>4. QED
  BY <1>2, <1>3 DEF Exists

LEMMA FailingCase ==
  ASSUME NEW c \in Case
  PROVE  /\ RecordFailing(c) \in Case /\ Exists(RecordFailing(c))
         /\ RecordFailing(c).status # "resolved"
         /\ RecordFailing(c).status \in {c.status, "open", "triaged"}
<1>1. CASE RecordFailing(c) = Refreshed(c)
  BY <1>1, RefreshedCase
<1>2. CASE RecordFailing(c) = [Refreshed(c) EXCEPT !.status = "triaged"]
  <2>1. "triaged" \in CaseStatuses /\ "triaged" # Absent
    BY DEF CaseStatuses, ActiveStatuses, Absent
  <2>2. QED
    BY <1>2, <2>1, RefreshedCase DEF Case, Exists
<1>3. QED
  BY <1>1, <1>2 DEF RecordFailing, Transition

LEMMA PassingCase ==
  ASSUME NEW c \in Case
  PROVE  RecordPassing(c) \in Case /\ RecordPassing(c).status = c.status
<1>1. c.consecutive_pass_count + 1 \in Nat
  BY DEF Case
<1>2. QED
  BY <1>1 DEF RecordPassing, Case

LEMMA DegradedCase ==
  ASSUME NEW c \in Case
  PROVE  NoteScanDegraded(c) \in Case /\ NoteScanDegraded(c).status = c.status
  BY DEF NoteScanDegraded, Case

LEMMA HandedOffCase ==
  ASSUME NEW c \in Case
  PROVE  /\ HandedOff(c) \in Case /\ Exists(HandedOff(c))
         /\ HandedOff(c).status # "resolved"
<1> DEFINE status == IF c.status \in {"handoff_requested", "handoff_in_progress"}
                       THEN c.status ELSE "handoff_requested"
<1>1. status \in CaseStatuses /\ status # "resolved" /\ status # Absent
  BY DEF CaseStatuses, ActiveStatuses, Absent
<1>2. HandedOff(c) = [c EXCEPT !.status = status, !.handoff_linked = TRUE,
                               !.handoff_status = "requested"]
  BY DEF HandedOff, Case
<1>3. "requested" \in HandoffStatuses
  BY DEF HandoffStatuses
<1> HIDE DEF status
<1>4. QED
  BY ZenonT(40), <1>1, <1>2, <1>3 DEF Case, Exists

LEMMA VerifiedCase ==
  ASSUME NEW c \in Case, VerifierResolves(c)
  PROVE  Verified(c) \in Case /\ Verified(c).status = "resolved"
<1> DEFINE status == IF c.handoff_linked THEN "resolved" ELSE c.handoff_status
<1>1. Verified(c) = [c EXCEPT !.status = "resolved", !.handoff_status = status]
  BY DEF Verified, Case
<1>2. "resolved" \in CaseStatuses /\ status \in HandoffStatuses \cup {Absent}
  BY DEF CaseStatuses, TerminalStatuses, HandoffStatuses, Case
<1> HIDE DEF status
<1>3. QED
  BY <1>1, <1>2 DEF Case

\* record_engineering_update mirrors the status, and moves a case to the handoff
\* path, or to resolved, only if it is there.
LEMMA UpdatedCase ==
  ASSUME NEW c \in Case, Exists(c), NEW update \in Updates
  PROVE  LET u == EngineeringUpdated(c, update)
         IN  /\ u \in Case /\ Exists(u) /\ u.handoff_status = update.status
             /\ u.status \in HandoffPath => c.status \in HandoffPath
             /\ u.status = "resolved" => c.status = "resolved"
<1> DEFINE target == UpdateTarget(update)
           moves == target # Absent /\ AllowedTransition(c.status, target, "engineering")
           status == IF moves THEN target ELSE c.status
<1>1. target \in {"handoff_in_progress", "verification_pending", "blocked", "failed",
                  "needs_human", Absent}
  BY DEF UpdateTarget, HandoffToCaseStatus, Updates
<1>2. update.status \in HandoffStatuses
  BY SentStatusesAssumption DEF Updates, UpdateStatuses
<1>3. c.status \in CaseStatuses
  BY DEF Case, Exists
<1>4. status \in CaseStatuses
  BY <1>1, <1>3 DEF CaseStatuses, ActiveStatuses
<1>5. status = "resolved" => c.status = "resolved"
  BY <1>1 DEF Absent
<1>6. status \in HandoffPath => c.status \in HandoffPath
  <2>1. CASE moves /\ target \in HandoffPath
    <3>1. c.status = target \/ target \in AllowedTransitions[c.status]
      BY <1>1, <2>1 DEF AllowedTransition, VerifierOnlyStatuses, Absent
    <3>2. target \in {"handoff_in_progress", "verification_pending"}
      BY <1>1, <2>1 DEF HandoffPath, Absent
    <3>3. QED
      BY <1>3, <3>1, <3>2
      DEF AllowedTransitions, HandoffPath, CaseStatuses, ActiveStatuses, TerminalStatuses
  <2>2. QED
    BY <2>1
<1>7. EngineeringUpdated(c, update) =
        [c EXCEPT !.status = status, !.handoff_status = update.status]
  BY DEF EngineeringUpdated, Case
<1> HIDE DEF status
<1>8. QED
  BY ZenonT(40), <1>2, <1>4, <1>5, <1>6, <1>7, Statuses DEF Case, Exists

-----------------------------------------------------------------------------
(* The puts of the operations. *)

LEMMA CaseLineType ==
  ASSUME NEW c \in Case, Exists(c), NEW read \in {"none", "pass", "fail"}
  PROVE  /\ CaseLine(c, read) \in Lines
         /\ CaseLine(c, read).kind = "case" /\ CaseLine(c, read).value = c
  BY DEF CaseLine, Lines

LEMMA OtherLineTypes ==
  /\ \A v \in UpdateStatuses : /\ Line("handoff", v) \in Lines
                               /\ Line("handoff", v).kind = "handoff"
                               /\ Line("handoff", v).value = v
  /\ \A v \in {"pending", "pass"} : /\ Line("objective", v) \in Lines
                                    /\ Line("objective", v).kind = "objective"
  /\ \A v \in Events : /\ Line("callbacks", v) \in Lines
                       /\ Line("callbacks", v).kind = "callbacks"
                       /\ Line("callbacks", v).value = v
  BY DEF Line, Lines

LEMMA LineTypes ==
  ASSUME NEW line \in Lines
  PROVE  /\ line.kind \in Kinds /\ line.read \in {"none", "pass", "fail"}
         /\ line.kind = "case" => line.value \in Case /\ Exists(line.value)
         /\ line.kind = "handoff" => line.value \in UpdateStatuses
         /\ line.kind = "objective" => line.value \in {"pending", "pass"}
         /\ line.kind = "callbacks" => line.value \in Events
         /\ RecordOf(line) \in Records
         /\ line.kind # "callbacks" => RecordOf(line) = line.kind
         /\ line.kind = "callbacks" =>
              RecordOf(line) = line.value /\ RecordOf(line) \notin {"case", "handoff", "objective"}
<1>1. /\ line.kind \in Kinds /\ line.read \in {"none", "pass", "fail"}
      /\ line.kind = "case" => line.value \in Case /\ Exists(line.value)
      /\ line.kind = "handoff" => line.value \in UpdateStatuses
      /\ line.kind = "objective" => line.value \in {"pending", "pass"}
      /\ line.kind = "callbacks" => line.value \in Events
  BY DEF Lines, Kinds
<1>2. QED
  BY <1>1, EventsAssumption DEF RecordOf, Records, Kinds

LEMMA Joined ==
  ASSUME NEW s \in Seq(Lines), NEW t \in Seq(Lines)
  PROVE  /\ s \o t \in Seq(Lines) /\ Len(s \o t) = Len(s) + Len(t)
         /\ Len(s) \in Nat /\ Len(t) \in Nat
         /\ \A i \in 1..Len(s) : (s \o t)[i] = s[i]
         /\ \A i \in 1..Len(t) : (s \o t)[Len(s) + i] = t[i]
  BY ConcatProperties, LenProperties

LEMMA Tuples ==
  ASSUME NEW a \in Lines, NEW b \in Lines
  PROVE  /\ <<>> \in Seq(Lines) /\ Len(<<>>) = 0
         /\ <<a>> \in Seq(Lines) /\ Len(<<a>>) = 1 /\ <<a>>[1] = a
         /\ <<a, b>> \in Seq(Lines) /\ Len(<<a, b>>) = 2
         /\ <<a, b>>[1] = a /\ <<a, b>>[2] = b
  OBVIOUS

\* Puts of cases and objectives that move a case neither to the handoff path nor,
\* but in the verification, to resolved.
Plain(p, s) ==
    /\ s \in Seq(Lines)
    /\ \A i \in 1..Len(s) :
          /\ s[i].kind \in {"case", "objective"}
          /\ s[i].kind = "case" =>
                /\ s[i].value.status \in HandoffPath => mem[p].case.status \in HandoffPath
                /\ s[i].value.status = "resolved" => p = Verify

LEMMA PlainJoined ==
  ASSUME NEW p, NEW s, NEW t, Plain(p, s), Plain(p, t) PROVE Plain(p, s \o t)
<1>1. s \in Seq(Lines) /\ t \in Seq(Lines)
  BY DEF Plain
<1>2. ASSUME NEW i \in 1..Len(s \o t)
      PROVE  \/ \E j \in 1..Len(s) : (s \o t)[i] = s[j]
             \/ \E j \in 1..Len(t) : (s \o t)[i] = t[j]
  <2>1. CASE i <= Len(s)
    BY <1>1, <2>1, Joined
  <2>2. CASE ~(i <= Len(s))
    <3>1. i - Len(s) \in 1..Len(t) /\ i = Len(s) + (i - Len(s))
      BY <1>1, <2>2, Joined
    <3>2. QED
      BY <1>1, <3>1, Joined
  <2>3. QED
    BY <2>1, <2>2
<1>3. QED
  BY <1>1, <1>2, Joined DEF Plain

LEMMA PlainFailing ==
  ASSUME NEW p, mem[p].case \in Case
  PROVE  LET s == FailingPuts(mem[p].case)
         IN  Plain(p, s) /\ Len(s) \in Nat \ {0} /\ s[1].kind = "case"
<1> DEFINE c == mem[p].case
           a == CaseLine(Refreshed(c), "fail")
           b == CaseLine(RecordFailing(c), "fail")
<1>1. /\ a \in Lines /\ a.kind = "case" /\ a.value = Refreshed(c)
      /\ b \in Lines /\ b.kind = "case" /\ b.value = RecordFailing(c)
  BY RefreshedCase, FailingCase, CaseLineType
<1>2. /\ Refreshed(c).status \in HandoffPath => c.status \in HandoffPath
      /\ RecordFailing(c).status \in HandoffPath => c.status \in HandoffPath
      /\ Refreshed(c).status # "resolved" /\ RecordFailing(c).status # "resolved"
  BY RefreshedCase, FailingCase DEF HandoffPath
<1>3. FailingPuts(c) = <<a>> \/ FailingPuts(c) = <<a, b>>
  BY DEF FailingPuts
<1> HIDE DEF a, b
<1>4. CASE FailingPuts(c) = <<a>>
  BY <1>1, <1>2, <1>4, Tuples DEF Plain
<1>5. CASE FailingPuts(c) = <<a, b>>
  <2>1. /\ <<a, b>> \in Seq(Lines) /\ Len(<<a, b>>) = 2
        /\ <<a, b>>[1] = a /\ <<a, b>>[2] = b
    BY <1>1, Tuples
  <2>2. \A i \in 1..2 : <<a, b>>[i] = a \/ <<a, b>>[i] = b
    BY <2>1
  <2>3. QED
    BY <1>1, <1>2, <1>5, <2>1, <2>2 DEF Plain
<1>6. QED
  BY <1>3, <1>4, <1>5

LEMMA PlainPassing ==
  ASSUME NEW p, mem[p].case \in Case PROVE Plain(p, PassingPuts(mem[p].case))
<1> DEFINE c == mem[p].case
           a == CaseLine(RecordPassing(c), "pass")
<1>1. CASE c.status \in ActiveStatuses
  <2>1. a \in Lines /\ a.kind = "case" /\ a.value.status = c.status /\ c.status # "resolved"
    BY <1>1, PassingCase, CaseLineType, Statuses DEF Exists
  <2>2. PassingPuts(c) = <<a>>
    BY <1>1 DEF PassingPuts
  <2> HIDE DEF a
  <2>3. QED
    BY <2>1, <2>2, Tuples DEF Plain
<1>2. CASE c.status \notin ActiveStatuses
  BY <1>2, EmptySeq DEF Plain, PassingPuts
<1>3. QED
  BY <1>1, <1>2

LEMMA PlainVerifier ==
  ASSUME NEW p, p = Verify, NEW store, NEW c \in Case PROVE Plain(p, VerifierPuts(store, c))
<1> DEFINE a == CaseLine(Verified(c), "none")
           b == Line("objective", "pass")
<1>1. CASE VerifierResolves(c)
  <2>1. a \in Lines /\ a.kind = "case" /\ a.value.status = "resolved"
    BY <1>1, VerifiedCase, CaseLineType DEF Exists, Absent
  <2>2. b \in Lines /\ b.kind = "objective" /\ "resolved" \notin HandoffPath
    BY OtherLineTypes DEF HandoffPath
  <2> HIDE DEF a, b
  <2>3. Plain(p, <<a>>) /\ Plain(p, <<b>>) /\ Plain(p, <<>>)
    BY <2>1, <2>2, Tuples DEF Plain
  <2>4. VerifierPuts(store, c) = <<a>> \o <<b>> \/ VerifierPuts(store, c) = <<a>> \o <<>>
    BY <1>1 DEF VerifierPuts, a, b
  <2>5. QED
    BY <2>3, <2>4, PlainJoined
<1>2. CASE ~VerifierResolves(c)
  BY <1>2, EmptySeq DEF Plain, VerifierPuts
<1>3. QED
  BY <1>1, <1>2

\* What request_handoff puts: the handoff, the objective and then the case.
LEMMA RequestLines ==
  ASSUME NEW store, NEW c \in Case
  PROVE  LET s == RequestPuts(store, c)
         IN  /\ s \in Seq(Lines)
             /\ \/ s = <<>>
                \/ /\ Len(s) \in {2, 3}
                   /\ s[1].kind = "handoff" /\ s[2].kind = "objective"
                   /\ Len(s) = 3 =>
                         s[3].kind = "case" /\ s[3].value.status # "resolved"
<1> DEFINE a == Line("handoff", "requested")
           b == Line("objective", "pending")
           d == CaseLine(HandedOff(c), "none")
<1>1. /\ a \in Lines /\ a.kind = "handoff" /\ b \in Lines /\ b.kind = "objective"
      /\ d \in Lines /\ d.kind = "case" /\ d.value.status # "resolved"
  <2>1. "requested" \in UpdateStatuses
    BY DEF UpdateStatuses, HandoffStatuses, VerifierOnlyHandoffStatuses
  <2>2. QED
    BY <2>1, OtherLineTypes, CaseLineType, HandedOffCase
<1>2. \/ RequestPuts(store, c) = <<>>
      \/ RequestPuts(store, c) = <<a, b>> \o <<d>>
      \/ RequestPuts(store, c) = <<a, b>> \o <<>>
  BY DEF RequestPuts
<1> HIDE DEF a, b, d
<1>3. /\ <<a, b>> \in Seq(Lines) /\ Len(<<a, b>>) = 2
      /\ <<a, b>>[1] = a /\ <<a, b>>[2] = b
      /\ <<d>> \in Seq(Lines) /\ Len(<<d>>) = 1 /\ <<d>>[1] = d
      /\ <<>> \in Seq(Lines) /\ Len(<<>>) = 0
  BY <1>1, Tuples
<1>4. LET s == <<a, b>> \o <<d>>
      IN  s \in Seq(Lines) /\ Len(s) = 3 /\ s[1] = a /\ s[2] = b /\ s[3] = d
  BY <1>3, Joined
<1>5. LET s == <<a, b>> \o <<>>
      IN  s \in Seq(Lines) /\ Len(s) = 2 /\ s[1] = a /\ s[2] = b
  BY <1>3, Joined
<1>6. QED
  BY <1>1, <1>2, <1>3, <1>4, <1>5

Before(s, i, kind) == \E j \in 1..(i - 1) : s[j].kind = kind

\* What run-once and verify put: a case moves to the handoff path only behind its
\* handoff and objective, a handoff follows the case it is of.
Observing(p, s) ==
    /\ s \in Seq(Lines)
    /\ \A i \in 1..Len(s) :
          /\ s[i].kind \in {"case", "objective", "handoff"}
          /\ s[i].kind = "handoff" => Before(s, i, "case")
          /\ s[i].kind = "case" =>
                /\ s[i].value.status = "resolved" => p = Verify
                /\ s[i].value.status \in HandoffPath =>
                      \/ mem[p].case.status \in HandoffPath
                      \/ Before(s, i, "handoff") /\ Before(s, i, "objective")

LEMMA PlainObserving == ASSUME NEW p, NEW s, Plain(p, s) PROVE Observing(p, s)
  BY DEF Plain, Observing

LEMMA Places ==
  ASSUME NEW m \in Nat, NEW n \in {2, 3}, NEW i \in 1..(m + n)
  PROVE  i \in 1..m \/ i = m + 1 \/ i = m + 2 \/ (i = m + 3 /\ n = 3)
  OBVIOUS

LEMMA PlainThenRequest ==
  ASSUME NEW p, NEW f, Plain(p, f), Len(f) \in Nat \ {0}, f[1].kind = "case",
         NEW r \in Seq(Lines), Len(r) \in {2, 3},
         r[1].kind = "handoff", r[2].kind = "objective",
         Len(r) = 3 => r[3].kind = "case" /\ r[3].value.status # "resolved",
         NEW s \in Seq(Lines), Len(s) = Len(f) + Len(r),
         \A i \in 1..Len(f) : s[i] = f[i],
         \A i \in 1..Len(r) : s[Len(f) + i] = r[i]
  PROVE  Observing(p, s)
<1>1. /\ s[1].kind = "case"
      /\ s[Len(f) + 1] = r[1] /\ s[Len(f) + 2] = r[2]
      /\ Len(r) = 3 => s[Len(f) + 3] = r[3]
  BY SMTT(40)
<1>2. ASSUME NEW i \in 1..Len(s)
      PROVE  /\ s[i].kind \in {"case", "objective", "handoff"}
             /\ s[i].kind = "handoff" => Before(s, i, "case")
             /\ s[i].kind = "case" =>
                  /\ s[i].value.status = "resolved" => p = Verify
                  /\ s[i].value.status \in HandoffPath =>
                       \/ mem[p].case.status \in HandoffPath
                       \/ Before(s, i, "handoff") /\ Before(s, i, "objective")
  <2>1. \/ i \in 1..Len(f)
        \/ i = Len(f) + 1 \/ i = Len(f) + 2
        \/ i = Len(f) + 3 /\ Len(r) = 3
    BY Places
  <2>2. CASE i \in 1..Len(f)
    BY <2>2 DEF Plain
  <2>3. CASE i = Len(f) + 1
    <3>1. 1 \in 1..(i - 1)
      BY <2>3
    <3>2. QED
      BY <1>1, <2>3, <3>1 DEF Before
  <2>4. CASE i = Len(f) + 2
    BY <1>1, <2>4
  <2>5. CASE i = Len(f) + 3 /\ Len(r) = 3
    <3>1. Len(f) + 1 \in 1..(i - 1) /\ Len(f) + 2 \in 1..(i - 1)
      BY <2>5
    <3>2. Before(s, i, "handoff") /\ Before(s, i, "objective")
      BY <1>1, <3>1 DEF Before
    <3>3. QED
      BY <1>1, <2>5, <3>2
  <2>6. QED
    BY <2>1, <2>2, <2>3, <2>4, <2>5
<1>3. QED
  BY <1>2 DEF Observing

LEMMA HandOffObserving ==
  ASSUME NEW p, mem[p].case \in Case
  PROVE  Observing(p, FailingPuts(mem[p].case)
                        \o RequestPuts(mem[p], RecordFailing(mem[p].case)))
<1> DEFINE f == FailingPuts(mem[p].case)
           r == RequestPuts(mem[p], RecordFailing(mem[p].case))
<1>1. Plain(p, f) /\ f \in Seq(Lines) /\ Len(f) \in Nat \ {0} /\ f[1].kind = "case"
  BY PlainFailing DEF Plain
<1>2. /\ r \in Seq(Lines)
      /\ \/ r = <<>>
         \/ /\ Len(r) \in {2, 3}
            /\ r[1].kind = "handoff" /\ r[2].kind = "objective"
            /\ Len(r) = 3 => r[3].kind = "case" /\ r[3].value.status # "resolved"
  BY RequestLines, FailingCase
<1> HIDE DEF f, r
<1>3. CASE r = <<>>
  <2>1. Plain(p, <<>>)
    BY EmptySeq DEF Plain
  <2>2. QED
    BY <1>1, <1>3, <2>1, PlainJoined, PlainObserving DEF f, r
<1>4. CASE r # <<>>
  <2>1. /\ f \o r \in Seq(Lines) /\ Len(f \o r) = Len(f) + Len(r)
        /\ \A i \in 1..Len(f) : (f \o r)[i] = f[i]
        /\ \A i \in 1..Len(r) : (f \o r)[Len(f) + i] = r[i]
    BY <1>1, <1>2, Joined
  <2>2. Observing(p, f \o r)
    BY <1>1, <1>2, <1>4, <2>1, PlainThenRequest
  <2>3. QED
    BY <2>2 DEF f, r
<1>5. QED
  BY <1>3, <1>4

\* What a callback puts: the handoff, the case if there is one, then its event.
Calling(s, store, event, update) ==
    /\ s \in Seq(Lines) /\ Len(s) \in {2, 3}
    /\ store.handoff # Absent
    /\ s[1].kind = "handoff" /\ s[1].value = update.status
    /\ s[Len(s)].kind = "callbacks" /\ s[Len(s)].value = event
    /\ Len(s) = 2 => ~Exists(store.case)
    /\ Len(s) = 3 =>
          /\ s[2].kind = "case" /\ Exists(store.case)
          /\ s[2].value = EngineeringUpdated(store.case, update)

LEMMA CallbackCalling ==
  ASSUME NEW store \in Store, NEW event \in Events, NEW update \in Updates,
         CallbackPuts(store, event, update) # <<>>
  PROVE  Calling(CallbackPuts(store, event, update), store, event, update)
<1> DEFINE a == Line("handoff", update.status)
           c == CaseLine(EngineeringUpdated(store.case, update), "none")
           e == Line("callbacks", event)
<1>1. /\ a \in Lines /\ a.kind = "handoff" /\ a.value = update.status
      /\ e \in Lines /\ e.kind = "callbacks" /\ e.value = event
  BY SentStatusesAssumption, OtherLineTypes DEF Updates
<1>2. store.handoff # Absent
  BY DEF CallbackPuts
<1>3. CASE Exists(store.case)
  <2>1. /\ c \in Lines /\ c.kind = "case"
        /\ c.value = EngineeringUpdated(store.case, update)
    BY <1>3, UpdatedCase, CaseLineType DEF Store
  <2>2. CallbackPuts(store, event, update) = (<<a>> \o <<c>>) \o <<e>>
    BY <1>3 DEF CallbackPuts
  <2> HIDE DEF a, c, e
  <2>3. /\ \A x \in Lines : <<x>> \in Seq(Lines) /\ Len(<<x>>) = 1 /\ <<x>>[1] = x
    BY Tuples
  <2>4. LET s == <<a>> \o <<c>>
        IN  s \in Seq(Lines) /\ Len(s) = 2 /\ s[1] = a /\ s[2] = c
    BY <1>1, <2>1, <2>3, Joined
  <2>5. LET s == (<<a>> \o <<c>>) \o <<e>>
        IN  s \in Seq(Lines) /\ Len(s) = 3 /\ s[1] = a /\ s[2] = c /\ s[3] = e
    BY <1>1, <2>3, <2>4, Joined
  <2>6. QED
    BY <1>1, <1>2, <1>3, <2>1, <2>2, <2>5 DEF Calling
<1>4. CASE ~Exists(store.case)
  <2>1. CallbackPuts(store, event, update) = (<<a>> \o <<>>) \o <<e>>
    BY <1>4 DEF CallbackPuts
  <2> HIDE DEF a, e
  <2>2. /\ \A x \in Lines : <<x>> \in Seq(Lines) /\ Len(<<x>>) = 1 /\ <<x>>[1] = x
    BY Tuples
  <2>3. LET s == <<a>> \o <<>>
        IN  s \in Seq(Lines) /\ Len(s) = 1 /\ s[1] = a
    BY <1>1, <2>2, Joined, EmptySeq
  <2>4. LET s == (<<a>> \o <<>>) \o <<e>>
        IN  s \in Seq(Lines) /\ Len(s) = 2 /\ s[1] = a /\ s[2] = e
    BY <1>1, <2>2, <2>3, Joined
  <2>5. QED
    BY <1>1, <1>2, <1>4, <2>1, <2>4 DEF Calling
<1>5. QED
  BY <1>3, <1>4

\* Every operation begins with puts of one of the two kinds.
Calls(p, s) ==
    \E event \in Events, update \in Updates :
        /\ sent' = [sent EXCEPT ![event] = update]
        /\ Calling(s, mem[p], event, update)

Operation(p) ==
    \/ ObserveFailing(p) \/ HandOff(p) \/ ObservePassing(p)
    \/ ReverifyPassing(p) \/ ReverifyFailing(p) \/ ReverifyDegraded(p)
    \/ \E event \in Events, update \in Updates : Callback(p, event, update)

LEMMA Operations ==
  ASSUME TypeInv, NEW p \in Procs, Operation(p)
  PROVE  \E s \in Seq(Lines) : Begin(p, s) /\ ((Observing(p, s) /\ sent' = sent) \/ Calls(p, s))
<1> DEFINE c == mem[p].case
<1>1. mem[p] \in Store /\ c \in Case
  BY DEF TypeInv, TypeOK, Store
<1>2. CASE ObserveFailing(p) \/ ReverifyFailing(p)
  BY <1>1, <1>2, PlainFailing, PlainObserving
  DEF ObserveFailing, ReverifyFailing, Observing
<1>3. CASE HandOff(p)
  BY <1>1, <1>3, HandOffObserving DEF HandOff, Observing
<1>4. CASE ObservePassing(p)
  BY <1>1, <1>4, PlainPassing, PlainObserving DEF ObservePassing, Observing
<1>5. CASE ReverifyPassing(p)
  <2> DEFINE v == VerifierPuts(mem[p], RecordPassing(c))
  <2>1. p = Verify /\ Begin(p, PassingPuts(c) \o v) /\ sent' = sent
    BY <1>5 DEF ReverifyPassing
  <2>2. Plain(p, PassingPuts(c)) /\ Plain(p, v)
    BY <1>1, <2>1, PlainPassing, PlainVerifier, PassingCase
  <2>3. Observing(p, PassingPuts(c) \o v)
    BY <2>2, PlainJoined, PlainObserving
  <2>4. QED
    BY <2>1, <2>3 DEF Observing
<1>6. CASE ReverifyDegraded(p)
  <2> DEFINE a == CaseLine(NoteScanDegraded(c), "none")
  <2>1. Begin(p, <<a>>) /\ sent' = sent /\ c.status \in HandoffPath
    BY <1>6, Statuses DEF ReverifyDegraded
  <2>2. a \in Lines /\ a.kind = "case" /\ a.value.status = c.status
    BY <1>1, <2>1, DegradedCase, CaseLineType, Statuses DEF Exists
  <2>3. c.status # "resolved"
    BY <2>1, Statuses
  <2> HIDE DEF a
  <2>4. Plain(p, <<a>>)
    BY <2>1, <2>2, <2>3, Tuples DEF Plain
  <2>5. QED
    BY <2>1, <2>4, PlainObserving DEF Observing
<1>7. ASSUME NEW event \in Events, NEW update \in Updates, Callback(p, event, update)
      PROVE  \E s \in Seq(Lines) : Begin(p, s) /\ Calls(p, s)
  <2> DEFINE s == CallbackPuts(mem[p], event, update)
  <2>1. Begin(p, s) /\ s # <<>> /\ sent' = [sent EXCEPT ![event] = update]
    BY <1>7 DEF Callback, Begin
  <2>2. Calling(s, mem[p], event, update)
    BY <1>1, <2>1, CallbackCalling
  <2>3. s \in Seq(Lines)
    BY <2>2 DEF Calling
  <2>4. QED
    BY <2>1, <2>2, <2>3 DEF Calls
<1>8. QED
  BY <1>2, <1>3, <1>4, <1>5, <1>6, <1>7 DEF Operation

-----------------------------------------------------------------------------
(* Types. *)

\* A put changes the record of its own file.
LEMMA Applied ==
  ASSUME NEW store \in Store, NEW line \in Lines
  PROVE  LET new == Apply(store, line)
         IN  /\ new \in Store
             /\ line.kind = "case" => new.case = line.value
             /\ line.kind # "case" => new.case = store.case
             /\ line.kind = "handoff" => new.handoff = line.value
             /\ line.kind # "handoff" => new.handoff = store.handoff
             /\ line.kind = "objective" => new.objective = line.value
             /\ line.kind # "objective" => new.objective = store.objective
             /\ line.kind = "callbacks" => new.callbacks = store.callbacks \cup {line.value}
             /\ line.kind # "callbacks" => new.callbacks = store.callbacks
<1>1. line.kind \in {"case", "handoff", "objective", "callbacks"}
  BY LineTypes DEF Kinds
<1>2. CASE line.kind = "case"
  <2>1. line.value \in Case
    BY <1>2, LineTypes
  <2>2. QED
    BY <1>2, <2>1 DEF Apply, Store
<1>3. CASE line.kind = "handoff"
  <2>1. line.value \in UpdateStatuses
    BY <1>3, LineTypes
  <2>2. QED
    BY <1>3, <2>1 DEF Apply, Store
<1>4. CASE line.kind = "objective"
  <2>1. line.value \in {"pending", "pass"}
    BY <1>4, LineTypes
  <2>2. QED
    BY <1>4, <2>1 DEF Apply, Store
<1>5. CASE line.kind = "callbacks"
  <2>1. line.value \in Events
    BY <1>5, LineTypes
  <2>2. QED
    BY <1>5, <2>1 DEF Apply, Store
<1>6. QED
  BY <1>1, <1>2, <1>3, <1>4, <1>5

LEMMA EmptyTypes ==
  /\ EmptyStore \in Store /\ EmptyStore.case.status = Absent
  /\ EmptyStore.handoff = Absent
<1>1. NoCase \in Case /\ NoCase.status = Absent
  BY DEF NoCase, Case
<1>2. QED
  BY <1>1 DEF EmptyStore, Store

LEMMA Removed ==
  ASSUME NEW s \in Seq(Lines), s # <<>>
  PROVE  /\ Head(s) = s[1] /\ s[1] \in Lines /\ Len(s) \in Nat \ {0}
         /\ Tail(s) \in Seq(Lines) /\ Len(Tail(s)) = Len(s) - 1
         /\ \A i \in 1..Len(Tail(s)) : Tail(s)[i] = s[i + 1] /\ i + 1 \in 1..Len(s)
<1>1. Len(s) \in Nat \ {0}
  BY EmptySeq
<1>2. QED
  BY <1>1, HeadTailProperties

\* The step of a put, with the line it puts.
LEMMA Putting ==
  ASSUME TypeInv, NEW p \in Procs, Put(p)
  PROVE  LET line == pending[p][1]
         IN  /\ line \in Lines /\ p \in up /\ pending[p] # <<>>
             /\ mem' = [mem EXCEPT ![p] = Apply(mem[p], line)]
             /\ pending' = [pending EXCEPT ![p] = Tail(pending[p])]
             /\ up' = up /\ sent' = sent
             /\ \/ disk' = disk /\ clean' \in {clean, Bump(clean)}
                   /\ lost' = lost \cup {RecordOf(line)}
                   /\ torn' = [torn EXCEPT ![line.kind] = FALSE]
                \/ disk' = Apply(disk, line) /\ clean' = CleanAfter(line)
                   /\ lost' = lost \ {RecordOf(line)}
                   /\ torn' = torn
<1>1. pending[p] \in Seq(Lines) /\ pending[p] # <<>> /\ p \in up
  BY DEF TypeInv, Put
<1>2. Head(pending[p]) = pending[p][1] /\ pending[p][1] \in Lines
  BY <1>1, Removed
<1>3. QED
  BY <1>1, <1>2 DEF TypeInv, TypeOK, Put, LineLost, LineStored

\* The end of a process, wherever it comes.
Ends(p) ==
    /\ p \in up
    /\ up' = up \ {p}
    /\ mem' = [mem EXCEPT ![p] = EmptyStore]
    /\ pending' = [pending EXCEPT ![p] = <<>>]
    /\ torn' \in [Kinds -> BOOLEAN]
    /\ UNCHANGED <<disk, sent, lost, clean>>

LEMMA Ending ==
  ASSUME TypeInv, NEW p \in Procs,
         \/ Stop(p) \/ DieInsideLine(p)
         \/ \E k \in Kinds : DieInsideOtherLine(p, k)
  PROVE  Ends(p)
<1>1. CASE Stop(p)
  BY <1>1 DEF Stop, Ends, TypeInv, TypeOK
<1>2. CASE DieInsideLine(p)
  BY <1>2 DEF DieInsideLine, Ends, TypeInv, TypeOK
<1>3. ASSUME NEW k \in Kinds, DieInsideOtherLine(p, k) PROVE Ends(p)
  <2>1. pending' = [pending EXCEPT ![p] = <<>>]
    BY <1>3 DEF DieInsideOtherLine, Ready, TypeInv
  <2>2. QED
    BY <1>3, <2>1 DEF DieInsideOtherLine, Ready, Ends, TypeInv, TypeOK
<1>4. QED
  BY <1>1, <1>2, <1>3

\* At most the fragments change.
Mends ==
    /\ torn' \in [Kinds -> BOOLEAN]
    /\ UNCHANGED <<disk, up, mem, pending, sent, lost, clean>>

\* A step is one of five.
LEMMA Steps ==
  ASSUME TypeInv, [Next]_vars
  PROVE  \/ \E p \in Procs : Start(p) \/ Ends(p) \/ Put(p) \/ Operation(p)
         \/ Mends
<1>1. CASE Next
  <2>1. ASSUME NEW p \in Procs, NEW k \in Kinds, OtherLine(p, k) PROVE Mends
    BY <2>1 DEF OtherLine, Mends, TypeInv, TypeOK
  <2>2. QED
    BY <1>1, <2>1, Ending DEF Next, Operation
<1>2. CASE UNCHANGED vars
  BY <1>2 DEF vars, Mends, TypeInv, TypeOK
<1>3. QED
  BY <1>1, <1>2

LEMMA TypeInvInit == Init => TypeInv
<1> SUFFICES ASSUME Init PROVE TypeInv
  OBVIOUS
<1>1. TypeOK
  <2>1. disk \in Store /\ mem \in [Procs -> Store]
    BY EmptyTypes DEF Init
  <2>2. 0 \in 0..Required
    BY RequiredAssumption
  <2>3. QED
    BY <2>1, <2>2 DEF Init, TypeOK
<1>2. QED
  BY <1>1, EmptySeq DEF Init, TypeInv

LEMMA TypeInvStep == TypeInv /\ [Next]_vars => TypeInv'
<1> SUFFICES ASSUME TypeInv, [Next]_vars PROVE TypeInv'
  OBVIOUS
<1>1. ASSUME \A p \in Procs : pending'[p] \in Seq(Lines)
      PROVE  \A p \in Procs : \A i \in 1..Len(pending'[p]) : pending'[p][i].kind \in Kinds
  BY <1>1, ElementOfSeq, LineTypes
<1>2. ASSUME NEW p \in Procs, Start(p) PROVE TypeInv'
  <2>1. mem' \in [Procs -> Store] /\ up' \subseteq Procs
    BY <1>2 DEF Start, TypeInv, TypeOK
  <2>2. QED
    BY <1>2, <2>1 DEF Start, TypeInv, TypeOK
<1>3. ASSUME NEW p \in Procs, Ends(p) PROVE TypeInv'
  <2>1. mem' \in [Procs -> Store] /\ up' \subseteq Procs
    BY <1>3, EmptyTypes DEF Ends, TypeInv, TypeOK
  <2>2. pending' \in [Procs -> Seq(Lines)]
        /\ \A q \in Procs : pending'[q] # <<>> => q \in up'
    BY <1>3, EmptySeq DEF Ends, TypeInv
  <2>3. QED
    BY <1>1, <1>3, <2>1, <2>2 DEF Ends, TypeInv, TypeOK
<1>4. ASSUME NEW p \in Procs, Put(p) PROVE TypeInv'
  <2> DEFINE line == pending[p][1]
  <2>1. /\ line \in Lines /\ p \in up /\ pending[p] # <<>>
        /\ mem' = [mem EXCEPT ![p] = Apply(mem[p], line)]
        /\ pending' = [pending EXCEPT ![p] = Tail(pending[p])]
        /\ up' = up /\ sent' = sent
        /\ \/ disk' = disk /\ clean' \in {clean, Bump(clean)}
              /\ lost' = lost \cup {RecordOf(line)}
              /\ torn' = [torn EXCEPT ![line.kind] = FALSE]
           \/ disk' = Apply(disk, line) /\ clean' = CleanAfter(line)
              /\ lost' = lost \ {RecordOf(line)}
              /\ torn' = torn
    BY <1>4, Putting
  <2> HIDE DEF line
  <2>2. /\ line.kind \in Kinds /\ line.read \in {"none", "pass", "fail"}
        /\ RecordOf(line) \in Records
    BY <2>1, LineTypes
  <2>3. mem' \in [Procs -> Store] /\ disk' \in Store
    BY <2>1, Applied DEF TypeInv, TypeOK
  <2>4. {clean, Bump(clean), CleanAfter(line)} \subseteq 0..Required
    <3>1. clean \in 0..Required /\ Bump(clean) \in 0..Required /\ 0 \in 0..Required
      BY RequiredAssumption DEF TypeInv, TypeOK, Bump
    <3>2. QED
      BY <2>2, <3>1 DEF CleanAfter
  <2>5. torn' \in [Kinds -> BOOLEAN] /\ lost' \subseteq Records
    BY <2>1, <2>2 DEF TypeInv, TypeOK
  <2>6. pending' \in [Procs -> Seq(Lines)]
        /\ \A q \in Procs : pending'[q] # <<>> => q \in up'
    BY <2>1, Removed DEF TypeInv
  <2>7. clean' \in 0..Required
    BY <2>1, <2>4 DEF TypeInv, TypeOK
  <2>8. QED
    BY <1>1, <2>1, <2>3, <2>5, <2>6, <2>7 DEF TypeInv, TypeOK
<1>5. ASSUME NEW p \in Procs, Operation(p) PROVE TypeInv'
  <2>1. PICK s \in Seq(Lines) : Begin(p, s) /\ ((Observing(p, s) /\ sent' = sent) \/ Calls(p, s))
    BY <1>5, Operations
  <2>2. pending' \in [Procs -> Seq(Lines)]
        /\ \A q \in Procs : pending'[q] # <<>> => q \in up'
    BY <2>1 DEF Begin, Ready, TypeInv
  <2>3. sent' \in [Events -> Updates \cup {NotSent}]
    BY <2>1 DEF Calls, TypeInv, TypeOK
  <2>4. QED
    BY <1>1, <2>1, <2>2, <2>3 DEF Begin, TypeInv, TypeOK
<1>6. CASE Mends
  BY <1>6 DEF Mends, TypeInv, TypeOK
<1>7. QED
  BY <1>2, <1>3, <1>4, <1>5, <1>6, Steps

\* The files and the snapshots keep their types through crashes, torn lines and
\* processes that overlap, and the statuses put are ones the models validate.
THEOREM JournalTypes == Spec => []TypeOK
<1>1. TypeInv => TypeOK
  BY DEF TypeInv
<1>2. QED
  BY <1>1, TypeInvInit, TypeInvStep, PTL DEF Spec

-----------------------------------------------------------------------------
(* Any processes at once: the case comes after what it hands off. *)

HasHandoff == disk.handoff # Absent \/ "handoff" \in lost
HasObjective == disk.objective # Absent \/ "objective" \in lost

\* A case that is still to be put on the handoff path finds its handoff and its
\* objective stored, or comes behind them.
HandoffFirst(s) ==
    \A i \in 1..Len(s) :
        s[i].kind = "case" /\ s[i].value.status \in HandoffPath =>
            /\ HasHandoff \/ Before(s, i, "handoff")
            /\ HasObjective \/ Before(s, i, "objective")

OrderInv ==
    /\ StoredCaseHasHandoff
    /\ \A p \in Procs : mem[p].case.status \in HandoffPath => HasHandoff /\ HasObjective
    /\ \A p \in Procs : HandoffFirst(pending[p])

\* A put takes one line off the front.
LEMMA BeforeRemoved ==
  ASSUME NEW s \in Seq(Lines), s # <<>>, NEW i \in 1..Len(Tail(s)), NEW kind,
         Before(s, i + 1, kind)
  PROVE  s[1].kind = kind \/ Before(Tail(s), i, kind)
<1>1. PICK j \in 1..i : s[j].kind = kind
  BY Removed DEF Before
<1>2. CASE j # 1
  <2>1. j - 1 \in 1..(i - 1) /\ j - 1 \in 1..Len(Tail(s)) /\ (j - 1) + 1 = j
    BY <1>2, Removed
  <2>2. Tail(s)[j - 1] = s[j]
    BY <2>1, Removed
  <2>3. QED
    BY <1>1, <2>1, <2>2 DEF Before
<1>3. QED
  BY <1>1, <1>2

LEMMA OrderInvPut == ASSUME TypeInv, OrderInv, NEW p \in Procs, Put(p) PROVE OrderInv'
<1> DEFINE s == pending[p]
           line == pending[p][1]
<1>1. /\ line \in Lines /\ s # <<>> /\ s \in Seq(Lines)
      /\ mem' = [mem EXCEPT ![p] = Apply(mem[p], line)]
      /\ pending' = [pending EXCEPT ![p] = Tail(s)]
      /\ \/ disk' = disk /\ lost' = lost \cup {RecordOf(line)}
         \/ disk' = Apply(disk, line) /\ lost' = lost \ {RecordOf(line)}
  BY Putting DEF TypeInv
<1>2. disk \in Store /\ mem \in [Procs -> Store] /\ lost \subseteq Records
  BY DEF TypeInv, TypeOK
<1>3. /\ line.kind \in Kinds
      /\ line.kind = "handoff" => line.value # Absent
      /\ line.kind = "objective" => line.value # Absent
      /\ \A k \in {"handoff", "objective"} : line.kind = k <=> RecordOf(line) = k
  BY <1>1, LineTypes, Statuses DEF Absent
<1> HIDE DEF s, line
<1>4. /\ HasHandoff \/ line.kind = "handoff" => HasHandoff'
      /\ HasObjective \/ line.kind = "objective" => HasObjective'
  <2>1. "handoff" \in Kinds /\ "objective" \in Kinds
    BY DEF Kinds
  <2>2. CASE disk' = disk /\ lost' = lost \cup {RecordOf(line)}
    BY <1>2, <1>3, <2>1, <2>2 DEF HasHandoff, HasObjective
  <2>3. CASE disk' = Apply(disk, line) /\ lost' = lost \ {RecordOf(line)}
    <3>1. /\ disk'.handoff = (IF line.kind = "handoff" THEN line.value ELSE disk.handoff)
          /\ disk'.objective = (IF line.kind = "objective" THEN line.value ELSE disk.objective)
      BY <1>1, <1>2, <2>3, Applied
    <3>2. /\ line.kind # "handoff" => ("handoff" \in lost' <=> "handoff" \in lost)
          /\ line.kind # "objective" => ("objective" \in lost' <=> "objective" \in lost)
      BY <1>3, <2>3
    <3>3. QED
      BY <1>3, <3>1, <3>2 DEF HasHandoff, HasObjective
  <2>4. QED
    BY <1>1, <2>2, <2>3
<1>5. line.kind = "case" /\ line.value.status \in HandoffPath => HasHandoff /\ HasObjective
  <2>1. HandoffFirst(s) /\ 1 \in 1..Len(s)
    BY <1>1, Removed DEF OrderInv, s
  <2>2. ~Before(s, 1, "handoff") /\ ~Before(s, 1, "objective")
    BY DEF Before
  <2>3. QED
    BY <2>1, <2>2 DEF HandoffFirst, line, s
<1>6. StoredCaseHasHandoff'
  <2>1. disk'.case.status \in HandoffPath => HasHandoff' /\ HasObjective'
    <3>1. disk.case.status \in HandoffPath => HasHandoff /\ HasObjective
      BY DEF OrderInv, StoredCaseHasHandoff, HasHandoff, HasObjective
    <3>2. \/ disk'.case = disk.case
          \/ line.kind = "case" /\ disk'.case = line.value
      BY SMTT(40), <1>1, <1>2, Applied
    <3>3. QED
      BY <1>4, <1>5, <3>1, <3>2
  <2>2. QED
    BY <2>1 DEF StoredCaseHasHandoff, HasHandoff, HasObjective
<1>7. ASSUME NEW q \in Procs, mem'[q].case.status \in HandoffPath
      PROVE  HasHandoff' /\ HasObjective'
  <2>1. CASE q = p
    <3>1. mem'[p] = Apply(mem[p], line) /\ mem[p] \in Store
      BY <1>1, <1>2
    <3>2. \/ mem'[p].case = mem[p].case
          \/ line.kind = "case" /\ mem'[p].case = line.value
      BY <1>1, <3>1, Applied
    <3>3. QED
      BY <1>4, <1>5, <1>7, <2>1, <3>2 DEF OrderInv
  <2>2. CASE q # p
    BY <1>1, <1>2, <1>4, <1>7, <2>2 DEF OrderInv
  <2>3. QED
    BY <2>1, <2>2
<1>8. ASSUME NEW q \in Procs PROVE HandoffFirst(pending[q])'
  <2>1. CASE q # p
    <3>1. pending'[q] = pending[q]
      BY <1>1, <2>1 DEF TypeInv
    <3>2. QED
      BY <1>4, <3>1 DEF OrderInv, HandoffFirst, Before
  <2>2. CASE q = p
    <3>1. pending'[q] = Tail(s) /\ HandoffFirst(s)
      BY <1>1, <2>2 DEF TypeInv, OrderInv, s
    <3>2. ASSUME NEW i \in 1..Len(Tail(s)),
                 Tail(s)[i].kind = "case" /\ Tail(s)[i].value.status \in HandoffPath
          PROVE  /\ HasHandoff' \/ Before(Tail(s), i, "handoff")
                 /\ HasObjective' \/ Before(Tail(s), i, "objective")
      <4>1. Tail(s)[i] = s[i + 1] /\ i + 1 \in 1..Len(s)
        BY <1>1, Removed
      <4>2. /\ HasHandoff \/ Before(s, i + 1, "handoff")
            /\ HasObjective \/ Before(s, i + 1, "objective")
        BY <3>1, <3>2, <4>1 DEF HandoffFirst
      <4>3. QED
        BY <1>1, <1>4, <4>2, BeforeRemoved DEF s, line
    <3>3. QED
      BY <3>1, <3>2 DEF HandoffFirst, Before
  <2>3. QED
    BY <2>1, <2>2
<1>9. QED
  BY <1>6, <1>7, <1>8 DEF OrderInv

LEMMA OrderInvOperation ==
  ASSUME TypeInv, OrderInv, NEW p \in Procs, Operation(p) PROVE OrderInv'
<1>1. PICK s \in Seq(Lines) : Begin(p, s) /\ ((Observing(p, s) /\ sent' = sent) \/ Calls(p, s))
  BY Operations
<1>2. /\ pending' = [pending EXCEPT ![p] = s] /\ UNCHANGED <<disk, mem, lost>>
  BY <1>1 DEF Begin
<1>3. mem[p].case.status \in HandoffPath => HasHandoff /\ HasObjective
  BY DEF OrderInv
<1>4. CASE Observing(p, s)
  <2>1. HandoffFirst(s)
    BY <1>3, <1>4 DEF Observing, HandoffFirst
  <2>2. HandoffFirst(s)'
    BY <1>2, <2>1 DEF HandoffFirst, HasHandoff, HasObjective, Before
  <2>3. QED
    BY <1>2, <2>2
    DEF TypeInv, OrderInv, StoredCaseHasHandoff, HasHandoff, HasObjective, HandoffFirst
<1>5. CASE Calls(p, s)
  <2>1. PICK event \in Events, update \in Updates : Calling(s, mem[p], event, update)
    BY <1>5 DEF Calls
  <2>2. mem[p] \in Store /\ mem[p].case \in Case
    BY DEF TypeInv, TypeOK, Store
  <2>3. ASSUME NEW i \in 1..Len(s), s[i].kind = "case", s[i].value.status \in HandoffPath
        PROVE  HasHandoff /\ HasObjective
    <3>1. Len(s) = 3 /\ i = 2
      BY <2>1, <2>3 DEF Calling
    <3>2. mem[p].case.status \in HandoffPath
      BY <2>1, <2>2, <2>3, <3>1, UpdatedCase DEF Calling
    <3>3. QED
      BY <1>3, <3>2
  <2>4. HandoffFirst(s)'
    BY <1>2, <2>3 DEF HandoffFirst, HasHandoff, HasObjective
  <2>5. QED
    BY <1>2, <2>4
    DEF TypeInv, OrderInv, StoredCaseHasHandoff, HasHandoff, HasObjective, HandoffFirst
<1>6. QED
  BY <1>1, <1>4, <1>5

LEMMA OrderInvStep == TypeInv /\ OrderInv /\ [Next]_vars => OrderInv'
<1> SUFFICES ASSUME TypeInv, OrderInv, [Next]_vars PROVE OrderInv'
  OBVIOUS
<1>1. ASSUME NEW p \in Procs, Start(p) PROVE OrderInv'
  BY <1>1
  DEF Start, TypeInv, TypeOK, OrderInv, StoredCaseHasHandoff, HasHandoff, HasObjective,
      HandoffFirst
<1>2. ASSUME NEW p \in Procs, Ends(p) PROVE OrderInv'
  <2>1. EmptyStore.case.status \notin HandoffPath /\ Len(<<>>) = 0
    BY EmptyTypes, Statuses, EmptySeq
  <2>2. \A q \in Procs : HandoffFirst(pending[q])'
    BY <1>2, <2>1 DEF Ends, TypeInv, OrderInv, HandoffFirst, HasHandoff, HasObjective
  <2>3. QED
    BY <1>2, <2>1, <2>2
    DEF Ends, TypeInv, TypeOK, OrderInv, StoredCaseHasHandoff, HasHandoff, HasObjective
<1>3. CASE Mends
  BY <1>3
  DEF Mends, OrderInv, StoredCaseHasHandoff, HasHandoff, HasObjective, HandoffFirst
<1>4. QED
  BY <1>1, <1>2, <1>3, OrderInvPut, OrderInvOperation, Steps

\* request_handoff stores the handoff and the objective before the case: so a
\* stored case on the handoff path has them, wherever any of the processes that
\* run at once dies, unless their own line was glued to a fragment.
THEOREM StoredCasesHaveHandoffs == Spec => []StoredCaseHasHandoff
<1>1. Init => OrderInv
  <2> SUFFICES ASSUME Init PROVE OrderInv
    OBVIOUS
  <2>1. EmptyStore.case.status \notin HandoffPath /\ Len(<<>>) = 0
    BY EmptyTypes, Statuses, EmptySeq
  <2>2. QED
    BY <2>1 DEF Init, OrderInv, StoredCaseHasHandoff, HandoffFirst
<1>2. OrderInv => StoredCaseHasHandoff
  BY DEF OrderInv
<1>3. QED
  BY <1>1, <1>2, OrderInvStep, TypeInvInit, TypeInvStep, PTL DEF Spec

-----------------------------------------------------------------------------
(* One process at a time: memory and files. *)

OneUp == \A p, q \in up : p = q

\* A process remembers what is in the files, but of the records whose last line was
\* lost.
InSync ==
    \A p \in up :
        /\ "case" \in lost \/ disk.case = mem[p].case
        /\ "handoff" \in lost \/ disk.handoff = mem[p].handoff
        /\ "objective" \in lost \/ disk.objective = mem[p].objective
        /\ disk.callbacks \subseteq mem[p].callbacks
        /\ mem[p].callbacks \ disk.callbacks \subseteq lost

SyncInv == OneUp /\ InSync

\* A put under its line, with what it does to each file.
LEMMA PutFields ==
  ASSUME TypeInv, NEW p \in Procs, Put(p)
  PROVE  LET line == pending[p][1]
         IN  /\ \A k \in Kinds \ {line.kind} : k \in lost' <=> k \in lost
             /\ line.kind = "case" =>
                  mem'[p].case = line.value /\ ("case" \in lost' \/ disk'.case = line.value)
             /\ line.kind = "handoff" =>
                  /\ mem'[p].handoff = line.value
                  /\ "handoff" \in lost' \/ disk'.handoff = line.value
             /\ line.kind = "objective" =>
                  /\ mem'[p].objective = line.value
                  /\ "objective" \in lost' \/ disk'.objective = line.value
             /\ line.kind # "case" => mem'[p].case = mem[p].case /\ disk'.case = disk.case
             /\ line.kind # "handoff" =>
                  mem'[p].handoff = mem[p].handoff /\ disk'.handoff = disk.handoff
             /\ line.kind # "objective" =>
                  mem'[p].objective = mem[p].objective /\ disk'.objective = disk.objective
             /\ disk'.case = disk.case \/ (line.kind = "case" /\ disk'.case = line.value)
             /\ disk'.handoff = disk.handoff
                  \/ (line.kind = "handoff" /\ disk'.handoff = line.value)
             /\ disk'.callbacks = disk.callbacks
                  \/ (line.kind = "callbacks"
                      /\ disk'.callbacks = disk.callbacks \cup {line.value})
<1> DEFINE line == pending[p][1]
<1>1. /\ line \in Lines
      /\ mem' = [mem EXCEPT ![p] = Apply(mem[p], line)]
      /\ \/ disk' = disk /\ lost' = lost \cup {RecordOf(line)}
         \/ disk' = Apply(disk, line) /\ lost' = lost \ {RecordOf(line)}
  BY Putting
<1>2. disk \in Store /\ mem \in [Procs -> Store] /\ lost \subseteq Records
  BY DEF TypeInv, TypeOK
<1> HIDE DEF line
<1>3. line.kind \in Kinds
  BY <1>1, LineTypes
<1>4. mem'[p] = Apply(mem[p], line) /\ mem[p] \in Store
  BY <1>1, <1>2
<1>5. /\ \A k \in Kinds \ {line.kind} : RecordOf(line) # k
      /\ line.kind # "callbacks" => RecordOf(line) = line.kind
  BY <1>1, <1>3, LineTypes DEF Kinds
<1>6. CASE disk' = disk /\ lost' = lost \cup {RecordOf(line)}
  <2>1. /\ \A k \in Kinds \ {line.kind} : k \in lost' <=> k \in lost
        /\ line.kind # "callbacks" => line.kind \in lost'
    BY <1>5, <1>6
  <2>2. QED
    BY ZenonT(40), <1>1, <1>2, <1>4, <1>6, <2>1, Applied DEF line
<1>7. CASE disk' = Apply(disk, line) /\ lost' = lost \ {RecordOf(line)}
  <2>1. \A k \in Kinds \ {line.kind} : k \in lost' <=> k \in lost
    BY <1>5, <1>7
  <2>2. QED
    BY <1>1, <1>2, <1>4, <1>7, <2>1, Applied DEF line
<1>8. QED
  BY <1>1, <1>6, <1>7

\* What a put does to the inbox: the event's own record is stored or lost, and no
\* other one is touched.
LEMMA PutInbox ==
  ASSUME TypeInv, NEW p \in Procs, Put(p)
  PROVE  \/ /\ mem'[p].callbacks = mem[p].callbacks
            /\ disk'.callbacks = disk.callbacks
            /\ \A e \in Events : e \in lost' <=> e \in lost
         \/ \E v \in Events :
              /\ mem'[p].callbacks = mem[p].callbacks \cup {v}
              /\ \/ disk'.callbacks = disk.callbacks /\ lost' = lost \cup {v}
                 \/ disk'.callbacks = disk.callbacks \cup {v} /\ lost' = lost \ {v}
<1> DEFINE line == pending[p][1]
<1>1. /\ line \in Lines
      /\ mem' = [mem EXCEPT ![p] = Apply(mem[p], line)]
      /\ \/ disk' = disk /\ lost' = lost \cup {RecordOf(line)}
         \/ disk' = Apply(disk, line) /\ lost' = lost \ {RecordOf(line)}
  BY Putting
<1>2. disk \in Store /\ mem \in [Procs -> Store]
  BY DEF TypeInv, TypeOK
<1> HIDE DEF line
<1>3. mem'[p] = Apply(mem[p], line) /\ mem[p] \in Store
  BY <1>1, <1>2
<1>4. CASE line.kind = "callbacks"
  BY <1>1, <1>2, <1>3, <1>4, Applied, LineTypes
<1>5. CASE line.kind # "callbacks"
  <2>1. RecordOf(line) \notin Events
    BY <1>1, <1>5, LineTypes, EventsAssumption DEF Kinds
  <2>2. mem'[p].callbacks = mem[p].callbacks /\ disk'.callbacks = disk.callbacks
    BY <1>1, <1>2, <1>3, <1>5, Applied
  <2>3. QED
    BY <1>1, <2>1, <2>2
<1>6. QED
  BY <1>4, <1>5

LEMMA Alone ==
  ASSUME TypeInv, OneUp, NEW p \in up
  PROVE  \A q \in Procs : q # p => q \notin up /\ pending[q] = <<>>
  BY DEF TypeInv, OneUp

LEMMA SyncInvStep ==
  ASSUME Exclusive PROVE TypeInv /\ SyncInv /\ [Next]_vars => SyncInv'
<1> SUFFICES ASSUME TypeInv, SyncInv, [Next]_vars PROVE SyncInv'
  OBVIOUS
<1>1. ASSUME NEW p \in Procs, Start(p) PROVE SyncInv'
  BY <1>1 DEF Start, TypeInv, TypeOK, SyncInv, OneUp, InSync
<1>2. ASSUME NEW p \in Procs, Ends(p) PROVE SyncInv'
  BY <1>2 DEF Ends, TypeInv, TypeOK, SyncInv, OneUp, InSync
<1>3. ASSUME NEW p \in Procs, Put(p) PROVE SyncInv'
  <2> DEFINE line == pending[p][1]
  <2>1. p \in up /\ up' = up /\ line \in Lines
    BY <1>3, Putting
  <2>2. \A q \in up' : q = p
    BY <2>1 DEF SyncInv, OneUp
  <2>3. line.kind \in Kinds /\ {"case", "handoff", "objective"} \subseteq Kinds
    BY <2>1, LineTypes DEF Kinds
  <2> HIDE DEF line
  <2>4. "case" \in lost' \/ disk'.case = mem'[p].case
    BY <1>3, <2>1, <2>3, PutFields DEF SyncInv, InSync, line
  <2>5. "handoff" \in lost' \/ disk'.handoff = mem'[p].handoff
    BY <1>3, <2>1, <2>3, PutFields DEF SyncInv, InSync, line
  <2>6. "objective" \in lost' \/ disk'.objective = mem'[p].objective
    BY <1>3, <2>1, <2>3, PutFields DEF SyncInv, InSync, line
  <2>7. disk.callbacks \subseteq mem[p].callbacks /\ mem[p].callbacks \ disk.callbacks \subseteq lost
    BY <2>1 DEF SyncInv, InSync
  <2>8. /\ disk'.callbacks \subseteq mem'[p].callbacks
        /\ mem'[p].callbacks \ disk'.callbacks \subseteq lost'
    <3>1. mem[p].callbacks \subseteq Events
      BY DEF TypeInv, TypeOK, Store
    <3>2. QED
      BY <1>3, <2>7, <3>1, PutInbox
  <2>9. QED
    BY <2>2, <2>4, <2>5, <2>6, <2>8 DEF SyncInv, OneUp, InSync
<1>4. ASSUME NEW p \in Procs, Operation(p) PROVE SyncInv'
  <2>1. UNCHANGED <<disk, up, mem, lost>>
    BY <1>4, Operations DEF Begin
  <2>2. QED
    BY <2>1 DEF SyncInv, OneUp, InSync
<1>5. CASE Mends
  BY <1>5 DEF Mends, SyncInv, OneUp, InSync
<1>6. QED
  BY <1>1, <1>2, <1>3, <1>4, <1>5, Steps

LEMMA SyncInvInit == Init => SyncInv
  BY DEF Init, SyncInv, OneUp, InSync

\* With one process at a time, whatever lines its predecessors tore and whichever
\* records the fragments were glued to (_append, _read_jsonl): an idle process and
\* a restart see the same records of a case, but those whose own last line was
\* lost; the next line of another record does not excuse them.
THEOREM LossesStayInTheirRecords == ASSUME Exclusive PROVE Spec => []LossStaysInItsRecord
<1>1. TypeInv /\ SyncInv => LossStaysInItsRecord
  <2> SUFFICES ASSUME TypeInv, SyncInv, NEW p \in up
               PROVE  /\ \A k \in Kinds \ {"callbacks"} : k \in lost \/ disk[k] = mem[p][k]
                      /\ disk.callbacks \subseteq mem[p].callbacks
                      /\ mem[p].callbacks \ disk.callbacks \subseteq lost
    BY DEF LossStaysInItsRecord
  <2>1. disk \in Store /\ mem[p] \in Store
    BY DEF TypeInv, TypeOK
  <2>2. ASSUME NEW k \in Kinds \ {"callbacks"} PROVE k \in lost \/ disk[k] = mem[p][k]
    <3>1. k \in {"case", "handoff", "objective"}
      BY DEF Kinds
    <3>2. QED
      BY <2>1, <3>1 DEF SyncInv, InSync, Store
  <2>3. QED
    BY <2>2 DEF SyncInv, InSync
<1>2. QED
  BY <1>1, SyncInvInit, SyncInvStep, TypeInvInit, TypeInvStep, PTL DEF Spec

-----------------------------------------------------------------------------
(* Any processes at once: who resolves. *)

\* A line that resolves the case is the verification's, or restates what the
\* process remembers and no line before it can change.
ResolvedOnce(p, s) ==
    \A i \in 1..Len(s) :
        s[i].kind = "case" /\ s[i].value.status = "resolved" =>
            \/ p = Verify
            \/ mem[p].case.status = "resolved" /\ ~Before(s, i, "case")

ResolveInv == \A p \in Procs : ResolvedOnce(p, pending[p])

LEMMA BeforeKept ==
  ASSUME NEW s \in Seq(Lines), s # <<>>, NEW i \in 1..Len(Tail(s)), NEW kind,
         Before(Tail(s), i, kind)
  PROVE  Before(s, i + 1, kind)
<1>1. PICK j \in 1..(i - 1) : Tail(s)[j].kind = kind
  BY DEF Before
<1>2. j \in 1..Len(Tail(s)) /\ j + 1 \in 1..((i + 1) - 1)
  BY Removed
<1>3. s[j + 1].kind = kind
  BY <1>1, <1>2, Removed
<1>4. QED
  BY <1>2, <1>3 DEF Before

LEMMA BeforeSelf ==
  ASSUME NEW s \in Seq(Lines), s # <<>>, NEW i \in 1..Len(Tail(s))
  PROVE  Before(s, i + 1, s[1].kind)
<1>1. 1 \in 1..((i + 1) - 1)
  BY Removed
<1>2. QED
  BY <1>1 DEF Before

LEMMA ResolveInvPut ==
  ASSUME TypeInv, ResolveInv, NEW p \in Procs, Put(p) PROVE ResolveInv'
<1> DEFINE s == pending[p]
           line == s[1]
<1>1. /\ line \in Lines /\ s # <<>> /\ s \in Seq(Lines)
      /\ pending' = [pending EXCEPT ![p] = Tail(s)]
      /\ mem' = [mem EXCEPT ![p] = Apply(mem[p], line)]
  BY Putting DEF TypeInv
<1>2. line.kind # "case" => mem'[p].case = mem[p].case
  BY PutFields
<1>3. ResolvedOnce(p, s)
  BY DEF ResolveInv
<1> HIDE DEF s, line
<1>4. ASSUME NEW i \in 1..Len(Tail(s)), Tail(s)[i].kind = "case",
             Tail(s)[i].value.status = "resolved", p # Verify
      PROVE  mem'[p].case.status = "resolved" /\ ~Before(Tail(s), i, "case")
  <2>1. Tail(s)[i] = s[i + 1] /\ i + 1 \in 1..Len(s)
    BY <1>1, Removed
  <2>2. mem[p].case.status = "resolved" /\ ~Before(s, i + 1, "case")
    BY <1>3, <1>4, <2>1 DEF ResolvedOnce
  <2>3. line.kind # "case" /\ ~Before(Tail(s), i, "case")
    BY <1>1, <2>2, BeforeSelf, BeforeKept DEF line
  <2>4. QED
    BY <1>2, <2>2, <2>3
<1>5. ASSUME NEW q \in Procs PROVE ResolvedOnce(q, pending[q])'
  <2>1. CASE q = p
    <3>1. pending'[q] = Tail(s)
      BY <1>1, <2>1 DEF TypeInv
    <3>2. QED
      BY <1>4, <2>1, <3>1 DEF ResolvedOnce, Before
  <2>2. CASE q # p
    <3>1. pending'[q] = pending[q] /\ mem'[q] = mem[q]
      BY <1>1, <2>2 DEF TypeInv, TypeOK
    <3>2. QED
      BY <3>1 DEF ResolveInv, ResolvedOnce, Before
  <2>3. QED
    BY <2>1, <2>2
<1>6. QED
  BY <1>5 DEF ResolveInv

\* What an operation begins with: only the verification's lines resolve a case that
\* its snapshot does not hold resolved (policy.allowed_transition).
LEMMA ResolveInvOperation ==
  ASSUME TypeInv, ResolveInv, NEW p \in Procs, Operation(p) PROVE ResolveInv'
<1>1. PICK s \in Seq(Lines) : Begin(p, s) /\ ((Observing(p, s) /\ sent' = sent) \/ Calls(p, s))
  BY Operations
<1>2. pending' = [pending EXCEPT ![p] = s] /\ mem' = mem
  BY <1>1 DEF Begin
<1>3. ResolvedOnce(p, s)
  <2>1. CASE Observing(p, s)
    BY <2>1 DEF Observing, ResolvedOnce
  <2>2. CASE Calls(p, s)
    <3>1. PICK event \in Events, update \in Updates : Calling(s, mem[p], event, update)
      BY <2>2 DEF Calls
    <3>2. mem[p] \in Store /\ mem[p].case \in Case
      BY DEF TypeInv, TypeOK, Store
    <3>3. ASSUME NEW i \in 1..Len(s), s[i].kind = "case", s[i].value.status = "resolved"
          PROVE  mem[p].case.status = "resolved" /\ ~Before(s, i, "case")
      <4>1. Len(s) = 3 /\ i = 2
        BY <3>1, <3>3 DEF Calling
      <4>2. mem[p].case.status = "resolved"
        BY <3>1, <3>2, <3>3, <4>1, UpdatedCase DEF Calling
      <4>3. ~Before(s, i, "case")
        BY <3>1, <4>1 DEF Calling, Before
      <4>4. QED
        BY <4>2, <4>3
    <3>4. QED
      BY <3>3 DEF ResolvedOnce
  <2>3. QED
    BY <1>1, <2>1, <2>2
<1>4. QED
  BY <1>2, <1>3 DEF TypeInv, ResolveInv, ResolvedOnce, Before

LEMMA ResolveInvStep == TypeInv /\ ResolveInv /\ [Next]_vars => ResolveInv'
<1> SUFFICES ASSUME TypeInv, ResolveInv, [Next]_vars PROVE ResolveInv'
  OBVIOUS
<1>1. ASSUME NEW p \in Procs, Start(p) PROVE ResolveInv'
  <2>1. pending' = pending /\ pending[p] = <<>> /\ \A q \in Procs : q # p => mem'[q] = mem[q]
    BY <1>1 DEF Start, TypeInv, TypeOK
  <2>2. QED
    BY <2>1, EmptySeq DEF ResolveInv, ResolvedOnce, Before
<1>2. ASSUME NEW p \in Procs, Ends(p) PROVE ResolveInv'
  <2>1. /\ pending'[p] = <<>>
        /\ \A q \in Procs : q # p => pending'[q] = pending[q] /\ mem'[q] = mem[q]
    BY <1>2 DEF Ends, TypeInv, TypeOK
  <2>2. QED
    BY <2>1, EmptySeq DEF ResolveInv, ResolvedOnce, Before
<1>3. CASE Mends
  BY <1>3 DEF Mends, ResolveInv, ResolvedOnce, Before
<1>4. QED
  BY <1>1, <1>2, <1>3, ResolveInvPut, ResolveInvOperation, Steps

\* With any processes at once, however stale their snapshots: the stored case turns
\* resolved by verify_case in `socctl posture verify`, or by a process that loaded
\* the case resolved and writes it back; no callback and no posture cycle resolves a
\* case it does not already hold resolved.
THEOREM ResolutionsAreTheVerifiers == Spec => ResolutionIsTheVerifiers
<1>1. Init => ResolveInv
  BY EmptySeq DEF Init, ResolveInv, ResolvedOnce
<1>2. ASSUME TypeInv, ResolveInv, [Next]_vars,
             disk.case.status # "resolved", disk'.case.status = "resolved"
      PROVE  \E p \in Procs : /\ pending'[p] # pending[p]
                              /\ p = Verify \/ mem[p].case.status = "resolved"
  <2>1. PICK p \in Procs : Put(p)
    BY <1>2, Steps, Operations DEF Start, Ends, Begin, Mends
  <2>2. /\ pending[p] # <<>> /\ pending[p] \in Seq(Lines)
        /\ pending' = [pending EXCEPT ![p] = Tail(pending[p])]
    BY <1>2, <2>1, Putting DEF TypeInv
  <2>3. pending[p][1].kind = "case" /\ pending[p][1].value.status = "resolved"
    BY <1>2, <2>1, PutFields
  <2>4. p = Verify \/ mem[p].case.status = "resolved"
    BY <1>2, <2>2, <2>3, Removed DEF ResolveInv, ResolvedOnce
  <2>5. pending'[p] = Tail(pending[p]) /\ Len(Tail(pending[p])) # Len(pending[p])
    BY <1>2, <2>2, Removed DEF TypeInv
  <2>6. QED
    BY <2>4, <2>5
<1>3. TypeInv /\ ResolveInv /\ [Next]_vars =>
        [disk.case.status # "resolved" /\ disk'.case.status = "resolved"
           => \E p \in Procs : /\ pending'[p] # pending[p]
                               /\ p = Verify \/ mem[p].case.status = "resolved"]_vars
  BY <1>2
<1>4. QED
  BY <1>1, <1>3, ResolveInvStep, TypeInvInit, TypeInvStep, PTL
  DEF Spec, ResolutionIsTheVerifiers

-----------------------------------------------------------------------------
(* One process at a time: what an acknowledged event stands for. *)

\* A handoff that is stored, known or about to be put has a case, or the case's
\* line was lost.
HandoffHasCase ==
    /\ disk.handoff # Absent => Exists(disk.case) \/ "case" \in lost
    /\ \A p \in up : mem[p].handoff # Absent => Exists(mem[p].case) \/ "case" \in lost
    /\ \A p \in up : \A i \in 1..Len(pending[p]) :
          pending[p][i].kind = "handoff" =>
              Exists(mem[p].case) \/ "case" \in lost \/ Before(pending[p], i, "case")

\* The puts before an event's line carry its status, or are done.
Carried(s, i, status) ==
    /\ Before(s, i, "handoff") \/ "handoff" \in lost \/ disk.handoff = status
    /\ Before(s, i, "case") \/ "case" \in lost \/ disk.case.handoff_status = status
    /\ \A j \in 1..(i - 1) :
          /\ s[j].kind = "handoff" => s[j].value = status
          /\ s[j].kind = "case" => s[j].value.handoff_status = status

EventsCarried ==
    \A p \in up : \A i \in 1..Len(pending[p]) :
        pending[p][i].kind = "callbacks" =>
            Carried(pending[p], i, sent[pending[p][i].value].status)

AckInv == HandoffHasCase /\ EventsCarried

LEMMA AckInvPut ==
  ASSUME TypeInv, SyncInv, AckInv, NEW p \in Procs, Put(p) PROVE AckInv'
<1> DEFINE s == pending[p]
           line == s[1]
<1>1. /\ p \in up /\ up' = up /\ line \in Lines /\ s # <<>> /\ s \in Seq(Lines)
      /\ pending' = [pending EXCEPT ![p] = Tail(s)] /\ sent' = sent
  BY Putting DEF TypeInv
<1>2. \A q \in up' : q = p
  BY <1>1 DEF SyncInv, OneUp
<1>3. pending'[p] = Tail(s)
  BY <1>1 DEF TypeInv
<1>4. /\ \A k \in Kinds \ {line.kind} : k \in lost' <=> k \in lost
      /\ line.kind = "case" =>
            mem'[p].case = line.value /\ ("case" \in lost' \/ disk'.case = line.value)
      /\ line.kind = "handoff" =>
            /\ mem'[p].handoff = line.value
            /\ "handoff" \in lost' \/ disk'.handoff = line.value
      /\ line.kind # "case" => mem'[p].case = mem[p].case /\ disk'.case = disk.case
      /\ line.kind # "handoff" =>
            mem'[p].handoff = mem[p].handoff /\ disk'.handoff = disk.handoff
      /\ disk'.case = disk.case \/ (line.kind = "case" /\ disk'.case = line.value)
      /\ disk'.handoff = disk.handoff
            \/ (line.kind = "handoff" /\ disk'.handoff = line.value)
  BY PutFields
<1>5. 1 \in 1..Len(s) /\ ~Before(s, 1, "case")
  BY <1>1, Removed DEF Before
<1>6. line.kind = "case" => Exists(line.value)
  BY <1>1, LineTypes
<1>7. "case" \in Kinds /\ "handoff" \in Kinds
  BY DEF Kinds
<1>8. line.kind = "handoff" => Exists(mem[p].case) \/ "case" \in lost
  BY <1>1, <1>5 DEF AckInv, HandoffHasCase
<1>9. /\ \A i \in 1..Len(s) : s[i].kind = "handoff" =>
            Exists(mem[p].case) \/ "case" \in lost \/ Before(s, i, "case")
      /\ \A i \in 1..Len(s) : s[i].kind = "callbacks" =>
            Carried(s, i, sent[s[i].value].status)
      /\ mem[p].handoff # Absent => Exists(mem[p].case) \/ "case" \in lost
      /\ disk.handoff # Absent => Exists(disk.case) \/ "case" \in lost
      /\ "case" \in lost \/ disk.case = mem[p].case
  BY <1>1 DEF AckInv, HandoffHasCase, EventsCarried, SyncInv, InSync
<1> HIDE DEF s, line
<1>10. /\ Exists(mem[p].case) \/ "case" \in lost => Exists(mem'[p].case) \/ "case" \in lost'
       /\ Exists(disk.case) \/ "case" \in lost => Exists(disk'.case) \/ "case" \in lost'
       /\ line.kind = "case" => Exists(mem'[p].case)
  BY <1>4, <1>6, <1>7
<1>11. disk'.handoff # Absent => Exists(disk'.case) \/ "case" \in lost'
  BY <1>4, <1>8, <1>9, <1>10
<1>12. mem'[p].handoff # Absent => Exists(mem'[p].case) \/ "case" \in lost'
  BY <1>4, <1>8, <1>9, <1>10
<1>13. ASSUME NEW i \in 1..Len(Tail(s)), Tail(s)[i].kind = "handoff"
       PROVE  Exists(mem'[p].case) \/ "case" \in lost' \/ Before(Tail(s), i, "case")
  <2>1. Tail(s)[i] = s[i + 1] /\ i + 1 \in 1..Len(s)
    BY <1>1, Removed
  <2>2. Exists(mem[p].case) \/ "case" \in lost \/ Before(s, i + 1, "case")
    BY <1>9, <1>13, <2>1
  <2>3. Before(s, i + 1, "case") => line.kind = "case" \/ Before(Tail(s), i, "case")
    BY <1>1, BeforeRemoved DEF line
  <2>4. QED
    BY <1>10, <2>2, <2>3
<1> DEFINE CarriedNext(i, status) ==
              /\ Before(Tail(s), i, "handoff") \/ "handoff" \in lost' \/ disk'.handoff = status
              /\ Before(Tail(s), i, "case") \/ "case" \in lost'
                   \/ disk'.case.handoff_status = status
              /\ \A j \in 1..(i - 1) :
                    /\ Tail(s)[j].kind = "handoff" => Tail(s)[j].value = status
                    /\ Tail(s)[j].kind = "case" => Tail(s)[j].value.handoff_status = status
<1>14. ASSUME NEW i \in 1..Len(Tail(s)), NEW status, Carried(s, i + 1, status)
       PROVE  CarriedNext(i, status)
  <2>1. /\ line.kind = "handoff" => line.value = status
        /\ line.kind = "case" => line.value.handoff_status = status
    <3>1. 1 \in 1..((i + 1) - 1)
      BY <1>1, Removed
    <3>2. QED
      BY <1>14, <3>1 DEF Carried, line
  <2>2. Before(s, i + 1, "handoff") => line.kind = "handoff" \/ Before(Tail(s), i, "handoff")
    BY <1>1, BeforeRemoved DEF line
  <2>3. Before(s, i + 1, "case") => line.kind = "case" \/ Before(Tail(s), i, "case")
    BY <1>1, BeforeRemoved DEF line
  <2>4. Before(Tail(s), i, "handoff") \/ "handoff" \in lost' \/ disk'.handoff = status
    BY <1>4, <1>7, <1>14, <2>1, <2>2 DEF Carried
  <2>5. Before(Tail(s), i, "case") \/ "case" \in lost' \/ disk'.case.handoff_status = status
    BY <1>4, <1>7, <1>14, <2>1, <2>3 DEF Carried
  <2>6. ASSUME NEW j \in 1..(i - 1)
        PROVE  /\ Tail(s)[j].kind = "handoff" => Tail(s)[j].value = status
               /\ Tail(s)[j].kind = "case" => Tail(s)[j].value.handoff_status = status
    <3>1. j \in 1..Len(Tail(s)) /\ j + 1 \in 1..((i + 1) - 1)
      BY <1>1, Removed
    <3>2. Tail(s)[j] = s[j + 1]
      BY <1>1, <3>1, Removed
    <3>3. QED
      BY <1>14, <3>1, <3>2 DEF Carried
  <2>7. QED
    BY <2>4, <2>5, <2>6
<1>15. ASSUME NEW i \in 1..Len(Tail(s)), Tail(s)[i].kind = "callbacks"
       PROVE  Carried(s, i + 1, sent[Tail(s)[i].value].status)
  <2>1. Tail(s)[i] = s[i + 1] /\ i + 1 \in 1..Len(s)
    BY <1>1, Removed
  <2>2. QED
    BY <1>9, <1>15, <2>1
<1>16. HandoffHasCase'
  BY <1>2, <1>3, <1>11, <1>12, <1>13 DEF HandoffHasCase, Before
<1>17. EventsCarried'
  <2> SUFFICES ASSUME NEW i \in 1..Len(Tail(s)), Tail(s)[i].kind = "callbacks"
               PROVE  Carried(pending[p], i, sent[pending[p][i].value].status)'
    BY <1>2, <1>3 DEF EventsCarried
  <2>0. PICK status : status = sent[Tail(s)[i].value].status
    OBVIOUS
  <2>1. Carried(s, i + 1, status)
    BY <1>15, <2>0
  <2> HIDE DEF CarriedNext
  <2>2. CarriedNext(i, status)
    BY <1>14, <2>1
  <2>3. sent'[pending'[p][i].value].status = status
    BY <1>1, <1>3, <2>0
  <2>4. QED
    BY <1>3, <2>2, <2>3 DEF Carried, CarriedNext, Before
<1>18. QED
  BY <1>16, <1>17 DEF AckInv

LEMMA AckInvOperation ==
  ASSUME TypeInv, SyncInv, AckInv, NEW p \in Procs, Operation(p) PROVE AckInv'
<1>1. PICK s \in Seq(Lines) : Begin(p, s) /\ ((Observing(p, s) /\ sent' = sent) \/ Calls(p, s))
  BY Operations
<1>2. /\ pending' = [pending EXCEPT ![p] = s] /\ UNCHANGED <<disk, up, mem, lost>>
      /\ p \in up
  BY <1>1 DEF Begin, Ready
<1>3. \A q \in up' : q = p
  BY <1>2 DEF SyncInv, OneUp
<1>4. pending'[p] = s
  BY <1>2 DEF TypeInv
<1>5. CASE Observing(p, s)
  <2>1. /\ \A i \in 1..Len(s) : s[i].kind = "handoff" => Before(s, i, "case")
        /\ \A i \in 1..Len(s) : s[i].kind # "callbacks"
    BY <1>5 DEF Observing
  <2>2. HandoffHasCase'
    BY <1>2, <1>3, <1>4, <2>1 DEF AckInv, HandoffHasCase, Before
  <2>3. EventsCarried'
    BY <1>3, <1>4, <2>1 DEF EventsCarried
  <2>4. QED
    BY <2>2, <2>3 DEF AckInv
<1>6. CASE Calls(p, s)
  <2>1. PICK event \in Events, update \in Updates :
             sent' = [sent EXCEPT ![event] = update] /\ Calling(s, mem[p], event, update)
    BY <1>6 DEF Calls
  <2>2. mem[p] \in Store /\ mem[p].case \in Case /\ sent'[event] = update
    BY <2>1 DEF TypeInv, TypeOK, Store
  <2>3. Exists(mem[p].case) \/ "case" \in lost
    BY <1>2, <2>1 DEF Calling, AckInv, HandoffHasCase
  <2>4. HandoffHasCase'
    BY <1>2, <1>3, <2>3 DEF AckInv, HandoffHasCase
  <2>5. ASSUME NEW i \in 1..Len(s), s[i].kind = "callbacks"
        PROVE  Carried(s, i, sent'[s[i].value].status)
    <3>1. i = Len(s) /\ s[i].value = event /\ Len(s) \in {2, 3}
      BY <2>1, <2>5 DEF Calling
    <3>2. s[1].kind = "handoff" /\ s[1].value = update.status /\ 1 \in 1..(i - 1)
      BY <2>1, <3>1 DEF Calling
    <3>3. Before(s, i, "handoff")
      BY <3>2 DEF Before
    <3>4. CASE Len(s) = 2
      <4>1. "case" \in lost
        BY <2>1, <2>3, <3>4 DEF Calling
      <4>2. \A j \in 1..(i - 1) : j = 1
        BY <3>1, <3>4
      <4>3. QED
        BY <2>2, <3>1, <3>2, <3>3, <4>1, <4>2 DEF Carried
    <3>5. CASE Len(s) = 3
      <4>1. /\ s[2].kind = "case" /\ s[2].value.handoff_status = update.status
        BY <2>1, <2>2, <3>5, UpdatedCase DEF Calling
      <4>2. 2 \in 1..(i - 1) /\ \A j \in 1..(i - 1) : j = 1 \/ j = 2
        BY <3>1, <3>5
      <4>3. Before(s, i, "case")
        BY <4>1, <4>2 DEF Before
      <4>4. QED
        BY <2>2, <3>1, <3>2, <3>3, <4>1, <4>2, <4>3 DEF Carried
    <3>6. QED
      BY <3>1, <3>4, <3>5
  <2>6. EventsCarried'
    BY <1>2, <1>3, <1>4, <2>5 DEF EventsCarried, Carried, Before
  <2>7. QED
    BY <2>4, <2>6 DEF AckInv
<1>7. QED
  BY <1>1, <1>5, <1>6

LEMMA AckInvStep ==
  ASSUME Exclusive PROVE TypeInv /\ SyncInv /\ AckInv /\ [Next]_vars => AckInv'
<1> SUFFICES ASSUME TypeInv, SyncInv, AckInv, [Next]_vars PROVE AckInv'
  OBVIOUS
<1>1. ASSUME NEW p \in Procs, Start(p) PROVE AckInv'
  <2>1. up = {} /\ up' = {p} /\ pending' = pending /\ pending[p] = <<>>
    BY <1>1 DEF Start, TypeInv
  <2>2. Len(pending'[p]) = 0 /\ mem'[p] = disk
    BY <1>1, <2>1, EmptySeq DEF Start, TypeInv, TypeOK
  <2>3. QED
    BY <1>1, <2>1, <2>2 DEF Start, AckInv, HandoffHasCase, EventsCarried
<1>2. ASSUME NEW p \in Procs, Ends(p) PROVE AckInv'
  <2>1. up' = {} /\ disk' = disk /\ lost' = lost
    BY <1>2 DEF Ends, SyncInv, OneUp
  <2>2. QED
    BY <2>1 DEF AckInv, HandoffHasCase, EventsCarried
<1>3. CASE Mends
  BY <1>3 DEF Mends, AckInv, HandoffHasCase, EventsCarried, Carried
<1>4. QED
  BY <1>1, <1>2, <1>3, AckInvPut, AckInvOperation, Steps

\* record_engineering_update puts the handoff and the case before the event enters
\* the inbox: so with one process at a time a retry is ignored only when its update
\* is stored, wherever the server died before, or its line was lost to a fragment.
THEOREM AcknowledgedIsStored == ASSUME Exclusive PROVE Spec => AcknowledgedUpdateStored
<1>1. Init => AckInv
  BY EmptyTypes DEF Init, AckInv, HandoffHasCase, EventsCarried
<1>2. ASSUME TypeInv, AckInv, [Next]_vars, NEW e \in Events,
             e \in disk'.callbacks \ disk.callbacks
      PROVE  /\ "handoff" \in lost \/ disk.handoff = sent[e].status
             /\ "case" \in lost \/ disk.case.handoff_status = sent[e].status
  <2>1. PICK p \in Procs : Put(p)
    BY <1>2, Steps, Operations DEF Start, Ends, Begin, Mends
  <2>2. pending[p] # <<>> /\ pending[p] \in Seq(Lines) /\ p \in up
    BY <1>2, <2>1, Putting DEF TypeInv
  <2>3. pending[p][1].kind = "callbacks" /\ pending[p][1].value = e
    BY <1>2, <2>1, PutFields
  <2>4. Carried(pending[p], 1, sent[e].status)
    BY <1>2, <2>2, <2>3, Removed DEF AckInv, EventsCarried
  <2>5. QED
    BY <2>4 DEF Carried, Before
<1>3. TypeInv /\ AckInv /\ [Next]_vars =>
        [\A e \in Events :
            e \in disk'.callbacks \ disk.callbacks =>
                /\ "handoff" \in lost \/ disk.handoff = sent[e].status
                /\ "case" \in lost \/ disk.case.handoff_status = sent[e].status]_vars
  BY <1>2
<1>4. QED
  BY <1>1, <1>3, AckInvStep, SyncInvInit, SyncInvStep, TypeInvInit, TypeInvStep, PTL
  DEF Spec, AcknowledgedUpdateStored

-----------------------------------------------------------------------------
(* One process at a time and no torn lines: no false all-clear on disk.     *)

\* What a line may make of the stored case c: a failing read leaves it active
\* with no streak; a pass counts one more of an active case; any other line keeps
\* it active with no longer a streak, keeps it terminal, or resolves it when its
\* streak is complete.
Justified(c, line) ==
    line.kind = "case" =>
        \/ /\ line.read = "fail"
           /\ line.value.status \in ActiveStatuses
           /\ line.value.consecutive_pass_count = 0
        \/ /\ line.read = "pass"
           /\ c.status \in ActiveStatuses /\ line.value.status \in ActiveStatuses
           /\ line.value.consecutive_pass_count = c.consecutive_pass_count + 1
        \/ /\ line.read = "none"
           /\ \/ /\ c.status \in ActiveStatuses /\ line.value.status \in ActiveStatuses
                 /\ line.value.consecutive_pass_count <= c.consecutive_pass_count
              \/ c.status \in TerminalStatuses /\ line.value.status \in TerminalStatuses
              \/ /\ c.status \in ActiveStatuses /\ line.value.status = "resolved"
                 /\ c.consecutive_pass_count >= Required

\* The stored case after a line.
CaseAfter(c, line) == IF line.kind = "case" THEN line.value ELSE c

\* The lines s take the stored case from c to d, each of them justified by the
\* case it finds.
Leads(c, s, d) ==
    /\ s \in Seq(Lines)
    /\ \E h \in [1..(Len(s) + 1) -> Case] :
          /\ h[1] = c /\ h[Len(s) + 1] = d
          /\ \A i \in 1..Len(s) :
                Justified(h[i], s[i]) /\ h[i + 1] = CaseAfter(h[i], s[i])

LEMMA LeadsNowhere == ASSUME NEW c \in Case PROVE Leads(c, <<>>, c)
<1> DEFINE h == [i \in 1..(0 + 1) |-> c]
<1>1. <<>> \in Seq(Lines) /\ Len(<<>>) = 0
  BY EmptySeq
<1>2. h \in [1..(0 + 1) -> Case] /\ h[1] = c /\ h[0 + 1] = c
  OBVIOUS
<1> HIDE DEF h
<1>3. QED
  BY <1>1, <1>2 DEF Leads

LEMMA LeadsByOne ==
  ASSUME NEW c \in Case, NEW a \in Lines, Justified(c, a)
  PROVE  Leads(c, <<a>>, CaseAfter(c, a))
<1> DEFINE d == CaseAfter(c, a)
           h == [i \in 1..(1 + 1) |-> IF i = 1 THEN c ELSE d]
<1>1. d \in Case
  BY LineTypes DEF CaseAfter
<1>2. <<a>> \in Seq(Lines) /\ Len(<<a>>) = 1 /\ <<a>>[1] = a
  BY Tuples
<1> HIDE DEF d
<1>3. h \in [1..(1 + 1) -> Case] /\ h[1] = c /\ h[1 + 1] = d
  BY <1>1
<1> HIDE DEF h
<1>4. \A i \in 1..1 : i = 1
  OBVIOUS
<1>5. QED
  BY <1>2, <1>3, <1>4 DEF Leads, d

LEMMA LeadsJoined ==
  ASSUME NEW c, NEW s, NEW d, NEW t, NEW e, Leads(c, s, d), Leads(d, t, e)
  PROVE  Leads(c, s \o t, e)
<1>1. PICK g \in [1..(Len(s) + 1) -> Case] :
        /\ g[1] = c /\ g[Len(s) + 1] = d
        /\ \A i \in 1..Len(s) : Justified(g[i], s[i]) /\ g[i + 1] = CaseAfter(g[i], s[i])
  BY DEF Leads
<1>2. PICK h \in [1..(Len(t) + 1) -> Case] :
        /\ h[1] = d /\ h[Len(t) + 1] = e
        /\ \A i \in 1..Len(t) : Justified(h[i], t[i]) /\ h[i + 1] = CaseAfter(h[i], t[i])
  BY DEF Leads
<1> DEFINE r == s \o t
           m == Len(s)
           n == Len(t)
           k == [i \in 1..((m + n) + 1) |-> IF i <= m THEN g[i] ELSE h[i - m]]
<1>3. /\ r \in Seq(Lines) /\ Len(r) = m + n /\ m \in Nat /\ n \in Nat
      /\ \A i \in 1..m : r[i] = s[i]
      /\ \A i \in 1..n : r[m + i] = t[i]
  BY Joined DEF Leads
<1> HIDE DEF r, m, n
<1>4. /\ \A i \in 1..m : k[i] = g[i]
      /\ \A i \in 1..(n + 1) : k[m + i] = h[i]
  BY <1>3
<1>5. k \in [1..((m + n) + 1) -> Case]
  <2>1. SUFFICES ASSUME NEW i \in 1..((m + n) + 1)
                 PROVE  (IF i <= m THEN g[i] ELSE h[i - m]) \in Case
    OBVIOUS
  <2>2. CASE i <= m
    BY <1>1, <1>3, <2>2 DEF m
  <2>3. CASE ~(i <= m)
    <3>1. i - m \in 1..(n + 1)
      BY <1>3, <2>3
    <3>2. QED
      BY <1>2, <2>3, <3>1 DEF n
  <2>4. QED
    BY <2>2, <2>3
<1> HIDE DEF k
<1>6. k[1] = c /\ k[(m + n) + 1] = e
  <2>1. k[m + (n + 1)] = h[n + 1] /\ m + (n + 1) = (m + n) + 1
    BY <1>3, <1>4
  <2>2. CASE m = 0
    <3>1. k[0 + 1] = h[1] /\ g[0 + 1] = d
      BY <1>1, <1>3, <1>4, <2>2 DEF m
    <3>2. QED
      BY <1>1, <1>2, <2>1, <3>1 DEF n
  <2>3. CASE m # 0
    <3>1. 1 \in 1..m
      BY <1>3, <2>3
    <3>2. QED
      BY <1>1, <1>2, <1>4, <2>1, <3>1 DEF n
  <2>4. QED
    BY <2>2, <2>3
<1>7. k[m + 1] = d
  <2>1. 1 \in 1..(n + 1)
    BY <1>3
  <2>2. QED
    BY <1>2, <1>4, <2>1
<1>8. ASSUME NEW i \in 1..(m + n)
      PROVE  Justified(k[i], r[i]) /\ k[i + 1] = CaseAfter(k[i], r[i])
  <2>1. CASE i \in 1..m
    <3>1. k[i] = g[i] /\ r[i] = s[i] /\ Justified(g[i], s[i]) /\ g[i + 1] = CaseAfter(g[i], s[i])
      BY <1>1, <1>3, <1>4, <2>1 DEF m
    <3>2. k[i + 1] = g[i + 1]
      <4>1. CASE i = m
        BY <1>1, <1>7, <4>1 DEF m
      <4>2. CASE i # m
        <5>1. i + 1 \in 1..m
          BY <1>3, <2>1, <4>2
        <5>2. QED
          BY <1>4, <5>1
      <4>3. QED
        BY <4>1, <4>2
    <3>3. QED
      BY <3>1, <3>2
  <2>2. CASE i \notin 1..m
    <3> DEFINE j == i - m
    <3>1. j \in 1..n /\ j \in 1..(n + 1) /\ j + 1 \in 1..(n + 1)
          /\ m + j = i /\ m + (j + 1) = i + 1
      BY <1>3, <2>2
    <3> HIDE DEF j
    <3>2. k[i] = h[j] /\ k[i + 1] = h[j + 1] /\ r[i] = t[j]
      BY <1>3, <1>4, <3>1
    <3>3. QED
      BY <1>2, <3>1, <3>2 DEF n
  <2>3. QED
    BY <2>1, <2>2
<1>9. QED
  BY <1>3, <1>5, <1>6, <1>8 DEF Leads, r

\* What is left of the lines after one of them is put.
LEMMA LeadsOn ==
  ASSUME NEW c, NEW s, NEW d, Leads(c, s, d), s # <<>>
  PROVE  Justified(c, s[1]) /\ Leads(CaseAfter(c, s[1]), Tail(s), d)
<1>1. PICK h \in [1..(Len(s) + 1) -> Case] :
        /\ h[1] = c /\ h[Len(s) + 1] = d
        /\ \A i \in 1..Len(s) : Justified(h[i], s[i]) /\ h[i + 1] = CaseAfter(h[i], s[i])
  BY DEF Leads
<1> DEFINE t == Tail(s)
           n == Len(s)
           k == [i \in 1..((n - 1) + 1) |-> h[i + 1]]
<1>2. /\ n \in Nat \ {0} /\ t \in Seq(Lines) /\ Len(t) = n - 1
      /\ \A i \in 1..Len(t) : t[i] = s[i + 1] /\ i + 1 \in 1..n
  BY Removed DEF Leads
<1>3. Justified(c, s[1]) /\ h[1 + 1] = CaseAfter(c, s[1])
  <2>1. 1 \in 1..n
    BY <1>2
  <2>2. QED
    BY <1>1, <2>1
<1> HIDE DEF t, n
<1>4. k \in [1..((n - 1) + 1) -> Case]
  <2>1. \A i \in 1..((n - 1) + 1) : i + 1 \in 1..(n + 1)
    BY <1>2
  <2>2. QED
    BY <1>1, <2>1 DEF n
<1>5. k[1] = CaseAfter(c, s[1]) /\ k[(n - 1) + 1] = d
  <2>1. 1 \in 1..((n - 1) + 1) /\ (n - 1) + 1 \in 1..((n - 1) + 1) /\ ((n - 1) + 1) + 1 = n + 1
    BY <1>2
  <2>2. QED
    BY <1>1, <1>3, <2>1 DEF n
<1>6. ASSUME NEW i \in 1..(n - 1)
      PROVE  Justified(k[i], t[i]) /\ k[i + 1] = CaseAfter(k[i], t[i])
  <2>1. i \in 1..((n - 1) + 1) /\ i + 1 \in 1..((n - 1) + 1) /\ i + 1 \in 1..n
    BY <1>2
  <2>2. t[i] = s[i + 1]
    BY <1>2
  <2>3. k[i] = h[i + 1] /\ k[i + 1] = h[(i + 1) + 1]
    BY <2>1
  <2>4. QED
    BY <1>1, <2>1, <2>2, <2>3 DEF n
<1> HIDE DEF k
<1>7. QED
  BY <1>2, <1>3, <1>4, <1>5, <1>6 DEF Leads, t

LEMMA Pair == ASSUME NEW a \in Lines, NEW b \in Lines PROVE <<a>> \o <<b>> = <<a, b>>
<1>1. /\ <<a>> \in Seq(Lines) /\ Len(<<a>>) = 1 /\ <<a>>[1] = a
      /\ <<b>> \in Seq(Lines) /\ Len(<<b>>) = 1 /\ <<b>>[1] = b
      /\ <<a, b>> \in Seq(Lines) /\ Len(<<a, b>>) = 2
      /\ <<a, b>>[1] = a /\ <<a, b>>[2] = b
  BY Tuples
<1> DEFINE s == <<a>> \o <<b>>
<1>2. s \in Seq(Lines) /\ Len(s) = 2 /\ s[1] = a /\ s[2] = b
  BY <1>1, Joined
<1> HIDE DEF s
<1>3. \A i \in 1..2 : s[i] = <<a, b>>[i]
  BY <1>1, <1>2
<1>4. QED
  BY <1>1, <1>2, <1>3, SeqEqual DEF s

\* Lines that are not about the case leave it alone.
LEMMA LeadsPast ==
  ASSUME NEW c \in Case, NEW a \in Lines, a.kind # "case" PROVE Leads(c, <<a>>, c)
<1>1. Justified(c, a) /\ CaseAfter(c, a) = c
  BY DEF Justified, CaseAfter
<1>2. QED
  BY <1>1, LeadsByOne

LEMMA LeadsToCase ==
  ASSUME NEW c \in Case, NEW d \in Case, Exists(d), NEW read \in {"none", "pass", "fail"},
         Justified(c, CaseLine(d, read))
  PROVE  Leads(c, <<CaseLine(d, read)>>, d)
<1>1. CaseLine(d, read) \in Lines /\ CaseAfter(c, CaseLine(d, read)) = d
  BY CaseLineType DEF CaseAfter
<1>2. QED
  BY <1>1, LeadsByOne

\* The streaks of the cases that the operations put.
LEMMA Streaks ==
  ASSUME NEW c \in Case
  PROVE  /\ Refreshed(c).consecutive_pass_count = 0
         /\ Refreshed(c).status \in ActiveStatuses
         /\ RecordFailing(c).consecutive_pass_count = 0
         /\ RecordFailing(c).status \in ActiveStatuses
         /\ HandedOff(c).consecutive_pass_count = c.consecutive_pass_count
         /\ HandedOff(c).status \in ActiveStatuses
         /\ NoteScanDegraded(c).consecutive_pass_count = c.consecutive_pass_count
         /\ c.consecutive_pass_count \in Nat
<1>1. Refreshed(c).consecutive_pass_count = 0 /\ c.consecutive_pass_count \in Nat
  BY DEF Refreshed, Case
<1>2. Refreshed(c).status \in ActiveStatuses
  BY DEF Refreshed, Case, CaseStatuses, ActiveStatuses, TerminalStatuses
<1>3. /\ RecordFailing(c).consecutive_pass_count = 0
      /\ RecordFailing(c).status \in ActiveStatuses
  <2>1. RecordFailing(c) = Refreshed(c)
        \/ RecordFailing(c) = [Refreshed(c) EXCEPT !.status = "triaged"]
    BY DEF RecordFailing, Transition
  <2>2. "triaged" \in ActiveStatuses /\ Refreshed(c) \in Case
    BY RefreshedCase DEF ActiveStatuses
  <2>3. QED
    BY <1>1, <1>2, <2>1, <2>2 DEF Case
<1>4. HandedOff(c).consecutive_pass_count = c.consecutive_pass_count
  BY DEF HandedOff, Case
<1>5. HandedOff(c).status \in ActiveStatuses
  BY DEF HandedOff, Case, ActiveStatuses
<1>6. NoteScanDegraded(c).consecutive_pass_count = c.consecutive_pass_count
  BY DEF NoteScanDegraded, Case
<1>7. QED
  BY <1>1, <1>2, <1>3, <1>4, <1>5, <1>6

LEMMA FailingLeads ==
  ASSUME NEW c \in Case
  PROVE  \E d \in Case : /\ Leads(c, FailingPuts(c), d)
                         /\ d.status \in ActiveStatuses /\ d.consecutive_pass_count = 0
<1> DEFINE d == Refreshed(c)
           e == RecordFailing(c)
           a == CaseLine(d, "fail")
           b == CaseLine(e, "fail")
<1>1. /\ d \in Case /\ Exists(d) /\ d.status \in ActiveStatuses
      /\ d.consecutive_pass_count = 0
      /\ e \in Case /\ Exists(e) /\ e.status \in ActiveStatuses
      /\ e.consecutive_pass_count = 0
  BY RefreshedCase, FailingCase, Streaks
<1>2. Justified(c, a) /\ Justified(d, b)
  <2>1. /\ a.kind = "case" /\ a.read = "fail" /\ a.value = d
        /\ b.kind = "case" /\ b.read = "fail" /\ b.value = e
    BY DEF CaseLine
  <2> HIDE DEF a, b, d, e
  <2>2. QED
    BY <1>1, <2>1 DEF Justified
<1>3. Leads(c, <<a>>, d) /\ Leads(d, <<b>>, e)
  BY <1>1, <1>2, LeadsToCase
<1>4. FailingPuts(c) = <<a>> \/ FailingPuts(c) = <<a>> \o <<b>>
  <2>1. <<a>> \o <<b>> = <<a, b>>
    BY <1>1, CaseLineType, Pair
  <2>2. QED
    BY <2>1 DEF FailingPuts
<1> HIDE DEF a, b, d, e
<1>5. Leads(c, <<a>> \o <<b>>, e)
  BY <1>3, LeadsJoined
<1>6. QED
  BY <1>1, <1>3, <1>4, <1>5

LEMMA RequestLeads ==
  ASSUME NEW store, NEW c \in Case, NEW d \in Case,
         d.status \in ActiveStatuses,
         c.consecutive_pass_count = 0, d.consecutive_pass_count = 0
  PROVE  \E e \in Case : Leads(d, RequestPuts(store, c), e)
<1> DEFINE a == Line("handoff", "requested")
           b == Line("objective", "pending")
           e == HandedOff(c)
           f == CaseLine(e, "none")
<1>1. a \in Lines /\ a.kind # "case" /\ b \in Lines /\ b.kind # "case"
  <2>1. "requested" \in UpdateStatuses
    BY DEF UpdateStatuses, HandoffStatuses, VerifierOnlyHandoffStatuses
  <2>2. QED
    BY <2>1, OtherLineTypes
<1>2. /\ e \in Case /\ Exists(e) /\ e.status \in ActiveStatuses
      /\ e.consecutive_pass_count = 0
  BY HandedOffCase, Streaks
<1>3. Justified(d, f)
  <2>1. f.kind = "case" /\ f.read = "none" /\ f.value = e
    BY DEF CaseLine
  <2> HIDE DEF e, f
  <2>2. QED
    BY <1>2, <2>1 DEF Justified
<1>4. Leads(d, <<a>>, d) /\ Leads(d, <<b>>, d) /\ Leads(d, <<f>>, e) /\ Leads(d, <<>>, d)
  BY <1>1, <1>2, <1>3, LeadsPast, LeadsToCase, LeadsNowhere
<1>5. \/ RequestPuts(store, c) = <<>>
      \/ RequestPuts(store, c) = (<<a>> \o <<b>>) \o <<f>>
      \/ RequestPuts(store, c) = (<<a>> \o <<b>>) \o <<>>
  <2>1. <<a>> \o <<b>> = <<a, b>>
    BY <1>1, Pair
  <2>2. QED
    BY <2>1 DEF RequestPuts
<1> HIDE DEF a, b, e, f
<1>6. Leads(d, <<a>> \o <<b>>, d)
  BY <1>4, LeadsJoined
<1>7. Leads(d, (<<a>> \o <<b>>) \o <<f>>, e) /\ Leads(d, (<<a>> \o <<b>>) \o <<>>, d)
  BY <1>4, <1>6, LeadsJoined
<1>8. QED
  BY <1>2, <1>4, <1>5, <1>7

LEMMA PassingLeads ==
  ASSUME NEW c \in Case PROVE Leads(c, PassingPuts(c), RecordPassing(c))
<1> DEFINE d == RecordPassing(c)
           a == CaseLine(d, "pass")
<1>1. CASE c.status \in ActiveStatuses
  <2>1. d \in Case /\ d.status = c.status /\ Exists(d)
    BY <1>1, PassingCase, Statuses DEF Exists
  <2>2. d.consecutive_pass_count = c.consecutive_pass_count + 1
    BY <1>1 DEF RecordPassing, Case
  <2>3. a.kind = "case" /\ a.read = "pass" /\ a.value = d
    BY DEF CaseLine
  <2>4. PassingPuts(c) = <<a>>
    BY <1>1 DEF PassingPuts
  <2>5. Justified(c, a)
    <3> HIDE DEF d, a
    <3>1. QED
      BY <1>1, <2>1, <2>2, <2>3 DEF Justified
  <2>6. QED
    BY <2>1, <2>4, <2>5, LeadsToCase
<1>2. CASE c.status \notin ActiveStatuses
  BY <1>2, LeadsNowhere DEF PassingPuts, RecordPassing
<1>3. QED
  BY <1>1, <1>2

LEMMA VerifierLeads ==
  ASSUME NEW store, NEW c \in Case PROVE \E e \in Case : Leads(c, VerifierPuts(store, c), e)
<1> DEFINE d == Verified(c)
           a == CaseLine(d, "none")
           b == Line("objective", "pass")
<1>1. CASE VerifierResolves(c)
  <2>1. d \in Case /\ d.status = "resolved" /\ Exists(d)
    BY <1>1, VerifiedCase DEF Exists, Absent
  <2>2. c.status \in ActiveStatuses /\ c.consecutive_pass_count >= Required
    BY <1>1 DEF VerifierResolves, CanResolve
  <2>3. a.kind = "case" /\ a.read = "none" /\ a.value = d
    BY DEF CaseLine
  <2>4. Justified(c, a)
    <3> HIDE DEF d, a
    <3>1. QED
      BY <2>1, <2>2, <2>3 DEF Justified
  <2>5. Leads(c, <<a>>, d)
    BY <2>1, <2>4, LeadsToCase
  <2>6. b \in Lines /\ b.kind # "case"
    BY OtherLineTypes
  <2>7. VerifierPuts(store, c) = <<a>> \o <<b>> \/ VerifierPuts(store, c) = <<a>> \o <<>>
    BY <1>1 DEF VerifierPuts
  <2> HIDE DEF a, b, d
  <2>8. Leads(d, <<b>>, d) /\ Leads(d, <<>>, d)
    BY <2>1, <2>6, LeadsPast, LeadsNowhere
  <2>9. Leads(c, <<a>> \o <<b>>, d) /\ Leads(c, <<a>> \o <<>>, d)
    BY <2>5, <2>8, LeadsJoined
  <2>10. QED
    BY <2>1, <2>7, <2>9
<1>2. CASE ~VerifierResolves(c)
  BY <1>2, LeadsNowhere DEF VerifierPuts
<1>3. QED
  BY <1>1, <1>2

\* record_engineering_update neither ends nor reopens a case, and keeps its streak.
LEMMA UpdateKeepsVerdict ==
  ASSUME NEW c \in Case, Exists(c), NEW update \in Updates
  PROVE  LET u == EngineeringUpdated(c, update)
         IN  /\ u.consecutive_pass_count = c.consecutive_pass_count
             /\ \/ c.status \in ActiveStatuses /\ u.status \in ActiveStatuses
                \/ c.status \in TerminalStatuses /\ u.status \in TerminalStatuses
<1> DEFINE target == UpdateTarget(update)
           moves == target # Absent /\ AllowedTransition(c.status, target, "engineering")
           status == IF moves THEN target ELSE c.status
<1>1. target \in {"handoff_in_progress", "verification_pending", "blocked", "failed",
                  "needs_human", Absent}
  BY DEF UpdateTarget, HandoffToCaseStatus, Updates
<1>2. c.status \in ActiveStatuses \cup TerminalStatuses
  BY DEF Case, Exists, CaseStatuses
<1>3. moves => target \in ActiveStatuses
  BY <1>1 DEF ActiveStatuses
<1>4. c.status \in TerminalStatuses => ~moves
  BY <1>1 DEF TerminalStatuses, AllowedTransition, AllowedTransitions,
              VerifierOnlyStatuses, Absent
<1>5. EngineeringUpdated(c, update) =
        [c EXCEPT !.status = status, !.handoff_status = update.status]
  BY DEF EngineeringUpdated, Case
<1>6. \/ status \in ActiveStatuses /\ c.status \in ActiveStatuses
      \/ status \in TerminalStatuses /\ c.status \in TerminalStatuses
  <2> HIDE DEF target, moves
  <2>1. QED
    BY <1>2, <1>3, <1>4
<1> HIDE DEF status
<1>7. QED
  BY <1>5, <1>6 DEF Case

LEMMA CallbackLeads ==
  ASSUME NEW store \in Store, NEW event \in Events, NEW update \in Updates
  PROVE  \E e \in Case : Leads(store.case, CallbackPuts(store, event, update), e)
<1> DEFINE c == store.case
           u == EngineeringUpdated(c, update)
           a == Line("handoff", update.status)
           f == CaseLine(u, "none")
           b == Line("callbacks", event)
<1>1. c \in Case
  BY DEF Store
<1>2. a \in Lines /\ a.kind # "case" /\ b \in Lines /\ b.kind # "case"
  BY SentStatusesAssumption, OtherLineTypes DEF Updates
<1>3. CASE CallbackPuts(store, event, update) = <<>>
  BY <1>1, <1>3, LeadsNowhere
<1>4. CASE CallbackPuts(store, event, update) # <<>> /\ Exists(c)
  <2>1. /\ u \in Case /\ Exists(u)
        /\ u.consecutive_pass_count = c.consecutive_pass_count
        /\ \/ c.status \in ActiveStatuses /\ u.status \in ActiveStatuses
           \/ c.status \in TerminalStatuses /\ u.status \in TerminalStatuses
    BY <1>1, <1>4, UpdatedCase, UpdateKeepsVerdict
  <2>2. f.kind = "case" /\ f.read = "none" /\ f.value = u
    BY DEF CaseLine
  <2>3. Justified(c, f)
    <3>1. c.consecutive_pass_count <= c.consecutive_pass_count
      BY <1>1, Streaks
    <3> HIDE DEF c, u, f
    <3>2. QED
      BY <2>1, <2>2, <3>1 DEF Justified
  <2>4. CallbackPuts(store, event, update) = (<<a>> \o <<f>>) \o <<b>>
    BY <1>4 DEF CallbackPuts
  <2>5. Leads(c, <<a>>, c) /\ Leads(c, <<f>>, u) /\ Leads(u, <<b>>, u)
    BY <1>1, <1>2, <2>1, <2>3, LeadsPast, LeadsToCase
  <2> HIDE DEF a, b, f, u, c
  <2>6. Leads(c, <<a>> \o <<f>>, u)
    BY <2>5, LeadsJoined
  <2>7. Leads(c, (<<a>> \o <<f>>) \o <<b>>, u)
    BY <2>5, <2>6, LeadsJoined
  <2>8. QED
    BY <2>1, <2>4, <2>7 DEF c
<1>5. CASE CallbackPuts(store, event, update) # <<>> /\ ~Exists(c)
  <2>1. CallbackPuts(store, event, update) = (<<a>> \o <<>>) \o <<b>>
    BY <1>5 DEF CallbackPuts
  <2>2. Leads(c, <<a>>, c) /\ Leads(c, <<>>, c) /\ Leads(c, <<b>>, c)
    BY <1>1, <1>2, LeadsPast, LeadsNowhere
  <2> HIDE DEF a, b, c
  <2>3. Leads(c, <<a>> \o <<>>, c)
    BY <2>2, LeadsJoined
  <2>4. Leads(c, (<<a>> \o <<>>) \o <<b>>, c)
    BY <2>2, <2>3, LeadsJoined
  <2>5. QED
    BY <1>1, <2>1, <2>4 DEF c
<1>6. QED
  BY <1>3, <1>4, <1>5

\* Every operation begins with lines that the snapshot's case justifies.
LEMMA OperationLeads ==
  ASSUME TypeInv, NEW p \in Procs, Operation(p)
  PROVE  \E s \in Seq(Lines), d \in Case : Begin(p, s) /\ Leads(mem[p].case, s, d)
<1> DEFINE c == mem[p].case
<1>1. mem[p] \in Store /\ c \in Case
  BY DEF TypeInv, TypeOK, Store
<1>2. SUFFICES \E s, d : d \in Case /\ Begin(p, s) /\ Leads(c, s, d)
  BY DEF Leads
<1>3. CASE ObserveFailing(p) \/ ReverifyFailing(p)
  BY <1>1, <1>3, FailingLeads DEF ObserveFailing, ReverifyFailing
<1>4. CASE HandOff(p)
  <2> DEFINE f == FailingPuts(c)
             r == RequestPuts(mem[p], RecordFailing(c))
  <2>1. Begin(p, f \o r)
    BY <1>4 DEF HandOff
  <2>2. PICK d \in Case : /\ Leads(c, f, d) /\ d.status \in ActiveStatuses
                          /\ d.consecutive_pass_count = 0
    BY <1>1, FailingLeads
  <2>3. RecordFailing(c) \in Case /\ RecordFailing(c).consecutive_pass_count = 0
    BY <1>1, FailingCase, Streaks
  <2>4. PICK e \in Case : Leads(d, r, e)
    BY <2>2, <2>3, RequestLeads
  <2> HIDE DEF f, r
  <2>5. QED
    BY <2>1, <2>2, <2>4, LeadsJoined
<1>5. CASE ObservePassing(p)
  BY <1>1, <1>5, PassingLeads, PassingCase DEF ObservePassing
<1>6. CASE ReverifyPassing(p)
  <2> DEFINE d == RecordPassing(c)
             f == PassingPuts(c)
             v == VerifierPuts(mem[p], d)
  <2>1. Begin(p, f \o v)
    BY <1>6 DEF ReverifyPassing
  <2>2. d \in Case /\ Leads(c, f, d)
    BY <1>1, PassingLeads, PassingCase
  <2>3. PICK e \in Case : Leads(d, v, e)
    BY <2>2, VerifierLeads
  <2> HIDE DEF d, f, v
  <2>4. QED
    BY <2>1, <2>2, <2>3, LeadsJoined
<1>7. CASE ReverifyDegraded(p)
  <2> DEFINE d == NoteScanDegraded(c)
             a == CaseLine(d, "none")
  <2>1. Begin(p, <<a>>) /\ c.status \in ActiveStatuses
    BY <1>7, Statuses DEF ReverifyDegraded
  <2>2. /\ d \in Case /\ d.status = c.status /\ Exists(d)
        /\ d.consecutive_pass_count <= c.consecutive_pass_count
    BY <1>1, <2>1, DegradedCase, Streaks, Statuses DEF Exists
  <2>3. a.kind = "case" /\ a.read = "none" /\ a.value = d
    BY DEF CaseLine
  <2>4. Justified(c, a)
    <3> HIDE DEF c, d, a
    <3>1. QED
      BY <2>1, <2>2, <2>3 DEF Justified
  <2>5. Leads(c, <<a>>, d)
    BY <1>1, <2>2, <2>4, LeadsToCase
  <2>6. QED
    BY <2>1, <2>2, <2>5
<1>8. ASSUME NEW event \in Events, NEW update \in Updates, Callback(p, event, update)
      PROVE  \E s, d : d \in Case /\ Begin(p, s) /\ Leads(c, s, d)
  BY <1>1, <1>8, CallbackLeads DEF Callback
<1>9. QED
  BY <1>3, <1>4, <1>5, <1>6, <1>7, <1>8 DEF Operation

\* No line was lost, and none will be.
Whole == lost = {} /\ \A k \in Kinds : ~torn[k]

\* The lines still to be put take the stored case on, one justified step each.
OnCourse == \A p \in up : \E d \in Case : Leads(disk.case, pending[p], d)

\* The streak of a stored case is covered by the passes stored since the last
\* stored failure.
DiskBacked(c, n) ==
    c.status \in ActiveStatuses => c.consecutive_pass_count <= n \/ n = Required

ClearInv == Whole /\ OnCourse /\ DiskBacked(disk.case, clean)

\* What the abstract specification sees of a stored case.
VerdictOf(c) ==
    IF ~Exists(c) THEN "unknown"
    ELSE IF c.status \in TerminalStatuses THEN "clear" ELSE "drift"

\* A justified line is a failure, a pass, the lifting of the verdict by a streak
\* that is complete, or nothing.
LEMMA JustifiedStep ==
  ASSUME NEW c \in Case, NEW line \in Lines, clean \in 0..Required,
         Justified(c, line), DiskBacked(c, clean)
  PROVE  LET d == CaseAfter(c, line)
             n == CleanAfter(line)
         IN  /\ DiskBacked(d, n)
             /\ \/ VerdictOf(d) = "drift" /\ n = 0
                \/ VerdictOf(d) = VerdictOf(c) /\ n = Bump(clean)
                \/ VerdictOf(d) = VerdictOf(c) /\ n = clean
                \/ /\ VerdictOf(c) = "drift" /\ VerdictOf(d) = "clear"
                   /\ n = Bump(clean) /\ n = Required
<1> DEFINE d == CaseAfter(c, line)
           n == CleanAfter(line)
<1>1. /\ \A x \in ActiveStatuses : x # Absent /\ x \notin TerminalStatuses
      /\ \A x \in TerminalStatuses : x # Absent /\ x \notin ActiveStatuses
      /\ "resolved" \in TerminalStatuses
  BY DEF ActiveStatuses, TerminalStatuses, Absent
<1>2. /\ line.read = "none" => n = clean
      /\ line.read = "pass" => n = Bump(clean)
      /\ line.read = "fail" => n = 0
  BY DEF CleanAfter
<1>3. c.consecutive_pass_count \in Nat /\ clean \in Nat /\ clean <= Required
      /\ Required \in Nat
  BY Streaks, RequiredAssumption
<1>4. CASE line.kind # "case"
  <2>1. line.read = "none" /\ d = c
    BY <1>4 DEF Lines, CaseAfter
  <2> HIDE DEF n, d
  <2>2. QED
    BY <1>2, <2>1 DEF n, d
<1>5. CASE line.kind = "case"
  <2>1. d = line.value /\ d \in Case /\ d.consecutive_pass_count \in Nat
    BY <1>5, LineTypes, Streaks DEF CaseAfter
  <2> HIDE DEF n, d
  <2>2. CASE line.read = "fail" /\ d.status \in ActiveStatuses /\ d.consecutive_pass_count = 0
    <3>1. VerdictOf(d) = "drift" /\ n = 0
      BY <1>1, <1>2, <2>2 DEF VerdictOf, Exists
    <3>2. DiskBacked(d, n)
      BY <2>2, <3>1 DEF DiskBacked
    <3>3. QED
      BY <3>1, <3>2 DEF d, n
  <2>3. CASE /\ line.read = "pass"
             /\ c.status \in ActiveStatuses /\ d.status \in ActiveStatuses
             /\ d.consecutive_pass_count = c.consecutive_pass_count + 1
    <3>1. VerdictOf(d) = VerdictOf(c) /\ n = Bump(clean)
      BY <1>1, <1>2, <2>3 DEF VerdictOf, Exists
    <3>2. DiskBacked(d, n)
      BY <1>3, <2>1, <2>3, <3>1 DEF DiskBacked, Bump
    <3>3. QED
      BY <3>1, <3>2 DEF d, n
  <2>4. CASE /\ line.read = "none"
             /\ c.status \in ActiveStatuses /\ d.status \in ActiveStatuses
             /\ d.consecutive_pass_count <= c.consecutive_pass_count
    <3>1. VerdictOf(d) = VerdictOf(c) /\ n = clean
      BY <1>1, <1>2, <2>4 DEF VerdictOf, Exists
    <3>2. DiskBacked(d, n)
      BY <1>3, <2>1, <2>4, <3>1 DEF DiskBacked
    <3>3. QED
      BY <3>1, <3>2 DEF d, n
  <2>5. CASE /\ line.read = "none"
             /\ c.status \in TerminalStatuses /\ d.status \in TerminalStatuses
    <3>1. VerdictOf(d) = VerdictOf(c) /\ n = clean
      BY <1>1, <1>2, <2>5 DEF VerdictOf, Exists
    <3>2. DiskBacked(d, n)
      BY <1>1, <2>5 DEF DiskBacked
    <3>3. QED
      BY <3>1, <3>2 DEF d, n
  <2>6. CASE /\ line.read = "none"
             /\ c.status \in ActiveStatuses /\ d.status = "resolved"
             /\ c.consecutive_pass_count >= Required
    <3>1. VerdictOf(c) = "drift" /\ VerdictOf(d) = "clear"
      BY <1>1, <2>6 DEF VerdictOf, Exists
    <3>2. n = Required /\ n = Bump(clean)
      BY <1>2, <1>3, <2>6 DEF DiskBacked, Bump
    <3>3. DiskBacked(d, n)
      BY <3>2 DEF DiskBacked
    <3>4. QED
      BY <3>1, <3>2, <3>3 DEF d, n
  <2>7. QED
    BY <1>5, <2>1, <2>2, <2>3, <2>4, <2>5, <2>6 DEF Justified
<1>6. QED
  BY <1>4, <1>5

LEMMA WholeStep == ASSUME ~Tearing PROVE TypeInv /\ Whole /\ [Next]_vars => Whole'
<1> SUFFICES ASSUME TypeInv, Whole, [Next]_vars PROVE Whole'
  OBVIOUS
<1>1. ASSUME NEW p \in Procs, Put(p) PROVE Whole'
  <2> DEFINE line == pending[p][1]
  <2>1. line \in Lines /\ line.kind \in Kinds
    BY <1>1, Putting, LineTypes
  <2>2. torn \in [Kinds -> BOOLEAN]
    BY DEF TypeInv, TypeOK
  <2>3. Head(pending[p]) = line
    BY <1>1, Putting, Removed DEF TypeInv
  <2>4. lost' = lost \ {RecordOf(line)} /\ torn' = torn
    BY <1>1, <2>1, <2>3 DEF Put, LineStored, Whole
  <2> HIDE DEF line
  <2>5. QED
    BY <2>2, <2>4 DEF Whole
<1>2. ASSUME NEW p \in Procs, Start(p) \/ Stop(p) PROVE Whole'
  BY <1>2 DEF Start, Stop, Whole
<1>3. ASSUME NEW p \in Procs, Operation(p) PROVE Whole'
  BY <1>3, Operations DEF Begin, Whole
<1>4. ASSUME NEW p \in Procs, NEW k \in Kinds, OtherLine(p, k) PROVE Whole'
  BY <1>4 DEF OtherLine, Whole
<1>5. CASE UNCHANGED vars
  BY <1>5 DEF vars, Whole
<1>6. QED
  BY <1>1, <1>2, <1>3, <1>4, <1>5 DEF Next, Operation, DieInsideLine, DieInsideOtherLine,
                                  MayTear

\* A put finds every file whole, and stores its line.
LEMMA PutStores ==
  ASSUME TypeInv, ClearInv, NEW p \in Procs, Put(p)
  PROVE  LET line == pending[p][1]
         IN  /\ line \in Lines /\ Justified(disk.case, line)
             /\ disk'.case = CaseAfter(disk.case, line)
             /\ clean' = CleanAfter(line)
             /\ \E d \in Case : Leads(disk'.case, pending'[p], d)
<1> DEFINE line == pending[p][1]
<1>1. /\ line \in Lines /\ p \in up /\ pending[p] # <<>>
      /\ pending'[p] = Tail(pending[p]) /\ Head(pending[p]) = line
  BY Putting, Removed DEF TypeInv
<1>2. line.kind \in Kinds
  BY <1>1, LineTypes
<1>3. disk' = Apply(disk, line) /\ clean' = CleanAfter(line)
  BY <1>1, <1>2 DEF Put, LineStored, ClearInv, Whole
<1>4. PICK d \in Case : Leads(disk.case, pending[p], d)
  BY <1>1 DEF ClearInv, OnCourse
<1>5. Justified(disk.case, line) /\ Leads(CaseAfter(disk.case, line), Tail(pending[p]), d)
  BY <1>1, <1>4, LeadsOn
<1>6. disk'.case = CaseAfter(disk.case, line)
  BY <1>1, <1>3, Applied DEF TypeInv, TypeOK, CaseAfter
<1>7. QED
  BY <1>1, <1>3, <1>5, <1>6

LEMMA ClearInvInit == Init => ClearInv
  BY EmptyTypes, Statuses DEF Init, ClearInv, Whole, OnCourse, DiskBacked

LEMMA ClearInvStep ==
  ASSUME Exclusive, ~Tearing
  PROVE  TypeInv /\ SyncInv /\ ClearInv /\ [Next]_vars => ClearInv'
<1> SUFFICES ASSUME TypeInv, SyncInv, ClearInv, [Next]_vars PROVE ClearInv'
  OBVIOUS
<1>1. Whole /\ Whole'
  BY WholeStep DEF ClearInv
<1>2. SUFFICES OnCourse' /\ DiskBacked(disk'.case, clean')
  BY <1>1 DEF ClearInv
<1>3. disk.case \in Case /\ clean \in 0..Required /\ DiskBacked(disk.case, clean)
  BY DEF TypeInv, TypeOK, Store, ClearInv
<1>4. ASSUME NEW p \in Procs, Start(p) PROVE OnCourse' /\ DiskBacked(disk'.case, clean')
  <2>1. up' = {p} /\ pending' = pending /\ pending[p] = <<>>
    BY <1>4 DEF Start, TypeInv
  <2>2. disk' = disk /\ clean' = clean
    BY <1>4 DEF Start
  <2>3. QED
    BY <1>3, <2>1, <2>2, LeadsNowhere DEF OnCourse
<1>5. ASSUME NEW p \in Procs, Ends(p) PROVE OnCourse' /\ DiskBacked(disk'.case, clean')
  BY <1>3, <1>5 DEF Ends, SyncInv, OneUp, OnCourse
<1>6. ASSUME NEW p \in Procs, Put(p) PROVE OnCourse' /\ DiskBacked(disk'.case, clean')
  <2>1. \A q \in up' : q = p
    BY <1>6, Putting DEF SyncInv, OneUp
  <2>2. OnCourse'
    BY <1>6, <2>1, PutStores DEF OnCourse
  <2>3. DiskBacked(disk'.case, clean')
    BY <1>3, <1>6, PutStores, JustifiedStep
  <2>4. QED
    BY <2>2, <2>3
<1>7. ASSUME NEW p \in Procs, Operation(p) PROVE OnCourse' /\ DiskBacked(disk'.case, clean')
  <2>1. PICK s \in Seq(Lines), d \in Case : Begin(p, s) /\ Leads(mem[p].case, s, d)
    BY <1>7, OperationLeads
  <2>2. /\ p \in up /\ up' = up /\ disk' = disk /\ clean' = clean
        /\ pending'[p] = s
    BY <2>1 DEF Begin, Ready, TypeInv
  <2>3. mem[p].case = disk.case
    BY <1>1, <2>2 DEF SyncInv, InSync, Whole, Kinds
  <2>4. \A q \in up' : q = p
    BY <2>2 DEF SyncInv, OneUp
  <2>5. QED
    BY <1>3, <2>1, <2>2, <2>3, <2>4 DEF OnCourse
<1>8. CASE Mends
  BY <1>3, <1>8 DEF Mends, ClearInv, OnCourse
<1>9. QED
  BY <1>4, <1>5, <1>6, <1>7, <1>8, Steps

LEMMA DiskInitRefines == Init => AllClear!Init
<1> SUFFICES ASSUME Init PROVE AllClear!Init
  OBVIOUS
<1>1. DiskVerdict = "unknown" /\ clean = 0
  BY EmptyTypes DEF Init, DiskVerdict, Exists
<1>2. QED
  BY <1>1 DEF AllClear!Init

\* Every step of the files is a step of NoFalseAllClear, or changes nothing it sees.
LEMMA DiskStepRefines ==
  ASSUME TypeInv, SyncInv, ClearInv, [Next]_vars
  PROVE  [AllClear!Next]_(AllClear!vars)
<1>1. SUFFICES \/ AllClear!Fails("control") \/ AllClear!Passes("control")
               \/ AllClear!PassesAndClears("control") \/ UNCHANGED AllClear!vars
  BY DEF AllClear!Next
<1>2. ASSUME DiskVerdict' = DiskVerdict, clean' = clean PROVE UNCHANGED AllClear!vars
  BY <1>2 DEF AllClear!vars
<1>3. ASSUME NEW p \in Procs, Start(p) \/ Ends(p) \/ Operation(p)
      PROVE  UNCHANGED AllClear!vars
  <2>1. disk' = disk /\ clean' = clean
    BY <1>3, Operations DEF Start, Ends, Begin
  <2>2. DiskVerdict' = DiskVerdict
    BY <2>1 DEF DiskVerdict
  <2>3. QED
    BY <1>2, <2>1, <2>2
<1>4. CASE Mends
  <2>1. disk' = disk /\ clean' = clean
    BY <1>4 DEF Mends
  <2>2. DiskVerdict' = DiskVerdict
    BY <2>1 DEF DiskVerdict
  <2>3. QED
    BY <1>2, <2>1, <2>2
<1>5. ASSUME NEW p \in Procs, Put(p)
      PROVE  \/ AllClear!Fails("control") \/ AllClear!Passes("control")
             \/ AllClear!PassesAndClears("control") \/ UNCHANGED AllClear!vars
  <2> DEFINE v == DiskVerdict
             w == DiskVerdict'
  <2>1. v = VerdictOf(disk.case) /\ w = VerdictOf(disk'.case)
    BY DEF DiskVerdict, VerdictOf
  <2>2. disk.case \in Case /\ clean \in 0..Required /\ DiskBacked(disk.case, clean)
    BY DEF TypeInv, TypeOK, Store, ClearInv
  <2>3. \/ w = "drift" /\ clean' = 0
        \/ w = v /\ clean' = Bump(clean)
        \/ w = v /\ clean' = clean
        \/ v = "drift" /\ w = "clear" /\ clean' = Bump(clean) /\ clean' = Required
    BY <1>5, <2>1, <2>2, PutStores, JustifiedStep
  <2>4. Bump(clean) = AllClear!Bump(clean)
    BY DEF Bump, AllClear!Bump
  <2> HIDE DEF v, w
  <2>5. CASE w = "drift" /\ clean' = 0
    BY <2>5 DEF AllClear!Fails, w
  <2>6. CASE w = v /\ clean' = Bump(clean)
    BY <2>4, <2>6 DEF AllClear!Passes, v, w
  <2>7. CASE w = v /\ clean' = clean
    BY <1>2, <2>7 DEF v, w
  <2>8. CASE v = "drift" /\ w = "clear" /\ clean' = Bump(clean) /\ clean' = Required
    BY <2>4, <2>8 DEF AllClear!PassesAndClears, v, w
  <2>9. QED
    BY <2>3, <2>5, <2>6, <2>7, <2>8
<1>6. QED
  BY <1>3, <1>4, <1>5, Steps

\* No-False-All-Clear of the files (app/cases/store.py under the operations of
\* service.py and verifier.py): with one process at a time that may end between any
\* two puts, but not inside a line, the stored case is resolved only when Required
\* stored passes follow the last stored failure, and a stored failure reopens it.
THEOREM NoFalseAllClearOnDisk ==
  ASSUME Exclusive, ~Tearing PROVE Spec => DiskAllClearSpec
<1>1. TypeInv /\ SyncInv /\ ClearInv /\ [Next]_vars => [AllClear!Next]_(AllClear!vars)
  BY DiskStepRefines
<1>2. QED
  BY <1>1, DiskInitRefines, ClearInvInit, ClearInvStep, SyncInvInit, SyncInvStep,
     TypeInvInit, TypeInvStep, PTL DEF Spec, DiskAllClearSpec, AllClear!Spec
=============================================================================
