---------------------------- MODULE CaseJournal ----------------------------
(***************************************************************************)
(* One security case as the JSONL store keeps it (app/cases/store.py), and *)
(* the operating-system processes that share the state directory: the API  *)
(* server and the socctl commands. Each process loads a snapshot when it   *)
(* starts and answers from it until it ends; every operation is a sequence *)
(* of puts, and a put changes the process's memory and appends a line to a *)
(* file. A process may die between two puts, or in the middle of a line.   *)
(*                                                                         *)
(* A file holds the lines of many records. The ones of this case are       *)
(* modelled; the ones of any other record only by what they do to this     *)
(* case: they meet a fragment, or leave one. The write-only files          *)
(* (findings, events) are left out.                                        *)
(***************************************************************************)
EXTENDS CaseService, Sequences, FiniteSets

CONSTANTS
    Server,         \* the API process (one cached runtime)
    Posture,        \* socctl posture run-once
    Verify,         \* socctl posture verify
    Procs,          \* which of the three are run
    Exclusive,      \* is a process started only when no other one is up?
    Tearing,        \* may a process die in the middle of a line?
    Events,         \* external_event_ids of the Engineering Loop
    SentStatuses,   \* the handoff statuses it reports
    MaxPasses,      \* bound: passes one streak counts
    MaxDamage       \* bound: files torn and records lost at a time

ASSUME ProcsAssumption == Procs \subseteq {Server, Posture, Verify}
ASSUME DeploymentAssumption == Exclusive \in BOOLEAN /\ Tearing \in BOOLEAN
ASSUME EventsAssumption == Events \cap {"case", "handoff", "objective"} = {}
ASSUME SentStatusesAssumption == SentStatuses \subseteq UpdateStatuses
ASSUME BoundsAssumption == MaxPasses \in Nat /\ MaxDamage \in Nat

VARIABLES
    disk,       \* what a process starting now would load
    torn,       \* torn[k]: does the file of kind k end in a partial line?
    up,         \* the processes that are running
    mem,        \* mem[p]: the snapshot of p
    pending,    \* pending[p]: the puts left of the operation p is in
    sent,       \* sent[e]: the update Engineering sends as event e
    lost,       \* history: the records whose last line was lost
    clean       \* history: passing reads since the last failing one on disk

vars == <<disk, torn, up, mem, pending, sent, lost, clean>>

\* The files, by the records they hold.
Kinds == {"case", "handoff", "objective", "callbacks"}

\* The records: one case, its handoff and its objective, a callback per event.
Records == {"case", "handoff", "objective"} \cup Events

Store ==
    [case      : Case,
     handoff   : UpdateStatuses \cup {Absent},
     objective : {"pending", "pass", Absent},
     callbacks : SUBSET Events]

EmptyStore ==
    [case |-> NoCase, handoff |-> Absent, objective |-> Absent,
     callbacks |-> {}]

Updates == [status : SentStatuses, type : UpdateTypes]
NotSent == [status |-> Absent, type |-> Absent]

\* A line: the record put and, for a case, the read of the control it stems from
\* ("pass", "fail" or "none").
Line(kind, value) == [kind |-> kind, value |-> value, read |-> "none"]

CaseLine(case, read) == [kind |-> "case", value |-> case, read |-> read]

RecordOf(line) == IF line.kind = "callbacks" THEN line.value ELSE line.kind

\* Records are last-write-wins by id; a callback record is one more id.
Apply(store, line) ==
    [store EXCEPT ![line.kind] =
        IF line.kind = "callbacks" THEN @ \cup {line.value} ELSE line.value]

-----------------------------------------------------------------------------
(* The operations, as the puts they make from a snapshot. *)

\* observe_finding of a firing finding: _transition puts a new or reopened case
\* a second time.
FailingPuts(case) ==
    IF Refreshed(case).status = RecordFailing(case).status
      THEN <<CaseLine(Refreshed(case), "fail")>>
      ELSE <<CaseLine(Refreshed(case), "fail"),
             CaseLine(RecordFailing(case), "fail")>>

PassingPuts(case) ==
    IF case.status \in ActiveStatuses
      THEN <<CaseLine(RecordPassing(case), "pass")>>
      ELSE <<>>

\* Mutant of RequestPuts: the case is put before the handoff it links.
RequestPutsCaseFirst(store, case) ==
    IF store.handoff # Absent
      THEN <<>>
      ELSE <<CaseLine(HandedOff(case), "none"),
             Line("handoff", "requested"),
             Line("objective", "pending")>>

\* request_handoff of a case just observed: nothing if the snapshot has the
\* handoff; otherwise the handoff, the objective, then the case.
RequestPuts(store, case) ==
    IF store.handoff # Absent
      THEN <<>>
      ELSE <<Line("handoff", "requested"),
             Line("objective", "pending")>>
           \o IF CanRequestHandoff(case)
                THEN <<CaseLine(HandedOff(case), "none")>> ELSE <<>>

\* Mutant of VerifierPuts: the objective gets the case's status, which is not a
\* VerificationStatus.
VerifierPutsResolvedObjective(store, case) ==
    IF ~VerifierResolves(case)
      THEN <<>>
      ELSE <<CaseLine(Verified(case), "none")>>
           \o IF store.objective # Absent
                THEN <<Line("objective", "resolved")>> ELSE <<>>

\* verify_case after a passing read.
VerifierPuts(store, case) ==
    IF ~VerifierResolves(case)
      THEN <<>>
      ELSE <<CaseLine(Verified(case), "none")>>
           \o IF store.objective # Absent
                THEN <<Line("objective", "pass")>> ELSE <<>>

\* Mutant of CallbackPuts: the event is marked as processed before it is.
CallbackPutsInboxFirst(store, event, update) ==
    IF \/ event \in store.callbacks
       \/ store.handoff = Absent
       \/ ~AllowedHandoffTransition(store.handoff, update.status, "engineering")
      THEN <<>>
      ELSE <<Line("callbacks", event),
             Line("handoff", update.status)>>
           \o (IF Exists(store.case)
                 THEN <<CaseLine(EngineeringUpdated(store.case, update), "none")>>
                 ELSE <<>>)

\* record_engineering_update: the handoff, the case, then the callback record.
CallbackPuts(store, event, update) ==
    IF \/ event \in store.callbacks
       \/ store.handoff = Absent
       \/ ~AllowedHandoffTransition(store.handoff, update.status, "engineering")
      THEN <<>>
      ELSE <<Line("handoff", update.status)>>
           \o (IF Exists(store.case)
                 THEN <<CaseLine(EngineeringUpdated(store.case, update), "none")>>
                 ELSE <<>>)
           \o <<Line("callbacks", event)>>

-----------------------------------------------------------------------------

Init ==
    /\ disk = EmptyStore
    /\ torn = [k \in Kinds |-> FALSE]
    /\ lost = {}
    /\ up = {}
    /\ mem = [p \in Procs |-> EmptyStore]
    /\ pending = [p \in Procs |-> <<>>]
    /\ sent = [e \in Events |-> NotSent]
    /\ clean = 0

Bump(n) == IF n < Required THEN n + 1 ELSE n

\* __init__ and _load, when the process first builds its runtime.
Start(p) ==
    /\ p \notin up
    /\ Exclusive => up = {}
    /\ up' = up \cup {p}
    /\ mem' = [mem EXCEPT ![p] = disk]
    /\ UNCHANGED <<disk, torn, pending, sent, lost, clean>>

\* The process ends, or dies between two puts.
Stop(p) ==
    /\ p \in up
    /\ up' = up \ {p}
    /\ mem' = [mem EXCEPT ![p] = EmptyStore]
    /\ pending' = [pending EXCEPT ![p] = <<>>]
    /\ UNCHANGED <<disk, torn, sent, lost, clean>>

MayTear ==
    /\ Tearing
    /\ Cardinality({k \in Kinds : torn[k]}) + Cardinality(lost) < MaxDamage

\* The process dies inside _append: the file ends in part of a line.
DieInsideLine(p) ==
    /\ MayTear
    /\ p \in up
    /\ pending[p] # <<>>
    /\ torn' = [torn EXCEPT ![Head(pending[p]).kind] = TRUE]
    /\ up' = up \ {p}
    /\ mem' = [mem EXCEPT ![p] = EmptyStore]
    /\ pending' = [pending EXCEPT ![p] = <<>>]
    /\ UNCHANGED <<disk, sent, lost, clean>>

Ready(p) == p \in up /\ pending[p] = <<>>

\* The process puts another record into the file of kind k, and a fragment there
\* is glued to that line: what is lost is not of this case, and what was lost of
\* this case stays so.
OtherLine(p, k) ==
    /\ Ready(p)
    /\ torn[k]
    /\ torn' = [torn EXCEPT ![k] = FALSE]
    /\ UNCHANGED <<disk, up, mem, pending, sent, lost, clean>>

\* The process dies inside the line of another record.
DieInsideOtherLine(p, k) ==
    /\ MayTear
    /\ Ready(p)
    /\ torn' = [torn EXCEPT ![k] = TRUE]
    /\ up' = up \ {p}
    /\ mem' = [mem EXCEPT ![p] = EmptyStore]
    /\ UNCHANGED <<disk, pending, sent, lost, clean>>

Begin(p, puts) ==
    /\ Ready(p)
    /\ puts # <<>>
    /\ pending' = [pending EXCEPT ![p] = puts]
    /\ UNCHANGED <<disk, torn, up, mem, lost, clean>>

\* The history of the reads, by the lines that are stored.
CleanAfter(line) ==
    [none |-> clean, pass |-> Bump(clean), fail |-> 0][line.read]

\* A line appended to a torn file is glued to the fragment, and _read_jsonl
\* skips the two as one broken line. A pass whose line is lost has been read all
\* the same, and the process counts it; a lost failure is known to no one later.
LineLost(p, line) ==
    /\ lost' = lost \cup {RecordOf(line)}
    /\ torn' = [torn EXCEPT ![line.kind] = FALSE]
    /\ clean' = IF line.read = "pass" THEN Bump(clean) ELSE clean
    /\ UNCHANGED disk

\* Only a line of the same record brings a lost one back.
LineStored(p, line) ==
    /\ disk' = Apply(disk, line)
    /\ lost' = lost \ {RecordOf(line)}
    /\ clean' = CleanAfter(line)
    /\ UNCHANGED torn

\* Mutant of Put: the line is written and the memory keeps the old record.
PutSkipsMemory(p) ==
    /\ pending[p] # <<>>
    /\ LET line == Head(pending[p])
       IN  IF torn[line.kind] THEN LineLost(p, line) ELSE LineStored(p, line)
    /\ pending' = [pending EXCEPT ![p] = Tail(@)]
    /\ UNCHANGED <<up, mem, sent>>

\* One put: memory first, then the file.
Put(p) ==
    /\ pending[p] # <<>>
    /\ LET line == Head(pending[p])
       IN  /\ mem' = [mem EXCEPT ![p] = Apply(@, line)]
           /\ IF torn[line.kind] THEN LineLost(p, line) ELSE LineStored(p, line)
    /\ pending' = [pending EXCEPT ![p] = Tail(@)]
    /\ UNCHANGED <<up, sent>>

-----------------------------------------------------------------------------
(* socctl posture run-once. *)

ObserveFailing(p) ==
    /\ p = Posture
    /\ Begin(p, FailingPuts(mem[p].case))
    /\ UNCHANGED sent

HandOff(p) ==
    /\ p = Posture
    /\ Begin(p, FailingPuts(mem[p].case)
                \o RequestPuts(mem[p], RecordFailing(mem[p].case)))
    /\ UNCHANGED sent

ObservePassing(p) ==
    /\ p = Posture
    /\ mem[p].case.consecutive_pass_count < MaxPasses
    /\ Begin(p, PassingPuts(mem[p].case))
    /\ UNCHANGED sent

(* socctl posture verify. *)

VerifiableStatuses == {"verification_pending", "handoff_in_progress"}

ReverifyPassing(p) ==
    /\ p = Verify
    /\ mem[p].case.status \in VerifiableStatuses
    /\ mem[p].case.consecutive_pass_count <= MaxPasses
    /\ LET observed == RecordPassing(mem[p].case)
       IN  Begin(p, PassingPuts(mem[p].case) \o VerifierPuts(mem[p], observed))
    /\ UNCHANGED sent

ReverifyFailing(p) ==
    /\ p = Verify
    /\ mem[p].case.status \in VerifiableStatuses
    /\ Begin(p, FailingPuts(mem[p].case))
    /\ UNCHANGED sent

ReverifyDegraded(p) ==
    /\ p = Verify
    /\ mem[p].case.status \in VerifiableStatuses
    /\ ~mem[p].case.last_scan_degraded
    /\ Begin(p, <<CaseLine(NoteScanDegraded(mem[p].case), "none")>>)
    /\ UNCHANGED sent

(* The API server. Engineering sends an event, and sends it again, with the   *)
(* same update, until it is answered.                                         *)

Callback(p, event, update) ==
    /\ p = Server
    /\ sent[event] \in {NotSent, update}
    /\ sent' = [sent EXCEPT ![event] = update]
    /\ Begin(p, CallbackPuts(mem[p], event, update))

Next ==
    \E p \in Procs :
        \/ Start(p) \/ Stop(p) \/ DieInsideLine(p) \/ Put(p)
        \/ \E k \in Kinds : OtherLine(p, k) \/ DieInsideOtherLine(p, k)
        \/ ObserveFailing(p) \/ HandOff(p) \/ ObservePassing(p)
        \/ ReverifyPassing(p) \/ ReverifyFailing(p) \/ ReverifyDegraded(p)
        \/ \E event \in Events, update \in Updates : Callback(p, event, update)

Spec == Init /\ [][Next]_vars

-----------------------------------------------------------------------------
(* Properties. *)

\* Every snapshot, file and history counter keeps its type.
TypeOK ==
    /\ disk \in Store
    /\ torn \in [Kinds -> BOOLEAN]
    /\ lost \subseteq Records
    /\ up \subseteq Procs
    /\ mem \in [Procs -> Store]
    /\ \A p \in Procs : \A i \in 1..Len(pending[p]) : pending[p][i].kind \in Kinds
    /\ sent \in [Events -> Updates \cup {NotSent}]
    /\ clean \in 0..Required

HandoffPath == {"handoff_requested", "handoff_in_progress", "verification_pending"}

\* request_handoff's order of writes: wherever a process dies, a stored case on
\* the handoff path has its handoff and its objective stored too, unless their
\* own line was lost to a fragment; so the Engineering Loop can fetch what it is
\* asked to do.
StoredCaseHasHandoff ==
    disk.case.status \in HandoffPath =>
        /\ disk.handoff # Absent \/ "handoff" \in lost
        /\ disk.objective # Absent \/ "objective" \in lost

\* record_engineering_update's order of writes: an event enters the inbox, after
\* which its retries are ignored, only once the stored handoff and the stored
\* case carry its status, or their own line was lost to a fragment; so a crash
\* between the puts never loses an acknowledged update.
AcknowledgedUpdateStored ==
    [][\A e \in Events :
          e \in disk'.callbacks \ disk.callbacks =>
              /\ "handoff" \in lost \/ disk.handoff = sent[e].status
              /\ "case" \in lost \/ disk.case.handoff_status = sent[e].status]_vars

\* What a torn file costs (_append, _read_jsonl): with one process at a time, an
\* idle one remembers of this case exactly what a restart would load, but for the
\* records whose own last line was glued to a fragment. A fragment costs the one
\* record put next into its file, of this case or of another, and that record
\* stays as it was on disk until it is itself put again.
LossStaysInItsRecord ==
    \A p \in up :
        pending[p] = <<>> =>
            /\ \A k \in Kinds \ {"callbacks"} : k \in lost \/ disk[k] = mem[p][k]
            /\ disk.callbacks \subseteq mem[p].callbacks
            /\ mem[p].callbacks \ disk.callbacks \subseteq lost

DiskVerdict ==
    IF ~Exists(disk.case) THEN "unknown"
    ELSE IF disk.case.status \in TerminalStatuses THEN "clear" ELSE "drift"

AllClear == INSTANCE NoFalseAllClear
                WITH Controls <- {"control"},
                     verdict <- [c \in {"control"} |-> DiskVerdict],
                     clean <- [c \in {"control"} |-> clean]

\* No-False-All-Clear on disk: through crashes and restarts in the middle of any
\* operation and of any line, the stored case is resolved only after Required
\* passes with no stored failure between them, and a stored failure reopens it.
DiskAllClearSpec == AllClear!Spec

\* Who resolves, with any processes at once: the stored case turns resolved by a
\* put of the verification, or of a process whose own snapshot holds it resolved
\* and writes it back. No callback and no posture cycle resolves on its own
\* account (policy.allowed_transition).
ResolutionIsTheVerifiers ==
    [][/\ disk.case.status # "resolved"
       /\ disk'.case.status = "resolved"
       => \E p \in Procs :
             /\ pending'[p] # pending[p]
             /\ p = Verify \/ mem[p].case.status = "resolved"]_vars

-----------------------------------------------------------------------------
(* A claim of the documentation. *)

\* architecture.md: the SecurityVerifier is "the only writer of
\* verified/resolved": no other process turns the stored case into a resolved
\* one. A server that outlives a verification (main.py keeps one runtime) writes
\* the case back from its snapshot, and a late callback resolves a case that was
\* reopened since.
OnlyVerifierResolves ==
    [][/\ disk.case.status # "resolved"
       /\ disk'.case.status = "resolved"
       => \E p \in Procs : p = Verify /\ pending'[p] # pending[p]]_vars

=============================================================================
