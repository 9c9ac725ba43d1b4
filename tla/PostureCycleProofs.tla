------------------------- MODULE PostureCycleProofs -------------------------
(***************************************************************************)
(* What holds of PostureCycle for every set of findings and processes and  *)
(* every limit: the ledgers keep to the limits whatever the processes do to*)
(* each other; with one cycle at a time the days do too, but for one budget*)
(* per lapse of the ledger's file, and a finding has one issue until a     *)
(* search misses it. Overlapping or not, an open issue has its handoff     *)
(* stored if the cycles have a state directory, and a cycle always acts on *)
(* the best finding that is left. Last, the tokens and JWTs with which the *)
(* handoffs are posted (GitHubAuth) are good whenever GitHub sees them.    *)
(***************************************************************************)
EXTENDS PostureCycle, GitHubAuth, TLAPS

USE DEF setup, history

\* A finding past the gate is within the budget and under the cap.
Admitted ==
    \A p \in Loops :
        /\ phase[p] \in {"enriching", "recording"} =>
              WithinBudget(Rolled(ledger[p]))
        /\ phase[p] \in {"enriching", "recording", "persisting"} =>
              acted[p] < MaxPerCycle

\* No ledger is ahead of the day.
Days ==
    /\ file.day <= today \/ file = EmptyFile
    /\ \A p \in Loops : ledger[p].day <= today

TypeInv == TypeOK /\ Admitted /\ Days

\* Limits that a finding has passed leave room for it in a new ledger as well.
LEMMA RolledWithin ==
    ASSUME TypeOK, NEW p \in Loops
    PROVE  /\ Rolled(ledger[p]) \in Ledger
           /\ Rolled(ledger[p]).day = today
           /\ Rolled(Rolled(ledger[p])) = Rolled(ledger[p])
  BY LimitsAssumption, MaxDayAssumption DEF TypeOK, Rolled, NewLedger, Ledger

\* A ledger that is loaded keeps to the limits and is of today.
LEMMA LoadWithin ==
    ASSUME TypeOK
    PROVE  Load \in Ledger /\ Load.day = today /\ Rolled(Load) = Load
  BY LimitsAssumption, MaxDayAssumption
  DEF TypeOK, Rolled, Load, NewLedger, Ledger, EmptyFile

\* Counting a finding that is within the budget keeps a ledger to the limits.
LEMMA CountedWithin ==
    ASSUME NEW book \in Ledger, WithinBudget(book)
    PROVE  /\ Counted(book) \in Ledger
           /\ Counted(book).day = book.day
           /\ Counted(book).findings_acted = book.findings_acted + 1
           /\ Counted(book).cost_usd = book.cost_usd + CostEach
<1>1. /\ book.findings_acted + 1 \in 0..MaxPerDay
      /\ book.cost_usd + CostEach \in 0..MaxCost
  BY LimitsAssumption DEF Ledger, WithinBudget
<1> QED
  BY <1>1 DEF Counted, Ledger

\* The invariant holds at first.
LEMMA TypeInvInit == Init => TypeInv
  BY LimitsAssumption, MaxDayAssumption, CycleModesAssumption
  DEF Init, TypeInv, TypeOK, Admitted, Days, Ledger, EmptyFile, NewLedger, Phases,
      WithinBudget

\* Every step keeps it.
LEMMA TypeInvStep == TypeInv /\ [Next]_vars => TypeInv'
<1> SUFFICES ASSUME TypeInv, [Next]_vars PROVE TypeInv'
  OBVIOUS
<1> USE LimitsAssumption, MaxDayAssumption, FindingsAssumption
<1> USE DEF TypeInv, TypeOK, Admitted, Days, Phases
<1>1. ASSUME NEW p \in Loops, NEW m \in Modes, NEW d \in StateDirs, Start(p, m, d)
      PROVE  TypeInv'
  <2>0. NewLedger \in Ledger /\ NewLedger.day = today
    BY DEF NewLedger, Ledger
  <2>1. ledger' \in [Loops -> Ledger] /\ \A q \in Loops : ledger'[q].day <= today'
    BY <1>1, <2>0, LoadWithin DEF Start
  <2>2. TypeOK'
    BY <1>1, <2>1, SwitchesAssumption DEF Start, stored, Lapse
  <2>3. Admitted'
    BY <1>1 DEF Start, Rolled, NewLedger, WithinBudget
  <2> QED
    BY <1>1, <2>1, <2>2, <2>3 DEF Start
<1>2. ASSUME NEW p \in Loops, NEW firing \in SUBSET Findings, Scanned(p, firing)
      PROVE  TypeInv'
  BY <1>2 DEF Scanned, stored, Rolled, NewLedger, WithinBudget
<1>3. ASSUME NEW p \in Loops, NEW f \in Findings, PassOver(p, f) PROVE TypeInv'
  BY <1>3, RolledWithin DEF PassOver, stored, Rolled, NewLedger, WithinBudget
<1>4. ASSUME NEW p \in Loops, NEW f \in Findings, Admit(p, f) PROVE TypeInv'
  BY <1>4, RolledWithin DEF Admit, stored, Rolled, NewLedger, WithinBudget
<1>5. ASSUME NEW p \in Loops, NEW f \in Findings, Observe(p, f) PROVE TypeInv'
  BY <1>5 DEF Observe, Put, Rolled, NewLedger, WithinBudget
<1>6. ASSUME NEW p \in Loops, Record(p) PROVE TypeInv'
  <2>1. Rolled(ledger[p]) \in Ledger /\ Rolled(ledger[p]).day = today
    BY RolledWithin
  <2>2. WithinBudget(Rolled(ledger[p]))
    BY <1>6 DEF Record
  <2>3. Counted(Rolled(ledger[p])) \in Ledger /\ Counted(Rolled(ledger[p])).day = today
    BY <2>1, <2>2, CountedWithin
  <2>4. TypeOK'
    BY <1>6, <2>3 DEF Record, stored
  <2>5. Admitted'
    BY <1>6 DEF Record, Rolled, NewLedger, WithinBudget
  <2>6. Days'
    BY <1>6, <2>3 DEF Record
  <2> QED
    BY <2>4, <2>5, <2>6
<1>7. ASSUME NEW p \in Loops, NEW f \in Findings, Persist(p, f) \/ WriteFails(p, f)
      PROVE  TypeInv'
  BY <1>7
  DEF Persist, WriteFails, AfterRecord, Lapse, stored, Rolled, NewLedger, WithinBudget
<1>7a. ASSUME NEW p \in Loops, NEW f \in Findings, RecordInMemory(p, f) PROVE TypeInv'
  <2>1. Rolled(ledger[p]) \in Ledger /\ Rolled(ledger[p]).day = today
    BY RolledWithin
  <2>2. WithinBudget(Rolled(ledger[p])) /\ acted[p] < MaxPerCycle
    BY <1>7a DEF RecordInMemory
  <2>3. Counted(Rolled(ledger[p])) \in Ledger /\ Counted(Rolled(ledger[p])).day = today
    BY <2>1, <2>2, CountedWithin
  <2>4. TypeOK'
    BY <1>7a, <2>2, <2>3 DEF RecordInMemory, AfterRecord, Lapse, stored
  <2>5. Admitted'
    BY <1>7a DEF RecordInMemory, AfterRecord, Rolled, NewLedger, WithinBudget
  <2>6. Days'
    BY <1>7a, <2>3 DEF RecordInMemory
  <2> QED
    BY <2>4, <2>5, <2>6
<1>8. ASSUME NEW p \in Loops, NEW f \in Findings, HandOff(p, f) PROVE TypeInv'
  BY <1>8 DEF HandOff, Proceed, Put, Rolled, NewLedger, WithinBudget
<1>9. ASSUME NEW p \in Loops, NEW f \in Findings, FindIssue(p, f) PROVE TypeInv'
  BY <1>9 DEF FindIssue, Proceed, stored, Rolled, NewLedger, WithinBudget
<1>10. ASSUME NEW p \in Loops, NEW f \in Findings, FindNoIssue(p, f) PROVE TypeInv'
  BY <1>10 DEF FindNoIssue, stored, Rolled, NewLedger, WithinBudget
<1>11. ASSUME NEW p \in Loops, NEW f \in Findings, CreateIssue(p, f) PROVE TypeInv'
  BY <1>11 DEF CreateIssue, Proceed, stored, Rolled, NewLedger, WithinBudget
<1>12. ASSUME NEW p \in Loops, GitHubGivesUp(p) \/ Crash(p) PROVE TypeInv'
  BY <1>12 DEF GitHubGivesUp, Crash, Lapse, Proceed, stored, Rolled, NewLedger, WithinBudget
<1>13. ASSUME NEW f \in Findings, CloseIssue(f) PROVE TypeInv'
  BY <1>13 DEF CloseIssue, cycleVars, stored, Rolled, NewLedger, WithinBudget
<1>14. CASE Midnight
  BY <1>14 DEF Midnight, cycleVars, stored, Rolled, NewLedger, WithinBudget, Ledger
<1>15. CASE UNCHANGED vars
  BY <1>15 DEF vars, cycleVars, stored, Rolled, NewLedger, WithinBudget
<1> QED
  BY <1>1, <1>2, <1>3, <1>4, <1>5, <1>6, <1>7, <1>7a, <1>8, <1>9, <1>10, <1>11, <1>12,
     <1>13, <1>14, <1>15
  DEF Next, Acts

\* The variables keep their types, and the ledgers in memory and in the file keep
\* to the daily limits, however many cycles overlap or die (record_finding comes
\* only after the gate has asked the same ledger).
THEOREM LedgersWithinLimits == Spec => []TypeOK
<1>1. Spec => []TypeInv
  BY TypeInvInit, TypeInvStep, PTL DEF Spec
<1>2. TypeInv => TypeOK
  BY DEF TypeInv
<1> QED
  BY <1>1, <1>2, PTL

-----------------------------------------------------------------------------
(* One cycle at a time: its processes may die, its reads and writes of the     *)
(* ledger may fail, and it may have no state directory.                        *)

AtMostOne == \A p, q \in Loops : phase[p] # "off" /\ phase[q] # "off" => p = q

\* What the lapses of the day are worth.
Acts0 == MaxPerDay * lapses
Cost0 == MaxCost * lapses

\* A book that counts n findings and their cost covers the day, but for a findings
\* and c cents, and the lapses.
Covers(n, cost, a, c) ==
    actedToday <= n + a + Acts0 /\ spentToday <= cost + c + Cost0

CoveredBy(book, a, c) == Covers(book.findings_acted, book.cost_usd, a, c)

\* The finding that is observed and not yet recorded.
Pending(p) == IF phase[p] = "recording" THEN 1 ELSE 0
PendingCost(p) == IF phase[p] = "recording" THEN CostEach ELSE 0

\* Between cycles the file covers what has been done today. So do, within a cycle
\* that has a state directory, its ledger and, while it is not writing it, the
\* file, but for the finding that is not yet recorded. A cycle without one has
\* had a lapse to its name: the file covers what came before it, and its own
\* ledger what it has done itself.
BooksCover ==
    /\ (\A p \in Loops : phase[p] = "off") => CoveredBy(Load, 0, 0)
    /\ \A p \in Loops :
        /\ phase[p] # "off" /\ durable[p] =>
              /\ CoveredBy(Rolled(ledger[p]), Pending(p), PendingCost(p))
              /\ phase[p] # "persisting" => CoveredBy(Load, Pending(p), PendingCost(p))
        /\ phase[p] # "off" /\ ~durable[p] =>
              LET book == Rolled(ledger[p])
              IN  /\ phase[p] # "persisting"
                  /\ actedToday + MaxPerDay
                        <= Load.findings_acted + book.findings_acted + Pending(p) + Acts0
                  /\ spentToday + MaxCost
                        <= Load.cost_usd + book.cost_usd + PendingCost(p) + Cost0

BudgetInv == TypeInv /\ AtMostOne /\ BooksCover

\* One lapse more is one budget more.
LEMMA Worth ==
    ASSUME NEW n \in Nat, NEW k \in Nat
    PROVE  /\ n * k \in Nat
           /\ n * (k + 1) = n * k + n
           /\ n * (1 + k) = n * k + n
           /\ n * 0 = 0 /\ n * 1 = n
  OBVIOUS

\* The invariant holds at first.
LEMMA BudgetInvInit == Init => BudgetInv
<1> SUFFICES ASSUME Init PROVE AtMostOne /\ BooksCover
  BY TypeInvInit DEF BudgetInv
<1>1. Load.findings_acted = 0 /\ Load.cost_usd = 0
  BY DEF Init, Load, NewLedger, EmptyFile
<1>2. Acts0 \in Nat /\ Cost0 \in Nat
  BY Worth, LimitsAssumption DEF Init, Acts0, Cost0
<1> QED
  BY <1>1, <1>2 DEF Init, AtMostOne, BooksCover, CoveredBy, Covers

\* The books and the lapses are natural numbers, and the books within the limits.
LEMMA BookTypes ==
    ASSUME TypeInv
    PROVE  /\ Load.findings_acted \in 0..MaxPerDay /\ Load.cost_usd \in 0..MaxCost
           /\ \A p \in Loops : /\ Rolled(ledger[p]).findings_acted \in 0..MaxPerDay
                               /\ Rolled(ledger[p]).cost_usd \in 0..MaxCost
           /\ Acts0 \in Nat /\ Cost0 \in Nat
           /\ actedToday \in Nat /\ spentToday \in Nat /\ lapses \in Nat
           /\ MaxPerDay \in Nat /\ MaxCost \in Nat /\ CostEach \in Nat
<1>1. Load \in Ledger /\ \A p \in Loops : Rolled(ledger[p]) \in Ledger
  BY RolledWithin, LoadWithin DEF TypeInv
<1>2. lapses \in Nat /\ actedToday \in Nat /\ spentToday \in Nat
  BY DEF TypeInv, TypeOK
<1>3. Acts0 \in Nat /\ Cost0 \in Nat
  BY <1>2, Worth, LimitsAssumption DEF Acts0, Cost0
<1> QED
  BY <1>1, <1>2, <1>3, LimitsAssumption DEF Ledger

\* A cycle that is not about to record leaves the file covering the day.
LEMMA Settled ==
    ASSUME BudgetInv, NEW p \in Loops, phase[p] \notin {"off", "recording", "persisting"}
    PROVE  CoveredBy(Load, 0, 0)
<1> USE DEF BudgetInv, BooksCover, CoveredBy, Covers, Pending, PendingCost
<1>1. CASE durable[p]
  BY <1>1
<1>2. CASE ~durable[p]
  BY <1>2, BookTypes
<1> QED
  BY <1>1, <1>2

\* A cycle that is about to record is within the budget, and so is what it records.
LEMMA Cut ==
    ASSUME BudgetInv, NEW p \in Loops, phase[p] \in {"recording", "persisting"}
    PROVE  /\ durable[p] => /\ actedToday <= MaxPerDay + Acts0
                            /\ spentToday <= MaxCost + Cost0
           /\ ~durable[p] => CoveredBy(Load, 0, 0)
           /\ phase[p] = "recording" =>
                 /\ Rolled(ledger[p]).findings_acted + 1 <= MaxPerDay
                 /\ Rolled(ledger[p]).cost_usd + CostEach <= MaxCost
<1> USE DEF BudgetInv, BooksCover, CoveredBy, Covers, Pending, PendingCost
<1>1. phase[p] = "recording" =>
         /\ Rolled(ledger[p]).findings_acted + 1 <= MaxPerDay
         /\ Rolled(ledger[p]).cost_usd + CostEach <= MaxCost
  BY BookTypes DEF TypeInv, Admitted, WithinBudget
<1>2. CASE durable[p]
  <2>1. /\ actedToday <= Rolled(ledger[p]).findings_acted + Pending(p) + Acts0
        /\ spentToday <= Rolled(ledger[p]).cost_usd + PendingCost(p) + Cost0
    BY <1>2
  <2> QED
    BY <1>1, <1>2, <2>1, BookTypes
<1>3. CASE ~durable[p]
  BY <1>1, <1>3, BookTypes
<1> QED
  BY <1>1, <1>2, <1>3

\* A step that touches no book and no history, and neither begins nor ends the
\* recording of a finding, leaves the day covered.
LEMMA Quiet ==
    ASSUME BudgetInv, AtMostOne', TypeInv',
           UNCHANGED <<today, file, durable, actedToday, spentToday, lapses>>,
           \A q \in Loops : (Rolled(ledger[q]))' = Rolled(ledger[q]),
           \A q \in Loops :
              \/ phase'[q] = phase[q]
              \/ /\ phase[q] \notin {"off", "recording", "persisting"}
                 /\ phase'[q] \notin {"recording", "persisting"}
    PROVE  BooksCover'
<1> USE DEF BooksCover, CoveredBy, Covers, Pending, PendingCost
<1>1. Load' = Load /\ Acts0' = Acts0 /\ Cost0' = Cost0
  BY DEF Load, NewLedger, Acts0, Cost0
<1>2. (\A p \in Loops : phase'[p] = "off") => CoveredBy(Load, 0, 0)
  BY Settled DEF BudgetInv
<1>3. ASSUME NEW p \in Loops, phase'[p] # "off"
      PROVE  Pending(p)' = Pending(p) /\ PendingCost(p)' = PendingCost(p)
             /\ phase[p] # "off" /\ (phase'[p] = "persisting" <=> phase[p] = "persisting")
  BY <1>3
<1> QED
  BY <1>1, <1>2, <1>3 DEF BudgetInv

\* Every step keeps it.
LEMMA BudgetInvStep ==
    ASSUME Exclusive PROVE BudgetInv /\ [Next]_vars => BudgetInv'
<1> SUFFICES ASSUME BudgetInv, [Next]_vars PROVE BudgetInv'
  OBVIOUS
<1>0. TypeInv /\ TypeInv' /\ AtMostOne
  BY TypeInvStep DEF BudgetInv
<1> SUFFICES AtMostOne' /\ BooksCover'
  BY <1>0 DEF BudgetInv
<1> USE LimitsAssumption, MaxDayAssumption, <1>0
<1> USE DEF AtMostOne
<1>a. Acts0 \in Nat /\ Cost0 \in Nat /\ lapses \in Nat
  BY BookTypes
<1>b. lapses' = lapses + 1 => Acts0' = Acts0 + MaxPerDay /\ Cost0' = Cost0 + MaxCost
  BY <1>a, Worth DEF Acts0, Cost0
<1>c. lapses' = lapses => Acts0' = Acts0 /\ Cost0' = Cost0
  BY DEF Acts0, Cost0
<1>1. ASSUME NEW p \in Loops, NEW m \in Modes, NEW d \in StateDirs, Start(p, m, d)
      PROVE  AtMostOne' /\ BooksCover'
  <2>1. /\ Load' = Load /\ today' = today /\ NewLedger' = NewLedger
        /\ actedToday' = actedToday /\ spentToday' = spentToday
    BY <1>1 DEF Start, Load, NewLedger
  <2>2. AtMostOne' /\ \A q \in Loops \ {p} : phase'[q] = "off"
    BY <1>1 DEF Start, TypeInv, TypeOK
  <2>3. CoveredBy(Load, 0, 0)
    BY <1>1 DEF Start, BudgetInv, BooksCover
  <2>4. phase'[p] = "scanning" /\ durable'[p] = d
    BY <1>1 DEF Start, TypeInv, TypeOK
  <2>5. CASE d
    <3>1. CASE ledger'[p] = Load /\ lapses' = lapses
      <4>1. (Rolled(ledger[p]))' = Load
        BY <3>1, <2>1, LoadWithin DEF TypeInv, Rolled, NewLedger
      <4> QED
        BY <2>1, <2>2, <2>3, <2>4, <2>5, <3>1, <4>1, <1>c, BookTypes
        DEF BooksCover, CoveredBy, Covers, Pending, PendingCost
    <3>2. CASE ledger'[p] = NewLedger /\ lapses' = lapses + 1
      <4>1. /\ (Rolled(ledger[p]))' = NewLedger
            /\ NewLedger.findings_acted = 0 /\ NewLedger.cost_usd = 0
        BY <3>2, <2>1 DEF Rolled, NewLedger
      <4>2. /\ actedToday' <= Acts0' /\ actedToday' <= Load.findings_acted + Acts0'
            /\ spentToday' <= Cost0' /\ spentToday' <= Load.cost_usd + Cost0'
        BY <2>1, <2>3, <3>2, <1>b, BookTypes DEF CoveredBy, Covers
      <4>3. Acts0' \in Nat /\ Cost0' \in Nat
        BY <3>2, <1>a, <1>b
      <4>4. CoveredBy(Load, 0, 0)' /\ CoveredBy(Rolled(ledger[p]), 0, 0)'
        BY <2>1, <4>1, <4>2, <4>3, BookTypes DEF CoveredBy, Covers
      <4>5. Pending(p)' = 0 /\ PendingCost(p)' = 0
        BY <2>4 DEF Pending, PendingCost
      <4> QED
        BY <2>2, <2>4, <2>5, <4>4, <4>5 DEF BooksCover
    <3> QED
      BY <1>1, <2>5, <3>1, <3>2 DEF Start, TypeInv, TypeOK, Lapse
  <2>6. CASE ~d
    <3>1. ledger'[p] = NewLedger /\ lapses' = lapses + 1
      BY <1>1, <2>6 DEF Start, TypeInv, TypeOK, Lapse
    <3>2. /\ (Rolled(ledger[p]))' = NewLedger
          /\ NewLedger.findings_acted = 0 /\ NewLedger.cost_usd = 0
      BY <3>1, <2>1 DEF Rolled, NewLedger
    <3>3. /\ actedToday' + MaxPerDay <= Load.findings_acted + 0 + 0 + Acts0'
          /\ spentToday' + MaxCost <= Load.cost_usd + 0 + 0 + Cost0'
      BY <2>1, <2>3, <3>1, <1>b, BookTypes DEF CoveredBy, Covers
    <3> QED
      BY <2>1, <2>2, <2>4, <2>6, <3>2, <3>3
      DEF BooksCover, Pending, PendingCost
  <2> QED
    BY <2>2, <2>5, <2>6, SwitchesAssumption
<1>2. ASSUME NEW p \in Loops, NEW firing \in SUBSET Findings, Scanned(p, firing)
      PROVE  AtMostOne' /\ BooksCover'
  BY <1>2, Quiet DEF Scanned, TypeInv, TypeOK, Rolled, NewLedger
<1>3. ASSUME NEW p \in Loops, NEW f \in Findings, PassOver(p, f)
      PROVE  AtMostOne' /\ BooksCover'
  BY <1>3, Quiet DEF PassOver, TypeInv, TypeOK, Rolled, NewLedger
<1>4. ASSUME NEW p \in Loops, NEW f \in Findings, Admit(p, f)
      PROVE  AtMostOne' /\ BooksCover'
  BY <1>4, Quiet DEF Admit, TypeInv, TypeOK, Rolled, NewLedger
<1>5. ASSUME NEW p \in Loops, NEW f \in Findings, Observe(p, f)
      PROVE  AtMostOne' /\ BooksCover'
  <2>1. actedToday' <= actedToday + 1 /\ spentToday' <= spentToday + CostEach
    BY <1>5 DEF Observe, TypeInv, TypeOK
  <2>2. /\ Load' = Load /\ \A q \in Loops : (Rolled(ledger[q]))' = Rolled(ledger[q])
        /\ durable' = durable /\ lapses' = lapses
    BY <1>5 DEF Observe, Load, Rolled, NewLedger
  <2>3. /\ phase[p] = "enriching" /\ phase'[p] = "recording"
        /\ \A q \in Loops \ {p} : phase[q] = "off" /\ phase'[q] = "off"
    BY <1>5 DEF Observe, TypeInv, TypeOK
  <2>4. /\ Pending(p) = 0 /\ PendingCost(p) = 0
        /\ (Pending(p))' = 1 /\ (PendingCost(p))' = CostEach
    BY <2>3 DEF Pending, PendingCost
  <2>5. actedToday' \in Nat /\ spentToday' \in Nat
    BY DEF TypeInv, TypeOK
  <2> QED
    BY <2>1, <2>2, <2>3, <2>4, <2>5, <1>c, BookTypes
    DEF BudgetInv, BooksCover, CoveredBy, Covers
<1>6. ASSUME NEW p \in Loops, Record(p)
      PROVE  AtMostOne' /\ BooksCover'
  <2>1. /\ ledger'[p] = Counted(Rolled(ledger[p]))
        /\ today' = today /\ actedToday' = actedToday /\ spentToday' = spentToday
        /\ lapses' = lapses
        /\ durable' = durable /\ durable[p]
        /\ phase[p] = "recording" /\ phase'[p] = "persisting"
        /\ \A q \in Loops \ {p} : phase[q] = "off" /\ phase'[q] = "off"
    BY <1>6 DEF Record, TypeInv, TypeOK
  <2>2. Rolled(ledger[p]) \in Ledger /\ WithinBudget(Rolled(ledger[p]))
        /\ Rolled(ledger[p]).day = today
    BY <2>1, RolledWithin DEF TypeInv, Admitted
  <2>3. /\ (Rolled(ledger[p]))' = Counted(Rolled(ledger[p]))
        /\ Counted(Rolled(ledger[p])).findings_acted = Rolled(ledger[p]).findings_acted + 1
        /\ Counted(Rolled(ledger[p])).cost_usd = Rolled(ledger[p]).cost_usd + CostEach
    BY <2>1, <2>2, CountedWithin DEF Rolled
  <2>4. /\ Pending(p) = 1 /\ PendingCost(p) = CostEach
        /\ (Pending(p))' = 0 /\ (PendingCost(p))' = 0
    BY <2>1 DEF Pending, PendingCost
  <2>5. CoveredBy(Rolled(ledger[p]), 1, CostEach)
    BY <2>1, <2>4 DEF BudgetInv, BooksCover
  <2>6. (CoveredBy(Rolled(ledger[p]), Pending(p), PendingCost(p)))'
    BY <2>1, <2>3, <2>4, <2>5, <1>c, BookTypes DEF CoveredBy, Covers
  <2> QED
    BY <2>1, <2>6 DEF BooksCover
<1>7. ASSUME NEW p \in Loops, NEW f \in Findings, Persist(p, f)
      PROVE  AtMostOne' /\ BooksCover'
  <2>1. /\ today' = today /\ actedToday' = actedToday /\ spentToday' = spentToday
        /\ lapses' = lapses /\ ledger' = ledger /\ durable' = durable
        /\ phase[p] = "persisting" /\ phase'[p] \in {"handing_off", "gating", "off"}
        /\ \A q \in Loops \ {p} : phase[q] = "off" /\ phase'[q] = "off"
    BY <1>7 DEF Persist, AfterRecord, TypeInv, TypeOK
  <2>2. durable[p] /\ CoveredBy(Rolled(ledger[p]), 0, 0)
    BY <2>1 DEF BudgetInv, BooksCover, Pending, PendingCost
  <2>3. Load' = Rolled(ledger[p]) /\ (Rolled(ledger[p]))' = Rolled(ledger[p])
    BY <1>7, <2>1 DEF Persist, Load, Rolled, NewLedger
  <2>4. (CoveredBy(Load, 0, 0))' /\ (CoveredBy(Rolled(ledger[p]), 0, 0))'
    BY <2>1, <2>2, <2>3, <1>c DEF CoveredBy, Covers
  <2> QED
    BY <2>1, <2>2, <2>4 DEF BooksCover, Pending, PendingCost
<1>8. ASSUME NEW p \in Loops, NEW f \in Findings, WriteFails(p, f)
      PROVE  AtMostOne' /\ BooksCover'
  <2>1. /\ today' = today /\ actedToday' = actedToday /\ spentToday' = spentToday
        /\ lapses' = lapses + 1 /\ ledger' = ledger /\ durable' = durable
        /\ phase[p] = "persisting" /\ phase'[p] \in {"handing_off", "gating", "off"}
        /\ \A q \in Loops \ {p} : phase[q] = "off" /\ phase'[q] = "off"
    BY <1>8 DEF WriteFails, AfterRecord, Lapse, TypeInv, TypeOK
  <2>2. durable[p] /\ CoveredBy(Rolled(ledger[p]), 0, 0)
    BY <2>1 DEF BudgetInv, BooksCover, Pending, PendingCost
  <2>3. Load' = Load /\ (Rolled(ledger[p]))' = Rolled(ledger[p])
    BY <1>8 DEF WriteFails, Load, Rolled, NewLedger
  <2>4. (CoveredBy(Load, 0, 0))' /\ (CoveredBy(Rolled(ledger[p]), 0, 0))'
    BY <2>1, <2>2, <2>3, <1>b, Cut, BookTypes DEF CoveredBy, Covers
  <2> QED
    BY <2>1, <2>2, <2>4 DEF BooksCover, Pending, PendingCost
<1>9. ASSUME NEW p \in Loops, NEW f \in Findings, RecordInMemory(p, f)
      PROVE  AtMostOne' /\ BooksCover'
  <2>1. /\ today' = today /\ actedToday' = actedToday /\ spentToday' = spentToday
        /\ ledger'[p] = Counted(Rolled(ledger[p])) /\ durable' = durable
        /\ phase[p] = "recording" /\ phase'[p] \in {"handing_off", "gating", "off"}
        /\ \A q \in Loops \ {p} : phase[q] = "off" /\ phase'[q] = "off"
    BY <1>9 DEF RecordInMemory, AfterRecord, TypeInv, TypeOK
  <2>2. Rolled(ledger[p]) \in Ledger /\ WithinBudget(Rolled(ledger[p]))
        /\ Rolled(ledger[p]).day = today
    BY <2>1, RolledWithin DEF TypeInv, Admitted
  <2>3. /\ Load' = Load
        /\ (Rolled(ledger[p]))' = Counted(Rolled(ledger[p]))
        /\ Counted(Rolled(ledger[p])).findings_acted = Rolled(ledger[p]).findings_acted + 1
        /\ Counted(Rolled(ledger[p])).cost_usd = Rolled(ledger[p]).cost_usd + CostEach
    BY <1>9, <2>1, <2>2, CountedWithin DEF RecordInMemory, Load, Rolled, NewLedger
  <2>4. /\ Pending(p) = 1 /\ PendingCost(p) = CostEach
        /\ (Pending(p))' = 0 /\ (PendingCost(p))' = 0
    BY <2>1 DEF Pending, PendingCost
  <2>5. CASE durable[p]
    <3>1. lapses' = lapses + 1
      BY <1>9, <2>5 DEF RecordInMemory, Lapse
    <3>2. CoveredBy(Rolled(ledger[p]), 1, CostEach)
      BY <2>1, <2>4, <2>5 DEF BudgetInv, BooksCover
    <3>3. (CoveredBy(Load, 0, 0))'
      BY <2>1, <2>3, <2>5, <3>1, <1>b, Cut, BookTypes DEF CoveredBy, Covers
    <3>4. (CoveredBy(Rolled(ledger[p]), 0, 0))'
      BY <2>1, <2>3, <3>1, <3>2, <1>b, BookTypes DEF CoveredBy, Covers
    <3> QED
      BY <2>1, <2>4, <2>5, <3>3, <3>4 DEF BooksCover
  <2>6. CASE ~durable[p]
    <3>1. lapses' = lapses
      BY <1>9, <2>6 DEF RecordInMemory
    <3>2. /\ actedToday + MaxPerDay
                <= Load.findings_acted + Rolled(ledger[p]).findings_acted + 1 + Acts0
          /\ spentToday + MaxCost
                <= Load.cost_usd + Rolled(ledger[p]).cost_usd + CostEach + Cost0
      BY <2>1, <2>4, <2>6 DEF BudgetInv, BooksCover
    <3>3. /\ (actedToday + MaxPerDay
                <= Load.findings_acted + Rolled(ledger[p]).findings_acted + 0 + Acts0)'
          /\ (spentToday + MaxCost
                <= Load.cost_usd + Rolled(ledger[p]).cost_usd + 0 + Cost0)'
      BY <2>1, <2>3, <3>1, <3>2, <1>c, BookTypes
    <3>4. (CoveredBy(Load, 0, 0))'
      BY <2>1, <2>3, <2>6, <3>1, <1>c, Cut DEF CoveredBy, Covers
    <3> QED
      BY <2>1, <2>4, <2>6, <3>3, <3>4 DEF BooksCover
  <2> QED
    BY <2>1, <2>5, <2>6
<1>10. ASSUME NEW p \in Loops, NEW f \in Findings, HandOff(p, f)
      PROVE  AtMostOne' /\ BooksCover'
  BY <1>10, Quiet DEF HandOff, Proceed, TypeInv, TypeOK, Rolled, NewLedger
<1>11. ASSUME NEW p \in Loops, NEW f \in Findings, FindIssue(p, f)
      PROVE  AtMostOne' /\ BooksCover'
  BY <1>11, Quiet DEF FindIssue, Proceed, TypeInv, TypeOK, Rolled, NewLedger
<1>12. ASSUME NEW p \in Loops, NEW f \in Findings, FindNoIssue(p, f)
      PROVE  AtMostOne' /\ BooksCover'
  BY <1>12, Quiet DEF FindNoIssue, TypeInv, TypeOK, Rolled, NewLedger
<1>13. ASSUME NEW p \in Loops, NEW f \in Findings, CreateIssue(p, f)
      PROVE  AtMostOne' /\ BooksCover'
  BY <1>13, Quiet DEF CreateIssue, Proceed, TypeInv, TypeOK, Rolled, NewLedger
<1>14. ASSUME NEW p \in Loops, GitHubGivesUp(p)
      PROVE  AtMostOne' /\ BooksCover'
  BY <1>14, Quiet DEF GitHubGivesUp, Proceed, TypeInv, TypeOK, Rolled, NewLedger
<1>15. ASSUME NEW p \in Loops, Crash(p)
      PROVE  AtMostOne' /\ BooksCover'
  <2>1. CASE phase[p] \notin {"recording", "persisting"}
    BY <1>15, <2>1, Quiet DEF Crash, TypeInv, TypeOK, Rolled, NewLedger
  <2>2. CASE phase[p] \in {"recording", "persisting"}
    <3>1. /\ today' = today /\ actedToday' = actedToday /\ spentToday' = spentToday
          /\ Load' = Load /\ \A q \in Loops : phase'[q] = "off"
          /\ lapses' = IF durable[p] THEN lapses + 1 ELSE lapses
      BY <1>15, <2>2 DEF Crash, Lapse, Load, NewLedger, TypeInv, TypeOK
    <3>2. (CoveredBy(Load, 0, 0))'
      BY <2>2, <3>1, <1>b, <1>c, Cut, BookTypes DEF CoveredBy, Covers
    <3> QED
      BY <3>1, <3>2 DEF BooksCover
  <2> QED
    BY <2>1, <2>2
<1>16. ASSUME NEW f \in Findings, CloseIssue(f) PROVE AtMostOne' /\ BooksCover'
  BY <1>16, Quiet DEF CloseIssue, cycleVars, Rolled, NewLedger
<1>17. CASE Midnight
  <2>1. /\ actedToday' = 0 /\ spentToday' = 0 /\ phase' = phase /\ durable' = durable
        /\ \A p \in Loops : phase[p] # "off" /\ ~durable[p] => lapses' = 1
        /\ lapses' \in Nat
    BY <1>17 DEF Midnight, cycleVars
  <2>2. PICK acts \in Nat, cost \in Nat : Acts0' = acts /\ Cost0' = cost
    <3>1. Acts0' \in Nat /\ Cost0' \in Nat
      BY <2>1, Worth DEF Acts0, Cost0
    <3> QED
      BY <3>1
  <2>a. lapses' = 1 => Acts0' = MaxPerDay /\ Cost0' = MaxCost
    BY Worth DEF Acts0, Cost0
  <2>3. /\ Load' = NewLedger' /\ \A p \in Loops : (Rolled(ledger[p]))' = NewLedger'
        /\ NewLedger'.findings_acted = 0 /\ NewLedger'.cost_usd = 0
    BY <1>17 DEF Midnight, cycleVars, TypeInv, TypeOK, Days, Load, Rolled, NewLedger,
                 Ledger, EmptyFile
  <2>4. \A p \in Loops : (Pending(p))' \in Nat /\ (PendingCost(p))' \in Nat
    BY DEF Pending, PendingCost
  <2>5. ASSUME NEW p \in Loops, phase[p] # "off", ~durable[p]
        PROVE  phase[p] # "persisting"
    BY <2>5 DEF BudgetInv, BooksCover
  <2>6. (CoveredBy(Load, 0, 0))'
    BY <2>1, <2>2, <2>3 DEF CoveredBy, Covers
  <2>7. ASSUME NEW p \in Loops
        PROVE  (CoveredBy(Rolled(ledger[p]), Pending(p), PendingCost(p)))'
    BY <2>1, <2>2, <2>3, <2>4 DEF CoveredBy, Covers
  <2>8. ASSUME NEW p \in Loops
        PROVE  (CoveredBy(Load, Pending(p), PendingCost(p)))'
    BY <2>1, <2>2, <2>3, <2>4 DEF CoveredBy, Covers
  <2>9. ASSUME NEW p \in Loops, phase[p] # "off", ~durable[p]
        PROVE  /\ (actedToday + MaxPerDay <= Load.findings_acted
                    + Rolled(ledger[p]).findings_acted + Pending(p) + Acts0)'
               /\ (spentToday + MaxCost <= Load.cost_usd
                    + Rolled(ledger[p]).cost_usd + PendingCost(p) + Cost0)'
    BY <2>1, <2>2, <2>3, <2>4, <2>9, <2>a
  <2> QED
    BY <2>1, <2>5, <2>6, <2>7, <2>8, <2>9 DEF BooksCover
<1>18. CASE UNCHANGED vars
  BY <1>18, Quiet DEF vars, cycleVars, Rolled, NewLedger
<1> QED
  BY <1>1, <1>2, <1>3, <1>4, <1>5, <1>6, <1>7, <1>8, <1>9, <1>10, <1>11, <1>12,
     <1>13, <1>14, <1>15, <1>16, <1>17, <1>18
  DEF Next, Acts

\* The daily limits of ledger.py hold of the day, not only of the ledger, when
\* cycles do not overlap: over any number of cycles, though midnight may come
\* between the gate and record_finding, and though processes die, writes fail and
\* state directories are missing, each lapse being worth one budget at most.
THEOREM DailyBudgetHolds ==
    ASSUME Exclusive PROVE Spec => []DailyBudgetRespected
<1>1. Spec => []BudgetInv
  BY BudgetInvInit, BudgetInvStep, PTL DEF Spec
<1>2. BudgetInv => DailyBudgetRespected
  <2> SUFFICES ASSUME BudgetInv PROVE DailyBudgetRespected
    OBVIOUS
  <2>1. TypeInv
    BY DEF BudgetInv
  <2>2. actedToday <= MaxPerDay + Acts0 /\ spentToday <= MaxCost + Cost0
    <3>1. CASE \A p \in Loops : phase[p] = "off"
      BY <2>1, <3>1, BookTypes DEF BudgetInv, BooksCover, CoveredBy, Covers
    <3>2. ASSUME NEW p \in Loops, phase[p] \in {"recording", "persisting"}
          PROVE  actedToday <= MaxPerDay + Acts0 /\ spentToday <= MaxCost + Cost0
      BY <2>1, <3>2, Cut, BookTypes DEF CoveredBy, Covers
    <3>3. ASSUME NEW p \in Loops, phase[p] \notin {"off", "recording", "persisting"}
          PROVE  actedToday <= MaxPerDay + Acts0 /\ spentToday <= MaxCost + Cost0
      BY <2>1, <3>3, Settled, BookTypes DEF CoveredBy, Covers
    <3> QED
      BY <3>1, <3>2, <3>3
  <2>3. /\ MaxPerDay * (1 + lapses) = Acts0 + MaxPerDay
        /\ MaxCost * (1 + lapses) = Cost0 + MaxCost
    BY <2>1, BookTypes, Worth DEF Acts0, Cost0
  <2> QED
    BY <2>1, <2>2, <2>3, BookTypes DEF DailyBudgetRespected, DayWithin
<1> QED
  BY <1>1, <1>2, PTL

-----------------------------------------------------------------------------
(* One cycle at a time, which may die, and a GitHub that may not answer. *)

\* A finding about to get an issue has none, or one that the search has missed.
SearchedFirst ==
    \A p \in Loops :
        /\ \A f, g \in current[p] : f = g
        /\ phase[p] = "creating" => \A f \in current[p] : issues[f] = 0 \/ f \in missed

IssueInv == TypeOK /\ AtMostOne /\ SearchedFirst /\ OneOpenIssue

\* Every step keeps one open issue per finding.
LEMMA IssueInvStep ==
    ASSUME Exclusive
    PROVE  IssueInv /\ TypeOK' /\ [Next]_vars => IssueInv'
<1> SUFFICES ASSUME IssueInv, TypeOK', [Next]_vars
             PROVE  AtMostOne' /\ SearchedFirst' /\ OneOpenIssue'
  BY DEF IssueInv
<1> USE DEF IssueInv, TypeOK, AtMostOne, SearchedFirst, OneOpenIssue
<1>1. ASSUME NEW p \in Loops, NEW m \in Modes, NEW d \in StateDirs, Start(p, m, d)
      PROVE  AtMostOne' /\ SearchedFirst' /\ OneOpenIssue'
  BY <1>1 DEF Start
<1>2. ASSUME NEW p \in Loops, NEW firing \in SUBSET Findings, Scanned(p, firing)
      PROVE  AtMostOne' /\ SearchedFirst' /\ OneOpenIssue'
  BY <1>2 DEF Scanned
<1>3. ASSUME NEW p \in Loops, NEW f \in Findings, PassOver(p, f) \/ Admit(p, f)
      PROVE  AtMostOne' /\ SearchedFirst' /\ OneOpenIssue'
  BY <1>3 DEF PassOver, Admit
<1>4. ASSUME NEW p \in Loops, NEW f \in Findings,
             \/ Observe(p, f) \/ Persist(p, f)
             \/ WriteFails(p, f) \/ RecordInMemory(p, f)
      PROVE  AtMostOne' /\ SearchedFirst' /\ OneOpenIssue'
  BY <1>4 DEF Observe, Persist, WriteFails, RecordInMemory, AfterRecord
<1>5. ASSUME NEW p \in Loops, NEW f \in Findings,
             HandOff(p, f) \/ FindIssue(p, f)
      PROVE  AtMostOne' /\ SearchedFirst' /\ OneOpenIssue'
  BY <1>5 DEF HandOff, FindIssue, Proceed
<1>6. ASSUME NEW p \in Loops, NEW f \in Findings, FindNoIssue(p, f)
      PROVE  AtMostOne' /\ SearchedFirst' /\ OneOpenIssue'
  BY <1>6 DEF FindNoIssue
<1>7. ASSUME NEW p \in Loops, NEW f \in Findings, CreateIssue(p, f)
      PROVE  AtMostOne' /\ SearchedFirst' /\ OneOpenIssue'
  BY <1>7 DEF CreateIssue, Proceed
<1>8. ASSUME NEW f \in Findings, CloseIssue(f)
      PROVE  AtMostOne' /\ SearchedFirst' /\ OneOpenIssue'
  BY <1>8 DEF CloseIssue, cycleVars
<1>9. CASE Midnight \/ UNCHANGED vars
  BY <1>9 DEF Midnight, vars, cycleVars
<1>10. ASSUME NEW p \in Loops, Record(p) \/ GitHubGivesUp(p) \/ Crash(p)
      PROVE  AtMostOne' /\ SearchedFirst' /\ OneOpenIssue'
  BY <1>10 DEF Record, GitHubGivesUp, Proceed, Crash
<1> QED
  BY <1>1, <1>2, <1>3, <1>4, <1>5, <1>6, <1>7, <1>8, <1>9, <1>10
  DEF Next, Acts

\* ensure_candidate_issue keeps one open issue per finding when cycles do not
\* overlap, until a search misses an issue that is open: even if cycles die between
\* the search and the creation, GitHub fails, and issues are closed at any time.
THEOREM OneIssuePerFinding ==
    ASSUME Exclusive PROVE Spec => []OneOpenIssue
<1>1. Init => IssueInv
  BY TypeInvInit
  DEF Init, IssueInv, TypeInv, AtMostOne, SearchedFirst, OneOpenIssue
<1>2. Spec => []TypeOK
  BY LedgersWithinLimits
<1>3. IssueInv => OneOpenIssue
  BY DEF IssueInv
<1> QED
  BY <1>1, <1>2, <1>3, IssueInvStep, PTL DEF Spec

-----------------------------------------------------------------------------
(* Any number of cycles at once, which may die. *)

\* What is stored of the findings being acted on, by the phase of the cycle, and
\* that only an eligible one comes to be handed off.
StoredInOrder ==
    \A p \in Loops :
        /\ phase[p] # "off" => durable[p]
        /\ \A f, g \in current[p] : f = g
        /\ phase[p] \in {"recording", "persisting", "handing_off", "searching", "creating"}
              => current[p] \subseteq cases
        /\ phase[p] \in {"handing_off", "searching", "creating"}
              => \A f \in current[p] : HandoffEligible(f)
        /\ phase[p] \in {"searching", "creating"} => current[p] \subseteq handoffs

HandoffInv == StoredInOrder /\ OpenIssueHasHandoff

\* Every step keeps what is stored ahead of what is posted.
LEMMA HandoffInvStep ==
    ASSUME StateDirs \subseteq {TRUE}
    PROVE  HandoffInv /\ TypeOK /\ [Next]_vars => HandoffInv'
<1> SUFFICES ASSUME HandoffInv, TypeOK, [Next]_vars PROVE HandoffInv'
  OBVIOUS
<1> USE DEF HandoffInv, TypeOK, StoredInOrder, OpenIssueHasHandoff
<1>1. ASSUME NEW p \in Loops, NEW m \in Modes, NEW d \in StateDirs, Start(p, m, d)
      PROVE  HandoffInv'
  <2>1. d = TRUE
    OBVIOUS
  <2>2. /\ phase' = [phase EXCEPT ![p] = "scanning"]
        /\ durable' = [durable EXCEPT ![p] = TRUE]
        /\ current' = [current EXCEPT ![p] = {}]
        /\ UNCHANGED <<cases, handoffs, issues>>
    BY <1>1, <2>1 DEF Start, stored
  <2> QED
    BY <2>2
<1>2. ASSUME NEW p \in Loops, NEW firing \in SUBSET Findings, Scanned(p, firing)
      PROVE  HandoffInv'
  BY <1>2 DEF Scanned, stored
<1>3. ASSUME NEW p \in Loops, NEW f \in Findings, PassOver(p, f) PROVE HandoffInv'
  BY <1>3 DEF PassOver, stored
<1>4. ASSUME NEW p \in Loops, NEW f \in Findings, Admit(p, f) PROVE HandoffInv'
  BY <1>4 DEF Admit, stored
<1>5. ASSUME NEW p \in Loops, NEW f \in Findings, Observe(p, f) PROVE HandoffInv'
  BY <1>5 DEF Observe, Put
<1>6. ASSUME NEW p \in Loops, Record(p) PROVE HandoffInv'
  BY <1>6 DEF Record, stored
<1>7. ASSUME NEW p \in Loops, NEW f \in Findings,
             Persist(p, f) \/ WriteFails(p, f) \/ RecordInMemory(p, f)
      PROVE  HandoffInv'
  BY <1>7
  DEF Persist, WriteFails, RecordInMemory, AfterRecord, stored, BuildsHandoff,
      HandoffEligible
<1>8. ASSUME NEW p \in Loops, NEW f \in Findings, HandOff(p, f) PROVE HandoffInv'
  BY <1>8 DEF HandOff, Proceed, Put
<1>9. ASSUME NEW p \in Loops, NEW f \in Findings, FindIssue(p, f) PROVE HandoffInv'
  BY <1>9 DEF FindIssue, Proceed, stored
<1>10. ASSUME NEW p \in Loops, NEW f \in Findings, FindNoIssue(p, f) PROVE HandoffInv'
  BY <1>10 DEF FindNoIssue, stored
<1>11. ASSUME NEW p \in Loops, NEW f \in Findings, CreateIssue(p, f) PROVE HandoffInv'
  BY <1>11 DEF CreateIssue, Proceed, stored, HandoffEligible
<1>12. ASSUME NEW p \in Loops, GitHubGivesUp(p) \/ Crash(p) PROVE HandoffInv'
  BY <1>12 DEF GitHubGivesUp, Crash, Proceed, stored
<1>13. ASSUME NEW f \in Findings, CloseIssue(f) PROVE HandoffInv'
  BY <1>13 DEF CloseIssue, cycleVars, stored
<1>14. CASE Midnight \/ UNCHANGED vars
  BY <1>14 DEF Midnight, vars, cycleVars, stored
<1> QED
  BY <1>1, <1>2, <1>3, <1>4, <1>5, <1>6, <1>7, <1>8, <1>9, <1>10, <1>11, <1>12,
     <1>13, <1>14
  DEF Next, Acts

\* run_once stores the case and the handoff before ensure_candidate_issue posts:
\* if every cycle has a state directory it can use, an open issue has both, and its
\* finding warrants them, however many cycles overlap, die, lose writes of the
\* ledger, or meet a GitHub that fails.
THEOREM IssuesAreBacked ==
    ASSUME StateDirs \subseteq {TRUE} PROVE Spec => []OpenIssueHasHandoff
<1>1. Init => HandoffInv
  BY DEF Init, HandoffInv, StoredInOrder, OpenIssueHasHandoff
<1>2. Spec => []TypeOK
  BY LedgersWithinLimits
<1>3. HandoffInv => OpenIssueHasHandoff
  BY DEF HandoffInv
<1> QED
  BY <1>1, <1>2, <1>3, HandoffInvStep, PTL DEF Spec

\* A cycle that has passed over a finding above the floor has run into the cap or
\* the budget, and neither yields before midnight; so a cycle that acts on a
\* finding has passed over none.
NoneSkipped ==
    \A p \in Loops :
        /\ phase[p] \in Phases \ {"off", "gating"} => passedOver[p] = {}
        /\ phase[p] = "gating" /\ passedOver[p] # {} =>
              acted[p] >= MaxPerCycle \/ ~WithinBudget(Rolled(ledger[p]))

\* The finding past the gate is the best of those that were left.
BestOfTheRest ==
    \A p \in Loops :
        phase[p] = "enriching" =>
            \A f \in current[p], g \in todo[p] : Score[g] <= Score[f]

OrderInv == NoneSkipped /\ BestOfTheRest

\* Every step keeps the order.
LEMMA OrderInvStep == OrderInv /\ TypeOK /\ [Next]_vars => OrderInv'
<1> SUFFICES ASSUME OrderInv, TypeOK, [Next]_vars PROVE OrderInv'
  OBVIOUS
<1> USE DEF OrderInv, TypeOK, NoneSkipped, BestOfTheRest, Phases
<1>1. ASSUME NEW p \in Loops, NEW m \in Modes, NEW d \in StateDirs, Start(p, m, d)
      PROVE  OrderInv'
  BY <1>1 DEF Start, Rolled, NewLedger, WithinBudget
<1>2. ASSUME NEW p \in Loops, NEW firing \in SUBSET Findings, Scanned(p, firing)
      PROVE  OrderInv'
  BY <1>2 DEF Scanned, Rolled, NewLedger, WithinBudget
<1>3. ASSUME NEW p \in Loops, NEW f \in Findings, PassOver(p, f) PROVE OrderInv'
  <2>1. \A b : Rolled(b)' = Rolled(b) /\ (WithinBudget(b)' <=> WithinBudget(b))
    BY <1>3 DEF PassOver, Rolled, NewLedger, WithinBudget
  <2>2. ledger'[p] = Rolled(ledger[p]) /\ Rolled(Rolled(ledger[p])) = Rolled(ledger[p])
    BY <1>3, RolledWithin DEF PassOver
  <2>3. passedOver'[p] # {} => acted[p] >= MaxPerCycle \/ ~WithinBudget(Rolled(ledger[p]))
    BY <1>3 DEF PassOver
  <2>4. \A q \in Loops \ {p} : ledger'[q] = ledger[q] /\ passedOver'[q] = passedOver[q]
                               /\ phase'[q] = phase[q] /\ todo'[q] = todo[q]
    BY <1>3 DEF PassOver
  <2>5. phase'[p] \in {"off", "gating"} /\ acted' = acted /\ current' = current
    BY <1>3 DEF PassOver
  <2> QED
    BY <2>1, <2>2, <2>3, <2>4, <2>5 DEF WithinBudget
<1>4. ASSUME NEW p \in Loops, NEW f \in Findings, Admit(p, f) PROVE OrderInv'
  <2>1. passedOver[p] = {}
    BY <1>4, LimitsAssumption DEF Admit
  <2>2. BestOfTheRest'
    BY <1>4 DEF Admit, Foremost
  <2>3. NoneSkipped'
    BY <1>4, <2>1 DEF Admit, Rolled, NewLedger, WithinBudget
  <2> QED
    BY <2>2, <2>3
<1>5. ASSUME NEW p \in Loops, NEW f \in Findings, Observe(p, f) PROVE OrderInv'
  BY <1>5 DEF Observe, Rolled, NewLedger, WithinBudget
<1>6. ASSUME NEW p \in Loops, Record(p) PROVE OrderInv'
  BY <1>6 DEF Record, Rolled, NewLedger, WithinBudget
<1>7. ASSUME NEW p \in Loops, NEW f \in Findings,
             Persist(p, f) \/ WriteFails(p, f) \/ RecordInMemory(p, f)
      PROVE  OrderInv'
  BY <1>7
  DEF Persist, WriteFails, RecordInMemory, AfterRecord, Rolled, NewLedger, WithinBudget
<1>8. ASSUME NEW p \in Loops, NEW f \in Findings, HandOff(p, f) PROVE OrderInv'
  BY <1>8 DEF HandOff, Proceed, Rolled, NewLedger, WithinBudget
<1>9. ASSUME NEW p \in Loops, NEW f \in Findings, FindIssue(p, f) PROVE OrderInv'
  BY <1>9 DEF FindIssue, Proceed, Rolled, NewLedger, WithinBudget
<1>10. ASSUME NEW p \in Loops, NEW f \in Findings, FindNoIssue(p, f) PROVE OrderInv'
  BY <1>10 DEF FindNoIssue, Rolled, NewLedger, WithinBudget
<1>11. ASSUME NEW p \in Loops, NEW f \in Findings, CreateIssue(p, f) PROVE OrderInv'
  BY <1>11 DEF CreateIssue, Proceed, Rolled, NewLedger, WithinBudget
<1>12. ASSUME NEW p \in Loops, GitHubGivesUp(p) \/ Crash(p) PROVE OrderInv'
  BY <1>12 DEF GitHubGivesUp, Crash, Proceed, Rolled, NewLedger, WithinBudget
<1>13. ASSUME NEW f \in Findings, CloseIssue(f) PROVE OrderInv'
  BY <1>13 DEF CloseIssue, cycleVars, Rolled, NewLedger, WithinBudget
<1>14. CASE Midnight
  BY <1>14 DEF Midnight, cycleVars
<1>15. CASE UNCHANGED vars
  BY <1>15 DEF vars, cycleVars, Rolled, NewLedger, WithinBudget
<1> QED
  BY <1>1, <1>2, <1>3, <1>4, <1>5, <1>6, <1>7, <1>8, <1>9, <1>10, <1>11, <1>12,
     <1>13, <1>14, <1>15
  DEF Next, Acts

\* The sort by score, the gate and the caps together: the finding a cycle acts on
\* is outranked by none above the floor that waits or was passed over that day,
\* for any scores and limits and though midnight refills the budget mid-cycle.
THEOREM ActsOnTheBestFirst == Spec => []BestFirst
<1>1. Init => OrderInv
  BY DEF Init, OrderInv, NoneSkipped, BestOfTheRest
<1>2. Spec => []TypeOK
  BY LedgersWithinLimits
<1>3. OrderInv => BestFirst
  BY DEF OrderInv, NoneSkipped, BestOfTheRest, BestFirst, Phases
<1> QED
  BY <1>1, <1>2, <1>3, OrderInvStep, PTL DEF Spec

-----------------------------------------------------------------------------
(* The tokens that carry the handoffs to GitHub (GitHubAuth). An instant is *)
(* known by the request it belongs to.                                      *)

\* A request in flight is at most Flight old.
InFlight ==
    \A t \in Tasks : request[t] # "idle" => since[t] <= now /\ now <= since[t] + Flight

\* The JWT was signed at most one request before the present one.
JwtAge ==
    \A t \in Tasks :
        /\ request[t] = "resolving" =>
               jwt[t].iat = since[t] - Backdate /\ jwt[t].exp = since[t] + JwtLife
        /\ request[t] = "minting" =>
               /\ jwt[t].iat <= since[t] - Backdate
               /\ since[t] - Flight + JwtLife <= jwt[t].exp
               /\ jwt[t].exp <= since[t] + JwtLife

\* A token was minted while its request was in flight, and is sent early enough
\* to live through its next one.
TokenAge ==
    \A t \in Tasks :
        /\ request[t] = "minted" =>
               /\ since[t] + skew + Lifetime <= token[t]
               /\ token[t] <= now + skew + Lifetime
        /\ request[t] = "sending" => since[t] + Flight + skew < token[t]

\* _expires_at is GitHub's word, or a guess that is late by a request at most.
CacheHonest ==
    \/ cached.expires_at = cached.token
    \/ cached.expires_at <= cached.token - skew + Flight

AuthInv == AuthTypeOK /\ InFlight /\ JwtAge /\ TokenAge /\ CacheHonest

USE DEF authVars, RequestStates, GitHubNow, NoToken, NoJwt

LEMMA AuthInvInit == AuthInit => AuthInv
  BY DurationsAssumption
  DEF AuthInit, AuthInv, AuthTypeOK, InFlight, JwtAge, TokenAge, CacheHonest

LEMMA UseCachedAuthInv == ASSUME AuthInv, NEW t \in Tasks, UseCached(t) PROVE AuthInv'
<1>1. AuthTypeOK'
  BY DurationsAssumption DEF AuthInv, AuthTypeOK, UseCached, Sends
<1>2. InFlight'
  BY DurationsAssumption DEF AuthInv, AuthTypeOK, InFlight, UseCached, Sends
<1>3. JwtAge'
  BY DurationsAssumption DEF AuthInv, AuthTypeOK, JwtAge, UseCached, Sends
<1>4. TokenAge'
  <2>1. now + Flight + skew < cached.token
    BY DurationsAssumption, MarginAssumption
    DEF AuthInv, AuthTypeOK, CacheHonest, UseCached, StillGood
  <2>2. QED
    BY <2>1, DurationsAssumption DEF AuthInv, AuthTypeOK, TokenAge, UseCached, Sends
<1>5. CacheHonest'
  BY DEF AuthInv, CacheHonest, UseCached
<1>6. QED
  BY <1>1, <1>2, <1>3, <1>4, <1>5 DEF AuthInv

LEMMA ResolveAuthInv == ASSUME AuthInv, NEW t \in Tasks, Resolve(t) PROVE AuthInv'
<1>1. AuthTypeOK'
  BY DurationsAssumption DEF AuthInv, AuthTypeOK, Resolve, Sends, MakeJwt
<1>2. InFlight'
  BY DurationsAssumption DEF AuthInv, AuthTypeOK, InFlight, Resolve, Sends
<1>3. JwtAge'
  BY DurationsAssumption DEF AuthInv, AuthTypeOK, JwtAge, Resolve, Sends, MakeJwt
<1>4. TokenAge' /\ CacheHonest'
  BY DurationsAssumption DEF AuthInv, AuthTypeOK, TokenAge, CacheHonest, Resolve, Sends
<1>5. QED
  BY <1>1, <1>2, <1>3, <1>4 DEF AuthInv

LEMMA ResolvedAuthInv == ASSUME AuthInv, NEW t \in Tasks, Resolved(t) PROVE AuthInv'
<1>1. AuthTypeOK'
  BY DurationsAssumption DEF AuthInv, AuthTypeOK, Resolved, Sends
<1>2. InFlight'
  BY DurationsAssumption DEF AuthInv, AuthTypeOK, InFlight, Resolved, Sends
<1>3. JwtAge'
  BY DurationsAssumption DEF AuthInv, AuthTypeOK, InFlight, JwtAge, Resolved, Sends
<1>4. TokenAge' /\ CacheHonest'
  BY DurationsAssumption DEF AuthInv, AuthTypeOK, TokenAge, CacheHonest, Resolved, Sends
<1>5. QED
  BY <1>1, <1>2, <1>3, <1>4 DEF AuthInv

LEMMA MintsAuthInv == ASSUME AuthInv, NEW t \in Tasks, GitHubMints(t) PROVE AuthInv'
<1>1. AuthTypeOK'
  BY DurationsAssumption DEF AuthInv, AuthTypeOK, GitHubMints
<1>2. InFlight' /\ JwtAge' /\ CacheHonest'
  BY DurationsAssumption
  DEF AuthInv, AuthTypeOK, InFlight, JwtAge, CacheHonest, GitHubMints
<1>3. TokenAge'
  BY DurationsAssumption DEF AuthInv, AuthTypeOK, InFlight, TokenAge, GitHubMints
<1>4. QED
  BY <1>1, <1>2, <1>3 DEF AuthInv

LEMMA MintedAuthInv ==
  ASSUME AuthInv, NEW t \in Tasks, NEW told \in BOOLEAN, Minted(t, told)
  PROVE  AuthInv'
<1>1. AuthTypeOK'
  BY DurationsAssumption DEF AuthInv, AuthTypeOK, Minted, Sends
<1>2. InFlight' /\ JwtAge'
  BY DurationsAssumption DEF AuthInv, AuthTypeOK, InFlight, JwtAge, Minted, Sends
<1>3. TokenAge'
  BY DurationsAssumption, MarginAssumption
  DEF AuthInv, AuthTypeOK, InFlight, TokenAge, Minted, Sends
<1>4. CacheHonest'
  BY DurationsAssumption
  DEF AuthInv, AuthTypeOK, InFlight, TokenAge, CacheHonest, Minted, Sends
<1>5. QED
  BY <1>1, <1>2, <1>3, <1>4 DEF AuthInv

LEMMA EndsAuthInv == ASSUME AuthInv, NEW t \in Tasks, Ends(t) PROVE AuthInv'
<1>1. AuthTypeOK'
  BY DurationsAssumption DEF AuthInv, AuthTypeOK, Ends
<1>2. InFlight' /\ JwtAge' /\ TokenAge' /\ CacheHonest'
  BY DEF AuthInv, AuthTypeOK, InFlight, JwtAge, TokenAge, CacheHonest, Ends
<1>3. QED
  BY <1>1, <1>2 DEF AuthInv

LEMMA TickAuthInv == ASSUME AuthInv, Tick PROVE AuthInv'
<1>1. AuthTypeOK'
  BY DurationsAssumption DEF AuthInv, AuthTypeOK, Tick
<1>2. InFlight'
  BY DurationsAssumption DEF AuthInv, AuthTypeOK, InFlight, Tick
<1>3. JwtAge' /\ CacheHonest'
  BY DEF AuthInv, JwtAge, CacheHonest, Tick
<1>4. TokenAge'
  BY DurationsAssumption DEF AuthInv, AuthTypeOK, TokenAge, Tick
<1>5. QED
  BY <1>1, <1>2, <1>3, <1>4 DEF AuthInv

LEMMA AuthInvStep == AuthInv /\ [AuthNext]_authVars => AuthInv'
<1>1. SUFFICES ASSUME AuthInv, [AuthNext]_authVars PROVE AuthInv'
  OBVIOUS
<1>2. CASE \E t \in Tasks : UseCached(t)
  BY <1>1, <1>2, UseCachedAuthInv
<1>3. CASE \E t \in Tasks : Resolve(t)
  BY <1>1, <1>3, ResolveAuthInv
<1>4. CASE \E t \in Tasks : Resolved(t)
  BY <1>1, <1>4, ResolvedAuthInv
<1>5. CASE \E t \in Tasks : GitHubMints(t)
  BY <1>1, <1>5, MintsAuthInv
<1>6. CASE \E t \in Tasks, told \in BOOLEAN : Minted(t, told)
  BY <1>1, <1>6, MintedAuthInv
<1>7. CASE \E t \in Tasks : Ends(t)
  BY <1>1, <1>7, EndsAuthInv
<1>8. CASE Tick
  BY <1>1, <1>8, TickAuthInv
<1>9. CASE UNCHANGED authVars
  BY <1>1, <1>9
  DEF AuthInv, AuthTypeOK, InFlight, JwtAge, TokenAge, CacheHonest
<1>10. QED
  BY <1>1, <1>2, <1>3, <1>4, <1>5, <1>6, <1>7, <1>8, <1>9 DEF AuthNext

LEMMA AuthInvAlways == AuthSpec => []AuthInv
  BY AuthInvInit, AuthInvStep, PTL DEF AuthSpec

\* Every variable keeps its type.
THEOREM TokenTypes == AuthSpec => []AuthTypeOK
<1>1. AuthInv => AuthTypeOK
  BY DEF AuthInv
<1>2. QED
  BY <1>1, AuthInvAlways, PTL

\* handoff.py: no request carries a token that GitHub's clock has outlived,
\* whatever the skew, the flight times, the guessed ages and the tasks.
THEOREM NoDeadToken == AuthSpec => []TokenAlive
<1>1. AuthInv => TokenAlive
  BY DurationsAssumption DEF AuthInv, AuthTypeOK, InFlight, TokenAge, TokenAlive
<1>2. QED
  BY <1>1, AuthInvAlways, PTL

\* _make_jwt: the JWT of both requests lies in GitHub's window all along.
THEOREM JwtAlwaysInWindow == AuthSpec => []JwtInWindow
<1>1. AuthInv => JwtInWindow
  <2>1. SUFFICES ASSUME AuthInv, NEW t \in Tasks, request[t] \in {"resolving", "minting"}
                 PROVE  JwtAccepted(t)
    BY DEF JwtInWindow
  <2>2. jwt[t].iat \in Int /\ jwt[t].exp \in Int /\ since[t] \in Int
        /\ now \in Int /\ skew \in Int /\ -MaxSkew <= skew /\ skew <= MaxSkew
    BY <2>1, DurationsAssumption DEF AuthInv, AuthTypeOK
  <2>3. since[t] <= now /\ now <= since[t] + Flight
    BY <2>1 DEF AuthInv, InFlight
  <2>4. /\ jwt[t].iat <= since[t] - Backdate
        /\ since[t] - Flight + JwtLife <= jwt[t].exp
        /\ jwt[t].exp <= since[t] + JwtLife
    BY <2>1, <2>2, DurationsAssumption DEF AuthInv, JwtAge
  <2>5. QED
    BY <2>2, <2>3, <2>4, DurationsAssumption, JwtAssumption DEF JwtAccepted
<1>2. QED
  BY <1>1, AuthInvAlways, PTL
=============================================================================
