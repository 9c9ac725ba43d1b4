------------------------ MODULE CaseIdentitiesProofs ------------------------
(***************************************************************************)
(* A fingerprint has no more cases, and a case no more handoffs, than      *)
(* cycles were up at once, for any number of processes and issues; and an  *)
(* issue points to a stored handoff of the case it names.                  *)
(*                                                                         *)
(* A process can make a case only while its snapshot has none.  Such a     *)
(* process started before the first case was stored, so when that one was  *)
(* stored they were all up; from then on the cases there are and the       *)
(* processes that may still make one only change places.                   *)
(***************************************************************************)
EXTENDS CaseIdentities, FiniteSetTheorems, SequenceTheorems, TLAPS

\* The processes that would open a case, if the finding fires.
Blind == {p \in Loops : phase[p] = "scanning" /\ case[p] = 0}

\* The processes that would build a handoff for case c.
Unhanded(c) == {p \in Loops : phase[p] # "off" /\ case[p] = c /\ handoff[p] = 0}

\* What a process knows, by its phase.
Knows ==
    \A p \in Loops :
        /\ case[p] = 0 => phase[p] \in {"off", "scanning"}
        /\ case[p] = 0 => handoff[p] = 0
        /\ handoff[p] # 0 => handoffs[handoff[p]] = case[p]
        /\ phase[p] \in {"searching", "creating", "answered"} => handoff[p] # 0

\* The first handoff of a case is one of its handoffs, if it has any.
FirstIsOne ==
    \A c \in 1..cases :
        /\ first[c] = 0 => HandoffsOf(c) = {}
        /\ first[c] # 0 => handoffs[first[c]] = c

\* The issues point to stored handoffs.
Pointers ==
    \A i \in DOMAIN issues :
        /\ issues[i].handoff \in DOMAIN handoffs
        /\ handoffs[issues[i].handoff] = issues[i].case

UpBound == Cardinality(Up) <= peak

CaseRoom == cases > 0 => cases + Cardinality(Blind) <= peak

HandoffRoom ==
    \A c \in 1..cases :
        HandoffsOf(c) # {} =>
            Cardinality(HandoffsOf(c)) + Cardinality(Unhanded(c)) <= peak

Shape == TypeOK /\ Knows /\ FirstIsOne /\ Pointers

IInv == Shape /\ UpBound /\ CaseRoom /\ HandoffRoom

USE DEF Phases

-----------------------------------------------------------------------------
(* Sets of processes, and of handoffs, are finite. *)

LEMMA SequenceElements ==
  ASSUME NEW S, NEW s \in Seq(S)
  PROVE  /\ s \in [1..Len(s) -> S] /\ DOMAIN s = 1..Len(s) /\ Len(s) \in Nat
         /\ \A i \in DOMAIN s : s[i] \in S
  OBVIOUS

LEMMA WiderSequence ==
  ASSUME NEW S, NEW T, S \subseteq T, NEW s \in Seq(S)
  PROVE  s \in Seq(T)
  OBVIOUS

LEMMA Elements ==
  ASSUME TypeOK
  PROVE  /\ cases \in Nat /\ peak \in Nat
         /\ DOMAIN handoffs = 1..Len(handoffs) /\ Len(handoffs) \in Nat
         /\ DOMAIN issues = 1..Len(issues) /\ Len(issues) \in Nat
         /\ \A h \in DOMAIN handoffs : handoffs[h] \in 1..cases
         /\ \A i \in DOMAIN issues :
                issues[i].case \in 1..cases /\ issues[i].handoff \in Nat
         /\ \A c \in 1..cases :
                first[c] \in 0..Len(handoffs) /\ recorded[c] \in 0..Len(issues)
<1> DEFINE Issue == [case : 1..cases, handoff : Nat, open : BOOLEAN]
<1>1. /\ handoffs \in Seq(1..cases) /\ issues \in Seq(Issue)
      /\ first \in Seq(0..Len(handoffs)) /\ Len(first) = cases
      /\ recorded \in Seq(0..Len(issues)) /\ Len(recorded) = cases
      /\ cases \in Nat /\ peak \in Nat
  BY DEF TypeOK
<1>2. DOMAIN first = 1..cases /\ DOMAIN recorded = 1..cases
  BY <1>1, SequenceElements
<1>3. \A i \in DOMAIN issues : issues[i] \in Issue
  BY <1>1, SequenceElements
<1>4. \A i \in DOMAIN issues : issues[i].case \in 1..cases /\ issues[i].handoff \in Nat
  BY <1>3
<1>5. QED
  BY <1>1, <1>2, <1>4, SequenceElements

LEMMA ProcessSets ==
  ASSUME NEW S \in SUBSET Loops
  PROVE  IsFiniteSet(S) /\ Cardinality(S) \in Nat
  BY LoopsAssumption, FS_Subset, FS_CardinalityType

LEMMA FewerProcesses ==
  ASSUME NEW S \in SUBSET Loops, NEW T \in SUBSET S
  PROVE  Cardinality(T) <= Cardinality(S) /\ Cardinality(T) \in Nat /\ Cardinality(S) \in Nat
  BY ProcessSets, FS_Subset

LEMMA HandoffSets ==
  ASSUME TypeOK, NEW c
  PROVE  IsFiniteSet(HandoffsOf(c)) /\ Cardinality(HandoffsOf(c)) \in Nat
<1>1. HandoffsOf(c) \in SUBSET (1..Len(handoffs)) /\ Len(handoffs) \in Nat
  BY DEF HandoffsOf, TypeOK
<1>2. IsFiniteSet(1..Len(handoffs))
  BY <1>1, FS_Interval
<1>3. IsFiniteSet(HandoffsOf(c))
  BY <1>1, <1>2, FS_Subset
<1>4. QED
  BY <1>3, FS_CardinalityType

LEMMA InitIInv == Init => IInv
<1>1. SUFFICES ASSUME Init PROVE IInv
  OBVIOUS
<1>2. Shape
  BY <1>1 DEF Init, Shape, TypeOK, Knows, FirstIsOne, Pointers
<1>3. Up = {}
  BY <1>1 DEF Init, Up
<1>4. UpBound /\ CaseRoom /\ HandoffRoom
  BY <1>1, <1>3, FS_EmptySet DEF Init, UpBound, CaseRoom, HandoffRoom
<1>5. QED
  BY <1>2, <1>4 DEF IInv

-----------------------------------------------------------------------------
(* Steps that make neither a case nor a handoff, and start no process: the *)
(* processes that are up, blind or unhanded were so before.                *)

LEMMA QuietStep ==
  ASSUME IInv, Shape', UNCHANGED <<cases, handoffs, peak>>,
         Up' \subseteq Up, Blind' \subseteq Blind,
         \A c \in 1..cases : Unhanded(c)' \subseteq Unhanded(c)
  PROVE  IInv'
<1>1. /\ Up \in SUBSET Loops /\ Blind \in SUBSET Loops
      /\ \A c \in 1..cases : Unhanded(c) \in SUBSET Loops
  BY DEF Up, Blind, Unhanded
<1>2. peak \in Nat /\ cases \in Nat
  BY DEF IInv, Shape, TypeOK
<1>3. UpBound'
  BY <1>1, <1>2, FewerProcesses DEF IInv, UpBound
<1>4. CaseRoom'
  BY <1>1, <1>2, FewerProcesses DEF IInv, CaseRoom
<1>5. HandoffRoom'
  <2>1. SUFFICES ASSUME NEW c \in 1..cases, HandoffsOf(c) # {}
                 PROVE  Cardinality(HandoffsOf(c)) + Cardinality(Unhanded(c)') <= peak
    BY DEF HandoffRoom, HandoffsOf
  <2>2. Cardinality(HandoffsOf(c)) + Cardinality(Unhanded(c)) <= peak
    BY <2>1 DEF IInv, HandoffRoom
  <2>3. /\ Cardinality(Unhanded(c)') <= Cardinality(Unhanded(c))
        /\ Cardinality(Unhanded(c)') \in Nat /\ Cardinality(Unhanded(c)) \in Nat
    BY <1>1, FewerProcesses
  <2>4. Cardinality(HandoffsOf(c)) \in Nat
    BY HandoffSets DEF IInv, Shape
  <2>5. QED
    BY <1>2, <2>2, <2>3, <2>4
<1>6. QED
  BY <1>3, <1>4, <1>5 DEF IInv

LEMMA RefreshIInv == ASSUME IInv, NEW p \in Loops, Refresh(p) PROVE IInv'
<1>1. Shape'
  BY DEF IInv, Shape, TypeOK, Knows, FirstIsOne, Pointers, HandoffsOf, Refresh, stored
<1>2. QED
  BY <1>1, QuietStep DEF Refresh, stored, Up, Blind, Unhanded

LEMMA KeepHandoffIInv == ASSUME IInv, NEW p \in Loops, KeepHandoff(p) PROVE IInv'
<1>1. Shape'
  BY DEF IInv, Shape, TypeOK, Knows, FirstIsOne, Pointers, HandoffsOf, KeepHandoff, stored
<1>2. QED
  BY <1>1, QuietStep DEF KeepHandoff, stored, Up, Blind, Unhanded

LEMMA FindIssueIInv == ASSUME IInv, NEW p \in Loops, FindIssue(p) PROVE IInv'
<1>1. PICK i \in DOMAIN issues : found' = [found EXCEPT ![p] = i]
  BY DEF FindIssue
<1>2. i \in 0..Len(issues)
  <2>1. TypeOK
    BY DEF IInv, Shape
  <2>2. DOMAIN issues = 1..Len(issues) /\ Len(issues) \in Nat
    BY <2>1, Elements
  <2>3. QED
    BY <2>2
<1>3. TypeOK'
  BY <1>1, <1>2 DEF IInv, Shape, TypeOK, FindIssue, stored
<1>4. FirstIsOne' /\ Pointers'
  BY DEF IInv, Shape, FirstIsOne, Pointers, HandoffsOf, FindIssue, stored
<1>5. phase \in [Loops -> Phases]
  BY DEF IInv, Shape, TypeOK
<1>6. Knows'
  BY <1>5 DEF IInv, Shape, Knows, FindIssue, stored
<1>7. QED
  BY <1>3, <1>4, <1>6, QuietStep DEF Shape, FindIssue, stored, Up, Blind, Unhanded

LEMMA FindNoIssueIInv == ASSUME IInv, NEW p \in Loops, FindNoIssue(p) PROVE IInv'
<1>1. Shape'
  BY DEF IInv, Shape, TypeOK, Knows, FirstIsOne, Pointers, HandoffsOf, FindNoIssue, stored
<1>2. QED
  BY <1>1, QuietStep DEF FindNoIssue, stored, Up, Blind, Unhanded

LEMMA CreateIssueIInv == ASSUME IInv, NEW p \in Loops, CreateIssue(p) PROVE IInv'
<1> DEFINE issue == [case |-> case[p], handoff |-> handoff[p], open |-> TRUE]
<1>10. handoffs \in Seq(1..cases) /\ handoff[p] \in 0..Len(handoffs)
      /\ case[p] \in 0..cases /\ cases \in Nat
  BY DEF IInv, Shape, TypeOK
<1>11. handoff[p] # 0 /\ case[p] # 0 /\ handoffs[handoff[p]] = case[p]
  BY DEF IInv, Shape, Knows, CreateIssue
<1>1. /\ handoff[p] \in DOMAIN handoffs /\ handoffs[handoff[p]] = case[p]
      /\ case[p] \in 1..cases
  BY <1>10, <1>11
<1>2. issue \in [case : 1..cases, handoff : Nat, open : BOOLEAN]
  BY <1>1 DEF IInv, Shape, TypeOK
<1>3. /\ issues' \in Seq([case : 1..cases, handoff : Nat, open : BOOLEAN])
      /\ Len(issues') = Len(issues) + 1
      /\ \A i \in 1..Len(issues) : issues'[i] = issues[i]
      /\ issues'[Len(issues) + 1] = issue
  BY <1>2, AppendProperties DEF IInv, Shape, TypeOK, CreateIssue
<1>4. Len(issues) \in Nat /\ DOMAIN issues = 1..Len(issues)
      /\ DOMAIN issues' = 1..(Len(issues) + 1)
  BY <1>3 DEF IInv, Shape, TypeOK
<1>5. Pointers'
  BY <1>1, <1>3, <1>4 DEF IInv, Shape, Pointers, CreateIssue, stored
<1>6. recorded \in Seq(0..Len(issues'))
  BY <1>3, <1>4 DEF IInv, Shape, TypeOK
<1>7. TypeOK'
  BY <1>3, <1>4, <1>6, SMTT(40) DEF IInv, Shape, TypeOK, CreateIssue, stored
<1>8. Knows' /\ FirstIsOne'
  BY DEF IInv, Shape, Knows, FirstIsOne, HandoffsOf, CreateIssue, stored, TypeOK
<1>9. QED
  BY <1>5, <1>7, <1>8, QuietStep DEF Shape, CreateIssue, stored, Up, Blind, Unhanded

LEMMA RecordIssueIInv == ASSUME IInv, NEW p \in Loops, RecordIssue(p) PROVE IInv'
<1>1. case[p] \in 1..cases
  BY DEF IInv, Shape, TypeOK, Knows, RecordIssue
<1>2. /\ recorded' \in Seq(0..Len(issues)) /\ Len(recorded') = Len(recorded)
  BY <1>1, ExceptSeq DEF IInv, Shape, TypeOK, RecordIssue
<1>3. TypeOK'
  BY <1>2 DEF IInv, Shape, TypeOK, RecordIssue, Stops
<1>4. Knows' /\ FirstIsOne' /\ Pointers'
  BY DEF IInv, Shape, TypeOK, Knows, FirstIsOne, Pointers, HandoffsOf, RecordIssue, Stops
<1>5. QED
  BY <1>3, <1>4, QuietStep DEF Shape, RecordIssue, Stops, TypeOK, Up, Blind, Unhanded,
     IInv

LEMMA LeaveIInv == ASSUME IInv, NEW p \in Loops, Leave(p) PROVE IInv'
<1>1. Shape'
  BY DEF IInv, Shape, TypeOK, Knows, FirstIsOne, Pointers, HandoffsOf, Leave, Stops, stored
<1>2. QED
  BY <1>1, QuietStep DEF Leave, Stops, stored, Up, Blind, Unhanded, IInv, Shape, TypeOK

LEMMA CloseIssueIInv == ASSUME IInv, NEW i \in DOMAIN issues, CloseIssue(i) PROVE IInv'
<1> DEFINE Issue == [case : 1..cases, handoff : Nat, open : BOOLEAN]
<1>0. issues \in Seq(Issue)
  BY DEF IInv, Shape, TypeOK
<1>1. issues[i] \in Issue /\ issues \in [1..Len(issues) -> Issue]
  BY <1>0, SequenceElements
<1>2. [issues[i] EXCEPT !.open = FALSE] \in Issue
  BY <1>1
<1>3. /\ issues' \in Seq(Issue) /\ Len(issues') = Len(issues)
      /\ DOMAIN issues' = DOMAIN issues
  BY <1>1, <1>2, ExceptSeq DEF IInv, Shape, TypeOK, CloseIssue
<1>4. TypeOK'
  BY <1>3 DEF IInv, Shape, TypeOK, CloseIssue, stored
<1>5. Knows' /\ FirstIsOne'
  BY DEF IInv, Shape, Knows, FirstIsOne, HandoffsOf, CloseIssue, stored
<1>6. Pointers'
  BY <1>1, <1>3 DEF IInv, Shape, Pointers, CloseIssue, stored
<1>7. QED
  BY <1>4, <1>5, <1>6, QuietStep DEF Shape, CloseIssue, stored, Up, Blind, Unhanded

-----------------------------------------------------------------------------
(* Steps that start a process, or make a case or a handoff.                *)

LEMMA StartIInv == ASSUME IInv, NEW p \in Loops, Start(p) PROVE IInv'
<1>1. TypeOK /\ Knows /\ FirstIsOne /\ Pointers
  BY DEF IInv, Shape
<1>2. /\ FirstCase \in 0..cases /\ FirstHandoff \in 0..Len(handoffs)
      /\ FirstCase = 0 => cases = 0 /\ FirstHandoff = 0
      /\ FirstCase # 0 => FirstCase = 1 /\ FirstHandoff = first[1]
  BY <1>1 DEF FirstCase, FirstHandoff, TypeOK
<1>3. Up' = Up \cup {p} /\ p \notin Up /\ Up \in SUBSET Loops
  BY <1>1 DEF Start, Up, TypeOK
<1>4. Cardinality(Up') = Cardinality(Up) + 1 /\ Cardinality(Up) \in Nat
  BY <1>3, ProcessSets, FS_AddElement
<1>5. peak \in Nat /\ peak' \in Nat /\ peak <= peak' /\ Cardinality(Up') <= peak'
  BY <1>1, <1>4 DEF Start, TypeOK
<1>6. TypeOK'
  BY <1>1, <1>2, <1>5 DEF TypeOK, Start, stored
<1>7. Knows'
  BY <1>1, <1>2, SMTT(40) DEF Knows, Start, stored, FirstIsOne, TypeOK
<1>8. FirstIsOne' /\ Pointers'
  BY <1>1 DEF FirstIsOne, Pointers, HandoffsOf, Start, stored
<1>9. CaseRoom'
  <2>1. SUFFICES ASSUME cases > 0 PROVE cases + Cardinality(Blind') <= peak'
    BY DEF CaseRoom, Start, stored
  <2>2. Blind' = Blind /\ Blind \in SUBSET Loops
    BY <2>1, <1>1, <1>2 DEF Blind, Start, TypeOK
  <2>3. Cardinality(Blind) \in Nat
    BY <2>2, ProcessSets
  <2>4. cases + Cardinality(Blind) <= peak /\ cases \in Nat
    BY <2>1, <1>1 DEF IInv, CaseRoom, TypeOK
  <2>5. QED
    BY <2>2, <2>3, <2>4, <1>5
<1>10. HandoffRoom'
  <2>1. SUFFICES ASSUME NEW c \in 1..cases, HandoffsOf(c) # {}
                 PROVE  Cardinality(HandoffsOf(c)) + Cardinality(Unhanded(c)') <= peak'
    BY DEF HandoffRoom, HandoffsOf, Start, stored
  <2>2. Unhanded(c)' = Unhanded(c) /\ Unhanded(c) \in SUBSET Loops
    BY <2>1, <1>1, <1>2 DEF Unhanded, Start, TypeOK, FirstIsOne
  <2>3. QED
    BY <2>1, <2>2, <1>1, <1>5, ProcessSets, HandoffSets DEF IInv, HandoffRoom
<1>11. QED
  BY <1>5, <1>6, <1>7, <1>8, <1>9, <1>10 DEF IInv, Shape, UpBound

LEMMA OpenCaseIInv == ASSUME IInv, NEW p \in Loops, OpenCase(p) PROVE IInv'
<1>1. TypeOK /\ Knows /\ FirstIsOne /\ Pointers
  BY DEF IInv, Shape
<1>2. /\ cases \in Nat /\ cases' = cases + 1 /\ handoffs' = handoffs /\ issues' = issues
      /\ peak' = peak /\ peak \in Nat
  BY <1>1 DEF OpenCase, TypeOK
<1>3. first \in Seq(0..Len(handoffs)) /\ recorded \in Seq(0..Len(issues))
      /\ Len(first) = cases /\ Len(recorded) = cases
  BY <1>1 DEF TypeOK
<1>4. /\ first' \in Seq(0..Len(handoffs)) /\ Len(first') = cases + 1
      /\ \A c \in 1..cases : first'[c] = first[c]
      /\ first'[cases + 1] = 0
  BY <1>1, <1>3, AppendProperties DEF OpenCase, TypeOK
<1>5. /\ recorded' \in Seq(0..Len(issues)) /\ Len(recorded') = cases + 1
  BY <1>1, <1>3, AppendProperties DEF OpenCase, TypeOK
<1>6. /\ handoffs \in Seq(1..(cases + 1))
      /\ issues \in Seq([case : 1..(cases + 1), handoff : Nat, open : BOOLEAN])
  <2>1. 1..cases \subseteq 1..(cases + 1)
    BY <1>2
  <2> DEFINE Old == [case : 1..cases, handoff : Nat, open : BOOLEAN]
             New == [case : 1..(cases + 1), handoff : Nat, open : BOOLEAN]
  <2>2. Old \subseteq New
    BY <2>1
  <2>3. handoffs \in Seq(1..cases) /\ issues \in Seq(Old)
    BY <1>1 DEF TypeOK
  <2> HIDE DEF Old, New
  <2>4. handoffs \in Seq(1..(cases + 1)) /\ issues \in Seq(New)
    BY <2>1, <2>2, <2>3, WiderSequence
  <2>5. QED
    BY <2>4 DEF New
<1>7. TypeOK'
  BY <1>1, <1>2, <1>4, <1>5, <1>6 DEF TypeOK, OpenCase
<1>8. HandoffsOf(cases + 1) = {}
  BY <1>1, <1>2 DEF HandoffsOf, TypeOK
<1>9. FirstIsOne'
  BY <1>1, <1>2, <1>4, <1>8 DEF FirstIsOne, HandoffsOf
<1>10. Knows' /\ Pointers'
  BY <1>1, <1>2 DEF Knows, Pointers, OpenCase, TypeOK
<1>11. UpBound'
  BY <1>1 DEF IInv, UpBound, Up, OpenCase, TypeOK
<1>12. CaseRoom'
  <2>1. Blind' = Blind \ {p} /\ p \in Blind /\ Blind \in SUBSET Up /\ Up \in SUBSET Loops
    BY <1>1, <1>2 DEF Blind, Up, OpenCase, TypeOK
  <2>2. Cardinality(Blind') = Cardinality(Blind) - 1 /\ Cardinality(Blind) \in Nat
    BY <2>1, ProcessSets, FS_RemoveElement
  <2>3. Cardinality(Blind) <= Cardinality(Up) /\ Cardinality(Up) \in Nat
    BY <2>1, FewerProcesses
  <2>4. QED
    BY <1>2, <2>2, <2>3 DEF IInv, CaseRoom, UpBound
<1>13. HandoffRoom'
  <2>1. SUFFICES ASSUME NEW c \in 1..cases, HandoffsOf(c) # {}
                 PROVE  Cardinality(HandoffsOf(c)) + Cardinality(Unhanded(c)') <= peak
    BY <1>2, <1>8 DEF HandoffRoom, HandoffsOf
  <2>2. Unhanded(c)' = Unhanded(c)
    BY <1>1, <1>2 DEF Unhanded, OpenCase, TypeOK
  <2>3. QED
    BY <2>1, <2>2 DEF IInv, HandoffRoom
<1>14. QED
  BY <1>7, <1>9, <1>10, <1>11, <1>12, <1>13 DEF IInv, Shape

LEMMA BuildHandoffIInv == ASSUME IInv, NEW p \in Loops, BuildHandoff(p) PROVE IInv'
<1> DEFINE new == Len(handoffs) + 1
           own == case[p]
<1>1. TypeOK /\ Knows /\ FirstIsOne /\ Pointers
  BY DEF IInv, Shape
<1>2. /\ cases \in Nat /\ cases' = cases /\ issues' = issues /\ peak' = peak
      /\ peak \in Nat /\ Len(handoffs) \in Nat
  BY <1>1 DEF BuildHandoff, TypeOK
<1>3. own \in 1..cases
  <2>1. own \in 0..cases /\ own # 0
    BY <1>1 DEF BuildHandoff, TypeOK, Knows
  <2>2. QED
    BY <1>2, <2>1
<1>4. /\ handoffs' \in Seq(1..cases) /\ Len(handoffs') = new
      /\ DOMAIN handoffs = 1..Len(handoffs) /\ DOMAIN handoffs' = 1..new
      /\ \A h \in 1..Len(handoffs) : handoffs'[h] = handoffs[h]
      /\ handoffs'[new] = own
  BY <1>1, <1>3, AppendProperties DEF BuildHandoff, TypeOK
<1>5. \A c \in 1..cases :
         HandoffsOf(c)' = IF c = own THEN HandoffsOf(c) \cup {new} ELSE HandoffsOf(c)
  BY <1>2, <1>4 DEF HandoffsOf
<1>6. first \in Seq(0..new) /\ Len(first) = cases
      /\ (IF first[own] = 0 THEN new ELSE first[own]) \in 0..new
  <2>1. first \in Seq(0..Len(handoffs)) /\ Len(first) = cases
    BY <1>1 DEF TypeOK
  <2>2. 0..Len(handoffs) \subseteq 0..new /\ new \in 0..new
    BY <1>2
  <2>3. first \in Seq(0..new)
    BY <2>1, <2>2, WiderSequence
  <2>4. first[own] \in 0..new
    BY <1>1, <1>3, <2>2, Elements
  <2>5. QED
    BY <2>1, <2>2, <2>3, <2>4
<1>7. /\ first' \in Seq(0..new) /\ Len(first') = cases
      /\ \A c \in 1..cases :
            first'[c] = IF c = own /\ first[c] = 0 THEN new ELSE first[c]
  BY <1>1, <1>3, <1>6, ExceptSeq DEF BuildHandoff
<1>8. TypeOK'
  BY <1>1, <1>2, <1>4, <1>7, SMTT(40) DEF TypeOK, BuildHandoff
<1>9. FirstIsOne'
  <2>1. SUFFICES ASSUME NEW c \in 1..cases
                 PROVE  /\ first'[c] = 0 => HandoffsOf(c)' = {}
                        /\ first'[c] # 0 => handoffs'[first'[c]] = c
    BY <1>2 DEF FirstIsOne
  <2>2. first[c] \in 0..Len(handoffs)
    BY <1>1, Elements
  <2>3. /\ first[c] = 0 => HandoffsOf(c) = {}
        /\ first[c] # 0 => handoffs[first[c]] = c
    BY <1>1 DEF FirstIsOne
  <2>4. CASE c = own /\ first[c] = 0
    BY <1>2, <1>4, <1>7, <2>4
  <2>5. CASE c # own
    BY <1>2, <1>4, <1>5, <1>7, <2>2, <2>3, <2>5
  <2>6. CASE c = own /\ first[c] # 0
    BY <1>2, <1>4, <1>7, <2>2, <2>3, <2>6
  <2>7. QED
    BY <2>4, <2>5, <2>6
<1>10. Knows'
  BY <1>1, <1>2, <1>3, <1>4, SMTT(40) DEF Knows, BuildHandoff, TypeOK
<1>11. Pointers'
  BY <1>1, <1>2, <1>4, Elements DEF Pointers
<1>12. UpBound'
  BY <1>1 DEF IInv, UpBound, Up, BuildHandoff, TypeOK
<1>13. CaseRoom'
  <2>1. Blind' = Blind
    BY <1>1 DEF Blind, BuildHandoff, TypeOK
  <2>2. QED
    BY <1>2, <2>1 DEF IInv, CaseRoom
<1>14. HandoffRoom'
  <2>1. SUFFICES ASSUME NEW c \in 1..cases, HandoffsOf(c)' # {}
                 PROVE  Cardinality(HandoffsOf(c)') + Cardinality(Unhanded(c)') <= peak
    BY <1>2 DEF HandoffRoom
  <2>2. CASE c # own
    <3>1. HandoffsOf(c)' = HandoffsOf(c) /\ Unhanded(c)' = Unhanded(c)
      BY <1>1, <1>5, <2>2 DEF Unhanded, BuildHandoff, TypeOK
    <3>2. QED
      BY <2>1, <3>1 DEF IInv, HandoffRoom
  <2>3. CASE c = own
    <3>1. /\ Unhanded(c)' = Unhanded(c) \ {p} /\ p \in Unhanded(c)
          /\ Unhanded(c) \in SUBSET Up /\ Up \in SUBSET Loops
      BY <1>1, <1>2, <2>3 DEF Unhanded, Up, BuildHandoff, TypeOK
    <3>2. Cardinality(Unhanded(c)') = Cardinality(Unhanded(c)) - 1
          /\ Cardinality(Unhanded(c)) \in Nat
      BY <3>1, ProcessSets, FS_RemoveElement
    <3>3. Cardinality(Unhanded(c)) <= Cardinality(Up) /\ Cardinality(Up) \in Nat
      BY <3>1, FewerProcesses
    <3>4. /\ Cardinality(HandoffsOf(c)') = Cardinality(HandoffsOf(c)) + 1
          /\ Cardinality(HandoffsOf(c)) \in Nat
      <4>1. new \notin HandoffsOf(c)
        BY <1>2, <1>4 DEF HandoffsOf
      <4>2. HandoffsOf(c)' = HandoffsOf(c) \cup {new}
        BY <1>5, <2>3
      <4>3. QED
        BY <1>1, <4>1, <4>2, HandoffSets, FS_AddElement
    <3>5. CASE HandoffsOf(c) = {}
      BY <1>2, <3>2, <3>3, <3>4, <3>5, FS_EmptySet DEF IInv, UpBound
    <3>6. CASE HandoffsOf(c) # {}
      BY <1>2, <3>2, <3>4, <3>6 DEF IInv, HandoffRoom
    <3>7. QED
      BY <3>5, <3>6
  <2>4. QED
    BY <2>2, <2>3
<1>15. QED
  BY <1>8, <1>9, <1>10, <1>11, <1>12, <1>13, <1>14 DEF IInv, Shape

LEMMA StepIInv == IInv /\ [Next]_vars => IInv'
<1>1. SUFFICES ASSUME IInv, [Next]_vars PROVE IInv'
  OBVIOUS
<1>2. ASSUME NEW p \in Loops,
             \/ Start(p) \/ Refresh(p) \/ OpenCase(p)
             \/ KeepHandoff(p) \/ BuildHandoff(p)
             \/ FindIssue(p) \/ FindNoIssue(p) \/ CreateIssue(p) \/ RecordIssue(p)
             \/ Leave(p)
      PROVE  IInv'
  BY <1>1, <1>2, StartIInv, RefreshIInv, OpenCaseIInv, KeepHandoffIInv, BuildHandoffIInv,
     FindIssueIInv, FindNoIssueIInv, CreateIssueIInv, RecordIssueIInv, LeaveIInv
<1>3. ASSUME NEW i \in DOMAIN issues, CloseIssue(i) PROVE IInv'
  BY <1>1, <1>3, CloseIssueIInv
<1>4. ASSUME UNCHANGED vars PROVE IInv'
  <2>1. Shape'
    BY <1>1, <1>4
    DEF vars, stored, IInv, Shape, TypeOK, Knows, FirstIsOne, Pointers, HandoffsOf
  <2>2. QED
    BY <1>1, <1>4, <2>1, QuietStep DEF vars, stored, Up, Blind, Unhanded
<1>5. QED
  BY <1>1, <1>2, <1>3, <1>4 DEF Next

LEMMA IInvAlways == Spec => []IInv
  BY InitIInv, StepIInv, PTL DEF Spec

-----------------------------------------------------------------------------
(* The theorems. *)

\* Every variable keeps its type.
THEOREM IdentityTypes == Spec => []TypeOK
<1>1. IInv => TypeOK
  BY DEF IInv, Shape
<1>2. QED
  BY <1>1, IInvAlways, PTL

\* observe_finding: the cases of a fingerprint are at most as many as the cycles
\* that were up at once, so a single one where cycles do not overlap.
THEOREM NoTwinCases == Spec => []OneCasePerCycleAtOnce
<1>1. IInv => OneCasePerCycleAtOnce
  <2>1. Blind \in SUBSET Loops
    BY DEF Blind
  <2>2. Cardinality(Blind) \in Nat
    BY <2>1, ProcessSets
  <2>3. QED
    BY <2>2 DEF IInv, Shape, TypeOK, CaseRoom, OneCasePerCycleAtOnce
<1>2. QED
  BY <1>1, IInvAlways, PTL

\* request_handoff: so are the handoffs of a case.
THEOREM NoTwinHandoffs == Spec => []OneHandoffPerCycleAtOnce
<1>1. IInv => OneHandoffPerCycleAtOnce
  <2>1. SUFFICES ASSUME IInv, NEW c \in 1..cases
                 PROVE  Cardinality(HandoffsOf(c)) <= peak
    BY DEF OneHandoffPerCycleAtOnce
  <2>2. Unhanded(c) \in SUBSET Loops /\ Cardinality(HandoffsOf(c)) \in Nat /\ peak \in Nat
    BY <2>1, HandoffSets DEF Unhanded, IInv, Shape, TypeOK
  <2>3. CASE HandoffsOf(c) = {}
    BY <2>2, <2>3, FS_EmptySet
  <2>4. CASE HandoffsOf(c) # {}
    BY <2>1, <2>2, <2>4, ProcessSets DEF IInv, HandoffRoom
  <2>5. QED
    BY <2>3, <2>4
<1>2. QED
  BY <1>1, IInvAlways, PTL

\* handoff.py: the issue of a case points to a stored handoff of the case it names,
\* which is this case unless cycles have overlapped.
THEOREM IssuesNameTheirCases == Spec => []IssueNamesItsCase
<1>1. IInv => IssueNamesItsCase
  <2>1. SUFFICES ASSUME IInv, NEW c \in 1..cases, recorded[c] # 0
                 PROVE  LET issue == issues[recorded[c]]
                        IN  /\ issue.handoff \in DOMAIN handoffs
                            /\ handoffs[issue.handoff] = issue.case
                            /\ peak = 1 => issue.case = c
    BY DEF IssueNamesItsCase
  <2>2. TypeOK /\ Pointers
    BY <2>1 DEF IInv, Shape
  <2>3. recorded[c] \in DOMAIN issues /\ cases \in Nat /\ peak \in Nat
    BY <2>1, <2>2, Elements
  <2>4. issues[recorded[c]].case \in 1..cases
    BY <2>2, <2>3, Elements
  <2>5. cases <= peak
    <3>1. Blind \in SUBSET Loops
      BY DEF Blind
    <3>2. Cardinality(Blind) \in Nat
      BY <3>1, ProcessSets
    <3>3. QED
      BY <2>1, <2>3, <3>2 DEF IInv, CaseRoom
  <2>6. peak = 1 => issues[recorded[c]].case = c
    BY <2>1, <2>3, <2>4, <2>5
  <2>7. QED
    BY <2>2, <2>3, <2>6 DEF Pointers
<1>2. QED
  BY <1>1, IInvAlways, PTL
=============================================================================
