-------------------------- MODULE NoFalseAllClear --------------------------
(***************************************************************************)
(* What the SOC promises about a control, whatever its case goes through:  *)
(* a standing verdict of drift is lifted only by a passing read that       *)
(* completes Required passing reads with no recorded failure among them,   *)
(* and a recorded failure restores it at once. Nothing else (a degraded or *)
(* absent read, a handoff, an engineering callback, an operator) changes   *)
(* the verdict.                                                            *)
(***************************************************************************)
EXTENDS Naturals

CONSTANTS Controls, Required

VARIABLES
    verdict,    \* verdict[c]: "unknown", "drift" or "clear"
    clean       \* clean[c]: passing reads since the last recorded failure,
                \* counted up to Required

vars == <<verdict, clean>>

Verdicts == {"unknown", "drift", "clear"}

Bump(n) == IF n < Required THEN n + 1 ELSE n

Init ==
    /\ verdict = [c \in Controls |-> "unknown"]
    /\ clean = [c \in Controls |-> 0]

Fails(c) ==
    /\ verdict' = [verdict EXCEPT ![c] = "drift"]
    /\ clean' = [clean EXCEPT ![c] = 0]

Passes(c) ==
    /\ clean' = [clean EXCEPT ![c] = Bump(@)]
    /\ UNCHANGED verdict

PassesAndClears(c) ==
    /\ verdict[c] = "drift"
    /\ clean' = [clean EXCEPT ![c] = Bump(@)]
    /\ clean'[c] = Required
    /\ verdict' = [verdict EXCEPT ![c] = "clear"]

Next == \E c \in Controls : Fails(c) \/ Passes(c) \/ PassesAndClears(c)

Spec == Init /\ [][Next]_vars
=============================================================================
