--------------------------- MODULE MCCaseJournal ---------------------------
(* Small instances of CaseJournal for TLC. *)
EXTENDS CaseJournal, TLC

EventSymmetry == Permutations(Events)
=============================================================================
