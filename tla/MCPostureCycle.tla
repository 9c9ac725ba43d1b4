--------------------------- MODULE MCPostureCycle ---------------------------
(* Small instances of PostureCycle for TLC: three findings, of which the most *)
(* severe is the surest and one is below the severity floor.                  *)
EXTENDS PostureCycle

CONSTANTS Critical, Major, Minor

MCRank ==
    [f \in Findings |-> IF f = Critical THEN 4 ELSE IF f = Major THEN 3 ELSE 2]
MCScore ==
    [f \in Findings |-> IF f = Critical THEN 43 ELSE IF f = Major THEN 31 ELSE 23]
=============================================================================
