--------------------------- MODULE MCPostureScan ---------------------------
(* Small instances of PostureScan for TLC: a core router and a server, scanned *)
(* together by the posture loop, or a case's resource on its own.              *)
EXTENDS PostureScan

CONSTANTS Router, Server

EveryTarget == {<<Router, Server>>, <<Router>>, <<Server>>, <<Domain>>}
CaseTargets == {<<Router>>, <<Domain>>}
=============================================================================
