------------------------ MODULE MCDiagnosticSession ------------------------
(* Small instances of DiagnosticSession: a tester and an ECU.              *)
EXTENDS DiagnosticSession

CONSTANTS tester, ecu

MCLink == {<<tester, ecu>>}
MCTimings == {[p2 |-> 0, p2_star |-> 1]}
=============================================================================
