------------------------ MODULE MCRequestCorrelator ------------------------
(***************************************************************************)
(* Small instances of RequestCorrelator for TLC.  One link and its reverse *)
(* are a tester and an ECU; P2 is over after 1 tick, P2* after 2 or 1.     *)
(***************************************************************************)
EXTENDS RequestCorrelator, TLC

CONSTANTS tester, ecu

MCLink == {<<tester, ecu>>, <<ecu, tester>>}

MCOneLink == {<<tester, ecu>>}

MCOneTiming == {[p2 |-> 0, p2_star |-> 1]}
MCTimings == {[p2 |-> 0, p2_star |-> 1], [p2 |-> 0, p2_star |-> 0]}

\* Swapping the two addresses, or the services, is an automorphism.
MCSymmetry == Permutations({tester, ecu}) \cup Permutations(Service)
=============================================================================
