---------------------------- MODULE MCDtcManager ----------------------------
(* Small instances of DtcManager.                                          *)
EXTENDS DtcManager

MCStatus == {{}, {"test_failed"}, {"test_failed_since_last_clear"}}

\* No code; two codes; one code twice with a change of status.
MCDtcLists ==
  {<<>>, <<<<1, {}>>, <<2, {"test_failed"}>>>>, <<<<3, {}>>, <<3, {"test_failed"}>>>>}
=============================================================================
