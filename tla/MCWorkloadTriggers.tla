------------------------- MODULE MCWorkloadTriggers -------------------------
(***************************************************************************)
(* Small instances of WorkloadTriggers for TLC.  The headers are a missing *)
(* one (syntax error), a well-formed runtime and one beyond the range of  *)
(* the bit size (range error).                                             *)
(***************************************************************************)
EXTENDS WorkloadTriggers, MCWorkloadManager

MCHeaders == {<<>>, <<"4", "2">>, <<"3", "0", "0">>}

=============================================================================
