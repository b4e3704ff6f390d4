------------------------- MODULE MCWorkloadManager -------------------------
(***************************************************************************)
(* Small instances of WorkloadManager for TLC.  Two trigger subjects give  *)
(* requests with no trigger, one trigger and two triggers (so that a      *)
(* subscription can fail or race a stop after another one succeeded).     *)
(***************************************************************************)
EXTENDS WorkloadManager

CONSTANTS s1, s2

MCSubjects == {s1, s2}

MCTriggerLists == {<<>>, <<s1>>, <<s1, s2>>}
=============================================================================
