---------------------------- MODULE MCCo2Alarm ------------------------------
(* Co2Alarm on small instances: times up to two passes, orders for each     *)
(* state of the alarm and one beyond.                                       *)
EXTENDS Co2Alarm
=============================================================================
