---------------------------- MODULE MCCo2Sensor -----------------------------
(* Co2Sensor on small instances: answers of four bytes (two of the header,  *)
(* one of data, the end), and room for hardly more.                        *)
EXTENDS Co2Sensor
=============================================================================
