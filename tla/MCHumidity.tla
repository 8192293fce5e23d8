----------------------------- MODULE MCHumidity -----------------------------
(* Small instances of Humidity; the constants get their values in the .cfg. *)
EXTENDS Humidity
=============================================================================
