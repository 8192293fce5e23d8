-------------------------- MODULE HalfDuplexSlave --------------------------
(***************************************************************************)
(* What a Modbus slave promises on a two-wire line: it takes one request   *)
(* at a time, each transmission at most once, answers it or drops it, and  *)
(* listens again before it takes the next one.                             *)
(***************************************************************************)
CONSTANT Requests

VARIABLES phase,   \* "listening", "serving" or "sending"
          served   \* the transmissions taken so far

vars == <<phase, served>>

Init == phase = "listening" /\ served = {}

Take(f) ==
  /\ phase = "listening"
  /\ f \notin served
  /\ phase' = "serving"
  /\ served' = served \cup {f}

(* A broadcast is not answered. *)
Drop ==
  /\ phase = "serving"
  /\ phase' = "listening"
  /\ UNCHANGED served

Answer ==
  /\ phase = "serving"
  /\ phase' = "sending"
  /\ UNCHANGED served

Release ==
  /\ phase = "sending"
  /\ phase' = "listening"
  /\ UNCHANGED served

Next == (\E f \in Requests : Take(f)) \/ Drop \/ Answer \/ Release

Spec == Init /\ [][Next]_vars /\ WF_vars(Drop \/ Answer) /\ WF_vars(Release)
=============================================================================
