---------------------------- MODULE MCNetConfig -----------------------------
(* Model checking NetConfig: two octets, the first of them tested. *)
EXTENDS NetConfig

MCDefault == [o \in 1 .. 2 |-> 1]
MCFactory == [f \in 0 .. 2 |-> IF f = 1 THEN 1 ELSE 0]
=============================================================================
