---------------------------- MODULE MCPointStore ----------------------------
(* Model checking PointStore: the names are interchangeable. *)
EXTENDS PointStore, TLC

CONSTANTS n1, n2

MCNames == {Default, n1, n2}
=============================================================================
