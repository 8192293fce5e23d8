------------------------------ MODULE MCKeypad ------------------------------
(* Keypad with a password of two digits and a queue of one key. *)
EXTENDS Keypad

MCPassword == <<1, 0>>
=============================================================================
