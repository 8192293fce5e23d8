--------------------------- MODULE WatchedSensor ----------------------------
(***************************************************************************)
(* What a task that asks a sensor again and again promises: the sensor     *)
(* counts as present only from an answer on, a few unanswered questions in *)
(* a row are forgiven, never more than Most, and never fewer than Least    *)
(* are enough to give it up.                                               *)
(***************************************************************************)
EXTENDS Naturals

CONSTANTS Least, Most,   \* how many unanswered questions lose the sensor
          Replaceable    \* may its value be replaced by another?

VARIABLES present,       \* is what the sensor said still taken to be true?
          misses         \* unanswered questions in a row, up to Most

vars == <<present, misses>>

Init == present = FALSE /\ misses = 0

Answer == present' = TRUE /\ misses' = 0

Miss ==
  /\ misses' = IF misses < Most THEN misses + 1 ELSE misses
  /\ present' \in {present, FALSE}
  /\ present' # present => misses' >= Least
  /\ misses' = Most => present' = FALSE

(* The task forgets everything. *)
Boot == present' = FALSE /\ misses' = 0

Replace == Replaceable /\ present' = FALSE /\ UNCHANGED misses

Next == Answer \/ Miss \/ Boot \/ Replace

Spec == Init /\ [][Next]_vars
=============================================================================
