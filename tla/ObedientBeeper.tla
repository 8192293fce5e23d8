--------------------------- MODULE ObedientBeeper ---------------------------
(***************************************************************************)
(* What an alarm with a delay and manual orders promises of its beeper: it *)
(* changes only in passes; a pass without alarm silences it and starts the *)
(* delay that is set; a pass with an alarm lets it sound only when more    *)
(* passes with an alarm than the delay went by, whatever was set since;    *)
(* and a binding order decides which of them a pass is.                   *)
(***************************************************************************)
EXTENDS Naturals

CONSTANTS MaxDelay,
          Orders,      \* what can be ordered
          Free,        \* no order
          Silent,      \* orders for no alarm,
          Steady,      \* for a steady one,
          Broken       \* for one that is on and off by turns

VARIABLES on,          \* does it sound?
          passes,      \* passes with an alarm since the last without, up to MaxDelay + 1
          delay,       \* how many of them are silent
          setting,     \* the delay that is set
          order,       \* the last order, or Free
          binding      \* is it one that cannot be lost?

vars == <<on, passes, delay, setting, order, binding>>

Init ==
  /\ on = FALSE /\ passes = 0 /\ delay = 0 /\ setting \in 0 .. MaxDelay
  /\ order = Free /\ binding \in BOOLEAN

Allows(S) == binding /\ order # Free => order \in S

Calm ==
  /\ Allows(Silent)
  /\ on' = FALSE /\ passes' = 0 /\ delay' = setting
  /\ UNCHANGED <<setting, order, binding>>

Alarm ==
  /\ Allows(Steady \cup Broken)
  /\ passes' = IF passes <= MaxDelay THEN passes + 1 ELSE passes
  /\ on' \in BOOLEAN /\ (on' => passes' > delay)
  /\ binding /\ order \in Steady => on' = (passes' > delay)
  /\ UNCHANGED <<delay, setting, order, binding>>

Set   == setting' \in 0 .. MaxDelay /\ UNCHANGED <<on, passes, delay, order, binding>>
Order == order' \in Orders \cup {Free} /\ binding' \in BOOLEAN
         /\ UNCHANGED <<on, passes, delay, setting>>

Next == Calm \/ Alarm \/ Set \/ Order

Spec == Init /\ [][Next]_vars
=============================================================================
