----------------------------- MODULE MCPidLoop ------------------------------
(* PidLoop with block writes that differ in what matters. *)
EXTENDS PidLoop

With(auto, action, prop, reset, rate, time, setpoint, value) ==
  [auto_manual |-> auto, action |-> action, prop |-> prop, reset |-> reset, rate |-> rate,
   sample_time |-> time, bias |-> 1, setpoint |-> setpoint, input |-> 0, value |-> value]

MCSettings == {With(1, 0, 1, 1, 1, 0, 7, 3), With(0, 1, 0, 3, 1, 7, 7, 0)}

(* The errors are as small as AreaBounded needs them. *)
ASSUME MCErrorsFit == ErrorsFit
=============================================================================
