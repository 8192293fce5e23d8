------------------------------ MODULE Co2Alarm ------------------------------
(***************************************************************************)
(* The CO2 alarm: once a second Alarm_task judges the reading, writes the  *)
(* judgement to alarm_state, and steps the beeper by what it reads there   *)
(* again.  Clients set alarm_state by hand and change the times.  The      *)
(* reading is taken by what the judgement tells apart.                     *)
(***************************************************************************)
EXTENDS Naturals

CONSTANTS
  Orders,       \* values a client writes to alarm_state, as alarm states
  MaxTime,      \* ALARM_ON_TIME_MAX, ALARM_OFF_TIME_MAX (20)
  MaxDelay      \* largest alarm_delay_time (255)

ASSUME AlarmAssumption ==
  /\ Orders \subseteq 0 .. 127
  /\ MaxTime \in Nat \ {0} /\ MaxDelay \in Nat

STOP_ALARM       == 0
PRE_ALARM        == 1
CONTINUOUS_ALARM == 2
NO_SENSOR_ALARM  == 3

Automatic == 128        \* no alarm state: the alarm is automatic

Levels == {"low", "pre", "high", "exception"}

VARIABLES
  warming, level,      \* warming_time, co2_int
  alarm_state, manual, \* alarm_state, its bit ALARM_MANUAL apart
  judged,              \* int_co2_str.alarm_state
  alarm_status,        \* the beeper
  pre_alarm_ctr, alarm_delay_time_ctr,
  on_time, off_time, alarm_delay_time,
  pc,                  \* Alarm_task
  order, by,           \* history: what was asked for last, or Automatic, and
                       \* the task of the client
  passes, delay        \* history: passes in alarm since the last one without, at
                       \* most MaxDelay + 1, and the delay that was set then

sensor == <<warming, level>>
state  == <<alarm_state, manual>>
beeper == <<alarm_status, pre_alarm_ctr, alarm_delay_time_ctr>>
times  == <<on_time, off_time, alarm_delay_time>>
count  == <<passes, delay>>
vars == <<sensor, state, judged, beeper, times, pc, order, by, count>>

(* The counters start at zero; the times are those of the EEPROM. *)
Init ==
  /\ warming = TRUE /\ level = "exception"
  /\ alarm_state = STOP_ALARM /\ manual = FALSE /\ judged = STOP_ALARM
  /\ alarm_status = FALSE /\ pre_alarm_ctr = 0 /\ alarm_delay_time_ctr = 0
  /\ on_time \in 1 .. MaxTime /\ off_time \in 1 .. MaxTime /\ alarm_delay_time \in 0 .. MaxDelay
  /\ pc = "sleep" /\ order = Automatic /\ by = "COMM" /\ passes = 0 /\ delay = 0
-----------------------------------------------------------------------------
(* co2_alarm judges, unless the alarm is manual ... *)
Judgement ==
  IF warming \/ level = "low" THEN STOP_ALARM
  ELSE IF level = "exception" THEN NO_SENSOR_ALARM
  ELSE IF level = "high" THEN CONTINUOUS_ALARM ELSE PRE_ALARM

(* Variant: a manual alarm is judged like an automatic one. *)
Judge_Always ==
  /\ pc = "sleep" /\ pc' = "write" /\ judged' = Judgement
  /\ UNCHANGED <<sensor, state, beeper, times, order, by, count>>

Judge ==
  /\ pc = "sleep"
  /\ IF manual
     THEN pc' = "beep" /\ judged' = judged
     ELSE pc' = "write" /\ judged' = Judgement
  /\ UNCHANGED <<sensor, state, beeper, times, order, by, count>>

(* ... writes what it judged ... *)
WriteBack ==
  /\ pc = "write" /\ pc' = "beep"
  /\ alarm_state' = judged /\ manual' = FALSE
  /\ UNCHANGED <<sensor, judged, beeper, times, order, by, count>>

(* ... and steps the beeper. *)
Elapse ==
  IF alarm_delay_time_ctr > 0
  THEN alarm_delay_time_ctr' = alarm_delay_time_ctr - 1 /\ UNCHANGED <<alarm_status, pre_alarm_ctr>>
  ELSE /\ UNCHANGED alarm_delay_time_ctr
       /\ \/ /\ alarm_state # PRE_ALARM
             /\ alarm_status' = TRUE /\ UNCHANGED pre_alarm_ctr
          \/ /\ alarm_state = PRE_ALARM
             /\ IF pre_alarm_ctr + 1 >= IF alarm_status THEN on_time ELSE off_time
                THEN alarm_status' = ~alarm_status /\ pre_alarm_ctr' = 0
                ELSE pre_alarm_ctr' = pre_alarm_ctr + 1 /\ UNCHANGED alarm_status

(* Variant: the delay is only set at boot. *)
Beep_NoReload ==
  /\ pc = "beep" /\ pc' = "sleep"
  /\ \/ /\ alarm_state = STOP_ALARM
        /\ alarm_status' = FALSE
        /\ passes' = 0 /\ delay' = alarm_delay_time
        /\ UNCHANGED <<pre_alarm_ctr, alarm_delay_time_ctr>>
     \/ /\ alarm_state \in {PRE_ALARM, CONTINUOUS_ALARM, NO_SENSOR_ALARM}
        /\ Elapse
        /\ passes' = IF passes <= MaxDelay THEN passes + 1 ELSE passes
        /\ UNCHANGED delay
     \/ alarm_state > NO_SENSOR_ALARM /\ UNCHANGED <<beeper, count>>
  /\ UNCHANGED <<sensor, state, judged, times, order, by>>

(* Variant: a state without alarm leaves the beeper as it is. *)
Beep_KeepsOn ==
  /\ pc = "beep" /\ pc' = "sleep"
  /\ \/ /\ alarm_state = STOP_ALARM
        /\ alarm_delay_time_ctr' = alarm_delay_time
        /\ passes' = 0 /\ delay' = alarm_delay_time
        /\ UNCHANGED <<alarm_status, pre_alarm_ctr>>
     \/ /\ alarm_state \in {PRE_ALARM, CONTINUOUS_ALARM, NO_SENSOR_ALARM}
        /\ Elapse
        /\ passes' = IF passes <= MaxDelay THEN passes + 1 ELSE passes
        /\ UNCHANGED delay
     \/ alarm_state > NO_SENSOR_ALARM /\ UNCHANGED <<beeper, count>>
  /\ UNCHANGED <<sensor, state, judged, times, order, by>>

Beep ==
  /\ pc = "beep" /\ pc' = "sleep"
  /\ \/ /\ alarm_state = STOP_ALARM
        /\ alarm_status' = FALSE /\ alarm_delay_time_ctr' = alarm_delay_time
        /\ passes' = 0 /\ delay' = alarm_delay_time
        /\ UNCHANGED pre_alarm_ctr
     \/ /\ alarm_state \in {PRE_ALARM, CONTINUOUS_ALARM, NO_SENSOR_ALARM}
        /\ Elapse
        /\ passes' = IF passes <= MaxDelay THEN passes + 1 ELSE passes
        /\ UNCHANGED delay
     \/ alarm_state > NO_SENSOR_ALARM /\ UNCHANGED <<beeper, count>>
  /\ UNCHANGED <<sensor, state, judged, times, order, by>>
-----------------------------------------------------------------------------
(* Co2_task and clients change the reading and the setpoints.  The first   *)
(* answer of the sensor ends the warming.                                  *)
Measure ==
  /\ \/ warming' = FALSE /\ level' \in Levels \ {"exception"}
     \/ ~warming /\ warming' = warming /\ level' \in Levels
  /\ UNCHANGED <<state, judged, beeper, times, pc, order, by, count>>

(* COMMTask serves RS485 at a lower priority than Alarm_task, and only runs *)
(* when that sleeps; NETWORKTask has a higher one.                          *)
Clients == {"COMM", "NETWORK"}
MayRun(c) == c = "NETWORK" \/ pc = "sleep"

(* MODBUS_ALARM_AUTO_MANUAL *)
SetManual(c) ==
  /\ MayRun(c)
  /\ \E o \in Orders : alarm_state' = o /\ order' = o
  /\ by' = c
  /\ manual' = TRUE
  /\ UNCHANGED <<sensor, judged, beeper, times, pc, count>>

SetAuto(c) ==
  /\ MayRun(c)
  /\ manual' = FALSE /\ order' = Automatic /\ by' = c
  /\ UNCHANGED <<sensor, alarm_state, judged, beeper, times, pc, count>>

(* MODBUS_PRE_ALARM_SETTING_ON_TIME and its likes *)
SetTimes(c) ==
  /\ MayRun(c)
  /\ \/ on_time' \in 1 .. MaxTime /\ UNCHANGED <<off_time, alarm_delay_time>>
     \/ off_time' \in 1 .. MaxTime /\ UNCHANGED <<on_time, alarm_delay_time>>
     \/ alarm_delay_time' \in 0 .. MaxDelay /\ UNCHANGED <<on_time, off_time>>
  /\ UNCHANGED <<sensor, state, judged, beeper, pc, order, by, count>>
-----------------------------------------------------------------------------
Alarm == Judge \/ WriteBack \/ Beep

Next == Alarm \/ Measure \/ \E c \in Clients : SetManual(c) \/ SetAuto(c) \/ SetTimes(c)

(* The task wakes every second. *)
Spec == Init /\ [][Next]_vars /\ WF_vars(Alarm)
-----------------------------------------------------------------------------
TypeOK ==
  /\ warming \in BOOLEAN /\ level \in Levels
  /\ alarm_state \in 0 .. 3 \cup Orders /\ manual \in BOOLEAN /\ judged \in 0 .. 3
  /\ alarm_status \in BOOLEAN /\ pre_alarm_ctr \in 0 .. MaxTime - 1
  /\ alarm_delay_time_ctr \in 0 .. MaxDelay
  /\ on_time \in 1 .. MaxTime /\ off_time \in 1 .. MaxTime /\ alarm_delay_time \in 0 .. MaxDelay
  /\ pc \in {"sleep", "write", "beep"} /\ order \in {Automatic} \cup Orders
  /\ by \in Clients
  /\ passes \in 0 .. MaxDelay + 1 /\ delay \in 0 .. MaxDelay

(* The beeper only sounds after the delay that was set when there was last  *)
(* no alarm, counted in passes with an alarm, whatever clients change, and  *)
(* in whatever order pre-alarm, alarm and manual states follow each other.  *)
Delayed == alarm_status => passes > delay

(* What the alarm promises of the beeper: the delay just said, and that an  *)
(* order given over RS485 is obeyed in every pass until a client asks for  *)
(* something else, also when it and the delay come in the wrong moment.    *)
Beeper == INSTANCE ObedientBeeper WITH
  Free <- Automatic, Silent <- {STOP_ALARM}, Steady <- {CONTINUOUS_ALARM, NO_SENSOR_ALARM},
  Broken <- {PRE_ALARM},
  on <- alarm_status, setting <- alarm_delay_time, binding <- by = "COMM"

BeeperSpec == Beeper!Spec

(* What a client on RS485 set by hand stays until a client asks for         *)
(* something else.  (An order over the network that arrives between the     *)
(* judgement and its write is lost.)                                        *)
ManualKept == order # Automatic /\ by = "COMM" => manual /\ alarm_state = order

(* While the alarm is automatic and the reading stays, the beeper becomes   *)
(* what the reading asks for: silent, on, or on and off by turns.           *)
Settled(S) == <>[](order = Automatic /\ Judgement \in S)
Follows ==
  /\ Settled({STOP_ALARM}) => <>[]~alarm_status
  /\ Settled({CONTINUOUS_ALARM, NO_SENSOR_ALARM}) => <>[]alarm_status
  /\ Settled({PRE_ALARM}) => []<>alarm_status /\ []<>~alarm_status
=============================================================================
