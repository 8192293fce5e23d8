--------------------------- MODULE Co2AlarmProofs ---------------------------
(***************************************************************************)
(* The alarm for any times, delays and orders: types, the delay, and that  *)
(* a manual state of a client that cannot interrupt a pass stays.          *)
(***************************************************************************)
EXTENDS Co2Alarm, TLAPS

(* Every variable stays in its range, in particular the counter of the      *)
(* pre-alarm, however the times are changed under it.                       *)
THEOREM TypeCorrect == Spec => []TypeOK
<1>1. Init => TypeOK
  <2> SUFFICES ASSUME Init PROVE TypeOK
    OBVIOUS
  <2> USE AlarmAssumption DEF Init
  <2>1. warming \in BOOLEAN /\ manual \in BOOLEAN /\ alarm_status \in BOOLEAN
    BY Zenon
  <2>2. level \in Levels /\ alarm_state \in 0 .. 3 /\ judged \in 0 .. 3
    BY DEF Levels, STOP_ALARM
  <2>3. pre_alarm_ctr \in 0 .. MaxTime - 1 /\ alarm_delay_time_ctr \in 0 .. MaxDelay
        /\ passes \in 0 .. MaxDelay + 1 /\ delay \in 0 .. MaxDelay
    OBVIOUS
  <2>4. by \in Clients
    BY DEF Clients
  <2> QED
    BY <2>1, <2>2, <2>3, <2>4, Zenon DEF TypeOK
<1>2. TypeOK /\ [Next]_vars => TypeOK'
  <2> SUFFICES ASSUME TypeOK, [Next]_vars PROVE TypeOK'
    OBVIOUS
  <2> USE AlarmAssumption DEF TypeOK, sensor, state, beeper, times, count
  <2>1. CASE Judge
    <3>1. Judgement \in 0 .. 3
      BY DEF Judgement, STOP_ALARM, NO_SENSOR_ALARM, CONTINUOUS_ALARM, PRE_ALARM
    <3>2. judged' \in 0 .. 3 /\ pc' \in {"write", "beep"}
      BY <2>1, <3>1, Zenon DEF Judge
    <3> QED
      BY <2>1, <3>2 DEF Judge
  <2>2. CASE WriteBack
    BY <2>2 DEF WriteBack
  <2>3. CASE Beep
    <3>1. CASE alarm_state = STOP_ALARM
      <4>1. alarm_state \notin {PRE_ALARM, CONTINUOUS_ALARM, NO_SENSOR_ALARM} /\ ~(alarm_state > NO_SENSOR_ALARM)
        BY <3>1 DEF STOP_ALARM, PRE_ALARM, NO_SENSOR_ALARM, CONTINUOUS_ALARM
      <4>2. alarm_status' \in BOOLEAN
        BY <2>3, <3>1, <4>1, Zenon DEF Beep
      <4>3. alarm_delay_time_ctr' = alarm_delay_time /\ passes' = 0 /\ delay' = alarm_delay_time
            /\ pre_alarm_ctr' = pre_alarm_ctr
        BY <2>3, <3>1, <4>1, Zenon DEF Beep
      <4>4. pc' = "sleep" /\ UNCHANGED <<sensor, state, judged, times, order, by>>
        BY <2>3, Zenon DEF Beep
      <4> QED
        BY <4>2, <4>3, <4>4
    <3>2. CASE Elapse /\ alarm_state # STOP_ALARM
      <4>1. alarm_delay_time_ctr' \in 0 .. MaxDelay
        BY <3>2 DEF Elapse
      <4>2. alarm_status' \in BOOLEAN
        BY <3>2, Zenon DEF Elapse
      <4>3. pre_alarm_ctr' \in 0 .. MaxTime - 1
        BY <3>2 DEF Elapse
      <4> QED
        BY <2>3, <3>2, <4>1, <4>2, <4>3 DEF Beep, STOP_ALARM, NO_SENSOR_ALARM
    <3>3. CASE alarm_state > NO_SENSOR_ALARM /\ UNCHANGED <<beeper, count>>
      BY <2>3, <3>3 DEF Beep, STOP_ALARM, PRE_ALARM, NO_SENSOR_ALARM, CONTINUOUS_ALARM
    <3> QED
      BY <2>3, <3>1, <3>2, <3>3, Zenon DEF Beep, STOP_ALARM
  <2>4. CASE Measure
    BY <2>4 DEF Measure, Levels
  <2>5. CASE \E c \in Clients : SetManual(c)
    BY <2>5 DEF SetManual
  <2>6. CASE \E c \in Clients : SetAuto(c)
    BY <2>6 DEF SetAuto
  <2>7. CASE \E c \in Clients : SetTimes(c)
    BY <2>7 DEF SetTimes
  <2>8. CASE UNCHANGED vars
    BY <2>8 DEF vars
  <2> QED
    BY <2>1, <2>2, <2>3, <2>4, <2>5, <2>6, <2>7, <2>8 DEF Next, Alarm
<1> QED
  BY <1>1, <1>2, PTL DEF Spec
-----------------------------------------------------------------------------
(* What is left of the delay makes up for what the passes lack. *)
Owing == alarm_delay_time_ctr + passes >= delay

DelayInv == TypeOK /\ Owing /\ Delayed

(* However times, states and readings change, the beeper only sounds after  *)
(* the delay that was set when there was last no alarm.                     *)
THEOREM DelayIsKept == Spec => []Delayed
<1>1. Init => Owing /\ Delayed
  BY DEF Init, Owing, Delayed
<1>2. TypeOK /\ Owing /\ Delayed /\ [Next]_vars => Owing' /\ Delayed'
  <2> SUFFICES ASSUME TypeOK, Owing, Delayed, [Next]_vars PROVE Owing' /\ Delayed'
    OBVIOUS
  <2>0. /\ passes \in Nat /\ delay \in 0 .. MaxDelay /\ alarm_delay_time_ctr \in Nat
        /\ alarm_delay_time \in Nat /\ MaxDelay \in Nat
    BY AlarmAssumption DEF TypeOK
  <2>1. CASE Beep /\ alarm_state = STOP_ALARM
    BY <2>0, <2>1 DEF Beep, Owing, Delayed, STOP_ALARM, PRE_ALARM, NO_SENSOR_ALARM, CONTINUOUS_ALARM
  <2>2. CASE Beep /\ Elapse /\ alarm_state # STOP_ALARM /\ alarm_state <= NO_SENSOR_ALARM
    <3>1. passes' = (IF passes <= MaxDelay THEN passes + 1 ELSE passes) /\ delay' = delay
      BY <2>2, <2>0 DEF Beep, STOP_ALARM, NO_SENSOR_ALARM, TypeOK
    <3>2. CASE alarm_delay_time_ctr > 0
      <4>1. alarm_delay_time_ctr' = alarm_delay_time_ctr - 1 /\ alarm_status' = alarm_status
        BY <2>2, <3>2, Zenon DEF Elapse
      <4> QED
        BY <2>0, <3>1, <4>1 DEF Owing, Delayed
    <3>3. CASE ~(alarm_delay_time_ctr > 0)
      <4>1. alarm_delay_time_ctr' = alarm_delay_time_ctr
        BY <2>2, <3>3, Zenon DEF Elapse
      <4>2. passes' > delay' /\ passes' >= passes
        BY <2>0, <3>1, <3>3 DEF Owing
      <4> QED
        BY <2>0, <3>1, <4>1, <4>2 DEF Owing, Delayed
    <3> QED
      BY <3>2, <3>3
  <2>3. CASE UNCHANGED <<beeper, count>>
    BY <2>3 DEF beeper, count, Owing, Delayed
  <2>4. \/ Judge \/ WriteBack \/ Measure
        \/ \E c \in Clients : SetManual(c) \/ SetAuto(c) \/ SetTimes(c)
        \/ UNCHANGED vars
        => Owing' /\ Delayed'
    BY <2>3, Zenon DEF Judge, WriteBack, Measure, SetManual, SetAuto, SetTimes, vars
  <2>5. CASE Beep
    <3>1. \A a \in {PRE_ALARM, CONTINUOUS_ALARM, NO_SENSOR_ALARM} : a # STOP_ALARM /\ a <= NO_SENSOR_ALARM
      BY DEF STOP_ALARM, PRE_ALARM, CONTINUOUS_ALARM, NO_SENSOR_ALARM
    <3> QED
      BY <2>1, <2>2, <2>3, <2>5, <3>1, Zenon DEF Beep
  <2> QED
    BY <2>4, <2>5, Zenon DEF Next, Alarm
<1> QED
  BY <1>1, <1>2, TypeCorrect, PTL DEF Spec
-----------------------------------------------------------------------------
(* Between its judgement and its write a pass knows the alarm as automatic. *)
ManualInv == ManualKept /\ (pc = "write" => order = Automatic \/ by = "NETWORK")

LEMMA ManualStep == TypeOK /\ ManualInv /\ [Next]_vars => ManualInv'
<1> SUFFICES ASSUME ManualInv, TypeOK, [Next]_vars PROVE ManualInv'
  OBVIOUS
<1> USE DEF ManualInv, ManualKept, state, count, sensor, beeper, times
<1>1. CASE Judge
  <2>1. by = "COMM" \/ by = "NETWORK"
    BY DEF TypeOK, Clients
  <2> QED
    BY <1>1, <2>1, Zenon DEF Judge
<1>2. CASE WriteBack
  <2>1. order = Automatic \/ by # "COMM"
    BY <1>2 DEF WriteBack
  <2>2. order' = order /\ by' = by /\ pc' # "write"
    BY <1>2 DEF WriteBack
  <2> QED
    BY <2>1, <2>2, Zenon
<1>3. CASE Beep
  BY <1>3 DEF Beep
<1>4. CASE Measure
  BY <1>4, Zenon DEF Measure
<1>5. CASE \E c \in Clients : SetManual(c)
  BY <1>5 DEF SetManual, MayRun, Clients
<1>6. CASE \E c \in Clients : SetAuto(c)
  BY <1>6 DEF SetAuto
<1>7. CASE \E c \in Clients : SetTimes(c)
  <2>1. PICK c \in Clients : SetTimes(c)
    BY <1>7
  <2> QED
    BY <2>1, Zenon DEF SetTimes
<1>8. CASE UNCHANGED vars
  BY <1>8, Zenon DEF vars
<1> QED
  BY <1>1, <1>2, <1>3, <1>4, <1>5, <1>6, <1>7, <1>8 DEF Next, Alarm

(* What a client on RS485 set by hand stays until a client asks for         *)
(* something else: the task that serves it cannot interrupt a pass.         *)
THEOREM ManualIsKept == Spec => []ManualKept
<1>1. Init => ManualInv
  BY DEF Init, ManualInv, ManualKept
<1>2. ManualInv => ManualKept
  BY DEF ManualInv
<1> QED
  BY <1>1, <1>2, ManualStep, TypeCorrect, PTL DEF Spec
-----------------------------------------------------------------------------
(* The counter of the delay is what is left of it, exactly. *)
Exact ==
  /\ passes <= delay => alarm_delay_time_ctr = delay - passes
  /\ passes > delay => alarm_delay_time_ctr = 0

LEMMA ExactTypes ==
  TypeOK => /\ passes \in 0 .. MaxDelay + 1 /\ delay \in 0 .. MaxDelay
            /\ alarm_delay_time_ctr \in Nat /\ alarm_delay_time \in 0 .. MaxDelay /\ MaxDelay \in Nat
BY AlarmAssumption DEF TypeOK

(* The three things a pass may do with the beeper. *)
LEMMA BeepCases ==
  ASSUME Beep
  PROVE  \/ /\ alarm_state = STOP_ALARM
            /\ alarm_status' = FALSE /\ alarm_delay_time_ctr' = alarm_delay_time
            /\ passes' = 0 /\ delay' = alarm_delay_time
         \/ /\ alarm_state \in {PRE_ALARM, CONTINUOUS_ALARM, NO_SENSOR_ALARM}
            /\ Elapse
            /\ passes' = IF passes <= MaxDelay THEN passes + 1 ELSE passes
            /\ delay' = delay
         \/ UNCHANGED <<beeper, count>>
BY Zenon DEF Beep

(* In a pass with an alarm the beeper is let sound when the passes are more *)
(* than the delay, and not before.                                         *)
LEMMA Elapses ==
  ASSUME TypeOK, Exact, Delayed, Elapse,
         passes' = IF passes <= MaxDelay THEN passes + 1 ELSE passes, delay' = delay
  PROVE  /\ Exact'
         /\ alarm_status' \in BOOLEAN
         /\ alarm_status' => passes' > delay
         /\ alarm_state # PRE_ALARM => alarm_status' = (passes' > delay)
<1> USE ExactTypes
<1>1. CASE alarm_delay_time_ctr > 0
  <2>1. alarm_delay_time_ctr' = alarm_delay_time_ctr - 1 /\ alarm_status' = alarm_status
    BY <1>1, Zenon DEF Elapse
  <2>2. passes < delay /\ passes' = passes + 1
    BY <1>1 DEF Exact
  <2>3. Exact' /\ ~(passes' > delay) /\ ~(passes > delay)
    BY <2>1, <2>2 DEF Exact
  <2>4. alarm_status = FALSE
    BY <2>3 DEF Delayed, TypeOK
  <2>5. (passes' > delay) = FALSE
    BY <2>2
  <2> QED
    BY <2>1, <2>3, <2>4, <2>5, Zenon
<1>2. CASE ~(alarm_delay_time_ctr > 0)
  <2>1. alarm_delay_time_ctr' = alarm_delay_time_ctr
    BY <1>2, Zenon DEF Elapse
  <2>2. passes >= delay /\ passes' > delay
    BY <1>2 DEF Exact
  <2>3. Exact'
    BY <1>2, <2>1, <2>2 DEF Exact
  <2>4. alarm_status' \in BOOLEAN /\ (alarm_state # PRE_ALARM => alarm_status' = TRUE)
    BY <1>2, Zenon DEF Elapse, TypeOK
  <2>5. (passes' > delay) = TRUE
    BY <2>2
  <2> QED
    BY <2>3, <2>4, <2>5, Zenon
<1> QED
  BY <1>1, <1>2

LEMMA ExactStep == TypeOK /\ Delayed /\ Exact /\ [Next]_vars => Exact'
<1> SUFFICES ASSUME TypeOK, Delayed, Exact, [Next]_vars PROVE Exact'
  OBVIOUS
<1>1. CASE UNCHANGED <<beeper, count>>
  BY <1>1 DEF beeper, count, Exact
<1>2. CASE Beep
  <2>1. CASE alarm_delay_time_ctr' = alarm_delay_time /\ passes' = 0 /\ delay' = alarm_delay_time
    BY <2>1, ExactTypes DEF Exact
  <2> QED
    BY <1>1, <1>2, <2>1, BeepCases, Elapses, Zenon
<1>3. Beep \/ UNCHANGED <<beeper, count>>
  BY Zenon DEF Next, Alarm, Judge, WriteBack, Measure, SetManual, SetAuto, SetTimes, vars
<1> QED
  BY <1>1, <1>2, <1>3

(* A pass heeds an order that binds. *)
LEMMA OrderHeeded ==
  ASSUME ManualInv, NEW S, alarm_state \in S
  PROVE  Beeper!Allows(S)
BY DEF ManualInv, ManualKept, Beeper!Allows

BeeperInv == TypeOK /\ Delayed /\ ManualInv /\ Exact

LEMMA BeepMapped == BeeperInv /\ Beep => [Beeper!Next]_(Beeper!vars)
<1> SUFFICES ASSUME BeeperInv, Beep PROVE [Beeper!Next]_(Beeper!vars)
  OBVIOUS
<1> USE DEF BeeperInv
<1>1. UNCHANGED <<alarm_delay_time, order, by>>
  BY DEF Beep, times
<1>2. CASE /\ alarm_state = STOP_ALARM
           /\ alarm_status' = FALSE /\ passes' = 0 /\ delay' = alarm_delay_time
  <2>1. Beeper!Allows({STOP_ALARM})
    BY <1>2, OrderHeeded
  <2> QED
    BY <1>1, <1>2, <2>1 DEF Beeper!Next, Beeper!Calm
<1>3. CASE /\ alarm_state \in {PRE_ALARM, CONTINUOUS_ALARM, NO_SENSOR_ALARM}
           /\ Elapse
           /\ passes' = IF passes <= MaxDelay THEN passes + 1 ELSE passes
           /\ delay' = delay
  <2>1. Beeper!Allows({CONTINUOUS_ALARM, NO_SENSOR_ALARM} \cup {PRE_ALARM})
    BY <1>3, OrderHeeded
  <2>2. /\ alarm_status' \in BOOLEAN
        /\ alarm_status' => passes' > delay
        /\ alarm_state # PRE_ALARM => alarm_status' = (passes' > delay)
    BY <1>3, Elapses, Zenon
  <2>3. by = "COMM" /\ order \in {CONTINUOUS_ALARM, NO_SENSOR_ALARM} => alarm_state # PRE_ALARM
    BY DEF ManualInv, ManualKept, Automatic, CONTINUOUS_ALARM, NO_SENSOR_ALARM, PRE_ALARM
  <2>4. Beeper!Alarm
    BY <1>1, <1>3, <2>1, <2>2, <2>3, Zenon DEF Beeper!Alarm
  <2> QED
    BY <2>4 DEF Beeper!Next
<1>4. CASE UNCHANGED <<beeper, count>>
  BY <1>1, <1>4 DEF Beeper!vars, beeper, count
<1> QED
  BY <1>2, <1>3, <1>4, BeepCases, Zenon

LEMMA StepMapped == BeeperInv /\ BeeperInv' /\ [Next]_vars => [Beeper!Next]_(Beeper!vars)
<1> SUFFICES ASSUME BeeperInv, BeeperInv', [Next]_vars PROVE [Beeper!Next]_(Beeper!vars)
  OBVIOUS
<1>1. CASE Beep
  BY <1>1, BeepMapped
<1>2. CASE Judge \/ WriteBack \/ Measure \/ UNCHANGED vars
  <2>1. UNCHANGED <<beeper, count, alarm_delay_time, order, by>>
    BY <1>2, Zenon DEF Judge, WriteBack, Measure, vars, times
  <2> QED
    BY <2>1 DEF Beeper!vars, beeper, count
<1>3. CASE \E c \in Clients : SetManual(c) \/ SetAuto(c)
  <2>1. UNCHANGED <<beeper, count, alarm_delay_time>>
    BY <1>3, Zenon DEF SetManual, SetAuto, times
  <2>2. order' \in Orders \cup {Automatic} /\ (by' = "COMM") \in BOOLEAN
    BY DEF BeeperInv, TypeOK
  <2> QED
    BY <2>1, <2>2 DEF Beeper!Next, Beeper!Order, beeper, count
<1>4. CASE \E c \in Clients : SetTimes(c)
  <2>1. UNCHANGED <<beeper, count, order, by>>
    BY <1>4, Zenon DEF SetTimes
  <2>2. alarm_delay_time' \in 0 .. MaxDelay
    BY DEF BeeperInv, TypeOK
  <2> QED
    BY <2>1, <2>2 DEF Beeper!Next, Beeper!Set, beeper, count
<1> QED
  BY <1>1, <1>2, <1>3, <1>4 DEF Next, Alarm

(* Judgement, write and beeper are steps that others interrupt, and states  *)
(* and times change under the counters; all the same the beeper sounds in   *)
(* an alarm as soon as the delay is over and not before, and is silent in  *)
(* a pass without alarm; an order over RS485 decides which it is.          *)
THEOREM ImplementsBeeper == Spec => BeeperSpec
<1>1. Init => Exact /\ ManualInv /\ Beeper!Init
  <2> SUFFICES ASSUME Init PROVE Exact /\ ManualInv /\ Beeper!Init
    OBVIOUS
  <2>1. passes = 0 /\ delay = 0 /\ alarm_delay_time_ctr = 0 /\ order = Automatic /\ pc = "sleep"
    BY DEF Init
  <2>2. Exact /\ ManualInv
    BY <2>1 DEF Exact, ManualInv, ManualKept
  <2>3. Beeper!Init
    BY Zenon DEF Init, Beeper!Init
  <2> QED
    BY <2>2, <2>3
<1>2. TypeOK /\ ManualInv /\ [Next]_vars => ManualInv'
  BY ManualStep
<1>3. BeeperInv /\ BeeperInv' /\ [Next]_vars => [Beeper!Next]_(Beeper!vars)
  BY StepMapped
<1> QED
  BY <1>1, <1>2, <1>3, ExactStep, TypeCorrect, DelayIsKept, PTL DEF Spec, BeeperSpec, Beeper!Spec, BeeperInv
=============================================================================
