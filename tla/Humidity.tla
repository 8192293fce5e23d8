------------------------------ MODULE Humidity ------------------------------
(***************************************************************************)
(* vUpdate_Temperature_Task: the search for the humidity sensor and its    *)
(* loss, the slot through which clients have the task calibrate the        *)
(* readings and switch the heater, and the heating by itself.              *)
(*                                                                         *)
(* The sensor always measures the same; a reading is that and its offset.  *)
(* An integer has two bytes of one bit.  A write of the EEPROM blocks its   *)
(* task.                                                                   *)
(***************************************************************************)
EXTENDS Integers, Sequences, FiniteSets

CONSTANTS
  MaxSilent,    \* failed searches until the sensor is missing (10)
  MaxFailed,    \* failed readings until it is (20)
  HeatAfter,    \* damp passes until the heater is switched on (120)
  HeatFor,      \* passes until it is switched off (24)
  Values,       \* what clients calibrate to
  MaxEvents     \* bound: exchanges with the sensor that fail, times it is taken
                \* off or put on, calls of clients, and restarts, together

ASSUME HumidityAssumption ==
  /\ MaxSilent \in Nat \ {0} /\ MaxFailed \in Nat /\ MaxSilent <= MaxFailed
  /\ HeatAfter \in Nat /\ HeatFor \in Nat /\ Values \subseteq 0 .. 3
  /\ MaxEvents \in Nat

PIC_NORMAL          == 0
PIC_ON_TO_OFF       == 1
PIC_OFF_TO_ON       == 2
PIC_WAIT_OFF_TO_ON  == 4
PIC_INITIAL         == 6
PIC_WAITING1        == 7
PIC_WAITING_END     == 11

Channels == {"temp", "hum"}
Clients  == {"COMM", "NETWORK"}

VARIABLES
  attached, foreign,   \* the sensor is there; its serial number is not the stored one
  heater,              \* what it was last told
  display_state, hum_exists, known, ctr,   \* known: the version has been read
  flag, value,         \* external_operation_flag, external_operation_value
  heat_status, read_count,                 \* hum_heat_status
  auto, autoSaved,     \* auto_heat_enable, in RAM and in the EEPROM
  offset, saved,       \* offset_t and offset_h, and their bytes in the EEPROM
  manual, mval, shown, \* output_auto_manual, the manual values, the readings
  pc,                  \* the task
  todo,                \* what is left of the handler that a client runs
  events,              \* what the bound counts
  missed,              \* history: tests failed in a row, at most MaxFailed
  lost,                \* history: the heater may be on without the task's knowing
  last,                \* history: what was asked for last: a calibration or nothing
  stale,               \* history: a mode or an offset was changed since the last pass
  crossed              \* history: since last, clients and task were in each other's way

sensor   == <<attached, foreign>>
presence == <<display_state, hum_exists, known, ctr, missed>>
slot     == <<flag, value>>
heating  == <<heater, heat_status, lost>>
heatAuto == <<auto, autoSaved>>
calib    == <<offset, saved>>
output   == <<manual, mval>>
asked    == <<last, crossed>>
vars == <<sensor, presence, slot, heating, heatAuto, read_count, calib, output, shown, pc, todo,
          events, asked, stale>>

Lo(n) == n % 2
Hi(n) == n \div 2
Int16(n) == n % 4
Saved(n) == <<Lo(n), Hi(n)>>
Loaded(b) == b[1] + 2 * b[2]

Measured == 1           \* in each channel

Nothing == [c |-> "none", v |-> 0]
Idle == [w \in Clients |-> <<>>]
Zero == [c \in Channels |-> 0]

Init ==
  /\ attached \in BOOLEAN /\ foreign \in {attached, FALSE} /\ heater = 0
  /\ display_state = PIC_INITIAL /\ hum_exists = FALSE /\ known = FALSE /\ ctr = 0
  /\ flag = "none" /\ value = 0
  /\ heat_status = 0 /\ read_count = 0 /\ auto \in BOOLEAN /\ autoSaved = auto
  /\ saved = [c \in Channels |-> Saved(0)] /\ offset = Zero
  /\ manual = [c \in Channels |-> FALSE] /\ mval = Zero /\ shown = Zero
  /\ pc = "sleep" /\ todo = Idle
  /\ events = 0
  /\ missed = 0 /\ lost = FALSE /\ last = Nothing /\ stale = TRUE /\ crossed = FALSE

(* A start of the controller; the sensor keeps what it was told. *)
Boot ==
  /\ display_state' = PIC_INITIAL /\ hum_exists' = FALSE /\ known' = FALSE /\ ctr' = 0
  /\ flag' = "none" /\ value' = 0
  /\ heat_status' = 0 /\ read_count' = 0 /\ auto' = autoSaved
  /\ offset' = [c \in Channels |-> Loaded(saved[c])]
  /\ manual' = [c \in Channels |-> FALSE] /\ mval' = Zero /\ shown' = Zero
  /\ pc' = "sleep" /\ todo' = Idle
  /\ missed' = 0 /\ lost' = (heater # 0) /\ last' = Nothing /\ stale' = TRUE /\ crossed' = FALSE
  /\ UNCHANGED <<sensor, heater, autoSaved, saved>>

Restart == events < MaxEvents /\ events' = events + 1 /\ Boot
-----------------------------------------------------------------------------
(* Scheduling: COMM has a lower priority than the task and only runs while *)
(* that is blocked; NETWORK has a higher one, and only the EEPROM blocks it. *)
Blocking == {"sleep", "operate", "tempLo", "tempHi", "humLo", "humHi"}
Eeprom   == {"lo", "hi", "autoSaved"}

NetworkWaits == \A i \in 1 .. Len(todo["NETWORK"]) : i = 1 => todo["NETWORK"][i].op \in Eeprom
Runs(w) == w = "NETWORK" \/ (NetworkWaits /\ pc \in Blocking)

At(p) == pc = p /\ NetworkWaits
Operating == pc \notin {"sleep", "operate", "update", "auto"}
Busy == \E w \in Clients : todo[w] # <<>>
-----------------------------------------------------------------------------
(* Each pass begins with a test of the sensor, and blocks before it goes on: *)
(* a client whom the test interrupts may as well come before it.            *)
Query(ok) ==
  \/ ok = attached /\ UNCHANGED events
  \/ attached /\ ~ok /\ events < MaxEvents /\ events' = events + 1

Tested ==
  /\ pc' = "operate"
  /\ UNCHANGED <<sensor, slot, heating, heatAuto, read_count, calib, output, shown, todo,
                 asked, stale>>

Missed == missed' = IF missed < MaxFailed THEN missed + 1 ELSE missed

(* Variant: a search that succeeds forgets that the sensor is back. *)
Search_Forgets ==
  /\ At("sleep") /\ ~Busy /\ display_state # PIC_NORMAL
  /\ \/ /\ Query(TRUE)
        /\ known' = TRUE /\ ctr' = 0 /\ missed' = 0
        /\ display_state' = IF display_state = PIC_WAIT_OFF_TO_ON THEN PIC_OFF_TO_ON
                            ELSE display_state
        /\ UNCHANGED hum_exists
     \/ /\ Query(FALSE) /\ Missed
        /\ ctr' = IF ctr <= MaxSilent THEN ctr + 1 ELSE ctr
        /\ IF ctr' = MaxSilent
           THEN display_state' = PIC_ON_TO_OFF /\ hum_exists' = FALSE
           ELSE UNCHANGED <<display_state, hum_exists>>
        /\ UNCHANGED known
  /\ Tested

Search ==
  /\ At("sleep") /\ ~Busy /\ display_state # PIC_NORMAL
  /\ \/ /\ Query(TRUE)
        /\ hum_exists' = TRUE /\ known' = TRUE /\ ctr' = 0 /\ missed' = 0
        /\ display_state' = IF display_state = PIC_WAIT_OFF_TO_ON THEN PIC_OFF_TO_ON
                            ELSE display_state
     \/ /\ Query(FALSE) /\ Missed
        /\ ctr' = IF ctr <= MaxSilent THEN ctr + 1 ELSE ctr
        /\ IF ctr' = MaxSilent
           THEN display_state' = PIC_ON_TO_OFF /\ hum_exists' = FALSE
           ELSE UNCHANGED <<display_state, hum_exists>>
        /\ UNCHANGED known
  /\ Tested

(* Variant: failed readings are counted as far as failed searches. *)
Read_CountsLess ==
  /\ At("sleep") /\ ~Busy /\ display_state = PIC_NORMAL
  /\ \/ /\ Query(TRUE)
        /\ ctr' = 0 /\ missed' = 0 /\ UNCHANGED <<display_state, hum_exists>>
     \/ /\ Query(FALSE) /\ Missed
        /\ ctr' = IF ctr < MaxSilent THEN ctr + 1 ELSE ctr
        /\ IF ctr' = MaxFailed
           THEN display_state' = PIC_ON_TO_OFF /\ hum_exists' = FALSE
           ELSE UNCHANGED <<display_state, hum_exists>>
  /\ UNCHANGED known
  /\ Tested

Read ==
  /\ At("sleep") /\ ~Busy /\ display_state = PIC_NORMAL
  /\ \/ /\ Query(TRUE)
        /\ ctr' = 0 /\ missed' = 0 /\ UNCHANGED <<display_state, hum_exists>>
     \/ /\ Query(FALSE) /\ Missed
        /\ ctr' = IF ctr <= MaxFailed THEN ctr + 1 ELSE ctr
        /\ IF ctr' = MaxFailed
           THEN display_state' = PIC_ON_TO_OFF /\ hum_exists' = FALSE
           ELSE UNCHANGED <<display_state, hum_exists>>
  /\ UNCHANGED known
  /\ Tested
-----------------------------------------------------------------------------
(* external_operation: one order is taken out of the slot and carried out. *)

LoOf == [temp |-> "tempLo", hum |-> "humLo"]
HiOf == [temp |-> "tempHi", hum |-> "humHi"]
After == [temp |-> "update", hum |-> "hum"]

Crosses == crossed' = (crossed \/ Busy)
OnlyTask == UNCHANGED <<sensor, presence, heatAuto, read_count, output, shown, todo>>

NoOperation ==
  /\ At("operate") /\ flag = "none" /\ pc' = "update"
  /\ UNCHANGED <<slot, heating, calib, events, asked, stale>>
  /\ OnlyTask

(* Variant: the calibration takes the value for the offset. *)
OperateTemp_Absolute ==
  /\ At("operate") /\ flag = "temp" /\ pc' = "temp"
  /\ offset' = [offset EXCEPT !["temp"] = value]
  /\ crossed' = (crossed \/ Busy \/ stale)
  /\ UNCHANGED <<slot, heating, saved, events, last, stale>>
  /\ OnlyTask

OperateTemp ==
  /\ At("operate") /\ flag = "temp" /\ pc' = "temp"
  /\ offset' = [offset EXCEPT !["temp"] = Int16(@ + value - shown["temp"])]
  /\ crossed' = (crossed \/ Busy \/ stale)
  /\ UNCHANGED <<slot, heating, saved, events, last, stale>>
  /\ OnlyTask

TempTaken ==
  /\ At("temp") /\ pc' = "tempLo"
  /\ flag' = "none"
  /\ UNCHANGED <<value, heating, calib, events, asked, stale>>
  /\ OnlyTask

OperateHum ==
  /\ At("operate") /\ flag = "hum" /\ pc' = "humLo"
  /\ offset' = [offset EXCEPT !["hum"] = Int16(value - Measured)]
  /\ Crosses
  /\ UNCHANGED <<slot, heating, saved, events, last, stale>>
  /\ OnlyTask

SaveLo ==
  /\ \E c \in Channels : /\ At(LoOf[c]) /\ pc' = HiOf[c]
                         /\ saved' = [saved EXCEPT ![c][1] = Lo(offset[c])]
  /\ UNCHANGED <<slot, heating, offset, events, asked, stale>>
  /\ OnlyTask

SaveHi ==
  /\ \E c \in Channels : /\ At(HiOf[c]) /\ pc' = After[c]
                         /\ saved' = [saved EXCEPT ![c][2] = Hi(offset[c])]
  /\ UNCHANGED <<slot, heating, offset, events, asked, stale>>
  /\ OnlyTask

HumTaken ==
  /\ At("hum") /\ pc' = "update"
  /\ flag' = "none"
  /\ UNCHANGED <<value, heating, calib, events, asked, stale>>
  /\ OnlyTask
-----------------------------------------------------------------------------
(* pic_heating_control: a sensor of an unknown version is not told.  The   *)
(* sensor may not hear the order, or the task not its answer.              *)
Heat(v, ok) ==
  \/ /\ known /\ attached /\ ok
     /\ heater' = v /\ lost' = FALSE /\ UNCHANGED events
  \/ /\ ~ok /\ ~(known /\ attached)
     /\ UNCHANGED <<heater, lost, events>>
  \/ /\ ~ok /\ known /\ attached /\ events < MaxEvents /\ events' = events + 1
     /\ \/ UNCHANGED <<heater, lost>>
        \/ heater' = v /\ lost' = TRUE

(* An order that fails stays in the slot until the next pass. *)
OperateHeat ==
  /\ At("operate") /\ flag = "heater"
  /\ \E ok \in BOOLEAN : Heat(value, ok) /\ pc' = IF ok THEN "heat" ELSE "update"
  /\ Crosses
  /\ UNCHANGED <<slot, heat_status, calib, last, stale>>
  /\ OnlyTask

HeatTaken ==
  /\ At("heat") /\ pc' = "update"
  /\ flag' = "none" /\ heat_status' = value
  /\ UNCHANGED <<value, heater, lost, calib, events, asked, stale>>
  /\ OnlyTask
-----------------------------------------------------------------------------
(* update_temperature: the readings, and one step of what is displayed.    *)
Readings ==
  /\ shown' = [c \in Channels |-> IF manual[c] THEN mval[c]
                              ELSE Int16(Measured + offset[c])]
  /\ mval' = shown'
  /\ stale' = FALSE

Advance(d) ==
  IF d = PIC_INITIAL THEN PIC_WAITING1
  ELSE IF d = PIC_ON_TO_OFF THEN PIC_WAIT_OFF_TO_ON
  ELSE IF d >= PIC_WAITING1 /\ hum_exists THEN d + 1
  ELSE d

Update ==
  /\ At("update") /\ display_state # PIC_OFF_TO_ON
  /\ Readings
  /\ LET d == Advance(display_state)
     IN IF d = PIC_WAITING_END
        THEN display_state' = PIC_NORMAL /\ pc' = "refresh"
        ELSE display_state' = d /\ pc' = "auto"
  /\ UNCHANGED <<sensor, hum_exists, known, ctr, missed, slot, heating, heatAuto, read_count,
                 calib, manual, todo, events, asked>>

(* A sensor that is back makes the controller start again. *)
SoftReset == At("update") /\ display_state = PIC_OFF_TO_ON /\ Boot /\ UNCHANGED events

(* refresh_sensor asks, without sleeping, until the sensor answers; a new   *)
(* sensor starts without offsets.                                          *)
Refresh ==
  /\ At("refresh") /\ attached /\ pc' = "auto"
  /\ foreign' = FALSE
  /\ IF foreign
     THEN /\ offset' = Zero /\ saved' = [c \in Channels |-> Saved(0)]
          /\ stale' = TRUE /\ last' = Nothing /\ crossed' = (crossed \/ Busy)
     ELSE UNCHANGED <<calib, stale, asked>>
  /\ UNCHANGED <<attached, presence, slot, heating, heatAuto, read_count, output, shown, todo,
                 events>>
-----------------------------------------------------------------------------
(* auto_heating: on after a time of damp air, off after a time of heating.  *)
(* A switch is tried again in each pass until the sensor answers.          *)
Count(limit) == read_count' = read_count + 1 /\ read_count < limit

(* Variant: the switch counts as done although the sensor did not answer.  *)
Switch_Blind(v) ==
  /\ \E ok \in BOOLEAN : Heat(v, ok)
  /\ heat_status' = v /\ read_count' = 0

Switch(v) ==
  \/ Heat(v, TRUE) /\ heat_status' = v /\ read_count' = 0
  \/ Heat(v, FALSE) /\ UNCHANGED <<heat_status, read_count>>

(* Variant: the time of heating is only counted in damp air. *)
Heating_Damp ==
  \/ /\ heat_status = 0
     /\ \/ read_count' = 0 /\ UNCHANGED <<heating, events>>
        \/ Count(HeatAfter) /\ UNCHANGED <<heating, events>>
        \/ read_count >= HeatAfter /\ Switch(1)
  \/ /\ heat_status # 0
     /\ \/ read_count' = 0 /\ UNCHANGED <<heating, events>>
        \/ Count(HeatFor) /\ UNCHANGED <<heating, events>>
        \/ read_count >= HeatFor /\ Switch(0)

Heating ==
  \/ /\ heat_status = 0
     /\ \/ read_count' = 0 /\ UNCHANGED <<heating, events>>
        \/ Count(HeatAfter) /\ UNCHANGED <<heating, events>>
        \/ read_count >= HeatAfter /\ Switch(1)
  \/ /\ heat_status # 0
     /\ \/ Count(HeatFor) /\ UNCHANGED <<heating, events>>
        \/ read_count >= HeatFor /\ Switch(0)

AutoHeat ==
  /\ At("auto") /\ pc' = "sleep"
  /\ IF auto /\ display_state = PIC_NORMAL THEN Heating
     ELSE read_count' = (IF auto THEN 0 ELSE read_count) /\ UNCHANGED <<heating, events>>
  /\ UNCHANGED <<sensor, presence, slot, heatAuto, calib, output, shown, todo, asked,
                 stale>>
-----------------------------------------------------------------------------
(* Clients.  A handler is the sequence of its writes. *)
W(op, c, v) == [op |-> op, c |-> c, v |-> v]

(* MODBUS_EXTERNAL_TEMPERATURE_CELSIUS and MODBUS_HUMIDITY *)
Calibrate(c, v) ==
  <<W("value", c, v), IF manual[c] THEN W("manual", c, v) ELSE W("flag", c, 0)>>

(* MODBUS_HUMIDITY_SENSOR_HEATING *)
SwitchHeater(v) == <<W("value", "heater", v), W("flag", "heater", 0)>>

(* MODBUS_AUTO_HEAT_CONTROL *)
SwitchAuto(v) ==
  <<W("auto", "heater", v), W("autoSaved", "heater", v)>> \o SwitchHeater(0)

(* MODBUS_TEMP_OFFSET and MODBUS_HUM_OFFSET *)
SetOffset(c, v) == <<W("offset", c, v), W("lo", c, Lo(v)), W("hi", c, Hi(v))>>

(* MODBUS_OUTPUT_AUTO_MANUAL *)
SetMode(c, v) == <<W("mode", c, v)>>

(* A client is called; what it asks for replaces what was asked before. *)
Free == ~Busy /\ ~Operating /\ flag = "none"
Call(w) ==
  /\ events < MaxEvents /\ events' = events + 1
  /\ todo[w] = <<>> /\ Runs(w)
  /\ crossed' = (~Free /\ (crossed \/ Busy \/ Operating))
  /\ \E c \in Channels, v \in Values :
       \/ todo' = [todo EXCEPT ![w] = Calibrate(c, v)] /\ last' = [c |-> c, v |-> v]
       \/ /\ \E p \in {SwitchHeater(v % 2), SwitchAuto(v % 2), SetOffset(c, v), SetMode(c, v % 2)} :
               todo' = [todo EXCEPT ![w] = p]
          /\ last' = Nothing
  /\ UNCHANGED <<sensor, presence, slot, heating, heatAuto, read_count, calib, output, shown, pc,
                 stale>>

Step(w) ==
  /\ todo[w] # <<>> /\ Runs(w)
  /\ todo' = [todo EXCEPT ![w] = Tail(@)]
  /\ LET x == Head(todo[w])
     IN /\ value' = IF x.op = "value" THEN x.v ELSE value
        /\ lost' = (lost \/ (x.op = "value" /\ pc = "heat"))
        /\ flag' = IF x.op = "flag" THEN x.c ELSE flag
        /\ auto' = IF x.op = "auto" THEN x.v = 1 ELSE auto
        /\ autoSaved' = IF x.op = "autoSaved" THEN x.v = 1 ELSE autoSaved
        /\ offset' = IF x.op = "offset" THEN [offset EXCEPT ![x.c] = x.v] ELSE offset
        /\ saved' = IF x.op \in {"lo", "hi"}
                    THEN [saved EXCEPT ![x.c][IF x.op = "lo" THEN 1 ELSE 2] = x.v] ELSE saved
        /\ stale' = (stale \/ x.op \in {"offset", "mode"})
        /\ manual' = IF x.op = "mode" THEN [manual EXCEPT ![x.c] = (x.v = 1)] ELSE manual
        /\ mval' = IF x.op = "manual" THEN [mval EXCEPT ![x.c] = x.v] ELSE mval
  /\ UNCHANGED <<sensor, presence, heater, heat_status, read_count, shown, pc, events,
                 asked>>

(* The sensor is taken off, and another one or the same is put on. *)
Swap ==
  /\ events < MaxEvents /\ events' = events + 1
  /\ attached' = ~attached
  /\ foreign' \in {attached', FALSE}
  /\ heater' = 0 /\ lost' = FALSE
  /\ UNCHANGED <<presence, slot, heat_status, heatAuto, read_count, calib, output, shown, pc, todo,
                 asked, stale>>
-----------------------------------------------------------------------------
Operation ==
  NoOperation \/ OperateTemp \/ TempTaken \/ OperateHum \/ SaveLo \/ SaveHi \/ HumTaken
  \/ OperateHeat \/ HeatTaken

Task == Search \/ Read \/ Operation \/ Update \/ SoftReset \/ Refresh \/ AutoHeat

Next == Task \/ Swap \/ Restart \/ \E w \in Clients : Call(w) \/ Step(w)

(* The task runs every five seconds; it sleeps long enough for the others. *)
Spec == Init /\ [][Next]_vars /\ WF_vars(Task) /\ \A w \in Clients : SF_vars(Step(w))
-----------------------------------------------------------------------------
Writes == [op : {"value", "flag", "manual", "auto", "autoSaved", "offset", "lo", "hi", "mode"},
           c : Channels \cup {"heater"}, v : 0 .. 3]

TypeOK ==
  /\ attached \in BOOLEAN /\ foreign \in BOOLEAN
  /\ heater \in 0 .. 3 /\ heat_status \in 0 .. 3 /\ value \in 0 .. 3
  /\ display_state \in {0, 1, 2, 4} \cup 6 .. 10
  /\ hum_exists \in BOOLEAN /\ known \in BOOLEAN
  /\ ctr \in 0 .. MaxFailed + 1 /\ missed \in 0 .. MaxFailed
  /\ flag \in {"none", "temp", "hum", "heater"}
  /\ auto \in BOOLEAN /\ autoSaved \in BOOLEAN
  /\ read_count \in 0 .. (IF HeatAfter > HeatFor THEN HeatAfter ELSE HeatFor)
  /\ offset \in [Channels -> 0 .. 3] /\ saved \in [Channels -> (0 .. 1) \X (0 .. 1)]
  /\ manual \in [Channels -> BOOLEAN]
  /\ mval \in [Channels -> 0 .. 3] /\ shown \in [Channels -> 0 .. 3]
  /\ pc \in {"sleep", "operate", "temp", "tempLo", "tempHi", "humLo", "humHi", "hum", "heat",
            "update", "refresh", "auto"}
  /\ todo \in [Clients -> Seq(Writes)]
  /\ events \in 0 .. MaxEvents
  /\ lost \in BOOLEAN /\ stale \in BOOLEAN /\ crossed \in BOOLEAN
  /\ last \in [c : Channels \cup {"none"}, v : 0 .. 3]

(* A sensor that did not answer in MaxFailed passes, of whatever states of  *)
(* the display, is neither shown as working nor taken for there.           *)
Noticed == missed = MaxFailed => ~hum_exists /\ display_state # PIC_NORMAL

(* What the watch over a sensor promises: the sensor is taken for there, as *)
(* it is whenever it is shown as working, from an answer on, and until      *)
(* MaxSilent passes at least and MaxFailed at most went without one.       *)
Watch == INSTANCE WatchedSensor WITH
  Least <- MaxSilent, Most <- MaxFailed, Replaceable <- FALSE,
  present <- hum_exists \/ display_state = PIC_NORMAL, misses <- missed

WatchSpec == Watch!Spec

(* A heater that is on is known to be on, and will be switched off: unless *)
(* the answer to the order was lost, a client changed the order while it    *)
(* was carried out, or the controller started since.                       *)
HeaterKnown == heater # 0 /\ ~lost => heat_status # 0 \/ pc = "heat"

(* A sensor that stays is found in the end, from whatever state, and read.  *)
(* One that stays away is shown as missing, unless it was taken off just    *)
(* before it is read for the first time: the task then waits for it for    *)
(* ever, and the tasks of lower priority with it.                          *)
Present ==
  /\ <>[]attached => <>[](display_state = PIC_NORMAL /\ hum_exists)
  /\ <>[]~attached => <>[](pc = "refresh" \/ (display_state = PIC_WAIT_OFF_TO_ON /\ ~hum_exists))

(* With the automatic heating the heater never stays on. *)
HeaterOff == <>[](auto /\ attached /\ ~lost) => []<>(heater = 0)

(* What was calibrated last is what is shown in the end and what is stored, *)
(* unless two orders met, or the mode or the offset had changed since the   *)
(* pass whose reading was calibrated.                                      *)
Obeyed ==
  <>[]attached =>
    <>[](flag = "none" /\ \A c \in Channels : last.c = c /\ ~crossed =>
           shown[c] = last.v /\ (~manual[c] => saved[c] = Saved(offset[c])))
=============================================================================
