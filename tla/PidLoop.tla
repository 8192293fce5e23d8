------------------------------ MODULE PidLoop -------------------------------
(***************************************************************************)
(* One loop of vStartPIDTask: pid_controller, and the settings, which      *)
(* clients of higher priority change at any moment, one by one through     *)
(* registers or all at once by a block write that the task then saves.     *)
(*                                                                         *)
(* A word of the EEPROM has two bytes of one bit.  Setpoints are not        *)
(* negative.  Two turns of the task, the time of a sample, are one.  A     *)
(* block write is one step.                                                *)
(***************************************************************************)
EXTENDS Integers, Sequences

CONSTANTS
  Gain,          \* an error of the proportional band gives this much output (100)
  OutMax,        \* the largest output (100000)
  AreaMax,       \* where the integral is cut off (8388607)
  ResetTime,     \* the integral is divided by it (3600)
  RateTime,      \* the derivative is divided by it, and by the sample time (6000)
  Sample,        \* PID_SAMPLE_TIME, what the task sets the sample time to (2)
  MaxSample,     \* the largest sample time of a block write (255)
  WordMax,       \* a signed word is -WordMax .. WordMax - 1 (2^31)
  Scale,         \* a unit of the stored setpoint (100)
  MaxErr,        \* inputs and setpoints are 0 .. MaxErr
  Inputs,        \* what is measured
  Settings,      \* what block writes bring
  Values,        \* what registers bring
  MaxEvents      \* bound: writes, changes of the input and restarts, together

Byte  == {0, 1}
Words == 0 .. 3
Fields  == {"action", "lo", "hi", "prop", "reset"}
Clients == {"COMM", "NETWORK"}
Controllers ==
  [auto_manual : {0, 1}, action : {0, 1}, prop : Words, reset : Words, rate : Words,
   sample_time : 0 .. MaxSample, bias : Nat, setpoint : 0 .. MaxErr, input : 0 .. MaxErr,
   value : Nat]

ASSUME PidAssumption ==
  /\ Gain \in Nat /\ OutMax \in Nat /\ AreaMax \in Nat
  /\ ResetTime \in Nat \ {0} /\ RateTime \in Nat \ {0} /\ Scale \in Nat \ {0}
  /\ Sample \in 2 .. 3 /\ MaxSample \in Nat /\ Sample <= MaxSample
  /\ WordMax \in Nat \ {0}
  /\ MaxErr \in Nat /\ 3 * Scale <= MaxErr
  /\ Inputs \subseteq 0 .. MaxErr /\ 0 \in Inputs
  /\ Settings \subseteq Controllers /\ Values \subseteq Words
  /\ MaxEvents \in Nat

VARIABLES
  con,                    \* controllers[i]
  measured,               \* EEP_Input_Value, in the same unit
  old_err, error_area,    \* con_aux[i]
  EEP_SetPoint, Set_Flag, \* PID[i]
  eeprom,                 \* the stored settings
  pc, err, op, oi,        \* the task and its locals
  todo,                   \* for each client, what is left of its handler of a register
  events,                 \* what the bound counts
  asked,                  \* history: the output in the last block write
  overtaken,              \* history: that write came in the middle of a computation
  stretched,              \* history: the integral was last made with another sample time
  crossed                 \* history: the stored fields that two wrote at the same time

aux     == <<old_err, error_area>>
setting == <<EEP_SetPoint, Set_Flag, eeprom>>
locals  == <<err, op, oi>>
history == <<asked, overtaken, stretched, crossed>>
vars    == <<con, measured, aux, setting, pc, locals, todo, events, history>>

Lo(n) == n % 2
Hi(n) == (n \div 2) % 2
Saving == {"saveAction", "saveSetpoint", "saveHi", "saveLo", "saveProp", "saveReset"}

(* pid_intial: the settings are loaded, and what is not stored is 0.       *)
Loaded(e) ==
  [auto_manual |-> 0, action |-> e.action, prop |-> e.prop, reset |-> e.reset, rate |-> 0,
   sample_time |-> 0, bias |-> 0, setpoint |-> (e.lo + 2 * e.hi) * Scale, input |-> 0, value |-> 0]

Idle == [w \in Clients |-> <<>>]

Init ==
  /\ eeprom = [action |-> 1, lo |-> 1, hi |-> 0, prop |-> 1, reset |-> 1]
  /\ measured = 0
  /\ con = Loaded(eeprom) /\ EEP_SetPoint = 1 /\ Set_Flag = FALSE
  /\ old_err = 0 /\ error_area = 0
  /\ pc = "sleep" /\ err = 0 /\ op = 0 /\ oi = 0 /\ todo = Idle
  /\ events = 0 /\ asked = 0 /\ overtaken = FALSE /\ stretched = FALSE /\ crossed = {}

Restart ==
  /\ events < MaxEvents /\ events' = events + 1
  /\ con' = Loaded(eeprom) /\ EEP_SetPoint' = eeprom.lo + 2 * eeprom.hi /\ Set_Flag' = FALSE
  /\ old_err' = 0 /\ error_area' = 0
  /\ pc' = "sleep" /\ err' = 0 /\ op' = 0 /\ oi' = 0 /\ todo' = Idle
  /\ asked' = 0 /\ overtaken' = FALSE /\ stretched' = FALSE /\ crossed' = {}
  /\ UNCHANGED <<eeprom, measured>>
-----------------------------------------------------------------------------
(* A turn takes the input over, *)
Turn ==
  /\ pc = "sleep"
  /\ \/ UNCHANGED <<measured, events>>
     \/ /\ events < MaxEvents /\ events' = events + 1
        /\ measured' \in Inputs \ {measured}
  /\ con' = [con EXCEPT !.input = measured']
  /\ pc' = "flag"
  /\ UNCHANGED <<aux, setting, locals, todo, history>>

Pending(w) == {todo[w][i].field : i \in DOMAIN todo[w]}

(* and saves what a block write brought: the flag is cleared first, each   *)
(* byte is taken from the settings of that moment.                         *)
TestFlag ==
  /\ pc = "flag"
  /\ pc' = IF Set_Flag THEN "saveAction" ELSE "begin"
  /\ Set_Flag' = FALSE
  /\ crossed' = IF Set_Flag THEN UNION {Pending(w) : w \in Clients} ELSE crossed
  /\ UNCHANGED <<con, measured, aux, EEP_SetPoint, eeprom, locals, todo, events, asked, overtaken,
                 stretched>>

Put(field, b) == eeprom' = [eeprom EXCEPT ![field] = b]

(* Variant: the flag is cleared when all is saved. *)
Save_Clears ==
  /\ \/ pc = "saveAction" /\ pc' = "saveSetpoint" /\ Put("action", con.action)
     \/ pc = "saveHi" /\ pc' = "saveLo" /\ Put("hi", Hi(EEP_SetPoint))
     \/ pc = "saveLo" /\ pc' = "saveProp" /\ Put("lo", Lo(EEP_SetPoint))
     \/ pc = "saveProp" /\ pc' = "saveReset" /\ Put("prop", con.prop)
     \/ pc = "saveReset" /\ pc' = "begin" /\ Put("reset", con.reset)
  /\ Set_Flag' = (Set_Flag /\ pc # "saveReset")
  /\ UNCHANGED <<con, measured, aux, EEP_SetPoint, locals, todo, events, history>>

Save ==
  /\ \/ pc = "saveAction" /\ pc' = "saveSetpoint" /\ Put("action", con.action)
     \/ pc = "saveHi" /\ pc' = "saveLo" /\ Put("hi", Hi(EEP_SetPoint))
     \/ pc = "saveLo" /\ pc' = "saveProp" /\ Put("lo", Lo(EEP_SetPoint))
     \/ pc = "saveProp" /\ pc' = "saveReset" /\ Put("prop", con.prop)
     \/ pc = "saveReset" /\ pc' = "begin" /\ Put("reset", con.reset)
  /\ UNCHANGED <<con, measured, aux, EEP_SetPoint, Set_Flag, locals, todo, events, history>>

SaveSetpoint ==
  /\ pc = "saveSetpoint" /\ pc' = "saveHi"
  /\ EEP_SetPoint' = (con.setpoint \div Scale) % 4
  /\ UNCHANGED <<con, measured, aux, Set_Flag, eeprom, locals, todo, events, history>>
-----------------------------------------------------------------------------
(* pid_controller.  Products and sums are words of the processor; a        *)
(* division by 0 gives 0, as it does not trap.                             *)
Int32(n) == ((n + WordMax) % (2 * WordMax)) - WordMax

Quot(a, b) == IF b = 0 THEN 0 ELSE IF a >= 0 THEN a \div b ELSE -((-a) \div b)

Clamp(n) == IF n > OutMax THEN OutMax ELSE IF n < 0 THEN 0 ELSE n

Signed(n) == IF con.action > 0 THEN n ELSE -n

Proportional(e) ==
  LET erp == Quot(Int32(Gain * e), con.prop) IN Signed(IF erp > OutMax THEN OutMax ELSE erp)

(* The sample time is set in the settings themselves, for all that follows. *)
Begin ==
  /\ pc = "begin" /\ pc' = "test"
  /\ con' = [con EXCEPT !.sample_time = Sample]
  /\ UNCHANGED <<measured, aux, setting, locals, todo, events, history>>

(* Variant: a manual output is computed too. *)
Test_Always ==
  /\ pc = "test"
  /\ err' = con.input - con.setpoint
  /\ op' = Proportional(err')
  /\ pc' = "integral"
  /\ UNCHANGED <<con, measured, aux, setting, oi, todo, events, history>>

Test ==
  /\ pc = "test"
  /\ IF con.auto_manual = 1
     THEN pc' = "sleep" /\ UNCHANGED <<err, op>>
     ELSE /\ err' = con.input - con.setpoint
          /\ op' = Proportional(err')
          /\ pc' = "integral"
  /\ UNCHANGED <<con, measured, aux, setting, oi, todo, events, history>>

(* Variant: only a positive integral is cut off. *)
Area_Top(sum) ==
  IF error_area >= 0 /\ sum > AreaMax THEN AreaMax ELSE sum

(* The integral is cut off on the side where it was. *)
Area(sum) ==
  IF error_area >= 0 /\ sum > AreaMax THEN AreaMax
  ELSE IF error_area < 0 /\ sum < -AreaMax THEN -AreaMax
  ELSE sum

(* The integral grows by the mean of two errors times the sample time, as  *)
(* the settings have it now.                                               *)
Sum == Int32(error_area + (old_err + err) * (con.sample_time \div 2))

(* Variant: the integral does not heed the action. *)
Integral_Unsigned ==
  /\ pc = "integral" /\ pc' = "output"
  /\ error_area' = Area(Sum)
  /\ oi' = Quot(Int32(con.reset * error_area'), ResetTime)
  /\ stretched' = (con.sample_time # Sample)
  /\ UNCHANGED <<con, measured, old_err, setting, err, op, todo, events, asked, overtaken, crossed>>

Integral ==
  /\ pc = "integral" /\ pc' = "output"
  /\ error_area' = Area(Sum)
  /\ oi' = Quot(Int32(Signed(con.reset * error_area')), ResetTime)
  /\ stretched' = (con.sample_time # Sample)
  /\ UNCHANGED <<con, measured, old_err, setting, err, op, todo, events, asked, overtaken, crossed>>

(* The derivative is that of an error of 0, as erp has been cleared.       *)
Derivative ==
  LET od == -Quot(Int32(Gain * old_err), con.prop)
  IN Quot(Int32(Signed(od * con.rate)), con.sample_time * RateTime)

Output ==
  /\ pc = "output" /\ pc' = "sleep"
  /\ LET out == Clamp(op + con.bias + Derivative)
     IN con' = [con EXCEPT !.value = IF con.reset > 0 THEN Clamp(out + oi) ELSE out]
  /\ old_err' = err
  /\ err' = 0 /\ op' = 0 /\ oi' = 0
  /\ UNCHANGED <<measured, error_area, setting, todo, events, history>>

Task == Turn \/ TestFlag \/ Save \/ SaveSetpoint \/ Begin \/ Test \/ Integral \/ Output
-----------------------------------------------------------------------------
(* write_user_data_by_block: all at once, the input and the output too.     *)
BlockWrite ==
  /\ events < MaxEvents /\ events' = events + 1
  /\ \E s \in Settings : con' = s /\ asked' = s.value
  /\ Set_Flag' = TRUE
  /\ overtaken' = (pc \in {"integral", "output"})
  /\ UNCHANGED <<measured, aux, EEP_SetPoint, eeprom, pc, locals, todo, stretched, crossed>>

(* MODBUS_PID1_MODE, .._SETPOINT, .._PTERM, .._ITERM: the setting, and then *)
(* byte by byte the EEPROM.                                                *)
W(field, b) == [field |-> field, b |-> b]

Register(w) ==
  /\ todo[w] = <<>> /\ events < MaxEvents /\ events' = events + 1
  /\ \E v \in Values :
       \/ /\ con' = [con EXCEPT !.setpoint = v * Scale] /\ EEP_SetPoint' = v
          /\ todo' = [todo EXCEPT ![w] = <<W("lo", Lo(v)), W("hi", Hi(v))>>]
       \/ /\ \/ /\ con' = [con EXCEPT !.action = IF v > 0 THEN 1 ELSE 0]
                /\ todo' = [todo EXCEPT ![w] = <<W("action", con'.action)>>]
             \/ con' = [con EXCEPT !.prop = v] /\ todo' = [todo EXCEPT ![w] = <<W("prop", v)>>]
             \/ con' = [con EXCEPT !.reset = v] /\ todo' = [todo EXCEPT ![w] = <<W("reset", v)>>]
          /\ UNCHANGED EEP_SetPoint
  /\ crossed' = (crossed \ Pending(w)')
                  \cup {f \in Pending(w)' : pc \in Saving \/ \E c \in Clients \ {w} : f \in Pending(c)}
  /\ UNCHANGED <<measured, aux, Set_Flag, eeprom, pc, locals, asked, overtaken, stretched>>

Store(w) ==
  /\ todo[w] # <<>> /\ todo' = [todo EXCEPT ![w] = Tail(@)]
  /\ Put(Head(todo[w]).field, Head(todo[w]).b)
  /\ UNCHANGED <<con, measured, aux, EEP_SetPoint, Set_Flag, pc, locals, events, history>>
-----------------------------------------------------------------------------
Next == Task \/ BlockWrite \/ Restart \/ \E w \in Clients : Register(w) \/ Store(w)

(* The task runs every second, as tasks of higher priority sleep between.  *)
Spec == Init /\ [][Next]_vars /\ WF_vars(Task) /\ \A w \in Clients : WF_vars(Store(w))
-----------------------------------------------------------------------------
Writes == [field : {"action", "lo", "hi"}, b : Byte] \cup [field : {"prop", "reset"}, b : Words]
Eeprom == [action : Byte, lo : Byte, hi : Byte, prop : Words, reset : Words]

TypeOK ==
  /\ con \in Controllers /\ measured \in Inputs
  /\ old_err \in -MaxErr .. MaxErr /\ err \in -MaxErr .. MaxErr
  /\ error_area \in Int /\ op \in Int /\ oi \in Int
  /\ EEP_SetPoint \in Words /\ Set_Flag \in BOOLEAN /\ eeprom \in Eeprom
  /\ pc \in {"sleep", "flag", "begin", "test", "integral", "output"} \cup Saving
  /\ todo \in [Clients -> Seq(Writes)]
  /\ events \in 0 .. MaxEvents /\ asked \in Nat
  /\ overtaken \in BOOLEAN /\ stretched \in BOOLEAN /\ crossed \subseteq Fields

(* The integral is only cut off on the side where it was, so it may jump   *)
(* past the limit of the other side, but not further than one step; where   *)
(* the step was made with the sample time of the task, its product with     *)
(* the reset is a word.  A block write in the middle brings another sample *)
(* time and so another step, which the next sample cuts off.  The errors   *)
(* must be small enough for the sum to be a word, ErrorsFit.               *)
Larger(a, b) == IF a > b THEN a ELSE b
Most(time) == Larger(AreaMax, 2 * MaxErr * (time \div 2))
ErrorsFit == 2 * Most(MaxSample) < WordMax /\ 3 * Most(Sample) < WordMax

AreaBounded ==
  /\ error_area \in -Most(MaxSample) .. Most(MaxSample)
  /\ ~stretched => /\ error_area \in -Most(Sample) .. Most(Sample)
                   /\ Int32(con.reset * error_area) = con.reset * error_area

(* What a restart would load is what is used, once no save is due and no    *)
(* handler is at work: but for the fields that the handlers of two clients, *)
(* or one and the save of a block write, wrote at the same time, until      *)
(* they are written again by one alone.                                    *)
Stored == [action |-> con.action, lo |-> Lo(con.setpoint \div Scale),
           hi |-> Hi(con.setpoint \div Scale), prop |-> con.prop, reset |-> con.reset]
Kept ==
  ~Set_Flag /\ pc \notin Saving /\ todo = Idle
    => \A f \in Fields \ crossed : eeprom[f] = Stored[f]

(* A manual output stays as it was written, unless it was written in the    *)
(* middle of a computation: that ends with its own output.                 *)
ManualHolds == con.auto_manual = 1 /\ ~overtaken => con.value = asked

(* The integral never works against the error for good: an error that stays *)
(* on one side leaves at least the output of the proportional term, or at   *)
(* most, as the action is, however far the integral was on the other side.  *)
Error == measured - con.setpoint
Straight == Clamp(Proportional(Error) + con.bias)
Working == con.auto_manual = 0 /\ con.rate = 0 /\ Error # 0
Opens == (Error > 0) <=> (con.action > 0)
Unwinds ==
  /\ <>[](Working /\ Opens) => <>[](con.value >= Straight)
  /\ <>[](Working /\ ~Opens) => <>[](con.value <= Straight)
=============================================================================
